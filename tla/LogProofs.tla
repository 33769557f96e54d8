------------------------------ MODULE LogProofs ------------------------------
(* Theorems of the two logs of a client, for any caps, any number of frames, *)
(* exchanges and sessions.  The Network log (FetchLog) stays the newest run  *)
(* of exchanges.  The Protocol log (MessageLog) hides no response and marks  *)
(* only what was refused.                                                    *)
EXTENDS FetchLog, MessageLog, TLAPS, SequenceTheorems, WellFoundedInduction

Exchange == [n : (1 - Stored)..MaxCalls, body : BOOLEAN]

(* NetworkIsRecent of a log, c exchanges having been tracked.  d of them     *)
(* before the last clear, and the bodies of rd having been read.             *)
Recent(log, c, d, rd) ==
  /\ \A i, j \in 1..Len(log) : i < j => log[i].n < log[j].n
  /\ c > d => Len(log) > 0 /\ log[Len(log)].n = c
  /\ \A i \in 1..Len(log) :
       log[i].n > 0 => /\ log[i].n = c - (Len(log) - i)
                       /\ log[i].n > d
                       /\ log[i].body <=> log[i].n \in rd

(* What it rests on: bodies are read of exchanges that were tracked, and     *)
(* nothing is of the older page before that is loaded.                       *)
FetchIInv ==
  /\ FetchTypeOK
  /\ cleared <= calls
  /\ bodies \subseteq 1..calls /\ read \subseteq 1..calls
  /\ loading => \A i \in 1..Len(network) : network[i].n > 0
  /\ Recent(network, calls, cleared, read)

LEMMA RecentIsNetwork == FetchTypeOK /\ Recent(network, calls, cleared, read) => NetworkIsRecent
<1> SUFFICES ASSUME FetchTypeOK, Recent(network, calls, cleared, read) PROVE NetworkIsRecent
  OBVIOUS
<1>1. network \in Seq(Exchange) /\ DOMAIN network = 1..Len(network)
  BY DEF FetchTypeOK, Exchange
<1>2. Len(network) > 0 => network # <<>>
  BY <1>1
<1> QED BY <1>1, <1>2 DEF Recent, NetworkIsRecent

(* The newest exchanges of a log, however few, are as recent.                *)
LEMMA SuffixRecent ==
  ASSUME NEW log \in Seq(Exchange), NEW k \in 1..Len(log),
         NEW c \in Nat, NEW d \in Nat, NEW rd, Recent(log, c, d, rd)
  PROVE  LET suffix == SubSeq(log, Len(log) - k + 1, Len(log))
         IN /\ suffix \in Seq(Exchange) /\ Len(suffix) = k
            /\ \A i \in 1..k : suffix[i] = log[Len(log) - k + i]
            /\ Recent(suffix, c, d, rd)
<1> DEFINE L == Len(log)
           suffix == SubSeq(log, L - k + 1, L)
<1>1. L \in Nat /\ k \in Nat /\ k >= 1 /\ k <= L
  OBVIOUS
<1>2. suffix \in Seq(Exchange) /\ Len(suffix) = k
  BY <1>1
<1>3. \A i \in 1..k : suffix[i] = log[L - k + i]
  BY <1>1
<1> HIDE DEF suffix, L
<1>4. \A i \in 1..k : L - k + i \in 1..L /\ L - (L - k + i) = k - i
  BY <1>1
<1>5. \A i, j \in 1..L : i < j => log[i].n < log[j].n
  BY DEF Recent, L
<1>6. \A i \in 1..L : log[i].n > 0 => /\ log[i].n = c - (L - i)
                                      /\ log[i].n > d
                                      /\ log[i].body <=> log[i].n \in rd
  BY DEF Recent, L
<1>7. c > d => log[L].n = c
  BY DEF Recent, L
<1>8. \A i, j \in 1..k : i < j => suffix[i].n < suffix[j].n
  <2> SUFFICES ASSUME NEW i \in 1..k, NEW j \in 1..k, i < j PROVE suffix[i].n < suffix[j].n
    OBVIOUS
  <2>1. L - k + i < L - k + j
    BY <1>1
  <2> QED BY <1>3, <1>4, <1>5, <2>1
<1>9. c > d => k > 0 /\ suffix[k].n = c
  <2>1. L - k + k = L /\ k \in 1..k
    BY <1>1
  <2> QED BY <1>1, <1>3, <1>7, <2>1
<1>10. \A i \in 1..k : suffix[i].n > 0 => /\ suffix[i].n = c - (k - i)
                                          /\ suffix[i].n > d
                                          /\ suffix[i].body <=> suffix[i].n \in rd
  <2> SUFFICES ASSUME NEW i \in 1..k, suffix[i].n > 0
               PROVE  /\ suffix[i].n = c - (k - i)
                      /\ suffix[i].n > d
                      /\ suffix[i].body <=> suffix[i].n \in rd
    OBVIOUS
  <2>1. /\ suffix[i] = log[L - k + i] /\ L - k + i \in 1..L /\ L - (L - k + i) = k - i
    BY <1>3, <1>4
  <2> QED BY <1>6, <2>1
<1>11. Recent(suffix, c, d, rd)
  BY <1>2, <1>8, <1>9, <1>10 DEF Recent
<1> QED BY <1>2, <1>3, <1>11 DEF suffix, L
(* Appending the next exchange to a suffix of the log. *)
LEMMA AppendRecent ==
  ASSUME NEW log \in Seq(Exchange), NEW old \in Seq(Exchange), Len(old) <= Len(log),
         \A i \in 1..Len(old) : old[i] = log[Len(log) - Len(old) + i],
         NEW c \in Nat, NEW d \in Nat, d <= c, c < MaxCalls, NEW rd \in SUBSET (1..c),
         Recent(log, c, d, rd)
  PROVE  LET next == Append(old, [n |-> c + 1, body |-> FALSE])
         IN next \in Seq(Exchange) /\ Len(next) = Len(old) + 1 /\ Recent(next, c + 1, d, rd)
<1> DEFINE e == [n |-> c + 1, body |-> FALSE]
           next == Append(old, e)
           L == Len(log)
           K == Len(old)
<1>1. L \in Nat /\ K \in Nat /\ K <= L
  OBVIOUS
<1>2. e \in Exchange /\ e.n = c + 1 /\ e.body = FALSE
  BY FetchLogAssumption DEF Exchange
<1>3. /\ next \in Seq(Exchange) /\ Len(next) = K + 1
      /\ next[K + 1] = e /\ \A i \in 1..K : next[i] = old[i]
  <2> HIDE DEF e
  <2> QED BY <1>2
<1>4. \A i \in 1..K : next[i] = log[L - K + i]
  BY <1>3
<1>5. \A i, j \in 1..L : i < j => log[i].n < log[j].n
  BY DEF Recent
<1>6. \A i \in 1..L : log[i].n > 0 => /\ log[i].n = c - (L - i)
                                      /\ log[i].n > d
                                      /\ log[i].body <=> log[i].n \in rd
  BY DEF Recent
<1>7. \A i \in 1..L : log[i].n \in Int
  <2>1. \A i \in 1..L : log[i] \in Exchange
    OBVIOUS
  <2> QED BY <2>1, FetchLogAssumption DEF Exchange
<1> HIDE DEF L, K, e, next
<1>8. \A i \in 1..K : L - K + i \in 1..L /\ L - (L - K + i) = K - i
  BY <1>1
<1>9. \A i \in 1..K : next[i].n < c + 1
  <2> TAKE i \in 1..K
  <2>1. log[L - K + i].n \in Int /\ (log[L - K + i].n > 0 => log[L - K + i].n = c - (K - i))
    BY <1>6, <1>7, <1>8
  <2>2. c - (K - i) <= c /\ K - i \in Nat
    BY <1>1
  <2> QED BY <1>1, <1>4, <2>1, <2>2
<1>10. \A i, j \in 1..(K + 1) : i < j => next[i].n < next[j].n
  <2> SUFFICES ASSUME NEW i \in 1..(K + 1), NEW j \in 1..(K + 1), i < j
               PROVE  next[i].n < next[j].n
    OBVIOUS
  <2>1. i \in 1..K
    BY <1>1
  <2>2. CASE j = K + 1
    BY <1>2, <1>3, <1>9, <2>1, <2>2
  <2>3. CASE j # K + 1
    <3>1. j \in 1..K
      BY <1>1, <2>3
    <3>2. L - K + i < L - K + j
      BY <1>1
    <3> QED BY <1>4, <1>5, <1>8, <2>1, <3>1, <3>2
  <2> QED BY <2>2, <2>3
<1>11. \A i \in 1..(K + 1) : next[i].n > 0 => /\ next[i].n = (c + 1) - (K + 1 - i)
                                              /\ next[i].n > d
                                              /\ next[i].body <=> next[i].n \in rd
  <2> SUFFICES ASSUME NEW i \in 1..(K + 1), next[i].n > 0
               PROVE  /\ next[i].n = (c + 1) - (K + 1 - i)
                      /\ next[i].n > d
                      /\ next[i].body <=> next[i].n \in rd
    OBVIOUS
  <2>1. CASE i = K + 1
    <3>1. next[i] = e
      BY <1>3, <2>1
    <3>2. (c + 1) - (K + 1 - i) = c + 1 /\ c + 1 > d /\ c + 1 \notin rd
      BY <1>1, <2>1
    <3> QED BY <1>2, <3>1, <3>2
  <2>2. CASE i # K + 1
    <3>1. i \in 1..K
      BY <1>1, <2>2
    <3>2. next[i] = log[L - K + i] /\ L - K + i \in 1..L /\ L - (L - K + i) = K - i
      BY <1>4, <1>8, <3>1
    <3>3. c - (K - i) = (c + 1) - (K + 1 - i)
      BY <1>1
    <3> QED BY <1>6, <3>2, <3>3
  <2> QED BY <2>1, <2>2
<1>12. Recent(next, c + 1, d, rd)
  <2>1. c + 1 > d => Len(next) > 0 /\ next[Len(next)].n = c + 1
    BY <1>1, <1>2, <1>3
  <2>2. Len(next) = K + 1
    BY <1>3
  <2>3. \A i \in 1..Len(next) : next[i].n > 0 => /\ next[i].n = (c + 1) - (Len(next) - i)
                                                 /\ next[i].n > d
                                                 /\ next[i].body <=> next[i].n \in rd
    <3> SUFFICES ASSUME NEW i \in 1..Len(next), next[i].n > 0
                 PROVE  /\ next[i].n = (c + 1) - (Len(next) - i)
                        /\ next[i].n > d
                        /\ next[i].body <=> next[i].n \in rd
      OBVIOUS
    <3>1. i \in 1..(K + 1)
      BY <2>2
    <3>2. /\ next[i].n = (c + 1) - (K + 1 - i)
          /\ next[i].n > d
      BY <1>11, <3>1
    <3>3. next[i].body <=> next[i].n \in rd
      BY <1>11, <3>1
    <3>4. (c + 1) - (Len(next) - i) = (c + 1) - (K + 1 - i)
      <4>1. Len(next) \in Int /\ i \in Int /\ K \in Int
        BY <1>1, <2>2, <3>1
      <4> QED BY <2>2, <4>1
    <3> QED BY <3>2, <3>3, <3>4
  <2>4. \A i, j \in 1..Len(next) : i < j => next[i].n < next[j].n
    BY <1>10, <2>2
  <2> QED BY <2>1, <2>3, <2>4 DEF Recent
<1> QED BY <1>3, <1>12 DEF next, e, K

-----------------------------------------------------------------------------
LEMMA FetchInitInv == FetchInit => FetchIInv
<1> SUFFICES ASSUME FetchInit PROVE FetchIInv
  OBVIOUS
<1>1. network = <<>> /\ network \in Seq(Exchange) /\ Len(network) = 0
  BY DEF FetchInit
<1>2. calls = 0 /\ cleared = 0 /\ bodies = {} /\ read = {} /\ dropped = {}
  BY DEF FetchInit
<1>3. FetchTypeOK
  <2>1. cap \in Caps /\ loading \in BOOLEAN /\ cap \in Nat
    BY FetchLogAssumption DEF FetchInit
  <2> QED BY <1>1, <1>2, <2>1, FetchLogAssumption DEF FetchTypeOK, Exchange
<1>4. Recent(network, calls, cleared, read)
  BY <1>1, <1>2 DEF Recent
<1> QED BY <1>1, <1>2, <1>3, <1>4 DEF FetchIInv

(* The facts every step starts from. *)
LEMMA FetchFacts ==
  ASSUME FetchIInv
  PROVE  /\ network \in Seq(Exchange) /\ Len(network) \in Nat
         /\ DOMAIN network = 1..Len(network)
         /\ \A i \in 1..Len(network) : network[i] \in Exchange /\ network[i].n \in Int
         /\ cap \in Caps /\ cap \in Nat /\ (cap # 0 => Len(network) <= cap)
         /\ calls \in Nat /\ calls <= MaxCalls /\ cleared \in Nat /\ cleared <= calls
         /\ MaxCalls \in Nat /\ Stored \in Nat
<1>1. network \in Seq(Exchange)
  BY DEF FetchIInv, FetchTypeOK, Exchange
<1>2. \A i \in 1..Len(network) : network[i] \in Exchange
  BY <1>1
<1>3. \A e \in Exchange : e.n \in Int
  BY FetchLogAssumption DEF Exchange
<1>4. MaxCalls \in Nat /\ Stored \in Nat /\ Caps \subseteq Nat
  BY FetchLogAssumption
<1>5. /\ cap \in Caps /\ (cap # 0 => Len(network) <= cap)
      /\ calls \in 0..MaxCalls /\ cleared \in 0..MaxCalls /\ cleared <= calls
  BY DEF FetchIInv, FetchTypeOK
<1>6. Len(network) \in Nat /\ DOMAIN network = 1..Len(network)
  BY <1>1
<1>7. calls \in Nat /\ calls <= MaxCalls /\ cleared \in Nat /\ cap \in Nat
  BY <1>4, <1>5
<1>8. \A i \in 1..Len(network) : network[i] \in Exchange /\ network[i].n \in Int
  BY <1>2, <1>3
<1> QED BY <1>1, <1>4, <1>5, <1>6, <1>7, <1>8

LEMMA TrackInv ==
  ASSUME FetchIInv, NEW reads \in BOOLEAN, Track(reads)
  PROVE  FetchIInv'
<1> DEFINE old == IF cap # 0 /\ Len(network) >= cap THEN Tail(network) ELSE network
<1>1. /\ old \in Seq(Exchange) /\ Len(old) <= Len(network) /\ Len(old) \in Nat
      /\ \A i \in 1..Len(old) : old[i] = network[Len(network) - Len(old) + i]
      /\ cap # 0 => Len(old) + 1 <= cap
  <2>1. CASE cap # 0 /\ Len(network) >= cap
    <3>1. network # <<>> /\ Len(network) = cap
      BY <2>1, FetchFacts
    <3>2. /\ Tail(network) \in Seq(Exchange) /\ Len(Tail(network)) = Len(network) - 1
          /\ \A i \in 1..Len(Tail(network)) : Tail(network)[i] = network[i + 1]
      BY <3>1, FetchFacts
    <3>3. \A i \in 1..Len(Tail(network)) : Len(network) - Len(Tail(network)) + i = i + 1
      BY <3>2, FetchFacts
    <3>4. Len(network) - 1 \in Nat /\ Len(network) - 1 <= Len(network) /\ Len(network) - 1 + 1 <= cap
      BY <3>1, FetchFacts
    <3>5. old = Tail(network)
      BY <2>1
    <3> HIDE DEF old
    <3> QED BY <3>2, <3>3, <3>4, <3>5
  <2>2. CASE ~(cap # 0 /\ Len(network) >= cap)
    <3>1. old = network
      BY <2>2
    <3> HIDE DEF old
    <3>2. \A i \in 1..Len(network) : Len(network) - Len(network) + i = i
      BY FetchFacts
    <3>3. cap # 0 => Len(network) + 1 <= cap
      BY <2>2, FetchFacts
    <3> QED BY <3>1, <3>2, <3>3, FetchFacts
  <2> QED BY <2>1, <2>2
<1>2. network' = Append(old, [n |-> calls + 1, body |-> FALSE]) /\ calls' = calls + 1
      /\ calls < MaxCalls
  BY DEF Track
<1> HIDE DEF old
<1>3. Recent(network, calls, cleared, read) /\ read \in SUBSET (1..calls)
  BY DEF FetchIInv
<1>4. /\ network' \in Seq(Exchange) /\ Len(network') = Len(old) + 1
      /\ Recent(network', calls + 1, cleared, read)
  BY <1>1, <1>2, <1>3, AppendRecent, FetchFacts
<1>5. 1..calls \subseteq 1..(calls + 1) /\ calls + 1 \in 1..MaxCalls /\ calls + 1 \in 1..(calls + 1)
  BY <1>2, FetchFacts
<1>6. bodies' \subseteq 1..calls' /\ read' \subseteq 1..calls'
  BY <1>2, <1>5 DEF Track, FetchIInv
<1>7. FetchTypeOK'
  <2>1. /\ network' \in Seq([n : (1 - Stored)..MaxCalls, body : BOOLEAN])
        /\ cap' \in Caps /\ (cap' # 0 => Len(network') <= cap')
    BY <1>1, <1>4, FetchFacts DEF Track, Exchange
  <2>2. bodies' \subseteq 1..MaxCalls /\ read' \subseteq 1..MaxCalls /\ calls' \in 0..MaxCalls
    BY <1>2, <1>5, <1>6, FetchFacts
  <2> QED BY <2>1, <2>2 DEF FetchTypeOK, Track, FetchIInv
<1>8. loading' => \A i \in 1..Len(network') : network'[i].n > 0
  <2> SUFFICES ASSUME loading, NEW i \in 1..Len(network') PROVE network'[i].n > 0
    BY DEF Track
  <2>1. CASE i = Len(old) + 1
    <3>1. network'[i] = [n |-> calls + 1, body |-> FALSE]
      BY <1>1, <1>2, <2>1
    <3> QED BY <3>1, FetchFacts
  <2>2. CASE i # Len(old) + 1
    <3>1. i \in 1..Len(old) /\ network'[i] = old[i]
      BY <1>1, <1>2, <1>4, <2>2
    <3>2. old[i] = network[Len(network) - Len(old) + i]
          /\ Len(network) - Len(old) + i \in 1..Len(network)
      BY <1>1, <3>1, FetchFacts
    <3>3. \A k \in 1..Len(network) : network[k].n > 0
      BY DEF FetchIInv
    <3> QED BY <3>1, <3>2, <3>3
  <2> QED BY <2>1, <2>2
<1>9. cleared' <= calls'
  BY <1>2, FetchFacts DEF Track
<1>10. Recent(network', calls', cleared', read')
  BY <1>2, <1>4 DEF Track
<1> QED BY <1>6, <1>7, <1>8, <1>9, <1>10 DEF FetchIInv
LEMMA BodyArrivesInv ==
  ASSUME FetchIInv, NEW x \in bodies, BodyArrives(x)
  PROVE  FetchIInv'
<1>1. /\ bodies' = bodies \ {x} /\ read' = read \union {x} /\ x \in 1..calls
      /\ UNCHANGED <<cap, calls, loading, cleared>>
  BY DEF BodyArrives, FetchIInv
<1>2. 1..calls \subseteq 1..MaxCalls
  BY FetchFacts
<1>3. /\ cleared' <= calls' /\ bodies' \subseteq 1..calls' /\ read' \subseteq 1..calls'
      /\ bodies' \subseteq 1..MaxCalls /\ read' \subseteq 1..MaxCalls
  BY <1>1, <1>2 DEF FetchIInv
<1>4. dropped' \subseteq 1..MaxCalls
  BY <1>1, <1>2 DEF BodyArrives, FetchIInv, FetchTypeOK
<1>5. /\ \A i, j \in 1..Len(network) : i < j => network[i].n < network[j].n
      /\ calls > cleared => Len(network) > 0 /\ network[Len(network)].n = calls
      /\ \A i \in 1..Len(network) :
           network[i].n > 0 => /\ network[i].n = calls - (Len(network) - i)
                               /\ network[i].n > cleared
                               /\ network[i].body <=> network[i].n \in read
  BY DEF FetchIInv, Recent
<1>6. /\ network' \in Seq(Exchange) /\ Len(network') = Len(network)
      /\ \A i \in 1..Len(network) :
           /\ network'[i].n = network[i].n
           /\ network'[i].body <=> network[i].body \/ network[i].n = x
  <2>1. CASE \E i \in DOMAIN network : network[i].n = x
    <3> DEFINE upd(i) == IF network[i].n = x THEN [network[i] EXCEPT !.body = TRUE] ELSE network[i]
    <3>1. network' = [i \in 1..Len(network) |-> upd(i)]
      BY <2>1, FetchFacts DEF BodyArrives
    <3>2. \A i \in 1..Len(network) : upd(i) \in Exchange
      <4> TAKE i \in 1..Len(network)
      <4>1. network[i] \in Exchange
        BY FetchFacts
      <4> QED BY <4>1 DEF Exchange
    <3>3. \A i \in 1..Len(network) : upd(i).n = network[i].n
      <4> TAKE i \in 1..Len(network)
      <4>1. network[i] \in Exchange
        BY FetchFacts
      <4> QED BY <4>1 DEF Exchange
    <3>4. \A i \in 1..Len(network) : upd(i).body <=> network[i].body \/ network[i].n = x
      <4> TAKE i \in 1..Len(network)
      <4>1. network[i] \in Exchange
        BY FetchFacts
      <4>2. CASE network[i].n = x
        BY <4>1, <4>2 DEF Exchange
      <4>3. CASE network[i].n # x
        BY <4>3
      <4> QED BY <4>2, <4>3
    <3> HIDE DEF upd
    <3>5. network' \in Seq(Exchange) /\ Len(network') = Len(network)
      BY <3>1, <3>2, FetchFacts
    <3>6. \A i \in 1..Len(network) : network'[i] = upd(i)
      BY <3>1
    <3> QED BY <3>3, <3>4, <3>5, <3>6
  <2>2. CASE ~\E i \in DOMAIN network : network[i].n = x
    <3>1. network' = network /\ \A i \in 1..Len(network) : network[i].n # x
      BY <2>2, FetchFacts DEF BodyArrives
    <3> QED BY <3>1, FetchFacts
  <2> QED BY <2>1, <2>2
<1>7. FetchTypeOK'
  BY <1>1, <1>3, <1>4, <1>6 DEF FetchTypeOK, FetchIInv, Exchange
<1>8. loading' => \A i \in 1..Len(network') : network'[i].n > 0
  BY <1>1, <1>6 DEF FetchIInv
<1>9. Recent(network', calls', cleared', read')
  <2>1. \A i, j \in 1..Len(network') : i < j => network'[i].n < network'[j].n
    BY <1>5, <1>6
  <2>2. calls' > cleared' => Len(network') > 0 /\ network'[Len(network')].n = calls'
    <3>1. Len(network) > 0 => Len(network) \in 1..Len(network)
      BY FetchFacts
    <3> QED BY <1>1, <1>5, <1>6, <3>1
  <2>3. ASSUME NEW i \in 1..Len(network'), network'[i].n > 0
        PROVE  /\ network'[i].n = calls' - (Len(network') - i)
               /\ network'[i].n > cleared'
               /\ network'[i].body <=> network'[i].n \in read'
    <3>1. i \in 1..Len(network) /\ network[i].n > 0 /\ network'[i].n = network[i].n
      BY <1>6, <2>3
    <3>2. network'[i].n = calls' - (Len(network') - i) /\ network'[i].n > cleared'
      BY <1>1, <1>5, <1>6, <3>1
    <3>3. network[i].body <=> network[i].n \in read
      BY <1>5, <3>1
    <3>4. network'[i].body <=> network[i].body \/ network[i].n = x
      BY <1>6, <3>1
    <3>5. network'[i].body <=> network'[i].n \in read'
      BY <1>1, <3>1, <3>3, <3>4
    <3> QED BY <3>2, <3>5
  <2> QED BY <2>1, <2>2, <2>3 DEF Recent
<1> QED BY <1>3, <1>7, <1>8, <1>9 DEF FetchIInv

(* Keeping the newest k entries: setMaxFetchRequests, and slice in hydrate.  *)
LEMMA KeepNewest ==
  ASSUME FetchIInv, NEW log \in Seq(Exchange), Recent(log, calls, cleared, read), NEW k \in Nat,
         k > 0, Len(log) > k
  PROVE  LET suffix == SubSeq(log, Len(log) - k + 1, Len(log))
         IN /\ suffix \in Seq(Exchange) /\ Len(suffix) = k
            /\ \A i \in 1..k : suffix[i] = log[Len(log) - k + i] /\ Len(log) - k + i \in 1..Len(log)
            /\ Recent(suffix, calls, cleared, read)
<1>1. k \in 1..Len(log) /\ Len(log) \in Nat
  OBVIOUS
<1>2. \A i \in 1..k : Len(log) - k + i \in 1..Len(log)
  BY <1>1
<1> QED BY <1>1, <1>2, SuffixRecent, FetchFacts

LEMMA SetMaxInv ==
  ASSUME FetchIInv, NEW max \in Caps, SetMaxFetchRequests(max)
  PROVE  FetchIInv'
<1>1. /\ cap' = max /\ max \in Nat
      /\ UNCHANGED <<calls, bodies, loading, dropped, read, cleared>>
  BY FetchLogAssumption DEF SetMaxFetchRequests
<1>2. Recent(network, calls, cleared, read)
  BY DEF FetchIInv
<1>3. /\ network' \in Seq(Exchange) /\ (max # 0 => Len(network') <= max)
      /\ Recent(network', calls, cleared, read)
      /\ loading => \A i \in 1..Len(network') : network'[i].n > 0
  <2>1. CASE max > 0 /\ Len(network) > max
    <3>1. network' = SubSeq(network, Len(network) - max + 1, Len(network))
      BY <2>1 DEF SetMaxFetchRequests
    <3>2. /\ network' \in Seq(Exchange) /\ Len(network') = max
          /\ \A i \in 1..max : network'[i] = network[Len(network) - max + i]
                             /\ Len(network) - max + i \in 1..Len(network)
          /\ Recent(network', calls, cleared, read)
      BY <1>1, <1>2, <2>1, <3>1, KeepNewest, FetchFacts
    <3>3. loading => \A i \in 1..Len(network') : network'[i].n > 0
      BY <3>2 DEF FetchIInv
    <3> QED BY <1>1, <3>2, <3>3
  <2>2. CASE ~(max > 0 /\ Len(network) > max)
    <3>1. network' = network
      BY <2>2 DEF SetMaxFetchRequests
    <3>2. max # 0 => Len(network) <= max
      BY <1>1, <2>2, FetchFacts
    <3> QED BY <1>2, <3>1, <3>2, FetchFacts DEF FetchIInv
  <2> QED BY <2>1, <2>2
<1>4. FetchTypeOK'
  BY <1>1, <1>3 DEF FetchIInv, FetchTypeOK, Exchange
<1> QED BY <1>1, <1>3, <1>4 DEF FetchIInv
LEMMA HydrateInv ==
  ASSUME FetchIInv, Hydrate
  PROVE  FetchIInv'
<1>1. loading /\ loading' = FALSE /\ UNCHANGED <<cap, calls, bodies, dropped, read, cleared>>
  BY DEF Hydrate
<1> DEFINE L == Len(network)
           whole == OlderPage \o network
<1>2. /\ OlderPage \in Seq(Exchange) /\ Len(OlderPage) = Stored
      /\ \A i \in 1..Stored : OlderPage[i].n = i - Stored
  <2> DEFINE old(i) == [n |-> i - Stored, body |-> FALSE]
  <2>1. \A i \in 1..Stored : i - Stored \in (1 - Stored)..MaxCalls
    BY FetchFacts
  <2>2. \A i \in 1..Stored : old(i) \in Exchange
    BY <2>1 DEF Exchange
  <2>3. OlderPage = [i \in 1..Stored |-> old(i)]
    BY DEF OlderPage
  <2>4. \A i \in 1..Stored : old(i).n = i - Stored
    OBVIOUS
  <2> HIDE DEF old
  <2> QED BY <2>2, <2>3, <2>4, FetchFacts
<1>3. /\ whole \in Seq(Exchange) /\ Len(whole) = Stored + L
      /\ \A i \in 1..Stored : whole[i] = OlderPage[i]
      /\ \A i \in 1..L : whole[Stored + i] = network[i]
  <2> DEFINE page == OlderPage
  <2>1. page \in Seq(Exchange) /\ network \in Seq(Exchange) /\ Len(page) = Stored /\ Stored \in Nat
    BY <1>2, FetchFacts
  <2> HIDE DEF page
  <2>2. page \o network \in Seq(Exchange) /\ Len(page \o network) = Len(page) + Len(network)
    BY <2>1
  <2>3. \A i \in 1..Len(page) : (page \o network)[i] = page[i]
    BY <2>1
  <2>4. \A i \in 1..Len(network) : (page \o network)[Len(page) + i] = network[i]
    BY <2>1
  <2> QED BY <2>1, <2>2, <2>3, <2>4 DEF page
<1>4. L \in Nat /\ Stored \in Nat /\ calls \in Nat
  BY FetchFacts
<1>5. /\ \A i, j \in 1..L : i < j => network[i].n < network[j].n
      /\ calls > cleared => L > 0 /\ network[L].n = calls
      /\ \A i \in 1..L :
           network[i].n > 0 => /\ network[i].n = calls - (L - i)
                               /\ network[i].n > cleared
                               /\ network[i].body <=> network[i].n \in read
  BY DEF FetchIInv, Recent
<1>6. \A i \in 1..L : network[i].n > 0
  BY <1>1 DEF FetchIInv
<1> HIDE DEF whole, L
<1>7. \A i \in 1..(Stored + L) :
        \/ i \in 1..Stored /\ whole[i].n = i - Stored
        \/ i - Stored \in 1..L /\ whole[i] = network[i - Stored]
  <2> TAKE i \in 1..(Stored + L)
  <2>1. CASE i \in 1..Stored
    BY <1>2, <1>3, <2>1
  <2>2. CASE i \notin 1..Stored
    <3>1. i - Stored \in 1..L /\ Stored + (i - Stored) = i
      BY <1>4, <2>2
    <3>2. whole[Stored + (i - Stored)] = network[i - Stored]
      BY <1>3, <3>1
    <3> QED BY <3>1, <3>2
  <2> QED BY <2>1, <2>2
<1>8. \A i, j \in 1..(Stored + L) : i < j => whole[i].n < whole[j].n
  <2> SUFFICES ASSUME NEW i \in 1..(Stored + L), NEW j \in 1..(Stored + L), i < j
               PROVE  whole[i].n < whole[j].n
    OBVIOUS
  <2>1. CASE i \in 1..Stored /\ whole[i].n = i - Stored
    <3>1. CASE j \in 1..Stored /\ whole[j].n = j - Stored
      BY <1>4, <2>1, <3>1
    <3>2. CASE j - Stored \in 1..L /\ whole[j] = network[j - Stored]
      <4>1. network[j - Stored].n > 0 /\ network[j - Stored].n \in Int
        BY <1>6, <3>2, FetchFacts DEF L
      <4>2. i - Stored <= 0
        BY <1>4, <2>1
      <4> QED BY <1>4, <2>1, <3>2, <4>1, <4>2
    <3> QED BY <1>7, <3>1, <3>2
  <2>2. CASE i - Stored \in 1..L /\ whole[i] = network[i - Stored]
    <3>1. j \notin 1..Stored
      BY <1>4, <2>2
    <3>2. j - Stored \in 1..L /\ whole[j] = network[j - Stored]
      BY <1>7, <3>1
    <3>3. i - Stored < j - Stored
      BY <1>4
    <3> QED BY <1>5, <2>2, <3>2, <3>3
  <2> QED BY <1>7, <2>1, <2>2
<1>9. calls > cleared => Stored + L > 0 /\ whole[Stored + L].n = calls
  <2> HAVE calls > cleared
  <2>1. L > 0 /\ network[L].n = calls /\ L \in 1..L
    BY <1>4, <1>5
  <2>2. whole[Stored + L] = network[L]
    BY <1>3, <2>1 DEF L
  <2> QED BY <1>4, <2>1, <2>2
<1>10. \A i \in 1..(Stored + L) :
         whole[i].n > 0 => /\ whole[i].n = calls - ((Stored + L) - i)
                           /\ whole[i].n > cleared
                           /\ whole[i].body <=> whole[i].n \in read
  <2> SUFFICES ASSUME NEW i \in 1..(Stored + L), whole[i].n > 0
               PROVE  /\ whole[i].n = calls - ((Stored + L) - i)
                      /\ whole[i].n > cleared
                      /\ whole[i].body <=> whole[i].n \in read
    OBVIOUS
  <2>1. i - Stored \in 1..L /\ whole[i] = network[i - Stored]
    <3>1. ~(i \in 1..Stored /\ whole[i].n = i - Stored)
      BY <1>4
    <3> QED BY <1>7, <3>1
  <2>2. /\ whole[i].n = calls - (L - (i - Stored))
        /\ whole[i].n > cleared
    BY <1>5, <2>1
  <2>3. whole[i].body <=> whole[i].n \in read
    BY <1>5, <2>1
  <2>4. calls - (L - (i - Stored)) = calls - ((Stored + L) - i)
    BY <1>4
  <2> QED BY <2>2, <2>3, <2>4
<1>11. Recent(whole, calls, cleared, read)
  <2>1. Len(whole) = Stored + L
    BY <1>3 DEF L
  <2>2. Stored + L = Len(whole) => Recent(whole, calls, cleared, read)
    <3> DEFINE N == Stored + L
    <3>1. /\ \A i, j \in 1..N : i < j => whole[i].n < whole[j].n
          /\ calls > cleared => N > 0 /\ whole[N].n = calls
          /\ \A i \in 1..N :
               whole[i].n > 0 => /\ whole[i].n = calls - (N - i)
                                 /\ whole[i].n > cleared
                                 /\ whole[i].body <=> whole[i].n \in read
      BY <1>8, <1>9, <1>10
    <3> HIDE DEF N
    <3>2. N = Len(whole) => Recent(whole, calls, cleared, read)
      BY <3>1 DEF Recent
    <3> QED BY <3>2 DEF N
  <2> QED BY <2>1, <2>2
<1>12. /\ network' \in Seq(Exchange) /\ (cap # 0 => Len(network') <= cap)
       /\ Recent(network', calls, cleared, read)
  <2>1. CASE network' = network
    BY <2>1, FetchFacts DEF FetchIInv
  <2>2. CASE network' = Newest(whole)
    <3>1. CASE cap # 0 /\ Len(whole) > cap
      <4>1. network' = SubSeq(whole, Len(whole) - cap + 1, Len(whole))
        BY <2>2, <3>1 DEF Newest
      <4>2. cap \in Nat /\ cap > 0
        BY <3>1, FetchFacts
      <4>3. whole \in Seq(Exchange)
        BY <1>3
      <4>4. /\ network' \in Seq(Exchange) /\ Len(network') = cap
            /\ Recent(network', calls, cleared, read)
        BY <1>11, <3>1, <4>1, <4>2, <4>3, KeepNewest
      <4> QED BY <4>2, <4>4
    <3>2. CASE ~(cap # 0 /\ Len(whole) > cap)
      <4>1. network' = whole
        BY <2>2, <3>2 DEF Newest
      <4>2. cap # 0 => Len(whole) <= cap
        BY <1>3, <1>4, <3>2, FetchFacts DEF L
      <4> QED BY <1>3, <1>11, <4>1, <4>2
    <3> QED BY <3>1, <3>2
  <2> QED BY <2>1, <2>2 DEF Hydrate, whole
<1>13. FetchTypeOK'
  BY <1>1, <1>12 DEF FetchIInv, FetchTypeOK, Exchange
<1> QED BY <1>1, <1>12, <1>13 DEF FetchIInv

LEMMA ClearInv ==
  ASSUME FetchIInv, ClearFetchRequests
  PROVE  FetchIInv'
<1>1. /\ network' = <<>> /\ Len(network') = 0 /\ cleared' = calls
      /\ UNCHANGED <<cap, calls, bodies, loading, dropped, read>>
  BY DEF ClearFetchRequests
<1>2. network' \in Seq(Exchange)
  BY <1>1
<1>3. FetchTypeOK'
  BY <1>1, <1>2, FetchFacts DEF FetchIInv, FetchTypeOK, Exchange
<1>4. Recent(network', calls', cleared', read')
  BY <1>1, FetchFacts DEF Recent
<1> QED BY <1>1, <1>3, <1>4, FetchFacts DEF FetchIInv

LEMMA FetchNextInv == FetchIInv /\ [FetchNext]_fetchVars => FetchIInv'
<1> SUFFICES ASSUME FetchIInv, [FetchNext]_fetchVars PROVE FetchIInv'
  OBVIOUS
<1>1. ASSUME NEW x \in bodies, BodyFails(x) PROVE FetchIInv'
  BY <1>1 DEF BodyFails, FetchIInv, FetchTypeOK, Recent
<1>2. CASE UNCHANGED fetchVars
  BY <1>2 DEF fetchVars, FetchIInv, FetchTypeOK, Recent
<1> QED BY <1>1, <1>2, TrackInv, BodyArrivesInv, HydrateInv, SetMaxInv, ClearInv DEF FetchNext

-----------------------------------------------------------------------------
(* FetchIInv is an inductive invariant. *)
THEOREM FetchInvariant == FetchSpec => []FetchIInv
<1> QED BY FetchInitInv, FetchNextInv, PTL DEF FetchSpec

(* fetchRequestLogState.ts shows the newest run of exchanges since a clear,  *)
(* in order and with the bodies that came, whatever the caps and whenever    *)
(* the load from storage ends.                                               *)
THEOREM NetworkStaysRecent == FetchSpec => []NetworkIsRecent
<1>1. FetchIInv => NetworkIsRecent
  BY RecentIsNetwork DEF FetchIInv
<1> QED BY <1>1, FetchInvariant, PTL

-----------------------------------------------------------------------------
(* What a filter takes of a sequence (Selection). *)

Less == {p \in Nat \X Nat : p[1] < p[2]}

(* A set of naturals has a least element, which is what the inductions and   *)
(* the minima below rest on.                                                 *)
LEMMA Least ==
  ASSUME NEW T, T \subseteq Nat, T # {}
  PROVE  \E n \in T : \A m \in T : n <= m
<1>1. OpToRel(<, Nat) = Less
  BY Zenon DEF OpToRel, Less
<1>2. IsWellFoundedOn(Less, Nat)
  BY <1>1, NatLessThanWellFounded, Zenon
<1>3. PICK n \in T : \A m \in T : ~(<<m, n>> \in Less)
  BY <1>2, WFMin, Zenon
<1>4. ASSUME NEW m \in T PROVE n <= m
  <2>1. ~(<<m, n>> \in Less) /\ n \in Nat /\ m \in Nat
    BY <1>3
  <2>2. ~(m < n)
    BY <2>1 DEF Less
  <2> QED BY <2>1, <2>2
<1> QED BY <1>4

(* Induction up to N, over the set of what is to be shown. *)
LEMMA UpTo ==
  ASSUME NEW N \in Nat, NEW T, 0 \in T, \A n \in 0..(N - 1) : n \in T => n + 1 \in T
  PROVE  0..N \subseteq T
<1> SUFFICES ASSUME NEW b \in 0..N, b \notin T PROVE FALSE
  OBVIOUS
<1> DEFINE rest == (0..N) \ T
<1>1. PICK n \in rest : \A m \in rest : n <= m
  <2>1. rest \subseteq Nat /\ rest # {}
    OBVIOUS
  <2> HIDE DEF rest
  <2> QED BY <2>1, Least
<1>2. n - 1 \in 0..(N - 1) /\ n - 1 + 1 = n /\ n - 1 < n
  BY <1>1
<1>3. n - 1 \in T
  BY <1>1, <1>2
<1> QED BY <1>1, <1>2, <1>3

Step(s, taken, f, N) ==
  f = [i \in 0..N |-> IF i = 0 THEN <<>>
                      ELSE IF s[i] \in taken THEN Append(f[i - 1], s[i]) ELSE f[i - 1]]

LEMMA StepIs ==
  ASSUME NEW S, NEW s \in Seq(S), NEW taken, NEW f, NEW N \in Nat, Step(s, taken, f, N)
  PROVE  /\ f[0] = <<>>
         /\ \A n \in 0..(N - 1) :
              /\ s[n + 1] \in taken => f[n + 1] = Append(f[n], s[n + 1])
              /\ s[n + 1] \notin taken => f[n + 1] = f[n]
<1> DEFINE More(n) == Append(f[n], s[n + 1])
           Rhs(i) == IF i = 0 THEN <<>>
                     ELSE IF s[i] \in taken THEN Append(f[i - 1], s[i]) ELSE f[i - 1]
<1>1. f = [i \in 0..N |-> Rhs(i)]
  BY Zenon DEF Step
<1>2. \A i \in 0..N : f[i] = Rhs(i)
  <2> HIDE DEF Rhs
  <2> QED BY <1>1
<1>3. 0 \in 0..N /\ Rhs(0) = <<>>
  OBVIOUS
<1>4. ASSUME NEW n \in 0..(N - 1)
      PROVE  /\ s[n + 1] \in taken => f[n + 1] = More(n)
             /\ s[n + 1] \notin taken => f[n + 1] = f[n]
  <2>1. n + 1 \in 0..N /\ n + 1 # 0 /\ n + 1 - 1 = n
    OBVIOUS
  <2>2. Rhs(n + 1) = IF s[n + 1] \in taken THEN More(n) ELSE f[n]
    <3>1. f[n + 1 - 1] = f[n]
      BY <2>1
    <3>2. CASE s[n + 1] \in taken
      <4>1. Rhs(n + 1) = Append(f[n + 1 - 1], s[n + 1])
        BY <2>1, <3>2
      <4> QED BY <3>1, <3>2, <4>1
    <3>3. CASE s[n + 1] \notin taken
      BY <2>1, <3>1, <3>3
    <3> QED BY <3>2, <3>3
  <2> HIDE DEF Rhs, More
  <2> QED BY <1>2, <2>1, <2>2
<1>5. f[0] = <<>>
  <2> HIDE DEF Rhs
  <2> QED BY <1>2, <1>3
<1> QED BY <1>4, <1>5

(* The function in Only exists. *)
LEMMA OnlyExists ==
  ASSUME NEW S, NEW s \in Seq(S), NEW taken
  PROVE  \E f : Step(s, taken, f, Len(s))
<1> DEFINE T == {n \in 0..Len(s) : \E f : Step(s, taken, f, n)}
<1>1. 0 \in T
  <2>1. Step(s, taken, [i \in 0..0 |-> <<>>], 0)
    BY DEF Step
  <2> QED BY <2>1
<1>2. ASSUME NEW n \in 0..(Len(s) - 1), n \in T PROVE n + 1 \in T
  <2>1. PICK f : Step(s, taken, f, n)
    BY <1>2
  <2> DEFINE next == IF s[n + 1] \in taken THEN Append(f[n], s[n + 1]) ELSE f[n]
             g == [i \in 0..(n + 1) |-> IF i = n + 1 THEN next ELSE f[i]]
             h == [i \in 0..(n + 1) |->
                     IF i = 0 THEN <<>>
                     ELSE IF s[i] \in taken THEN Append(g[i - 1], s[i]) ELSE g[i - 1]]
  <2>2. \A i \in 0..n : g[i] = f[i] /\ i # n + 1
    OBVIOUS
  <2>3. g[n + 1] = next
    OBVIOUS
  <2>4. \A i \in 0..n : f[i] = IF i = 0 THEN <<>>
                               ELSE IF s[i] \in taken THEN Append(f[i - 1], s[i]) ELSE f[i - 1]
    BY <2>1 DEF Step
  <2> HIDE DEF next
  <2>5. ASSUME NEW i \in 0..(n + 1) PROVE g[i] = h[i]
    <3>1. CASE i = n + 1
      <4>1. n \in 0..n /\ i # 0 /\ i - 1 = n
        BY <3>1
      <4>2. g[i - 1] = f[n]
        BY <2>2, <4>1
      <4> QED BY <2>3, <3>1, <4>1, <4>2 DEF next
    <3>2. CASE i = 0
      BY <2>2, <2>4, <3>2
    <3>3. CASE i # 0 /\ i # n + 1
      <4>1. i \in 0..n /\ i - 1 \in 0..n
        BY <3>3
      <4>2. g[i] = f[i] /\ g[i - 1] = f[i - 1]
        BY <2>2, <4>1
      <4> QED BY <2>4, <3>3, <4>1, <4>2
    <3> QED BY <3>1, <3>2, <3>3
  <2>6. g = h
    BY <2>5
  <2>7. Step(s, taken, g, n + 1)
    BY <2>6 DEF Step
  <2> QED BY <2>7
<1>3. Len(s) \in T
  <2>1. Len(s) \in Nat /\ Len(s) \in 0..Len(s)
    OBVIOUS
  <2> HIDE DEF T
  <2> QED BY <1>1, <1>2, <2>1, UpTo
<1> QED BY <1>3

(* What is taken of a sequence is a sequence of elements of it that are in   *)
(* the set, and no longer.                                                   *)
LEMMA OnlyIs ==
  ASSUME NEW S, NEW s \in Seq(S), NEW taken
  PROVE  /\ Only(s, taken) \in Seq(S)
         /\ Len(Only(s, taken)) <= Len(s)
         /\ \A i \in DOMAIN Only(s, taken) :
              /\ Only(s, taken)[i] \in taken
              /\ \E j \in DOMAIN s : Only(s, taken)[i] = s[j]
<1> DEFINE only == CHOOSE f : Step(s, taken, f, Len(s))
           Good(e) == e \in taken /\ \E j \in DOMAIN s : e = s[j]
           T == {n \in 0..Len(s) :
                   /\ only[n] \in Seq(S) /\ Len(only[n]) <= n
                   /\ \A i \in DOMAIN only[n] : Good(only[n][i])}
<1>1. Only(s, taken) = only[Len(s)]
  BY Zenon DEF Only, Step
<1>2. Step(s, taken, only, Len(s))
  BY OnlyExists, Zenon
<1> HIDE DEF only
<1>3. /\ only[0] = <<>>
      /\ \A n \in 0..(Len(s) - 1) :
           /\ s[n + 1] \in taken => only[n + 1] = Append(only[n], s[n + 1])
           /\ s[n + 1] \notin taken => only[n + 1] = only[n]
  BY <1>2, StepIs
<1>4. 0 \in T
  <2>1. 0 \in 0..Len(s)
    OBVIOUS
  <2>2. only[0] \in Seq(S) /\ Len(only[0]) <= 0 /\ DOMAIN only[0] = {}
    BY <1>3
  <2> HIDE DEF Good
  <2> QED BY <2>1, <2>2
<1>5. ASSUME NEW n \in 0..(Len(s) - 1), n \in T PROVE n + 1 \in T
  <2>1. /\ n + 1 \in 0..Len(s) /\ n + 1 # 0 /\ n + 1 - 1 = n
        /\ n + 1 \in DOMAIN s /\ s[n + 1] \in S
    OBVIOUS
  <2>2. /\ only[n] \in Seq(S) /\ Len(only[n]) <= n
        /\ \A i \in DOMAIN only[n] : Good(only[n][i])
    BY <1>5
  <2>3. CASE s[n + 1] \in taken
    <3>1. only[n + 1] = Append(only[n], s[n + 1])
      BY <1>3, <2>3
    <3>2. Good(s[n + 1])
      BY <2>1, <2>3
    <3> HIDE DEF Good
    <3>3. /\ only[n + 1] \in Seq(S) /\ Len(only[n + 1]) = Len(only[n]) + 1
          /\ \A i \in 1..Len(only[n]) : only[n + 1][i] = only[n][i]
          /\ only[n + 1][Len(only[n]) + 1] = s[n + 1]
      BY <2>1, <2>2, <3>1, AppendProperties
    <3>4. \A i \in DOMAIN only[n + 1] : Good(only[n + 1][i])
      <4>1. /\ DOMAIN only[n] = 1..Len(only[n]) /\ Len(only[n]) \in Nat
            /\ DOMAIN only[n + 1] = 1..(Len(only[n]) + 1)
        BY <2>2, <3>3
      <4> QED BY <2>2, <3>2, <3>3, <4>1
    <3>5. Len(only[n + 1]) <= n + 1
      BY <2>2, <3>3
    <3> QED BY <2>1, <3>3, <3>4, <3>5
  <2>4. CASE s[n + 1] \notin taken
    <3>1. only[n + 1] = only[n]
      BY <1>3, <2>4
    <3>2. Len(only[n]) <= n + 1
      BY <2>2
    <3> HIDE DEF Good
    <3> QED BY <2>1, <2>2, <3>1, <3>2
  <2> QED BY <2>3, <2>4
<1>6. Len(s) \in T
  <2> HIDE DEF T
  <2>1. Len(s) \in Nat /\ Len(s) \in 0..Len(s)
    OBVIOUS
  <2> QED BY <1>4, <1>5, <2>1, UpTo
<1> QED BY <1>1, <1>6

-----------------------------------------------------------------------------
(* The session of a client, as all that is attached to it sees it. *)

SessionIInv ==
  /\ SessionTypeOK
  /\ Connected => wire
  /\ wire => session > 0

LEMMA SessionStarts == SessionInit => SessionIInv
<1> SUFFICES ASSUME SessionInit PROVE SessionIInv
  OBVIOUS
<1>1. session \in 0..MaxSessions
  BY SessionAssumption DEF SessionInit
<1> QED BY <1>1, Zenon DEF SessionInit, SessionIInv, SessionTypeOK, Connected

LEMMA SessionSteps ==
  ASSUME SessionIInv,
         SessionOpens \/ SessionAnnounced \/ SessionCloses \/ SessionErrs \/ UNCHANGED sessionVars
  PROVE  SessionIInv'
<1> USE DEF SessionIInv, SessionTypeOK, Connected
<1>1. CASE SessionOpens
  <2>1. session' \in 0..MaxSessions /\ session' > 0
    <3>1. session \in 0..MaxSessions /\ session < MaxSessions /\ session' = session + 1
      BY <1>1, Zenon DEF SessionOpens
    <3> HIDE DEF SessionIInv
    <3> QED BY <3>1, SessionAssumption
  <2> QED BY <1>1, <2>1, Zenon DEF SessionOpens
<1>2. CASE SessionAnnounced
  BY <1>2 DEF SessionAnnounced
<1>3. CASE SessionCloses
  BY <1>3 DEF SessionCloses
<1>4. CASE SessionErrs
  BY <1>4 DEF SessionErrs
<1>5. CASE UNCHANGED sessionVars
  BY <1>5 DEF sessionVars
<1> QED BY <1>1, <1>2, <1>3, <1>4, <1>5

-----------------------------------------------------------------------------
(* The Protocol log as a record.  Of a lead it did not have to let go, the   *)
(* request is in the log, which is why no response is hidden.                *)

Pending == [MessageIds -> Leads \union {Nobody}]
Stores == [log : Seq(Entries), pending : Pending, hidden : BOOLEAN]

Leading(log, leads) ==
  \A id \in MessageIds :
    leads[id] # Nobody /\ ~leads[id].evicted => Shown(log, leads[id], id) # {}

Sound(s) ==
  /\ s \in Stores /\ Len(s.log) <= Cap /\ ~s.hidden
  /\ Leading(s.log, s.pending)

Marked(log, r) == \A i \in DOMAIN log : log[i].rejected => log[i].id \in r

LEMMA NobodyLeadsNowhere == Nobody \notin Leads
<1> SUFFICES ASSUME Nobody \in Leads PROVE FALSE
  OBVIOUS
<1>1. Nobody.by \in Sides
  BY DEF Leads
<1> QED BY <1>1 DEF Nobody, Sides

LEMMA StoreIs ==
  ASSUME NEW s \in Stores
  PROVE  /\ s.log \in Seq(Entries) /\ Len(s.log) \in Nat /\ DOMAIN s.log = 1..Len(s.log)
         /\ s.pending \in Pending /\ s.hidden \in BOOLEAN
         /\ s = [log |-> s.log, pending |-> s.pending, hidden |-> s.hidden]
BY DEF Stores

(* An entry at the end of a log, whose first may have to go. *)
Room(log, e) == IF Len(log) < Cap THEN Append(log, e) ELSE Append(Tail(log), e)
Gone(log) == IF Len(log) < Cap THEN 0 ELSE 1

LEMMA RoomIs ==
  ASSUME NEW log \in Seq(Entries), Len(log) <= Cap, NEW e \in Entries
  PROVE  /\ Room(log, e) \in Seq(Entries) /\ Len(Room(log, e)) <= Cap
         /\ Len(Room(log, e)) = Len(log) + 1 - Gone(log) /\ Len(Room(log, e)) > 0
         /\ \A i \in 1..Len(log) : i > Gone(log) => Room(log, e)[i - Gone(log)] = log[i]
         /\ Room(log, e)[Len(Room(log, e))] = e
         /\ \A i \in 1..Len(Room(log, e)) :
              i # Len(Room(log, e)) => Room(log, e)[i] = log[i + Gone(log)]
<1>1. Cap \in Nat /\ Cap > 0 /\ Len(log) \in Nat
  BY MessageLogAssumption
<1>2. CASE Len(log) < Cap
  <2> DEFINE next == Append(log, e)
  <2>1. /\ next \in Seq(Entries) /\ Len(next) = Len(log) + 1
        /\ \A i \in 1..Len(log) : next[i] = log[i]
        /\ next[Len(log) + 1] = e
    BY AppendProperties
  <2>2. Room(log, e) = next /\ Gone(log) = 0
    BY <1>2 DEF Room, Gone
  <2> HIDE DEF next
  <2> QED BY <1>1, <1>2, <2>1, <2>2
<1>3. CASE ~(Len(log) < Cap)
  <2> DEFINE rest == Tail(log)
             next == Append(rest, e)
  <2>1. log # <<>>
    BY <1>1, <1>3
  <2>2. /\ rest \in Seq(Entries) /\ Len(rest) = Len(log) - 1
        /\ \A i \in 1..Len(rest) : rest[i] = log[i + 1]
    BY <2>1, HeadTailProperties
  <2>3. Room(log, e) = next /\ Gone(log) = 1
    BY <1>3 DEF Room, Gone
  <2> HIDE DEF rest
  <2>4. /\ next \in Seq(Entries) /\ Len(next) = Len(rest) + 1
        /\ \A i \in 1..Len(rest) : next[i] = rest[i]
        /\ next[Len(rest) + 1] = e
    BY <2>2, AppendProperties
  <2> HIDE DEF next
  <2>5. \A i \in 1..Len(log) : i > 1 => next[i - 1] = log[i]
    <3> SUFFICES ASSUME NEW i \in 1..Len(log), i > 1 PROVE next[i - 1] = log[i]
      OBVIOUS
    <3>1. i - 1 \in 1..Len(rest) /\ i - 1 + 1 = i
      BY <1>1, <2>2
    <3> QED BY <2>2, <2>4, <3>1
  <2> QED BY <1>1, <1>3, <2>2, <2>3, <2>4, <2>5
<1> QED BY <1>2, <1>3

(* pushEntry keeps the log sound: a request that makes room is marked so in  *)
(* `pending`.                                                                *)
LEMMA PushKeeps ==
  ASSUME NEW s, Sound(s), NEW e \in Entries, ~e.rejected, NEW r, Marked(s.log, r)
  PROVE  /\ Sound(Push(s, e)) /\ Marked(Push(s, e).log, r)
         /\ Len(Push(s, e).log) > 0 /\ Push(s, e).log[Len(Push(s, e).log)] = e
<1> DEFINE log == s.log
           next == Room(log, e)
           gone == Gone(log)
           Let(id) == [s.pending[id] EXCEPT !.evicted = TRUE]
           Lost(id) == s.pending[id] # Nobody /\ 1 \in Shown(log, s.pending[id], id)
           leads == IF Len(log) < Cap THEN s.pending
                    ELSE [id \in MessageIds |-> IF Lost(id) THEN Let(id) ELSE s.pending[id]]
           t == Push(s, e)
<1>1. s \in Stores /\ Len(log) <= Cap /\ s.hidden = FALSE /\ Leading(log, s.pending)
  BY DEF Sound, Stores
<1>2. log \in Seq(Entries) /\ Len(log) \in Nat /\ DOMAIN log = 1..Len(log) /\ s.pending \in Pending
  BY <1>1, StoreIs
<1>3. t.log = next /\ t.pending = leads /\ t.hidden = FALSE
      /\ t = [log |-> next, pending |-> leads, hidden |-> FALSE]
  BY <1>1 DEF Push, Stores, Room
<1> HIDE DEF log, t
<1>4. /\ next \in Seq(Entries) /\ Len(next) <= Cap
      /\ Len(next) = Len(log) + 1 - gone /\ Len(next) > 0
      /\ \A i \in 1..Len(log) : i > gone => next[i - gone] = log[i]
      /\ next[Len(next)] = e
      /\ \A i \in 1..Len(next) : i # Len(next) => next[i] = log[i + gone]
  BY <1>1, <1>2, RoomIs
<1>5. leads \in Pending
  <2>1. CASE Len(log) < Cap
    BY <1>2, <2>1
  <2>2. CASE ~(Len(log) < Cap)
    <3>1. ASSUME NEW id \in MessageIds
          PROVE  (IF Lost(id) THEN Let(id) ELSE s.pending[id]) \in Leads \union {Nobody}
      <4>1. s.pending[id] \in Leads \union {Nobody}
        BY <1>2 DEF Pending
      <4>2. CASE Lost(id)
        <5>1. Let(id) \in Leads
          BY <4>1, <4>2 DEF Leads
        <5> QED BY <4>2, <5>1
      <4> QED BY <4>1, <4>2
    <3> HIDE DEF Lost, Let
    <3> QED BY <2>2, <3>1 DEF Pending
  <2> QED BY <2>1, <2>2
<1>6. ASSUME NEW id \in MessageIds, leads[id] # Nobody, ~leads[id].evicted
      PROVE  Shown(next, leads[id], id) # {}
  <2>1. leads[id] = s.pending[id] /\ ~(gone = 1 /\ Lost(id))
    <3>1. CASE Len(log) < Cap
      BY <3>1 DEF Gone
    <3>2. CASE ~(Len(log) < Cap)
      <4>1. s.pending[id] \in Leads \union {Nobody}
        BY <1>2 DEF Pending
      <4>2. CASE Lost(id)
        <5>1. Let(id).evicted
          BY <4>1, <4>2 DEF Leads
        <5> HIDE DEF Let, Lost
        <5> QED BY <1>6, <3>2, <4>2, <5>1
      <4> HIDE DEF Let, Lost
      <4> QED BY <3>2, <4>2
    <3> QED BY <3>1, <3>2
  <2> HIDE DEF next, leads
  <2>2. gone \in {0, 1}
    BY DEF Gone
  <2>3. PICK i \in DOMAIN log : i \in Shown(log, s.pending[id], id)
    BY <1>1, <1>6, <2>1 DEF Leading, Shown
  <2>4. i > gone
    <3>1. ~(gone = 1 /\ i = 1)
      BY <1>6, <2>1, <2>3, Zenon
    <3> HIDE DEF gone
    <3> QED BY <1>2, <2>3, <2>2, <3>1
  <2>5. i - gone \in 1..Len(next) /\ next[i - gone] = log[i]
    <3> HIDE DEF gone
    <3> QED BY <1>2, <1>4, <2>4, <2>2
  <2>6. DOMAIN next = 1..Len(next)
    BY <1>4
  <2>7. i - gone \in Shown(next, leads[id], id)
    BY <2>1, <2>3, <2>5, <2>6 DEF Shown
  <2> QED BY <2>7
<1> HIDE DEF next, leads
<1>7. Leading(next, leads)
  BY <1>6 DEF Leading
<1>8. Marked(next, r)
  <2> SUFFICES ASSUME NEW i \in DOMAIN next, next[i].rejected PROVE next[i].id \in r
    BY DEF Marked
  <2>1. i \in 1..Len(next) /\ i # Len(next)
    BY <1>4
  <2>2. next[i] = log[i + gone] /\ i + gone \in DOMAIN log
    <3>1. gone \in {0, 1}
      BY DEF Gone
    <3> HIDE DEF gone
    <3> QED BY <1>2, <1>4, <2>1, <3>1
  <2> QED BY <2>2 DEF Marked, log
<1>9. Sound(t)
  BY <1>3, <1>4, <1>5, <1>7 DEF Sound, Stores
<1> QED BY <1>3, <1>4, <1>8, <1>9 DEF t

(* onRequest: the id leads to the entry that was pushed. *)
LEMMA OnRequestKeeps ==
  ASSUME NEW s, Sound(s), NEW r, Marked(s.log, r), SessionIInv, wire,
         NEW by \in Sides, NEW id \in MessageIds
  PROVE  Sound(OnRequest(s, by, id)) /\ Marked(OnRequest(s, by, id).log, r)
<1> DEFINE e == NewEntry("request", by, id)
           p == Push(s, e)
           lead == [by |-> by, of |-> session, evicted |-> FALSE]
           leads == [p.pending EXCEPT ![id] = lead]
           t == OnRequest(s, by, id)
<1>1. session \in 1..MaxSessions
  BY DEF SessionIInv, SessionTypeOK
<1>2. e \in Entries /\ ~e.rejected /\ e.dir = "request" /\ e.id = id /\ e.by = by /\ e.of = session
  BY <1>1 DEF Entries, NewEntry, Sides
<1>3. lead \in Leads /\ lead.by = by /\ lead.of = session /\ lead.evicted = FALSE
  BY <1>1 DEF Leads
<1> HIDE DEF e, lead
<1>4. Sound(p) /\ Marked(p.log, r) /\ Len(p.log) > 0 /\ p.log[Len(p.log)] = e
  BY <1>2, PushKeeps
<1>5. t = [p EXCEPT !.pending[id] = lead]
  BY DEF OnRequest, e, lead
<1> HIDE DEF p, t
<1>6. p \in Stores /\ Len(p.log) <= Cap /\ p.hidden = FALSE /\ Leading(p.log, p.pending)
  BY <1>4 DEF Sound, Stores
<1>7. /\ p.log \in Seq(Entries) /\ Len(p.log) \in Nat /\ DOMAIN p.log = 1..Len(p.log)
      /\ p.pending \in Pending
  BY <1>6, StoreIs
<1>8. t = [log |-> p.log, pending |-> leads, hidden |-> FALSE]
  BY <1>5, <1>6 DEF Stores
<1>9. leads \in Pending /\ leads[id] = lead
      /\ \A other \in MessageIds : other # id => leads[other] = p.pending[other]
  BY <1>3, <1>7 DEF Pending
<1> HIDE DEF leads
<1>10. Len(p.log) \in Shown(p.log, lead, id)
  BY <1>2, <1>3, <1>4, <1>7 DEF Shown
<1>11. Leading(p.log, leads)
  BY <1>6, <1>9, <1>10 DEF Leading
<1>12. Sound(t) /\ Marked(t.log, r)
  BY <1>4, <1>6, <1>7, <1>8, <1>9, <1>11 DEF Sound, Stores
<1> QED BY <1>12 DEF t
(* A change of an entry that leaves what it is of. *)
Alike(e, f) == f.dir = e.dir /\ f.id = e.id /\ f.by = e.by /\ f.of = e.of

LEMMA AlikeLeads ==
  ASSUME NEW log, NEW next, DOMAIN next = DOMAIN log,
         \A i \in DOMAIN log : Alike(log[i], next[i]),
         NEW leads, Leading(log, leads)
  PROVE  Leading(next, leads)
<1> SUFFICES ASSUME NEW id \in MessageIds, leads[id] # Nobody, ~leads[id].evicted
             PROVE  Shown(next, leads[id], id) # {}
  BY DEF Leading
<1>1. PICK i \in DOMAIN log : i \in Shown(log, leads[id], id)
  BY DEF Leading, Shown
<1>2. i \in Shown(next, leads[id], id)
  BY <1>1 DEF Shown, Alike
<1> QED BY <1>2

(* onResponse: the lead is in the log or was let go, and leads no more. *)
LEMMA OnResponseKeeps ==
  ASSUME NEW s, Sound(s), NEW r, Marked(s.log, r), SessionIInv, wire,
         NEW by \in Sides, NEW id \in MessageIds
  PROVE  Sound(OnResponse(s, by, id)) /\ Marked(OnResponse(s, by, id).log, r)
<1> DEFINE log == s.log
           lead == s.pending[id]
           e == NewEntry("response", by, id)
<1>1. s \in Stores /\ Len(log) <= Cap /\ s.hidden = FALSE /\ Leading(log, s.pending)
  BY DEF Sound, Stores
<1>2. log \in Seq(Entries) /\ Len(log) \in Nat /\ DOMAIN log = 1..Len(log) /\ s.pending \in Pending
  BY <1>1, StoreIs
<1>3. CASE lead = Nobody
  <2>1. session \in 1..MaxSessions
    BY DEF SessionIInv, SessionTypeOK
  <2>2. e \in Entries /\ ~e.rejected
    BY <2>1 DEF Entries, NewEntry, Sides
  <2>3. OnResponse(s, by, id) = Push(s, e)
    BY <1>3 DEF OnResponse
  <2> HIDE DEF e
  <2> QED BY <2>2, <2>3, PushKeeps
<1>4. CASE lead # Nobody
  <2> DEFINE Fold(i) == [log[i] EXCEPT !.answer = by]
             here == Shown(log, lead, id)
             next == [i \in DOMAIN log |-> IF i \in here THEN Fold(i) ELSE log[i]]
             leads == [s.pending EXCEPT ![id] = Nobody]
             gone == ~lead.evicted /\ here = {}
  <2>1. OnResponse(s, by, id) = [log |-> next, pending |-> leads, hidden |-> s.hidden \/ gone]
    BY <1>4, Zenon DEF OnResponse
  <2>2. ~gone
    BY <1>1, <1>4 DEF Leading
  <2>3. ASSUME NEW i \in DOMAIN log
        PROVE  /\ Fold(i) \in Entries /\ log[i] \in Entries
               /\ Alike(log[i], Fold(i)) /\ Fold(i).rejected = log[i].rejected
    <3>1. log[i] \in Entries
      BY <1>2
    <3> QED BY <3>1 DEF Entries, Alike
  <2>4. DOMAIN next = DOMAIN log /\ \A i \in DOMAIN log : next[i] \in {log[i], Fold(i)}
    OBVIOUS
  <2> HIDE DEF Fold, next, here, gone
  <2>5. \A i \in DOMAIN log : /\ next[i] \in Entries /\ Alike(log[i], next[i])
                              /\ next[i].rejected = log[i].rejected
    BY <2>3, <2>4 DEF Alike
  <2>6. next \in Seq(Entries) /\ Len(next) = Len(log)
    <3>1. next = [i \in 1..Len(log) |-> next[i]]
      BY <1>2, <2>4 DEF next
    <3>2. next \in [1..Len(log) -> Entries]
      BY <1>2, <2>5, <3>1
    <3> QED BY <1>2, <3>2
  <2>7. leads \in Pending /\ leads[id] = Nobody
        /\ \A other \in MessageIds : other # id => leads[other] = s.pending[other]
    BY <1>2 DEF Pending
  <2> HIDE DEF leads
  <2>8. Leading(next, leads)
    <3>1. Leading(log, leads)
      BY <1>1, <2>7 DEF Leading
    <3> HIDE DEF log
    <3> QED BY <2>4, <2>5, <3>1, AlikeLeads
  <2>9. Marked(next, r)
    BY <2>4, <2>5 DEF Marked, Alike
  <2> DEFINE t == [log |-> next, pending |-> leads, hidden |-> FALSE]
  <2>10. Sound(t) /\ Marked(t.log, r)
    BY <1>1, <2>6, <2>7, <2>8, <2>9 DEF Sound, Stores
  <2>11. OnResponse(s, by, id) = t
    BY <1>1, <2>1, <2>2
  <2> QED BY <2>10, <2>11
<1> QED BY <1>3, <1>4

LEMMA Greatest ==
  ASSUME NEW N \in Nat, NEW T, T \subseteq 1..N, T # {}
  PROVE  \E n \in T : \A m \in T : m <= n
<1> DEFINE below == {N - n : n \in T}
<1>1. below \subseteq Nat /\ below # {}
  <2>1. \A n \in T : N - n \in Nat
    OBVIOUS
  <2> QED BY <2>1, Zenon
<1>2. PICK b \in below : \A a \in below : b <= a
  <2> HIDE DEF below
  <2> QED BY <1>1, Least
<1>3. PICK n \in T : b = N - n
  BY <1>2
<1>4. ASSUME NEW m \in T PROVE m <= n
  <2>1. N - m \in below
    OBVIOUS
  <2>2. N - n <= N - m
    BY <1>2, <1>3, <2>1
  <2>3. m \in 1..N /\ n \in 1..N
    OBVIOUS
  <2> HIDE DEF below
  <2> QED BY <2>2, <2>3
<1> QED BY <1>4

(* onResponseRejected: what is marked has the number it was called with. *)
LEMMA OnRejectedKeeps ==
  ASSUME NEW s, Sound(s), NEW r, Marked(s.log, r), NEW id \in r
  PROVE  Sound(OnRejected(s, id)) /\ Marked(OnRejected(s, id).log, r)
<1> DEFINE log == s.log
           held == {i \in DOMAIN log :
                      /\ log[i].id = id
                      /\ log[i].dir = "response" \/ log[i].answer # "none"}
           newest == CHOOSE i \in held : \A j \in held : j <= i
           next == [log EXCEPT ![newest].rejected = TRUE]
           t == [log |-> next, pending |-> s.pending, hidden |-> FALSE]
<1>1. s \in Stores /\ Len(log) <= Cap /\ s.hidden = FALSE /\ Leading(log, s.pending)
  BY DEF Sound, Stores
<1>2. log \in Seq(Entries) /\ Len(log) \in Nat /\ DOMAIN log = 1..Len(log) /\ s.pending \in Pending
  BY <1>1, StoreIs
<1>3. CASE held = {}
  BY <1>3 DEF OnRejected
<1>4. CASE held # {}
  <2>1. held \subseteq 1..Len(log)
    BY <1>2
  <2>2. newest \in held
    <3> HIDE DEF held
    <3>1. \E i \in held : \A j \in held : j <= i
      BY <1>2, <1>4, <2>1, Greatest
    <3> QED BY <3>1, Zenon
  <2>3. OnRejected(s, id) = t
    <3>1. OnRejected(s, id) = [s EXCEPT !.log[newest].rejected = TRUE]
      BY <1>4 DEF OnRejected
    <3> HIDE DEF newest
    <3> QED BY <1>1, <3>1 DEF Stores
  <2>4. newest \in DOMAIN log /\ log[newest].id = id
    BY <2>2
  <2> HIDE DEF newest, held
  <2> DEFINE e == [log[newest] EXCEPT !.rejected = TRUE]
  <2>5. log[newest] \in Entries
    BY <1>2, <2>4
  <2>6. e \in Entries /\ Alike(log[newest], e)
    BY <2>5 DEF Entries, Alike
  <2>7. /\ next \in Seq(Entries) /\ Len(next) = Len(log) /\ next[newest] = e
        /\ \A i \in DOMAIN log : i # newest => next[i] = log[i]
    <3> HIDE DEF e
    <3>1. next = [log EXCEPT ![newest] = e]
      BY DEF e
    <3> HIDE DEF next
    <3> QED BY <1>2, <2>4, <2>6, <3>1, ExceptSeq
  <2> HIDE DEF next, e
  <2>8. DOMAIN next = DOMAIN log
    BY <1>2, <2>7
  <2>9. \A i \in DOMAIN log : Alike(log[i], next[i])
    BY <2>6, <2>7 DEF Alike
  <2>10. Leading(next, s.pending)
    <3> HIDE DEF log
    <3> QED BY <1>1, <2>8, <2>9, AlikeLeads
  <2>11. Marked(next, r)
    <3> SUFFICES ASSUME NEW i \in DOMAIN next, next[i].rejected PROVE next[i].id \in r
      BY DEF Marked
    <3>1. CASE i = newest
      BY <2>4, <2>6, <2>7, <3>1 DEF Alike
    <3>2. CASE i # newest
      BY <2>7, <2>8, <3>2 DEF Marked
    <3> QED BY <3>1, <3>2
  <2>12. Sound(t) /\ Marked(t.log, r)
    BY <1>1, <1>2, <2>7, <2>10, <2>11 DEF Sound, Stores
  <2> QED BY <2>3, <2>12
<1> QED BY <1>3, <1>4
-----------------------------------------------------------------------------
(* The inductive invariant of the Protocol log: the store is sound, what is  *)
(* marked was refused, and a salvage is of a response that was refused.      *)

StoreInv == Sound(Store) /\ Marked(messages, refused)

Salvage == [refused : {0} \union MessageIds, walk : {0} \union MessageIds]

TrafficInv ==
  /\ awaited \in [Sides -> SUBSET MessageIds]
  /\ sent \in [Sides -> {0} \union MessageIds] /\ noted \in 0..MaxNotices
  /\ last \in {0} \union MessageIds
  /\ salvage \in Salvage /\ (salvage.walk # 0 => salvage.refused \in refused)
  /\ refused \subseteq MessageIds

LogIInv == SessionIInv /\ StoreInv /\ TrafficInv

LEMMA StoreOf ==
  ASSUME NEW s, Sound(s), StoreBecomes(s), Marked(s.log, refused')
  PROVE  StoreInv'
<1>1. s = [log |-> s.log, pending |-> s.pending, hidden |-> s.hidden]
  BY StoreIs DEF Sound
<1>2. Store' = s /\ messages' = s.log
  BY <1>1 DEF Store, StoreBecomes
<1> QED BY <1>2 DEF StoreInv

LEMMA StoreStays ==
  ASSUME StoreInv, UNCHANGED <<messages, pending, hidden>>, refused \subseteq refused'
  PROVE  StoreInv'
<1>1. Store' = Store
  BY DEF Store
<1>2. Marked(messages', refused')
  BY DEF StoreInv, Marked
<1> QED BY <1>1, <1>2 DEF StoreInv

LEMMA LogIs ==
  ASSUME StoreInv
  PROVE  /\ Sound(Store) /\ Store.log = messages /\ Marked(messages, refused)
         /\ messages \in Seq(Entries) /\ Len(messages) <= Cap /\ Len(messages) \in Nat
         /\ DOMAIN messages = 1..Len(messages)
         /\ pending \in Pending /\ hidden = FALSE /\ Leading(messages, pending)
BY DEF StoreInv, Sound, Store, Stores

(* The two sides number their requests within the bounds. *)
LEMMA NextIds ==
  ASSUME TrafficInv
  PROVE  /\ sent["client"] < MaxClient => sent["client"] + 1 \in MessageIds
         /\ sent["server"] < MaxServer => sent["server"] + 1 \in MessageIds
         /\ 0 \notin MessageIds /\ MessageIds \subseteq Nat
<1>1. sent["client"] \in Nat /\ sent["server"] \in Nat
  BY DEF TrafficInv, Sides, MessageIds
<1> QED BY <1>1, MessageLogAssumption DEF MessageIds

-----------------------------------------------------------------------------
(* Each kind of frame. *)

LEMMA RequestKeeps ==
  ASSUME LogIInv, ClientRequests \/ ServerRequests
  PROVE  LogIInv'
<1>1. PICK p \in Sides :
        /\ wire /\ Sends(p) \in MessageIds
        /\ StoreBecomes(OnRequest(Store, p, Sends(p)))
        /\ sent' = [sent EXCEPT ![p] = @ + 1]
        /\ awaited' = [awaited EXCEPT ![p] = @ \union {Sends(p)}]
        /\ UNCHANGED <<sessionVars, noted, last, salvage, refused>>
  <2>1. CASE ClientRequests
    BY <2>1, NextIds DEF ClientRequests, LogIInv, SessionIInv, Sides, Sends
  <2>2. CASE ServerRequests
    BY <2>2, NextIds DEF ServerRequests, LogIInv, Sides, Sends
  <2> QED BY <2>1, <2>2
<1>2. SessionIInv'
  BY <1>1, SessionSteps DEF LogIInv
<1>3. StoreInv'
  <2>1. Sound(Store) /\ Marked(Store.log, refused) /\ SessionIInv
    BY LogIs DEF LogIInv
  <2> QED BY <1>1, <2>1, OnRequestKeeps, StoreOf
<1>4. TrafficInv'
  BY <1>1 DEF LogIInv, TrafficInv, Sends
<1> QED BY <1>2, <1>3, <1>4 DEF LogIInv

LEMMA NoticeKeeps ==
  ASSUME LogIInv, ServerNotifies
  PROVE  LogIInv'
<1> DEFINE e == NewEntry("notification", "server", 0)
<1>1. e \in Entries /\ ~e.rejected
  <2>1. session \in 1..MaxSessions
    BY DEF LogIInv, SessionIInv, SessionTypeOK, ServerNotifies
  <2> QED BY <2>1 DEF Entries, NewEntry, Sides
<1> HIDE DEF e
<1>2. SessionIInv'
  BY SessionSteps DEF LogIInv, ServerNotifies
<1>3. StoreInv'
  <2>1. Sound(Store) /\ Marked(Store.log, refused)
    BY LogIs DEF LogIInv
  <2>2. StoreBecomes(Push(Store, e)) /\ refused' = refused
    BY DEF ServerNotifies, e
  <2> QED BY <1>1, <2>1, <2>2, PushKeeps, StoreOf
<1>4. TrafficInv'
  BY MessageLogAssumption DEF LogIInv, TrafficInv, ServerNotifies
<1> QED BY <1>2, <1>3, <1>4 DEF LogIInv

LEMMA ResponseKeeps ==
  ASSUME LogIInv, NEW id \in MessageIds,
         \/ ClientResponds(id) \/ ServerResponds(id)
         \/ ServerRespondsRefused(id) \/ ServerRespondsSalvageable(id)
  PROVE  LogIInv'
<1>1. SessionIInv'
  BY SessionSteps
  DEF LogIInv, ClientResponds, ServerResponds, ServerRespondsRefused, ServerRespondsSalvageable
<1>2. Sound(Store) /\ Marked(Store.log, refused) /\ SessionIInv
  BY LogIs DEF LogIInv
<1>3. wire
  BY <1>2 DEF ClientResponds, ServerResponds, ServerRespondsRefused, ServerRespondsSalvageable,
     SessionIInv
<1>4. Marked(Store.log, refused \union {id})
  BY <1>2 DEF Marked
<1>5. "client" \in Sides /\ "server" \in Sides
  BY DEF Sides
<1>6. CASE ClientResponds(id)
  <2>1. StoreInv'
    BY <1>2, <1>3, <1>5, <1>6, OnResponseKeeps, StoreOf DEF ClientResponds
  <2>2. TrafficInv'
    BY <1>6 DEF LogIInv, TrafficInv, ClientResponds
  <2> QED BY <1>1, <2>1, <2>2 DEF LogIInv
<1>7. CASE ServerResponds(id)
  <2>1. StoreInv'
    BY <1>2, <1>3, <1>5, <1>7, OnResponseKeeps, StoreOf DEF ServerResponds
  <2>2. TrafficInv'
    BY <1>7 DEF LogIInv, TrafficInv, ServerResponds
  <2> QED BY <1>1, <2>1, <2>2 DEF LogIInv
<1>8. CASE ServerRespondsRefused(id)
  <2> DEFINE answered == OnResponse(Store, "server", id)
             r == refused \union {id}
  <2>1. StoreBecomes(OnRejected(answered, id)) /\ refused' = r /\ id \in r
    BY <1>8 DEF ServerRespondsRefused
  <2>2. Sound(answered) /\ Marked(answered.log, r)
    BY <1>2, <1>3, <1>4, <1>5, OnResponseKeeps
  <2> HIDE DEF answered, r
  <2>3. StoreInv'
    BY <2>1, <2>2, OnRejectedKeeps, StoreOf
  <2>4. TrafficInv'
    BY <1>8 DEF LogIInv, TrafficInv, ServerRespondsRefused
  <2> QED BY <1>1, <2>3, <2>4 DEF LogIInv
<1>9. CASE ServerRespondsSalvageable(id)
  <2> DEFINE answered == OnResponse(Store, "server", id)
             r == refused \union {id}
             again == Sends("client")
  <2>1. /\ StoreBecomes(OnRequest(answered, "client", again)) /\ refused' = r
        /\ sent["client"] < MaxClient /\ sent' = [sent EXCEPT !["client"] = again]
        /\ awaited' = [awaited EXCEPT !["client"] = (@ \ {id}) \union {again}]
        /\ last' = id /\ noted' = noted
        /\ salvage' = [refused |-> id, walk |-> again]
    BY <1>9 DEF ServerRespondsSalvageable, Sends
  <2>2. again \in MessageIds
    BY <2>1, NextIds DEF LogIInv, Sends
  <2>3. Sound(answered) /\ Marked(answered.log, r)
    BY <1>2, <1>3, <1>4, <1>5, OnResponseKeeps
  <2> HIDE DEF answered, again
  <2>4. StoreInv'
    <3> HIDE DEF r
    <3> QED BY <1>2, <1>3, <1>5, <2>1, <2>2, <2>3, OnRequestKeeps, StoreOf
  <2>5. TrafficInv'
    BY <2>1, <2>2 DEF LogIInv, TrafficInv, Salvage
  <2> QED BY <1>1, <2>4, <2>5 DEF LogIInv
<1> QED BY <1>6, <1>7, <1>8, <1>9

LEMMA SalvageKeeps ==
  ASSUME LogIInv, SalvageEnds
  PROVE  LogIInv'
<1> DEFINE walk == salvage.walk
           answered == OnResponse(Store, "server", walk)
<1>1. wire /\ walk \in awaited["client"] /\ StoreBecomes(OnRejected(answered, salvage.refused))
  BY DEF SalvageEnds
<1>2. walk \in MessageIds /\ salvage.refused \in refused
  BY <1>1, NextIds DEF LogIInv, TrafficInv, Sides
<1>3. Sound(Store) /\ Marked(Store.log, refused) /\ SessionIInv
  BY LogIs DEF LogIInv
<1>4. Sound(answered) /\ Marked(answered.log, refused)
  <2> HIDE DEF walk
  <2> QED BY <1>1, <1>2, <1>3, OnResponseKeeps DEF Sides
<1> HIDE DEF answered
<1>5. StoreInv'
  BY <1>1, <1>2, <1>4, OnRejectedKeeps, StoreOf DEF SalvageEnds
<1>6. SessionIInv'
  BY SessionSteps DEF LogIInv, SalvageEnds
<1>7. TrafficInv'
  BY <1>2 DEF LogIInv, TrafficInv, SalvageEnds, Salvage, NoSalvage
<1> QED BY <1>5, <1>6, <1>7 DEF LogIInv

-----------------------------------------------------------------------------
(* clearMessages: an id whose entry goes leads nowhere, unless its request   *)
(* had left the log before.                                                  *)
LEMMA ClearKeeps ==
  ASSUME LogIInv, NEW keep, ClearMessages(keep)
  PROVE  LogIInv'
<1> DEFINE next == Only(messages, keep)
           Stays(id) == pending[id] # Nobody /\ Shown(next, pending[id], id) # {}
           leads == [id \in MessageIds |-> IF Stays(id) THEN pending[id] ELSE Nobody]
           t == [log |-> next, pending |-> leads, hidden |-> FALSE]
<1>1. messages' = next /\ pending' = leads
      /\ UNCHANGED <<sessionVars, trafficVars, last, salvage, refused, hidden>>
  BY DEF ClearMessages
<1>2. /\ messages \in Seq(Entries) /\ Len(messages) <= Cap /\ Len(messages) \in Nat
      /\ pending \in Pending /\ hidden = FALSE /\ Marked(messages, refused)
  BY LogIs DEF LogIInv
<1>3. /\ next \in Seq(Entries) /\ Len(next) <= Len(messages)
      /\ \A i \in DOMAIN next : \E j \in DOMAIN messages : next[i] = messages[j]
  BY <1>2, OnlyIs
<1> HIDE DEF next
<1>4. Len(next) <= Cap
  BY <1>2, <1>3, MessageLogAssumption
<1>5. leads \in Pending
  BY <1>2 DEF Pending
<1>6. Leading(next, leads)
  <2> SUFFICES ASSUME NEW id \in MessageIds, leads[id] # Nobody
               PROVE  Shown(next, leads[id], id) # {}
    BY DEF Leading
  <2>1. leads[id] = IF Stays(id) THEN pending[id] ELSE Nobody
    OBVIOUS
  <2> HIDE DEF leads
  <2> QED BY <2>1
<1>7. Marked(next, refused)
  BY <1>2, <1>3 DEF Marked
<1> HIDE DEF leads
<1>8. Sound(t)
  BY <1>3, <1>4, <1>5, <1>6 DEF Sound, Stores
<1>9. StoreInv'
  BY <1>1, <1>2, <1>7, <1>8 DEF StoreInv, Store
<1>10. SessionIInv' /\ TrafficInv'
  BY <1>1, SessionSteps DEF LogIInv, TrafficInv, trafficVars
<1> QED BY <1>9, <1>10 DEF LogIInv

LEMMA DropKeeps == ASSUME StoreInv, DropLog PROVE StoreInv'
<1> DEFINE none == [i \in MessageIds |-> Nobody]
           t == [log |-> <<>>, pending |-> none, hidden |-> FALSE]
<1>1. Store' = t /\ messages' = <<>>
  BY LogIs DEF DropLog, Store
<1>2. none \in Pending /\ \A id \in MessageIds : none[id] = Nobody
  BY DEF Pending
<1> HIDE DEF none
<1>3. Leading(<<>>, none)
  BY <1>2 DEF Leading
<1>4. <<>> \in Seq(Entries) /\ Len(<<>>) <= Cap /\ DOMAIN <<>> = {}
  BY MessageLogAssumption
<1>5. Sound(t) /\ Marked(<<>>, refused')
  BY <1>2, <1>3, <1>4 DEF Sound, Stores, Marked
<1> HIDE DEF t
<1> QED BY <1>1, <1>5 DEF StoreInv

LEMMA LogSessionKeeps ==
  ASSUME LogIInv, LogOpens \/ LogAnnounced \/ LogCloses \/ LogErrs
  PROVE  LogIInv'
<1>1. SessionIInv'
  BY SessionSteps DEF LogIInv, LogOpens, LogAnnounced, LogCloses, LogErrs
<1>2. StoreInv'
  <2>1. CASE LogOpens
    BY <2>1, StoreStays DEF LogIInv, LogOpens, logStoreVars
  <2>2. CASE LogAnnounced
    BY <2>2, StoreStays DEF LogIInv, LogAnnounced, logStoreVars, logVars
  <2>3. CASE LogCloses
    <3>1. CASE status' # status
      BY <2>3, <3>1, DropKeeps DEF LogIInv, LogCloses
    <3>2. CASE status' = status
      BY <2>3, <3>2, StoreStays DEF LogIInv, LogCloses, logStoreVars
    <3> QED BY <3>1, <3>2
  <2>4. CASE LogErrs
    BY <2>4, DropKeeps DEF LogIInv, LogErrs
  <2> QED BY <2>1, <2>2, <2>3, <2>4
<1>3. TrafficInv'
  <2> USE DEF LogIInv, TrafficInv
  <2>1. CASE LogOpens
    BY <2>1 DEF LogOpens
  <2>2. CASE LogAnnounced
    BY <2>2 DEF LogAnnounced, logVars, trafficVars
  <2>3. CASE LogCloses
    BY <2>3 DEF LogCloses, Salvage, NoSalvage
  <2>4. CASE LogErrs
    BY <2>4 DEF LogErrs, trafficVars
  <2> QED BY <2>1, <2>2, <2>3, <2>4
<1> QED BY <1>1, <1>2, <1>3 DEF LogIInv

-----------------------------------------------------------------------------
LEMMA LogStarts == LogInit => LogIInv
<1> SUFFICES ASSUME LogInit PROVE LogIInv
  OBVIOUS
<1> DEFINE none == [i \in MessageIds |-> Nobody]
           t == [log |-> <<>>, pending |-> none, hidden |-> FALSE]
<1>1. Store = t /\ messages = <<>>
  BY DEF LogInit, Store
<1>2. none \in Pending /\ \A id \in MessageIds : none[id] = Nobody
  BY DEF Pending
<1> HIDE DEF none
<1>3. Leading(<<>>, none)
  BY <1>2 DEF Leading
<1>4. <<>> \in Seq(Entries) /\ Len(<<>>) <= Cap /\ DOMAIN <<>> = {}
  BY MessageLogAssumption
<1>5. Sound(t) /\ Marked(<<>>, refused)
  BY <1>2, <1>3, <1>4 DEF Sound, Stores, Marked
<1> HIDE DEF t
<1>6. StoreInv
  BY <1>1, <1>5 DEF StoreInv
<1>7. TrafficInv
  BY MessageLogAssumption DEF LogInit, TrafficInv, Salvage, NoSalvage
<1> QED BY <1>6, <1>7, SessionStarts DEF LogIInv, LogInit

LEMMA LogSteps == LogIInv /\ [LogNext]_<<sessionVars, logVars>> => LogIInv'
<1> SUFFICES ASSUME LogIInv, [LogNext]_<<sessionVars, logVars>> PROVE LogIInv'
  OBVIOUS
<1>1. CASE UNCHANGED <<sessionVars, logVars>>
  <2>1. SessionIInv' /\ StoreInv'
    BY <1>1, SessionSteps, StoreStays DEF LogIInv, logVars, logStoreVars
  <2>2. TrafficInv'
    BY <1>1 DEF LogIInv, TrafficInv, logVars, trafficVars
  <2> QED BY <2>1, <2>2 DEF LogIInv
<1>2. CASE LogNext
  BY <1>2, RequestKeeps, NoticeKeeps, ResponseKeeps, SalvageKeeps, ClearKeeps, LogSessionKeeps
  DEF LogNext
<1> QED BY <1>1, <1>2

LEMMA LogTyped == LogIInv => LogTypeOK /\ NothingHidden /\ MarksTheRefused
<1> SUFFICES ASSUME LogIInv PROVE LogTypeOK /\ NothingHidden /\ MarksTheRefused
  OBVIOUS
<1>1. NothingHidden /\ MarksTheRefused
  BY LogIs DEF LogIInv, NothingHidden, MarksTheRefused, Marked
<1>2. LogTypeOK
  BY LogIs DEF LogIInv, TrafficInv, Salvage, Pending, LogTypeOK
<1> QED BY <1>1, <1>2

(* No response vanishes from the Protocol log, whichever of clears, evictions *)
(* and ends of sessions fall between a request and its answer.                *)
THEOREM ResponsesAreShown == LogSpec => []NothingHidden
BY LogStarts, LogSteps, LogTyped, PTL DEF LogSpec

(* Only responses that were refused are marked as refused, however lists are  *)
(* read again to salvage one.                                                 *)
THEOREM RefusalIsOwn == LogSpec => []MarksTheRefused
BY LogStarts, LogSteps, LogTyped, PTL DEF LogSpec
=============================================================================
