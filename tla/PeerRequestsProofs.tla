-------------------------- MODULE PeerRequestsProofs --------------------------
(* Theorems of PeerRequests, for any requests of the server and any bounds. *)
(* The inductive invariant is PeersTypeOK /\ PeersInv: what each request     *)
(* looks like on its own, and that nothing queued or kept is of an earlier   *)
(* connect().                                                                *)
EXTENDS PeerRequests, TLAPS

USE DEF Terminal

(* A request on its own, the last connect() being number a. *)
Fits(r, a) ==
  /\ r.via = "none" => ~r.queued /\ ~r.kept /\ ~r.timer
  /\ r.via # "none" => r.queued = (r.settled = "no")
  /\ r.via # "task" => ~r.kept
  /\ r.via = "task" => (r.rec = "input_required") = (r.payload = "no")
  /\ r.queued \/ r.kept => r.of = a

AllSound == \A p \in Peers : Fits(peer[p], attempt)

PeersInv == made <= attempt /\ AllSound /\ CloseIsNoticed

-----------------------------------------------------------------------------
LEMMA PeersInitInv == PeersInit => PeersTypeOK /\ PeersInv
<1> SUFFICES ASSUME PeersInit PROVE PeersTypeOK /\ PeersInv
  OBVIOUS
<1>1. NoRequest \in Request
  BY PeerRequestsAssumption DEF NoRequest, Request
<1>2. Fits(NoRequest, 0)
  BY DEF Fits, NoRequest
<1>3. MaxAttempts \in Nat /\ MaxErrors \in Nat
  BY PeerRequestsAssumption
<1>4. peer \in [Peers -> Request]
  BY <1>1 DEF PeersInit
<1>5. PeersTypeOK
  <2>1. open \subseteq unclosed /\ unclosed \subseteq 1..made
    BY DEF PeersInit
  <2>2. /\ attempt \in 0..MaxAttempts /\ made \in 0..MaxAttempts
        /\ errors \in 0..MaxErrors /\ farewells \in Nat
    BY <1>3 DEF PeersInit
  <2>3. /\ link \in {"disconnected", "connecting", "connected", "error"}
        /\ tearing \in BOOLEAN /\ kept \in BOOLEAN
        /\ connecting \in {"idle", "handshake", "confirming", "settling", "dropping"}
        /\ overtaken \in BOOLEAN
    BY DEF PeersInit
  <2> QED BY <1>4, <2>1, <2>2, <2>3 DEF PeersTypeOK
<1> QED BY <1>2, <1>5 DEF PeersInit, PeersInv, AllSound, CloseIsNoticed

(* A request stays one when a field takes a value of its own. *)
LEMMA FieldUpdates ==
  ASSUME NEW r \in Request
  PROVE  /\ \A b \in BOOLEAN : /\ [r EXCEPT !.queued = b] \in Request
                               /\ [r EXCEPT !.kept = b] \in Request
                               /\ [r EXCEPT !.timer = b] \in Request
         /\ \A how \in {"result", "error"} : /\ [r EXCEPT !.settled = how] \in Request
                                             /\ [r EXCEPT !.payload = how] \in Request
         /\ \A status \in Terminal : /\ [r EXCEPT !.rec = status] \in Request
                                     /\ [r EXCEPT !.told = status] \in Request
<1>1. \A b \in BOOLEAN : [r EXCEPT !.queued = b] \in Request
  BY DEF Request
<1>2. \A b \in BOOLEAN : [r EXCEPT !.kept = b] \in Request
  BY DEF Request
<1>3. \A b \in BOOLEAN : [r EXCEPT !.timer = b] \in Request
  BY DEF Request
<1>4. \A how \in {"result", "error"} : [r EXCEPT !.settled = how] \in Request
  BY DEF Request
<1>5. \A how \in {"result", "error"} : [r EXCEPT !.payload = how] \in Request
  BY DEF Request
<1>6. \A status \in Terminal : [r EXCEPT !.rec = status] \in Request
  BY DEF Request
<1>7. \A status \in Terminal : [r EXCEPT !.told = status] \in Request
  BY DEF Request
<1> QED BY <1>1, <1>2, <1>3, <1>4, <1>5, <1>6, <1>7

(* What a request starts as. *)
IsAsked(a, kind, via) ==
  [NoRequest EXCEPT !.via = via, !.kind = kind, !.of = a,
                    !.queued = TRUE, !.kept = (via = "task"), !.timer = (via = "task"),
                    !.rec = IF via = "task" THEN "input_required" ELSE "none"]

LEMMA AskedSound ==
  ASSUME NEW a \in 0..MaxAttempts, NEW kind \in {"sample", "elicit"},
         NEW via \in {"plain", "task", "tool"}
  PROVE  /\ IsAsked(a, kind, via) \in Request /\ Fits(IsAsked(a, kind, via), a)
         /\ IsAsked(a, kind, via).of = a
<1> DEFINE n == NoRequest
           rec == IF via = "task" THEN "input_required" ELSE "none"
           one == [n EXCEPT !.via = via]
           two == [one EXCEPT !.kind = kind]
           three == [two EXCEPT !.of = a]
           four == [three EXCEPT !.queued = TRUE]
           five == [four EXCEPT !.kept = (via = "task")]
           six == [five EXCEPT !.timer = (via = "task")]
           seven == [six EXCEPT !.rec = rec]
<1>1. n \in Request
  BY PeerRequestsAssumption DEF NoRequest, Request
<1>2. one \in Request
  <2> HIDE DEF n
  <2> QED BY <1>1 DEF Request
<1>3. two \in Request
  <2> HIDE DEF one
  <2> QED BY <1>2 DEF Request
<1>4. three \in Request
  <2> HIDE DEF two
  <2> QED BY <1>3 DEF Request
<1>5. four \in Request
  <2> HIDE DEF three
  <2> QED BY <1>4, FieldUpdates
<1>6. five \in Request
  <2> HIDE DEF four
  <2> QED BY <1>5, FieldUpdates
<1>7. six \in Request
  <2> HIDE DEF five
  <2> QED BY <1>6, FieldUpdates
<1>8. seven \in Request
  <2>1. rec \in Terminal \union {"none", "input_required"}
    OBVIOUS
  <2> HIDE DEF six, rec
  <2> QED BY <1>7, <2>1 DEF Request
<1>9. seven = IsAsked(a, kind, via)
  BY DEF IsAsked
<1>10. Fits(seven, a) /\ seven.of = a
  BY DEF Fits, NoRequest
<1> HIDE DEF seven
<1> QED BY <1>8, <1>9, <1>10

(* An entry of the queue that is settled and leaves it: the task it stands   *)
(* for has ended, and its status was sent only if the task is still kept.    *)
Left(r, how) == [Settle(r, how) EXCEPT !.queued = FALSE]

LEMMA SettleSound ==
  ASSUME NEW r \in Request, NEW a \in 0..MaxAttempts, Fits(r, a), r.queued,
         NEW how \in {"result", "error"}
  PROVE  /\ Left(r, how) \in Request /\ Fits(Left(r, how), a)
         /\ ~Left(r, how).queued /\ Left(r, how).kept = r.kept /\ Left(r, how).of = r.of
         /\ Left(r, how).told # r.told => r.kept
<1> DEFINE s == Left(r, how)
<1>1. r.via # "none"
  BY DEF Fits, NoRequest
<1>2. CASE r.via # "task"
  <2>1. s = [r EXCEPT !.settled = how, !.queued = FALSE]
    BY <1>2 DEF Settle, Left
  <2> HIDE DEF s
  <2>2. s \in Request /\ Fits(s, a) /\ ~s.queued /\ s.kept = r.kept /\ s.of = r.of
        /\ s.told = r.told
    BY <1>1, <1>2, <2>1 DEF Request, Fits
  <2> QED BY <2>2 DEF s
<1>3. CASE r.via = "task"
  <2>1. s = [r EXCEPT !.settled = how,
                      !.payload = IF r.payload = "no" THEN how ELSE r.payload,
                      !.rec = IF how = "result" THEN "completed" ELSE "failed",
                      !.told = IF r.kept THEN IF how = "result" THEN "completed" ELSE "failed"
                               ELSE r.told,
                      !.queued = FALSE]
    BY <1>3 DEF Settle, Upserted, Request, Left
  <2> DEFINE status == IF how = "result" THEN "completed" ELSE "failed"
             one == [r EXCEPT !.settled = how]
             two == [one EXCEPT !.payload = IF r.payload = "no" THEN how ELSE r.payload]
             three == [two EXCEPT !.rec = status]
             four == [three EXCEPT !.told = IF r.kept THEN status ELSE r.told]
  <2>2. status \in Terminal
    OBVIOUS
  <2>3. s = [four EXCEPT !.queued = FALSE]
    BY <2>1
  <2> HIDE DEF s, status
  <2>4. one \in Request
    BY FieldUpdates
  <2>5. two \in Request
    <3> HIDE DEF one
    <3> QED BY <2>4 DEF Request
  <2>6. three \in Request
    <3> HIDE DEF two
    <3> QED BY <2>2, <2>5, FieldUpdates
  <2>7. four \in Request
    <3> HIDE DEF three
    <3> QED BY <2>2, <2>6 DEF Request
  <2>8. s \in Request
    <3> HIDE DEF four
    <3> QED BY <2>3, <2>7, FieldUpdates
  <2>9. /\ s.via = r.via /\ s.queued = FALSE /\ s.kept = r.kept /\ s.of = r.of
        /\ s.timer = r.timer /\ s.settled = how /\ s.rec = status
        /\ s.payload = (IF r.payload = "no" THEN how ELSE r.payload)
        /\ s.told = IF r.kept THEN status ELSE r.told
    BY <2>3 DEF Request
  <2>10. Fits(s, a)
    BY <1>1, <1>3, <2>9 DEF Request, Fits, status
  <2>11. ~s.queued /\ (s.told # r.told => r.kept)
    BY <2>9
  <2> QED BY <2>8, <2>9, <2>10, <2>11 DEF s
<1> QED BY <1>2, <1>3

(* clearPendingPeerRequests empties the queue and keeps what was sound. *)
LEMMA SweptSound ==
  ASSUME NEW f \in [Peers -> Request], NEW a \in 0..MaxAttempts,
         \A p \in Peers : Fits(f[p], a)
  PROVE  /\ Swept(f) \in [Peers -> Request]
         /\ \A p \in Peers : /\ Fits(Swept(f)[p], a)
                             /\ ~Swept(f)[p].queued
                             /\ Swept(f)[p].kept = f[p].kept
                             /\ Swept(f)[p].of = f[p].of
                             /\ Swept(f)[p].told # f[p].told => f[p].kept
<1> SUFFICES ASSUME NEW p \in Peers
             PROVE  /\ Swept(f)[p] \in Request /\ Fits(Swept(f)[p], a)
                    /\ ~Swept(f)[p].queued
                    /\ Swept(f)[p].kept = f[p].kept /\ Swept(f)[p].of = f[p].of
                    /\ Swept(f)[p].told # f[p].told => f[p].kept
  BY DEF Swept
<1>1. f[p] \in Request /\ Fits(f[p], a)
  OBVIOUS
<1>2. CASE ~f[p].queued
  BY <1>1, <1>2 DEF Swept
<1>3. CASE f[p].queued
  <2>1. PICK how \in {"result", "error"} : Cancelled(f[p]) = Settle(f[p], how)
    BY DEF Cancelled
  <2>2. Swept(f)[p] = Left(f[p], how)
    BY <1>3, <2>1 DEF Swept, Left
  <2> QED BY <1>1, <1>3, <2>2, SettleSound
<1> QED BY <1>2, <1>3

(* clearReceiverTasks keeps nothing, and says nothing. *)
LEMMA ForgottenSound ==
  ASSUME NEW f \in [Peers -> Request], NEW a \in 0..MaxAttempts,
         \A p \in Peers : Fits(f[p], a)
  PROVE  /\ Forgotten(f) \in [Peers -> Request]
         /\ \A p \in Peers : /\ Fits(Forgotten(f)[p], a)
                             /\ ~Forgotten(f)[p].kept
                             /\ Forgotten(f)[p].queued = f[p].queued
                             /\ Forgotten(f)[p].told = f[p].told
                             /\ Forgotten(f)[p].of = f[p].of
<1> SUFFICES ASSUME NEW p \in Peers
             PROVE  /\ Forgotten(f)[p] \in Request /\ Fits(Forgotten(f)[p], a)
                    /\ ~Forgotten(f)[p].kept
                    /\ Forgotten(f)[p].queued = f[p].queued
                    /\ Forgotten(f)[p].told = f[p].told
                    /\ Forgotten(f)[p].of = f[p].of
  BY DEF Forgotten
<1>1. f[p] \in Request /\ Fits(f[p], a)
  OBVIOUS
<1>2. Forgotten(f)[p] = [f[p] EXCEPT !.kept = FALSE, !.timer = FALSE]
  BY DEF Forgotten
<1> DEFINE s == [f[p] EXCEPT !.kept = FALSE, !.timer = FALSE]
<1>3. s \in Request
  BY <1>1, FieldUpdates
<1>4. /\ s.via = f[p].via /\ s.queued = f[p].queued /\ s.of = f[p].of
      /\ s.kept = FALSE /\ s.timer = FALSE /\ s.settled = f[p].settled
      /\ s.rec = f[p].rec /\ s.payload = f[p].payload /\ s.told = f[p].told
  BY <1>1 DEF Request
<1> HIDE DEF s
<1> QED BY <1>1, <1>2, <1>3, <1>4 DEF Fits, s

(* What connect() starts with is sound for its own number, too. *)
LEMMA CleanSound ==
  ASSUME PeersTypeOK, AllSound, attempt < MaxAttempts
  PROVE  /\ Clean \in [Peers -> Request]
         /\ \A p \in Peers : /\ Fits(Clean[p], attempt + 1)
                             /\ Clean[p].told = peer[p].told
<1>1. peer \in [Peers -> Request] /\ attempt \in 0..MaxAttempts
  BY DEF PeersTypeOK
<1>2. /\ Forgotten(peer) \in [Peers -> Request]
      /\ \A p \in Peers : /\ Fits(Forgotten(peer)[p], attempt)
                          /\ ~Forgotten(peer)[p].kept
                          /\ Forgotten(peer)[p].told = peer[p].told
  BY <1>1, ForgottenSound DEF AllSound
<1>3. /\ Clean \in [Peers -> Request]
      /\ \A p \in Peers : /\ Fits(Clean[p], attempt)
                          /\ ~Clean[p].queued
                          /\ Clean[p].kept = Forgotten(peer)[p].kept
                          /\ Clean[p].told # Forgotten(peer)[p].told => Forgotten(peer)[p].kept
  BY <1>1, <1>2, SweptSound DEF Clean
<1> QED BY <1>2, <1>3 DEF Fits

-----------------------------------------------------------------------------
(* What every step does to the requests: they stay sound, and a status is    *)
(* sent only about a task of the connect() that is current afterwards.       *)
RequestStep ==
  /\ peer' \in [Peers -> Request]
  /\ AllSound'
  /\ \A p \in Peers : peer'[p].told # peer[p].told => peer'[p].of = attempt'

(* A sweep within the same connect(). *)
LEMMA SweepStep ==
  ASSUME PeersTypeOK, AllSound, attempt' = attempt,
         peer' = Swept(peer) \/ peer' = Forgotten(Swept(peer)) \/ peer' = peer
  PROVE  RequestStep
<1>1. peer \in [Peers -> Request] /\ attempt \in 0..MaxAttempts
  BY DEF PeersTypeOK
<1>2. CASE peer' = peer
  BY <1>1, <1>2 DEF RequestStep, AllSound
<1>3. /\ Swept(peer) \in [Peers -> Request]
      /\ \A p \in Peers : /\ Fits(Swept(peer)[p], attempt)
                          /\ Swept(peer)[p].kept = peer[p].kept
                          /\ Swept(peer)[p].of = peer[p].of
                          /\ Swept(peer)[p].told # peer[p].told => peer[p].kept
  BY <1>1, SweptSound DEF AllSound
<1>4. \A p \in Peers : Swept(peer)[p].told # peer[p].told => Swept(peer)[p].of = attempt
  BY <1>3 DEF AllSound, Fits
<1>5. CASE peer' = Swept(peer)
  BY <1>3, <1>4, <1>5 DEF RequestStep, AllSound
<1>6. CASE peer' = Forgotten(Swept(peer))
  <2>1. PICK f : f = Swept(peer)
    OBVIOUS
  <2>2. /\ f \in [Peers -> Request] /\ attempt \in 0..MaxAttempts
        /\ \A p \in Peers : Fits(f[p], attempt)
    BY <1>1, <1>3, <2>1
  <2>3. \A p \in Peers : f[p].told # peer[p].told => f[p].of = attempt
    BY <1>4, <2>1
  <2>4. peer' = Forgotten(f)
    BY <1>6, <2>1
  <2>5. /\ Forgotten(f) \in [Peers -> Request]
        /\ \A p \in Peers : /\ Fits(Forgotten(f)[p], attempt)
                            /\ Forgotten(f)[p].told = f[p].told
                            /\ Forgotten(f)[p].of = f[p].of
    BY <2>2, ForgottenSound
  <2>6. peer' \in [Peers -> Request] /\ attempt' = attempt
    BY <2>4, <2>5
  <2>7. \A p \in Peers : Fits(peer'[p], attempt')
    BY <2>4, <2>5, <2>6
  <2>8. \A p \in Peers : peer'[p].told # peer[p].told => peer'[p].of = attempt'
    BY <2>3, <2>4, <2>5, <2>6
  <2> QED BY <2>6, <2>7, <2>8 DEF RequestStep, AllSound
<1> QED BY <1>2, <1>5, <1>6

(* One request changes, to one that is sound. *)
LEMMA OneRequestStep ==
  ASSUME PeersTypeOK, AllSound, UNCHANGED clientVars,
         NEW p \in Peers, NEW r \in Request,
         peer' = [peer EXCEPT ![p] = r],
         Fits(r, attempt), r.told # peer[p].told => r.of = attempt
  PROVE  RequestStep
<1>1. peer \in [Peers -> Request] /\ attempt' = attempt
  BY DEF PeersTypeOK, clientVars
<1>2. \A q \in Peers : peer'[q] = IF q = p THEN r ELSE peer[q]
  BY <1>1
<1> QED BY <1>1, <1>2 DEF RequestStep, AllSound

-----------------------------------------------------------------------------
(* The steps of the client itself. *)
LEMMA ClientNext ==
  ASSUME PeersTypeOK, PeersInv,
         \/ ConnectStarts \/ HandshakeAnswered \/ HandshakeDone \/ ConnectEnds \/ ConnectFails \/ ConnectDropped
         \/ DisconnectStarts \/ DisconnectEnds \/ TransportErrs
         \/ \E t \in unclosed : TransportCloses(t)
  PROVE  PeersTypeOK' /\ PeersInv' /\ RequestStep
<1> USE PeerRequestsAssumption
<1>1. CASE ConnectStarts
  <2>1. RequestStep
    <3>1. /\ Clean \in [Peers -> Request]
          /\ \A p \in Peers : Fits(Clean[p], attempt + 1) /\ Clean[p].told = peer[p].told
      BY <1>1, CleanSound DEF ConnectStarts, PeersInv
    <3>2. peer' = Clean /\ attempt' = attempt + 1
      BY <1>1 DEF ConnectStarts
    <3> QED BY <3>1, <3>2 DEF RequestStep, AllSound
  <2>2. /\ attempt \in Nat /\ made \in Nat /\ MaxAttempts \in Nat
        /\ made <= attempt /\ attempt < MaxAttempts /\ attempt' = attempt + 1
    BY <1>1 DEF ConnectStarts, PeersTypeOK, PeersInv
  <2>3. made' = made \/ made' = made + 1
    BY <1>1 DEF ConnectStarts
  <2>4. /\ attempt' \in 0..MaxAttempts /\ made' \in 0..MaxAttempts /\ made' <= attempt'
    BY <2>2, <2>3
  <2>5. open' \subseteq unclosed' /\ unclosed' \subseteq 1..made'
    <3>1. open \subseteq unclosed /\ unclosed \subseteq 1..made
      BY DEF PeersTypeOK
    <3>2. CASE UNCHANGED <<made, open, unclosed>>
      BY <3>1, <3>2
    <3>3. CASE /\ made' = made + 1
               /\ open' = (open \ {made}) \union {made + 1}
               /\ unclosed' = unclosed \union {made + 1}
      <4>1. 1..made \subseteq 1..(made + 1) /\ made + 1 \in 1..(made + 1)
        BY <2>2
      <4> QED BY <3>1, <3>3, <4>1
    <3> QED BY <1>1, <3>2, <3>3 DEF ConnectStarts
  <2>6. PeersTypeOK'
    BY <1>1, <2>1, <2>4, <2>5 DEF ConnectStarts, PeersTypeOK, RequestStep
  <2>7. CloseIsNoticed'
    BY <1>1 DEF ConnectStarts, CloseIsNoticed
  <2> QED BY <2>1, <2>4, <2>6, <2>7 DEF PeersInv, RequestStep
<1>2. CASE HandshakeDone
  <2>1. RequestStep
    BY <1>2, SweepStep DEF HandshakeDone, PeersInv
  <2> QED BY <1>2, <2>1 DEF HandshakeDone, PeersTypeOK, PeersInv, RequestStep, CloseIsNoticed
<1>3. CASE HandshakeAnswered \/ ConnectEnds
  <2>1. RequestStep
    BY <1>3, SweepStep DEF HandshakeAnswered, ConnectEnds, PeersInv
  <2> QED BY <1>3, <2>1 DEF HandshakeAnswered, ConnectEnds, PeersTypeOK, PeersInv, RequestStep, CloseIsNoticed
<1>4. CASE ConnectFails
  <2>1. RequestStep
    BY <1>4, SweepStep DEF ConnectFails, PeersInv
  <2> QED BY <1>4, <2>1 DEF ConnectFails, PeersTypeOK, PeersInv, RequestStep, CloseIsNoticed
<1>5. CASE ConnectDropped
  <2>1. RequestStep
    BY <1>5, SweepStep DEF ConnectDropped, PeersInv
  <2> QED BY <1>5, <2>1 DEF ConnectDropped, PeersTypeOK, PeersInv, RequestStep, CloseIsNoticed
<1>6. CASE DisconnectStarts
  <2>1. RequestStep
    BY <1>6, SweepStep DEF DisconnectStarts, PeersInv
  <2> QED BY <1>6, <2>1 DEF DisconnectStarts, PeersTypeOK, PeersInv, RequestStep, CloseIsNoticed
<1>7. CASE DisconnectEnds
  <2>1. RequestStep
    BY <1>7, SweepStep DEF DisconnectEnds, PeersInv
  <2>2. farewells' \in Nat
    BY <1>7 DEF DisconnectEnds, PeersTypeOK
  <2>3. PeersTypeOK'
    BY <1>7, <2>1, <2>2 DEF DisconnectEnds, PeersTypeOK, RequestStep
  <2> QED BY <1>7, <2>1, <2>3 DEF DisconnectEnds, PeersInv, RequestStep, CloseIsNoticed
<1>8. CASE TransportErrs
  <2>1. RequestStep
    BY <1>8, SweepStep DEF TransportErrs, PeersInv
  <2> QED BY <1>8, <2>1 DEF TransportErrs, PeersTypeOK, PeersInv, RequestStep, CloseIsNoticed
<1>9. ASSUME NEW t \in unclosed, TransportCloses(t)
      PROVE  PeersTypeOK' /\ PeersInv' /\ RequestStep
  <2>1. RequestStep
    BY <1>9, SweepStep DEF TransportCloses, PeersInv
  <2> QED BY <1>9, <2>1 DEF TransportCloses, PeersTypeOK, PeersInv, RequestStep, CloseIsNoticed
<1> QED BY <1>1, <1>2, <1>3, <1>4, <1>5, <1>6, <1>7, <1>8, <1>9

(* The steps of one request. *)
LEMMA PeerNext ==
  ASSUME PeersTypeOK, PeersInv, NEW p \in Peers,
         \/ \E kind \in {"sample", "elicit"}, via \in {"plain", "task", "tool"} :
              PeerAsks(p, kind, via)
         \/ UserAnswers(p) \/ UserRejects(p) \/ ServerCancels(p) \/ TaskExpires(p)
  PROVE  PeersTypeOK' /\ PeersInv' /\ RequestStep
<1> DEFINE r == peer[p]
<1>1. /\ peer \in [Peers -> Request] /\ r \in Request /\ attempt \in 0..MaxAttempts
      /\ AllSound /\ Fits(r, attempt)
  BY DEF PeersTypeOK, PeersInv, AllSound
<1>2. UNCHANGED clientVars
  BY DEF PeerAsks, UserAnswers, UserRejects, ServerCancels, TaskExpires
<1>3. RequestStep
  <2>1. ASSUME NEW kind \in {"sample", "elicit"}, NEW via \in {"plain", "task", "tool"},
               PeerAsks(p, kind, via)
        PROVE  RequestStep
    <3> DEFINE s == IsAsked(attempt, kind, via)
    <3>1. peer' = [peer EXCEPT ![p] = s]
      BY <2>1 DEF PeerAsks, IsAsked
    <3>2. s \in Request /\ Fits(s, attempt) /\ s.of = attempt
      BY <1>1, AskedSound
    <3> HIDE DEF s
    <3> QED BY <1>1, <1>2, <3>1, <3>2, OneRequestStep
  <2>2. ASSUME NEW how \in {"result", "error"}, r.queued,
               peer' = [peer EXCEPT ![p] = [Settle(@, how) EXCEPT !.queued = FALSE]]
        PROVE  RequestStep
    <3> DEFINE s == Left(r, how)
    <3>1. /\ s \in Request /\ Fits(s, attempt) /\ s.of = r.of
          /\ s.told # r.told => r.kept
      BY <1>1, <2>2, SettleSound
    <3>2. s.told # r.told => s.of = attempt
      BY <1>1, <3>1 DEF Fits
    <3>3. peer' = [peer EXCEPT ![p] = s]
      BY <2>2 DEF Left
    <3> HIDE DEF s
    <3> QED BY <1>1, <1>2, <3>1, <3>2, <3>3, OneRequestStep
  <2>3. ASSUME ServerCancels(p) PROVE RequestStep
    <3> DEFINE s == [r EXCEPT !.rec = "cancelled", !.told = "cancelled",
                              !.timer = FALSE, !.payload = "error"]
    <3>1. peer' = [peer EXCEPT ![p] = s]
      BY <1>1, <2>3 DEF ServerCancels
    <3>2. s \in Request
      BY <1>1, FieldUpdates
    <3>3. /\ s.via = r.via /\ s.queued = r.queued /\ s.of = r.of
          /\ s.kept = r.kept /\ s.timer = FALSE /\ s.settled = r.settled
          /\ s.rec = "cancelled" /\ s.payload = "error" /\ s.told = "cancelled"
      BY <1>1 DEF Request
    <3>4. r.via = "task" /\ r.kept
      BY <1>1, <2>3 DEF ServerCancels, Fits
    <3>5. Fits(s, attempt) /\ s.of = attempt
      <4> HIDE DEF s
      <4> QED BY <1>1, <3>3, <3>4 DEF Fits
    <3> HIDE DEF s
    <3> QED BY <1>1, <1>2, <3>1, <3>2, <3>5, OneRequestStep
  <2>4. ASSUME TaskExpires(p) PROVE RequestStep
    <3> DEFINE s == [r EXCEPT !.timer = FALSE, !.kept = FALSE]
    <3>1. peer' = [peer EXCEPT ![p] = s]
      BY <1>1, <2>4 DEF TaskExpires
    <3>2. s \in Request /\ Fits(s, attempt) /\ s.told = r.told
      <4>1. r.via # "none"
        BY <1>1, <2>4 DEF TaskExpires, Fits, NoRequest
      <4>2. s \in Request
        BY <1>1, FieldUpdates
      <4>3. /\ s.via = r.via /\ s.queued = r.queued /\ s.of = r.of
            /\ s.kept = FALSE /\ s.timer = FALSE /\ s.settled = r.settled
            /\ s.rec = r.rec /\ s.payload = r.payload /\ s.told = r.told
        BY <1>1 DEF Request
      <4> HIDE DEF s
      <4> QED BY <1>1, <4>1, <4>2, <4>3 DEF Fits
    <3> HIDE DEF s
    <3> QED BY <1>1, <1>2, <3>1, <3>2, OneRequestStep
  <2> QED BY <2>1, <2>2, <2>3, <2>4 DEF UserAnswers, UserRejects
<1> QED BY <1>2, <1>3 DEF PeersTypeOK, PeersInv, RequestStep, CloseIsNoticed, clientVars

LEMMA PeersNextInv ==
  ASSUME PeersTypeOK, PeersInv, [PeersNext]_peerVars
  PROVE  PeersTypeOK' /\ PeersInv' /\ RequestStep
<1>1. CASE UNCHANGED peerVars
  <2>1. attempt' = attempt /\ peer' = peer
    BY <1>1 DEF peerVars, clientVars
  <2>2. RequestStep
    BY <2>1, SweepStep DEF PeersInv
  <2> QED BY <1>1, <2>2 DEF peerVars, clientVars, PeersTypeOK, PeersInv, RequestStep,
             CloseIsNoticed
<1>2. CASE PeersNext
  BY <1>2, ClientNext, PeerNext DEF PeersNext
<1> QED BY <1>1, <1>2

-----------------------------------------------------------------------------
(* The inductive invariant. *)
THEOREM PeersInvariant == PeersSpec => [](PeersTypeOK /\ PeersInv)
<1>1. PeersTypeOK /\ PeersInv /\ [PeersNext]_peerVars => (PeersTypeOK /\ PeersInv)'
  BY PeersNextInv
<1> QED BY <1>1, PeersInitInv, PTL DEF PeersSpec

(* The queue is exactly what the client owes an answer, through sweeps,      *)
(* answers, cancels and expiries.                                            *)
THEOREM DebtIsQueued == PeersSpec => []QueueIsDebt
<1>1. PeersTypeOK /\ PeersInv => QueueIsDebt
  BY DEF PeersInv, AllSound, Fits, QueueIsDebt, Raised
<1> QED BY <1>1, PeersInvariant, PTL

(* A session that is up shows and keeps nothing of an earlier one, however   *)
(* that one ended.                                                           *)
THEOREM SessionIsClean == PeersSpec => []SessionOwnsItsRequests
<1>1. PeersTypeOK /\ PeersInv => SessionOwnsItsRequests
  BY DEF PeersInv, AllSound, Fits, SessionOwnsItsRequests, Raised
<1> QED BY <1>1, PeersInvariant, PTL

(* The payload of a receiver task is settled exactly when it has ended.      *)
THEOREM EndIsPayment == PeersSpec => []EndedIsPaid
<1>1. PeersTypeOK /\ PeersInv => EndedIsPaid
  BY DEF PeersInv, AllSound, Fits, EndedIsPaid, Raised
<1> QED BY <1>1, PeersInvariant, PTL

(* No transport closes unnoticed under a client that says connected, though  *)
(* connect() or disconnect() be under way, but for the close that overtakes  *)
(* the end of client.connect().                                              *)
THEOREM CloseNoticed == PeersSpec => []CloseIsNoticed
<1>1. PeersTypeOK /\ PeersInv => CloseIsNoticed
  BY DEF PeersInv
<1> QED BY <1>1, PeersInvariant, PTL

(* No status notification is about the task of an earlier session.           *)
THEOREM StatusIsOwn == PeersSpec => NoStrayStatus
<1>1. PeersTypeOK /\ PeersInv /\ [PeersNext]_peerVars =>
        [\A p \in Peers : peer'[p].told # peer[p].told => peer'[p].of = attempt']_peerVars
  BY PeersNextInv DEF RequestStep
<1> QED BY <1>1, PeersInvariant, PTL DEF PeersSpec, NoStrayStatus
=============================================================================
