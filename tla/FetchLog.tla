------------------------------ MODULE FetchLog ------------------------------
(***************************************************************************)
(* The Network log of one client (core/mcp/state/fetchRequestLogState.ts): *)
(* the HTTP exchanges createFetchTracker reports (core/mcp/fetchTracking.ts*)
(* ), each with a body that is read on the side, after those of the page   *)
(* an OAuth redirect left, which are loaded from storage meanwhile.        *)
(***************************************************************************)
EXTENDS Integers, Sequences

CONSTANTS
  MaxCalls, \* bound: exchanges of this page
  Stored,   \* exchanges in storage
  Caps      \* the values of maxFetchRequests a user chooses from; 0 is no limit

ASSUME FetchLogAssumption ==
  /\ MaxCalls \in Nat /\ Stored \in Nat /\ Caps \subseteq Nat /\ Caps # {}

VARIABLES
  network,  \* fetchRequests; an exchange is numbered in the order it was made,
            \* the stored ones from 0 down
  cap,      \* maxFetchRequests
  calls,    \* exchanges tracked so far
  bodies,   \* the exchanges whose body is being read
  loading,  \* loadSession is under way
  dropped,  \* the exchanges fetchRequestBodyDropped named
  read,     \* history: the exchanges whose body arrived
  cleared   \* history: exchanges tracked before the last clear

fetchVars == <<network, cap, calls, bodies, loading, dropped, read, cleared>>

FetchTypeOK ==
  /\ network \in Seq([n : (1 - Stored)..MaxCalls, body : BOOLEAN])
  /\ cap \in Caps
  /\ cap # 0 => Len(network) <= cap
  /\ calls \in 0..MaxCalls
  /\ bodies \subseteq 1..MaxCalls /\ read \subseteq 1..MaxCalls
  /\ loading \in BOOLEAN
  /\ dropped \subseteq 1..MaxCalls
  /\ cleared \in 0..MaxCalls

FetchInit ==
  /\ network = <<>> /\ cap \in Caps /\ calls = 0
  /\ bodies = {} /\ read = {} /\ dropped = {} /\ cleared = 0
  /\ loading \in BOOLEAN

-----------------------------------------------------------------------------
(* slice(-cap) *)
Newest(log) ==
  IF cap # 0 /\ Len(log) > cap THEN SubSeq(log, Len(log) - cap + 1, Len(log)) ELSE log

(* An exchange is reported once it is answered, or failed; the body is read *)
(* unless the stream is long-lived.                                         *)
Track(reads) ==
  /\ calls < MaxCalls
  /\ calls' = calls + 1
  /\ network' = Append(IF cap # 0 /\ Len(network) >= cap THEN Tail(network) ELSE network,
                       [n |-> calls + 1, body |-> FALSE])
  /\ bodies' = IF reads THEN bodies \union {calls + 1} ELSE bodies
  /\ UNCHANGED <<cap, loading, dropped, read, cleared>>

(* onFetchRequestBodyUpdate.  A body without an entry in a full log is      *)
(* taken for one that was rotated out.                                      *)
BodyArrives(n) ==
  /\ n \in bodies
  /\ bodies' = bodies \ {n}
  /\ read' = read \union {n}
  /\ IF \E i \in DOMAIN network : network[i].n = n
     THEN /\ network' = [i \in DOMAIN network |->
               IF network[i].n = n THEN [network[i] EXCEPT !.body = TRUE] ELSE network[i]]
          /\ UNCHANGED dropped
     ELSE /\ dropped' = IF cap # 0 /\ Len(network) >= cap THEN dropped \union {n} ELSE dropped
          /\ UNCHANGED network
  /\ UNCHANGED <<cap, calls, loading, cleared>>

(* The stream errors after the clone: the body stays undefined. *)
BodyFails(n) ==
  /\ n \in bodies
  /\ bodies' = bodies \ {n}
  /\ UNCHANGED <<network, cap, calls, loading, dropped, read, cleared>>

OlderPage == [i \in 1..Stored |-> [n |-> i - Stored, body |-> FALSE]]

(* Mutation: the log loaded takes the place of the log so far. *)
HydrateReplaces ==
  /\ loading
  /\ loading' = FALSE
  /\ network' \in {Newest(OlderPage), network}
  /\ UNCHANGED <<cap, calls, bodies, dropped, read, cleared>>

(* hydrateFetchRequests: what was loaded goes in front; or the load fails. *)
Hydrate ==
  /\ loading
  /\ loading' = FALSE
  /\ network' \in {Newest(OlderPage \o network), network}
  /\ UNCHANGED <<cap, calls, bodies, dropped, read, cleared>>

SetMaxFetchRequests(max) ==
  /\ cap' = max
  /\ network' = IF max > 0 /\ Len(network) > max
                THEN SubSeq(network, Len(network) - max + 1, Len(network)) ELSE network
  /\ UNCHANGED <<calls, bodies, loading, dropped, read, cleared>>

ClearFetchRequests ==
  /\ network # <<>>
  /\ network' = <<>>
  /\ cleared' = calls
  /\ UNCHANGED <<cap, calls, bodies, loading, dropped, read>>

FetchNext ==
  \/ \E reads \in BOOLEAN : Track(reads)
  \/ \E n \in bodies : BodyArrives(n) \/ BodyFails(n)
  \/ Hydrate
  \/ \E max \in Caps \ {cap} : SetMaxFetchRequests(max)
  \/ ClearFetchRequests

FetchSpec == FetchInit /\ [][FetchNext]_fetchVars

-----------------------------------------------------------------------------
(* Properties. *)

(* The log is the newest exchanges since it was cleared, in order: a load   *)
(* from storage that comes late puts its exchanges before them, and drops   *)
(* none of them; and what was read of a body is in its exchange.            *)
NetworkIsRecent ==
  /\ \A i, j \in DOMAIN network : i < j => network[i].n < network[j].n
  /\ calls > cleared => /\ network # <<>>
                        /\ network[Len(network)].n = calls
  /\ \A i \in DOMAIN network :
       network[i].n > 0 => /\ network[i].n = calls - (Len(network) - i)
                           /\ network[i].n > cleared
                           /\ network[i].body <=> network[i].n \in read

(* fetchRequestBodyDropped says that the entry "had already rotated out",   *)
(* which a clear may have done instead.                                     *)
DroppedMeansRotated == \A n \in dropped : n > cleared
=============================================================================
