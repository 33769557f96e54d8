--------------------------- MODULE RemoteLinkProofs ---------------------------
(* Theorems of RemoteLink, for any sends, streams and event bound: its       *)
(* waits match its sends, and it implements EventChannel.  The backend keeps *)
(* the invariant of RemoteSession under the real browser too; LinkInv says   *)
(* where each event is that the browser has not read.                        *)
EXTENDS RemoteLink, RemoteSessionProofs

USE DEF Streams, NoStream

(* A stream that was not asked for is untouched. *)
UntilAsked ==
  /\ \A s \in Streams : s > asked => held[s] = "no" /\ wire[s] = <<>>
  /\ stage \in {"idle", "connecting"} => asked = NoStream
  /\ stage \in {"opening", "reading"} => asked # NoStream

(* Each stream holds events in order, all older than what is queued. *)
WiresInOrder ==
  \A s \in Streams :
    /\ \A i, j \in 1..Len(wire[s]) : i < j => wire[s][i].n < wire[s][j].n
    /\ \A i \in 1..Len(wire[s]) : wire[s][i].n <= produced - Len(eventQueue)

(* What the browser has yet to read is newer than what it has read. *)
SeenIsBehind ==
  /\ seen <= produced - Len(eventQueue)
  /\ \A s \in Streams : s = asked => \A i \in 1..Len(wire[s]) : wire[s][i].n > seen

(* Before a stream is given up, everything else that was produced is on the  *)
(* only stream or in the queue.                                              *)
NothingSkipped ==
  abandoned = {} =>
    /\ asked <= 1
    /\ stage # "ended" =>
         /\ asked = NoStream => seen + Len(eventQueue) = produced
         /\ \A s \in Streams : s = asked =>
              /\ \A i \in 1..Len(wire[s]) : wire[s][i].n = seen + i
              /\ seen + Len(wire[s]) + Len(eventQueue) = produced

LinkInv == UntilAsked /\ WiresInOrder /\ SeenIsBehind /\ NothingSkipped

LinkIInv == LinkTypeOK /\ SessionInv /\ WaitsMatchSends /\ LinkInv

LEMMA LinkInitInv == LinkInit => LinkIInv
<1> SUFFICES ASSUME LinkInit PROVE LinkIInv
  OBVIOUS
<1>0. Init
  BY DEF LinkInit
<1>1. TypeOK /\ SessionInv
  BY <1>0, InitInv
<1>2. LinkTypeOK
  <2>1. /\ sent \in [Sends -> {"none", "posted", "awaiting", "ok", "failed"}]
        /\ sse \in [Sends -> {"none", "pending", "settled", "cancelled"}]
    BY DEF LinkInit
  <2>2. /\ stage \in {"idle", "connecting", "opening", "reading", "ended"}
        /\ closed \in BOOLEAN /\ sid \in BOOLEAN /\ bye \in {"none", "posted", "done"}
        /\ asked \in Streams \union {NoStream} /\ seen \in Nat
    BY DEF LinkInit
  <2>3. abandoned \in SUBSET Streams /\ retried \in SUBSET Sends
    BY DEF LinkInit
  <2> QED BY <1>1, <2>1, <2>2, <2>3 DEF LinkTypeOK
<1>3. WaitsMatchSends
  <2>1. \A m \in Sends : sent[m] = "none" /\ sse[m] = "none"
    BY DEF LinkInit
  <2> QED BY <2>1, RemoteSessionAssumption DEF WaitsMatchSends
<1>4. \A s \in Streams : held[s] = "no" /\ wire[s] = <<>> /\ s # 0
  <2>1. held = [s \in Streams |-> "no"] /\ wire = [s \in Streams |-> <<>>]
    BY <1>0 DEF Init
  <2>2. \A s \in Streams : s # 0
    BY RemoteSessionAssumption
  <2> HIDE DEF Streams
  <2> QED BY <2>1, <2>2
<1>5. asked = 0 /\ seen = 0 /\ produced = 0 /\ eventQueue = <<>>
  BY <1>0 DEF Init, LinkInit
<1>6. UntilAsked /\ WiresInOrder /\ SeenIsBehind /\ NothingSkipped
  <2>1. Len(eventQueue) = 0 /\ \A s \in Streams : Len(wire[s]) = 0
    BY <1>4, <1>5
  <2>2. abandoned = {} /\ stage = "idle"
    BY DEF LinkInit
  <2> QED BY <2>2, <1>4, <1>5, <2>1 DEF UntilAsked, WiresInOrder, SeenIsBehind, NothingSkipped
<1> QED BY <1>1, <1>2, <1>3, <1>6 DEF LinkIInv, LinkInv

-----------------------------------------------------------------------------
(* A message that is posted once more is one the backend has never seen.     *)
LEMMA RetryKeepsSession ==
  ASSUME TypeOK, SessionInv, NEW m \in Sends, RetryAfterAuth(m)
  PROVE  TypeOK' /\ SessionInv'
<1>1. /\ srv' = [srv EXCEPT ![m] = "none"]
      /\ wait' = [wait EXCEPT ![m] = "none"]
      /\ reply' = [reply EXCEPT ![m] = "none"]
      /\ answered' = answered \ {m}
      /\ UNCHANGED <<lifeVars, streamVars, authVars, eventVars>>
  BY DEF RetryAfterAuth
<1> USE DEF lifeVars, streamVars, authVars, eventVars
<1>2. TypeOK'
  BY <1>1 DEF TypeOK
<1>3. OkMeansAnswered' /\ WaitsSettleRight'
  BY <1>1, RemoteSessionAssumption DEF TypeOK, SessionInv, OkMeansAnswered, WaitsSettleRight
<1>4. QueueOnlyWhileDetached' /\ ConsumerIsOpen' /\ QueueIsLatest' /\ DeathIsKept'
  BY <1>1 DEF SessionInv, QueueOnlyWhileDetached, ConsumerIsOpen, QueueIsLatest, DeathIsKept
<1> QED BY <1>2, <1>3, <1>4 DEF SessionInv

(* Every other step is one of the backend's, or leaves the backend alone.    *)
LEMMA LinkKeepsSession ==
  ASSUME LinkTypeOK, SessionInv, LinkNext
  PROVE  TypeOK' /\ SessionInv'
<1>1. ASSUME [Next]_serverVars PROVE TypeOK' /\ SessionInv'
  BY <1>1, NextInv DEF LinkTypeOK
<1>2. CASE BackendStep
  BY <1>1, <1>2 DEF BackendStep, Next
<1>3. CASE StreamStep
  <2>1. CASE Start
    BY <1>1, <2>1 DEF Start, Next, BrowserNext
  <2>2. CASE ByeArrives
    BY <1>1, <2>2 DEF ByeArrives, Next, BrowserNext
  <2>3. ASSUME NEW s \in Streams, OpenArrives(s) \/ ReadEvent(s) \/ AbortArrives(s)
        PROVE  [Next]_serverVars
    BY <2>3 DEF OpenArrives, ReadEvent, AbortArrives, Next, BrowserNext
  <2>4. CASE ConnectReplies \/ OpenReplies \/ StreamFinishes \/ ConnectionLost
             \/ AttachToSession \/ Close \/ ByeFails
    BY <1>1, <2>4 DEF ConnectReplies, OpenReplies, StreamFinishes, ConnectionLost,
       AttachToSession, Close, ByeFails
  <2> QED BY <1>1, <1>3, <2>1, <2>2, <2>3, <2>4 DEF StreamStep
<1>4. ASSUME NEW m \in Sends, SendStep(m) PROVE TypeOK' /\ SessionInv'
  <2>1. CASE RetryAfterAuth(m)
    BY <2>1, RetryKeepsSession DEF LinkTypeOK
  <2>2. CASE PostArrives(m)
    BY <1>1, <2>2 DEF PostArrives, Next, BrowserNext
  <2>3. CASE PostSend(m) \/ PostFails(m) \/ SendReplies(m) \/ SseTimesOut(m) \/ AwaitReturns(m)
    BY <1>1, <2>3 DEF PostSend, PostFails, SendReplies, SseTimesOut, AwaitReturns
  <2> QED BY <1>4, <2>1, <2>2, <2>3 DEF SendStep
<1> QED BY <1>2, <1>3, <1>4 DEF LinkNext

-----------------------------------------------------------------------------
(* The sends of the browser and their waits. *)
PostTypeOK ==
  /\ sent \in [Sends -> {"none", "posted", "awaiting", "ok", "failed"}]
  /\ sse \in [Sends -> {"none", "pending", "settled", "cancelled"}]
  /\ retried \in SUBSET Sends

LEMMA LinkKeepsWaits ==
  ASSUME LinkTypeOK, WaitsMatchSends, LinkNext
  PROVE  PostTypeOK' /\ WaitsMatchSends'
<1>0. PostTypeOK /\ Requests \subseteq Sends
  BY RemoteSessionAssumption DEF LinkTypeOK, PostTypeOK
<1>1. ASSUME UNCHANGED postVars PROVE PostTypeOK' /\ WaitsMatchSends'
  BY <1>0, <1>1 DEF postVars, PostTypeOK, WaitsMatchSends
<1>2. CASE BackendStep
  BY <1>1, <1>2 DEF BackendStep, clientVars
<1>3. CASE StreamStep
  <2>1. ASSUME NEW s \in Streams, ReadEvent(s)
        PROVE  PostTypeOK' /\ WaitsMatchSends'
    <3>1. CASE sse' = sse
      BY <1>0, <2>1, <3>1 DEF ReadEvent, PostTypeOK, WaitsMatchSends
    <3>2. CASE sse' = [m \in Sends |-> IF m = Head(wire[s]).answers /\ sse[m] = "pending"
                                      THEN "settled" ELSE sse[m]]
      BY <1>0, <2>1, <3>2 DEF ReadEvent, PostTypeOK, WaitsMatchSends
    <3> QED BY <2>1, <3>1, <3>2 DEF ReadEvent
  <2>2. CASE Close
    BY <1>0, <2>2 DEF Close, Cancelled, PostTypeOK, WaitsMatchSends
  <2>3. ASSUME NEW s \in Streams, OpenArrives(s) \/ AbortArrives(s) PROVE UNCHANGED postVars
    BY <2>3 DEF OpenArrives, AbortArrives, clientVars
  <2>4. CASE Start \/ ConnectReplies \/ OpenReplies \/ StreamFinishes \/ ConnectionLost
             \/ AttachToSession \/ ByeArrives \/ ByeFails
    BY <1>1, <2>4 DEF Start, ConnectReplies, OpenReplies, StreamFinishes, ConnectionLost,
       AttachToSession, ByeArrives, ByeFails
  <2> QED BY <1>1, <1>3, <2>1, <2>2, <2>3, <2>4 DEF StreamStep
<1>4. ASSUME NEW m \in Sends, SendStep(m) PROVE PostTypeOK' /\ WaitsMatchSends'
  <2>1. CASE PostSend(m)
    BY <1>0, <2>1 DEF PostSend, PostTypeOK, WaitsMatchSends
  <2>2. CASE PostArrives(m)
    BY <1>1, <2>2 DEF PostArrives, clientVars
  <2>3. CASE PostFails(m)
    BY <1>0, <2>3 DEF PostFails, Cancelled, PostTypeOK, WaitsMatchSends
  <2>4. CASE SendReplies(m)
    BY <1>0, <2>4 DEF SendReplies, Cancelled, PostTypeOK, WaitsMatchSends
  <2>5. CASE RetryAfterAuth(m)
    BY <1>0, <2>5 DEF RetryAfterAuth, PostTypeOK, WaitsMatchSends
  <2>6. CASE SseTimesOut(m)
    BY <1>0, <2>6 DEF SseTimesOut, PostTypeOK, WaitsMatchSends
  <2>7. CASE AwaitReturns(m)
    BY <1>0, <2>7 DEF AwaitReturns, PostTypeOK, WaitsMatchSends
  <2> QED BY <1>4, <2>1, <2>2, <2>3, <2>4, <2>5, <2>6, <2>7 DEF SendStep
<1> QED BY <1>2, <1>3, <1>4 DEF LinkNext
-----------------------------------------------------------------------------
(* The kinds of steps, as far as events are concerned.                       *)

(* The session produces an event. *)
Produces ==
  /\ \E type \in {"message", "auth_challenge", "transport_error"}, m \in Sends \union {NoSend} :
       PushEvent(type, m)
  /\ UNCHANGED <<streamVars, connVars, seen>>

(* A stream that was asked for drains the queue. *)
Drains(s) == s <= asked /\ EventsRequest(s) /\ UNCHANGED clientVars

(* No event moves.  A stream is given up, or asked for, or it is over.       *)
Rests ==
  /\ UNCHANGED <<eventVars, seen>>
  /\ \A s \in Streams : s > asked => held'[s] = held[s]
  /\ asked' \in {asked, asked + 1} /\ asked' \in Streams \union {NoStream}
  /\ abandoned \subseteq abandoned' /\ abandoned' \subseteq Streams
  /\ stage' \in {"idle", "connecting", "opening", "reading", "ended"}
  /\ closed' \in BOOLEAN /\ sid' \in BOOLEAN
  /\ stage' \in {"idle", "connecting"} => asked' = NoStream
  /\ stage' \in {"opening", "reading"} => asked' # NoStream
  /\ abandoned' = {} => /\ asked' = asked \/ asked = NoStream
                        /\ stage' # "ended" => stage # "ended"

LEMMA BackendKinds ==
  ASSUME LinkTypeOK, UntilAsked, BackendStep
  PROVE  Produces \/ Rests
<1> USE DEF lifeVars, streamVars, sendVars, authVars, eventVars
<1>1. UNCHANGED <<stage, closed, sid, asked, abandoned, seen>>
  BY DEF BackendStep, clientVars, connVars
<1>2. ASSUME UNCHANGED eventVars, UNCHANGED held PROVE Rests
  BY <1>1, <1>2 DEF Rests, LinkTypeOK, UntilAsked
<1>3. ASSUME NEW type \in {"message", "auth_challenge", "transport_error"},
             NEW m \in Sends \union {NoSend}, PushEvent(type, m), UNCHANGED streamVars
      PROVE  Produces
  BY <1>1, <1>3 DEF Produces, connVars
<1>4. CASE UpstreamSpeaks
  BY <1>3, <1>4 DEF UpstreamSpeaks
<1>5. CASE UpstreamAuthError
  BY <1>2, <1>3, <1>5 DEF UpstreamAuthError
<1>6. CASE UpstreamCloses
  BY <1>2, <1>3, <1>6 DEF UpstreamCloses
<1>7. ASSUME NEW m \in Sends, UpstreamAnswers(m) PROVE Produces
  BY <1>3, <1>7 DEF UpstreamAnswers
<1>8. CASE TransportStarts \/ TransportFailsToStart \/ SuppressionExpires \/ GcTimerFires
           \/ DisconnectReturns
  BY <1>2, <1>8 DEF TransportStarts, TransportFailsToStart, SuppressionExpires, GcTimerFires,
     DisconnectReturns
<1>9. ASSUME NEW m \in Sends,
             UpstreamAccepts(m) \/ UpstreamRefuses(m) \/ SendReturns(m) \/ WaitTimesOut(m)
      PROVE  Rests
  BY <1>2, <1>9 DEF UpstreamAccepts, UpstreamRefuses, SendReturns, WaitTimesOut
<1>10. ASSUME NEW s \in Streams, EventsFlushed(s) PROVE Rests
  <2>1. s <= asked
    BY <1>10 DEF EventsFlushed, UntilAsked, LinkTypeOK
  <2>2. \A t \in Streams : t > asked => held'[t] = held[t]
    BY <1>10, <2>1 DEF EventsFlushed, LinkTypeOK, TypeOK
  <2>3. UNCHANGED eventVars
    BY <1>10 DEF EventsFlushed
  <2> QED BY <1>1, <2>2, <2>3 DEF Rests, LinkTypeOK, UntilAsked
<1> QED BY <1>4, <1>5, <1>6, <1>7, <1>8, <1>9, <1>10 DEF BackendStep, UpstreamNext, BackendNext

LEMMA BrowserKinds ==
  ASSUME LinkTypeOK, UntilAsked, StreamStep \/ \E m \in Sends : SendStep(m)
  PROVE  Rests \/ \E s \in Streams : Drains(s) \/ ReadEvent(s)
<1> USE DEF lifeVars, streamVars, sendVars, authVars, eventVars, connVars, postVars, serverVars
<1>1. ASSUME UNCHANGED <<eventVars, held, connVars, seen>> PROVE Rests
  BY <1>1 DEF Rests, LinkTypeOK, UntilAsked
<1>2. CASE Start
  BY <1>2 DEF Start, ConnectArrives, Rests, LinkTypeOK, UntilAsked
<1>3. CASE ConnectReplies
  <2>1. CASE AskForStream
    <3>1. asked' = asked + 1 /\ asked' \in Streams /\ asked' # 0
      BY <2>1, RemoteSessionAssumption DEF AskForStream
    <3>2. UNCHANGED <<eventVars, held, closed, abandoned, seen>> /\ asked = 0
      BY <1>3 DEF ConnectReplies, UntilAsked
    <3> QED BY <1>3, <2>1, <3>1, <3>2 DEF ConnectReplies, AskForStream, Rests, LinkTypeOK
  <2>2. CASE stage' = "ended" /\ UNCHANGED <<sid, asked>>
    BY <1>3, <2>2 DEF ConnectReplies, Rests, LinkTypeOK, UntilAsked
  <2> QED BY <1>3, <2>1, <2>2 DEF ConnectReplies
<1>4. CASE OpenReplies
  BY <1>4 DEF OpenReplies, Rests, LinkTypeOK, UntilAsked
<1>5. CASE StreamFinishes
  BY <1>5 DEF StreamFinishes, Rests, LinkTypeOK, UntilAsked
<1>6. CASE ConnectionLost
  <2>1. asked # NoStream => asked \in Streams
    BY DEF LinkTypeOK
  <2>2. asked \in Streams
    BY <1>6, <2>1 DEF ConnectionLost, UntilAsked
  <2> QED BY <1>6, <2>2 DEF ConnectionLost, Rests, LinkTypeOK, UntilAsked
<1>7. CASE AttachToSession
  <2>1. asked' = asked + 1 /\ asked' \in Streams /\ asked' # 0 /\ asked \in Streams
    BY <1>7, RemoteSessionAssumption DEF AttachToSession, AskForStream, LinkTypeOK
  <2>2. UNCHANGED <<eventVars, held, seen>>
    BY <1>7 DEF AttachToSession
  <2>3. abandoned' = abandoned \union {asked} /\ abandoned' # {}
    BY <1>7 DEF AttachToSession
  <2> QED BY <1>7, <2>1, <2>2, <2>3 DEF AttachToSession, AskForStream, Rests, LinkTypeOK
<1>8. CASE Close
  <2>1. asked # NoStream => asked \in Streams
    BY DEF LinkTypeOK
  <2>2. abandoned \subseteq abandoned' /\ abandoned' \subseteq Streams
    BY <1>8, <2>1 DEF Close, LinkTypeOK
  <2>3. abandoned' = {} => asked = NoStream
    BY <1>8 DEF Close
  <2> QED BY <1>8, <2>2, <2>3 DEF Close, Rests, LinkTypeOK, UntilAsked
<1>9. CASE ByeArrives
  BY <1>1, <1>9 DEF ByeArrives, DisconnectArrives
<1>10. CASE ByeFails
  BY <1>1, <1>10 DEF ByeFails
<1>11. ASSUME NEW s \in Streams, OpenArrives(s) PROVE Drains(s)
  BY <1>11 DEF OpenArrives, Drains
<1>12. ASSUME NEW s \in Streams, AbortArrives(s) PROVE Rests
  <2>1. s <= asked
    BY <1>12 DEF AbortArrives, StreamAborted, UntilAsked, LinkTypeOK
  <2>2. \A t \in Streams : t > asked => held'[t] = held[t]
    BY <1>12, <2>1 DEF AbortArrives, StreamAborted, LinkTypeOK, TypeOK
  <2>3. UNCHANGED eventVars /\ UNCHANGED clientVars
    BY <1>12 DEF AbortArrives, StreamAborted
  <2> QED BY <2>2, <2>3 DEF Rests, LinkTypeOK, UntilAsked, clientVars
<1>13. ASSUME NEW m \in Sends, SendStep(m) PROVE Rests
  BY <1>1, <1>13 DEF SendStep, PostSend, PostArrives, SendArrives, PostFails, SendReplies,
     RetryAfterAuth, SseTimesOut, AwaitReturns, clientVars
<1> QED BY <1>2, <1>3, <1>4, <1>5, <1>6, <1>7, <1>8, <1>9, <1>10, <1>11, <1>12, <1>13
        DEF StreamStep
-----------------------------------------------------------------------------
(* What each kind of step does to the events on their way, and what it is in *)
(* the channel.                                                              *)
ChannelStep == [Channel!Next]_(Channel!chanVars)

LEMMA RestsStep ==
  ASSUME LinkTypeOK, LinkInv, Rests
  PROVE  LinkInv' /\ ChannelStep
<1> USE DEF eventVars
<1>1. /\ UNCHANGED <<eventQueue, wire, produced, seen>>
      /\ asked' \in {asked, asked + 1} /\ asked \in Nat /\ MaxStreams \in Nat
  BY RemoteSessionAssumption DEF Rests, LinkTypeOK
<1>2. UntilAsked'
  BY <1>1 DEF Rests, LinkInv, UntilAsked
<1>3. WiresInOrder'
  BY <1>1 DEF LinkInv, WiresInOrder
<1>4. ASSUME asked' = asked PROVE SeenIsBehind' /\ NothingSkipped'
  <2>1. SeenIsBehind'
    BY <1>1, <1>4 DEF LinkInv, SeenIsBehind
  <2>2. NothingSkipped'
    <3>1. abandoned' = {} => abandoned = {} /\ (stage' # "ended" => stage # "ended")
      BY DEF Rests
    <3> QED BY <1>1, <1>4, <3>1 DEF LinkInv, NothingSkipped
  <2> QED BY <2>1, <2>2
<1>5. ASSUME asked' = asked + 1 PROVE SeenIsBehind' /\ NothingSkipped'
  <2>1. \A s \in Streams : s = asked' => Len(wire[s]) = 0
    <3>1. \A s \in Streams : s = asked' => wire[s] = <<>>
      BY <1>1, <1>5 DEF LinkInv, UntilAsked
    <3> QED BY <3>1
  <2>2. SeenIsBehind'
    BY <1>1, <2>1 DEF LinkInv, SeenIsBehind
  <2>3. NothingSkipped'
    <3> SUFFICES ASSUME abandoned' = {} PROVE NothingSkipped'
      BY DEF NothingSkipped
    <3>1. abandoned = {} /\ asked = 0 /\ (stage' # "ended" => stage # "ended")
      BY <1>1, <1>5 DEF Rests
    <3>2. stage # "ended" => seen + Len(eventQueue) = produced
      BY <3>1 DEF LinkInv, NothingSkipped
    <3>3. seen \in Nat /\ Len(eventQueue) \in Nat
      BY DEF LinkTypeOK, TypeOK
    <3> QED BY <1>1, <1>5, <2>1, <3>1, <3>2, <3>3 DEF NothingSkipped
  <2> QED BY <2>2, <2>3
<1>6. ChannelStep
  <2>1. CASE abandoned' = {}
    <3>1. UNCHANGED <<produced, seen>> /\ (abandoned' # {}) = (abandoned # {})
      BY <1>1, <2>1 DEF Rests
    <3> QED BY <3>1 DEF ChannelStep, Channel!chanVars
  <2>2. CASE abandoned' # {}
    BY <1>1, <2>2 DEF ChannelStep, Channel!Next, Channel!GiveUp
  <2> QED BY <2>1, <2>2
<1> QED BY <1>1, <1>2, <1>3, <1>4, <1>5, <1>6 DEF LinkInv

LEMMA ProducesStep ==
  ASSUME LinkTypeOK, SessionInv, LinkInv, Produces
  PROVE  LinkInv' /\ ChannelStep
<1>1. PICK type \in {"message", "auth_challenge", "transport_error"},
           m \in Sends \union {NoSend} : PushEvent(type, m)
  BY DEF Produces
<1> DEFINE event == [n |-> produced + 1, type |-> type, answers |-> m]
<1>2. event \in Event /\ event.n = produced + 1
  BY DEF Event, LinkTypeOK, TypeOK
<1>3. /\ UNCHANGED <<eventConsumer, held, stage, closed, sid, asked, abandoned, seen>>
      /\ produced' = produced + 1 /\ produced \in Nat /\ seen \in Nat /\ asked \in Nat
      /\ eventQueue \in Seq(Event) /\ wire \in [Streams -> Seq(Event)]
      /\ \A s \in Streams : Len(wire[s]) \in Nat
      /\ Len(eventQueue) \in Nat /\ MaxStreams \in Nat
  BY <1>1, RemoteSessionAssumption
     DEF Produces, PushEvent, streamVars, connVars, LinkTypeOK, TypeOK
<1>4. CASE eventConsumer = NoStream
  <2>1. eventQueue' = Append(eventQueue, event) /\ UNCHANGED wire
    BY <1>1, <1>4 DEF PushEvent
  <2>2. Len(eventQueue') = Len(eventQueue) + 1
    BY <1>2, <1>3, <2>1
  <2> HIDE DEF event
  <2>3. UntilAsked'
    BY <1>3, <2>1 DEF LinkInv, UntilAsked
  <2>4. WiresInOrder' /\ SeenIsBehind'
    BY <1>3, <2>1, <2>2 DEF LinkInv, WiresInOrder, SeenIsBehind
  <2>5. NothingSkipped'
    <3> SUFFICES ASSUME abandoned = {} PROVE NothingSkipped'
      BY <1>3 DEF NothingSkipped
    <3>1. /\ asked <= 1
          /\ stage # "ended" =>
               /\ asked = NoStream => seen + Len(eventQueue) = produced
               /\ \A s \in Streams : s = asked =>
                    /\ \A i \in 1..Len(wire[s]) : wire[s][i].n = seen + i
                    /\ seen + Len(wire[s]) + Len(eventQueue) = produced
      BY DEF LinkInv, NothingSkipped
    <3>2. asked = NoStream => (seen + Len(eventQueue) = produced =>
                                 seen + Len(eventQueue') = produced')
      BY <1>3, <2>2
    <3>3. \A s \in Streams : seen + Len(wire[s]) + Len(eventQueue) = produced =>
                             seen + Len(wire[s]) + Len(eventQueue') = produced'
      <4> SUFFICES ASSUME NEW s \in Streams, seen + Len(wire[s]) + Len(eventQueue) = produced
                   PROVE  seen + Len(wire[s]) + Len(eventQueue') = produced'
        OBVIOUS
      <4>1. seen \in Nat /\ Len(wire[s]) \in Nat /\ Len(eventQueue) \in Nat
        BY <1>3
      <4> QED BY <1>3, <2>2, <4>1
    <3> QED BY <1>3, <2>1, <3>1, <3>2, <3>3 DEF NothingSkipped
  <2> QED BY <1>3, <2>3, <2>4, <2>5
          DEF LinkInv, ChannelStep, Channel!Next, Channel!Produce
<1>5. CASE eventConsumer # NoStream
  <2> DEFINE c == eventConsumer
  <2>1. /\ wire' = [wire EXCEPT ![c] = Append(@, event)]
        /\ UNCHANGED eventQueue /\ eventQueue = <<>> /\ c \in Streams
    BY <1>1, <1>5 DEF PushEvent, SessionInv, QueueOnlyWhileDetached, LinkTypeOK, TypeOK
  <2>2. c <= asked /\ Len(eventQueue) = 0
    <3>1. held[c] # "no"
      BY <1>5 DEF SessionInv, ConsumerIsOpen
    <3> QED BY <1>3, <2>1, <3>1 DEF LinkInv, UntilAsked
  <2>3. /\ Len(wire'[c]) = Len(wire[c]) + 1
        /\ wire'[c][Len(wire[c]) + 1].n = produced + 1
        /\ \A i \in 1..Len(wire[c]) : wire'[c][i] = wire[c][i]
        /\ \A s \in Streams : s # c => wire'[s] = wire[s]
    <3>1. wire[c] \in Seq(Event) /\ wire'[c] = Append(wire[c], event)
      BY <1>3, <2>1
    <3> HIDE DEF event
    <3>2. \A s \in Streams : s # c => wire'[s] = wire[s]
      BY <1>3, <2>1
    <3> QED BY <1>2, <3>1, <3>2
  <2> HIDE DEF event, c
  <2>4. UntilAsked'
    <3>1. \A s \in Streams : s > asked => s # c /\ held[s] = "no" /\ wire[s] = <<>>
      BY <1>3, <2>1, <2>2, SMTT(20) DEF LinkInv, UntilAsked
    <3>2. \A s \in Streams : s > asked => wire'[s] = <<>>
      BY <2>3, <3>1
    <3>3. asked' = asked /\ stage' = stage /\ held' = held
      BY <1>3, <2>1
    <3> QED BY <3>1, <3>2, <3>3 DEF LinkInv, UntilAsked
  <2>5. \A s \in Streams : \A i \in 1..Len(wire'[s]) :
          \/ i \in 1..Len(wire[s]) /\ wire'[s][i] = wire[s][i]
          \/ s = c /\ i = Len(wire[s]) + 1 /\ wire'[s][i].n = produced + 1
    <3> SUFFICES ASSUME NEW s \in Streams, NEW i \in 1..Len(wire'[s])
                 PROVE  \/ i \in 1..Len(wire[s]) /\ wire'[s][i] = wire[s][i]
                        \/ s = c /\ i = Len(wire[s]) + 1 /\ wire'[s][i].n = produced + 1
      OBVIOUS
    <3>1. CASE s # c
      BY <2>3, <3>1
    <3>2. CASE s = c
      <4>1. Len(wire[c]) \in Nat /\ Len(wire'[c]) = Len(wire[c]) + 1
        BY <1>3, <2>1, <2>3
      <4>2. i \in 1..Len(wire[c]) \/ i = Len(wire[c]) + 1
        BY <3>2, <4>1
      <4> QED BY <2>3, <3>2, <4>2
    <3> QED BY <3>1, <3>2
  <2>6. \A s \in Streams : \A i \in 1..Len(wire[s]) :
          wire[s][i].n <= produced /\ wire[s][i].n \in Nat
    <3>1. \A s \in Streams : \A i \in 1..Len(wire[s]) : wire[s][i] \in Event
      BY <1>3
    <3> QED BY <1>3, <2>2, <3>1 DEF LinkInv, WiresInOrder, Event
  <2>7. WiresInOrder'
    <3> SUFFICES ASSUME NEW s \in Streams
                 PROVE  /\ \A i, j \in 1..Len(wire'[s]) :
                             i < j => wire'[s][i].n < wire'[s][j].n
                        /\ \A i \in 1..Len(wire'[s]) :
                             wire'[s][i].n <= produced' - Len(eventQueue')
      BY DEF WiresInOrder
    <3>1. \A i, j \in 1..Len(wire[s]) : i < j => wire[s][i].n < wire[s][j].n
      BY DEF LinkInv, WiresInOrder
    <3>2. CASE s = c
      BY <1>3, <2>1, <2>2, <2>3, <2>5, <2>6, <3>1, <3>2, SMTT(30)
    <3>3. CASE s # c
      BY <1>3, <2>1, <2>2, <2>3, <2>6, <3>1, <3>3, SMTT(30)
    <3> QED BY <3>2, <3>3
  <2>8. SeenIsBehind'
    BY <1>3, <2>1, <2>2, <2>5, SMTT(30) DEF LinkInv, SeenIsBehind
  <2>9. NothingSkipped'
    <3> SUFFICES ASSUME abandoned = {} PROVE NothingSkipped'
      BY <1>3 DEF NothingSkipped
    <3>1. asked = c /\ c = 1 /\ asked # NoStream
      BY <1>3, <2>1, <2>2 DEF LinkInv, NothingSkipped
    <3>2. stage # "ended" =>
            /\ \A i \in 1..Len(wire[c]) : wire[c][i].n = seen + i
            /\ seen + Len(wire[c]) = produced
      BY <1>3, <2>1, <2>2, <3>1 DEF LinkInv, NothingSkipped
    <3>3. stage # "ended" =>
            /\ \A i \in 1..Len(wire'[c]) : wire'[c][i].n = seen + i
            /\ seen + Len(wire'[c]) = produced + 1
      BY <1>3, <2>1, <2>3, <2>5, <3>2
    <3> QED BY <1>3, <2>1, <2>2, <3>1, <3>3 DEF NothingSkipped
  <2> QED BY <1>3, <2>4, <2>7, <2>8, <2>9
          DEF LinkInv, ChannelStep, Channel!Next, Channel!Produce
<1> QED BY <1>4, <1>5
(* Positions in a queue and on a stream. *)
LEMMA Shifts ==
  /\ \A a, k \in Int : (a + 1) + k = a + (k + 1)
  /\ \A a, l, q, k \in Int : (a + l + q) - q + (k - l) = a + k
OBVIOUS

LEMMA DrainsStep ==
  ASSUME LinkTypeOK, SessionInv, LinkInv, NEW s \in Streams, Drains(s)
  PROVE  LinkInv' /\ ChannelStep
<1>1. /\ UNCHANGED <<stage, closed, sid, asked, abandoned, seen, produced>>
      /\ produced \in Nat /\ seen \in Nat /\ asked \in Nat /\ s <= asked /\ s \in Nat
      /\ eventQueue \in Seq(Event) /\ wire \in [Streams -> Seq(Event)]
      /\ held \in [Streams -> {"no", "flushing", "held", "done", "refused"}]
      /\ \A t \in Streams : Len(wire[t]) \in Nat
      /\ Len(eventQueue) \in Nat /\ MaxStreams \in Nat
  BY RemoteSessionAssumption
     DEF Drains, EventsRequest, clientVars, connVars, LinkTypeOK, TypeOK
<1>2. ChannelStep
  BY <1>1 DEF ChannelStep, Channel!chanVars
<1>3. ASSUME ~inMap PROVE LinkInv'
  <2>1. held' = [held EXCEPT ![s] = "refused"] /\ UNCHANGED <<eventQueue, wire>>
    BY <1>3 DEF Drains, EventsRequest
  <2>2. UntilAsked'
    BY <1>1, <2>1 DEF LinkInv, UntilAsked
  <2>3. WiresInOrder' /\ SeenIsBehind' /\ NothingSkipped'
    BY <1>1, <2>1 DEF LinkInv, WiresInOrder, SeenIsBehind, NothingSkipped
  <2> QED BY <2>2, <2>3 DEF LinkInv
<1>4. ASSUME inMap PROVE LinkInv'
  <2>1. /\ wire' = [wire EXCEPT ![s] = @ \o eventQueue]
        /\ eventQueue' = <<>>
        /\ \A t \in Streams : t # s => held'[t] = held[t] /\ wire'[t] = wire[t]
    BY <1>1, <1>4 DEF Drains, EventsRequest
  <2>2. /\ Len(eventQueue') = 0
        /\ Len(wire'[s]) = Len(wire[s]) + Len(eventQueue)
        /\ \A i \in 1..Len(wire[s]) : wire'[s][i] = wire[s][i]
        /\ \A i \in 1..Len(eventQueue) : wire'[s][Len(wire[s]) + i] = eventQueue[i]
    <3>1. wire[s] \in Seq(Event) /\ wire'[s] = wire[s] \o eventQueue
      BY <1>1, <2>1
    <3> QED BY <1>1, <2>1, <3>1
  <2>3. \A i \in 1..Len(eventQueue) : eventQueue[i].n = produced - Len(eventQueue) + i
    BY DEF SessionInv, QueueIsLatest
  <2>4. \A i \in 1..Len(wire'[s]) :
          \/ i \in 1..Len(wire[s]) /\ wire'[s][i] = wire[s][i]
          \/ /\ i - Len(wire[s]) \in 1..Len(eventQueue)
             /\ wire'[s][i].n = produced - Len(eventQueue) + (i - Len(wire[s]))
    <3> SUFFICES ASSUME NEW i \in 1..Len(wire'[s]), i \notin 1..Len(wire[s])
                 PROVE  /\ i - Len(wire[s]) \in 1..Len(eventQueue)
                        /\ wire'[s][i].n = produced - Len(eventQueue) + (i - Len(wire[s]))
      BY <2>2
    <3> DEFINE k == i - Len(wire[s])
    <3>1. k \in 1..Len(eventQueue) /\ i = Len(wire[s]) + k
      BY <1>1, <2>2
    <3>2. wire'[s][i] = eventQueue[k]
      BY <2>2, <3>1
    <3> QED BY <2>3, <3>1, <3>2
  <2>5. \A t \in Streams : \A i \in 1..Len(wire[t]) :
          wire[t][i].n <= produced - Len(eventQueue) /\ wire[t][i].n \in Nat
    <3>1. \A t \in Streams : \A i \in 1..Len(wire[t]) : wire[t][i] \in Event
      BY <1>1
    <3> QED BY <3>1 DEF LinkInv, WiresInOrder, Event
  <2>6. UntilAsked'
    <3>1. ASSUME NEW t \in Streams, t > asked
          PROVE  held'[t] = "no" /\ wire'[t] = <<>>
      <4>1. t # s
        BY <1>1, <3>1
      <4>2. held'[t] = held[t] /\ wire'[t] = wire[t]
        BY <2>1, <4>1
      <4> QED BY <3>1, <4>2 DEF LinkInv, UntilAsked
    <3> QED BY <1>1, <3>1 DEF LinkInv, UntilAsked
  <2>7. WiresInOrder'
    <3> SUFFICES ASSUME NEW t \in Streams
                 PROVE  /\ \A i, j \in 1..Len(wire'[t]) :
                             i < j => wire'[t][i].n < wire'[t][j].n
                        /\ \A i \in 1..Len(wire'[t]) :
                             wire'[t][i].n <= produced' - Len(eventQueue')
      BY DEF WiresInOrder
    <3>1. \A i, j \in 1..Len(wire[t]) : i < j => wire[t][i].n < wire[t][j].n
      BY DEF LinkInv, WiresInOrder
    <3>2. CASE t = s
      <4>1. \A i \in 1..Len(wire'[s]) : wire'[s][i].n <= produced
        <5> TAKE i \in 1..Len(wire'[s])
        <5>1. CASE i \in 1..Len(wire[s]) /\ wire'[s][i] = wire[s][i]
          BY <1>1, <2>5, <5>1
        <5>2. CASE /\ i - Len(wire[s]) \in 1..Len(eventQueue)
                   /\ wire'[s][i].n = produced - Len(eventQueue) + (i - Len(wire[s]))
          BY <1>1, <5>2
        <5> QED BY <2>4, <5>1, <5>2
      <4>2. ASSUME NEW i \in 1..Len(wire'[s]), NEW j \in 1..Len(wire'[s]), i < j
            PROVE  wire'[s][i].n < wire'[s][j].n
        <5> DEFINE L == Len(wire[s])
                   Q == Len(eventQueue)
        <5>1. L \in Nat /\ Q \in Nat /\ i \in Nat /\ j \in Nat /\ produced \in Nat
          BY <1>1, <2>2
        <5>2. CASE i \in 1..L /\ wire'[s][i] = wire[s][i]
          <6>1. CASE j \in 1..L /\ wire'[s][j] = wire[s][j]
            BY <3>1, <3>2, <4>2, <5>2, <6>1
          <6>2. CASE j - L \in 1..Q /\ wire'[s][j].n = produced - Q + (j - L)
            <7>1. wire[s][i].n <= produced - Q /\ wire[s][i].n \in Nat
              BY <2>5, <5>2
            <7>2. j - L >= 1 /\ j - L \in Int
              BY <5>1, <6>2
            <7> HIDE DEF Q, L
            <7>3. wire[s][i].n < produced - Q + (j - L)
              BY <5>1, <7>1, <7>2
            <7> QED BY <5>2, <6>2, <7>3
          <6> QED BY <2>4, <6>1, <6>2
        <5>3. CASE i - L \in 1..Q /\ wire'[s][i].n = produced - Q + (i - L)
          <6>1. j \notin 1..L
            BY <4>2, <5>1, <5>3
          <6>2. wire'[s][j].n = produced - Q + (j - L)
            BY <2>4, <6>1
          <6> HIDE DEF Q, L
          <6>3. produced - Q + (i - L) < produced - Q + (j - L)
            BY <4>2, <5>1
          <6> QED BY <5>3, <6>2, <6>3
        <5> QED BY <2>4, <5>2, <5>3
      <4>3. produced' - Len(eventQueue') = produced
        BY <1>1, <2>2
      <4> QED BY <3>2, <4>1, <4>2, <4>3
    <3>3. CASE t # s
      BY <1>1, <2>1, <2>2, <2>5, <3>1, <3>3
    <3> QED BY <3>2, <3>3
  <2>8. SeenIsBehind'
    <3>1. seen <= produced - Len(eventQueue)
      BY DEF LinkInv, SeenIsBehind
    <3>2. \A t \in Streams : t = asked => \A i \in 1..Len(wire[t]) : wire[t][i].n > seen
      BY DEF LinkInv, SeenIsBehind
    <3>3. ASSUME s = asked PROVE \A i \in 1..Len(wire'[s]) : wire'[s][i].n > seen
      <4> TAKE i \in 1..Len(wire'[s])
      <4>1. CASE i \in 1..Len(wire[s]) /\ wire'[s][i] = wire[s][i]
        BY <3>2, <3>3, <4>1
      <4>2. CASE /\ i - Len(wire[s]) \in 1..Len(eventQueue)
                 /\ wire'[s][i].n = produced - Len(eventQueue) + (i - Len(wire[s]))
        BY <1>1, <3>1, <4>2
      <4> QED BY <2>4, <4>1, <4>2
    <3> QED BY <1>1, <2>1, <2>2, <3>1, <3>2, <3>3 DEF SeenIsBehind
  <2>9. NothingSkipped'
    <3> SUFFICES ASSUME abandoned = {} PROVE NothingSkipped'
      BY <1>1 DEF NothingSkipped
    <3>1. asked = s /\ asked <= 1 /\ asked # NoStream
      BY <1>1 DEF LinkInv, NothingSkipped
    <3>2. stage # "ended" =>
            /\ \A i \in 1..Len(wire[s]) : wire[s][i].n = seen + i
            /\ seen + Len(wire[s]) + Len(eventQueue) = produced
      BY <3>1 DEF LinkInv, NothingSkipped
    <3>3. stage # "ended" =>
            /\ \A i \in 1..Len(wire'[s]) : wire'[s][i].n = seen + i
            /\ seen + Len(wire'[s]) = produced
      <4> HAVE stage # "ended"
      <4>1. seen + Len(wire'[s]) = produced
        <5>1. Len(wire[s]) \in Nat
          BY <1>1
        <5> QED BY <1>1, <2>2, <3>2, <5>1
      <4>2. ASSUME NEW i \in 1..Len(wire'[s]) PROVE wire'[s][i].n = seen + i
        <5>1. CASE i \in 1..Len(wire[s]) /\ wire'[s][i] = wire[s][i]
          BY <3>2, <5>1
        <5>2. CASE /\ i - Len(wire[s]) \in 1..Len(eventQueue)
                   /\ wire'[s][i].n = produced - Len(eventQueue) + (i - Len(wire[s]))
          <6>1. Len(wire[s]) \in Nat /\ i \in Nat
            BY <1>1, <2>2
          <6> DEFINE L == Len(wire[s])
                     Q == Len(eventQueue)
          <6>2. (seen + L + Q) - Q + (i - L) = seen + i
            BY <1>1, <6>1, Shifts
          <6>3. seen + L + Q = produced
            BY <3>2
          <6> QED BY <5>2, <6>2, <6>3
        <5> QED BY <2>4, <5>1, <5>2
      <4> QED BY <4>1, <4>2
    <3>4. \A t \in Streams : t = asked => t = s
      BY <3>1
    <3>5. produced' = produced /\ Len(wire'[s]) \in Nat /\ seen + Len(wire'[s]) + 0 = seen + Len(wire'[s])
      BY <1>1, <2>2
    <3> QED BY <1>1, <2>2, <3>1, <3>3, <3>4, <3>5 DEF NothingSkipped
  <2> QED BY <2>6, <2>7, <2>8, <2>9 DEF LinkInv
<1> QED BY <1>2, <1>3, <1>4

LEMMA ReadStep ==
  ASSUME LinkTypeOK, LinkInv, NEW s \in Streams, ReadEvent(s)
  PROVE  LinkInv' /\ ChannelStep
<1> DEFINE w == wire[s]
           event == Head(w)
<1>1. /\ UNCHANGED <<asked, abandoned, held, eventQueue, produced>>
      /\ asked = s /\ stage = "reading" /\ s # 0
      /\ produced \in Nat /\ seen \in Nat /\ asked \in Nat /\ Len(eventQueue) \in Nat
      /\ wire \in [Streams -> Seq(Event)] /\ w \in Seq(Event) /\ w # <<>>
      /\ wire' = [wire EXCEPT ![s] = Tail(@)]
  BY RemoteSessionAssumption DEF ReadEvent, Reads, LinkTypeOK, TypeOK, streamVars
<1>2. /\ Len(w) \in Nat /\ Len(w) >= 1 /\ Len(wire'[s]) = Len(w) - 1
      /\ event = w[1] /\ event \in Event /\ event.n \in Nat
      /\ \A i \in 1..Len(wire'[s]) : wire'[s][i] = w[i + 1]
      /\ \A t \in Streams : t # s => wire'[t] = wire[t]
  <2>1. wire'[s] = Tail(w) /\ \A t \in Streams : t # s => wire'[t] = wire[t]
    BY <1>1
  <2>2. event = w[1] /\ event \in Event /\ Len(w) \in Nat /\ Len(w) >= 1
    BY <1>1
  <2>3. Len(Tail(w)) = Len(w) - 1 /\ \A i \in 1..Len(Tail(w)) : Tail(w)[i] = w[i + 1]
    BY <1>1
  <2>4. event.n \in Nat
    BY <2>2 DEF Event
  <2> QED BY <2>1, <2>2, <2>3, <2>4
<1>3. \/ seen' = event.n /\ stage' = stage
      \/ stage' = "ended" /\ seen' = seen
  BY DEF ReadEvent
<1> HIDE DEF w, event
<1>4. /\ \A i, j \in 1..Len(w) : i < j => w[i].n < w[j].n
      /\ \A i \in 1..Len(w) : w[i].n <= produced - Len(eventQueue) /\ w[i].n > seen
      /\ event.n <= produced - Len(eventQueue) /\ event.n > seen
  <2>1. /\ \A i, j \in 1..Len(w) : i < j => w[i].n < w[j].n
        /\ \A i \in 1..Len(w) : w[i].n <= produced - Len(eventQueue) /\ w[i].n > seen
    BY <1>1 DEF LinkInv, WiresInOrder, SeenIsBehind, w
  <2>2. 1 \in 1..Len(w)
    BY <1>2
  <2> QED BY <1>2, <2>1, <2>2
<1>5. abandoned = {} =>
        /\ \A i \in 1..Len(w) : w[i].n = seen + i
        /\ seen + Len(w) + Len(eventQueue) = produced
        /\ asked <= 1 /\ event.n = seen + 1
  <2>1. abandoned = {} =>
          /\ \A i \in 1..Len(w) : w[i].n = seen + i
          /\ seen + Len(w) + Len(eventQueue) = produced /\ asked <= 1
    BY <1>1 DEF LinkInv, NothingSkipped, w
  <2> QED BY <1>2, <2>1
<1>6. ChannelStep
  <2>1. CASE seen' = event.n
    <3>1. event.n \in seen + 1..produced /\ (event.n = seen + 1 \/ abandoned # {})
      BY <1>1, <1>2, <1>4, <1>5
    <3> QED BY <1>1, <2>1, <3>1 DEF ChannelStep, Channel!Next, Channel!Deliver
  <2>2. CASE seen' = seen
    BY <1>1, <2>2 DEF ChannelStep, Channel!chanVars
  <2> QED BY <1>3, <2>1, <2>2
<1>7. UntilAsked'
  BY <1>1, <1>2, <1>3 DEF LinkInv, UntilAsked
<1>8. WiresInOrder'
  <2> SUFFICES ASSUME NEW t \in Streams
               PROVE  /\ \A i, j \in 1..Len(wire'[t]) :
                           i < j => wire'[t][i].n < wire'[t][j].n
                      /\ \A i \in 1..Len(wire'[t]) :
                           wire'[t][i].n <= produced' - Len(eventQueue')
    BY DEF WiresInOrder
  <2>1. CASE t = s
    <3>1. \A i \in 1..Len(wire'[s]) : i + 1 \in 1..Len(w) /\ wire'[s][i] = w[i + 1]
      BY <1>2
    <3>2. \A i, j \in 1..Len(wire'[s]) : i < j => i + 1 < j + 1
      OBVIOUS
    <3>3. ASSUME NEW i \in 1..Len(wire'[s]), NEW j \in 1..Len(wire'[s]), i < j
          PROVE  wire'[s][i].n < wire'[s][j].n
      <4>1. i + 1 \in 1..Len(w) /\ j + 1 \in 1..Len(w) /\ i + 1 < j + 1
        BY <3>1, <3>2, <3>3
      <4> QED BY <1>4, <3>1, <4>1
    <3>4. ASSUME NEW i \in 1..Len(wire'[s])
          PROVE  wire'[s][i].n <= produced - Len(eventQueue)
      BY <1>4, <3>1
    <3> QED BY <1>1, <2>1, <3>3, <3>4
  <2>2. CASE t # s
    BY <1>1, <1>2, <2>2 DEF LinkInv, WiresInOrder
  <2> QED BY <2>1, <2>2
<1>9. SeenIsBehind'
  <2>1. \A i \in 1..Len(wire'[s]) :
          i + 1 \in 1..Len(w) /\ 1 \in 1..Len(w) /\ 1 < i + 1 /\ wire'[s][i] = w[i + 1]
    BY <1>2
  <2>2. \A i \in 1..Len(wire'[s]) : wire'[s][i].n > seen /\ event.n < wire'[s][i].n
    BY <1>2, <1>4, <2>1
  <2>3. \A i \in 1..Len(wire'[s]) : wire'[s][i].n \in Nat
    <3>1. \A i \in 1..Len(w) : w[i] \in Event
      BY <1>1
    <3> QED BY <2>1, <3>1 DEF Event
  <2>4. seen <= produced - Len(eventQueue)
    BY DEF LinkInv, SeenIsBehind
  <2> QED BY <1>1, <1>2, <1>3, <1>4, <2>2, <2>3, <2>4 DEF SeenIsBehind
<1>10. NothingSkipped'
  <2> SUFFICES ASSUME abandoned = {} PROVE NothingSkipped'
    BY <1>1 DEF NothingSkipped
  <2>1. CASE stage' = "ended"
    BY <1>1, <1>5, <2>1 DEF NothingSkipped
  <2>2. CASE seen' = event.n
    <3>1. seen' = seen + 1
      BY <1>5, <2>2
    <3>2. /\ \A i \in 1..Len(wire'[s]) : wire'[s][i].n = seen' + i
          /\ seen' + Len(wire'[s]) + Len(eventQueue) = produced
      <4>1. \A i \in 1..Len(wire'[s]) : i + 1 \in 1..Len(w) /\ wire'[s][i] = w[i + 1]
        BY <1>2
      <4>2. ASSUME NEW i \in 1..Len(wire'[s]) PROVE wire'[s][i].n = seen' + i
        <5>1. i + 1 \in 1..Len(w) /\ wire'[s][i].n = w[i + 1].n
          BY <4>1
        <5>2. w[i + 1].n = seen + (i + 1)
          BY <1>5, <5>1
        <5>3. (seen + 1) + i = seen + (i + 1)
          BY <1>1, Shifts
        <5> QED BY <3>1, <5>1, <5>2, <5>3
      <4>3. seen' + Len(wire'[s]) + Len(eventQueue) = produced
        <5>1. /\ seen \in Nat /\ Len(w) \in Nat /\ Len(eventQueue) \in Nat
              /\ Len(wire'[s]) = Len(w) - 1 /\ seen + Len(w) + Len(eventQueue) = produced
          BY <1>1, <1>2, <1>5
        <5> QED BY <3>1, <5>1
      <4> QED BY <4>2, <4>3
    <3> QED BY <1>1, <1>5, <3>2 DEF NothingSkipped
  <2> QED BY <1>3, <2>1, <2>2
<1> QED BY <1>6, <1>7, <1>8, <1>9, <1>10 DEF LinkInv
-----------------------------------------------------------------------------
ConnTypeOK ==
  /\ stage \in {"idle", "connecting", "opening", "reading", "ended"}
  /\ closed \in BOOLEAN /\ sid \in BOOLEAN /\ seen \in Nat
  /\ asked \in Streams \union {NoStream} /\ abandoned \in SUBSET Streams

LEMMA LinkKeepsConn ==
  ASSUME LinkTypeOK, SessionInv, LinkInv, LinkNext
  PROVE  ConnTypeOK' /\ LinkInv' /\ ChannelStep
<1>0. ConnTypeOK
  BY DEF LinkTypeOK, ConnTypeOK
<1>1. CASE Rests
  BY <1>0, <1>1, RestsStep DEF Rests, ConnTypeOK
<1>2. CASE Produces
  BY <1>0, <1>2, ProducesStep DEF Produces, ConnTypeOK, connVars
<1>3. ASSUME NEW s \in Streams, Drains(s) PROVE ConnTypeOK' /\ LinkInv' /\ ChannelStep
  BY <1>0, <1>3, DrainsStep DEF Drains, ConnTypeOK, clientVars, connVars
<1>4. ASSUME NEW s \in Streams, ReadEvent(s) PROVE ConnTypeOK' /\ LinkInv' /\ ChannelStep
  <2>1. LinkInv' /\ ChannelStep
    BY <1>4, ReadStep
  <2>2. Head(wire[s]).n \in Nat
    <3>1. wire[s] \in Seq(Event) /\ wire[s] # <<>>
      BY <1>4 DEF ReadEvent, Reads, LinkTypeOK, TypeOK
    <3>2. Head(wire[s]) \in Event
      BY <3>1
    <3> QED BY <3>2 DEF Event
  <2>3. ConnTypeOK'
    BY <1>0, <1>4, <2>2 DEF ReadEvent, ConnTypeOK
  <2> QED BY <2>1, <2>3
<1> QED BY <1>1, <1>2, <1>3, <1>4, BackendKinds, BrowserKinds DEF LinkNext, LinkInv

LEMMA ByeTypeStep ==
  ASSUME LinkTypeOK, LinkNext
  PROVE  bye' \in {"none", "posted", "done"}
<1>1. bye \in {"none", "posted", "done"}
  BY DEF LinkTypeOK
<1>2. CASE BackendStep
  BY <1>1, <1>2 DEF BackendStep, clientVars
<1>3. CASE StreamStep
  BY <1>1, <1>3 DEF StreamStep, Start, ConnectReplies, OpenReplies, StreamFinishes,
     ConnectionLost, AttachToSession, Close, ByeArrives, ByeFails, OpenArrives, ReadEvent,
     AbortArrives, clientVars
<1>4. ASSUME NEW m \in Sends, SendStep(m) PROVE bye' = bye
  BY <1>4 DEF SendStep, PostSend, PostArrives, PostFails, SendReplies, RetryAfterAuth,
     SseTimesOut, AwaitReturns, clientVars
<1> QED BY <1>1, <1>2, <1>3, <1>4 DEF LinkNext

LEMMA LinkNextInv == LinkIInv /\ [LinkNext]_linkVars => LinkIInv' /\ ChannelStep
<1> SUFFICES ASSUME LinkIInv, [LinkNext]_linkVars PROVE LinkIInv' /\ ChannelStep
  OBVIOUS
<1>0. LinkTypeOK /\ SessionInv /\ WaitsMatchSends /\ LinkInv
  BY DEF LinkIInv
<1>1. CASE LinkNext
  <2>1. TypeOK' /\ SessionInv'
    BY <1>0, <1>1, LinkKeepsSession
  <2>2. PostTypeOK' /\ WaitsMatchSends'
    BY <1>0, <1>1, LinkKeepsWaits
  <2>3. ConnTypeOK' /\ LinkInv' /\ ChannelStep
    BY <1>0, <1>1, LinkKeepsConn
  <2>4. bye' \in {"none", "posted", "done"}
    BY <1>0, <1>1, ByeTypeStep
  <2>5. LinkTypeOK'
    BY <2>1, <2>2, <2>3, <2>4 DEF LinkTypeOK, PostTypeOK, ConnTypeOK
  <2> QED BY <2>1, <2>2, <2>3, <2>5 DEF LinkIInv
<1>2. CASE UNCHANGED linkVars
  <2> USE <1>2 DEF linkVars, serverVars, clientVars, lifeVars, streamVars, sendVars, authVars,
                   eventVars, connVars, postVars
  <2>1. TypeOK' /\ SessionInv'
    BY <1>0, NextInv DEF LinkTypeOK
  <2>2. LinkTypeOK'
    BY <1>0, <2>1 DEF LinkTypeOK
  <2>3. WaitsMatchSends'
    BY <1>0 DEF WaitsMatchSends
  <2>4. LinkInv'
    BY <1>0 DEF LinkInv, UntilAsked, WiresInOrder, SeenIsBehind, NothingSkipped
  <2>5. ChannelStep
    BY DEF ChannelStep, Channel!chanVars
  <2> QED BY <2>1, <2>2, <2>3, <2>4, <2>5 DEF LinkIInv
<1> QED BY <1>1, <1>2

-----------------------------------------------------------------------------
(* LinkIInv is an inductive invariant of browser and backend together. *)
THEOREM LinkInvariant == LinkSpec => []LinkIInv
<1>1. LinkInit => LinkIInv
  BY LinkInitInv
<1>2. LinkIInv /\ [LinkNext]_linkVars => LinkIInv'
  BY LinkNextInv
<1> QED BY <1>1, <1>2, PTL DEF LinkSpec

(* Every variable of the browser and of the backend keeps its type. *)
THEOREM LinkTypeCorrect == LinkSpec => []LinkTypeOK
<1>1. LinkIInv => LinkTypeOK
  BY DEF LinkIInv
<1> QED BY <1>1, LinkInvariant, PTL

(* remoteClientTransport.ts keeps no wait for a send that is over, and a     *)
(* request that succeeded has had its response read, however timers, losses  *)
(* and close() fall.                                                         *)
THEOREM WaitsEndWithSends == LinkSpec => []WaitsMatchSends
<1>1. LinkIInv => WaitsMatchSends
  BY DEF LinkIInv
<1> QED BY <1>1, LinkInvariant, PTL

(* remoteClientTransport.ts and remote-session.ts together implement the     *)
(* channel: events are read in order, each at most once, and none is skipped *)
(* until a stream was given up.                                              *)
THEOREM LinkImplementsChannel == LinkSpec => EventsInOrder
<1>1. LinkInit => Channel!Init
  BY DEF LinkInit, Init, Channel!Init
<1>2. LinkIInv /\ [LinkNext]_linkVars => [Channel!Next]_(Channel!chanVars)
  BY LinkNextInv DEF ChannelStep
<1> QED BY <1>1, <1>2, LinkInvariant, PTL DEF LinkSpec, EventsInOrder, Channel!Spec
=============================================================================
