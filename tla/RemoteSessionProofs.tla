------------------------- MODULE RemoteSessionProofs -------------------------
(* Theorems of RemoteSession, for any sends, streams and event bound.  The  *)
(* inductive invariant is TypeOK /\ SessionInv.                              *)
EXTENDS RemoteSession, TLAPS

USE DEF Streams, NoStream

LEMMA InitInv == Init => TypeOK /\ SessionInv
<1> SUFFICES ASSUME Init PROVE TypeOK /\ SessionInv
  OBVIOUS
<1>1. eventQueue = <<>> /\ eventQueue \in Seq(Event) /\ Len(eventQueue) = 0
  BY DEF Init
<1>2. wire \in [Streams -> Seq(Event)]
  BY DEF Init
<1>3. TypeOK
  BY <1>1, <1>2, RemoteSessionAssumption DEF Init, TypeOK
<1>4. SessionInv
  BY <1>1, RemoteSessionAssumption DEF Init, SessionInv, QueueOnlyWhileDetached,
     ConsumerIsOpen, QueueIsLatest, DeathIsKept, OkMeansAnswered, WaitsSettleRight
<1> QED BY <1>3, <1>4

(* pushEvent keeps the types and the order of the queue, queues nothing     *)
(* while there is a consumer, and drops nothing while there is none.        *)
LEMMA PushEventInv ==
  ASSUME TypeOK, QueueOnlyWhileDetached, QueueIsLatest,
         NEW type \in {"message", "auth_challenge", "transport_error"},
         NEW m \in Sends \union {NoSend},
         PushEvent(type, m)
  PROVE  /\ eventQueue' \in Seq(Event)
         /\ wire' \in [Streams -> Seq(Event)]
         /\ produced' \in Nat
         /\ QueueIsLatest'
         /\ eventConsumer # NoStream => eventQueue' = <<>>
         /\ eventConsumer = NoStream =>
              /\ Len(eventQueue') = Len(eventQueue) + 1
              /\ eventQueue'[Len(eventQueue')].type = type
              /\ \A i \in 1..Len(eventQueue) : eventQueue'[i] = eventQueue[i]
<1> DEFINE event == [n |-> produced + 1, type |-> type, answers |-> m]
<1>1. event \in Event /\ event.n = produced + 1 /\ event.type = type
  BY DEF TypeOK, Event
<1>2. produced' = produced + 1 /\ produced \in Nat
  BY DEF PushEvent, TypeOK
<1>3. CASE eventConsumer # NoStream
  <2>1. eventQueue' = eventQueue /\ eventQueue = <<>>
    BY <1>3 DEF PushEvent, QueueOnlyWhileDetached
  <2>2. /\ wire' = [wire EXCEPT ![eventConsumer] = Append(@, event)]
        /\ eventConsumer \in Streams
    BY <1>3 DEF PushEvent, TypeOK
  <2>3. wire' \in [Streams -> Seq(Event)]
    <3>1. wire \in [Streams -> Seq(Event)] /\ wire[eventConsumer] \in Seq(Event)
      BY <2>2 DEF TypeOK
    <3>2. Append(wire[eventConsumer], event) \in Seq(Event)
      <4> HIDE DEF event
      <4> QED BY <1>1, <3>1
    <3> HIDE DEF event
    <3> QED BY <2>2, <3>1, <3>2
  <2> QED BY <1>2, <1>3, <2>1, <2>3 DEF QueueIsLatest
<1>4. CASE eventConsumer = NoStream
  <2>1. eventQueue' = Append(eventQueue, event) /\ wire' = wire
    BY <1>4 DEF PushEvent
  <2>2. eventQueue \in Seq(Event) /\ wire \in [Streams -> Seq(Event)]
    BY DEF TypeOK
  <2>3. /\ eventQueue' \in Seq(Event)
        /\ Len(eventQueue') = Len(eventQueue) + 1
        /\ eventQueue'[Len(eventQueue')] = event
        /\ \A i \in 1..Len(eventQueue) : eventQueue'[i] = eventQueue[i]
    BY <1>1, <2>1, <2>2
  <2>4. QueueIsLatest'
    <3> SUFFICES ASSUME NEW i \in 1..Len(eventQueue')
                 PROVE  eventQueue'[i].n = produced' - Len(eventQueue') + i
      BY DEF QueueIsLatest
    <3>1. CASE i = Len(eventQueue')
      BY <1>1, <1>2, <2>2, <2>3, <3>1
    <3>2. CASE i # Len(eventQueue')
      <4>1. i \in 1..Len(eventQueue)
        BY <2>2, <2>3, <3>2
      <4> QED BY <1>2, <2>2, <2>3, <4>1 DEF QueueIsLatest
    <3> QED BY <3>1, <3>2
  <2> QED BY <1>1, <1>2, <1>4, <2>1, <2>2, <2>3, <2>4
<1> QED BY <1>3, <1>4

(* A pushed event keeps what the browser is owed of a death. *)
LEMMA PushKeepsDeath ==
  ASSUME TypeOK, QueueOnlyWhileDetached, QueueIsLatest, DeathIsKept,
         NEW type \in {"message", "auth_challenge", "transport_error"},
         NEW m \in Sends \union {NoSend},
         PushEvent(type, m),
         eventConsumer' = eventConsumer, inMap' = inMap, closing' = closing,
         transportDead' = transportDead \/ type = "transport_error"
  PROVE  DeathIsKept'
<1> SUFFICES ASSUME inMap', transportDead', closing' = "no", eventConsumer' = NoStream
             PROVE  \E i \in 1..Len(eventQueue') :
                      eventQueue'[i].type = "transport_error"
  BY DEF DeathIsKept
<1>1. /\ Len(eventQueue') = Len(eventQueue) + 1
      /\ eventQueue'[Len(eventQueue')].type = type
      /\ \A i \in 1..Len(eventQueue) : eventQueue'[i] = eventQueue[i]
      /\ Len(eventQueue) \in Nat
  BY PushEventInv DEF TypeOK
<1>2. CASE type = "transport_error"
  BY <1>1, <1>2
<1>3. CASE transportDead
  <2>1. PICK i \in 1..Len(eventQueue) : eventQueue[i].type = "transport_error"
    BY <1>3 DEF DeathIsKept
  <2> QED BY <1>1, <2>1
<1> QED BY <1>2, <1>3

(* Answering a send types well, and answers ok only what it is told to. *)
LEMMA AnswerInv ==
  ASSUME TypeOK, NEW m \in Sends, NEW r \in {"ok", "auth_challenge", "transport_error"},
         Answer(m, r)
  PROVE  /\ srv' \in [Sends -> {"none", "sending", "waiting", "done"}]
         /\ reply' \in [Sends -> {"none", "ok", "auth_challenge", "transport_error"}]
         /\ suppress' \in BOOLEAN /\ owed' \in BOOLEAN
         /\ reply'[m] = r
         /\ \A k \in Sends : k # m => reply'[k] = reply[k]
<1>1. srv' = [srv EXCEPT ![m] = "done"] /\ reply' = [reply EXCEPT ![m] = r]
  BY DEF Answer
<1>2. suppress' \in BOOLEAN /\ owed' \in BOOLEAN
  BY DEF Answer
<1> QED BY <1>1, <1>2 DEF TypeOK

-----------------------------------------------------------------------------
(* The steps of the upstream. *)

LEMMA UpstreamStepInv ==
  ASSUME TypeOK, SessionInv, UpstreamNext
  PROVE  TypeOK' /\ SessionInv'
<1> USE DEF lifeVars, streamVars, sendVars, authVars, eventVars
<1> USE DEF SessionInv
<1>1. CASE TransportStarts
  <2>1. TypeOK'
    BY <1>1 DEF TransportStarts, TypeOK
  <2>2. SessionInv'
    BY <1>1 DEF TransportStarts, QueueOnlyWhileDetached, ConsumerIsOpen, QueueIsLatest,
       DeathIsKept, OkMeansAnswered, WaitsSettleRight
  <2> QED BY <2>1, <2>2
<1>2. CASE TransportFailsToStart
  <2>1. TypeOK'
    BY <1>2 DEF TransportFailsToStart, TypeOK
  <2>2. SessionInv'
    BY <1>2 DEF TransportFailsToStart, QueueOnlyWhileDetached, ConsumerIsOpen,
       QueueIsLatest, DeathIsKept, OkMeansAnswered, WaitsSettleRight
  <2> QED BY <2>1, <2>2
<1>3. CASE UpstreamSpeaks
  <2>1. PushEvent("message", NoSend)
    BY <1>3 DEF UpstreamSpeaks
  <2>2. TypeOK' /\ QueueIsLatest' /\ QueueOnlyWhileDetached'
    BY <1>3, <2>1, PushEventInv DEF UpstreamSpeaks, TypeOK, QueueOnlyWhileDetached
  <2>3. DeathIsKept'
    BY <1>3, <2>1, PushKeepsDeath DEF UpstreamSpeaks
  <2>4. ConsumerIsOpen' /\ OkMeansAnswered' /\ WaitsSettleRight'
    BY <1>3 DEF UpstreamSpeaks, ConsumerIsOpen, OkMeansAnswered, WaitsSettleRight
  <2> QED BY <2>2, <2>3, <2>4
<1>4. CASE UpstreamAuthError
  <2>1. /\ wait' = [m \in Sends |-> IF wait[m] = "pending" THEN "auth" ELSE wait[m]]
        /\ UNCHANGED <<lifeVars, streamVars, srv, reply, answered>>
        /\ suppress' \in BOOLEAN /\ owed' \in BOOLEAN
    BY <1>4 DEF UpstreamAuthError, TypeOK
  <2>2. wait' \in [Sends -> {"none", "pending", "resolved", "auth", "failed"}]
    BY <2>1 DEF TypeOK
  <2>3. ConsumerIsOpen' /\ OkMeansAnswered' /\ WaitsSettleRight'
    BY <2>1 DEF ConsumerIsOpen, OkMeansAnswered, WaitsSettleRight
  <2>4. CASE UNCHANGED eventVars
    BY <2>1, <2>2, <2>3, <2>4 DEF TypeOK, QueueOnlyWhileDetached, QueueIsLatest, DeathIsKept
  <2>5. CASE PushEvent("auth_challenge", NoSend)
    <3>1. /\ eventQueue' \in Seq(Event) /\ wire' \in [Streams -> Seq(Event)]
          /\ produced' \in Nat /\ QueueIsLatest' /\ QueueOnlyWhileDetached'
      BY <2>1, <2>5, PushEventInv DEF QueueOnlyWhileDetached
    <3>2. DeathIsKept'
      BY <2>1, <2>5, PushKeepsDeath
    <3> QED BY <2>1, <2>2, <2>3, <3>1, <3>2 DEF TypeOK
  <2> QED BY <1>4, <2>4, <2>5 DEF UpstreamAuthError
<1>5. CASE UpstreamCloses
  <2>1. CASE inMap
    <3>1. PushEvent("transport_error", NoSend)
      BY <1>5, <2>1 DEF UpstreamCloses
    <3>2. TypeOK' /\ QueueIsLatest' /\ QueueOnlyWhileDetached'
      BY <1>5, <2>1, <3>1, PushEventInv DEF UpstreamCloses, TypeOK, QueueOnlyWhileDetached
    <3>3. DeathIsKept'
      BY <1>5, <2>1, <3>1, PushKeepsDeath DEF UpstreamCloses
    <3>4. ConsumerIsOpen' /\ OkMeansAnswered' /\ WaitsSettleRight'
      BY <1>5 DEF UpstreamCloses, ConsumerIsOpen, OkMeansAnswered, WaitsSettleRight
    <3> QED BY <3>2, <3>3, <3>4
  <2>2. CASE ~inMap
    <3>1. TypeOK'
      BY <1>5, <2>2 DEF UpstreamCloses, TypeOK
    <3>2. SessionInv'
      BY <1>5, <2>2 DEF UpstreamCloses, QueueOnlyWhileDetached, ConsumerIsOpen,
         QueueIsLatest, DeathIsKept, OkMeansAnswered, WaitsSettleRight
    <3> QED BY <3>1, <3>2
  <2> QED BY <2>1, <2>2
<1>6. ASSUME NEW m \in Sends, UpstreamAccepts(m)
      PROVE  TypeOK' /\ SessionInv'
  <2>1. UNCHANGED <<lifeVars, streamVars, wait, answered, eventVars>>
    BY <1>6 DEF UpstreamAccepts
  <2>2. QueueOnlyWhileDetached' /\ ConsumerIsOpen' /\ QueueIsLatest' /\ DeathIsKept'
           /\ WaitsSettleRight'
    BY <2>1 DEF QueueOnlyWhileDetached, ConsumerIsOpen, QueueIsLatest, DeathIsKept,
       WaitsSettleRight
  <2>3. CASE m \in Requests
    <3>1. srv' = [srv EXCEPT ![m] = "waiting"] /\ UNCHANGED <<reply, authVars>>
      BY <1>6, <2>3 DEF UpstreamAccepts
    <3>2. TypeOK'
      BY <2>1, <3>1 DEF TypeOK
    <3>3. OkMeansAnswered'
      BY <2>1, <3>1 DEF OkMeansAnswered
    <3> QED BY <2>2, <3>2, <3>3
  <2>4. CASE m \notin Requests
    <3>1. Answer(m, "ok")
      BY <1>6, <2>4 DEF UpstreamAccepts
    <3>2. TypeOK'
      BY <2>1, <3>1, AnswerInv DEF TypeOK
    <3>3. OkMeansAnswered'
      BY <2>1, <2>4, <3>1, AnswerInv, RemoteSessionAssumption DEF OkMeansAnswered
    <3> QED BY <2>2, <3>2, <3>3
  <2> QED BY <2>3, <2>4
<1>7. ASSUME NEW m \in Sends, UpstreamRefuses(m)
      PROVE  TypeOK' /\ SessionInv'
  <2>1. PICK r \in {"auth_challenge", "transport_error"} : Answer(m, r)
    BY <1>7 DEF UpstreamRefuses
  <2>2. /\ UNCHANGED <<lifeVars, streamVars, answered, eventVars>>
        /\ wait' = [wait EXCEPT ![m] = IF @ = "pending" THEN "failed" ELSE @]
    BY <1>7 DEF UpstreamRefuses
  <2>3. TypeOK'
    BY <2>1, <2>2, AnswerInv DEF TypeOK
  <2>4. OkMeansAnswered'
    BY <2>1, <2>2, AnswerInv, RemoteSessionAssumption DEF OkMeansAnswered
  <2>5. QueueOnlyWhileDetached' /\ ConsumerIsOpen' /\ QueueIsLatest' /\ DeathIsKept'
           /\ WaitsSettleRight'
    BY <2>2 DEF TypeOK, QueueOnlyWhileDetached, ConsumerIsOpen, QueueIsLatest, DeathIsKept,
       WaitsSettleRight
  <2> QED BY <2>3, <2>4, <2>5
<1>8. ASSUME NEW m \in Sends, UpstreamAnswers(m)
      PROVE  TypeOK' /\ SessionInv'
  <2>1. PushEvent("message", m)
    BY <1>8 DEF UpstreamAnswers
  <2>2. /\ m \in Requests
        /\ answered' = answered \union {m}
        /\ wait' = [wait EXCEPT ![m] = IF @ = "pending" THEN "resolved" ELSE @]
        /\ UNCHANGED <<lifeVars, streamVars, srv, reply, authVars>>
    BY <1>8 DEF UpstreamAnswers
  <2>3. TypeOK' /\ QueueIsLatest' /\ QueueOnlyWhileDetached'
    BY <2>1, <2>2, PushEventInv DEF TypeOK, QueueOnlyWhileDetached
  <2>4. DeathIsKept'
    BY <2>1, <2>2, PushKeepsDeath
  <2>5. ConsumerIsOpen' /\ OkMeansAnswered' /\ WaitsSettleRight'
    BY <2>2 DEF TypeOK, ConsumerIsOpen, OkMeansAnswered, WaitsSettleRight
  <2> QED BY <2>3, <2>4, <2>5
<1> QED BY <1>1, <1>2, <1>3, <1>4, <1>5, <1>6, <1>7, <1>8 DEF UpstreamNext

-----------------------------------------------------------------------------
(* The steps of the backend by itself. *)

LEMMA BackendStepInv ==
  ASSUME TypeOK, SessionInv, BackendNext
  PROVE  TypeOK' /\ SessionInv'
<1> USE DEF lifeVars, streamVars, sendVars, authVars, eventVars
<1> USE DEF SessionInv
<1>1. CASE SuppressionExpires
  <2>1. TypeOK'
    BY <1>1 DEF SuppressionExpires, TypeOK
  <2>2. SessionInv'
    BY <1>1 DEF SuppressionExpires, QueueOnlyWhileDetached, ConsumerIsOpen, QueueIsLatest,
       DeathIsKept, OkMeansAnswered, WaitsSettleRight
  <2> QED BY <2>1, <2>2
<1>2. CASE GcTimerFires
  <2>1. TypeOK'
    BY <1>2 DEF GcTimerFires, TypeOK
  <2>2. SessionInv'
    BY <1>2 DEF GcTimerFires, QueueOnlyWhileDetached, ConsumerIsOpen, QueueIsLatest,
       DeathIsKept, OkMeansAnswered, WaitsSettleRight
  <2> QED BY <2>1, <2>2
<1>3. CASE DisconnectReturns
  <2>1. TypeOK'
    BY <1>3 DEF DisconnectReturns, TypeOK
  <2>2. SessionInv'
    BY <1>3 DEF DisconnectReturns, QueueOnlyWhileDetached, ConsumerIsOpen, QueueIsLatest,
       DeathIsKept, OkMeansAnswered, WaitsSettleRight
  <2> QED BY <2>1, <2>2
<1>4. ASSUME NEW m \in Sends, SendReturns(m)
      PROVE  TypeOK' /\ SessionInv'
  <2>1. PICK r \in {"ok", "auth_challenge", "transport_error"} :
          Answer(m, r) /\ (r = "ok" => wait[m] = "resolved")
    BY <1>4 DEF SendReturns
  <2>2. UNCHANGED <<lifeVars, streamVars, wait, answered, eventVars>>
    BY <1>4 DEF SendReturns
  <2>3. TypeOK'
    BY <2>1, <2>2, AnswerInv DEF TypeOK
  <2>4. OkMeansAnswered'
    BY <2>1, <2>2, AnswerInv, RemoteSessionAssumption DEF OkMeansAnswered, WaitsSettleRight
  <2>5. QueueOnlyWhileDetached' /\ ConsumerIsOpen' /\ QueueIsLatest' /\ DeathIsKept'
           /\ WaitsSettleRight'
    BY <2>2 DEF QueueOnlyWhileDetached, ConsumerIsOpen, QueueIsLatest, DeathIsKept,
       WaitsSettleRight
  <2> QED BY <2>3, <2>4, <2>5
<1>5. ASSUME NEW m \in Sends, WaitTimesOut(m)
      PROVE  TypeOK' /\ SessionInv'
  <2>1. /\ wait' = [wait EXCEPT ![m] = "failed"]
        /\ UNCHANGED <<lifeVars, streamVars, srv, reply, answered, authVars, eventVars>>
    BY <1>5 DEF WaitTimesOut
  <2>2. TypeOK'
    BY <2>1 DEF TypeOK
  <2>3. SessionInv'
    BY <2>1 DEF TypeOK, QueueOnlyWhileDetached, ConsumerIsOpen, QueueIsLatest,
       DeathIsKept, OkMeansAnswered, WaitsSettleRight
  <2> QED BY <2>2, <2>3
<1>6. ASSUME NEW s \in Streams, EventsFlushed(s)
      PROVE  TypeOK' /\ SessionInv'
  <2>1. TypeOK'
    BY <1>6 DEF EventsFlushed, TypeOK
  <2>2. SessionInv'
    BY <1>6 DEF EventsFlushed, QueueOnlyWhileDetached, ConsumerIsOpen, QueueIsLatest,
       DeathIsKept, OkMeansAnswered, WaitsSettleRight
  <2> QED BY <2>1, <2>2
<1> QED BY <1>1, <1>2, <1>3, <1>4, <1>5, <1>6 DEF BackendNext

-----------------------------------------------------------------------------
(* The steps of the browser. *)

LEMMA BrowserStepInv ==
  ASSUME TypeOK, SessionInv, BrowserNext
  PROVE  TypeOK' /\ SessionInv'
<1> USE DEF lifeVars, streamVars, sendVars, authVars, eventVars
<1> USE DEF SessionInv
<1>1. CASE ConnectArrives
  <2>1. TypeOK'
    BY <1>1 DEF ConnectArrives, TypeOK
  <2>2. SessionInv'
    BY <1>1 DEF ConnectArrives, QueueOnlyWhileDetached, ConsumerIsOpen, QueueIsLatest,
       DeathIsKept, OkMeansAnswered, WaitsSettleRight
  <2> QED BY <2>1, <2>2
<1>2. CASE DisconnectArrives
  <2>1. TypeOK'
    BY <1>2 DEF DisconnectArrives, TypeOK
  <2>2. SessionInv'
    BY <1>2 DEF DisconnectArrives, QueueOnlyWhileDetached, ConsumerIsOpen, QueueIsLatest,
       DeathIsKept, OkMeansAnswered, WaitsSettleRight
  <2> QED BY <2>1, <2>2
<1>3. ASSUME NEW m \in Sends, SendArrives(m)
      PROVE  TypeOK' /\ SessionInv'
  <2>1. UNCHANGED <<lifeVars, streamVars, answered, eventVars>>
    BY <1>3 DEF SendArrives
  <2>2. CASE inMap /\ ~transportDead
    <3>1. /\ srv' = [srv EXCEPT ![m] = "sending"]
          /\ wait' = [wait EXCEPT ![m] = IF m \in Requests THEN "pending" ELSE "none"]
          /\ UNCHANGED <<reply, authVars>>
      BY <1>3, <2>2 DEF SendArrives
    <3>2. TypeOK'
      BY <2>1, <3>1 DEF TypeOK
    <3>3. SessionInv'
      BY <2>1, <3>1 DEF TypeOK, QueueOnlyWhileDetached, ConsumerIsOpen, QueueIsLatest,
         DeathIsKept, OkMeansAnswered, WaitsSettleRight
    <3> QED BY <3>2, <3>3
  <2>3. CASE ~(inMap /\ ~transportDead)
    <3>1. Answer(m, "transport_error") /\ UNCHANGED wait
      BY <1>3, <2>3 DEF SendArrives
    <3>2. TypeOK'
      BY <2>1, <3>1, AnswerInv DEF TypeOK
    <3>3. OkMeansAnswered'
      BY <2>1, <3>1, AnswerInv, RemoteSessionAssumption DEF OkMeansAnswered
    <3>4. QueueOnlyWhileDetached' /\ ConsumerIsOpen' /\ QueueIsLatest' /\ DeathIsKept'
             /\ WaitsSettleRight'
      BY <2>1, <3>1 DEF QueueOnlyWhileDetached, ConsumerIsOpen, QueueIsLatest,
         DeathIsKept, WaitsSettleRight
    <3> QED BY <3>2, <3>3, <3>4
  <2> QED BY <2>2, <2>3
<1>4. ASSUME NEW s \in Streams, EventsRequest(s)
      PROVE  TypeOK' /\ SessionInv'
  <2>1. UNCHANGED <<lifeVars, sendVars, authVars, produced>>
    BY <1>4 DEF EventsRequest
  <2>2. CASE inMap
    <3>1. /\ eventConsumer' = s
          /\ held' = [held EXCEPT ![s] = IF transportDead THEN "flushing" ELSE "held"]
          /\ wire' = [wire EXCEPT ![s] = @ \o eventQueue]
          /\ eventQueue' = <<>>
      BY <1>4, <2>2 DEF EventsRequest
    <3>2. /\ wire' \in [Streams -> Seq(Event)]
          /\ eventQueue' \in Seq(Event)
          /\ Len(eventQueue') = 0
      <4>1. wire[s] \in Seq(Event) /\ eventQueue \in Seq(Event)
        BY DEF TypeOK
      <4>2. wire[s] \o eventQueue \in Seq(Event)
        BY <4>1
      <4> QED BY <3>1, <4>2 DEF TypeOK
    <3>3. TypeOK'
      BY <2>1, <3>1, <3>2 DEF TypeOK
    <3>4. QueueIsLatest' /\ QueueOnlyWhileDetached' /\ DeathIsKept'
      BY <3>1, <3>2 DEF QueueIsLatest, QueueOnlyWhileDetached, DeathIsKept
    <3>5. ConsumerIsOpen' /\ OkMeansAnswered' /\ WaitsSettleRight'
      BY <2>1, <3>1 DEF TypeOK, ConsumerIsOpen, OkMeansAnswered, WaitsSettleRight
    <3> QED BY <3>3, <3>4, <3>5
  <2>3. CASE ~inMap
    <3>1. /\ held[s] = "no"
          /\ held' = [held EXCEPT ![s] = "refused"]
          /\ UNCHANGED <<eventConsumer, eventQueue, wire>>
      BY <1>4, <2>3 DEF EventsRequest
    <3>2. TypeOK'
      BY <2>1, <3>1 DEF TypeOK
    <3>3. SessionInv'
      BY <2>1, <3>1 DEF TypeOK, QueueOnlyWhileDetached, ConsumerIsOpen, QueueIsLatest,
         DeathIsKept, OkMeansAnswered, WaitsSettleRight
    <3> QED BY <3>2, <3>3
  <2> QED BY <2>2, <2>3
<1>5. ASSUME NEW s \in Streams, StreamAborted(s)
      PROVE  TypeOK' /\ SessionInv'
  <2>1. TypeOK'
    BY <1>5 DEF StreamAborted, TypeOK
  <2>2. SessionInv'
    BY <1>5 DEF StreamAborted, QueueOnlyWhileDetached, ConsumerIsOpen, QueueIsLatest,
       DeathIsKept, OkMeansAnswered, WaitsSettleRight
  <2> QED BY <2>1, <2>2
<1>6. ASSUME NEW s \in Streams, Reads(s)
      PROVE  TypeOK' /\ SessionInv'
  <2>1. /\ wire[s] # <<>>
        /\ wire' = [wire EXCEPT ![s] = Tail(@)]
        /\ owed' \in BOOLEAN
        /\ UNCHANGED <<lifeVars, streamVars, sendVars, suppress, eventQueue, produced>>
    BY <1>6 DEF Reads
  <2>2. wire' \in [Streams -> Seq(Event)]
    <3>1. wire[s] \in Seq(Event)
      BY DEF TypeOK
    <3>2. Tail(wire[s]) \in Seq(Event)
      BY <2>1, <3>1
    <3> QED BY <2>1, <3>2 DEF TypeOK
  <2>3. TypeOK'
    BY <2>1, <2>2 DEF TypeOK
  <2>4. SessionInv'
    BY <2>1 DEF QueueOnlyWhileDetached, ConsumerIsOpen, QueueIsLatest,
       DeathIsKept, OkMeansAnswered, WaitsSettleRight
  <2> QED BY <2>3, <2>4
<1> QED BY <1>1, <1>2, <1>3, <1>4, <1>5, <1>6 DEF BrowserNext

LEMMA NextInv == TypeOK /\ SessionInv /\ [Next]_serverVars => TypeOK' /\ SessionInv'
<1> SUFFICES ASSUME TypeOK, SessionInv, [Next]_serverVars
             PROVE  TypeOK' /\ SessionInv'
  OBVIOUS
<1>1. CASE Next
  BY <1>1, UpstreamStepInv, BackendStepInv, BrowserStepInv DEF Next
<1>2. CASE UNCHANGED serverVars
  <2> USE <1>2 DEF serverVars, lifeVars, streamVars, sendVars, authVars, eventVars
  <2>1. TypeOK'
    BY DEF TypeOK
  <2>2. SessionInv'
    BY DEF SessionInv, QueueOnlyWhileDetached, ConsumerIsOpen, QueueIsLatest,
       DeathIsKept, OkMeansAnswered, WaitsSettleRight
  <2> QED BY <2>1, <2>2
<1> QED BY <1>1, <1>2

-----------------------------------------------------------------------------
(* TypeOK /\ SessionInv is an inductive invariant. *)
THEOREM SessionInvariant == Spec => [](TypeOK /\ SessionInv)
<1>1. Init => TypeOK /\ SessionInv
  BY InitInv
<1>2. TypeOK /\ SessionInv /\ [Next]_serverVars => (TypeOK /\ SessionInv)'
  BY NextInv
<1> QED BY <1>1, <1>2, PTL DEF Spec

(* Every variable of the session keeps its type. *)
THEOREM SessionTypeCorrect == Spec => []TypeOK
BY SessionInvariant, PTL

(* remote-session.ts queues an event only while nobody consumes them, and    *)
(* the queue is the unbroken tail of what was produced: attaching a stream   *)
(* can neither reorder events nor skip one.                                  *)
THEOREM QueueKeepsOrder == Spec => [](QueueOnlyWhileDetached /\ QueueIsLatest)
<1>1. TypeOK /\ SessionInv => QueueOnlyWhileDetached /\ QueueIsLatest
  BY DEF SessionInv
<1> QED BY <1>1, SessionInvariant, PTL

(* The consumer the session writes to is a response that is still open. *)
THEOREM ConsumerNeverStale == Spec => []ConsumerIsOpen
<1>1. TypeOK /\ SessionInv => ConsumerIsOpen
  BY DEF SessionInv
<1> QED BY <1>1, SessionInvariant, PTL

(* markTransportDead leaves its event where the next consumer will find it. *)
THEOREM DeathNeverVanishes == Spec => []DeathIsKept
<1>1. TypeOK /\ SessionInv => DeathIsKept
  BY DEF SessionInv
<1> QED BY <1>1, SessionInvariant, PTL

(* /api/mcp/send answers ok to a request only after its response. *)
THEOREM OkAfterAnswer == Spec => []OkMeansAnswered
<1>1. TypeOK /\ SessionInv => OkMeansAnswered
  BY DEF SessionInv
<1> QED BY <1>1, SessionInvariant, PTL
=============================================================================
