------------------------- MODULE ListenStreamProofs -------------------------
(* Theorems of ListenStream, for any URIs, attempt limit and generation     *)
(* bound.  The inductive invariant is TypeOK /\ StreamInv.                   *)
EXTENDS ListenStream, TLAPS

USE DEF Gens, NoStream

LEMMA InitInv == Init => TypeOK /\ StreamInv
<1> SUFFICES ASSUME Init PROVE TypeOK /\ StreamInv
  OBVIOUS
<1>1. NoCall \in Call /\ NoCall.phase = "idle"
  BY DEF NoCall, Call
<1>2. call \in [Gens -> Call] /\ \A g \in Gens : call[g].phase = "idle"
  BY <1>1 DEF Init
<1>3. Inactive \in Badge /\ ~Inactive.active
  BY DEF Inactive, Badge
<1>4. carried \in [Gens -> SUBSET Uris] /\ gen \in 0..MaxGen
  BY ListenStreamAssumption DEF Init
<1>6. TypeOK
  BY <1>2, <1>3, <1>4 DEF Init, TypeOK, Status
<1>5. StreamInv
  BY <1>2, <1>3 DEF Init, StreamInv, FilterMirrorsSubscribed, CurrentIsLive,
     NoLeakedStream, InactiveWhenEmpty, RefreshesOwnTheirGeneration
<1> QED BY <1>5, <1>6

LEMMA ShownIsBadge ==
  ASSUME NEW subs, NEW st \in {"connecting", "acknowledged", "reconnecting", "ended"}
  PROVE  /\ Shown(subs, st) \in Badge
         /\ Shown(subs, st).active <=> subs # {}
         /\ Inactive \in Badge /\ ~Inactive.active
BY DEF Shown, Inactive, Badge

(* The assignments of a refresh's first step keep the types and hand the    *)
(* old stream over to be closed.                                            *)
LEMMA StartRefreshInv ==
  ASSUME TypeOK, StreamInv,
         NEW kind \in {"connect", "subscribe", "unsubscribe", "reconnect"},
         NEW u \in Uris \union {NoUri}, NEW subs \in SUBSET Uris,
         NEW shown \in Badge, NEW tries \in Nat, NEW wanted \in BOOLEAN,
         subs = {} => ~shown.active,
         StartRefresh(kind, u, subs, shown, tries, wanted)
  PROVE  /\ StreamInv'
         /\ subscribed' \in SUBSET Uris /\ gen' \in 0..MaxGen
         /\ current' \in Gens \union {NoStream} /\ badge' \in Badge
         /\ attempts' \in Nat /\ timer' \in BOOLEAN /\ call' \in [Gens -> Call]
         /\ carried' \in [Gens -> SUBSET Uris]
         /\ live' \in SUBSET Gens /\ closing' \in SUBSET Gens
<1>1. gen + 1 \in Gens /\ gen \in Nat /\ gen' = gen + 1
  BY ListenStreamAssumption DEF TypeOK, StartRefresh
<1>2. /\ call' \in [Gens -> Call]
      /\ carried' \in [Gens -> SUBSET Uris]
      /\ \A g \in Gens : g # gen + 1 => call'[g] = call[g] /\ carried'[g] = carried[g]
      /\ call'[gen + 1].phase = "listening" => carried'[gen + 1] = subs
  <2>1. CASE current # NoStream
    <3>1. [phase |-> "closing", kind |-> kind, uri |-> u, prev |-> current] \in Call
      <4>1. current \in Gens \union {NoStream}
        BY DEF TypeOK
      <4> QED BY <4>1 DEF Call
    <3>2. /\ carried' = carried
          /\ call' = [call EXCEPT ![gen + 1] =
               [phase |-> "closing", kind |-> kind, uri |-> u, prev |-> current]]
      BY <2>1 DEF StartRefresh
    <3> QED BY <3>1, <3>2, <1>1 DEF TypeOK
  <2>2. CASE current = NoStream /\ wanted
    <3>1. [phase |-> IF link THEN "listening" ELSE "rejected",
           kind |-> kind, uri |-> u, prev |-> NoStream] \in Call
      BY DEF Call
    <3> QED BY <2>2, <3>1, <1>1 DEF TypeOK, StartRefresh, SendListen
  <2>3. CASE current = NoStream /\ ~wanted
    <3>1. call' = call /\ carried' = carried
      BY <2>3 DEF StartRefresh
    <3>2. call[gen + 1].phase = "idle"
      BY <1>1 DEF StreamInv, RefreshesOwnTheirGeneration
    <3> QED BY <3>1, <3>2 DEF TypeOK
  <2> QED BY <2>1, <2>2, <2>3
<1>3. /\ closing' \subseteq live /\ live \subseteq closing'
      /\ live' = live /\ current' = NoStream
  <2>1. CASE current # NoStream
    BY <2>1 DEF TypeOK, StartRefresh, StartClose, StreamInv, CurrentIsLive,
       NoLeakedStream, RefreshesOwnTheirGeneration
  <2>2. CASE current = NoStream
    <3>1. NoStream \notin live
      BY DEF TypeOK
    <3> QED BY <2>2, <3>1 DEF StartRefresh, StreamInv, NoLeakedStream,
               RefreshesOwnTheirGeneration
  <2> QED BY <2>1, <2>2
<1>4. badge' \in Badge /\ (subs = {} => ~badge'.active)
  BY ShownIsBadge DEF StartRefresh
<1>5. subscribed' = subs /\ attempts' = tries /\ timer' = FALSE
  BY DEF StartRefresh
<1>6. gen + 1 \notin live
  BY <1>1 DEF TypeOK, StreamInv, RefreshesOwnTheirGeneration
<1>7. RefreshesOwnTheirGeneration'
  <2>1. \A g \in live' : g <= gen'
    BY <1>1, <1>3 DEF TypeOK, StreamInv, RefreshesOwnTheirGeneration
  <2>2. \A g \in Gens : call'[g].phase # "idle" => g <= gen' /\ g \notin live'
    BY <1>1, <1>2, <1>3, <1>6 DEF TypeOK, StreamInv, RefreshesOwnTheirGeneration
  <2>3. \A g \in Gens : g = gen' /\ call'[g].phase = "listening"
                          => carried'[g] = subscribed'
    BY <1>1, <1>2, <1>5
  <2> QED BY <1>3, <2>1, <2>2, <2>3 DEF RefreshesOwnTheirGeneration
<1>8. StreamInv'
  BY <1>3, <1>4, <1>5, <1>7
  DEF StreamInv, FilterMirrorsSubscribed, CurrentIsLive, NoLeakedStream, InactiveWhenEmpty
<1>9. gen' \in 0..MaxGen /\ live' \in SUBSET Gens /\ closing' \in SUBSET Gens
  BY <1>1, <1>3 DEF TypeOK
<1> QED BY <1>1, <1>2, <1>3, <1>4, <1>5, <1>8, <1>9

(* The record a refresh leaves: its own, if it has anything to do.           *)
LEMMA StartRefreshCall ==
  ASSUME TypeOK, NEW kind, NEW u, NEW subs, NEW shown, NEW tries, NEW wanted,
         StartRefresh(kind, u, subs, shown, tries, wanted)
  PROVE  /\ gen + 1 \in Gens /\ gen' = gen + 1 /\ subscribed' = subs
         /\ \A h \in Gens : h # gen + 1 => call'[h] = call[h]
         /\ \/ call' = call /\ ~wanted
            \/ call'[gen + 1].kind = kind /\ call'[gen + 1].uri = u
<1>1. gen + 1 \in Gens /\ gen' = gen + 1 /\ subscribed' = subs
  BY ListenStreamAssumption DEF TypeOK, StartRefresh
<1>2. ASSUME NEW phase, NEW prev,
             call' = [call EXCEPT ![gen + 1] =
                        [phase |-> phase, kind |-> kind, uri |-> u, prev |-> prev]]
      PROVE  /\ \A h \in Gens : h # gen + 1 => call'[h] = call[h]
             /\ call'[gen + 1].kind = kind /\ call'[gen + 1].uri = u
  <2>1. call'[gen + 1] = [phase |-> phase, kind |-> kind, uri |-> u, prev |-> prev]
    BY <1>1, <1>2 DEF TypeOK
  <2>2. \A h \in Gens : h # gen + 1 => call'[h] = call[h]
    BY <1>2 DEF TypeOK
  <2> QED BY <2>1, <2>2
<1>3. CASE current # NoStream
  <2>1. call' = [call EXCEPT ![gen + 1] =
                   [phase |-> "closing", kind |-> kind, uri |-> u, prev |-> current]]
    BY <1>3 DEF StartRefresh
  <2> QED BY <1>1, <1>2, <2>1
<1>4. CASE current = NoStream /\ wanted
  <2>1. call' = [call EXCEPT ![gen + 1] =
                   [phase |-> IF link THEN "listening" ELSE "rejected",
                    kind |-> kind, uri |-> u, prev |-> NoStream]]
    BY <1>4 DEF StartRefresh, SendListen
  <2> QED BY <1>1, <1>2, <2>1
<1>5. CASE current = NoStream /\ ~wanted
  BY <1>1, <1>5 DEF StartRefresh
<1> QED BY <1>1, <1>3, <1>4, <1>5

(* A reset lets go of the stream, closes it and takes a fresh generation. *)
LEMMA ResetInv ==
  ASSUME TypeOK, StreamInv, ResetSubscriptionStream
  PROVE  /\ StreamInv'
         /\ subscribed' \in SUBSET Uris /\ gen' \in 0..MaxGen
         /\ current' \in Gens \union {NoStream} /\ badge' \in Badge
         /\ attempts' \in Nat /\ timer' \in BOOLEAN /\ call' \in [Gens -> Call]
         /\ carried' \in [Gens -> SUBSET Uris]
         /\ live' \in SUBSET Gens /\ closing' \in SUBSET Gens
<1>1. gen + 1 \in Gens /\ gen \in Nat /\ gen' = gen + 1
  BY ListenStreamAssumption DEF TypeOK, ResetSubscriptionStream
<1>2. closing' \subseteq live /\ live \subseteq closing'
  <2>1. NoStream \notin live
    BY DEF TypeOK
  <2> QED BY <2>1 DEF TypeOK, ResetSubscriptionStream, StartClose, StreamInv,
             CurrentIsLive, NoLeakedStream, RefreshesOwnTheirGeneration
<1>3. /\ subscribed' = {} /\ current' = NoStream /\ badge' = Inactive
      /\ timer' = FALSE /\ attempts' = 0
      /\ call' = call /\ carried' = carried /\ live' = live
  BY DEF ResetSubscriptionStream
<1>4. RefreshesOwnTheirGeneration'
  <2>1. \A g \in live' : g <= gen'
    BY <1>1, <1>3 DEF TypeOK, StreamInv, RefreshesOwnTheirGeneration
  <2>2. \A g \in Gens : call'[g].phase # "idle" => g <= gen /\ g <= gen' /\ g \notin live'
    BY <1>1, <1>3 DEF TypeOK, StreamInv, RefreshesOwnTheirGeneration
  <2>3. call'[gen'].phase = "idle"
    BY <1>1, <2>2
  <2> QED BY <1>2, <1>3, <2>1, <2>2, <2>3 DEF RefreshesOwnTheirGeneration
<1>5. StreamInv'
  BY <1>2, <1>3, <1>4, ShownIsBadge
  DEF StreamInv, FilterMirrorsSubscribed, CurrentIsLive, NoLeakedStream, InactiveWhenEmpty
<1>6. gen' \in 0..MaxGen /\ badge' \in Badge
  BY <1>1, <1>3, ShownIsBadge
<1> QED BY <1>2, <1>3, <1>5, <1>6 DEF TypeOK

(* The closed handler lets go of the stream it was called for, when that is *)
(* the current one, and shows a badge that agrees with the set.             *)
LEMMA ClosedHandler ==
  ASSUME TypeOK, StreamInv, NEW s \in Gens, NEW reason, NEW st,
         OnModernSubscriptionClosed(s, reason, st)
  PROVE  /\ current = s => current' = NoStream
         /\ current # s => current' = current
         /\ badge' \in Badge /\ timer' \in BOOLEAN
         /\ subscribed = {} => ~badge'.active
<1>1. CASE gen # s \/ current # s
  <2>1. UNCHANGED <<current, badge, timer>>
    BY <1>1 DEF OnModernSubscriptionClosed
  <2>2. current # s
    BY <1>1 DEF StreamInv, FilterMirrorsSubscribed
  <2> QED BY <2>1, <2>2 DEF TypeOK, StreamInv, InactiveWhenEmpty
<1>2. CASE gen = s /\ current = s
  <2>1. /\ current' = NoStream
        /\ \/ badge' = Shown(subscribed, "reconnecting") /\ timer' = TRUE
           \/ badge' = Shown(subscribed, "ended") /\ timer' = timer
    BY <1>2 DEF OnModernSubscriptionClosed, ScheduleReconnect
  <2> QED BY <1>2, <2>1, ShownIsBadge DEF TypeOK
<1> QED BY <1>1, <1>2

(* A refresh in flight has no stream; its caller's record may be dropped or *)
(* kept without disturbing the others.                                      *)
LEMMA ActiveCall ==
  ASSUME TypeOK, StreamInv, NEW g \in Gens, call[g].phase # "idle"
  PROVE  /\ g <= gen /\ g \notin live /\ current # g
         /\ gen = g => current = NoStream
BY DEF TypeOK, StreamInv, RefreshesOwnTheirGeneration, CurrentIsLive, FilterMirrorsSubscribed

LEMMA ResumesType ==
  ASSUME TypeOK, NEW kind, CallerResumes(kind)
  PROVE  /\ status' \in Status /\ disconnecting' \in BOOLEAN
         /\ connectPc' \in {"idle", "handshake", "confirming", "opening"}
         /\ announced' \in BOOLEAN /\ link' \in BOOLEAN /\ ready' \in BOOLEAN
         /\ optIn' \in BOOLEAN
<1>1. CASE kind = "connect"
  BY <1>1 DEF CallerResumes, ConnectReturns, TypeOK
<1>2. CASE kind # "connect"
  BY <1>2 DEF CallerResumes, session, TypeOK
<1> QED BY <1>1, <1>2

-----------------------------------------------------------------------------
(* The steps of the session preserve the invariant. *)
LEMMA SessionInv ==
  ASSUME TypeOK, StreamInv, SessionNext
  PROVE  TypeOK' /\ StreamInv'
<1>1. CASE ConnectBegin
  <2>1. ResetSubscriptionStream
    BY <1>1 DEF ConnectBegin
  <2>2. /\ status' = "connecting" /\ connectPc' = "handshake" /\ announced' = FALSE
        /\ link' \in BOOLEAN /\ disconnecting' = disconnecting /\ ready' = ready
        /\ optIn' = optIn
    BY <1>1 DEF ConnectBegin, TypeOK
  <2> QED BY <2>1, <2>2, ResetInv DEF TypeOK, Status
<1>2. CASE HandshakeResolves
  <2>1. /\ status' = "connected" /\ ready' = TRUE /\ announced' \in BOOLEAN
        /\ connectPc' \in {"idle", "opening"} /\ disconnecting' = disconnecting
        /\ link' = link /\ optIn' \in BOOLEAN
    BY <1>2, ListenStreamAssumption DEF HandshakeResolves, TypeOK
  <2>2. CASE optIn' \/ subscribed # {}
    <3>1. StartRefresh("connect", NoUri, subscribed, badge, 0, TRUE)
      BY <1>2, <2>2 DEF HandshakeResolves
    <3>2. subscribed \in SUBSET Uris /\ badge \in Badge /\ (subscribed = {} => ~badge.active)
      BY DEF TypeOK, StreamInv, InactiveWhenEmpty
    <3> QED BY <2>1, <3>1, <3>2, StartRefreshInv DEF TypeOK, Status
  <2>3. CASE ~(optIn' \/ subscribed # {})
    <3>1. UNCHANGED <<stream, wire>>
      BY <1>2, <2>3 DEF HandshakeResolves
    <3>2. StreamInv'
      BY <3>1 DEF StreamInv, FilterMirrorsSubscribed, CurrentIsLive, NoLeakedStream,
         InactiveWhenEmpty, RefreshesOwnTheirGeneration, stream, wire
    <3> QED BY <2>1, <3>1, <3>2 DEF TypeOK, Status, stream, wire
  <2> QED BY <2>2, <2>3
<1>3. CASE HandshakeAnswered \/ HandshakeRejects \/ DisconnectBegin \/ TransportErrs
  <2>1. UNCHANGED <<stream, wire>>
    BY <1>3 DEF HandshakeAnswered, HandshakeRejects, DisconnectBegin, TransportErrs
  <2>2. StreamInv'
    BY <2>1 DEF StreamInv, FilterMirrorsSubscribed, CurrentIsLive, NoLeakedStream,
       InactiveWhenEmpty, RefreshesOwnTheirGeneration, stream, wire
  <2>3. status' \in Status /\ optIn' \in BOOLEAN
    BY <1>3 DEF HandshakeAnswered, HandshakeRejects, DisconnectBegin, TransportErrs, TypeOK, Status
  <2> QED BY <1>3, <2>1, <2>2, <2>3 DEF HandshakeAnswered, HandshakeRejects, DisconnectBegin, TransportErrs,
             TypeOK, stream, wire
<1>4. CASE DisconnectEnd
  <2>1. ResetSubscriptionStream
    BY <1>4 DEF DisconnectEnd
  <2> QED BY <1>4, <2>1, ResetInv DEF DisconnectEnd, TypeOK, Status
<1>5. CASE TransportCloses
  <2>1. /\ live' = {} /\ closing' = {} /\ subscribed' = subscribed /\ gen' = gen
        /\ carried' = carried /\ attempts' = attempts /\ link' = FALSE
        /\ UNCHANGED <<disconnecting, connectPc, announced, ready, optIn>>
    BY <1>5 DEF TransportCloses
  <2>2. status' \in Status
    BY <1>5 DEF TransportCloses, TypeOK, Status
  <2>3. /\ call' \in [Gens -> Call]
        /\ \A g \in Gens : /\ call'[g].phase # "idle" => call[g].phase # "idle"
                           /\ call'[g].phase # "listening"
    <3>1. \A g \in Gens : [call[g] EXCEPT !.phase = "rejected"] \in Call
                          /\ [call[g] EXCEPT !.phase = "rejected"].phase = "rejected"
      BY DEF TypeOK, Call
    <3>2. call' = [g \in Gens |-> IF call[g].phase = "listening"
                                  THEN [call[g] EXCEPT !.phase = "rejected"] ELSE call[g]]
      BY <1>5 DEF TransportCloses
    <3> QED BY <3>1, <3>2 DEF TypeOK
  <2>4. /\ current' = NoStream /\ badge' \in Badge /\ timer' \in BOOLEAN
        /\ subscribed = {} => ~badge'.active
    <3>1. CASE current = NoStream
      BY <1>5, <3>1 DEF TransportCloses, TypeOK, StreamInv, InactiveWhenEmpty
    <3>2. CASE current # NoStream
      <4>1. PICK reason \in {"remote", "graceful"} :
              OnModernSubscriptionClosed(current, reason, status')
        BY <1>5, <3>2 DEF TransportCloses
      <4>2. current \in Gens
        BY <3>2 DEF TypeOK
      <4> QED BY <4>1, <4>2, ClosedHandler
    <3> QED BY <3>1, <3>2
  <2>5. StreamInv'
    BY <2>1, <2>3, <2>4 DEF StreamInv, FilterMirrorsSubscribed, CurrentIsLive,
       NoLeakedStream, InactiveWhenEmpty, RefreshesOwnTheirGeneration
  <2> QED BY <2>1, <2>2, <2>3, <2>4, <2>5 DEF TypeOK
<1> QED BY <1>1, <1>2, <1>3, <1>4, <1>5 DEF SessionNext

(* Sending the listen request of refresh g: the others keep their records,  *)
(* and the filter is the set it was given.                                  *)
LEMMA SendListenInv ==
  ASSUME TypeOK, NEW g \in Gens,
         NEW kind \in {"none", "connect", "subscribe", "unsubscribe", "reconnect"},
         NEW u \in Uris \union {NoUri}, NEW subs \in SUBSET Uris,
         SendListen(g, kind, u, subs)
  PROVE  /\ call' \in [Gens -> Call] /\ carried' \in [Gens -> SUBSET Uris]
         /\ \A h \in Gens : h # g => call'[h] = call[h] /\ carried'[h] = carried[h]
         /\ carried'[g] = subs
<1>1. [phase |-> IF link THEN "listening" ELSE "rejected",
       kind |-> kind, uri |-> u, prev |-> NoStream] \in Call
  BY DEF Call
<1> QED BY <1>1 DEF SendListen, TypeOK

LEMMA DropCall ==
  ASSUME TypeOK, NEW g \in Gens, call' = [call EXCEPT ![g] = NoCall]
  PROVE  /\ call' \in [Gens -> Call]
         /\ call'[g].phase = "idle"
         /\ \A h \in Gens : h # g => call'[h] = call[h]
         /\ \A h \in Gens : call'[h].phase # "idle" => call'[h] = call[h] /\ h # g
<1>1. NoCall \in Call /\ NoCall.phase = "idle"
  BY DEF NoCall, Call
<1> QED BY <1>1 DEF TypeOK

LEMMA PreviousClosedInv ==
  ASSUME TypeOK, StreamInv, NEW g \in Gens, PreviousClosed(g)
  PROVE  TypeOK' /\ StreamInv'
<1>1. /\ call[g] \in Call /\ call[g].phase = "closing"
      /\ UNCHANGED <<subscribed, gen, current, attempts, timer, live, closing>>
  BY DEF PreviousClosed, TypeOK
<1>2. g <= gen /\ g \notin live /\ current # g /\ (gen = g => current = NoStream)
  BY <1>1, ActiveCall
<1>3. CASE Wants(subscribed)
  <2>1. SendListen(g, call[g].kind, call[g].uri, subscribed)
        /\ UNCHANGED <<badge, session>>
    BY <1>3 DEF PreviousClosed
  <2>2. /\ call' \in [Gens -> Call] /\ carried' \in [Gens -> SUBSET Uris]
        /\ \A h \in Gens : h # g => call'[h] = call[h] /\ carried'[h] = carried[h]
        /\ carried'[g] = subscribed
    <3>1. /\ call[g].kind \in {"none", "connect", "subscribe", "unsubscribe", "reconnect"}
          /\ call[g].uri \in Uris \union {NoUri} /\ subscribed \in SUBSET Uris
      BY <1>1 DEF TypeOK, Call
    <3> QED BY <2>1, <3>1, SendListenInv
  <2>3. RefreshesOwnTheirGeneration'
    BY <1>1, <1>2, <2>2 DEF StreamInv, RefreshesOwnTheirGeneration
  <2>4. StreamInv'
    BY <1>1, <1>2, <2>1, <2>2, <2>3 DEF TypeOK, StreamInv, FilterMirrorsSubscribed,
       CurrentIsLive, NoLeakedStream, InactiveWhenEmpty, session
  <2> QED BY <1>1, <2>1, <2>2, <2>4 DEF TypeOK, session
<1>4. CASE ~Wants(subscribed)
  <2>1. /\ badge' = Inactive /\ call' = [call EXCEPT ![g] = NoCall]
        /\ carried' = carried /\ CallerResumes(call[g].kind)
    BY <1>4 DEF PreviousClosed
  <2>2. StreamInv'
    BY <1>1, <2>1, DropCall, ShownIsBadge DEF StreamInv, FilterMirrorsSubscribed,
       CurrentIsLive, NoLeakedStream, InactiveWhenEmpty, RefreshesOwnTheirGeneration
  <2> QED BY <1>1, <2>1, <2>2, DropCall, ResumesType, ShownIsBadge DEF TypeOK
<1> QED BY <1>3, <1>4

LEMMA ListenAcknowledgedInv ==
  ASSUME TypeOK, StreamInv, NEW g \in Gens, ListenAcknowledged(g)
  PROVE  TypeOK' /\ StreamInv'
<1>1. /\ call[g].phase = "listening" /\ live' = live \union {g}
      /\ call' = [call EXCEPT ![g] = NoCall] /\ CallerResumes(call[g].kind)
      /\ UNCHANGED <<subscribed, gen, timer, carried>>
  BY DEF ListenAcknowledged
<1>2. g <= gen /\ g \notin live /\ current # g /\ (gen = g => current = NoStream)
  BY <1>1, ActiveCall
<1>3. CASE gen = g
  <2>1. /\ current' = g /\ attempts' = 0 /\ closing' = closing
        /\ badge' = Shown(subscribed, "acknowledged")
    BY <1>3 DEF ListenAcknowledged
  <2>2. carried[g] = subscribed /\ g \notin closing /\ live \subseteq closing
    <3>1. NoStream \notin live
      BY DEF TypeOK
    <3> QED BY <1>1, <1>2, <1>3, <3>1
            DEF StreamInv, RefreshesOwnTheirGeneration, NoLeakedStream
  <2>3. StreamInv'
    BY <1>1, <1>2, <1>3, <2>1, <2>2, DropCall, ShownIsBadge DEF StreamInv,
       FilterMirrorsSubscribed, CurrentIsLive, NoLeakedStream, InactiveWhenEmpty,
       RefreshesOwnTheirGeneration
  <2> QED BY <1>1, <2>1, <2>3, DropCall, ResumesType, ShownIsBadge DEF TypeOK
<1>4. CASE gen # g
  <2>1. closing' = closing \union {g} /\ UNCHANGED <<current, attempts, badge>>
    BY <1>4 DEF ListenAcknowledged
  <2>2. StreamInv'
    BY <1>1, <1>2, <2>1, DropCall DEF StreamInv, FilterMirrorsSubscribed,
       CurrentIsLive, NoLeakedStream, InactiveWhenEmpty, RefreshesOwnTheirGeneration
  <2> QED BY <1>1, <2>1, <2>2, DropCall, ResumesType DEF TypeOK
<1> QED BY <1>3, <1>4

LEMMA ListenRejectedInv ==
  ASSUME TypeOK, StreamInv, NEW g \in Gens, ListenRejected(g)
  PROVE  TypeOK' /\ StreamInv'
<1>1. /\ call[g].phase # "idle" /\ call' = [call EXCEPT ![g] = NoCall]
      /\ CallerResumes(call[g].kind) /\ CallerCatches(g)
      /\ UNCHANGED <<gen, current, carried, live, closing>>
  BY DEF ListenRejected
<1>2. gen = g => current = NoStream
  BY <1>1, ActiveCall
<1>3. /\ badge' \in Badge /\ timer' \in BOOLEAN /\ attempts' \in Nat
      /\ subscribed' \in SUBSET Uris /\ (subscribed' = {} => ~badge'.active)
      /\ gen # g => subscribed' = subscribed
  <2>1. CASE call[g].kind = "reconnect"
    <3>1. /\ attempts' = attempts + 1 /\ subscribed' = subscribed
          /\ \/ badge' = Shown(subscribed, "ended") /\ timer' = timer
             \/ badge' = Shown(subscribed, "reconnecting") /\ timer' = TRUE
      BY <1>1, <2>1 DEF CallerCatches, ScheduleReconnect
    <3>2. badge' \in Badge /\ (subscribed' = {} => ~badge'.active)
      BY <3>1, ShownIsBadge
    <3>3. timer' \in BOOLEAN
      BY <3>1, Zenon DEF TypeOK
    <3>4. attempts' \in Nat /\ subscribed' \in SUBSET Uris
      BY <1>1, <2>1 DEF CallerCatches, TypeOK
    <3> QED BY <3>1, <3>2, <3>3, <3>4
  <2>2. CASE call[g].kind # "reconnect" /\ gen = g
    <3>1. /\ attempts' = attempts /\ subscribed' \in SUBSET Uris
          /\ \/ badge' = Inactive /\ timer' = timer
             \/ badge' = Shown(subscribed', "reconnecting") /\ timer' = TRUE
      BY <1>1, <2>2 DEF CallerCatches, Reconcile, ScheduleReconnect, TypeOK
    <3> QED BY <2>2, <3>1, ShownIsBadge DEF TypeOK
  <2>3. CASE call[g].kind # "reconnect" /\ gen # g
    BY <1>1, <2>3 DEF CallerCatches, TypeOK, StreamInv, InactiveWhenEmpty
  <2> QED BY <2>1, <2>2, <2>3
<1>4. FilterMirrorsSubscribed'
  BY <1>1, <1>2, <1>3 DEF StreamInv, FilterMirrorsSubscribed
<1>5. RefreshesOwnTheirGeneration'
  BY <1>1, <1>3, DropCall DEF StreamInv, RefreshesOwnTheirGeneration
<1>6. StreamInv'
  BY <1>1, <1>3, <1>4, <1>5 DEF StreamInv, CurrentIsLive, NoLeakedStream, InactiveWhenEmpty
<1> QED BY <1>1, <1>3, <1>6, DropCall, ResumesType DEF TypeOK

LEMMA StreamEndsInv ==
  ASSUME TypeOK, StreamInv, NEW s \in Gens, StreamEnds(s)
  PROVE  TypeOK' /\ StreamInv'
<1>1. /\ live' = live \ {s} /\ closing' = closing \ {s}
      /\ UNCHANGED <<session, subscribed, gen, attempts, call, carried>>
  BY DEF StreamEnds
<1>2. PICK reason \in {"local", "remote", "graceful"} :
        OnModernSubscriptionClosed(s, reason, status)
  BY DEF StreamEnds
<1>3. /\ current = s => current' = NoStream
      /\ current # s => current' = current
      /\ badge' \in Badge /\ timer' \in BOOLEAN
      /\ subscribed = {} => ~badge'.active
  BY <1>2, ClosedHandler
<1>4. StreamInv'
  BY <1>1, <1>3 DEF StreamInv, FilterMirrorsSubscribed, CurrentIsLive, NoLeakedStream,
     InactiveWhenEmpty, RefreshesOwnTheirGeneration
<1> QED BY <1>1, <1>3, <1>4 DEF TypeOK, session

LEMMA ReconnectTimerFiresInv ==
  ASSUME TypeOK, StreamInv, ReconnectTimerFires
  PROVE  TypeOK' /\ StreamInv'
<1>1. UNCHANGED session
  BY DEF ReconnectTimerFires
<1>2. CASE Terminal(status) \/ ~Wants(subscribed)
  <2>1. timer' = FALSE /\ UNCHANGED <<subscribed, gen, current, badge, attempts, wire>>
    BY <1>2 DEF ReconnectTimerFires
  <2> QED BY <1>1, <2>1 DEF TypeOK, StreamInv, FilterMirrorsSubscribed, CurrentIsLive,
          NoLeakedStream, InactiveWhenEmpty, RefreshesOwnTheirGeneration, wire, session
<1>3. CASE ~(Terminal(status) \/ ~Wants(subscribed))
  <2>1. StartRefresh("reconnect", NoUri, subscribed, badge, attempts, TRUE)
    BY <1>3 DEF ReconnectTimerFires
  <2>2. /\ subscribed \in SUBSET Uris /\ badge \in Badge /\ attempts \in Nat
        /\ subscribed = {} => ~badge.active
    BY DEF TypeOK, StreamInv, InactiveWhenEmpty
  <2> QED BY <1>1, <2>1, <2>2, StartRefreshInv DEF TypeOK, session
<1> QED BY <1>2, <1>3

LEMMA StreamStepInv ==
  ASSUME TypeOK, StreamInv, StreamNext
  PROVE  TypeOK' /\ StreamInv'
<1>1. ASSUME NEW u \in Uris, SubscribeToResource(u)
      PROVE  TypeOK' /\ StreamInv'
  <2>1. /\ StartRefresh("subscribe", u, subscribed \union {u},
                        Shown(subscribed \union {u}, "connecting"), 0, TRUE)
        /\ UNCHANGED session
    BY <1>1 DEF SubscribeToResource
  <2>2. /\ subscribed \union {u} \in SUBSET Uris
        /\ Shown(subscribed \union {u}, "connecting") \in Badge
        /\ subscribed \union {u} # {}
    BY ShownIsBadge DEF TypeOK
  <2> QED BY <2>1, <2>2, StartRefreshInv DEF TypeOK, session
<1>2. ASSUME NEW u \in Uris, UnsubscribeFromResource(u)
      PROVE  TypeOK' /\ StreamInv'
  <2> DEFINE shown == IF subscribed = {u} THEN Inactive ELSE badge
             wanted == Wants(subscribed \ {u})
  <2>1. /\ StartRefresh("unsubscribe", u, subscribed \ {u}, shown, 0, wanted)
        /\ u \in subscribed /\ UNCHANGED session
    BY <1>2 DEF UnsubscribeFromResource
  <2>2. wanted \in BOOLEAN
    BY DEF Wants
  <2>3. subscribed \ {u} \in SUBSET Uris /\ shown \in Badge
        /\ (subscribed \ {u} = {} => ~shown.active)
    <3>1. Inactive \in Badge /\ ~Inactive.active
      BY ShownIsBadge
    <3>2. CASE subscribed = {u}
      BY <3>1, <3>2 DEF TypeOK
    <3>3. CASE subscribed # {u}
      <4>1. PICK v \in subscribed : v # u
        BY <2>1, <3>3
      <4>2. subscribed \ {u} # {} /\ shown = badge
        BY <3>3, <4>1
      <4> QED BY <4>2 DEF TypeOK
    <3> QED BY <3>2, <3>3
  <2>4. /\ StreamInv'
        /\ subscribed' \in SUBSET Uris /\ gen' \in 0..MaxGen
        /\ current' \in Gens \union {NoStream} /\ badge' \in Badge
        /\ attempts' \in Nat /\ timer' \in BOOLEAN /\ call' \in [Gens -> Call]
        /\ carried' \in [Gens -> SUBSET Uris]
        /\ live' \in SUBSET Gens /\ closing' \in SUBSET Gens
    <3> HIDE DEF shown, wanted
    <3>1. "unsubscribe" \in {"connect", "subscribe", "unsubscribe", "reconnect"}
          /\ u \in Uris \union {NoUri} /\ 0 \in Nat
      OBVIOUS
    <3> QED BY <2>1, <2>2, <2>3, <3>1, StartRefreshInv
  <2> QED BY <2>1, <2>4 DEF TypeOK, session
<1>3. CASE ReconnectTimerFires
  BY <1>3, ReconnectTimerFiresInv
<1>4. ASSUME NEW g \in Gens, PreviousClosed(g) PROVE TypeOK' /\ StreamInv'
  BY <1>4, PreviousClosedInv
<1>5. ASSUME NEW g \in Gens, ListenAcknowledged(g) PROVE TypeOK' /\ StreamInv'
  BY <1>5, ListenAcknowledgedInv
<1>6. ASSUME NEW g \in Gens, ListenRejected(g) PROVE TypeOK' /\ StreamInv'
  BY <1>6, ListenRejectedInv
<1>7. ASSUME NEW g \in Gens, StreamEnds(g) PROVE TypeOK' /\ StreamInv'
  BY <1>7, StreamEndsInv
<1> QED BY <1>1, <1>2, <1>3, <1>4, <1>5, <1>6, <1>7 DEF StreamNext

LEMMA StutterInv ==
  ASSUME TypeOK, StreamInv, UNCHANGED vars
  PROVE  TypeOK' /\ StreamInv'
BY DEF TypeOK, StreamInv, FilterMirrorsSubscribed, CurrentIsLive, NoLeakedStream,
   InactiveWhenEmpty, RefreshesOwnTheirGeneration, vars, session, stream, wire

(* The inductive invariant, from which the named ones follow. *)
THEOREM ListenStreamInvariant == Spec => [](TypeOK /\ StreamInv)
<1>1. TypeOK /\ StreamInv /\ [Next]_vars => TypeOK' /\ StreamInv'
  BY SessionInv, StreamStepInv, StutterInv DEF Next
<1> QED BY InitInv, <1>1, PTL DEF Spec

-----------------------------------------------------------------------------
(* Every variable keeps its type. *)
THEOREM TypeCorrect == Spec => []TypeOK
BY ListenStreamInvariant, PTL

(* The held stream was opened by the newest refresh and its filter is the   *)
(* subscribed set (the comment on modernSubscription).                      *)
THEOREM FilterMirrors == Spec => []FilterMirrorsSubscribed
<1>1. StreamInv => FilterMirrorsSubscribed
  BY DEF StreamInv
<1> QED BY ListenStreamInvariant, <1>1, PTL

(* The held stream is one whose listen was acknowledged and that the client *)
(* has not told the SDK to close.                                            *)
THEOREM HeldStreamIsLive == Spec => []CurrentIsLive
<1>1. StreamInv => CurrentIsLive
  BY DEF StreamInv
<1> QED BY ListenStreamInvariant, <1>1, PTL

(* Every stream open on the server is held or being closed.                 *)
THEOREM NoStreamIsLost == Spec => []NoLeakedStream
<1>1. StreamInv => NoLeakedStream
  BY DEF StreamInv
<1> QED BY ListenStreamInvariant, <1>1, PTL

(* "Active with an empty set is never observable." *)
THEOREM EmptyIsInactive == Spec => []InactiveWhenEmpty
<1>1. StreamInv => InactiveWhenEmpty
  BY DEF StreamInv
<1> QED BY ListenStreamInvariant, <1>1, PTL

(* A URI is rolled back only by the failed call that added it, and only     *)
(* while no newer refresh or reset has taken the filter over.               *)
THEOREM RollbackIsOwn == Spec => OnlyOwnRollback
<1> DEFINE Own == \A u \in subscribed \ subscribed' :
       \/ gen' # gen /\ subscribed' = {}
       \/ gen' # gen /\ call'[gen'].kind = "unsubscribe" /\ call'[gen'].uri = u
       \/ gen' = gen /\ gen \in Gens /\ call[gen].kind = "subscribe" /\ call[gen].uri = u
<1>1. TypeOK /\ [Next]_vars => Own
  <2> SUFFICES ASSUME TypeOK, [Next]_vars, NEW u \in subscribed \ subscribed'
               PROVE  \/ gen' # gen /\ subscribed' = {}
                      \/ gen' # gen /\ call'[gen'].kind = "unsubscribe" /\ call'[gen'].uri = u
                      \/ gen' = gen /\ gen \in Gens /\ call[gen].kind = "subscribe"
                         /\ call[gen].uri = u
    OBVIOUS
  <2>1. subscribed' # subscribed /\ gen + 1 # gen
    BY DEF TypeOK
  <2>2. ASSUME NEW g \in Gens, ListenRejected(g)
        PROVE  gen' = gen /\ gen \in Gens /\ call[gen].kind = "subscribe" /\ call[gen].uri = u
    BY <2>1, <2>2 DEF ListenRejected, CallerCatches
  <2>3. CASE ResetSubscriptionStream
    BY <2>1, <2>3 DEF ResetSubscriptionStream
  <2>4. ASSUME SessionNext PROVE ResetSubscriptionStream
    BY <2>1, <2>4 DEF SessionNext, ConnectBegin, HandshakeAnswered, HandshakeResolves,
       HandshakeRejects, DisconnectBegin, DisconnectEnd, TransportCloses, TransportErrs,
       StartRefresh, stream
  <2>5. ASSUME NEW v \in Uris, UnsubscribeFromResource(v)
        PROVE  /\ gen' # gen
               /\ \/ subscribed' = {}
                  \/ call'[gen'].kind = "unsubscribe" /\ call'[gen'].uri = u
    <3> DEFINE shown == IF subscribed = {v} THEN Inactive ELSE badge
               wanted == Wants(subscribed \ {v})
    <3>1. StartRefresh("unsubscribe", v, subscribed \ {v}, shown, 0, wanted)
      BY <2>5 DEF UnsubscribeFromResource
    <3>2. wanted \in BOOLEAN /\ (~wanted => subscribed \ {v} = {})
      BY DEF Wants
    <3> HIDE DEF shown, wanted
    <3>3. /\ gen' = gen + 1 /\ subscribed' = subscribed \ {v}
          /\ \/ call' = call /\ ~wanted
             \/ call'[gen + 1].kind = "unsubscribe" /\ call'[gen + 1].uri = v
      BY <3>1, StartRefreshCall
    <3>4. v = u
      BY <3>3
    <3> QED BY <2>1, <3>2, <3>3, <3>4
  <2>6. /\ \A v \in Uris : ~SubscribeToResource(v)
        /\ ~ReconnectTimerFires
        /\ \A g \in Gens : ~PreviousClosed(g) /\ ~ListenAcknowledged(g) /\ ~StreamEnds(g)
    BY <2>1 DEF SubscribeToResource, ReconnectTimerFires,
       StartRefresh, PreviousClosed, ListenAcknowledged, StreamEnds
  <2>7. ~UNCHANGED vars
    BY <2>1 DEF vars, stream
  <2> QED BY <2>2, <2>3, <2>4, <2>5, <2>6, <2>7 DEF Next, StreamNext
<1>2. TypeOK /\ [Next]_vars => [Own]_vars
  BY <1>1
<1> QED BY TypeCorrect, <1>2, PTL DEF Spec, OnlyOwnRollback

-----------------------------------------------------------------------------
(* What the badge and the timer promise, beside the invariant above: each   *)
(* step that lets go of a stream or of the newest refresh also changes the  *)
(* badge or arms the timer.  ChannelKept says of the list-change opt-ins,    *)
(* while connect() opens the stream, what NothingForgotten says of the URIs. *)
ChannelKept ==
  connectPc = "opening" /\ Wants(subscribed) =>
    \/ current # NoStream \/ timer \/ Refreshing
    \/ badge.status = "ended" \/ Terminal(status)

Kept == AcknowledgedMeansStream /\ NothingForgotten /\ ChannelKept

(* The connect-time refresh is there only while connect() waits for it.      *)
OneConnect ==
  \A g \in Gens : call[g].kind = "connect" =>
    /\ connectPc = "opening"
    /\ \A h \in Gens : call[h].kind = "connect" => h = g

LEMMA StartRefreshKeeps ==
  ASSUME TypeOK, NEW kind, NEW u, NEW subs, NEW shown, NEW tries, NEW wanted \in BOOLEAN,
         ~wanted => subs = {},
         StartRefresh(kind, u, subs, shown, tries, wanted)
  PROVE  Kept'
<1>1. gen + 1 \in Gens /\ gen' = gen + 1 /\ subscribed' = subs
  BY ListenStreamAssumption DEF TypeOK, StartRefresh
<1>2. CASE current # NoStream
  <2>1. call' = [call EXCEPT ![gen + 1] =
                   [phase |-> "closing", kind |-> kind, uri |-> u, prev |-> current]]
    BY <1>2 DEF StartRefresh
  <2>2. call'[gen + 1].phase = "closing"
    BY <1>1, <2>1 DEF TypeOK
  <2> QED BY <1>1, <2>2 DEF Kept, AcknowledgedMeansStream, NothingForgotten, ChannelKept, Refreshing
<1>3. CASE current = NoStream /\ wanted
  <2>1. call' = [call EXCEPT ![gen + 1] =
                   [phase |-> IF link THEN "listening" ELSE "rejected",
                    kind |-> kind, uri |-> u, prev |-> NoStream]]
    BY <1>3 DEF StartRefresh, SendListen
  <2>2. call'[gen + 1].phase # "idle"
    BY <1>1, <2>1 DEF TypeOK
  <2> QED BY <1>1, <2>2 DEF Kept, AcknowledgedMeansStream, NothingForgotten, ChannelKept, Refreshing
<1>4. CASE current = NoStream /\ ~wanted
  <2>1. badge' = Inactive /\ subs = {}
    BY <1>4 DEF StartRefresh
  <2> QED BY <1>1, <2>1 DEF Kept, AcknowledgedMeansStream, NothingForgotten, ChannelKept, Refreshing, Inactive
<1> QED BY <1>2, <1>3, <1>4

LEMMA ResetKeeps == ASSUME ResetSubscriptionStream PROVE Kept'
BY DEF ResetSubscriptionStream, Kept, AcknowledgedMeansStream, NothingForgotten, ChannelKept, Refreshing, Inactive

(* A stream that ends leaves an armed timer or the badge "ended" behind.    *)
LEMMA ClosedHandlerKeeps ==
  ASSUME TypeOK, StreamInv, NEW s \in Gens, NEW reason, NEW st, current = s,
         OnModernSubscriptionClosed(s, reason, st)
  PROVE  /\ badge'.status # "acknowledged"
         /\ timer' \/ badge'.status = "ended"
<1>1. gen = s
  BY DEF StreamInv, FilterMirrorsSubscribed
<1>2. \/ badge' = Shown(subscribed, "reconnecting") /\ timer' = TRUE
      \/ badge' = Shown(subscribed, "ended")
  BY <1>1 DEF OnModernSubscriptionClosed, ScheduleReconnect
<1> QED BY <1>2 DEF Shown

(* A step that leaves the stream, the badge and the timer alone keeps them.  *)
LEMMA KeptFrame ==
  ASSUME Kept, UNCHANGED <<subscribed, current, badge, timer>>,
         Refreshing => Refreshing', Terminal(status) => Terminal(status'),
         connectPc' = "opening" => connectPc = "opening" /\ optIn' = optIn
  PROVE  Kept'
<1>1. AcknowledgedMeansStream'
  BY DEF Kept, AcknowledgedMeansStream
<1>2. NothingForgotten'
  BY DEF Kept, NothingForgotten
<1>3. ChannelKept'
  BY DEF Kept, ChannelKept, Wants
<1> QED BY <1>1, <1>2, <1>3 DEF Kept

LEMMA SessionKeeps ==
  ASSUME TypeOK, StreamInv, Kept, SessionNext
  PROVE  Kept'
<1>1. CASE ConnectBegin \/ DisconnectEnd
  BY <1>1, ResetKeeps DEF ConnectBegin, DisconnectEnd
<1>2. CASE HandshakeResolves
  <2>1. CASE optIn' \/ subscribed # {}
    <3>1. StartRefresh("connect", NoUri, subscribed, badge, 0, TRUE)
      BY <1>2, <2>1 DEF HandshakeResolves
    <3> QED BY <3>1, StartRefreshKeeps
  <2>2. CASE ~(optIn' \/ subscribed # {})
    BY <1>2, <2>2 DEF HandshakeResolves, Kept, AcknowledgedMeansStream,
       NothingForgotten, ChannelKept, Refreshing, stream, wire
  <2> QED BY <2>1, <2>2
<1>3. CASE HandshakeAnswered \/ HandshakeRejects \/ DisconnectBegin \/ TransportErrs
  <2>1. UNCHANGED <<stream, wire>>
    BY <1>3 DEF HandshakeAnswered, HandshakeRejects, DisconnectBegin, TransportErrs
  <2>2. Terminal(status) => Terminal(status')
    BY <1>3 DEF HandshakeAnswered, HandshakeRejects, DisconnectBegin, TransportErrs, Terminal
  <2>3. connectPc' = "opening" => connectPc = "opening" /\ optIn' = optIn
    BY <1>3 DEF HandshakeAnswered, HandshakeRejects, DisconnectBegin, TransportErrs
  <2>4. Refreshing => Refreshing'
    BY <2>1 DEF Refreshing, stream, wire
  <2> QED BY <2>1, <2>2, <2>3, <2>4, KeptFrame DEF stream
<1>4. CASE TransportCloses
  <2>1. subscribed' = subscribed /\ gen' = gen /\ (Terminal(status) => Terminal(status'))
    BY <1>4 DEF TransportCloses, Terminal
  <2>2. Refreshing => Refreshing'
    <3>1. \A g \in Gens : [call[g] EXCEPT !.phase = "rejected"].phase = "rejected"
      BY DEF TypeOK, Call
    <3> QED BY <1>4, <2>1, <3>1 DEF TransportCloses, Refreshing, TypeOK
  <2>3. CASE current = NoStream
    <3>1. UNCHANGED <<current, badge, timer>>
      BY <1>4, <2>3 DEF TransportCloses
    <3>2. connectPc' = connectPc /\ optIn' = optIn
      BY <1>4 DEF TransportCloses
    <3> QED BY <2>1, <2>2, <3>1, <3>2, KeptFrame
  <2>4. CASE current # NoStream
    <3>1. PICK reason \in {"remote", "graceful"} :
            OnModernSubscriptionClosed(current, reason, status')
      BY <1>4, <2>4 DEF TransportCloses
    <3>2. current \in Gens
      BY <2>4 DEF TypeOK
    <3>3. badge'.status # "acknowledged" /\ (timer' \/ badge'.status = "ended")
      BY <3>1, <3>2, ClosedHandlerKeeps
    <3> QED BY <3>3 DEF Kept, AcknowledgedMeansStream, NothingForgotten, ChannelKept, Refreshing
  <2> QED BY <2>3, <2>4
<1> QED BY <1>1, <1>2, <1>3, <1>4 DEF SessionNext

LEMMA ResumesKeepsStatus ==
  ASSUME NEW kind, CallerResumes(kind)
  PROVE  /\ status' = status
         /\ connectPc' = "opening" => connectPc = "opening" /\ optIn' = optIn
BY DEF CallerResumes, ConnectReturns, session

LEMMA RefreshKeeps ==
  ASSUME TypeOK, StreamInv, Kept, NEW g \in Gens,
         PreviousClosed(g) \/ ListenAcknowledged(g) \/ ListenRejected(g)
  PROVE  Kept'
<1>1. gen' = gen
  BY DEF PreviousClosed, ListenAcknowledged, ListenRejected
<1>2. CASE PreviousClosed(g)
  <2>1. UNCHANGED <<subscribed, current, timer>>
    BY <1>2 DEF PreviousClosed
  <2>2. CASE Wants(subscribed)
    <3>1. SendListen(g, call[g].kind, call[g].uri, subscribed) /\ UNCHANGED <<badge, session>>
      BY <1>2, <2>2 DEF PreviousClosed
    <3>2. call'[g].phase # "idle" /\ \A h \in Gens : h # g => call'[h] = call[h]
      BY <3>1 DEF SendListen, TypeOK
    <3>3. Refreshing => Refreshing'
      BY <1>1, <3>2 DEF Refreshing
    <3> QED BY <2>1, <3>1, <3>3, KeptFrame DEF session
  <2>3. CASE ~Wants(subscribed)
    BY <1>2, <2>1, <2>3 DEF PreviousClosed, Wants, Inactive, Kept,
       AcknowledgedMeansStream, NothingForgotten, ChannelKept, Refreshing
  <2> QED BY <2>2, <2>3
<1>3. CASE ListenAcknowledged(g)
  <2>1. call' = [call EXCEPT ![g] = NoCall] /\ UNCHANGED <<subscribed, timer>>
        /\ status' = status /\ (connectPc' = "opening" => connectPc = "opening" /\ optIn' = optIn)
    BY <1>3, ResumesKeepsStatus DEF ListenAcknowledged
  <2>2. CASE gen = g
    <3>1. current' = g /\ g # NoStream
      BY <1>3, <2>2 DEF ListenAcknowledged
    <3> QED BY <3>1 DEF Kept, AcknowledgedMeansStream, NothingForgotten, ChannelKept, Refreshing
  <2>3. CASE gen # g
    <3>1. UNCHANGED <<current, badge>>
      BY <1>3, <2>3 DEF ListenAcknowledged
    <3>2. Refreshing => Refreshing'
      BY <1>1, <2>1, <2>3, DropCall DEF Refreshing
    <3> QED BY <2>1, <3>1, <3>2, KeptFrame
  <2> QED BY <2>2, <2>3
<1>4. CASE ListenRejected(g)
  <2>1. call' = [call EXCEPT ![g] = NoCall] /\ current' = current /\ status' = status
        /\ CallerCatches(g) /\ (connectPc' = "opening" => connectPc = "opening" /\ optIn' = optIn)
    BY <1>4, ResumesKeepsStatus DEF ListenRejected
  <2>2. CASE call[g].kind = "reconnect"
    <3>1. \/ badge' = Shown(subscribed, "ended")
          \/ badge' = Shown(subscribed, "reconnecting") /\ timer' = TRUE
      BY <2>1, <2>2 DEF CallerCatches, ScheduleReconnect
    <3>2. badge'.status # "acknowledged" /\ (timer' \/ badge'.status = "ended")
      BY <3>1 DEF Shown
    <3> QED BY <3>2 DEF Kept, AcknowledgedMeansStream, NothingForgotten, ChannelKept, Refreshing
  <2>3. CASE call[g].kind # "reconnect" /\ gen = g
    <3>1. \/ badge' = Inactive
          \/ badge' = Shown(subscribed', "reconnecting") /\ timer' = TRUE
      BY <2>1, <2>3 DEF CallerCatches, Reconcile, ScheduleReconnect
    <3>2. badge'.status # "acknowledged" /\ (timer' \/ badge'.status = "ended")
      BY <3>1 DEF Shown, Inactive
    <3> QED BY <3>2 DEF Kept, AcknowledgedMeansStream, NothingForgotten, ChannelKept, Refreshing
  <2>4. CASE call[g].kind # "reconnect" /\ gen # g
    <3>1. UNCHANGED <<subscribed, badge, timer>>
      BY <2>1, <2>4 DEF CallerCatches
    <3>2. Refreshing => Refreshing'
      BY <1>1, <2>1, <2>4, DropCall DEF Refreshing
    <3> QED BY <2>1, <3>1, <3>2, KeptFrame
  <2> QED BY <2>2, <2>3, <2>4
<1> QED BY <1>2, <1>3, <1>4

LEMMA StreamEndsKeeps ==
  ASSUME TypeOK, StreamInv, Kept, NEW s \in Gens, StreamEnds(s)
  PROVE  Kept'
<1>1. PICK reason \in {"local", "remote", "graceful"} :
        OnModernSubscriptionClosed(s, reason, status)
  BY DEF StreamEnds
<1>2. CASE current = s
  <2>1. badge'.status # "acknowledged" /\ (timer' \/ badge'.status = "ended")
    BY <1>1, <1>2, ClosedHandlerKeeps
  <2> QED BY <2>1 DEF Kept, AcknowledgedMeansStream, NothingForgotten, ChannelKept, Refreshing
<1>3. CASE current # s
  <2>1. UNCHANGED <<current, badge, timer>>
    BY <1>1, <1>3 DEF OnModernSubscriptionClosed
  <2>2. UNCHANGED <<session, subscribed, gen, call>>
    BY DEF StreamEnds
  <2>3. Refreshing => Refreshing'
    BY <2>2 DEF Refreshing
  <2> QED BY <2>1, <2>2, <2>3, KeptFrame DEF session
<1> QED BY <1>2, <1>3

LEMMA StreamKeeps ==
  ASSUME TypeOK, StreamInv, Kept, StreamNext
  PROVE  Kept'
<1>1. ASSUME NEW u \in Uris, SubscribeToResource(u) PROVE Kept'
  BY <1>1, StartRefreshKeeps DEF SubscribeToResource
<1>2. ASSUME NEW u \in Uris, UnsubscribeFromResource(u) PROVE Kept'
  <2> DEFINE shown == IF subscribed = {u} THEN Inactive ELSE badge
             wanted == Wants(subscribed \ {u})
  <2>1. StartRefresh("unsubscribe", u, subscribed \ {u}, shown, 0, wanted)
    BY <1>2 DEF UnsubscribeFromResource
  <2>2. wanted \in BOOLEAN /\ (~wanted => subscribed \ {u} = {})
    BY DEF Wants
  <2> HIDE DEF shown, wanted
  <2> QED BY <2>1, <2>2, StartRefreshKeeps
<1>3. CASE ReconnectTimerFires
  <2>1. CASE Terminal(status) \/ ~Wants(subscribed)
    <3>1. UNCHANGED <<subscribed, gen, current, badge, wire, session>>
      BY <1>3, <2>1 DEF ReconnectTimerFires
    <3> QED BY <2>1, <3>1 DEF Kept, AcknowledgedMeansStream, NothingForgotten, ChannelKept, Refreshing, Wants,
               wire, session
  <2>2. CASE ~(Terminal(status) \/ ~Wants(subscribed))
    <3>1. StartRefresh("reconnect", NoUri, subscribed, badge, attempts, TRUE)
      BY <1>3, <2>2 DEF ReconnectTimerFires
    <3> QED BY <3>1, StartRefreshKeeps
  <2> QED BY <2>1, <2>2
<1>4. ASSUME NEW g \in Gens, PreviousClosed(g) \/ ListenAcknowledged(g) \/ ListenRejected(g)
      PROVE  Kept'
  BY <1>4, RefreshKeeps
<1>5. ASSUME NEW g \in Gens, StreamEnds(g) PROVE Kept'
  BY <1>5, StreamEndsKeeps
<1> QED BY <1>1, <1>2, <1>3, <1>4, <1>5 DEF StreamNext

LEMMA KeptStep ==
  ASSUME TypeOK, StreamInv, Kept, [Next]_vars
  PROVE  Kept'
<1>1. ASSUME UNCHANGED vars PROVE Kept'
  BY <1>1 DEF Kept, AcknowledgedMeansStream, NothingForgotten, ChannelKept, Refreshing,
     Wants, vars, session, stream, wire
<1> QED BY <1>1, SessionKeeps, StreamKeeps DEF Next

LEMMA KeptAlways == Spec => []Kept
<1>1. Init => Kept
  BY DEF Init, Kept, AcknowledgedMeansStream, NothingForgotten, ChannelKept, Inactive
<1> QED BY <1>1, KeptStep, ListenStreamInvariant, PTL DEF Spec

(* Only connect() starts a connect-time refresh, and only its end lets       *)
(* connect() go on.                                                          *)
LEMMA StartRefreshConnects ==
  ASSUME TypeOK, NEW kind, NEW u, NEW subs, NEW shown, NEW tries, NEW wanted,
         StartRefresh(kind, u, subs, shown, tries, wanted),
         NEW g \in Gens, call'[g].kind = "connect"
  PROVE  (g = gen + 1 /\ kind = "connect") \/ call[g].kind = "connect"
BY StartRefreshCall

LEMMA OneConnectStep ==
  ASSUME TypeOK, OneConnect, [Next]_vars
  PROVE  OneConnect'
<1>1. ASSUME connectPc' = connectPc,
             \A g \in Gens : call'[g].kind = "connect" => call[g].kind = "connect"
      PROVE  OneConnect'
  BY <1>1 DEF OneConnect
<1>2. ASSUME NEW kind, NEW u, NEW subs, NEW shown, NEW tries, NEW wanted, kind # "connect",
             StartRefresh(kind, u, subs, shown, tries, wanted)
      PROVE  \A g \in Gens : call'[g].kind = "connect" => call[g].kind = "connect"
  BY <1>2, StartRefreshConnects
<1>3. CASE ConnectBegin \/ HandshakeAnswered \/ HandshakeRejects
  BY <1>3 DEF ConnectBegin, HandshakeAnswered, HandshakeRejects, ResetSubscriptionStream,
     OneConnect, wire
<1>4. CASE DisconnectBegin \/ DisconnectEnd \/ TransportErrs
  BY <1>1, <1>4 DEF DisconnectBegin, DisconnectEnd, TransportErrs, ResetSubscriptionStream, wire
<1>5. CASE HandshakeResolves
  <2>1. connectPc = "confirming" /\ \A g \in Gens : call[g].kind # "connect"
    BY <1>5 DEF HandshakeResolves, OneConnect
  <2>2. CASE optIn' \/ subscribed # {}
    <3>1. StartRefresh("connect", NoUri, subscribed, badge, 0, TRUE) /\ connectPc' = "opening"
      BY <1>5, <2>2 DEF HandshakeResolves
    <3>2. \A g \in Gens : call'[g].kind = "connect" => g = gen + 1
      BY <2>1, <3>1, StartRefreshConnects
    <3> QED BY <3>1, <3>2 DEF OneConnect
  <2>3. CASE ~(optIn' \/ subscribed # {})
    BY <1>5, <2>1, <2>3 DEF HandshakeResolves, OneConnect, wire
  <2> QED BY <2>2, <2>3
<1>6. CASE TransportCloses
  <2>1. \A g \in Gens : [call[g] EXCEPT !.phase = "rejected"].kind = call[g].kind
    BY DEF TypeOK, Call
  <2>2. \A g \in Gens : call'[g].kind = call[g].kind
    BY <1>6, <2>1 DEF TransportCloses
  <2>3. connectPc' = connectPc
    BY <1>6 DEF TransportCloses
  <2> QED BY <1>1, <2>2, <2>3
<1>7. ASSUME NEW u \in Uris, SubscribeToResource(u) PROVE OneConnect'
  BY <1>1, <1>2, <1>7 DEF SubscribeToResource, session
<1>8. ASSUME NEW u \in Uris, UnsubscribeFromResource(u) PROVE OneConnect'
  <2> DEFINE shown == IF subscribed = {u} THEN Inactive ELSE badge
             wanted == Wants(subscribed \ {u})
  <2>1. StartRefresh("unsubscribe", u, subscribed \ {u}, shown, 0, wanted)
        /\ connectPc' = connectPc
    BY <1>8 DEF UnsubscribeFromResource, session
  <2> HIDE DEF shown, wanted
  <2> QED BY <1>1, <1>2, <2>1
<1>9. CASE ReconnectTimerFires
  <2>1. connectPc' = connectPc
    BY <1>9 DEF ReconnectTimerFires, session
  <2>2. CASE Terminal(status) \/ ~Wants(subscribed)
    BY <1>1, <1>9, <2>1, <2>2 DEF ReconnectTimerFires, wire
  <2>3. CASE ~(Terminal(status) \/ ~Wants(subscribed))
    BY <1>1, <1>2, <1>9, <2>1, <2>3 DEF ReconnectTimerFires
  <2> QED BY <2>2, <2>3
<1>10. ASSUME NEW g \in Gens, call' = [call EXCEPT ![g] = NoCall], CallerResumes(call[g].kind)
       PROVE  OneConnect'
  <2>1. \A h \in Gens : call'[h].kind = "connect" => call[h].kind = "connect" /\ h # g
    BY <1>10 DEF TypeOK, NoCall
  <2>2. CASE call[g].kind = "connect"
    <3>1. \A h \in Gens : call'[h].kind # "connect"
      BY <2>1, <2>2 DEF OneConnect
    <3> QED BY <3>1 DEF OneConnect
  <2>3. CASE call[g].kind # "connect"
    BY <1>1, <1>10, <2>1, <2>3 DEF CallerResumes, session
  <2> QED BY <2>2, <2>3
<1>11. ASSUME NEW g \in Gens, PreviousClosed(g) PROVE OneConnect'
  <2>1. CASE Wants(subscribed)
    <3>1. SendListen(g, call[g].kind, call[g].uri, subscribed) /\ connectPc' = connectPc
      BY <1>11, <2>1 DEF PreviousClosed, session
    <3>2. \A h \in Gens : call'[h].kind = call[h].kind
      BY <3>1 DEF SendListen, TypeOK
    <3> QED BY <1>1, <3>1, <3>2
  <2>2. CASE ~Wants(subscribed)
    BY <1>10, <1>11, <2>2 DEF PreviousClosed
  <2> QED BY <2>1, <2>2
<1>12. ASSUME NEW g \in Gens, ListenAcknowledged(g) \/ ListenRejected(g) PROVE OneConnect'
  BY <1>10, <1>12 DEF ListenAcknowledged, ListenRejected
<1>13. ASSUME NEW s \in Gens, StreamEnds(s) PROVE OneConnect'
  BY <1>1, <1>13 DEF StreamEnds, session
<1>14. CASE UNCHANGED vars
  BY <1>1, <1>14 DEF vars, session, wire
<1> QED BY <1>3, <1>4, <1>5, <1>6, <1>7, <1>8, <1>9, <1>11, <1>12, <1>13, <1>14
        DEF Next, SessionNext, StreamNext

LEMMA OneConnectAlways == Spec => []OneConnect
<1>1. Init => OneConnect
  BY DEF Init, OneConnect, NoCall
<1> QED BY <1>1, OneConnectStep, TypeCorrect, PTL DEF Spec

(* The badge says "acknowledged" only while there is a stream, or the newest *)
(* refresh is under way to replace it.                                       *)
THEOREM AcknowledgedHasStream == Spec => []AcknowledgedMeansStream
<1>1. Kept => AcknowledgedMeansStream
  BY DEF Kept
<1> QED BY <1>1, KeptAlways, PTL

(* Subscribed URIs are never left without a stream, a refresh or a timer     *)
(* unless the badge or the status says so.                                   *)
THEOREM NothingIsForgotten == Spec => []NothingForgotten
<1>1. Kept => NothingForgotten
  BY DEF Kept
<1> QED BY <1>1, KeptAlways, PTL

(* What the end of the connect-time refresh g leaves behind: the channel is  *)
(* open, being opened or due, or ended under a refresh that overtook g.      *)
LEMMA ConnectRefreshEnds ==
  ASSUME TypeOK, StreamInv, Kept, OneConnect, NEW g \in Gens, call[g].kind = "connect",
         status = "connected", Wants(subscribed)',
         (PreviousClosed(g) /\ ~Wants(subscribed)) \/ ListenAcknowledged(g) \/ ListenRejected(g)
  PROVE  \/ current' # NoStream \/ timer' \/ Refreshing'
         \/ badge'.status = "ended" /\ g # gen
<1>1. connectPc = "opening" /\ call' = [call EXCEPT ![g] = NoCall]
      /\ CallerResumes("connect") /\ gen' = gen
  BY DEF OneConnect, PreviousClosed, ListenAcknowledged, ListenRejected
<1>2. optIn' = optIn
  BY <1>1 DEF CallerResumes, ConnectReturns
<1>3. CASE PreviousClosed(g) /\ ~Wants(subscribed)
  BY <1>2, <1>3 DEF PreviousClosed, Wants
<1>4. CASE g = gen /\ ListenAcknowledged(g)
  BY <1>4 DEF ListenAcknowledged
<1>5. CASE g = gen /\ ListenRejected(g)
  <2>1. Reconcile(subscribed') /\ Wants(subscribed')
    BY <1>2, <1>5 DEF ListenRejected, CallerCatches, Wants
  <2> QED BY <2>1 DEF Reconcile, ScheduleReconnect
<1>6. CASE g # gen /\ (ListenAcknowledged(g) \/ ListenRejected(g))
  <2>1. UNCHANGED <<subscribed, current, badge, timer>>
    BY <1>6 DEF ListenAcknowledged, ListenRejected, CallerCatches
  <2>2. Refreshing => Refreshing'
    BY <1>1, <1>6, DropCall DEF Refreshing
  <2>3. current # NoStream \/ timer \/ Refreshing \/ badge.status = "ended"
    BY <1>1, <1>2, <2>1 DEF Kept, ChannelKept, Wants, Terminal
  <2> QED BY <1>6, <2>1, <2>2, <2>3
<1> QED BY <1>3, <1>4, <1>5, <1>6

(* connect() announces itself only after the connect-time refresh, never     *)
(* over a session it sees torn down or dead, and with the channel that       *)
(* announces the lists' changes there or due.                                *)
THEOREM ConnectAfterChannel == Spec => ConnectFollowsChannel
<1> DEFINE Follows == ~announced /\ announced' =>
       /\ status' = "connected" /\ ~disconnecting'
       /\ \A g \in Gens : call'[g].kind # "connect"
       /\ Wants(subscribed)' =>
            \/ current' # NoStream \/ timer' \/ Refreshing'
            \/ badge'.status = "ended" /\ \E g \in Gens : call[g].kind = "connect" /\ g # gen
<1>1. TypeOK /\ StreamInv /\ Kept /\ OneConnect /\ [Next]_vars => Follows
  <2> SUFFICES ASSUME TypeOK, StreamInv, Kept, OneConnect, [Next]_vars, ~announced, announced'
               PROVE  Follows
    OBVIOUS
  <2>1. CASE HandshakeResolves
    <3>1. /\ ~(optIn' \/ subscribed # {}) /\ UNCHANGED <<stream, wire>>
          /\ status' = "connected" /\ ~disconnecting'
      BY <2>1 DEF HandshakeResolves
    <3>2. \A g \in Gens : call'[g].kind # "connect"
      BY <2>1, <3>1 DEF HandshakeResolves, OneConnect, wire
    <3>3. ~Wants(subscribed)'
      BY <3>1 DEF Wants, stream
    <3> QED BY <3>1, <3>2, <3>3
  <2>2. ASSUME NEW g \in Gens,
               PreviousClosed(g) \/ ListenAcknowledged(g) \/ ListenRejected(g)
        PROVE  Follows
    <3>1. CASE PreviousClosed(g) /\ Wants(subscribed)
      BY <3>1 DEF PreviousClosed, session
    <3>2. CASE (PreviousClosed(g) /\ ~Wants(subscribed)) \/ ListenAcknowledged(g) \/ ListenRejected(g)
      <4>1. call[g].kind = "connect" /\ call' = [call EXCEPT ![g] = NoCall]
            /\ CallerResumes(call[g].kind)
        <5>1. call' = [call EXCEPT ![g] = NoCall] /\ CallerResumes(call[g].kind)
          BY <3>2 DEF PreviousClosed, ListenAcknowledged, ListenRejected
        <5> QED BY <5>1 DEF CallerResumes, session
      <4>2. status = "connected" /\ status' = status /\ ~disconnecting'
        BY <4>1 DEF CallerResumes, ConnectReturns
      <4>3. \A h \in Gens : call'[h].kind # "connect"
        <5>1. \A h \in Gens : h # g => call[h].kind # "connect"
          BY <4>1 DEF OneConnect
        <5>2. call'[g].kind = "none" /\ \A h \in Gens : h # g => call'[h] = call[h]
          BY <4>1 DEF TypeOK, NoCall
        <5> QED BY <5>1, <5>2
      <4>4. ASSUME Wants(subscribed)'
            PROVE  \/ current' # NoStream \/ timer' \/ Refreshing'
                   \/ badge'.status = "ended" /\ g # gen
        BY <4>4, <3>2, <4>1, <4>2, ConnectRefreshEnds
      <4> QED BY <4>1, <4>2, <4>3, <4>4
    <3> QED BY <2>2, <3>1, <3>2
  <2>3. CASE SessionNext
    BY <2>1, <2>3 DEF SessionNext, ConnectBegin, HandshakeAnswered, HandshakeRejects,
       DisconnectBegin, DisconnectEnd, TransportCloses, TransportErrs
  <2>4. /\ \A u \in Uris : ~SubscribeToResource(u) /\ ~UnsubscribeFromResource(u)
        /\ ~ReconnectTimerFires
        /\ \A s \in Gens : ~StreamEnds(s)
        /\ ~UNCHANGED vars
    BY DEF SubscribeToResource, UnsubscribeFromResource, ReconnectTimerFires, StreamEnds,
       session, vars
  <2> QED BY <2>2, <2>3, <2>4 DEF Next, StreamNext
<1>2. TypeOK /\ StreamInv /\ Kept /\ OneConnect /\ [Next]_vars => [Follows]_vars
  BY <1>1
<1> QED BY ListenStreamInvariant, KeptAlways, OneConnectAlways, <1>2, PTL
        DEF Spec, ConnectFollowsChannel
=============================================================================
