---------------------------- MODULE ListenStream ----------------------------
(***************************************************************************)
(* The modern-era `subscriptions/listen` stream of InspectorClient          *)
(* (core/mcp/inspectorClient.ts).  One long-lived stream carries every      *)
(* resource subscription and list-change opt-in as a filter.  The filter    *)
(* cannot be amended: each change re-lists, that is, closes the stream and  *)
(* opens another.  All of this is asynchronous on one JavaScript thread, so *)
(* a step below is a maximal run between two awaits, and the steps of       *)
(* different calls interleave freely.                                       *)
(*                                                                          *)
(* A refresh is named by the generation it takes, and a stream by the       *)
(* refresh that opened it: both are numbers of Gens.                        *)
(***************************************************************************)
EXTENDS Integers

CONSTANTS
  Uris,         \* the resource URIs a user may subscribe to
  NoUri,        \* not a URI
  ListChange,   \* the client opts in to list changes
  MaxAttempts,  \* MODERN_RECONNECT_MAX_ATTEMPTS
  MaxGen        \* bound: generations a behaviour may take

ASSUME ListenStreamAssumption ==
  /\ NoUri \notin Uris
  /\ ListChange \in BOOLEAN
  /\ MaxAttempts \in Nat
  /\ MaxGen \in Nat

Gens == 1..MaxGen
NoStream == 0

Status == {"disconnected", "connecting", "connected", "error"}
Terminal(st) == st \in {"disconnected", "error"}

(* What the Subscriptions section of the UI shows. *)
Badge == [active : BOOLEAN,
          status : {"connecting", "acknowledged", "reconnecting", "ended"}]
InactiveMistyped == [active |-> FALSE, status |-> "inactive"]  \* mutation
Inactive == [active |-> FALSE, status |-> "ended"]

(* An in-flight refreshModernSubscription and the caller awaiting it.      *)
(* "closing" awaits the close of stream prev, "listening" awaits the       *)
(* acknowledgement, "rejected" has lost its connection and will throw.     *)
Call == [phase : {"idle", "closing", "listening", "rejected"},
         kind  : {"none", "connect", "subscribe", "unsubscribe", "reconnect"},
         uri   : Uris \union {NoUri},
         prev  : Gens \union {NoStream}]
NoCall == [phase |-> "idle", kind |-> "none", uri |-> NoUri, prev |-> NoStream]

VARIABLES
  status,        \* the client's ConnectionStatus
  disconnecting, \* a disconnect() awaits client.close()
  connectPc,     \* where connect() is
  announced,     \* this connect() has dispatched its `connect` event
  link,          \* the transport is up
  ready,         \* protocolEra and capabilities hold a server's answer
  optIn,         \* ... which shares a list-change opt-in with the client
  subscribed,    \* subscribedResources
  gen,           \* modernListenGeneration
  current,       \* modernSubscription, NoStream for null
  badge,         \* modernStreamState
  attempts,      \* modernReconnectAttempts
  timer,         \* modernReconnectTimer is armed
  call,          \* the refreshes in flight
  carried,       \* the URIs in the filter each refresh listened with
  live,          \* the streams open on the connection
  closing        \* the open streams close() has been called on

session == <<status, disconnecting, connectPc, announced, link, ready, optIn>>
stream  == <<subscribed, gen, current, badge, attempts, timer>>
wire    == <<call, carried, live, closing>>
vars    == <<session, stream, wire>>

TypeOK ==
  /\ status \in Status
  /\ disconnecting \in BOOLEAN
  /\ connectPc \in {"idle", "handshake", "confirming", "opening"}
  /\ announced \in BOOLEAN
  /\ link \in BOOLEAN
  /\ ready \in BOOLEAN
  /\ optIn \in BOOLEAN
  /\ subscribed \in SUBSET Uris
  /\ gen \in 0..MaxGen
  /\ current \in Gens \union {NoStream}
  /\ badge \in Badge
  /\ attempts \in Nat
  /\ timer \in BOOLEAN
  /\ call \in [Gens -> Call]
  /\ carried \in [Gens -> SUBSET Uris]
  /\ live \in SUBSET Gens
  /\ closing \in SUBSET Gens

Init ==
  /\ status = "disconnected"
  /\ disconnecting = FALSE
  /\ connectPc = "idle"
  /\ announced = FALSE
  /\ link = FALSE
  /\ ready = FALSE
  /\ optIn = FALSE
  /\ subscribed = {}
  /\ gen = 0
  /\ current = NoStream
  /\ badge = Inactive
  /\ attempts = 0
  /\ timer = FALSE
  /\ call = [g \in Gens |-> NoCall]
  /\ carried = [g \in Gens |-> {}]
  /\ live = {}
  /\ closing = {}

-----------------------------------------------------------------------------
(* wantsModernStream: the filter built from subs has something in it. *)
Wants(subs) == subs # {} \/ optIn

(* setModernStreamState with active taken from modernStreamActive(). *)
Shown(subs, st) == [active |-> subs # {}, status |-> st]

(* Mutation: the badge says reconnecting, but no timer was armed. *)
ScheduleWithoutTimer(subs) ==
  /\ badge' = Shown(subs, "reconnecting")
  /\ UNCHANGED timer

(* scheduleModernReconnect *)
ScheduleReconnect(subs) ==
  /\ badge' = Shown(subs, "reconnecting")
  /\ timer' = TRUE

(* Mutation: a failed refresh leaves the badge as it was. *)
ReconcileNothing(subs) == subs = subs /\ UNCHANGED <<badge, timer>>

(* reconcileModernStreamStateAfterFailedRefresh *)
Reconcile(subs) ==
  IF Wants(subs)
  THEN ScheduleReconnect(subs)
  ELSE badge' = Inactive /\ UNCHANGED timer

(* The `connect` event is withheld when a teardown or a crash overtook the  *)
(* connect() that is about to return.                                       *)
ConnectReturns ==
  /\ connectPc' = "idle"
  /\ announced' = (status = "connected" /\ ~disconnecting)
  /\ UNCHANGED <<status, disconnecting, link, ready, optIn>>

(* What the caller of refresh g does once it has resolved. *)
CallerResumes(kind) ==
  IF kind = "connect" THEN ConnectReturns ELSE UNCHANGED session

(* closeSubscriptionBestEffort(s): the close is under way. *)
StartClose(s) ==
  closing' = IF s \in live THEN closing \union {s} ELSE closing

(* The request client.listen(filter) goes out; without a connection it     *)
(* rejects.                                                                *)
SendListen(g, kind, u, subs) ==
  /\ call' = [call EXCEPT ![g] =
                [phase |-> IF link THEN "listening" ELSE "rejected",
                 kind |-> kind, uri |-> u, prev |-> NoStream]]
  /\ carried' = [carried EXCEPT ![g] = subs]

(***************************************************************************)
(* refreshModernSubscription up to its first await: take a generation, let  *)
(* go of the current stream and close it, or listen at once when there is   *)
(* none.  `subs` and `shown` are the set and badge its caller has just      *)
(* written, `wanted` whether the filter has anything in it, and `tries` the *)
(* reconnect count the refresh leaves.                                      *)
(***************************************************************************)
StartRefresh(kind, u, subs, shown, tries, wanted) ==
  /\ gen < MaxGen
  /\ gen' = gen + 1
  /\ subscribed' = subs
  /\ attempts' = tries
  /\ timer' = FALSE
  /\ current' = NoStream
  /\ \/ /\ current # NoStream
        /\ StartClose(current)
        /\ call' = [call EXCEPT ![gen + 1] =
                      [phase |-> "closing", kind |-> kind, uri |-> u, prev |-> current]]
        /\ badge' = shown
        /\ UNCHANGED carried
     \/ /\ current = NoStream
        /\ wanted
        /\ SendListen(gen + 1, kind, u, subs)
        /\ badge' = shown
        /\ UNCHANGED closing
     \/ /\ current = NoStream
        /\ ~wanted
        /\ badge' = Inactive
        /\ UNCHANGED <<call, carried, closing>>
  /\ UNCHANGED live

(* resetSubscriptionStream *)
ResetSubscriptionStream ==
  /\ gen < MaxGen
  /\ gen' = gen + 1
  /\ subscribed' = {}
  /\ timer' = FALSE
  /\ attempts' = 0
  /\ current' = NoStream
  /\ badge' = Inactive
  /\ StartClose(current)
  /\ UNCHANGED <<call, carried, live>>

(* Mutation: the ended stream is kept as the current one. *)
ClosedKeepsCurrent(s, reason, st) ==
  IF gen # s \/ current # s
  THEN UNCHANGED <<current, badge, timer>>
  ELSE /\ UNCHANGED current
       /\ IF reason = "remote" /\ ~Terminal(st) /\ Wants(subscribed)
          THEN ScheduleReconnect(subscribed)
          ELSE badge' = Shown(subscribed, "ended") /\ UNCHANGED timer

(* onModernSubscriptionClosed(s, reason, s), run with the status st. *)
OnModernSubscriptionClosed(s, reason, st) ==
  IF gen # s \/ current # s
  THEN UNCHANGED <<current, badge, timer>>
  ELSE /\ current' = NoStream
       /\ IF reason = "remote" /\ ~Terminal(st) /\ Wants(subscribed)
          THEN ScheduleReconnect(subscribed)
          ELSE badge' = Shown(subscribed, "ended") /\ UNCHANGED timer

-----------------------------------------------------------------------------
(* The session around the stream.  connect() runs once at a time and not    *)
(* during a disconnect(): its callers await the one before the other.       *)

(* connect() up to the handshake, on a new transport or on the cached one:  *)
(* a transport that only reported an error is still up, a closed one dead.  *)
ConnectBegin ==
  /\ connectPc = "idle"
  /\ ~disconnecting
  /\ status # "connected"
  /\ ResetSubscriptionStream
  /\ status' = "connecting"
  /\ connectPc' = "handshake"
  /\ announced' = FALSE
  /\ link' \in {link, TRUE}
  /\ UNCHANGED <<disconnecting, ready, optIn>>

(* The last answer of the handshake has come, over an open transport: its    *)
(* close would have rejected the request.  client.connect() has awaits left. *)
HandshakeAnswered ==
  /\ connectPc = "handshake"
  /\ link
  /\ connectPc' = "confirming"
  /\ UNCHANGED <<status, disconnecting, announced, link, ready, optIn, stream, wire>>

(* Mutation: `connect` is dispatched before the listen stream is tried. *)
HandshakeResolvesEarly ==
  /\ connectPc = "confirming"
  /\ status' = "connected"
  /\ ready' = TRUE
  /\ optIn' \in {FALSE, ListChange}
  /\ announced' = ~disconnecting
  /\ IF optIn' \/ subscribed # {}
     THEN /\ StartRefresh("connect", NoUri, subscribed, badge, 0, TRUE)
          /\ connectPc' = "opening"
     ELSE connectPc' = "idle" /\ UNCHANGED <<stream, wire>>
  /\ UNCHANGED <<disconnecting, link>>

(* client.connect() resolved: the status is set whatever became of the      *)
(* transport meanwhile, fetchServerInfo reads the capabilities and          *)
(* openModernListenStreamOnConnect follows; with nothing to listen for      *)
(* connect() is done.                                                       *)
HandshakeResolves ==
  /\ connectPc = "confirming"
  /\ status' = "connected"
  /\ ready' = TRUE
  /\ optIn' \in {FALSE, ListChange}
  /\ IF optIn' \/ subscribed # {}
     THEN /\ StartRefresh("connect", NoUri, subscribed, badge, 0, TRUE)
          /\ connectPc' = "opening"
          /\ UNCHANGED announced
     ELSE /\ connectPc' = "idle"
          /\ announced' = ~disconnecting
          /\ UNCHANGED <<stream, wire>>
  /\ UNCHANGED <<disconnecting, link>>

(* The handshake rejected; the status is held when the error asks the       *)
(* caller to authorize and retry.                                           *)
HandshakeRejects ==
  /\ connectPc \in {"handshake", "confirming"}
  /\ status' \in {"error", status}
  /\ connectPc' = "idle"
  /\ UNCHANGED <<disconnecting, announced, link, ready, optIn, stream, wire>>

DisconnectBegin ==
  /\ ~disconnecting
  /\ disconnecting' = TRUE
  /\ UNCHANGED <<status, connectPc, announced, link, ready, optIn, stream, wire>>

(* client.close() resolved: settle the status and drop the session. *)
DisconnectEnd ==
  /\ disconnecting
  /\ ~link
  /\ disconnecting' = FALSE
  /\ status' = "disconnected"
  /\ ready' = FALSE
  /\ optIn' = FALSE
  /\ ResetSubscriptionStream
  /\ UNCHANGED <<connectPc, announced, link>>

(***************************************************************************)
(* The transport closes, by disconnect() or by itself.  The client's        *)
(* onclose runs first and defers to a disconnect() in progress; then the    *)
(* SDK rejects every listen() not acknowledged and ends every stream, which *)
(* runs the closed handler of the current one.                              *)
(***************************************************************************)
TransportCloses ==
  /\ link
  /\ link' = FALSE
  /\ status' = IF disconnecting \/ Terminal(status) THEN status ELSE "disconnected"
  /\ call' = [g \in Gens |-> IF call[g].phase = "listening"
                             THEN [call[g] EXCEPT !.phase = "rejected"]
                             ELSE call[g]]
  /\ live' = {}
  /\ closing' = {}
  /\ IF current = NoStream
     THEN UNCHANGED <<current, badge, timer>>
     ELSE \E reason \in {"remote", "graceful"} :
            OnModernSubscriptionClosed(current, reason, status')
  /\ UNCHANGED <<disconnecting, connectPc, announced, ready, optIn, subscribed,
                 gen, attempts, carried>>

(* onerror without onclose: the transport stays up and nothing is reset. *)
TransportErrs ==
  /\ link \/ ready
  /\ status \notin {"connecting", "error"}
  /\ status' = "error"
  /\ UNCHANGED <<disconnecting, connectPc, announced, link, ready, optIn, stream, wire>>

-----------------------------------------------------------------------------
(* The stream itself. *)

SubscribeToResource(u) ==
  /\ ready
  /\ u \notin subscribed
  /\ StartRefresh("subscribe", u, subscribed \union {u},
                  Shown(subscribed \union {u}, "connecting"), 0, TRUE)
  /\ UNCHANGED session

(* Mutation: the last unsubscribe leaves the badge to the refresh. *)
UnsubscribeKeepsBadge(u) ==
  /\ ready
  /\ u \in subscribed
  /\ StartRefresh("unsubscribe", u, subscribed \ {u}, badge, 0, Wants(subscribed \ {u}))
  /\ UNCHANGED session

UnsubscribeFromResource(u) ==
  /\ ready
  /\ u \in subscribed
  /\ StartRefresh("unsubscribe", u, subscribed \ {u},
                  IF subscribed = {u} THEN Inactive ELSE badge, 0,
                  Wants(subscribed \ {u}))
  /\ UNCHANGED session

(* The reconnect timer fires; it bails when the re-listen is moot. *)
ReconnectTimerFires ==
  /\ timer
  /\ IF Terminal(status) \/ ~Wants(subscribed)
     THEN timer' = FALSE /\ UNCHANGED <<subscribed, gen, current, badge, attempts, wire>>
     ELSE StartRefresh("reconnect", NoUri, subscribed, badge, attempts, TRUE)
  /\ UNCHANGED session

(* The await of the previous stream's close returned. *)
PreviousClosed(g) ==
  /\ call[g].phase = "closing"
  /\ call[g].prev \notin live
  /\ IF Wants(subscribed)
     THEN /\ SendListen(g, call[g].kind, call[g].uri, subscribed)
          /\ UNCHANGED <<badge, session>>
     ELSE /\ badge' = Inactive
          /\ call' = [call EXCEPT ![g] = NoCall]
          /\ UNCHANGED carried
          /\ CallerResumes(call[g].kind)
  /\ UNCHANGED <<subscribed, gen, current, attempts, timer, live, closing>>

(* Mutation: the stream of an outdated refresh is forgotten, not closed. *)
AcknowledgedForgets(g) ==
  /\ call[g].phase = "listening"
  /\ link
  /\ live' = live \union {g}
  /\ IF gen = g
     THEN /\ current' = g
          /\ attempts' = 0
          /\ badge' = Shown(subscribed, "acknowledged")
     ELSE UNCHANGED <<current, attempts, badge>>
  /\ call' = [call EXCEPT ![g] = NoCall]
  /\ CallerResumes(call[g].kind)
  /\ UNCHANGED <<subscribed, gen, timer, carried, closing>>

(* The server acknowledged refresh g: install its stream, unless a newer    *)
(* refresh has started, and then discard it.                                *)
ListenAcknowledged(g) ==
  /\ call[g].phase = "listening"
  /\ link
  /\ live' = live \union {g}
  /\ IF gen = g
     THEN /\ current' = g
          /\ attempts' = 0
          /\ badge' = Shown(subscribed, "acknowledged")
          /\ UNCHANGED closing
     ELSE /\ closing' = closing \union {g}
          /\ UNCHANGED <<current, attempts, badge>>
  /\ call' = [call EXCEPT ![g] = NoCall]
  /\ CallerResumes(call[g].kind)
  /\ UNCHANGED <<subscribed, gen, timer, carried>>

(* Mutation: the rollback does not ask whether a newer refresh has started. *)
CatchesUngated(g) ==
  \/ /\ call[g].kind = "reconnect"
     /\ attempts' = attempts + 1
     /\ IF attempts + 1 > MaxAttempts \/ Terminal(status) \/ ~Wants(subscribed)
        THEN badge' = Shown(subscribed, "ended") /\ UNCHANGED timer
        ELSE ScheduleReconnect(subscribed)
     /\ UNCHANGED subscribed
  \/ /\ call[g].kind # "reconnect"
     /\ subscribed' = IF call[g].kind = "subscribe"
                      THEN subscribed \ {call[g].uri} ELSE subscribed
     /\ Reconcile(subscribed')
     /\ UNCHANGED attempts

(* The catch of the caller of refresh g, whose listen() rejected.  A        *)
(* subscribe rolls its URI back, an unsubscribe does not, and each only     *)
(* while it owns the newest generation; a reconnect asks nothing.           *)
CallerCatches(g) ==
  \/ /\ call[g].kind = "reconnect"
     /\ attempts' = attempts + 1
     /\ IF attempts + 1 > MaxAttempts \/ Terminal(status) \/ ~Wants(subscribed)
        THEN badge' = Shown(subscribed, "ended") /\ UNCHANGED timer
        ELSE ScheduleReconnect(subscribed)
     /\ UNCHANGED subscribed
  \/ /\ call[g].kind # "reconnect"
     /\ gen = g
     /\ subscribed' = IF call[g].kind = "subscribe"
                      THEN subscribed \ {call[g].uri} ELSE subscribed
     /\ Reconcile(subscribed')
     /\ UNCHANGED attempts
  \/ /\ call[g].kind # "reconnect"
     /\ gen # g
     /\ UNCHANGED <<subscribed, badge, timer, attempts>>

ListenRejected(g) ==
  /\ call[g].phase \in {"listening", "rejected"}
  /\ CallerCatches(g)
  /\ call' = [call EXCEPT ![g] = NoCall]
  /\ CallerResumes(call[g].kind)
  /\ UNCHANGED <<gen, current, carried, live, closing>>

(* A stream ends: "local" when close() was called on it, otherwise by the   *)
(* server.                                                                  *)
StreamEnds(s) ==
  /\ s \in live
  /\ live' = live \ {s}
  /\ closing' = closing \ {s}
  /\ \E reason \in IF s \in closing THEN {"local"} ELSE {"remote", "graceful"} :
       OnModernSubscriptionClosed(s, reason, status)
  /\ UNCHANGED <<session, subscribed, gen, attempts, call, carried>>

-----------------------------------------------------------------------------
SessionNext ==
  \/ ConnectBegin
  \/ HandshakeAnswered
  \/ HandshakeResolves
  \/ HandshakeRejects
  \/ DisconnectBegin
  \/ DisconnectEnd
  \/ TransportCloses
  \/ TransportErrs

StreamNext ==
  \/ \E u \in Uris : SubscribeToResource(u) \/ UnsubscribeFromResource(u)
  \/ ReconnectTimerFires
  \/ \E g \in Gens : \/ PreviousClosed(g)
                     \/ ListenAcknowledged(g)
                     \/ ListenRejected(g)
                     \/ StreamEnds(g)

Next == SessionNext \/ StreamNext

Spec == Init /\ [][Next]_vars

(***************************************************************************)
(* Fairness.  Timers fire, an awaited close returns (its failure is caught) *)
(* and listen() settles one way or the other: it runs under the request     *)
(* timeout of getRequestOptions().  A disconnect() that began closes the    *)
(* transport and returns.  Nothing obliges a user to act, a server to       *)
(* answer or a transport to stay up.                                        *)
(***************************************************************************)
Fairness ==
  /\ WF_vars(ReconnectTimerFires)
  /\ WF_vars(disconnecting /\ TransportCloses)
  /\ WF_vars(DisconnectEnd)
  /\ \A g \in Gens :
       /\ WF_vars(PreviousClosed(g))
       /\ WF_vars(ListenAcknowledged(g) \/ ListenRejected(g))
       /\ WF_vars(g \in closing /\ StreamEnds(g))

FairSpec == Spec /\ Fairness
-----------------------------------------------------------------------------
(* Properties. *)

(* The newest refresh is on its way. *)
Refreshing == gen \in Gens /\ call[gen].phase # "idle"

(* The stream's filter mirrors subscribedResources: whatever order refreshes, *)
(* rollbacks and resets land in, the stream the client holds was opened by the *)
(* newest refresh and carries exactly the URIs shown as subscribed.            *)
FilterMirrorsSubscribed ==
  current # NoStream => current = gen /\ carried[current] = subscribed

(* The client never holds a stream that has ended or that it has closed. *)
CurrentIsLive ==
  current # NoStream => current \in live \ closing

(* A stream left open on the server is the current one or is being closed:    *)
(* discarded acknowledgements and resets over a live transport leak nothing.  *)
NoLeakedStream ==
  live \subseteq closing \union {current}

(* An empty set is never shown with an active badge. *)
InactiveWhenEmpty ==
  subscribed = {} => ~badge.active

(* The badge claims an acknowledged stream only while there is one, or while  *)
(* the newest refresh is replacing it.                                        *)
AcknowledgedMeansStream ==
  badge.status = "acknowledged" =>
    current # NoStream \/ Refreshing

(* A live stream is shown as such, and no reconnect is armed against it.  The *)
(* comment on modernListenGeneration promises that a stale reconnect bails    *)
(* without clobbering the current stream.                                     *)
CurrentNotClobbered ==
  current # NoStream => ~timer /\ badge.status = "acknowledged"

(* Whatever the filter still asks for is being seen to: a stream, a refresh   *)
(* on its way or a timer, unless the stream is shown as ended or the session  *)
(* is over.                                                                   *)
NothingForgotten ==
  subscribed # {} =>
    \/ current # NoStream
    \/ timer
    \/ Refreshing
    \/ badge.status = "ended"
    \/ Terminal(status)

(* `connect`, upon which the lists are fetched, is dispatched when the        *)
(* connect-time refresh is over and no teardown or crash was seen, and the    *)
(* channel that would announce their changes is then open, being opened again *)
(* or due to be; the badge may say that it ended only if another refresh had  *)
(* overtaken that of connect().                                               *)
ConnectFollowsChannel ==
  [][~announced /\ announced' =>
       /\ status' = "connected" /\ ~disconnecting'
       /\ \A g \in Gens : call'[g].kind # "connect"
       /\ Wants(subscribed)' =>
            \/ current' # NoStream \/ timer' \/ Refreshing'
            \/ badge'.status = "ended" /\ \E g \in Gens : call[g].kind = "connect" /\ g # gen]_vars

(* `connect` is withheld when the session is "being torn down or already      *)
(* dead": it is never announced over a transport that has closed.             *)
AnnouncedIsLive ==
  [][~announced /\ announced' => link' /\ ~disconnecting']_vars

(* A URI leaves the set only by its own unsubscribe, by a step that empties   *)
(* the set (a reset, the last unsubscribe), or by the failure of the very     *)
(* call that added it while that call is the newest.                          *)
OnlyOwnRollback ==
  [][\A u \in subscribed \ subscribed' :
       \/ gen' # gen /\ subscribed' = {}
       \/ gen' # gen /\ call'[gen'].kind = "unsubscribe" /\ call'[gen'].uri = u
       \/ gen' = gen /\ gen \in Gens /\ call[gen].kind = "subscribe" /\ call[gen].uri = u]_vars

(* Why the client never holds a wrong stream, as an inductive invariant: a     *)
(* refresh in flight has taken its generation and has no stream yet, and the   *)
(* newest one, once it listens, asks for exactly the subscribed set.           *)
RefreshesOwnTheirGeneration ==
  /\ closing \subseteq live
  /\ \A g \in live : g <= gen
  /\ \A g \in Gens : call[g].phase # "idle" => g <= gen /\ g \notin live
  /\ \A g \in Gens : g = gen /\ call[g].phase = "listening" => carried[g] = subscribed

StreamInv ==
  /\ FilterMirrorsSubscribed
  /\ CurrentIsLive
  /\ NoLeakedStream
  /\ InactiveWhenEmpty
  /\ RefreshesOwnTheirGeneration

(* A badge in motion comes to rest while the session lives: the state becomes *)
(* true or ends after a real attempt.  MaxGen is where the model stops.       *)
BadgeSettles ==
  badge.status \in {"connecting", "reconnecting"} ~>
    \/ badge.status \in {"acknowledged", "ended"}
    \/ Terminal(status)
    \/ gen = MaxGen
=============================================================================
