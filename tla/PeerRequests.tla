---------------------------- MODULE PeerRequests -----------------------------
(***************************************************************************)
(* The life of one InspectorClient, and what the server asks of it: the    *)
(* sampling and elicitation requests queued for the user, and the receiver *)
(* tasks that stand for some of them (core/mcp/inspectorClient.ts,         *)
(* samplingCreateMessage.ts, elicitationCreateMessage.ts).  connect() and  *)
(* disconnect() wait in the middle, and the callbacks of a transport, an   *)
(* old one too, arrive whenever they like.                                 *)
(***************************************************************************)
EXTENDS Integers, FiniteSets

CONSTANTS
  Peers,      \* requests of the server, each made at most once
  MaxAttempts, \* bound: calls of connect()
  MaxErrors   \* bound: onerror callbacks

ASSUME PeerRequestsAssumption ==
  /\ MaxAttempts \in Nat /\ MaxErrors \in Nat /\ IsFiniteSet(Peers)

Terminal == {"completed", "failed", "cancelled"}

VARIABLES
  link,       \* this.status
  tearing,    \* this.disconnecting
  connecting, \* where connect() is
  attempt,    \* calls of connect() so far
  made,       \* transports made so far, the newest being number `made`
  kept,       \* baseTransport is set, to the newest
  open,       \* transports whose wire is open
  unclosed,   \* transports whose onclose has not fired
  errors,     \* onerror callbacks so far
  farewells,  \* `disconnect` events since the last connect()
  overtaken,  \* history: the wire closed before client.connect() had returned
  peer        \* the requests of the server

clientVars == <<link, tearing, connecting, attempt, made, kept, open, unclosed, errors,
                farewells, overtaken>>
peerVars == <<clientVars, peer>>

(* A request: which kind, and how it came (as a request, as a task of its    *)
(* own, or embedded in the result of a tool call); the connect() it came     *)
(* after; whether it is in the queue; how the queue entry was settled.  Of   *)
(* a task also: its record is kept, with which status, its TTL timer runs,   *)
(* how the promise of its payload settled, which status was sent last.       *)
Request == [via : {"none", "plain", "task", "tool"}, kind : {"sample", "elicit"},
            of : 0..MaxAttempts, queued : BOOLEAN,
            settled : {"no", "result", "error"},
            kept : BOOLEAN, rec : Terminal \union {"none", "input_required"},
            timer : BOOLEAN, payload : {"no", "result", "error"},
            told : Terminal \union {"none"}]

NoRequest == [via |-> "none", kind |-> "sample", of |-> 0, queued |-> FALSE, settled |-> "no",
              kept |-> FALSE, rec |-> "none", timer |-> FALSE, payload |-> "no", told |-> "none"]

PeersTypeOK ==
  /\ link \in {"disconnected", "connecting", "connected", "error"}
  /\ tearing \in BOOLEAN
  /\ connecting \in {"idle", "handshake", "confirming", "settling", "dropping"}
  /\ attempt \in 0..MaxAttempts /\ made \in 0..MaxAttempts /\ kept \in BOOLEAN
  /\ open \subseteq unclosed /\ unclosed \subseteq 1..made
  /\ errors \in 0..MaxErrors /\ farewells \in Nat /\ overtaken \in BOOLEAN
  /\ peer \in [Peers -> Request]

PeersInit ==
  /\ link = "disconnected" /\ tearing = FALSE /\ connecting = "idle"
  /\ attempt = 0 /\ made = 0 /\ kept = FALSE /\ open = {} /\ unclosed = {}
  /\ errors = 0 /\ farewells = 0 /\ overtaken = FALSE
  /\ peer = [p \in Peers |-> NoRequest]

-----------------------------------------------------------------------------
(* upsertReceiverTask: a record still kept takes the status and sends it. *)
Upserted(r, s) ==
  [r EXCEPT !.rec = s, !.told = IF r.kept THEN s ELSE @]

(* The entry's callbacks: a task settles its payload, once, and its record.  *)
Settle(r, how) ==
  LET done == [r EXCEPT !.settled = how]
  IN IF r.via # "task" THEN done
     ELSE Upserted([done EXCEPT !.payload = IF @ = "no" THEN how ELSE @],
                   IF how = "result" THEN "completed" ELSE "failed")

(* cancel() of a queued entry: a sample is rejected, an elicitation answered *)
(* with the action "cancel".                                                 *)
Cancelled(r) == Settle(r, IF r.kind = "sample" THEN "error" ELSE "result")

(* Mutation: the queue is emptied without settling what is in it. *)
SweptSilently(r) == [p \in Peers |-> [r[p] EXCEPT !.queued = FALSE]]

(* clearPendingPeerRequests of requests r: settle every entry, then drop it. *)
Swept(r) == [p \in Peers |-> IF r[p].queued THEN [Cancelled(r[p]) EXCEPT !.queued = FALSE]
                             ELSE r[p]]

(* clearReceiverTasks of requests r. *)
Forgotten(r) == [p \in Peers |-> [r[p] EXCEPT !.kept = FALSE, !.timer = FALSE]]

-----------------------------------------------------------------------------
(* Mutation: connect() sweeps the queue before it resets the session. *)
CleanSweepFirst == Forgotten(Swept(peer))

(* Mutation: connect() trusts the way out to have swept the queue. *)
CleanUnswept == Forgotten(peer)

(* What connect() starts with: resetSessionState, then the sweep of the      *)
(* queue that an onerror without an onclose left behind.                     *)
Clean == Swept(Forgotten(peer))

(* connect(): start clean, and make a transport unless one is cached that    *)
(* can be used; then the handshake begins.                                   *)
ConnectStarts ==
  /\ link # "connected" /\ connecting = "idle" /\ ~tearing
  /\ attempt < MaxAttempts
  /\ attempt' = attempt + 1
  /\ peer' = Clean
  /\ \/ kept /\ UNCHANGED <<made, open, unclosed>>
     \/ /\ made' = made + 1
        /\ open' = (open \ {made}) \union {made + 1}
        /\ unclosed' = unclosed \union {made + 1}
  /\ kept' = TRUE
  /\ link' = "connecting" /\ connecting' = "handshake"
  /\ farewells' = 0 /\ overtaken' = FALSE
  /\ UNCHANGED <<tearing, errors>>

(* The server answers `initialize`; the close of the wire would have         *)
(* rejected the request.  `notifications/initialized` is still to be sent.   *)
HandshakeAnswered ==
  /\ connecting = "handshake" /\ made \in open
  /\ connecting' = "confirming"
  /\ UNCHANGED <<link, tearing, attempt, made, kept, open, unclosed, errors, farewells, overtaken, peer>>

(* client.connect() returns: the status is set, whatever happened meanwhile. *)
HandshakeDone ==
  /\ connecting = "confirming"
  /\ link' = "connected" /\ connecting' = "settling"
  /\ overtaken' = (made \notin unclosed)
  /\ UNCHANGED <<tearing, attempt, made, kept, open, unclosed, errors, farewells, peer>>

(* connect() ends: the log level is set and the listen stream is open. *)
ConnectEnds ==
  /\ connecting = "settling"
  /\ connecting' = "idle"
  /\ UNCHANGED <<link, tearing, attempt, made, kept, open, unclosed, errors, farewells, overtaken, peer>>

(* connect() fails, its timeout included, where disconnect() runs before:    *)
(* an auth challenge leaves the status, and an auth provider the transport;  *)
(* else the cached transport is dropped before the queue is.                 *)
ConnectFails ==
  /\ connecting \in {"handshake", "confirming", "settling"}
  /\ link' \in {"error", link}
  /\ IF kept
     THEN \/ connecting' = "dropping" /\ UNCHANGED peer
          \/ connecting' = "idle" /\ peer' = Swept(peer)
     ELSE connecting' = "idle" /\ peer' = Swept(peer)
  /\ UNCHANGED <<tearing, attempt, made, kept, open, unclosed, errors, farewells, overtaken>>

ConnectDropped ==
  /\ connecting = "dropping"
  /\ connecting' = "idle" /\ kept' = FALSE
  /\ open' = open \ {made}
  /\ peer' = Swept(peer)
  /\ UNCHANGED <<link, tearing, attempt, made, unclosed, errors, farewells, overtaken>>

(* disconnect(): claim the teardown, and close. *)
DisconnectStarts ==
  /\ ~tearing /\ made > 0
  /\ tearing' = TRUE
  /\ UNCHANGED <<link, connecting, attempt, made, kept, open, unclosed, errors, farewells, overtaken, peer>>

(* The rest of disconnect(), once client.close() has returned. *)
DisconnectEnds ==
  /\ tearing
  /\ tearing' = FALSE /\ kept' = FALSE
  /\ open' = open \ {made}
  /\ peer' = Forgotten(Swept(peer))
  /\ link' = "disconnected"
  /\ farewells' = IF link = "disconnected" THEN farewells ELSE farewells + 1
  /\ UNCHANGED <<connecting, attempt, made, unclosed, errors, overtaken>>

(* Mutation: a transport that closed is taken for open. *)
TransportClosesHalf(t) ==
  /\ t \in unclosed
  /\ unclosed' = unclosed \ {t} /\ UNCHANGED open
  /\ IF tearing \/ link = "disconnected" THEN UNCHANGED <<link, farewells>>
     ELSE /\ link' = IF link = "error" THEN link ELSE "disconnected"
          /\ farewells' = farewells + 1
  /\ UNCHANGED <<tearing, connecting, attempt, made, kept, errors, overtaken, peer>>

(* Mutation: a close while connect() is under way is left to connect(). *)
TransportClosesIgnored(t) ==
  /\ t \in unclosed
  /\ unclosed' = unclosed \ {t} /\ open' = open \ {t}
  /\ IF tearing \/ link # "connected" \/ connecting # "idle" THEN UNCHANGED <<link, farewells, peer>>
     ELSE link' = "disconnected" /\ farewells' = farewells + 1 /\ peer' = Swept(peer)
  /\ UNCHANGED <<tearing, connecting, attempt, made, kept, errors, overtaken>>

(* onclose of transport t, because the peer is gone or long after the client *)
(* closed it.                                                                *)
TransportCloses(t) ==
  /\ t \in unclosed
  /\ unclosed' = unclosed \ {t} /\ open' = open \ {t}
  /\ IF tearing \/ link = "disconnected" THEN UNCHANGED <<link, farewells, peer>>
     ELSE /\ link' = IF link = "error" THEN link ELSE "disconnected"
          /\ farewells' = farewells + 1
          /\ peer' = Swept(peer)
  /\ UNCHANGED <<tearing, connecting, attempt, made, kept, errors, overtaken>>

(* onerror of a transport. *)
TransportErrs ==
  /\ made > 0 /\ errors < MaxErrors
  /\ errors' = errors + 1
  /\ link' = IF link = "connecting" THEN link ELSE "error"
  /\ UNCHANGED <<tearing, connecting, attempt, made, kept, open, unclosed, farewells, overtaken, peer>>

-----------------------------------------------------------------------------
(* The server asks: the handlers are there from the start of the handshake,  *)
(* and stay.  A task-augmented request is answered at once with its record.  *)
PeerAsks(p, kind, via) ==
  /\ made \in open /\ peer[p].via = "none"
  /\ peer' = [peer EXCEPT ![p] =
                [NoRequest EXCEPT !.via = via, !.kind = kind, !.of = attempt, !.queued = TRUE,
                   !.kept = (via = "task"), !.timer = (via = "task"),
                   !.rec = IF via = "task" THEN "input_required" ELSE "none"]]
  /\ UNCHANGED clientVars

(* respond(), also when a notification completes a URL elicitation. *)
UserAnswers(p) ==
  /\ peer[p].queued
  /\ peer' = [peer EXCEPT ![p] = [Settle(@, "result") EXCEPT !.queued = FALSE]]
  /\ UNCHANGED clientVars

(* reject() of a sample; or an abort of the tool call an entry belongs to. *)
UserRejects(p) ==
  /\ peer[p].queued
  /\ peer[p].kind = "sample" \/ peer[p].via = "tool"
  /\ peer' = [peer EXCEPT ![p] = [Settle(@, "error") EXCEPT !.queued = FALSE]]
  /\ UNCHANGED clientVars

(* Mutation: tasks/cancel leaves the payload promise pending. *)
ServerCancelsStatusOnly(p) ==
  /\ made \in open
  /\ peer[p].kept /\ peer[p].rec \notin Terminal
  /\ peer' = [peer EXCEPT ![p].rec = "cancelled", ![p].told = "cancelled", ![p].timer = FALSE]
  /\ UNCHANGED clientVars

(* cancelReceiverTask: the queue entry stays, and so does the record. *)
ServerCancels(p) ==
  /\ made \in open
  /\ peer[p].kept /\ peer[p].rec \notin Terminal
  /\ peer' = [peer EXCEPT ![p].rec = "cancelled", ![p].told = "cancelled",
                          ![p].timer = FALSE, ![p].payload = "error"]
  /\ UNCHANGED clientVars

(* The TTL of the record is over. *)
TaskExpires(p) ==
  /\ peer[p].timer
  /\ peer' = [peer EXCEPT ![p].timer = FALSE, ![p].kept = FALSE]
  /\ UNCHANGED clientVars

PeersNext ==
  \/ ConnectStarts \/ HandshakeAnswered \/ HandshakeDone \/ ConnectEnds \/ ConnectFails \/ ConnectDropped
  \/ DisconnectStarts \/ DisconnectEnds \/ TransportErrs
  \/ \E t \in unclosed : TransportCloses(t)
  \/ \E p \in Peers :
       \/ \E kind \in {"sample", "elicit"}, via \in {"plain", "task", "tool"} :
            PeerAsks(p, kind, via)
       \/ UserAnswers(p) \/ UserRejects(p) \/ ServerCancels(p) \/ TaskExpires(p)

PeersSpec == PeersInit /\ [][PeersNext]_peerVars

-----------------------------------------------------------------------------
Raised == {p \in Peers : peer[p].via # "none"}

(* The queue is exactly what the client owes an answer: an entry the user    *)
(* sees can still be answered, and one that left the queue was settled, so   *)
(* that neither the server nor a tool call waits forever                     *)
(* (clearPendingPeerRequests: "settled before being dropped").               *)
QueueIsDebt == \A p \in Raised : peer[p].queued = (peer[p].settled = "no")

(* A session that is up shows and reports nothing of an earlier one: the     *)
(* user's answer never goes to a server that did not ask (the sweep at the   *)
(* top of connect(), over a transport that an onerror left open).            *)
SessionOwnsItsRequests ==
  link = "connected" => \A p \in Raised : peer[p].queued \/ peer[p].kept => peer[p].of = attempt

(* tasks/result settles exactly when the task has ended.                     *)
EndedIsPaid ==
  \A p \in Raised : peer[p].via = "task" =>
    (peer[p].rec = "input_required") = (peer[p].payload = "no")

(* A status notification is never about the task of an earlier session       *)
(* ("Must stay after resetSessionState()").                                  *)
NoStrayStatus == [][\A p \in Peers : peer'[p].told # peer[p].told => peer'[p].of = attempt']_peerVars

(* A client that says connected has not seen its transport close: no onclose *)
(* goes unnoticed because it comes while connect() settles or disconnect()   *)
(* tears down, or of an older transport.  The exception is the close that    *)
(* comes between the answer of the handshake and the end of client.connect():*)
(* the status is then set over it.                                           *)
CloseIsNoticed == link = "connected" /\ ~tearing /\ ~overtaken => made \in unclosed

(* disconnect(): "Guarantees a single `disconnect` event even when           *)
(* disconnecting from a held-'error' status".                                *)
SingleDisconnect == farewells <= 1
=============================================================================
