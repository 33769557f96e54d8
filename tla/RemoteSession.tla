---------------------------- MODULE RemoteSession ----------------------------
(***************************************************************************)
(* The backend half of the remote transport: one RemoteSession               *)
(* (core/mcp/remote/node/remote-session.ts) and the /api/mcp routes that     *)
(* drive it (core/mcp/remote/node/server.ts).  The session owns the upstream *)
(* MCP transport.  What the upstream says becomes events, which go to the    *)
(* event stream (an SSE response) of the browser, or wait in a queue while   *)
(* there is none.  The browser's sends arrive as POSTs, each answered once   *)
(* the upstream answered it.                                                 *)
(*                                                                           *)
(* The browser is free here: it opens streams, goes away, sends and          *)
(* disconnects whenever it likes.  RemoteLink puts the real one in its place.*)
(***************************************************************************)
EXTENDS Integers, Sequences

CONSTANTS
  Sends,      \* the messages the browser may POST to /api/mcp/send
  Requests,   \* those that are answered: requests other than subscriptions/listen
  MaxStreams, \* bound: GETs of /api/mcp/events
  MaxEvents,  \* bound: events when the upstream stops volunteering more
  NoSend      \* not a message

ASSUME RemoteSessionAssumption ==
  /\ Requests \subseteq Sends
  /\ NoSend \notin Sends
  /\ MaxStreams \in Nat
  /\ MaxEvents \in Nat

Streams == 1..MaxStreams
NoStream == 0

(* An event is numbered in the order the session produced it. *)
Event == [n : Nat,
          type : {"message", "auth_challenge", "transport_error"},
          answers : Sends \union {NoSend}]

VARIABLES
  inMap,         \* sessions.has(sessionId)
  upstream,      \* the upstream transport: "idle", "starting", "up" or "down"
  closing,       \* transport.close() of a disconnect route: "no", "awaited" or "failed"
  transportDead, \* transportDead
  eventQueue,    \* eventQueue
  eventConsumer, \* the stream eventConsumer writes to, NoStream for null
  held,          \* the streams whose response is open: "no", "flushing", "held", "done" or "refused"
  wire,          \* what was written to each stream and not read by the browser
  srv,           \* each send: "none", "sending", "waiting" or "done"
  wait,          \* its entry in requestWaits: "none", "pending" or how it settled
  reply,         \* the HTTP answer to it
  answered,      \* the sends the upstream has answered
  suppress,      \* shouldSuppressAuthEcho()
  owed,          \* an upstream auth error was swallowed and not yet reported
  gcTimer,       \* the 30 s sweep of an abandoned session is armed
  produced       \* the number of events so far

lifeVars == <<inMap, upstream, closing, transportDead, gcTimer>>
streamVars == <<eventConsumer, held>>
sendVars == <<srv, wait, reply, answered>>
authVars == <<suppress, owed>>
eventVars == <<eventQueue, wire, produced>>
serverVars == <<lifeVars, streamVars, sendVars, authVars, eventVars>>

TypeOK ==
  /\ inMap \in BOOLEAN
  /\ upstream \in {"idle", "starting", "up", "down"}
  /\ closing \in {"no", "awaited", "failed"}
  /\ transportDead \in BOOLEAN
  /\ eventQueue \in Seq(Event)
  /\ eventConsumer \in Streams \union {NoStream}
  /\ held \in [Streams -> {"no", "flushing", "held", "done", "refused"}]
  /\ wire \in [Streams -> Seq(Event)]
  /\ srv \in [Sends -> {"none", "sending", "waiting", "done"}]
  /\ wait \in [Sends -> {"none", "pending", "resolved", "auth", "failed"}]
  /\ reply \in [Sends -> {"none", "ok", "auth_challenge", "transport_error"}]
  /\ answered \in SUBSET Requests
  /\ suppress \in BOOLEAN
  /\ owed \in BOOLEAN
  /\ gcTimer \in BOOLEAN
  /\ produced \in Nat

Init ==
  /\ inMap = FALSE
  /\ upstream = "idle"
  /\ closing = "no"
  /\ transportDead = FALSE
  /\ eventQueue = <<>>
  /\ eventConsumer = NoStream
  /\ held = [s \in Streams |-> "no"]
  /\ wire = [s \in Streams |-> <<>>]
  /\ srv = [m \in Sends |-> "none"]
  /\ wait = [m \in Sends |-> "none"]
  /\ reply = [m \in Sends |-> "none"]
  /\ answered = {}
  /\ suppress = FALSE
  /\ owed = FALSE
  /\ gcTimer = FALSE
  /\ produced = 0

-----------------------------------------------------------------------------
(* hasActiveSend() *)
ActiveSends == {m \in Sends : srv[m] \in {"sending", "waiting"}}

(* Mutation: the queue is filled from the front. *)
PushEventInFront(type, m) ==
  LET event == [n |-> produced + 1, type |-> type, answers |-> m] IN
  /\ produced' = produced + 1
  /\ IF eventConsumer # NoStream
     THEN /\ wire' = [wire EXCEPT ![eventConsumer] = Append(@, event)]
          /\ UNCHANGED eventQueue
     ELSE /\ eventQueue' = <<event>> \o eventQueue
          /\ UNCHANGED wire

(* pushEvent: to the consumer when there is one, else to the queue. *)
PushEvent(type, m) ==
  LET event == [n |-> produced + 1, type |-> type, answers |-> m] IN
  /\ produced' = produced + 1
  /\ IF eventConsumer # NoStream
     THEN /\ wire' = [wire EXCEPT ![eventConsumer] = Append(@, event)]
          /\ UNCHANGED eventQueue
     ELSE /\ eventQueue' = Append(eventQueue, event)
          /\ UNCHANGED wire

(* The HTTP answer to send m: the route's try, catch and finally.           *)
Answer(m, r) ==
  /\ srv' = [srv EXCEPT ![m] = "done"]
  /\ reply' = [reply EXCEPT ![m] = r]
  /\ suppress' = (suppress \/ r = "auth_challenge")
  /\ owed' = (owed /\ r # "auth_challenge")

-----------------------------------------------------------------------------
(* POST /api/mcp/connect *)
ConnectArrives ==
  /\ upstream = "idle"
  /\ upstream' = "starting"
  /\ UNCHANGED <<inMap, closing, transportDead, gcTimer, streamVars,
                 sendVars, authVars, eventVars>>

(* transport.start() resolved, and no onclose or onerror came meanwhile. *)
TransportStarts ==
  /\ upstream = "starting"
  /\ upstream' = "up"
  /\ inMap' = TRUE
  /\ UNCHANGED <<closing, transportDead, gcTimer, streamVars,
                 sendVars, authVars, eventVars>>

(* It threw, or the transport failed during the start: no session. *)
TransportFailsToStart ==
  /\ upstream = "starting"
  /\ upstream' = "down"
  /\ UNCHANGED <<inMap, closing, transportDead, gcTimer, streamVars,
                 sendVars, authVars, eventVars>>

(* POST /api/mcp/send, up to the await of transport.send() *)
SendArrives(m) ==
  /\ srv[m] = "none"
  /\ IF inMap /\ ~transportDead
     THEN /\ srv' = [srv EXCEPT ![m] = "sending"]
          /\ wait' = [wait EXCEPT ![m] = IF m \in Requests THEN "pending" ELSE "none"]
          /\ UNCHANGED <<reply, authVars>>
     ELSE Answer(m, "transport_error") /\ UNCHANGED wait
  /\ UNCHANGED <<lifeVars, streamVars, answered, eventVars>>

(* Mutation: the route does not await the response of a request. *)
AcceptsAtOnce(m) ==
  /\ srv[m] = "sending"
  /\ upstream = "up"
  /\ Answer(m, "ok")
  /\ UNCHANGED <<lifeVars, streamVars, wait, answered, eventVars>>

(* transport.send() returned; a request goes on to await its response. *)
UpstreamAccepts(m) ==
  /\ srv[m] = "sending"
  /\ upstream = "up"
  /\ IF m \in Requests
     THEN srv' = [srv EXCEPT ![m] = "waiting"] /\ UNCHANGED <<reply, authVars>>
     ELSE Answer(m, "ok")
  /\ UNCHANGED <<lifeVars, streamVars, wait, answered, eventVars>>

(* transport.send() threw; the wait, if any is left, is cancelled. *)
UpstreamRefuses(m) ==
  /\ srv[m] = "sending"
  /\ \E r \in {"auth_challenge", "transport_error"} : Answer(m, r)
  /\ wait' = [wait EXCEPT ![m] = IF @ = "pending" THEN "failed" ELSE @]
  /\ UNCHANGED <<lifeVars, streamVars, answered, eventVars>>

(* Mutation: a failed wait is answered with a kind nobody declared. *)
SendReturnsMistyped(m) ==
  /\ srv[m] = "waiting"
  /\ wait[m] # "pending"
  /\ Answer(m, IF wait[m] = "resolved" THEN "ok" ELSE wait[m])
  /\ UNCHANGED <<lifeVars, streamVars, wait, answered, eventVars>>

(* The awaited wait settled. *)
SendReturns(m) ==
  /\ srv[m] = "waiting"
  /\ wait[m] # "pending"
  /\ Answer(m, CASE wait[m] = "resolved" -> "ok"
                 [] wait[m] = "auth" -> "auth_challenge"
                 [] OTHER -> "transport_error")
  /\ UNCHANGED <<lifeVars, streamVars, wait, answered, eventVars>>

(* The 60 s timer of waitForRequestResponse *)
WaitTimesOut(m) ==
  /\ wait[m] = "pending"
  /\ wait' = [wait EXCEPT ![m] = "failed"]
  /\ UNCHANGED <<lifeVars, streamVars, srv, reply, answered, authVars, eventVars>>

(* onMessage with the response to m, possibly after its wait gave up. *)
UpstreamAnswers(m) ==
  /\ upstream = "up"
  /\ m \in Requests \ answered
  /\ wait[m] # "none"
  /\ answered' = answered \union {m}
  /\ wait' = [wait EXCEPT ![m] = IF @ = "pending" THEN "resolved" ELSE @]
  /\ PushEvent("message", m)
  /\ UNCHANGED <<lifeVars, streamVars, srv, reply, authVars>>

(* onMessage with a notification or request of the server, onStderr, *)
(* onFetchRequest: an event that answers no send.                    *)
UpstreamSpeaks ==
  /\ upstream \in {"starting", "up"}
  /\ produced < MaxEvents
  /\ PushEvent("message", NoSend)
  /\ UNCHANGED <<lifeVars, streamVars, sendVars, authVars>>

(* onerror with an AuthChallengeError: handleTransportAuthError. *)
UpstreamAuthError ==
  /\ upstream \in {"starting", "up"}
  /\ wait' = [m \in Sends |-> IF wait[m] = "pending" THEN "auth" ELSE wait[m]]
  /\ \/ /\ ActiveSends # {}
        /\ suppress' = TRUE
        /\ owed' = TRUE
        /\ UNCHANGED eventVars
     \/ /\ ActiveSends = {}
        /\ suppress
        /\ UNCHANGED <<authVars, eventVars>>
     \/ /\ ActiveSends = {}
        /\ ~suppress
        /\ produced < MaxEvents
        /\ PushEvent("auth_challenge", NoSend)
        /\ UNCHANGED authVars
  /\ UNCHANGED <<lifeVars, streamVars, srv, reply, answered>>

(* The 30 s of AUTH_HTTP_ECHO_SUPPRESS_MS are over. *)
SuppressionExpires ==
  /\ suppress
  /\ suppress' = FALSE
  /\ UNCHANGED <<lifeVars, streamVars, sendVars, owed, eventVars>>

(* Mutation: the end of the upstream is told only to a browser that listens. *)
ClosesQuietly ==
  /\ upstream = "up"
  /\ upstream' = "down"
  /\ transportDead' = (transportDead \/ inMap)
  /\ IF inMap /\ eventConsumer # NoStream
     THEN PushEvent("transport_error", NoSend)
     ELSE UNCHANGED eventVars
  /\ gcTimer' = (gcTimer \/ (inMap /\ eventConsumer = NoStream))
  /\ UNCHANGED <<inMap, closing, streamVars, sendVars, authVars>>

(* onclose of the upstream: tell the browser, and sweep the session later  *)
(* if there is no browser.                                                  *)
UpstreamCloses ==
  /\ upstream = "up"
  /\ upstream' = "down"
  /\ IF inMap
     THEN /\ transportDead' = TRUE
          /\ PushEvent("transport_error", NoSend)
          /\ gcTimer' = (gcTimer \/ eventConsumer = NoStream)
     ELSE UNCHANGED <<transportDead, gcTimer, eventVars>>
  /\ UNCHANGED <<inMap, closing, streamVars, sendVars, authVars>>

GcTimerFires ==
  /\ gcTimer
  /\ gcTimer' = FALSE
  /\ inMap' = (inMap /\ eventConsumer # NoStream)
  /\ UNCHANGED <<upstream, closing, transportDead, streamVars,
                 sendVars, authVars, eventVars>>

(* GET /api/mcp/events: become the consumer and drain the queue.            *)
EventsRequest(s) ==
  /\ held[s] = "no"
  /\ IF inMap
     THEN /\ eventConsumer' = s
          /\ held' = [held EXCEPT ![s] = IF transportDead THEN "flushing" ELSE "held"]
          /\ wire' = [wire EXCEPT ![s] = @ \o eventQueue]
          /\ eventQueue' = <<>>
     ELSE /\ held' = [held EXCEPT ![s] = "refused"]
          /\ UNCHANGED <<eventConsumer, eventQueue, wire>>
  /\ UNCHANGED <<lifeVars, sendVars, authVars, produced>>

(* The dead-session branch of that route, after its yield. *)
EventsFlushed(s) ==
  /\ held[s] = "flushing"
  /\ held' = [held EXCEPT ![s] = "done"]
  /\ eventConsumer' = NoStream
  /\ inMap' = FALSE
  /\ UNCHANGED <<upstream, closing, transportDead, gcTimer,
                 sendVars, authVars, eventVars>>

(* Mutation: the cleanup leaves the consumer installed. *)
AbortKeepsConsumer(s) ==
  /\ held[s] = "held"
  /\ held' = [held EXCEPT ![s] = "done"]
  /\ inMap' = (inMap /\ ~transportDead)
  /\ UNCHANGED <<upstream, closing, transportDead, gcTimer, eventConsumer,
                 sendVars, authVars, eventVars>>

(* The response is aborted: the cleanup given to primeAndHoldSseStream.  It *)
(* clears whatever consumer there is.                                       *)
StreamAborted(s) ==
  /\ held[s] = "held"
  /\ held' = [held EXCEPT ![s] = "done"]
  /\ eventConsumer' = NoStream
  /\ inMap' = (inMap /\ ~transportDead)
  /\ UNCHANGED <<upstream, closing, transportDead, gcTimer,
                 sendVars, authVars, eventVars>>

(* POST /api/mcp/disconnect, one at a time, up to the await of              *)
(* transport.close(), ...                                                   *)
DisconnectArrives ==
  /\ inMap
  /\ closing # "awaited"
  /\ closing' = "awaited"
  /\ eventConsumer' = NoStream
  /\ UNCHANGED <<inMap, upstream, transportDead, gcTimer, held,
                 sendVars, authVars, eventVars>>

(* ... and after it; a killed process may report its end later still.  When *)
(* close() rejected the route throws, and the session stays.                *)
DisconnectReturns ==
  /\ closing = "awaited"
  /\ \/ closing' = "no" /\ inMap' = FALSE
     \/ closing' = "failed" /\ UNCHANGED inMap
  /\ UNCHANGED <<upstream, transportDead, gcTimer, streamVars,
                 sendVars, authVars, eventVars>>

(* The browser takes the next event off its stream. *)
Reads(s) ==
  /\ wire[s] # <<>>
  /\ wire' = [wire EXCEPT ![s] = Tail(@)]
  /\ owed' = (owed /\ Head(wire[s]).type # "auth_challenge")
  /\ UNCHANGED <<lifeVars, streamVars, sendVars, suppress, eventQueue, produced>>

-----------------------------------------------------------------------------
UpstreamNext ==
  \/ TransportStarts
  \/ TransportFailsToStart
  \/ UpstreamSpeaks
  \/ UpstreamAuthError
  \/ UpstreamCloses
  \/ \E m \in Sends : UpstreamAccepts(m) \/ UpstreamRefuses(m) \/ UpstreamAnswers(m)

BackendNext ==
  \/ SuppressionExpires
  \/ GcTimerFires
  \/ DisconnectReturns
  \/ \E m \in Sends : SendReturns(m) \/ WaitTimesOut(m)
  \/ \E s \in Streams : EventsFlushed(s)

BrowserNext ==
  \/ ConnectArrives
  \/ DisconnectArrives
  \/ \E m \in Sends : SendArrives(m)
  \/ \E s \in Streams : EventsRequest(s) \/ StreamAborted(s) \/ Reads(s)

Next == UpstreamNext \/ BackendNext \/ BrowserNext

Spec == Init /\ [][Next]_serverVars

-----------------------------------------------------------------------------
(* Properties. *)

(* Events wait only while nobody consumes them, so that a live event never    *)
(* overtakes a queued one.                                                    *)
QueueOnlyWhileDetached ==
  eventConsumer # NoStream => eventQueue = <<>>

(* The consumer writes to a response that is still open.                      *)
ConsumerIsOpen ==
  eventConsumer # NoStream => held[eventConsumer] \in {"held", "flushing"}

(* What waits is the latest run of events, none of it missing or swapped.     *)
QueueIsLatest ==
  \A i \in 1..Len(eventQueue) : eventQueue[i].n = produced - Len(eventQueue) + i

(* A dead session that nobody consumes, and nobody has disconnected, still    *)
(* holds its transport_error for the consumer to come: a crash during startup *)
(* does not vanish.                                                           *)
DeathIsKept ==
  inMap /\ transportDead /\ closing = "no" /\ eventConsumer = NoStream =>
    \E i \in 1..Len(eventQueue) : eventQueue[i].type = "transport_error"

(* The POST of a request is answered ok only after its MCP response came.     *)
OkMeansAnswered ==
  \A m \in Requests : reply[m] = "ok" => m \in answered

(* What the five rest on: only an upstream that ended leaves a dead session,  *)
(* and a wait is resolved by its response alone.                              *)
WaitsSettleRight ==
  /\ transportDead => upstream = "down"
  /\ \A m \in Sends : wait[m] = "resolved" => m \in answered

SessionInv ==
  /\ QueueOnlyWhileDetached
  /\ ConsumerIsOpen
  /\ QueueIsLatest
  /\ DeathIsKept
  /\ OkMeansAnswered
  /\ WaitsSettleRight
=============================================================================
