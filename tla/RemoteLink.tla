----------------------------- MODULE RemoteLink -----------------------------
(***************************************************************************)
(* The remote transport from end to end: RemoteClientTransport               *)
(* (core/mcp/remote/remoteClientTransport.ts) in the browser, driving the    *)
(* backend session of RemoteSession over HTTP.  Each request the browser     *)
(* makes is in flight until the backend's own action takes it; an answer is  *)
(* in flight until the browser's action takes that.  Any request or stream   *)
(* may be lost, and the backend learns of a stream the browser dropped in    *)
(* its own time.                                                             *)
(***************************************************************************)
EXTENDS RemoteSession

VARIABLES
  stage,     \* of the event stream: "idle", "connecting", "opening", "reading" or "ended"
  closed,    \* closed
  sid,       \* _sessionId is set
  asked,     \* the newest event stream asked for
  abandoned, \* the streams the browser aborted or the network broke
  sent,      \* each send(): "none", "posted", "awaiting", "ok" or "failed"
  sse,       \* its entry in sseResponseWaits: "none", "pending" or how it settled
  retried,   \* the sends posted once more after an auth challenge
  bye,       \* the POST of /api/mcp/disconnect: "none", "posted" or "done"
  seen       \* the number of the last event handled

connVars == <<stage, closed, sid, asked, abandoned>>
postVars == <<sent, sse, retried>>
clientVars == <<connVars, postVars, bye, seen>>
linkVars == <<serverVars, clientVars>>

LinkTypeOK ==
  /\ TypeOK
  /\ stage \in {"idle", "connecting", "opening", "reading", "ended"}
  /\ closed \in BOOLEAN
  /\ sid \in BOOLEAN
  /\ asked \in Streams \union {NoStream}
  /\ abandoned \in SUBSET Streams
  /\ sent \in [Sends -> {"none", "posted", "awaiting", "ok", "failed"}]
  /\ sse \in [Sends -> {"none", "pending", "settled", "cancelled"}]
  /\ retried \in SUBSET Sends
  /\ bye \in {"none", "posted", "done"}
  /\ seen \in Nat

LinkInit ==
  /\ Init
  /\ stage = "idle"
  /\ closed = FALSE
  /\ sid = FALSE
  /\ asked = NoStream
  /\ abandoned = {}
  /\ sent = [m \in Sends |-> "none"]
  /\ sse = [m \in Sends |-> "none"]
  /\ retried = {}
  /\ bye = "none"
  /\ seen = 0

-----------------------------------------------------------------------------
(* start(): POST /api/mcp/connect *)
Start ==
  /\ stage = "idle"
  /\ stage' = "connecting"
  /\ ConnectArrives
  /\ UNCHANGED <<closed, sid, asked, abandoned, postVars, bye, seen>>

(* openEventStream up to its await. *)
AskForStream ==
  /\ asked + 1 \in Streams
  /\ stage' = "opening"
  /\ sid' = TRUE
  /\ asked' = asked + 1

(* The answer to connect: keep the session id and open the event stream,    *)
(* also when close() ran meanwhile.  Or start() throws: the upstream did    *)
(* not start, or the answer was lost.                                       *)
ConnectReplies ==
  /\ stage = "connecting"
  /\ upstream # "starting"
  /\ \/ /\ inMap
        /\ AskForStream
     \/ /\ stage' = "ended"
        /\ UNCHANGED <<sid, asked>>
  /\ UNCHANGED <<closed, abandoned, postVars, bye, seen, serverVars>>

(* The GET of an event stream may arrive long after it was asked for. *)
OpenArrives(s) ==
  /\ s <= asked
  /\ EventsRequest(s)
  /\ UNCHANGED clientVars

(* The GET was answered: read the stream; a 404 forgets the session. *)
OpenReplies ==
  /\ stage = "opening"
  /\ held[asked] # "no"
  /\ stage' = IF held[asked] = "refused" THEN "ended" ELSE "reading"
  /\ sid' = (held[asked] # "refused")
  /\ UNCHANGED <<closed, asked, abandoned, postVars, bye, seen, serverVars>>

(* Mutation: a transport_error is reported but does not close the transport. *)
ReadEventStaysOpen(s) ==
  /\ stage = "reading"
  /\ asked = s
  /\ Reads(s)
  /\ seen' = Head(wire[s]).n
  /\ sse' = [m \in Sends |-> IF m = Head(wire[s]).answers /\ sse[m] = "pending"
                             THEN "settled" ELSE sse[m]]
  /\ UNCHANGED <<stage, closed, sid, asked, abandoned, sent, retried, bye>>

(* consumeEventStream takes the next event.  A response settles its send's  *)
(* wait; a transport_error closes the transport and goes on reading.  Once  *)
(* closed, an event only ends the loop: the connection is not let go.       *)
ReadEvent(s) ==
  /\ stage = "reading"
  /\ asked = s
  /\ Reads(s)
  /\ LET event == Head(wire[s]) IN
       \/ /\ ~closed
          /\ seen' = event.n
          /\ sse' = [m \in Sends |-> IF m = event.answers /\ sse[m] = "pending"
                                     THEN "settled" ELSE sse[m]]
          /\ closed' = (event.type = "transport_error")
          /\ UNCHANGED stage
       \/ /\ closed
          /\ stage' = "ended"
          /\ UNCHANGED <<seen, sse, closed>>
  /\ UNCHANGED <<sid, asked, abandoned, sent, retried, bye>>

(* The backend ended the stream and all of it was read. *)
StreamFinishes ==
  /\ stage = "reading"
  /\ held[asked] = "done"
  /\ wire[asked] = <<>>
  /\ stage' = "ended"
  /\ closed' = TRUE
  /\ UNCHANGED <<sid, asked, abandoned, postVars, bye, seen, serverVars>>

(* The connection breaks while the stream is opened or read. *)
ConnectionLost ==
  /\ stage \in {"opening", "reading"}
  /\ abandoned' = abandoned \union {asked}
  /\ stage' = "ended"
  /\ closed' = (closed \/ stage = "reading")
  /\ UNCHANGED <<sid, asked, postVars, bye, seen, serverVars>>

(* The backend sees that a stream was dropped. *)
AbortArrives(s) ==
  /\ s \in abandoned
  /\ StreamAborted(s)
  /\ UNCHANGED clientVars

(* Mutation: the old stream is not aborted, its reader just dropped. *)
AttachWithoutAbort ==
  /\ stage \in {"reading", "ended"}
  /\ bye = "none"
  /\ asked # NoStream
  /\ closed' = FALSE
  /\ AskForStream
  /\ UNCHANGED <<abandoned, postVars, bye, seen, serverVars>>

(* attachToSession with the id of this session: abort the event stream and  *)
(* open another.                                                            *)
AttachToSession ==
  /\ stage \in {"reading", "ended"}
  /\ bye = "none"
  /\ asked # NoStream
  /\ abandoned' = abandoned \union {asked}
  /\ closed' = FALSE
  /\ AskForStream
  /\ UNCHANGED <<postVars, bye, seen, serverVars>>

CancelledMistyped(w) == IF w = "pending" THEN "rejected" ELSE w  \* mutation

(* cancelSseResponseWait *)
Cancelled(w) == IF w = "pending" THEN "cancelled" ELSE w

(* close(): nothing when closed already, else stop the event stream, if     *)
(* there is one, and take leave of the backend, if its session is known.    *)
Close ==
  /\ stage # "idle"
  /\ ~closed
  /\ closed' = TRUE
  /\ sse' = [m \in Sends |-> Cancelled(sse[m])]
  /\ abandoned' = abandoned \union ({asked} \ {NoStream})
  /\ stage' = IF stage = "connecting" THEN stage ELSE "ended"
  /\ bye' = IF sid THEN "posted" ELSE bye
  /\ sid' = FALSE
  /\ UNCHANGED <<asked, sent, retried, seen, serverVars>>

(* The POST of /api/mcp/disconnect arrives, or fails and is forgotten. *)
ByeArrives ==
  /\ bye = "posted"
  /\ bye' = "done"
  /\ IF inMap THEN DisconnectArrives ELSE UNCHANGED serverVars
  /\ UNCHANGED <<connVars, postVars, seen>>

ByeFails ==
  /\ bye = "posted"
  /\ bye' = "done"
  /\ UNCHANGED <<connVars, postVars, seen, serverVars>>

-----------------------------------------------------------------------------
(* postSend up to the POST: a request registers its wait, and requestSend   *)
(* throws when there is no session to post to.                              *)
PostSend(m) ==
  /\ sent[m] = "none"
  /\ IF sid /\ ~closed
     THEN /\ sent' = [sent EXCEPT ![m] = "posted"]
          /\ sse' = [sse EXCEPT ![m] = IF m \in Requests THEN "pending" ELSE "none"]
     ELSE /\ sent' = [sent EXCEPT ![m] = "failed"]
          /\ UNCHANGED sse
  /\ UNCHANGED <<connVars, retried, bye, seen, serverVars>>

PostArrives(m) ==
  /\ sent[m] = "posted"
  /\ SendArrives(m)
  /\ UNCHANGED clientVars

(* Mutation: a failed POST leaves its wait behind. *)
PostFailsWaiting(m) ==
  /\ sent[m] = "posted"
  /\ sent' = [sent EXCEPT ![m] = "failed"]
  /\ UNCHANGED <<connVars, sse, retried, bye, seen, serverVars>>

(* fetch() rejected: the request or its answer was lost. *)
PostFails(m) ==
  /\ sent[m] = "posted"
  /\ sent' = [sent EXCEPT ![m] = "failed"]
  /\ sse' = [sse EXCEPT ![m] = Cancelled(@)]
  /\ UNCHANGED <<connVars, retried, bye, seen, serverVars>>

(* The HTTP answer.  An ok goes on to await the response on the stream; any *)
(* other cancels that wait.                                                 *)
SendReplies(m) ==
  /\ sent[m] = "posted"
  /\ reply[m] # "none"
  /\ IF reply[m] = "ok"
     THEN /\ sent' = [sent EXCEPT ![m] = IF m \in Requests THEN "awaiting" ELSE "ok"]
          /\ UNCHANGED sse
     ELSE /\ sent' = [sent EXCEPT ![m] = "failed"]
          /\ sse' = [sse EXCEPT ![m] = Cancelled(@)]
  /\ UNCHANGED <<connVars, retried, bye, seen, serverVars>>

(* An auth challenge the recovery satisfied: push the new credentials and   *)
(* post the same message once more, which the upstream sees as a new one.   *)
RetryAfterAuth(m) ==
  /\ sent[m] = "posted"
  /\ reply[m] = "auth_challenge"
  /\ m \notin retried
  /\ sid /\ ~closed
  /\ inMap /\ ~transportDead
  /\ retried' = retried \union {m}
  /\ sse' = [sse EXCEPT ![m] = IF m \in Requests THEN "pending" ELSE "none"]
  /\ srv' = [srv EXCEPT ![m] = "none"]
  /\ wait' = [wait EXCEPT ![m] = "none"]
  /\ reply' = [reply EXCEPT ![m] = "none"]
  /\ answered' = answered \ {m}
  /\ UNCHANGED <<connVars, sent, bye, seen, lifeVars, streamVars, authVars, eventVars>>

(* The 60 s timer of waitForSseResponse *)
SseTimesOut(m) ==
  /\ sse[m] = "pending"
  /\ sse' = [sse EXCEPT ![m] = "cancelled"]
  /\ UNCHANGED <<connVars, sent, retried, bye, seen, serverVars>>

(* Mutation: a cancelled wait is dropped without rejecting its promise. *)
AwaitReturnsSettled(m) ==
  /\ sent[m] = "awaiting"
  /\ sse[m] = "settled"
  /\ sent' = [sent EXCEPT ![m] = "ok"]
  /\ UNCHANGED <<connVars, sse, retried, bye, seen, serverVars>>

(* The await of the response on the stream is over. *)
AwaitReturns(m) ==
  /\ sent[m] = "awaiting"
  /\ sse[m] \in {"settled", "cancelled"}
  /\ sent' = [sent EXCEPT ![m] = IF sse[m] = "settled" THEN "ok" ELSE "failed"]
  /\ UNCHANGED <<connVars, sse, retried, bye, seen, serverVars>>

-----------------------------------------------------------------------------
BackendStep == (UpstreamNext \/ BackendNext) /\ UNCHANGED clientVars

StreamStep ==
  \/ Start
  \/ ConnectReplies
  \/ OpenReplies
  \/ StreamFinishes
  \/ ConnectionLost
  \/ AttachToSession
  \/ Close
  \/ ByeArrives
  \/ ByeFails
  \/ \E s \in Streams : OpenArrives(s) \/ ReadEvent(s) \/ AbortArrives(s)

SendStep(m) ==
  \/ PostSend(m)
  \/ PostArrives(m)
  \/ PostFails(m)
  \/ SendReplies(m)
  \/ RetryAfterAuth(m)
  \/ SseTimesOut(m)
  \/ AwaitReturns(m)

LinkNext == BackendStep \/ StreamStep \/ \E m \in Sends : SendStep(m)

LinkSpec == LinkInit /\ [][LinkNext]_linkVars

(***************************************************************************)
(* Fairness.  What both programs do by themselves: timers fire, requests    *)
(* arrive and are answered or fail, the browser reads what reaches it, the  *)
(* backend notices a broken connection, and an awaited upstream start,      *)
(* send or close settles.  The upstream owes no answer to a request, and    *)
(* nobody has to close anything.                                            *)
(***************************************************************************)
LinkFairness ==
  /\ WF_linkVars(ConnectReplies)
  /\ WF_linkVars(OpenReplies)
  /\ WF_linkVars(StreamFinishes)
  /\ WF_linkVars(ByeArrives \/ ByeFails)
  /\ WF_linkVars(DisconnectReturns /\ UNCHANGED clientVars)
  /\ WF_linkVars((TransportStarts \/ TransportFailsToStart) /\ UNCHANGED clientVars)
  /\ WF_linkVars(GcTimerFires /\ UNCHANGED clientVars)
  /\ \A s \in Streams :
       /\ WF_linkVars(s \notin abandoned /\ OpenArrives(s))
       /\ WF_linkVars(ReadEvent(s))
       /\ WF_linkVars(AbortArrives(s))
       /\ WF_linkVars(EventsFlushed(s) /\ UNCHANGED clientVars)
  /\ \A m \in Sends :
       /\ WF_linkVars(PostArrives(m))
       /\ WF_linkVars((UpstreamAccepts(m) \/ UpstreamRefuses(m)) /\ UNCHANGED clientVars)
       /\ WF_linkVars(SendReturns(m) /\ UNCHANGED clientVars)
       /\ WF_linkVars(WaitTimesOut(m) /\ UNCHANGED clientVars)
       /\ WF_linkVars(SendReplies(m))
       /\ WF_linkVars(SseTimesOut(m))
       /\ WF_linkVars(AwaitReturns(m))

FairLinkSpec == LinkSpec /\ LinkFairness

-----------------------------------------------------------------------------
(* Properties. *)

(* The channel of events the two ends promise between them: in order, each   *)
(* at most once, and none skipped until a stream was aborted or broken.      *)
Channel == INSTANCE EventChannel WITH lossy <- abandoned # {}
EventsInOrder == Channel!Spec

(* No wait outlives its send: a request that failed, by whatever path, left  *)
(* nothing in sseResponseWaits, and one that succeeded had its response read. *)
WaitsMatchSends ==
  \A m \in Requests :
    /\ sse[m] = "pending" => sent[m] \in {"posted", "awaiting"}
    /\ sent[m] = "ok" => sse[m] = "settled"

(* Every send() settles, whatever was lost or closed in its way. *)
SendsSettle == \A m \in Sends : sent[m] = "posted" ~> sent[m] \in {"ok", "failed"}

(* The browser learns of the death of its upstream, at the latest when its    *)
(* stream ends, unless it attaches once more.                                 *)
DeathReachesBrowser == transportDead /\ ~closed ~> closed \/ stage = "ended"

(* A transport that has closed leaves no session behind that it ever knew,    *)
(* unless the POST of /api/mcp/disconnect was lost: the backend keeps a dead  *)
(* session for the client to disconnect, and connect() closes a transport     *)
(* that took too long so that the upstream does not hang.                     *)
ClosedSessionEnds == closed /\ asked # NoStream ~> ~inMap \/ bye = "done"

(* An upstream auth error the session swallows reaches the browser, unless    *)
(* its stream ends or a send fails.                                           *)
AuthErrorDelivered ==
  owed /\ stage = "reading" ~>
    ~owed \/ stage # "reading" \/ \E m \in Sends : sent[m] = "failed"
=============================================================================
