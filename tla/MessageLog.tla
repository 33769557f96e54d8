----------------------------- MODULE MessageLog -----------------------------
(***************************************************************************)
(* The Protocol log of one client (core/mcp/state/messageLogState.ts): the *)
(* frames MessageTrackingTransport reports, each response folded into the  *)
(* request it answers, the oldest dropped at the cap.  Both peers number   *)
(* their own requests from 1, and the log matches by number alone.         *)
(*                                                                         *)
(* A response the client refuses to decode is marked in the log.  Of the   *)
(* requests only those of one method are modelled, the one whose refused   *)
(* list salvageList walks again (inspectorClient.ts).                      *)
(***************************************************************************)
EXTENDS ClientSession, Selection, SequencesExt

CONSTANTS
  Cap,        \* maxMessages
  MaxClient,  \* bound: requests the client sends
  MaxServer,  \* bound: requests the server sends in a session
  MaxNotices  \* bound: notifications of the server

ASSUME MessageLogAssumption ==
  /\ Cap \in Nat \ {0}
  /\ MaxClient \in Nat /\ MaxServer \in Nat /\ MaxNotices \in Nat

Sides == {"client", "server"}
MessageIds == 1..(IF MaxClient > MaxServer THEN MaxClient ELSE MaxServer)

(* A MessageEntry.  A request and the answer folded into it, whoever sent   *)
(* it; `of` tells apart what different sessions numbered alike.             *)
Entries ==
  [dir : {"request", "response", "notification"}, by : Sides, id : {0} \union MessageIds,
   of : 1..MaxSessions, answer : Sides \union {"none"}, rejected : BOOLEAN]

(* What an id leads to: the request of a side in a session, and whether the *)
(* log had to let it go (history).                                          *)
Leads == [by : Sides, of : 1..MaxSessions, evicted : BOOLEAN]

VARIABLES
  messages,  \* messages
  pending,   \* pendingRequestEntries: the entry each id leads to, or nothing
  awaited,   \* per side, the ids of its requests in flight
  sent,      \* per side, the id of its last request
  noted,     \* notifications so far
  last,      \* lastAnsweredRequestByMethod, or 0
  salvage,   \* the refused response, and the request that lists once more
  refused,   \* history: the responses the client refused
  hidden     \* history: a response went to an entry that was cleared away

logStoreVars == <<messages, pending>>
trafficVars == <<awaited, sent, noted>>
logVars == <<logStoreVars, trafficVars, last, salvage, refused, hidden>>

Nobody == [by |-> "none"]
NoSalvage == [refused |-> 0, walk |-> 0]

Shown(log, lead, id) ==
  {i \in DOMAIN log :
     log[i].dir = "request" /\ log[i].id = id /\ log[i].by = lead.by /\ log[i].of = lead.of}

LogTypeOK ==
  /\ messages \in Seq(Entries) /\ Len(messages) <= Cap
  /\ pending \in [MessageIds -> Leads \union {Nobody}]
  /\ awaited \in [Sides -> SUBSET MessageIds]
  /\ sent \in [Sides -> {0} \union MessageIds] /\ noted \in 0..MaxNotices
  /\ last \in {0} \union MessageIds
  /\ salvage \in [refused : {0} \union MessageIds, walk : {0} \union MessageIds]
  /\ refused \subseteq MessageIds
  /\ hidden \in BOOLEAN

LogInit ==
  /\ SessionInit
  /\ messages = <<>> /\ pending = [i \in MessageIds |-> Nobody]
  /\ awaited = [p \in Sides |-> {}] /\ sent = [p \in Sides |-> 0] /\ noted = 0
  /\ last = 0 /\ salvage = NoSalvage
  /\ refused = {} /\ hidden = FALSE

-----------------------------------------------------------------------------
(* The store, as a record its handlers pass on. *)
Store == [log |-> messages, pending |-> pending, hidden |-> hidden]
StoreBecomes(s) == messages' = s.log /\ pending' = s.pending /\ hidden' = s.hidden

NewEntry(dir, by, id) ==
  [dir |-> dir, by |-> by, id |-> id, of |-> session, answer |-> "none", rejected |-> FALSE]

(* pushEntry: the request that makes room stays in `pending`. *)
Push(s, e) ==
  IF Len(s.log) < Cap THEN [s EXCEPT !.log = Append(@, e)]
  ELSE [s EXCEPT !.log = Append(Tail(@), e),
                 !.pending = [id \in MessageIds |->
                   IF @[id] # Nobody /\ 1 \in Shown(s.log, @[id], id)
                   THEN [@[id] EXCEPT !.evicted = TRUE] ELSE @[id]]]

OnRequest(s, by, id) ==
  [Push(s, NewEntry("request", by, id)) EXCEPT
     !.pending[id] = [by |-> by, of |-> session, evicted |-> FALSE]]

(* A response is folded into the request its id leads to, in the log or     *)
(* not; one that answers nothing known is an entry of its own.              *)
OnResponse(s, by, id) ==
  LET lead == s.pending[id] IN
  IF lead = Nobody THEN Push(s, NewEntry("response", by, id))
  ELSE [log |-> [i \in DOMAIN s.log |->
                   IF i \in Shown(s.log, lead, id) THEN [s.log[i] EXCEPT !.answer = by]
                   ELSE s.log[i]],
        pending |-> [s.pending EXCEPT ![id] = Nobody],
        hidden |-> s.hidden \/ (~lead.evicted /\ Shown(s.log, lead, id) = {})]

(* onResponseRejected: the newest entry of that id that holds a response. *)
OnRejected(s, id) ==
  LET held == {i \in DOMAIN s.log :
                 /\ s.log[i].id = id
                 /\ s.log[i].dir = "response" \/ s.log[i].answer # "none"}
  IN IF held = {} THEN s
     ELSE LET newest == CHOOSE i \in held : \A j \in held : j <= i
          IN [s EXCEPT !.log[newest].rejected = TRUE]

-----------------------------------------------------------------------------
(* What the peers send. *)

(* A request of peer p, tracked before it is handed to the transport. *)
Sends(p) == sent[p] + 1

ClientRequests ==
  /\ Connected /\ sent["client"] < MaxClient
  /\ StoreBecomes(OnRequest(Store, "client", Sends("client")))
  /\ sent' = [sent EXCEPT !["client"] = @ + 1]
  /\ awaited' = [awaited EXCEPT !["client"] = @ \union {Sends("client")}]
  /\ UNCHANGED <<sessionVars, noted, last, salvage, refused>>

ServerRequests ==
  /\ wire /\ sent["server"] < MaxServer
  /\ StoreBecomes(OnRequest(Store, "server", Sends("server")))
  /\ sent' = [sent EXCEPT !["server"] = @ + 1]
  /\ awaited' = [awaited EXCEPT !["server"] = @ \union {Sends("server")}]
  /\ UNCHANGED <<sessionVars, noted, last, salvage, refused>>

ServerNotifies ==
  /\ wire /\ noted < MaxNotices
  /\ StoreBecomes(Push(Store, NewEntry("notification", "server", 0)))
  /\ noted' = noted + 1
  /\ UNCHANGED <<sessionVars, awaited, sent, last, salvage, refused>>

ClientResponds(id) ==
  /\ wire /\ id \in awaited["server"]
  /\ StoreBecomes(OnResponse(Store, "client", id))
  /\ awaited' = [awaited EXCEPT !["server"] = @ \ {id}]
  /\ UNCHANGED <<sessionVars, sent, noted, last, salvage, refused>>

(* A response the client accepts. *)
ServerResponds(id) ==
  /\ wire /\ id \in awaited["client"] /\ id # salvage.walk
  /\ StoreBecomes(OnResponse(Store, "server", id))
  /\ awaited' = [awaited EXCEPT !["client"] = @ \ {id}]
  /\ last' = id
  /\ UNCHANGED <<sessionVars, sent, noted, salvage, refused>>

(* A response the client refuses for good: ManagedListState.refresh has it  *)
(* marked in the microtask after.                                           *)
ServerRespondsRefused(id) ==
  /\ wire /\ id \in awaited["client"] /\ id # salvage.walk
  /\ StoreBecomes(OnRejected(OnResponse(Store, "server", id), id))
  /\ awaited' = [awaited EXCEPT !["client"] = @ \ {id}]
  /\ last' = id
  /\ refused' = refused \union {id}
  /\ UNCHANGED <<sessionVars, sent, noted, salvage>>

(* A refused list that may be salvaged: keep its id, and list once more. *)
ServerRespondsSalvageable(id) ==
  /\ Connected /\ id \in awaited["client"] /\ salvage = NoSalvage
  /\ sent["client"] < MaxClient
  /\ StoreBecomes(OnRequest(OnResponse(Store, "server", id), "client", Sends("client")))
  /\ sent' = [sent EXCEPT !["client"] = @ + 1]
  /\ awaited' = [awaited EXCEPT !["client"] = (@ \ {id}) \union {Sends("client")}]
  /\ last' = id
  /\ salvage' = [refused |-> id, walk |-> Sends("client")]
  /\ refused' = refused \union {id}
  /\ UNCHANGED <<sessionVars, noted>>

(* Mutation: the response that answered the method last is marked. *)
SalvageEndsOnLast ==
  /\ wire /\ salvage.walk \in awaited["client"]
  /\ StoreBecomes(OnRejected(OnResponse(Store, "server", salvage.walk), salvage.walk))
  /\ awaited' = [awaited EXCEPT !["client"] = @ \ {salvage.walk}]
  /\ last' = salvage.walk
  /\ salvage' = NoSalvage
  /\ UNCHANGED <<sessionVars, sent, noted, refused>>

(* The second list is answered: what it explains or leaves unexplained is   *)
(* the first response's refusal, and unexplained it is the last answer      *)
(* again (restoreResponseCorrelation).                                      *)
SalvageEnds ==
  /\ wire /\ salvage.walk \in awaited["client"]
  /\ StoreBecomes(OnRejected(OnResponse(Store, "server", salvage.walk), salvage.refused))
  /\ awaited' = [awaited EXCEPT !["client"] = @ \ {salvage.walk}]
  /\ last' \in {salvage.walk, salvage.refused}
  /\ salvage' = NoSalvage
  /\ UNCHANGED <<sessionVars, sent, noted, refused>>

-----------------------------------------------------------------------------
(* What the user and the session do. *)

(* Mutation: the ids of the entries removed still lead to them. *)
ClearMessagesKeepsPending(keep) ==
  /\ messages' = Only(messages, keep)
  /\ UNCHANGED <<sessionVars, pending, trafficVars, last, salvage, refused, hidden>>

(* clearMessages: all but the pinned entries, say. *)
ClearMessages(keep) ==
  /\ messages' = Only(messages, keep)
  /\ pending' = [id \in MessageIds |->
       IF pending[id] # Nobody /\ Shown(messages', pending[id], id) # {}
       THEN pending[id] ELSE Nobody]
  /\ UNCHANGED <<sessionVars, trafficVars, last, salvage, refused, hidden>>

(* A terminal statusChange empties the store, but for its history. *)
DropLog ==
  /\ messages' = <<>> /\ pending' = [i \in MessageIds |-> Nobody]
  /\ UNCHANGED hidden

(* Frames in flight on a transport that closed are gone, and the salvage    *)
(* walk among them fails; a new transport reaches a server that counts anew.*)
LogOpens ==
  /\ SessionOpens
  /\ last' = 0
  /\ sent' = IF wire THEN sent ELSE [sent EXCEPT !["server"] = 0]
  /\ UNCHANGED <<logStoreVars, awaited, noted, salvage, refused, hidden>>

LogAnnounced == SessionAnnounced /\ UNCHANGED logVars

LogCloses ==
  /\ SessionCloses
  /\ IF status' # status THEN DropLog ELSE UNCHANGED <<logStoreVars, hidden>>
  /\ awaited' = [p \in Sides |-> {}]
  /\ salvage' = NoSalvage
  /\ UNCHANGED <<sent, noted, last, refused>>

LogErrs ==
  /\ SessionErrs
  /\ DropLog
  /\ UNCHANGED <<trafficVars, last, salvage, refused>>

LogNext ==
  \/ ClientRequests \/ ServerRequests \/ ServerNotifies
  \/ \E id \in MessageIds : \/ ClientResponds(id) \/ ServerResponds(id)
                     \/ ServerRespondsRefused(id) \/ ServerRespondsSalvageable(id)
  \/ SalvageEnds
  \/ \E keep \in SUBSET ToSet(messages) : keep # ToSet(messages) /\ ClearMessages(keep)
  \/ LogOpens \/ LogAnnounced \/ LogCloses \/ LogErrs

LogSpec == LogInit /\ [][LogNext]_<<sessionVars, logVars>>

-----------------------------------------------------------------------------
(* Properties. *)

(* No response vanishes: it is shown in the entry of a request that is in   *)
(* the log or on its own, unless the request had left the log at its cap.   *)
(* (clearMessages drops what `pending` knows of the entries it removes.)    *)
NothingHidden == ~hidden

(* What is marked as refused carries the number of a response the client    *)
(* did refuse, and never that of the list that was read instead             *)
(* (salvageList keeps the id before it lists once more).                    *)
MarksTheRefused ==
  \A i \in DOMAIN messages : messages[i].rejected => messages[i].id \in refused

-----------------------------------------------------------------------------
(* What a comment of the code claims, and a run refutes *)

(* messageLogState folds a response "back into the originating request":    *)
(* the answer in an entry is of the peer that did not ask.                  *)
AnswersItsPeer ==
  \A i \in DOMAIN messages : messages[i].answer # messages[i].by
=============================================================================
