--------------------------- MODULE RequestorTasks ----------------------------
(***************************************************************************)
(* The tasks this client created on the server: the list the Tasks screen  *)
(* shows (core/mcp/state/managedRequestorTasksState.ts), the calls that     *)
(* poll a task until it ends, and the Cancel button (inspectorClient.ts).   *)
(* Legacy servers page the list with tasks/list and may announce a status;  *)
(* modern ones are asked task by task, and pause a task for the user's      *)
(* input.                                                                   *)
(***************************************************************************)
EXTENDS ClientSession, Selection, FiniteSetsExt

CONSTANTS
  MaxTasks,  \* bound: tasks the client creates
  Walks,     \* bound: refreshes in flight at once
  MaxStirs,  \* bound: sessions, refreshes, clears, cancels and failures together
  MaxNotes   \* bound: status notifications in flight

ASSUME RequestorTasksAssumption ==
  /\ MaxTasks \in Nat /\ MaxStirs \in Nat /\ MaxNotes \in Nat

Tasks == 1..MaxTasks  \* in the order they are created, which is the server's
Ended == {"completed", "failed", "cancelled"}
Statuses == Ended \union {"working", "input_required"}

VARIABLES
  modern,    \* isTasksExtensionNegotiated(); fixed
  server,    \* status of every task on the server; "none" before, "gone" after it
  notes,     \* notifications/tasks/status on their way, oldest first
  stirs,     \* refreshes, clears, cancels and failures so far
  list,      \* ManagedRequestorTasksState.tasks
  dismissed, \* dismissedTaskIds
  stuck,     \* cancelledTaskIds of the store
  marked,    \* cancelledTaskIds of the client
  walks,     \* refreshes in flight
  poll,      \* the call that polls each task
  cancel,    \* the tasks/cancel of each task
  doubled    \* history: the list held a task twice since it was last emptied

taskServerVars == <<modern, server>>
storeVars == <<list, dismissed, stuck, doubled>>
taskVars == <<taskServerVars, notes, stirs, storeVars, marked, walks, poll, cancel>>

Row(t, s) == [id |-> t, status |-> s]
Rows == [id : Tasks, status : Statuses]
Idle == [phase |-> "idle", ids |-> <<>>, at |-> 0, page |-> <<>>]
Asking(ids, at) == [phase |-> "asked", ids |-> ids, at |-> at, page |-> <<>>]
NoPoll == [phase |-> "none", got |-> "none", aborted |-> FALSE]

TasksTypeOK ==
  /\ modern \in BOOLEAN /\ doubled \in BOOLEAN
  /\ server \in [Tasks -> Statuses \union {"none", "gone"}]
  /\ notes \in Seq(Rows) /\ Len(notes) <= MaxNotes
  /\ stirs \in 0..MaxStirs
  /\ list \in Seq(Rows)
  /\ dismissed \subseteq Tasks /\ stuck \subseteq Tasks /\ marked \subseteq Tasks
  /\ walks \in [1..Walks -> [phase : {"idle", "asked", "answered"}, ids : Seq(Tasks),
                             at : 0..MaxTasks, page : Seq(Rows)]]
  /\ poll \in [Tasks -> [phase : {"none", "called", "asleep", "answered", "input",
                                  "result"},
                         got : Statuses \union {"none"}, aborted : BOOLEAN]]
  /\ cancel \in [Tasks -> {"none", "asked", "acked", "refused"}]

TasksInit ==
  /\ SessionInit
  /\ modern \in BOOLEAN
  /\ server = [t \in Tasks |-> "none"] /\ notes = <<>> /\ stirs = 0
  /\ list = <<>> /\ dismissed = {} /\ stuck = {} /\ doubled = FALSE /\ marked = {}
  /\ walks = [w \in 1..Walks |-> Idle]
  /\ poll = [t \in Tasks |-> NoPoll]
  /\ cancel = [t \in Tasks |-> "none"]

-----------------------------------------------------------------------------
At(l, t) == {i \in DOMAIN l : l[i].id = t}
Ids(l) == {l[i].id : i \in DOMAIN l}
Stir == session + stirs < MaxStirs
Stirred == Stir /\ stirs' = stirs + 1

(* mergeTaskIntoList: replace the first row of the task, or put one in front. *)
Merged(l, t, s) ==
  IF At(l, t) = {} THEN <<Row(t, s)>> \o l
  ELSE [l EXCEPT ![Min(At(l, t))].status = s]

(* Mutation: a late status update undoes a cancel. *)
UpdatedOverCancel(l, t, s) ==
  IF t \in dismissed THEN l ELSE Merged(l, t, s)

(* onTaskStatusChange and onRequestorTaskUpdated. *)
Updated(l, t, s) ==
  IF t \in dismissed \/ (t \in stuck /\ s # "cancelled") THEN l ELSE Merged(l, t, s)

Listing(l) ==
  /\ list' = l
  /\ doubled' = (doubled \/ \E t \in Tasks : Cardinality(At(l, t)) > 1)

(* Mutation: a task the server dropped is still listed. *)
ListedForever == Only([i \in Tasks |-> i], {t \in Tasks : server[t] # "none"})

(* The server lists the tasks it still holds, the oldest first. *)
Listed == Only([i \in Tasks |-> i], {t \in Tasks : server[t] \notin {"none", "gone"}})

(* Mutation: a page is taken as the server sent it. *)
KeptUnfiltered(page) == page

(* A page of tasks/list without the cleared tasks, the cancelled ones pinned. *)
Kept(page) ==
  LET rows == Only(page, {r \in Rows : r.id \notin dismissed})
  IN [i \in DOMAIN rows |->
        IF rows[i].id \in stuck THEN Row(rows[i].id, "cancelled") ELSE rows[i]]

(* A terminal statusChange of the client. *)
DropTasks ==
  /\ list' = <<>> /\ dismissed' = {} /\ stuck' = {} /\ doubled' = FALSE

(* The requests in flight are rejected.  A call asleep between two polls goes *)
(* on, one that waits for the user's input ends with its pending request.     *)
InFlight == {"called", "answered", "result"}
Rejected(phases) ==
  poll' = [t \in Tasks |-> IF poll[t].phase \in phases THEN NoPoll ELSE poll[t]]
AllRejected ==
  /\ walks' = [w \in 1..Walks |-> Idle]
  /\ Rejected(InFlight \union {"input"})
  /\ cancel' = [t \in Tasks |-> "none"]

-----------------------------------------------------------------------------
(* connect(): resetSessionState forgets the cancels, and what was asked over *)
(* a transport that an onerror left behind is rejected on the modern era only. *)
TasksOpen ==
  /\ SessionOpens /\ Stir
  /\ marked' = {}
  /\ IF modern \/ ~wire
     THEN AllRejected
     ELSE Rejected({"input"}) /\ UNCHANGED <<walks, cancel>>
  /\ notes' = IF wire THEN notes ELSE <<>>
  /\ \/ UNCHANGED server
     \/ server' = [t \in Tasks |-> IF server[t] = "none" THEN "none" ELSE "gone"]
  /\ UNCHANGED <<modern, stirs, storeVars>>

(* refresh(): a modern one asks again for every task it knows; a legacy one  *)
(* empties the list and asks for the first page.                             *)
WalkStarts(w) ==
  /\ walks[w] = Idle
  /\ IF modern
     THEN /\ walks' = IF list = <<>> THEN walks
                      ELSE [walks EXCEPT ![w] = Asking([i \in DOMAIN list |-> list[i].id], 0)]
          /\ UNCHANGED <<list, doubled>>
     ELSE /\ walks' = [walks EXCEPT ![w] = Asking(<<>>, 0)]
          /\ Listing(<<>>)

TasksAnnounced ==
  /\ SessionAnnounced
  /\ \E w \in 1..Walks : WalkStarts(w)
  /\ UNCHANGED <<taskServerVars, notes, stirs, dismissed, stuck, marked, poll, cancel>>

(* onclose, which holds an "error" status, or disconnect(). *)
TasksClose ==
  /\ SessionCloses
  /\ IF status' # status THEN DropTasks ELSE UNCHANGED storeVars
  /\ marked' \in {marked, {}}
  /\ AllRejected
  /\ notes' = <<>>
  /\ UNCHANGED <<taskServerVars, stirs>>

TasksErr ==
  /\ SessionErrs
  /\ DropTasks
  /\ UNCHANGED <<taskServerVars, notes, stirs, marked, walks, poll, cancel>>

-----------------------------------------------------------------------------
(* A legacy server with capabilities.tasks may announce a status. *)
Tells(t, s) ==
  notes' \in {notes} \union
    IF modern \/ Len(notes) = MaxNotes THEN {} ELSE {Append(notes, Row(t, s))}

(* The poll of task t goes on, aborted or not as it was. *)
Polling(t, phase, got) == [phase |-> phase, got |-> got, aborted |-> poll[t].aborted]

(* callToolStream of a task-augmented call: the server creates the task.     *)
(* "Tool calls are user-driven and serial."                                  *)
CallTool(t) ==
  /\ Connected /\ server[t] = "none"
  /\ \A u \in Tasks : poll[u] = NoPoll
  /\ \A u \in 1..(t - 1) : server[u] # "none"
  /\ server' = [server EXCEPT ![t] = "working"]
  /\ poll' = [poll EXCEPT ![t] = Polling(t, "called", "working")]
  /\ Tells(t, "working")
  /\ UNCHANGED <<sessionVars, modern, stirs, storeVars, marked, walks, cancel>>

(* The task goes on at the server, and ends once. *)
ServerMoves(t, s) ==
  /\ wire
  /\ server[t] \in {"working", "input_required"} /\ s # server[t]
  /\ s \in {"completed", "failed"} \/ (s = "input_required" /\ modern)
  /\ server' = [server EXCEPT ![t] = s]
  /\ Tells(t, s)
  /\ UNCHANGED <<sessionVars, modern, stirs, storeVars, marked, walks, poll, cancel>>

NoteReaches ==
  /\ wire /\ notes # <<>>
  /\ Listing(Updated(list, Head(notes).id, Head(notes).status))
  /\ notes' = Tail(notes)
  /\ UNCHANGED <<sessionVars, taskServerVars, stirs, dismissed, stuck, marked,
                 walks, poll, cancel>>

-----------------------------------------------------------------------------
(* What the loop of pollTaskToolCall does next with a task in status s: it  *)
(* waits for the user's input, unless a cancel has aborted that, or sleeps. *)
Continued(t, s) ==
  IF s # "input_required" THEN Polling(t, "asleep", "none")
  ELSE IF poll[t].aborted THEN NoPoll
  ELSE Polling(t, "input", "none")

(* taskCreated: the handle of the task arrives. *)
HandleArrives(t) ==
  /\ wire /\ poll[t].phase = "called"
  /\ Listing(Updated(list, t, poll[t].got))
  /\ poll' = [poll EXCEPT ![t] = Continued(t, poll[t].got)]
  /\ UNCHANGED <<sessionVars, taskServerVars, notes, stirs, dismissed, stuck, marked,
                 walks, cancel>>

(* The poll interval is over, and the server reads the task for tasks/get.   *)
(* The loop has no session of its own.                                       *)
PollAnswered(t) ==
  /\ wire /\ poll[t].phase = "asleep" /\ server[t] # "gone"
  /\ poll' = [poll EXCEPT ![t] = Polling(t, "answered", server[t])]
  /\ UNCHANGED <<sessionVars, taskServerVars, notes, stirs, storeVars, marked, walks, cancel>>

(* The terminal status a stream that ends with an error reports. *)
Label(t) == IF t \in marked THEN "cancelled" ELSE "failed"

(* taskStatus, and after a terminal one the outcome of the call: a legacy    *)
(* result is fetched first, an error is labelled and consumes the mark.      *)
PollReturns(t) ==
  LET s == poll[t].got
      seen == Updated(list, t, s)
  IN /\ wire /\ poll[t].phase = "answered"
     /\ \/ /\ s \in {"failed", "cancelled"}
           /\ Listing(Updated(seen, t, Label(t)))
           /\ marked' = marked \ {t}
           /\ poll' = [poll EXCEPT ![t] = NoPoll]
        \/ /\ s = "completed"
           /\ Listing(seen)
           /\ poll' = [poll EXCEPT ![t] = IF modern THEN NoPoll
                                          ELSE Polling(t, "result", s)]
           /\ UNCHANGED marked
        \/ /\ s \notin Ended
           /\ Listing(seen)
           /\ poll' = [poll EXCEPT ![t] = Continued(t, s)]
           /\ UNCHANGED marked
     /\ UNCHANGED <<sessionVars, taskServerVars, notes, stirs, dismissed, stuck, walks, cancel>>

(* The payload of tasks/result: the task is reported completed once more. *)
ResultReturns(t) ==
  /\ wire /\ poll[t].phase = "result"
  /\ Listing(Updated(list, t, "completed"))
  /\ poll' = [poll EXCEPT ![t] = NoPoll]
  /\ UNCHANGED <<sessionVars, taskServerVars, notes, stirs, dismissed, stuck, marked,
                 walks, cancel>>

(* A request of the call fails: it throws, and reports nothing of the task. *)
PollFails(t) ==
  /\ poll[t].phase \in {"called", "asleep", "result"} /\ Stirred
  /\ poll' = [poll EXCEPT ![t] = NoPoll]
  /\ UNCHANGED <<sessionVars, taskServerVars, notes, storeVars, marked, walks, cancel>>

(* The user answers; tasks/update takes the task on, at once or later. *)
InputSubmitted(t) ==
  /\ wire /\ poll[t].phase = "input"
  /\ server' = [server EXCEPT ![t] = IF @ = "input_required" THEN "working" ELSE @]
  /\ poll' = [poll EXCEPT ![t].phase = "asleep"]
  /\ UNCHANGED <<sessionVars, modern, notes, stirs, storeVars, marked, walks, cancel>>

-----------------------------------------------------------------------------
(* Mutation: a cancel leaves the wait for the user's input open. *)
UserCancelsPaused(t) ==
  /\ Connected /\ cancel[t] = "none" /\ Stirred
  /\ \/ \E i \in At(list, t) : list[i].status \notin Ended
     \/ poll[t].phase \notin {"none", "called"}
  /\ marked' = marked \union {t}
  /\ cancel' = [cancel EXCEPT ![t] = "asked"]
  /\ UNCHANGED <<sessionVars, taskServerVars, notes, storeVars, walks, poll>>

(* cancelRequestorTask of a task shown as active or still being polled: mark *)
(* it, end a wait for the user's input, ask the server.                      *)
UserCancels(t) ==
  /\ Connected /\ cancel[t] = "none" /\ Stirred
  /\ \/ \E i \in At(list, t) : list[i].status \notin Ended
     \/ poll[t].phase \notin {"none", "called"}
  /\ marked' = marked \union {t}
  /\ poll' = [poll EXCEPT ![t] =
                IF @.phase = "input" THEN NoPoll
                ELSE IF modern /\ @.phase \notin {"none", "called"}
                     THEN [@ EXCEPT !.aborted = TRUE] ELSE @]
  /\ cancel' = [cancel EXCEPT ![t] = "asked"]
  /\ UNCHANGED <<sessionVars, taskServerVars, notes, storeVars, walks>>

(* Cancellation is cooperative: a server may accept it and go on; it refuses *)
(* to cancel a task that ended or that it does not know.                     *)
CancelHandled(t) ==
  /\ wire /\ cancel[t] = "asked"
  /\ \/ /\ server[t] \in {"working", "input_required"}
        /\ cancel' = [cancel EXCEPT ![t] = "acked"]
        /\ \/ server' = [server EXCEPT ![t] = "cancelled"] /\ Tells(t, "cancelled")
           \/ UNCHANGED <<server, notes>>
     \/ /\ server[t] \in Ended \union {"gone"}
        /\ cancel' = [cancel EXCEPT ![t] = "refused"]
        /\ UNCHANGED <<server, notes>>
  /\ UNCHANGED <<sessionVars, modern, stirs, storeVars, marked, walks, poll>>

(* onTaskCancelled: the store remembers the cancel and pins the row. *)
CancelReturns(t) ==
  /\ wire /\ cancel[t] \in {"acked", "refused"}
  /\ cancel' = [cancel EXCEPT ![t] = "none"]
  /\ IF cancel[t] = "refused" \/ t \in dismissed
     THEN UNCHANGED <<list, stuck, doubled>>
     ELSE /\ stuck' = stuck \union {t}
          /\ Listing(IF At(list, t) = {} THEN list ELSE Merged(list, t, "cancelled"))
  /\ UNCHANGED <<sessionVars, taskServerVars, notes, stirs, dismissed, marked, walks, poll>>

-----------------------------------------------------------------------------
(* The Refresh button, or notifications/tasks/list_changed. *)
RefreshTasks(w) ==
  /\ Connected /\ Stirred
  /\ WalkStarts(w)
  /\ UNCHANGED <<sessionVars, taskServerVars, notes, dismissed, stuck, marked, poll, cancel>>

(* The server reads the next page, or the next task. *)
WalkAnswered(w) ==
  LET known == Listed
      t == Head(walks[w].ids)
      page == IF modern
              THEN IF server[t] \in Statuses THEN <<Row(t, server[t])>> ELSE <<>>
              ELSE IF walks[w].at < Len(known)
                   THEN LET k == known[walks[w].at + 1] IN <<Row(k, server[k])>>
                   ELSE <<>>
  IN /\ wire /\ walks[w].phase = "asked"
     /\ walks' = [walks EXCEPT ![w] =
                    [phase |-> "answered", at |-> walks[w].at, page |-> page,
                     ids |-> IF modern THEN Tail(walks[w].ids)
                             ELSE SubSeq(known, walks[w].at + 2, Len(known))]]
     /\ UNCHANGED <<sessionVars, taskServerVars, notes, stirs, storeVars, marked, poll, cancel>>

(* The page is taken into the list, and the walk goes on while there is more. *)
WalkCommits(w) ==
  LET step == walks[w]
  IN /\ wire /\ step.phase = "answered"
     /\ Listing(IF modern
                THEN IF step.page = <<>> THEN list
                     ELSE Updated(list, step.page[1].id, step.page[1].status)
                ELSE IF step.at = 0 THEN Kept(step.page) ELSE list \o Kept(step.page))
     /\ walks' = [walks EXCEPT ![w] =
                    IF step.ids = <<>> THEN Idle
                    ELSE IF modern THEN Asking(step.ids, 0) ELSE Asking(<<>>, step.at + 1)]
     /\ UNCHANGED <<sessionVars, taskServerVars, notes, stirs, dismissed, stuck, marked,
                    poll, cancel>>

(* A legacy walk ends with what it has; a modern one goes on with the next. *)
WalkFails(w) ==
  /\ ~modern /\ walks[w].phase = "asked" /\ Stirred
  /\ walks' = [walks EXCEPT ![w] = Idle]
  /\ UNCHANGED <<sessionVars, taskServerVars, notes, storeVars, marked, poll, cancel>>

ClearCompleted ==
  LET done == {i \in DOMAIN list : list[i].status \in Ended}
  IN /\ done # {} /\ Stirred
     /\ dismissed' = dismissed \union {list[i].id : i \in done}
     /\ Listing(Only(list, {r \in Rows : r.status \notin Ended}))
     /\ UNCHANGED <<sessionVars, taskServerVars, notes, stuck, marked, walks, poll, cancel>>

TasksNext ==
  \/ TasksOpen \/ TasksAnnounced \/ TasksClose \/ TasksErr
  \/ NoteReaches \/ ClearCompleted
  \/ \E t \in Tasks :
       \/ CallTool(t) \/ HandleArrives(t) \/ PollAnswered(t)
       \/ PollReturns(t) \/ ResultReturns(t) \/ PollFails(t) \/ InputSubmitted(t)
       \/ UserCancels(t) \/ CancelHandled(t) \/ CancelReturns(t)
       \/ \E s \in Statuses : ServerMoves(t, s)
  \/ \E w \in 1..Walks : RefreshTasks(w) \/ WalkAnswered(w) \/ WalkCommits(w) \/ WalkFails(w)

TasksSpec == TasksInit /\ [][TasksNext]_<<sessionVars, taskVars>>

-----------------------------------------------------------------------------
(* managedRequestorTasksState.ts clearCompleted: a cleared task "stays gone  *)
(* for the rest of the session", whatever refreshes, polls and notifications *)
(* were on their way, as long as no task was listed twice.                   *)
ClearedStayGone == ~doubled => Ids(list) \intersect dismissed = {}

(* A cancel the server accepted "is sticky": no late status, result or page  *)
(* flips the row, as long as no task was listed twice.                       *)
CancelSticks ==
  ~doubled => \A i \in DOMAIN list : list[i].id \in stuck => list[i].status = "cancelled"

(* A task paused for the user's input never outlives the connection or its   *)
(* cancel: otherwise "the user is stuck answering a modal".                  *)
InputIsLive ==
  \A t \in Tasks : poll[t].phase = "input" => wire /\ cancel[t] = "none"

(* mergeTaskIntoList.ts: the list is "keyed by taskId". *)
NoDuplicates == ~doubled

(* clearCompleted, whatever the list held. *)
ClearedForGood == Ids(list) \intersect dismissed = {}

(* A row labelled cancelled "matches what a refresh would show": the server  *)
(* says so, or accepted the cancel.                                          *)
CancelledIsTrue ==
  \A i \in DOMAIN list :
    list[i].status = "cancelled" =>
      \/ server[list[i].id] \in {"cancelled", "gone"}
      \/ list[i].id \in stuck
      \/ cancel[list[i].id] # "none"
=============================================================================
