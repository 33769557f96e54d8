-------------------------- MODULE ClientStoresProofs --------------------------
(* Theorems of ClientStores, and of the two of its parts that keep a list,   *)
(* for any tasks, pages, sessions and caps.                                  *)
EXTENDS ClientStores, LogProofs, PeerRequestsProofs, OAuthProofs, FiniteSetTheorems

-----------------------------------------------------------------------------
(* The list of tasks.  While no task is listed twice, it holds no task that  *)
(* was cleared, and a task whose cancel was accepted only as cancelled.      *)

Cleared(l) == \A i \in DOMAIN l : l[i].id \notin dismissed
Pinned(l) == \A i \in DOMAIN l : l[i].id \in stuck => l[i].status = "cancelled"
Faithful(l) == Cleared(l) /\ Pinned(l)
Once(l) == \A t \in Tasks : ~(Cardinality(At(l, t)) > 1)

RowsInv ==
  /\ list \in Seq(Rows) /\ dismissed \subseteq Tasks /\ stuck \subseteq Tasks
  /\ doubled \in BOOLEAN
  /\ ~doubled => Once(list) /\ Faithful(list)

LEMMA RowsAre ==
  ASSUME NEW l \in Seq(Rows)
  PROVE  /\ DOMAIN l = 1..Len(l) /\ Len(l) \in Nat
         /\ \A i \in DOMAIN l : l[i] \in Rows /\ l[i].id \in Tasks /\ l[i].status \in Statuses
<1>1. DOMAIN l = 1..Len(l) /\ Len(l) \in Nat /\ \A i \in DOMAIN l : l[i] \in Rows
  OBVIOUS
<1>2. \A r \in Rows : r.id \in Tasks /\ r.status \in Statuses
  BY DEF Rows
<1> QED BY <1>1, <1>2

LEMMA RowIs ==
  ASSUME NEW t \in Tasks, NEW s \in Statuses
  PROVE  Row(t, s) \in Rows /\ Row(t, s).id = t /\ Row(t, s).status = s
BY DEF Row, Rows

LEMMA MinIs == ASSUME NEW S, S \subseteq Nat, S # {} PROVE Min(S) \in S
<1>1. \E n \in S : \A m \in S : n <= m
  BY Least
<1> QED BY <1>1, Zenon DEF Min

(* mergeTaskIntoList: the rows are those there were, and the one that was    *)
(* merged, in place of the first of that task.                               *)
LEMMA MergedIs ==
  ASSUME NEW l \in Seq(Rows), NEW t \in Tasks, NEW s \in Statuses
  PROVE  /\ Merged(l, t, s) \in Seq(Rows)
         /\ \A i \in DOMAIN Merged(l, t, s) :
              \/ Merged(l, t, s)[i] = Row(t, s)
              \/ \E j \in DOMAIN l : Merged(l, t, s)[i] = l[j]
         /\ At(l, t) # {} =>
              /\ Min(At(l, t)) \in At(l, t)
              /\ DOMAIN Merged(l, t, s) = DOMAIN l
              /\ \A i \in DOMAIN l :
                   Merged(l, t, s)[i] = IF i = Min(At(l, t)) THEN Row(t, s) ELSE l[i]
<1>1. /\ DOMAIN l = 1..Len(l) /\ Len(l) \in Nat
      /\ \A i \in DOMAIN l : l[i] \in Rows /\ l[i].id \in Tasks /\ l[i].status \in Statuses
  BY RowsAre
<1>2. Row(t, s) \in Rows /\ Row(t, s).id = t /\ Row(t, s).status = s
  BY RowIs
<1>3. CASE At(l, t) = {}
  <2> DEFINE first == <<Row(t, s)>>
             m == first \o l
  <2>1. first \in Seq(Rows) /\ Len(first) = 1 /\ first[1] = Row(t, s)
    BY <1>2
  <2> HIDE DEF first
  <2>2. /\ m \in Seq(Rows) /\ Len(m) = 1 + Len(l)
        /\ \A i \in 1..Len(m) : m[i] = IF i <= 1 THEN first[i] ELSE l[i - 1]
    <3>1. /\ m \in Seq(Rows) /\ Len(m) = Len(first) + Len(l)
          /\ \A i \in 1..(Len(first) + Len(l)) :
               m[i] = IF i <= Len(first) THEN first[i] ELSE l[i - Len(first)]
      BY <2>1, ConcatProperties, Zenon
    <3> HIDE DEF m
    <3> QED BY <2>1, <3>1
  <2>3. m = Merged(l, t, s)
    BY <1>3 DEF Merged, first
  <2> HIDE DEF m
  <2>4. ASSUME NEW i \in DOMAIN m
        PROVE  m[i] = Row(t, s) \/ \E j \in DOMAIN l : m[i] = l[j]
    <3>1. i \in 1..(1 + Len(l))
      BY <2>2
    <3>2. CASE i = 1
      BY <1>1, <2>1, <2>2, <3>2
    <3>3. CASE i # 1
      <4>1. i - 1 \in DOMAIN l /\ ~(i <= 1) /\ i \in 1..Len(m)
        BY <1>1, <2>2, <3>1, <3>3
      <4> QED BY <2>2, <4>1
    <3> QED BY <3>2, <3>3
  <2> QED BY <1>3, <2>2, <2>3, <2>4
<1>4. CASE At(l, t) # {}
  <2> DEFINE k == Min(At(l, t))
             m == [l EXCEPT ![k] = Row(t, s)]
  <2>1. k \in At(l, t)
    <3>1. At(l, t) \subseteq Nat
      BY <1>1 DEF At
    <3> QED BY <1>4, <3>1, MinIs
  <2> HIDE DEF k
  <2>2. k \in DOMAIN l /\ l[k].id = t
    BY <2>1 DEF At
  <2>3. [l[k] EXCEPT !.status = s] = Row(t, s)
    BY <1>1, <2>2 DEF Row, Rows
  <2>4. Merged(l, t, s) = m
    BY <1>4, <2>2, <2>3 DEF Merged, k
  <2>5. m \in Seq(Rows) /\ Len(m) = Len(l)
        /\ \A i \in DOMAIN l : m[i] = IF i = k THEN Row(t, s) ELSE l[i]
    BY <1>1, <1>2, <2>2
  <2> HIDE DEF m
  <2>6. DOMAIN m = DOMAIN l
    BY <1>1, <2>5
  <2> QED BY <2>1, <2>4, <2>5, <2>6 DEF k
<1> QED BY <1>3, <1>4

(* onTaskStatusChange: the row it may add is faithful. *)
LEMMA UpdatedIs ==
  ASSUME NEW l \in Seq(Rows), NEW t \in Tasks, NEW s \in Statuses
  PROVE  /\ Updated(l, t, s) \in Seq(Rows)
         /\ Faithful(l) => Faithful(Updated(l, t, s))
         /\ Ids(Updated(l, t, s)) \subseteq Ids(l) \union {t}
<1> DEFINE m == Merged(l, t, s)
<1>1. CASE t \in dismissed \/ (t \in stuck /\ s # "cancelled")
  BY <1>1 DEF Updated
<1>2. CASE ~(t \in dismissed \/ (t \in stuck /\ s # "cancelled"))
  <2>1. Updated(l, t, s) = m
    BY <1>2 DEF Updated
  <2>2. /\ m \in Seq(Rows)
        /\ \A i \in DOMAIN m : m[i] = Row(t, s) \/ \E j \in DOMAIN l : m[i] = l[j]
    BY MergedIs
  <2>3. Row(t, s).id = t /\ Row(t, s).status = s
    BY RowIs
  <2> HIDE DEF m
  <2>4. Faithful(l) => Faithful(m)
    BY <1>2, <2>2, <2>3 DEF Faithful, Cleared, Pinned
  <2>5. Ids(m) \subseteq Ids(l) \union {t}
    BY <2>2, <2>3 DEF Ids
  <2> QED BY <2>1, <2>2, <2>4, <2>5
<1> QED BY <1>1, <1>2

(* A page of tasks/list, taken in. *)
LEMMA KeptIs ==
  ASSUME NEW page \in Seq(Rows), stuck \subseteq Tasks
  PROVE  Kept(page) \in Seq(Rows) /\ Faithful(Kept(page)) 
<1> DEFINE fresh == {r \in Rows : r.id \notin dismissed}
           rows == Only(page, fresh)
           Pin(r) == IF r.id \in stuck THEN Row(r.id, "cancelled") ELSE r
           k == [i \in DOMAIN rows |-> Pin(rows[i])]
<1>1. Kept(page) = k
  BY Zenon DEF Kept
<1>2. rows \in Seq(Rows) /\ \A i \in DOMAIN rows : rows[i] \in fresh
  BY OnlyIs
<1> HIDE DEF rows
<1>3. ASSUME NEW r \in fresh
      PROVE  /\ Pin(r) \in Rows /\ Pin(r).id \notin dismissed
             /\ Pin(r).id \in stuck => Pin(r).status = "cancelled"
  <2>1. r \in Rows /\ r.id \in Tasks /\ r.id \notin dismissed /\ "cancelled" \in Statuses
    BY DEF Rows, Statuses, Ended
  <2>2. CASE r.id \in stuck
    BY <2>1, <2>2, RowIs
  <2>3. CASE r.id \notin stuck
    BY <2>1, <2>3
  <2> QED BY <2>2, <2>3
<1>4. DOMAIN rows = 1..Len(rows) /\ Len(rows) \in Nat
  BY <1>2
<1> HIDE DEF fresh, Pin
<1>5. k \in [1..Len(rows) -> Rows] /\ \A i \in 1..Len(rows) : k[i] = Pin(rows[i])
  BY <1>2, <1>3, <1>4
<1> HIDE DEF k
<1>6. k \in Seq(Rows) /\ DOMAIN k = 1..Len(rows)
  BY <1>4, <1>5
<1>7. Faithful(k)
  BY <1>2, <1>3, <1>4, <1>5, <1>6 DEF Faithful, Cleared, Pinned
<1> QED BY <1>1, <1>6, <1>7

(* One page after the other. *)
LEMMA ConcatIs ==
  ASSUME NEW l \in Seq(Rows), NEW page \in Seq(Rows)
  PROVE  l \o page \in Seq(Rows) /\ (Faithful(l) /\ Faithful(page) => Faithful(l \o page))
<1> DEFINE m == l \o page
<1>1. /\ m \in Seq(Rows) /\ Len(m) = Len(l) + Len(page)
      /\ \A i \in 1..Len(m) : m[i] = IF i <= Len(l) THEN l[i] ELSE page[i - Len(l)]
  BY ConcatProperties
<1> HIDE DEF m
<1>2. /\ DOMAIN l = 1..Len(l) /\ DOMAIN page = 1..Len(page) /\ DOMAIN m = 1..Len(m)
      /\ Len(l) \in Nat /\ Len(page) \in Nat
  BY <1>1
<1>3. ASSUME NEW i \in DOMAIN m
      PROVE  (\E j \in DOMAIN l : m[i] = l[j]) \/ (\E j \in DOMAIN page : m[i] = page[j])
  <2>1. CASE i <= Len(l)
    BY <1>1, <1>2, <2>1
  <2>2. CASE ~(i <= Len(l))
    <3>1. i - Len(l) \in DOMAIN page
      BY <1>1, <1>2, <2>2
    <3> QED BY <1>1, <1>2, <2>2, <3>1
  <2> QED BY <2>1, <2>2
<1>4. Faithful(l) /\ Faithful(page) => Faithful(m)
  BY <1>3 DEF Faithful, Cleared, Pinned
<1> QED BY <1>1, <1>4 DEF m

(* A task listed once has one row. *)
LEMMA OneRow ==
  ASSUME NEW l \in Seq(Rows), Once(l), NEW t \in Tasks, NEW i \in At(l, t), NEW j \in At(l, t)
  PROVE  i = j
<1> SUFFICES ASSUME i # j PROVE FALSE
  OBVIOUS
<1>1. At(l, t) \subseteq 1..Len(l) /\ Len(l) \in Nat
  BY RowsAre DEF At
<1>2. IsFiniteSet(At(l, t))
  <2>1. IsFiniteSet(1..Len(l))
    BY <1>1, FS_Interval
  <2>2. At(l, t) \in SUBSET (1..Len(l))
    BY <1>1
  <2> QED BY <2>1, <2>2, FS_Subset, Zenon
<1>3. Cardinality(At(l, t)) \in Nat /\ ~(Cardinality(At(l, t)) > 1)
  BY <1>2, FS_CardinalityType DEF Once
<1>4. IsFiniteSet({i}) /\ Cardinality({i}) = 1
  BY FS_Singleton
<1>5. Cardinality({i} \union {j}) = 2
  <2>1. j \notin {i}
    OBVIOUS
  <2>2. Cardinality({i} \union {j}) = Cardinality({i}) + 1
    BY <1>4, <2>1, FS_AddElement, Zenon
  <2> QED BY <1>4, <2>2
<1>6. {i} \union {j} \in SUBSET At(l, t)
  OBVIOUS
<1>7. Cardinality({i} \union {j}) <= Cardinality(At(l, t))
  BY <1>2, <1>6, FS_Subset
<1>8. ASSUME NEW m \in Nat, 2 <= m PROVE m > 1
  BY <1>8
<1> QED BY <1>3, <1>5, <1>7, <1>8, Zenon

(* A step that lists l, over what it knows of the list there was. *)
LEMMA ListingKeeps ==
  ASSUME RowsInv, NEW l \in Seq(Rows), Listing(l), UNCHANGED <<dismissed, stuck>>,
         Faithful(list) => Faithful(l)
  PROVE  RowsInv'
<1>1. list' = l /\ doubled' = (doubled \/ \E t \in Tasks : Cardinality(At(l, t)) > 1)
  BY DEF Listing
<1>2. doubled' \in BOOLEAN
  BY <1>1
<1>3. ~doubled' => ~doubled /\ Once(l)
  BY <1>1, Zenon DEF Once
<1>4. Once(list)' <=> Once(l)
  BY <1>1 DEF Once
<1>5. Faithful(list)' <=> Faithful(l)
  BY <1>1 DEF Faithful, Cleared, Pinned
<1> QED BY <1>1, <1>2, <1>3, <1>4, <1>5 DEF RowsInv

LEMMA RowsStay ==
  ASSUME RowsInv, UNCHANGED <<list, dismissed, stuck, doubled>>
  PROVE  RowsInv'
BY DEF RowsInv, Once, Faithful, Cleared, Pinned

LEMMA DropRows == ASSUME DropTasks PROVE RowsInv'
<1>1. list' = <<>> /\ dismissed' = {} /\ stuck' = {} /\ doubled' = FALSE
  BY DEF DropTasks
<1>2. \A t \in Tasks : At(list', t) = {}
  BY <1>1 DEF At
<1>3. Once(list)'
  BY <1>2, FS_EmptySet DEF Once
<1>4. Faithful(list)'
  BY <1>1 DEF Faithful, Cleared, Pinned
<1>5. list' \in Seq(Rows) /\ dismissed' \subseteq Tasks /\ stuck' \subseteq Tasks
  BY <1>1
<1> QED BY <1>1, <1>3, <1>4, <1>5, Zenon DEF RowsInv
-----------------------------------------------------------------------------
(* The rest of the inductive invariant of RequestorTasks. *)

Walk == [phase : {"idle", "asked", "answered"}, ids : Seq(Tasks),
         at : 0..MaxTasks, page : Seq(Rows)]

(* A walk that goes on has where to go: a modern one a task to ask for, a    *)
(* legacy one a page that the server has.                                    *)
WalkInv ==
  /\ walks \in [1..Walks -> Walk]
  /\ \A w \in 1..Walks :
       /\ modern /\ walks[w].phase = "asked" => walks[w].ids # <<>>
       /\ ~modern /\ walks[w].phase = "answered" /\ walks[w].ids # <<>>
            => walks[w].at < MaxTasks

(* Only legacy servers announce a status, only modern ones ask for input. *)
ServerInv ==
  /\ modern \in BOOLEAN
  /\ server \in [Tasks -> Statuses \union {"none", "gone"}]
  /\ notes \in Seq(Rows) /\ Len(notes) <= MaxNotes
  /\ stirs \in 0..MaxStirs /\ marked \subseteq Tasks
  /\ cancel \in [Tasks -> {"none", "asked", "acked", "refused"}]
  /\ modern => notes = <<>>
  /\ ~modern => \A t \in Tasks : server[t] # "input_required"

PollRec == [phase : {"none", "called", "asleep", "answered", "input", "result"},
            got : Statuses \union {"none"}, aborted : BOOLEAN]

(* A poll of a task that is being cancelled has its wait for input aborted   *)
(* beforehand, which is what keeps it from pausing once more.                *)
PollFits(t) ==
  /\ server[t] = "none" => poll[t].phase = "none"
  /\ poll[t].phase = "called" => poll[t].got = "working"
  /\ poll[t].phase = "answered" => poll[t].got \in Statuses
  /\ ~modern => poll[t].got # "input_required" /\ poll[t].phase # "input"
  /\ poll[t].phase = "input" => wire /\ cancel[t] = "none"
  /\ modern /\ cancel[t] # "none" /\ poll[t].phase \notin {"none", "called"}
       => poll[t].aborted

PollInv == poll \in [Tasks -> PollRec] /\ \A t \in Tasks : PollFits(t)

(* On the modern era nothing is known of a task before its handle arrives,   *)
(* so that nobody cancels it under a poll that was not started.              *)
New(t) == server[t] = "none" \/ poll[t].phase = "called"
Carried(walk) == {walk.ids[i] : i \in DOMAIN walk.ids} \union Ids(walk.page)
Unheard(t) ==
  /\ cancel[t] = "none" /\ t \notin Ids(list)
  /\ \A w \in 1..Walks : t \notin Carried(walks[w])

NewInv == modern => \A t \in Tasks : New(t) => Unheard(t)

TasksIInv == SessionIInv /\ RowsInv /\ WalkInv /\ ServerInv /\ PollInv /\ NewInv

LEMMA IdleIs == Idle \in Walk /\ Idle.ids = <<>> /\ Idle.phase = "idle" /\ Carried(Idle) = {}
<1>1. <<>> \in Seq(Tasks) /\ <<>> \in Seq(Rows) /\ 0 \in 0..MaxTasks /\ DOMAIN <<>> = {}
  BY RequestorTasksAssumption
<1>2. Idle \in Walk /\ Idle.ids = <<>> /\ Idle.phase = "idle" /\ Idle.page = <<>>
  BY <1>1 DEF Idle, Walk
<1> HIDE DEF Idle
<1> QED BY <1>1, <1>2 DEF Carried, Ids

LEMMA AskingIs ==
  ASSUME NEW ids \in Seq(Tasks), NEW at \in 0..MaxTasks
  PROVE  /\ Asking(ids, at) \in Walk /\ Asking(ids, at).phase = "asked"
         /\ Asking(ids, at).ids = ids
         /\ Carried(Asking(ids, at)) = {ids[i] : i \in DOMAIN ids}
<1> DEFINE walk == Asking(ids, at)
<1>1. <<>> \in Seq(Rows) /\ DOMAIN <<>> = {}
  OBVIOUS
<1>2. walk \in Walk /\ walk.phase = "asked" /\ walk.ids = ids /\ walk.page = <<>>
  BY <1>1 DEF Asking, Walk
<1> HIDE DEF walk
<1>3. Ids(walk.page) = {}
  BY <1>1, <1>2 DEF Ids
<1>4. Carried(walk) = {ids[i] : i \in DOMAIN ids} \union {}
  BY <1>2, <1>3, Zenon DEF Carried
<1>5. Carried(walk) = {ids[i] : i \in DOMAIN ids}
  BY <1>4
<1> QED BY <1>2, <1>5 DEF walk

LEMMA NoPollIs ==
  /\ NoPoll \in PollRec
  /\ NoPoll.phase = "none" /\ NoPoll.got = "none" /\ NoPoll.aborted = FALSE
BY DEF NoPoll, PollRec

(* Only the poll of task t takes a step. *)
LEMMA OnePolls ==
  ASSUME PollInv, NEW t \in Tasks, NEW p \in PollRec, poll' = [poll EXCEPT ![t] = p],
         modern' = modern, wire => wire',
         \A u \in Tasks : u # t => server'[u] = server[u] /\ cancel'[u] = cancel[u],
         PollFits(t)'
  PROVE  PollInv'
<1>1. poll' \in [Tasks -> PollRec] /\ \A u \in Tasks : u # t => poll'[u] = poll[u]
  BY DEF PollInv
<1>2. ASSUME NEW u \in Tasks PROVE PollFits(u)'
  <2>1. CASE u # t
    BY <1>1, <2>1 DEF PollInv, PollFits
  <2> QED BY <2>1
<1> QED BY <1>1, <1>2 DEF PollInv

(* Nothing new is heard of: the list has no row more than those of task t.   *)
LEMMA RowsOf ==
  ASSUME NewInv, NEW t \in Tasks, Ids(list') \subseteq Ids(list) \union {t},
         modern => ~New(t)',
         UNCHANGED <<modern, server, walks>>,
         \A u \in Tasks : /\ cancel'[u] \in {cancel[u], "none"}
                          /\ poll'[u].phase = "called" => poll[u].phase = "called"
  PROVE  NewInv'
<1> SUFFICES ASSUME modern, NEW u \in Tasks, New(u)' PROVE Unheard(u)'
  BY DEF NewInv
<1>1. New(u) /\ u # t
  BY DEF New
<1>2. Unheard(u)
  BY <1>1 DEF NewInv
<1> QED BY <1>1, <1>2 DEF Unheard, Ids

LEMMA NothingHeard ==
  ASSUME NewInv, UNCHANGED <<modern, walks>>, Ids(list') \subseteq Ids(list),
         \A u \in Tasks : New(u)' => New(u) /\ cancel'[u] \in {cancel[u], "none"}
  PROVE  NewInv'
<1> SUFFICES ASSUME modern, NEW u \in Tasks, New(u)' PROVE Unheard(u)'
  BY DEF NewInv
<1>1. Unheard(u) /\ cancel'[u] \in {cancel[u], "none"}
  BY DEF NewInv
<1> QED BY <1>1 DEF Unheard, Ids

LEMMA WalksStay == ASSUME WalkInv, UNCHANGED <<modern, walks>> PROVE WalkInv'
BY DEF WalkInv

LEMMA StirredIs ==
  ASSUME ServerInv, SessionIInv, Stirred
  PROVE  stirs' \in 0..MaxStirs
BY RequestorTasksAssumption DEF ServerInv, SessionIInv, SessionTypeOK, Stirred, Stir
-----------------------------------------------------------------------------
(* The steps of the session. *)

(* What connect() and an end of the session make of the calls in flight. *)
LEMMA RejectedIs ==
  ASSUME PollInv, NEW phases, Rejected(phases)
  PROVE  /\ poll' \in [Tasks -> PollRec]
         /\ \A t \in Tasks : \/ poll[t].phase \in phases /\ poll'[t] = NoPoll
                             \/ poll[t].phase \notin phases /\ poll'[t] = poll[t]
<1> DEFINE P(t) == IF poll[t].phase \in phases THEN NoPoll ELSE poll[t]
<1>1. poll' = [t \in Tasks |-> P(t)]
  BY DEF Rejected
<1>2. ASSUME NEW t \in Tasks
      PROVE  /\ P(t) \in PollRec
             /\ \/ poll[t].phase \in phases /\ P(t) = NoPoll
                \/ poll[t].phase \notin phases /\ P(t) = poll[t]
  BY NoPollIs DEF PollInv
<1> HIDE DEF P
<1> QED BY <1>1, <1>2

LEMMA TasksOpenKeeps == ASSUME TasksIInv, TasksOpen PROVE TasksIInv'
<1> USE DEF TasksIInv
<1>1. SessionIInv'
  BY SessionSteps DEF TasksOpen
<1>2. RowsInv'
  BY RowsStay DEF TasksOpen, storeVars
<1>3. modern' = modern /\ wire' = TRUE /\ list' = list
  BY DEF TasksOpen, SessionOpens, storeVars
<1>4. CASE modern \/ ~wire
  <2>1. /\ \A w \in 1..Walks : walks'[w] = Idle
        /\ walks' = [w \in 1..Walks |-> Idle]
        /\ Rejected(InFlight \union {"input"})
        /\ cancel' = [t \in Tasks |-> "none"]
    BY <1>4 DEF TasksOpen, AllRejected
  <2>2. WalkInv'
    BY <2>1, IdleIs DEF WalkInv
  <2>3. /\ poll' \in [Tasks -> PollRec]
        /\ \A t \in Tasks : \/ poll'[t] = NoPoll
                            \/ /\ poll'[t] = poll[t]
                               /\ poll[t].phase \notin {"called", "answered", "input"}
    BY <2>1, RejectedIs DEF InFlight
  <2>4. \A t \in Tasks : cancel'[t] = "none" /\ (server'[t] = "none" => server[t] = "none")
    BY <2>1 DEF TasksOpen, ServerInv
  <2>5. ASSUME NEW t \in Tasks PROVE PollFits(t)'
    <3>1. PollFits(t)
      BY DEF PollInv
    <3> QED BY <1>3, <2>3, <2>4, <3>1, NoPollIs DEF PollFits
  <2>6. NewInv'
    <3> SUFFICES ASSUME modern, NEW t \in Tasks, New(t)' PROVE Unheard(t)'
      BY <1>3 DEF NewInv
    <3>1. server[t] = "none"
      BY <2>3, <2>4, NoPollIs DEF New
    <3>2. t \notin Ids(list)
      BY <3>1 DEF NewInv, New, Unheard
    <3> QED BY <1>3, <2>1, <2>4, <3>2, IdleIs DEF Unheard, Ids
  <2>7. ServerInv'
    <3>1. cancel' \in [Tasks -> {"none", "asked", "acked", "refused"}]
      BY <2>1
    <3>2. /\ server' \in [Tasks -> Statuses \union {"none", "gone"}]
          /\ ~modern => \A t \in Tasks : server'[t] # "input_required"
      BY DEF TasksOpen, ServerInv
    <3>3. notes' \in Seq(Rows) /\ Len(notes') <= MaxNotes /\ (modern => notes' = <<>>)
      BY RequestorTasksAssumption DEF TasksOpen, ServerInv
    <3> QED BY <1>3, <3>1, <3>2, <3>3 DEF TasksOpen, ServerInv
  <2> QED BY <1>1, <1>2, <2>2, <2>3, <2>5, <2>6, <2>7 DEF PollInv
<1>5. CASE ~modern /\ wire
  <2>1. Rejected({"input"}) /\ UNCHANGED <<walks, cancel>> /\ notes' = notes
    BY <1>5 DEF TasksOpen
  <2>2. /\ poll' \in [Tasks -> PollRec]
        /\ \A t \in Tasks : poll'[t] = NoPoll \/ poll'[t] = poll[t]
    BY <2>1, RejectedIs
  <2>3. \A t \in Tasks : server'[t] = "none" => server[t] = "none"
    BY DEF TasksOpen, ServerInv
  <2>4. ASSUME NEW t \in Tasks PROVE PollFits(t)'
    <3>1. PollFits(t)
      BY DEF PollInv
    <3> QED BY <1>3, <1>5, <2>2, <2>3, <3>1, NoPollIs DEF PollFits
  <2>5. ServerInv'
    <3>1. /\ server' \in [Tasks -> Statuses \union {"none", "gone"}]
          /\ ~modern => \A t \in Tasks : server'[t] # "input_required"
      BY DEF TasksOpen, ServerInv
    <3> QED BY <1>3, <1>5, <2>1, <3>1 DEF TasksOpen, ServerInv
  <2>6. NewInv' /\ WalkInv'
    BY <1>3, <1>5, <2>1, WalksStay DEF NewInv
  <2> QED BY <1>1, <1>2, <2>2, <2>4, <2>5, <2>6 DEF PollInv
<1> QED BY <1>4, <1>5 DEF ServerInv

LEMMA TasksCloseKeeps == ASSUME TasksIInv, TasksClose PROVE TasksIInv'
<1> USE DEF TasksIInv
<1>1. SessionIInv'
  BY SessionSteps DEF TasksClose
<1>2. RowsInv'
  BY RowsStay, DropRows DEF TasksClose, storeVars
<1>3. /\ UNCHANGED <<modern, server>>
      /\ walks' = [w \in 1..Walks |-> Idle]
      /\ Rejected(InFlight \union {"input"})
      /\ cancel' = [t \in Tasks |-> "none"]
      /\ notes' = <<>> /\ stirs' = stirs /\ marked' \in {marked, {}}
  BY DEF TasksClose, AllRejected, taskServerVars
<1>4. \A w \in 1..Walks : walks'[w] = Idle
  BY <1>3
<1>5. WalkInv'
  BY <1>3, <1>4, IdleIs DEF WalkInv
<1>6. /\ poll' \in [Tasks -> PollRec]
      /\ \A t \in Tasks : \/ poll'[t] = NoPoll
                          \/ /\ poll'[t] = poll[t]
                             /\ poll[t].phase \notin {"called", "answered", "input"}
  BY <1>3, RejectedIs DEF InFlight
<1>7. ASSUME NEW t \in Tasks PROVE PollFits(t)'
  <2>1. PollFits(t) /\ cancel'[t] = "none"
    BY <1>3 DEF PollInv
  <2> QED BY <1>3, <1>6, <2>1, NoPollIs DEF PollFits
<1>8. ServerInv'
  <2>1. cancel' \in [Tasks -> {"none", "asked", "acked", "refused"}]
    BY <1>3
  <2>2. <<>> \in Seq(Rows) /\ Len(<<>>) <= MaxNotes
    BY RequestorTasksAssumption
  <2> QED BY <1>3, <2>1, <2>2 DEF ServerInv
<1>9. NewInv'
  <2> SUFFICES ASSUME modern, NEW t \in Tasks, New(t)' PROVE Unheard(t)'
    BY <1>3 DEF NewInv
  <2>1. New(t)
    BY <1>3, <1>6, NoPollIs DEF New
  <2>2. list' = <<>> \/ list' = list
    BY DEF TasksClose, DropTasks, storeVars
  <2>3. t \notin Ids(list') /\ cancel'[t] = "none"
    BY <1>3, <2>1, <2>2 DEF NewInv, Unheard, Ids
  <2> QED BY <1>4, <2>3, IdleIs DEF Unheard, Ids
<1> QED BY <1>1, <1>2, <1>5, <1>6, <1>7, <1>8, <1>9 DEF PollInv

LEMMA TasksErrKeeps == ASSUME TasksIInv, TasksErr PROVE TasksIInv'
<1> USE DEF TasksIInv
<1>1. SessionIInv' /\ RowsInv'
  BY SessionSteps, DropRows DEF TasksErr
<1>2. UNCHANGED <<modern, server, notes, stirs, marked, walks, poll, cancel, wire>> /\ list' = <<>>
  BY DEF TasksErr, SessionErrs, DropTasks, taskServerVars
<1>3. WalkInv' /\ ServerInv' /\ PollInv'
  BY <1>2 DEF WalkInv, ServerInv, PollInv, PollFits
<1>4. NewInv'
  BY <1>2, NothingHeard DEF New, Ids
<1> QED BY <1>1, <1>3, <1>4

(* refresh(), on connect or by the user. *)
LEMMA WalkStartsKeeps ==
  ASSUME TasksIInv, NEW w \in 1..Walks, WalkStarts(w),
         UNCHANGED <<taskServerVars, dismissed, stuck, poll, cancel>>
  PROVE  RowsInv' /\ WalkInv' /\ NewInv'
<1> USE DEF TasksIInv
<1>1. list \in Seq(Rows) /\ UNCHANGED <<modern, server>>
  BY DEF RowsInv, taskServerVars
<1>2. CASE modern
  <2> DEFINE ids == [i \in DOMAIN list |-> list[i].id]
             walk == Asking(ids, 0)
  <2>1. list' = list /\ doubled' = doubled
        /\ walks' = IF list = <<>> THEN walks ELSE [walks EXCEPT ![w] = walk]
    BY <1>2 DEF WalkStarts
  <2>2. RowsInv'
    BY <2>1, RowsStay
  <2>3. CASE list = <<>>
    BY <1>1, <2>1, <2>2, <2>3, WalksStay, NothingHeard DEF New
  <2>4. CASE list # <<>>
    <3>1. ids \in Seq(Tasks) /\ ids # <<>> /\ DOMAIN ids = DOMAIN list
          /\ \A i \in DOMAIN ids : ids[i] \in Ids(list)
      <4>1. /\ DOMAIN list = 1..Len(list) /\ Len(list) \in Nat
            /\ \A i \in DOMAIN list : list[i].id \in Tasks
        BY <1>1, RowsAre
      <4>2. ids \in [1..Len(list) -> Tasks] /\ Len(list) > 0
        BY <1>1, <2>4, <4>1
      <4>3. ids \in Seq(Tasks) /\ Len(ids) = Len(list)
        BY <4>1, <4>2
      <4>4. \A i \in DOMAIN ids : ids[i] \in Ids(list)
        BY DEF Ids
      <4> HIDE DEF ids
      <4> QED BY <4>1, <4>2, <4>3, <4>4
    <3> HIDE DEF ids
    <3>2. ids \in Seq(Tasks) /\ ids # <<>> /\ walk = Asking(ids, 0)
      BY <3>1
    <3> HIDE DEF walk
    <3>3. walk \in Walk /\ walk.phase = "asked" /\ walk.ids = ids
      BY <3>2, AskingIs, RequestorTasksAssumption
    <3>4. Carried(walk) \subseteq Ids(list)
      BY <3>1, <3>2, AskingIs, RequestorTasksAssumption
    <3>5. /\ walks' \in [1..Walks -> Walk] /\ walks'[w] = walk
          /\ \A v \in 1..Walks : v # w => walks'[v] = walks[v]
      BY <2>1, <2>4, <3>3 DEF WalkInv
    <3>6. WalkInv'
      <4>1. ASSUME NEW v \in 1..Walks, walks'[v].phase = "asked" PROVE walks'[v].ids # <<>>
        BY <1>2, <3>2, <3>3, <3>5, <4>1 DEF WalkInv
      <4> QED BY <1>1, <1>2, <3>5, <4>1 DEF WalkInv
    <3>7. NewInv'
      <4> SUFFICES ASSUME NEW t \in Tasks, New(t)' PROVE Unheard(t)'
        BY DEF NewInv
      <4>1. Unheard(t) /\ cancel' = cancel
        BY <1>1, <1>2 DEF New, NewInv
      <4> QED BY <2>1, <3>4, <3>5, <4>1 DEF Unheard, Ids
    <3> QED BY <2>2, <3>6, <3>7
  <2> QED BY <2>3, <2>4
<1>3. CASE ~modern
  <2>1. walks' = [walks EXCEPT ![w] = Asking(<<>>, 0)] /\ Listing(<<>>)
    BY <1>3 DEF WalkStarts
  <2>2. RowsInv'
    <3>1. <<>> \in Seq(Rows) /\ Faithful(<<>>)
      BY DEF Faithful, Cleared, Pinned
    <3> QED BY <2>1, <3>1, ListingKeeps
  <2>3. Asking(<<>>, 0) \in Walk /\ Asking(<<>>, 0).phase = "asked"
    <3>1. <<>> \in Seq(Tasks) /\ 0 \in 0..MaxTasks
      BY RequestorTasksAssumption
    <3> QED BY <3>1, AskingIs
  <2>4. WalkInv'
    BY <1>1, <1>3, <2>1, <2>3 DEF WalkInv
  <2>5. NewInv'
    BY <1>1, <1>3 DEF NewInv
  <2> QED BY <2>2, <2>4, <2>5
<1> QED BY <1>2, <1>3 DEF ServerInv

LEMMA RefreshKeeps ==
  ASSUME TasksIInv, TasksAnnounced \/ \E w \in 1..Walks : RefreshTasks(w)
  PROVE  TasksIInv'
<1> USE DEF TasksIInv
<1>1. /\ UNCHANGED <<modern, server, notes, marked, poll, cancel, wire>>
      /\ stirs' \in 0..MaxStirs
  <2>1. CASE TasksAnnounced
    BY <2>1 DEF TasksAnnounced, SessionAnnounced, taskServerVars, ServerInv
  <2>2. ASSUME NEW w \in 1..Walks, RefreshTasks(w)
        PROVE  /\ UNCHANGED <<modern, server, notes, marked, poll, cancel, wire>>
               /\ stirs' \in 0..MaxStirs
    BY <2>2, StirredIs DEF RefreshTasks, taskServerVars, sessionVars
  <2> QED BY <2>1, <2>2
<1>2. SessionIInv'
  BY SessionSteps DEF TasksAnnounced, RefreshTasks
<1>3. RowsInv' /\ WalkInv' /\ NewInv'
  BY WalkStartsKeeps DEF TasksAnnounced, RefreshTasks
<1>4. ServerInv' /\ PollInv'
  BY <1>1 DEF ServerInv, PollInv, PollFits
<1> QED BY <1>2, <1>3, <1>4
-----------------------------------------------------------------------------
(* The steps of a call and its polls. *)

LEMMA TellsIs ==
  ASSUME ServerInv, NEW t \in Tasks, NEW s \in Statuses, Tells(t, s)
  PROVE  notes' \in Seq(Rows) /\ Len(notes') <= MaxNotes /\ (modern => notes' = <<>>)
<1>1. CASE notes' = notes
  BY <1>1 DEF ServerInv
<1>2. CASE notes' # notes
  <2>1. ~modern /\ Len(notes) # MaxNotes /\ notes' = Append(notes, Row(t, s))
    BY <1>2 DEF Tells
  <2>2. notes \in Seq(Rows) /\ Row(t, s) \in Rows
    BY RowIs DEF ServerInv
  <2>3. notes' \in Seq(Rows) /\ Len(notes') = Len(notes) + 1 /\ Len(notes) \in Nat
    BY <2>1, <2>2
  <2> QED BY <2>1, <2>3, RequestorTasksAssumption DEF ServerInv
<1> QED BY <1>1, <1>2

LEMMA PollingIs ==
  ASSUME PollInv, NEW t \in Tasks, NEW phase, NEW got,
         phase \in {"none", "called", "asleep", "answered", "input", "result"},
         got \in Statuses \union {"none"}
  PROVE  /\ Polling(t, phase, got) \in PollRec
         /\ Polling(t, phase, got).phase = phase /\ Polling(t, phase, got).got = got
         /\ Polling(t, phase, got).aborted = poll[t].aborted
<1>1. poll[t].aborted \in BOOLEAN
  BY DEF PollInv, PollRec
<1> QED BY <1>1 DEF Polling, PollRec

(* The loop sleeps, gives up or waits for input the task asks for. *)
LEMMA ContinuedIs ==
  ASSUME PollInv, NEW t \in Tasks, NEW s
  PROVE  LET p == Continued(t, s)
         IN /\ p \in PollRec /\ p.phase \in {"none", "asleep", "input"} /\ p.got = "none"
            /\ p.phase = "asleep" => p.aborted = poll[t].aborted
            /\ p.phase = "input" => s = "input_required" /\ ~poll[t].aborted
<1>1. CASE s # "input_required"
  <2>1. Continued(t, s) = Polling(t, "asleep", "none")
    BY <1>1 DEF Continued
  <2> QED BY <2>1, PollingIs
<1>2. CASE s = "input_required" /\ poll[t].aborted
  <2>1. Continued(t, s) = NoPoll
    BY <1>2 DEF Continued
  <2> QED BY <2>1, NoPollIs
<1>3. CASE s = "input_required" /\ ~poll[t].aborted
  <2>1. Continued(t, s) = Polling(t, "input", "none")
    BY <1>3 DEF Continued
  <2> QED BY <1>3, <2>1, PollingIs
<1> QED BY <1>1, <1>2, <1>3

(* An answer to the poll of task t: the list takes what it says, and the     *)
(* poll goes on as p.                                                        *)
LEMMA PollMoves ==
  ASSUME TasksIInv, NEW t \in Tasks, NEW p \in PollRec, NEW l \in Seq(Rows),
         poll' = [poll EXCEPT ![t] = p], Listing(l),
         Faithful(list) => Faithful(l), Ids(l) \subseteq Ids(list) \union {t},
         UNCHANGED <<sessionVars, taskServerVars, notes, stirs, dismissed, stuck,
                     walks, cancel>>,
         marked' \subseteq Tasks, poll[t].phase # "none", p.phase # "called", PollFits(t)'
  PROVE  TasksIInv'
<1> USE DEF TasksIInv
<1>1. UNCHANGED <<modern, server, notes, stirs, dismissed, stuck, walks, cancel, wire>>
  BY DEF taskServerVars, sessionVars
<1>2. SessionIInv' /\ RowsInv' /\ WalkInv'
  BY <1>1, SessionSteps, ListingKeeps, WalksStay
<1>3. PollInv'
  BY <1>1, OnePolls
<1>4. ServerInv'
  BY <1>1 DEF ServerInv
<1>5. NewInv'
  <2>1. server[t] # "none"
    BY DEF PollInv, PollFits
  <2>2. list' = l
    BY DEF Listing
  <2>3. \A u \in Tasks : poll'[u] = IF u = t THEN p ELSE poll[u]
    BY DEF PollInv
  <2>4. ~New(t)'
    BY <1>1, <2>1, <2>3 DEF New
  <2> QED BY <1>1, <2>2, <2>3, <2>4, RowsOf
<1> QED BY <1>2, <1>3, <1>4, <1>5

(* The poll of task t goes on as p, and nothing is listed. *)
LEMMA PollOnly ==
  ASSUME TasksIInv, NEW t \in Tasks, NEW p \in PollRec, poll' = [poll EXCEPT ![t] = p],
         UNCHANGED <<sessionVars, taskServerVars, notes, storeVars, marked, walks, cancel>>,
         stirs' \in 0..MaxStirs, p.phase # "called", PollFits(t)'
  PROVE  TasksIInv'
<1> USE DEF TasksIInv
<1>1. UNCHANGED <<modern, server, notes, list, dismissed, stuck, doubled, marked, walks,
                  cancel, wire>>
  BY DEF taskServerVars, sessionVars, storeVars
<1>2. SessionIInv' /\ RowsInv' /\ WalkInv'
  BY <1>1, SessionSteps, RowsStay, WalksStay
<1>3. PollInv'
  BY <1>1, OnePolls
<1>4. ServerInv'
  BY <1>1 DEF ServerInv
<1>5. NewInv'
  <2>1. \A u \in Tasks : poll'[u] = IF u = t THEN p ELSE poll[u]
    BY DEF PollInv
  <2> QED BY <1>1, <2>1, NothingHeard DEF New
<1> QED BY <1>2, <1>3, <1>4, <1>5

LEMMA HandleArrivesKeeps ==
  ASSUME TasksIInv, NEW t \in Tasks, HandleArrives(t)
  PROVE  TasksIInv'
<1> DEFINE p == Continued(t, poll[t].got)
           l == Updated(list, t, "working")
<1>1. /\ poll[t].phase = "called" /\ poll[t].got = "working" /\ PollFits(t)
      /\ server[t] # "none"
  BY DEF HandleArrives, TasksIInv, PollInv, PollFits
<1>2. /\ p \in PollRec /\ p.phase \in {"none", "asleep"} /\ p.got = "none"
  BY <1>1, ContinuedIs DEF TasksIInv
<1>3. modern => cancel[t] = "none"
  BY <1>1 DEF TasksIInv, NewInv, New, Unheard
<1>4. /\ l \in Seq(Rows) /\ (Faithful(list) => Faithful(l))
      /\ Ids(l) \subseteq Ids(list) \union {t}
  BY UpdatedIs DEF TasksIInv, RowsInv, Statuses
<1>5. /\ poll' = [poll EXCEPT ![t] = p] /\ Listing(l)
      /\ UNCHANGED <<sessionVars, taskServerVars, notes, stirs, dismissed, stuck, marked,
                     walks, cancel>>
  BY <1>1 DEF HandleArrives
<1> HIDE DEF p, l
<1>6. poll'[t] = p /\ UNCHANGED <<modern, server, cancel>> /\ marked' \subseteq Tasks
  BY <1>5 DEF TasksIInv, PollInv, ServerInv, taskServerVars
<1>7. PollFits(t)'
  BY <1>1, <1>2, <1>3, <1>6 DEF PollFits
<1> QED BY <1>1, <1>2, <1>4, <1>5, <1>6, <1>7, PollMoves

LEMMA PollAnsweredKeeps ==
  ASSUME TasksIInv, NEW t \in Tasks, PollAnswered(t)
  PROVE  TasksIInv'
<1> DEFINE p == Polling(t, "answered", server[t])
<1>1. poll[t].phase = "asleep" /\ server[t] # "gone" /\ PollFits(t)
  BY DEF PollAnswered, TasksIInv, PollInv
<1>2. server[t] \in Statuses /\ (~modern => server[t] # "input_required")
  BY <1>1 DEF TasksIInv, ServerInv, PollFits
<1>3. /\ p \in PollRec /\ p.phase = "answered" /\ p.got = server[t]
      /\ p.aborted = poll[t].aborted
  BY <1>2, PollingIs DEF TasksIInv
<1>4. /\ poll' = [poll EXCEPT ![t] = p]
      /\ UNCHANGED <<sessionVars, taskServerVars, notes, stirs, storeVars, marked, walks, cancel>>
  BY DEF PollAnswered
<1> HIDE DEF p
<1>5. poll'[t] = p /\ UNCHANGED <<modern, server, cancel>> /\ stirs' \in 0..MaxStirs
  BY <1>4 DEF TasksIInv, PollInv, ServerInv, taskServerVars
<1>6. PollFits(t)'
  BY <1>1, <1>2, <1>3, <1>5 DEF PollFits
<1> QED BY <1>3, <1>4, <1>5, <1>6, PollOnly

LEMMA PollReturnsKeeps ==
  ASSUME TasksIInv, NEW t \in Tasks, PollReturns(t)
  PROVE  TasksIInv'
<1> DEFINE s == poll[t].got
           seen == Updated(list, t, s)
           shown == Updated(seen, t, Label(t))
<1>1. wire /\ poll[t].phase = "answered" /\ PollFits(t) /\ s \in Statuses
  BY DEF PollReturns, TasksIInv, PollInv, PollFits
<1>2. list \in Seq(Rows) /\ marked \subseteq Tasks
  BY DEF TasksIInv, RowsInv, ServerInv
<1>3. UNCHANGED <<sessionVars, taskServerVars, notes, stirs, dismissed, stuck, walks, cancel>>
  BY DEF PollReturns
<1>4. UNCHANGED <<modern, server, cancel, wire>>
  BY <1>3 DEF taskServerVars, sessionVars
<1>5. /\ seen \in Seq(Rows) /\ (Faithful(list) => Faithful(seen))
      /\ Ids(seen) \subseteq Ids(list) \union {t}
  BY <1>1, <1>2, UpdatedIs
<1>6. ASSUME NEW p \in PollRec, poll' = [poll EXCEPT ![t] = p] PROVE poll'[t] = p
  BY <1>6 DEF TasksIInv, PollInv
<1>7. CASE /\ Listing(shown) /\ marked' = marked \ {t}
           /\ poll' = [poll EXCEPT ![t] = NoPoll]
  <2>1. Label(t) \in Statuses
    BY DEF Label, Statuses, Ended
  <2>2. /\ shown \in Seq(Rows) /\ (Faithful(seen) => Faithful(shown))
        /\ Ids(shown) \subseteq Ids(seen) \union {t}
    BY <1>5, <2>1, UpdatedIs
  <2>3. (Faithful(list) => Faithful(shown)) /\ Ids(shown) \subseteq Ids(list) \union {t}
    BY <1>5, <2>2, Zenon
  <2>4. PollFits(t)'
    BY <1>6, <1>7, NoPollIs DEF PollFits
  <2>5. marked' \subseteq Tasks
    BY <1>2, <1>7
  <2> HIDE DEF s, seen, shown
  <2> QED BY <1>1, <1>3, <1>7, <2>2, <2>3, <2>4, <2>5, NoPollIs, PollMoves
<1>8. CASE /\ s = "completed" /\ Listing(seen) /\ marked' = marked
           /\ poll' = [poll EXCEPT ![t] = IF modern THEN NoPoll ELSE Polling(t, "result", s)]
  <2> DEFINE p == IF modern THEN NoPoll ELSE Polling(t, "result", s)
  <2>1. /\ p \in PollRec /\ p.phase \in {"none", "result"}
        /\ p.phase = "result" => ~modern /\ p.got = "completed"
        /\ p.phase = "none" => p.got = "none"
    BY <1>1, <1>8, PollingIs, NoPollIs DEF TasksIInv
  <2>2. poll' = [poll EXCEPT ![t] = p]
    BY <1>8
  <2> HIDE DEF p
  <2>3. PollFits(t)'
    <3>1. poll'[t] = p /\ server[t] # "none"
      BY <1>1, <1>6, <2>1, <2>2 DEF PollFits
    <3> QED BY <1>4, <2>1, <3>1 DEF PollFits
  <2> HIDE DEF s, seen
  <2> QED BY <1>1, <1>2, <1>3, <1>5, <1>8, <2>1, <2>2, <2>3, PollMoves
<1>9. CASE /\ Listing(seen) /\ marked' = marked
           /\ poll' = [poll EXCEPT ![t] = Continued(t, s)]
  <2> DEFINE p == Continued(t, s)
  <2>1. /\ p \in PollRec /\ p.phase \in {"none", "asleep", "input"} /\ p.got = "none"
        /\ p.phase = "asleep" => p.aborted = poll[t].aborted
        /\ p.phase = "input" => s = "input_required" /\ ~poll[t].aborted
    BY ContinuedIs DEF TasksIInv
  <2>2. poll' = [poll EXCEPT ![t] = p]
    BY <1>9
  <2> HIDE DEF p
  <2>3. PollFits(t)'
    <3>1. poll'[t] = p
      BY <1>6, <2>1, <2>2
    <3> QED BY <1>1, <1>4, <2>1, <3>1 DEF PollFits
  <2> HIDE DEF s, seen
  <2> QED BY <1>1, <1>2, <1>3, <1>5, <1>9, <2>1, <2>2, <2>3, PollMoves
<1> QED BY <1>7, <1>8, <1>9 DEF PollReturns

LEMMA ResultReturnsKeeps ==
  ASSUME TasksIInv, NEW t \in Tasks, ResultReturns(t)
  PROVE  TasksIInv'
<1> DEFINE l == Updated(list, t, "completed")
<1>1. poll[t].phase = "result" /\ marked' \subseteq Tasks
  BY DEF ResultReturns, TasksIInv, ServerInv
<1>2. /\ l \in Seq(Rows) /\ (Faithful(list) => Faithful(l))
      /\ Ids(l) \subseteq Ids(list) \union {t}
  BY UpdatedIs DEF TasksIInv, RowsInv, Statuses, Ended
<1>3. /\ poll' = [poll EXCEPT ![t] = NoPoll] /\ Listing(l)
      /\ UNCHANGED <<sessionVars, taskServerVars, notes, stirs, dismissed, stuck, walks, cancel>>
  BY DEF ResultReturns
<1> HIDE DEF l
<1>4. PollFits(t)'
  BY <1>3, NoPollIs DEF TasksIInv, PollInv, PollFits
<1> QED BY <1>1, <1>2, <1>3, <1>4, NoPollIs, PollMoves

LEMMA PollFailsKeeps ==
  ASSUME TasksIInv, NEW t \in Tasks, PollFails(t)
  PROVE  TasksIInv'
<1>1. /\ poll' = [poll EXCEPT ![t] = NoPoll]
      /\ UNCHANGED <<sessionVars, taskServerVars, notes, storeVars, marked, walks, cancel>>
      /\ stirs' \in 0..MaxStirs
  BY StirredIs DEF PollFails, TasksIInv
<1>2. PollFits(t)'
  BY <1>1, NoPollIs DEF TasksIInv, PollInv, PollFits
<1> QED BY <1>1, <1>2, NoPollIs, PollOnly
-----------------------------------------------------------------------------
(* The steps of the server and of the user. *)

(* The status of one task on the server. *)
LEMMA ServerIs ==
  ASSUME ServerInv, NEW t \in Tasks, NEW s \in Statuses,
         server' = [server EXCEPT ![t] = s], ~modern => s # "input_required"
  PROVE  /\ server' \in [Tasks -> Statuses \union {"none", "gone"}]
         /\ server'[t] = s /\ \A u \in Tasks : u # t => server'[u] = server[u]
         /\ ~modern => \A u \in Tasks : server'[u] # "input_required"
         /\ \A u \in Tasks : server'[u] = "none" => server[u] = "none"
BY DEF ServerInv, Statuses, Ended

LEMMA CallToolKeeps ==
  ASSUME TasksIInv, NEW t \in Tasks, CallTool(t)
  PROVE  TasksIInv'
<1> USE DEF TasksIInv
<1> DEFINE p == Polling(t, "called", "working")
<1>1. "working" \in Statuses /\ "working" # "input_required"
  BY DEF Statuses
<1>2. /\ server[t] = "none" /\ server' = [server EXCEPT ![t] = "working"]
      /\ poll' = [poll EXCEPT ![t] = p] /\ Tells(t, "working")
      /\ UNCHANGED <<sessionVars, storeVars, modern, stirs, marked, walks, cancel>>
  BY DEF CallTool
<1>3. UNCHANGED <<modern, stirs, list, dismissed, stuck, doubled, marked, walks, cancel, wire>>
  BY <1>2 DEF storeVars, sessionVars
<1>4. SessionIInv' /\ RowsInv' /\ WalkInv'
  BY <1>2, <1>3, SessionSteps, RowsStay, WalksStay
<1>5. /\ server' \in [Tasks -> Statuses \union {"none", "gone"}]
      /\ server'[t] = "working" /\ \A u \in Tasks : u # t => server'[u] = server[u]
      /\ ~modern => \A u \in Tasks : server'[u] # "input_required"
      /\ \A u \in Tasks : server'[u] = "none" => server[u] = "none"
  BY <1>1, <1>2, ServerIs
<1>6. ServerInv'
  BY <1>1, <1>2, <1>3, <1>5, TellsIs DEF ServerInv
<1>7. p \in PollRec /\ p.phase = "called" /\ p.got = "working"
  BY <1>1, PollingIs
<1> HIDE DEF p
<1>8. \A u \in Tasks : poll'[u] = IF u = t THEN p ELSE poll[u]
  BY <1>2 DEF PollInv
<1>9. PollFits(t)'
  BY <1>1, <1>5, <1>7, <1>8 DEF PollFits
<1>10. PollInv'
  BY <1>2, <1>3, <1>5, <1>7, <1>9, OnePolls
<1>11. NewInv'
  BY <1>2, <1>3, <1>5, <1>8, NothingHeard DEF New
<1> QED BY <1>4, <1>6, <1>10, <1>11

LEMMA ServerMovesKeeps ==
  ASSUME TasksIInv, NEW t \in Tasks, NEW s \in Statuses, ServerMoves(t, s)
  PROVE  TasksIInv'
<1> USE DEF TasksIInv
<1>1. ~modern => s # "input_required"
  BY DEF ServerMoves
<1>2. /\ server' = [server EXCEPT ![t] = s] /\ Tells(t, s)
      /\ UNCHANGED <<sessionVars, storeVars, modern, stirs, marked, walks, poll, cancel>>
  BY DEF ServerMoves
<1>3. UNCHANGED <<modern, stirs, list, dismissed, stuck, doubled, marked, walks, poll, cancel,
                  wire>>
  BY <1>2 DEF storeVars, sessionVars
<1>4. SessionIInv' /\ RowsInv' /\ WalkInv'
  BY <1>2, <1>3, SessionSteps, RowsStay, WalksStay
<1>5. /\ server' \in [Tasks -> Statuses \union {"none", "gone"}]
      /\ ~modern => \A u \in Tasks : server'[u] # "input_required"
      /\ \A u \in Tasks : server'[u] = "none" => server[u] = "none"
  BY <1>1, <1>2, ServerIs
<1>6. ServerInv'
  BY <1>2, <1>3, <1>5, TellsIs DEF ServerInv
<1>7. PollInv'
  BY <1>3, <1>5 DEF PollInv, PollFits
<1>8. NewInv'
  BY <1>3, <1>5, NothingHeard DEF New
<1> QED BY <1>4, <1>6, <1>7, <1>8

(* A status announced by a legacy server. *)
LEMMA NoteReachesKeeps == ASSUME TasksIInv, NoteReaches PROVE TasksIInv'
<1> USE DEF TasksIInv
<1>1. /\ notes # <<>> /\ notes' = Tail(notes)
      /\ Listing(Updated(list, Head(notes).id, Head(notes).status))
      /\ UNCHANGED <<sessionVars, taskServerVars, stirs, dismissed, stuck, marked,
                     walks, poll, cancel>>
  BY DEF NoteReaches
<1>2. UNCHANGED <<modern, server, stirs, dismissed, stuck, marked, walks, poll, cancel, wire>>
  BY <1>1 DEF taskServerVars, sessionVars
<1>3. notes \in Seq(Rows) /\ list \in Seq(Rows) /\ ~modern
  BY <1>1 DEF ServerInv, RowsInv
<1>4. Head(notes) \in Rows /\ Head(notes).id \in Tasks /\ Head(notes).status \in Statuses
  <2>1. Head(notes) \in Rows
    BY <1>1, <1>3
  <2> QED BY <2>1 DEF Rows
<1>5. RowsInv'
  BY <1>1, <1>2, <1>3, <1>4, UpdatedIs, ListingKeeps
<1>6. notes' \in Seq(Rows) /\ Len(notes') <= MaxNotes
  <2>1. notes' \in Seq(Rows) /\ Len(notes') = Len(notes) - 1 /\ Len(notes) \in Nat
    BY <1>1, <1>3
  <2> QED BY <2>1, RequestorTasksAssumption DEF ServerInv
<1>7. ServerInv' /\ PollInv' /\ NewInv'
  BY <1>2, <1>3, <1>6 DEF ServerInv, PollInv, PollFits, NewInv
<1> QED BY <1>1, <1>2, <1>5, <1>7, SessionSteps, WalksStay

(* The user answers, which only a modern server asked for. *)
LEMMA InputSubmittedKeeps ==
  ASSUME TasksIInv, NEW t \in Tasks, InputSubmitted(t)
  PROVE  TasksIInv'
<1> USE DEF TasksIInv
<1> DEFINE p == [poll[t] EXCEPT !.phase = "asleep"]
           s == IF server[t] = "input_required" THEN "working" ELSE server[t]
<1>1. /\ poll[t].phase = "input" /\ poll' = [poll EXCEPT ![t] = p]
      /\ server' = [server EXCEPT ![t] = s]
      /\ UNCHANGED <<sessionVars, storeVars, modern, notes, stirs, marked, walks, cancel>>
  BY DEF InputSubmitted, PollInv
<1>2. UNCHANGED <<modern, notes, stirs, list, dismissed, stuck, doubled, marked, walks,
                  cancel, wire>>
  BY <1>1 DEF storeVars, sessionVars
<1>3. SessionIInv' /\ RowsInv' /\ WalkInv'
  BY <1>1, <1>2, SessionSteps, RowsStay, WalksStay
<1>4. PollFits(t) /\ modern /\ cancel[t] = "none" /\ server[t] # "none"
  BY <1>1 DEF PollInv, PollFits
<1>5. s \in Statuses \union {"gone"}
  BY <1>4 DEF ServerInv, Statuses
<1> HIDE DEF s
<1>6. /\ server' \in [Tasks -> Statuses \union {"none", "gone"}]
      /\ server'[t] # "none" /\ \A u \in Tasks : u # t => server'[u] = server[u]
  BY <1>1, <1>5 DEF ServerInv, Statuses, Ended
<1>7. ServerInv'
  BY <1>2, <1>4, <1>6 DEF ServerInv
<1>8. p \in PollRec /\ p.phase = "asleep" /\ p.got = poll[t].got
  BY DEF PollInv, PollRec
<1> HIDE DEF p
<1>9. \A u \in Tasks : poll'[u] = IF u = t THEN p ELSE poll[u]
  BY <1>1 DEF PollInv
<1>10. PollFits(t)'
  BY <1>2, <1>4, <1>6, <1>8, <1>9 DEF PollFits
<1>11. PollInv'
  BY <1>1, <1>2, <1>6, <1>8, <1>10, OnePolls
<1>12. NewInv'
  BY <1>2, <1>6, <1>8, <1>9, NothingHeard DEF New
<1> QED BY <1>3, <1>7, <1>11, <1>12

(* The user cancels a task the client shows or polls: it has been heard of.  *)
LEMMA UserCancelsKeeps ==
  ASSUME TasksIInv, NEW t \in Tasks, UserCancels(t)
  PROVE  TasksIInv'
<1> USE DEF TasksIInv
<1> DEFINE old == poll[t]
           p == IF old.phase = "input" THEN NoPoll
                ELSE IF modern /\ old.phase \notin {"none", "called"}
                     THEN [old EXCEPT !.aborted = TRUE] ELSE old
<1>1. /\ At(list, t) # {} \/ old.phase \notin {"none", "called"}
      /\ cancel[t] = "none" /\ marked' = marked \union {t} /\ Stirred
      /\ poll' = [poll EXCEPT ![t] = p] /\ cancel' = [cancel EXCEPT ![t] = "asked"]
      /\ UNCHANGED <<sessionVars, taskServerVars, storeVars, notes, walks>>
  BY DEF UserCancels, PollInv
<1>2. UNCHANGED <<modern, server, notes, list, dismissed, stuck, doubled, walks, wire>>
  BY <1>1 DEF storeVars, sessionVars, taskServerVars
<1>3. SessionIInv' /\ RowsInv' /\ WalkInv'
  BY <1>1, <1>2, SessionSteps, RowsStay, WalksStay
<1>4. old \in PollRec /\ PollFits(t)
  BY DEF PollInv
<1>5. modern => ~New(t)
  <2>1. CASE At(list, t) # {}
    BY <2>1 DEF NewInv, Unheard, At, Ids
  <2>2. CASE old.phase \notin {"none", "called"}
    BY <1>4, <2>2 DEF New, PollFits
  <2> QED BY <1>1, <2>1, <2>2
<1>6. /\ cancel' \in [Tasks -> {"none", "asked", "acked", "refused"}]
      /\ cancel'[t] = "asked" /\ \A u \in Tasks : u # t => cancel'[u] = cancel[u]
  BY <1>1 DEF ServerInv
<1>7. ServerInv'
  BY <1>1, <1>2, <1>6, StirredIs DEF ServerInv
<1>8. /\ p \in PollRec
      /\ \/ p = NoPoll
         \/ /\ p.phase = old.phase /\ p.got = old.got /\ p.phase # "input"
            /\ modern /\ p.phase \notin {"none", "called"} => p.aborted
  BY <1>4, NoPollIs DEF PollRec
<1> HIDE DEF p
<1>9. \A u \in Tasks : poll'[u] = IF u = t THEN p ELSE poll[u]
  BY <1>1 DEF PollInv
<1>10. PollFits(t)'
  BY <1>2, <1>4, <1>8, <1>9, NoPollIs DEF PollFits
<1>11. PollInv'
  BY <1>1, <1>2, <1>6, <1>8, <1>10, OnePolls
<1>12. NewInv'
  <2>1. CASE modern
    <3>1. ~New(t)'
      BY <1>2, <1>5, <1>8, <1>9, <2>1, NoPollIs DEF New
    <3>2. \A u \in Tasks : New(u)' => New(u) /\ cancel'[u] \in {cancel[u], "none"}
      BY <1>2, <1>6, <1>9, <3>1 DEF New
    <3> QED BY <1>2, <3>2, NothingHeard
  <2>2. CASE ~modern
    BY <1>2, <2>2 DEF NewInv
  <2> QED BY <2>1, <2>2 DEF ServerInv
<1> QED BY <1>3, <1>7, <1>11, <1>12

(* The server takes the request to cancel, or refuses it. *)
LEMMA CancelHandledKeeps ==
  ASSUME TasksIInv, NEW t \in Tasks, CancelHandled(t)
  PROVE  TasksIInv'
<1> USE DEF TasksIInv
<1>1. /\ cancel[t] = "asked"
      /\ UNCHANGED <<sessionVars, storeVars, modern, stirs, marked, walks, poll>>
  BY DEF CancelHandled
<1>2. UNCHANGED <<modern, stirs, list, dismissed, stuck, doubled, marked, walks, poll, wire>>
  BY <1>1 DEF storeVars, sessionVars
<1>3. SessionIInv' /\ RowsInv' /\ WalkInv'
  BY <1>1, <1>2, SessionSteps, RowsStay, WalksStay
<1>4. PICK c \in {"acked", "refused"} : cancel' = [cancel EXCEPT ![t] = c]
  BY DEF CancelHandled
<1>5. /\ cancel' \in [Tasks -> {"none", "asked", "acked", "refused"}]
      /\ cancel'[t] # "none" /\ \A u \in Tasks : u # t => cancel'[u] = cancel[u]
  BY <1>4 DEF ServerInv
<1>6. "cancelled" \in Statuses /\ "cancelled" # "input_required"
  BY DEF Statuses, Ended
<1>7. /\ server' \in [Tasks -> Statuses \union {"none", "gone"}]
      /\ ~modern => \A u \in Tasks : server'[u] # "input_required"
      /\ \A u \in Tasks : server'[u] = "none" => server[u] = "none"
  <2>1. CASE server' = server
    BY <2>1 DEF ServerInv
  <2>2. CASE server' = [server EXCEPT ![t] = "cancelled"]
    BY <1>6, <2>2, ServerIs
  <2> QED BY <2>1, <2>2 DEF CancelHandled
<1>8. notes' \in Seq(Rows) /\ Len(notes') <= MaxNotes /\ (modern => notes' = <<>>)
  <2>1. CASE notes' = notes
    BY <2>1 DEF ServerInv
  <2>2. CASE Tells(t, "cancelled")
    BY <1>6, <2>2, TellsIs
  <2> QED BY <2>1, <2>2 DEF CancelHandled
<1>9. ServerInv'
  BY <1>2, <1>5, <1>7, <1>8 DEF ServerInv
<1>10. PollInv'
  <2>1. \A u \in Tasks : cancel'[u] # "none" => cancel[u] # "none"
    BY <1>1, <1>5
  <2>2. ASSUME NEW u \in Tasks PROVE PollFits(u)'
    <3>1. PollFits(u) /\ (cancel'[u] = "none" <=> cancel[u] = "none")
      BY <1>1, <1>5 DEF PollInv
    <3> QED BY <1>2, <1>7, <3>1 DEF PollFits
  <2> QED BY <1>2, <2>2 DEF PollInv
<1>11. NewInv'
  <2>1. CASE modern
    <3>1. ~New(t)
      BY <1>1, <2>1 DEF NewInv, Unheard
    <3>2. \A u \in Tasks : New(u)' => New(u) /\ cancel'[u] \in {cancel[u], "none"}
      BY <1>2, <1>5, <1>7, <3>1 DEF New
    <3> QED BY <1>2, <3>2, NothingHeard
  <2>2. CASE ~modern
    BY <1>2, <2>2 DEF NewInv
  <2> QED BY <2>1, <2>2 DEF ServerInv
<1> QED BY <1>3, <1>9, <1>10, <1>11

(* The store learns of the cancel.  While the task is listed once, its row   *)
(* is the one that is pinned.                                                *)
LEMMA PinsRow ==
  ASSUME RowsInv, NEW t \in Tasks, t \notin dismissed, dismissed' = dismissed,
         stuck' = stuck \union {t},
         Listing(IF At(list, t) = {} THEN list ELSE Merged(list, t, "cancelled"))
  PROVE  RowsInv' /\ Ids(list') \subseteq Ids(list) \union {t}
<1> DEFINE m == Merged(list, t, "cancelled")
           l == IF At(list, t) = {} THEN list ELSE m
<1>1. "cancelled" \in Statuses /\ list \in Seq(Rows)
  BY DEF Statuses, Ended, RowsInv
<1>2. /\ m \in Seq(Rows)
      /\ \A i \in DOMAIN m : m[i] = Row(t, "cancelled") \/ \E j \in DOMAIN list : m[i] = list[j]
      /\ At(list, t) # {} =>
           /\ Min(At(list, t)) \in At(list, t)
           /\ DOMAIN m = DOMAIN list
           /\ \A i \in DOMAIN list :
                m[i] = IF i = Min(At(list, t)) THEN Row(t, "cancelled") ELSE list[i]
  BY <1>1, MergedIs
<1>3. Row(t, "cancelled").id = t /\ Row(t, "cancelled").status = "cancelled"
  BY <1>1, RowIs
<1> HIDE DEF m
<1>4. /\ l \in Seq(Rows)
      /\ \A i \in DOMAIN l : l[i] = Row(t, "cancelled") \/ \E j \in DOMAIN list : l[i] = list[j]
  BY <1>1, <1>2
<1>5. list' = l /\ doubled' = (doubled \/ \E u \in Tasks : Cardinality(At(l, u)) > 1)
  BY DEF Listing, m
<1>6. ASSUME Faithful(list), Once(l), NEW i \in DOMAIN l
      PROVE  l[i].id \notin dismissed /\ (l[i].id \in stuck' => l[i].status = "cancelled")
  <2>1. l[i].id \notin dismissed
    BY <1>3, <1>4, <1>6 DEF Faithful, Cleared
  <2>2. CASE l[i].id # t
    <3>1. PICK j \in DOMAIN list : l[i] = list[j]
      BY <1>3, <1>4, <2>2
    <3> QED BY <1>6, <2>1, <2>2, <3>1 DEF Faithful, Pinned
  <2>3. CASE l[i].id = t
    <3>1. i \in At(l, t) /\ l[i] \in {Row(t, "cancelled")} \union {list[j] : j \in DOMAIN list}
      BY <1>4, <2>3 DEF At
    <3>2. At(list, t) # {}
      BY <1>4, <2>3, <3>1 DEF At
    <3>3. Min(At(list, t)) \in DOMAIN list /\ l = m
      BY <1>2, <3>2 DEF At
    <3>4. Min(At(list, t)) \in At(l, t) /\ l[Min(At(list, t))].status = "cancelled"
      BY <1>2, <1>3, <3>2, <3>3 DEF At
    <3> HIDE DEF l
    <3>5. i = Min(At(list, t))
      BY <1>4, <1>6, <3>1, <3>4, OneRow
    <3> QED BY <2>1, <3>4, <3>5
  <2> QED BY <2>2, <2>3
<1>7. Ids(l) \subseteq Ids(list) \union {t}
  BY <1>3, <1>4 DEF Ids
<1> HIDE DEF l
<1>8. ~doubled' => ~doubled /\ Once(l)
  BY <1>5, Zenon DEF Once
<1>9. Once(list)' <=> Once(l)
  BY <1>5 DEF Once
<1>10. ~doubled' => Faithful(list)'
  <2> SUFFICES ASSUME ~doubled' PROVE Faithful(list)'
    OBVIOUS
  <2>1. Faithful(list) /\ Once(l)
    BY <1>8 DEF RowsInv
  <2> QED BY <1>5, <1>6, <2>1 DEF Faithful, Cleared, Pinned
<1>11. doubled' \in BOOLEAN
  BY <1>5
<1> QED BY <1>4, <1>5, <1>7, <1>8, <1>9, <1>10, <1>11 DEF RowsInv

LEMMA CancelReturnsKeeps ==
  ASSUME TasksIInv, NEW t \in Tasks, CancelReturns(t)
  PROVE  TasksIInv'
<1> USE DEF TasksIInv
<1>1. /\ cancel[t] \in {"acked", "refused"} /\ cancel' = [cancel EXCEPT ![t] = "none"]
      /\ UNCHANGED <<sessionVars, taskServerVars, notes, stirs, dismissed, marked, walks, poll>>
  BY DEF CancelReturns
<1>2. UNCHANGED <<modern, server, notes, stirs, dismissed, marked, walks, poll, wire>>
  BY <1>1 DEF sessionVars, taskServerVars
<1>3. SessionIInv' /\ WalkInv'
  BY <1>1, <1>2, SessionSteps, WalksStay
<1>4. RowsInv' /\ Ids(list') \subseteq Ids(list) \union {t}
  <2>1. CASE UNCHANGED <<list, stuck, doubled>>
    BY <1>2, <2>1, RowsStay DEF Ids
  <2>2. CASE /\ t \notin dismissed /\ stuck' = stuck \union {t}
             /\ Listing(IF At(list, t) = {} THEN list ELSE Merged(list, t, "cancelled"))
    BY <1>2, <2>2, PinsRow
  <2> QED BY <2>1, <2>2 DEF CancelReturns
<1>5. /\ cancel' \in [Tasks -> {"none", "asked", "acked", "refused"}]
      /\ \A u \in Tasks : cancel'[u] \in {cancel[u], "none"}
  BY <1>1 DEF ServerInv
<1>6. ServerInv' /\ PollInv'
  <2>1. ASSUME NEW u \in Tasks PROVE PollFits(u)'
    <3>1. PollFits(u) /\ cancel'[u] \in {cancel[u], "none"}
      BY <1>5 DEF PollInv
    <3> QED BY <1>2, <3>1 DEF PollFits
  <2> QED BY <1>2, <1>5, <2>1 DEF ServerInv, PollInv
<1>7. NewInv'
  <2>1. modern => ~New(t)'
    <3>1. modern => ~New(t)
      BY <1>1 DEF NewInv, Unheard
    <3> QED BY <1>2, <3>1 DEF New
  <2> QED BY <1>2, <1>4, <1>5, <2>1, RowsOf
<1> QED BY <1>3, <1>4, <1>6, <1>7
-----------------------------------------------------------------------------
(* The steps of a refresh. *)

(* Only walk w takes a step. *)
LEMMA OneWalks ==
  ASSUME WalkInv, NEW w \in 1..Walks, NEW x \in Walk, walks' = [walks EXCEPT ![w] = x],
         modern' = modern,
         modern /\ x.phase = "asked" => x.ids # <<>>,
         ~modern /\ x.phase = "answered" /\ x.ids # <<>> => x.at < MaxTasks
  PROVE  WalkInv' /\ \A v \in 1..Walks : walks'[v] = IF v = w THEN x ELSE walks[v]
<1>1. /\ walks' \in [1..Walks -> Walk]
      /\ \A v \in 1..Walks : walks'[v] = IF v = w THEN x ELSE walks[v]
  BY DEF WalkInv
<1>2. ASSUME NEW v \in 1..Walks
      PROVE  /\ modern' /\ walks'[v].phase = "asked" => walks'[v].ids # <<>>
             /\ ~modern' /\ walks'[v].phase = "answered" /\ walks'[v].ids # <<>>
                  => walks'[v].at < MaxTasks
  <2>1. CASE v = w
    BY <1>1, <2>1
  <2>2. CASE v # w
    BY <1>1, <2>2 DEF WalkInv
  <2> QED BY <2>1, <2>2
<1> QED BY <1>1, <1>2 DEF WalkInv

(* The tasks a legacy server lists. *)
LEMMA ListedIs ==
  /\ Listed \in Seq(Tasks) /\ Len(Listed) \in Nat /\ Len(Listed) <= MaxTasks
  /\ \A i \in DOMAIN Listed : server[Listed[i]] \notin {"none", "gone"}
<1> DEFINE all == [i \in Tasks |-> i]
           held == {t \in Tasks : server[t] \notin {"none", "gone"}}
<1>1. all \in [1..MaxTasks -> Tasks] /\ MaxTasks \in Nat
  BY RequestorTasksAssumption DEF Tasks
<1>2. all \in Seq(Tasks) /\ Len(all) = MaxTasks
  BY <1>1
<1>3. Listed = Only(all, held)
  BY Zenon DEF Listed
<1> HIDE DEF all
<1>4. /\ Only(all, held) \in Seq(Tasks) /\ Len(Only(all, held)) <= Len(all)
      /\ \A i \in DOMAIN Only(all, held) : Only(all, held)[i] \in held
  BY <1>2, OnlyIs
<1> QED BY <1>2, <1>3, <1>4

(* What a modern walk asks for next: the tasks left after the first. *)
LEMMA TailIs ==
  ASSUME NEW ids \in Seq(Tasks), ids # <<>>
  PROVE  /\ Head(ids) \in Tasks /\ Tail(ids) \in Seq(Tasks)
         /\ Head(ids) \in {ids[i] : i \in DOMAIN ids}
         /\ {Tail(ids)[i] : i \in DOMAIN Tail(ids)} \subseteq {ids[i] : i \in DOMAIN ids}
<1>1. /\ Head(ids) \in Tasks /\ Tail(ids) \in Seq(Tasks) /\ Head(ids) = ids[1]
      /\ Len(ids) \in Nat /\ Len(ids) > 0 /\ DOMAIN ids = 1..Len(ids)
      /\ Len(Tail(ids)) = Len(ids) - 1 /\ DOMAIN Tail(ids) = 1..(Len(ids) - 1)
      /\ \A i \in 1..(Len(ids) - 1) : Tail(ids)[i] = ids[i + 1]
  OBVIOUS
<1>2. 1 \in DOMAIN ids /\ \A i \in 1..(Len(ids) - 1) : i + 1 \in DOMAIN ids
  BY <1>1
<1> QED BY <1>1, <1>2

LEMMA WalkAnsweredKeeps ==
  ASSUME TasksIInv, NEW w \in 1..Walks, WalkAnswered(w)
  PROVE  TasksIInv'
<1> USE DEF TasksIInv
<1> DEFINE step == walks[w]
           t == Head(step.ids)
           page == IF modern
                   THEN IF server[t] \in Statuses THEN <<Row(t, server[t])>> ELSE <<>>
                   ELSE IF step.at < Len(Listed)
                        THEN LET k == Listed[step.at + 1] IN <<Row(k, server[k])>>
                        ELSE <<>>
           ids == IF modern THEN Tail(step.ids)
                  ELSE SubSeq(Listed, step.at + 2, Len(Listed))
           x == [phase |-> "answered", at |-> step.at, page |-> page, ids |-> ids]
<1>1. /\ step.phase = "asked" /\ walks' = [walks EXCEPT ![w] = x]
      /\ UNCHANGED <<sessionVars, taskServerVars, notes, stirs, storeVars, marked, poll, cancel>>
  BY Zenon DEF WalkAnswered
<1>2. UNCHANGED <<modern, server, notes, stirs, list, dismissed, stuck, doubled, marked, poll,
                  cancel, wire>>
  BY <1>1 DEF storeVars, sessionVars, taskServerVars
<1>3. SessionIInv' /\ RowsInv' /\ ServerInv' /\ PollInv'
  BY <1>1, <1>2, SessionSteps, RowsStay DEF ServerInv, PollInv, PollFits
<1>4. step \in Walk /\ step.ids \in Seq(Tasks) /\ step.at \in 0..MaxTasks
  BY DEF WalkInv, Walk
<1>5. <<>> \in Seq(Rows) /\ Ids(<<>>) = {}
  BY DEF Ids
<1>6. ASSUME NEW u \in Tasks, server[u] \in Statuses
      PROVE  <<Row(u, server[u])>> \in Seq(Rows) /\ Ids(<<Row(u, server[u])>>) = {u}
  <2> DEFINE r == Row(u, server[u])
  <2>1. r \in Rows /\ r.id = u
    BY <1>6, RowIs
  <2> HIDE DEF r
  <2>2. <<r>> \in Seq(Rows) /\ DOMAIN <<r>> = {1} /\ <<r>>[1] = r
    BY <2>1
  <2> HIDE DEF Rows
  <2>3. Ids(<<r>>) = {u}
    BY <2>1, <2>2 DEF Ids
  <2> QED BY <2>2, <2>3 DEF r
<1>7. /\ page \in Seq(Rows) /\ ids \in Seq(Tasks)
      /\ modern => /\ {ids[i] : i \in DOMAIN ids} \subseteq Carried(step)
                   /\ Ids(page) \subseteq Carried(step)
      /\ ~modern /\ ids # <<>> => step.at < MaxTasks
  <2>1. CASE modern
    <3>1. step.ids # <<>>
      BY <1>1, <2>1 DEF WalkInv
    <3>2. /\ t \in Tasks /\ ids \in Seq(Tasks)
          /\ t \in {step.ids[i] : i \in DOMAIN step.ids}
          /\ {ids[i] : i \in DOMAIN ids} \subseteq {step.ids[i] : i \in DOMAIN step.ids}
      BY <1>4, <2>1, <3>1, TailIs
    <3> HIDE DEF t, ids
    <3>3. page \in Seq(Rows) /\ Ids(page) \subseteq {t}
      BY <1>5, <1>6, <2>1, <3>2
    <3> HIDE DEF page
    <3> QED BY <2>1, <3>2, <3>3 DEF Carried
  <2>2. CASE ~modern
    <3>1. page \in Seq(Rows)
      <4>1. CASE step.at < Len(Listed)
        <5> DEFINE k == Listed[step.at + 1]
        <5>1. step.at + 1 \in DOMAIN Listed
          BY <1>4, <4>1, ListedIs
        <5>2. k \in Tasks /\ server[k] \in Statuses
          BY <5>1, ListedIs DEF ServerInv
        <5>3. page = <<Row(k, server[k])>>
          BY <2>2, <4>1
        <5> HIDE DEF page, k
        <5> QED BY <1>6, <5>2, <5>3
      <4>2. CASE ~(step.at < Len(Listed))
        BY <1>5, <2>2, <4>2
      <4> QED BY <4>1, <4>2
    <3>2. ids \in Seq(Tasks) /\ (ids # <<>> => step.at < MaxTasks)
      <4> DEFINE known == Listed
      <4>1. known \in Seq(Tasks) /\ Len(known) \in Nat /\ Len(known) <= MaxTasks
        BY ListedIs
      <4>2. ids = SubSeq(known, step.at + 2, Len(known))
        BY <2>2
      <4> HIDE DEF known, ids
      <4>3. ids \in Seq(Tasks)
        BY <1>4, <4>1, <4>2
      <4>4. ASSUME ~(step.at < MaxTasks) PROVE ids = <<>>
        <5>1. step.at + 2 > Len(known)
          BY <1>4, <4>1, <4>4, RequestorTasksAssumption
        <5> QED BY <1>4, <4>1, <4>2, <5>1
      <4> QED BY <4>3, <4>4
    <3> HIDE DEF page, ids
    <3> QED BY <2>2, <3>1, <3>2
  <2> QED BY <2>1, <2>2 DEF ServerInv
<1> HIDE DEF page, ids
<1>8. /\ x \in Walk /\ x.phase = "answered" /\ x.ids = ids /\ x.page = page
      /\ x.at = step.at
  BY <1>4, <1>7 DEF Walk
<1>9. modern => Carried(x) \subseteq Carried(step)
  <2>1. Carried(x) = {ids[i] : i \in DOMAIN ids} \union Ids(page)
    BY <1>8, Zenon DEF Carried
  <2> QED BY <1>7, <2>1
<1> HIDE DEF x
<1>10. WalkInv' /\ \A v \in 1..Walks : walks'[v] = IF v = w THEN x ELSE walks[v]
  BY <1>1, <1>2, <1>7, <1>8, OneWalks
<1>11. NewInv'
  <2> SUFFICES ASSUME modern, NEW u \in Tasks, New(u)' PROVE Unheard(u)'
    BY <1>2 DEF NewInv
  <2>1. Unheard(u)
    BY <1>2 DEF NewInv, New
  <2>2. \A v \in 1..Walks : u \notin Carried(walks'[v])
    BY <1>9, <1>10, <2>1 DEF Unheard
  <2> QED BY <1>2, <2>1, <2>2 DEF Unheard, Ids, Carried
<1> QED BY <1>3, <1>10, <1>11

(* A page, or one task, is taken into the list. *)
LEMMA WalkCommitsKeeps ==
  ASSUME TasksIInv, NEW w \in 1..Walks, WalkCommits(w)
  PROVE  TasksIInv'
<1> USE DEF TasksIInv
<1> DEFINE step == walks[w]
           r == step.page[1]
           l == IF modern
                THEN IF step.page = <<>> THEN list ELSE Updated(list, r.id, r.status)
                ELSE IF step.at = 0 THEN Kept(step.page) ELSE list \o Kept(step.page)
           x == IF step.ids = <<>> THEN Idle
                ELSE IF modern THEN Asking(step.ids, 0) ELSE Asking(<<>>, step.at + 1)
<1>1. /\ step.phase = "answered" /\ Listing(l) /\ walks' = [walks EXCEPT ![w] = x]
      /\ UNCHANGED <<sessionVars, taskServerVars, notes, stirs, dismissed, stuck, marked,
                     poll, cancel>>
  BY Zenon DEF WalkCommits
<1>2. UNCHANGED <<modern, server, notes, stirs, dismissed, stuck, marked, poll, cancel, wire>>
  BY <1>1 DEF sessionVars, taskServerVars
<1>3. SessionIInv' /\ ServerInv' /\ PollInv'
  BY <1>1, <1>2, SessionSteps DEF ServerInv, PollInv, PollFits
<1>4. /\ step \in Walk /\ step.ids \in Seq(Tasks) /\ step.at \in 0..MaxTasks
      /\ step.page \in Seq(Rows)
  BY DEF WalkInv, Walk
<1>5. ASSUME step.page # <<>>
      PROVE  /\ 1 \in DOMAIN step.page /\ r.id \in Tasks /\ r.status \in Statuses
             /\ r.id \in Carried(step)
  <2>1. 1 \in DOMAIN step.page
    BY <1>4, <1>5
  <2> QED BY <1>4, <2>1, RowsAre DEF Carried, Ids
<1>6. /\ l \in Seq(Rows) /\ (Faithful(list) => Faithful(l))
      /\ modern => Ids(l) \subseteq Ids(list) \union Carried(step)
  <2>1. list \in Seq(Rows) /\ stuck \subseteq Tasks
    BY DEF RowsInv
  <2>2. CASE modern /\ step.page = <<>>
    BY <2>1, <2>2
  <2>3. CASE modern /\ step.page # <<>>
    <3>1. l = Updated(list, r.id, r.status)
      BY <2>3
    <3> HIDE DEF l, r
    <3> QED BY <1>5, <2>1, <2>3, <3>1, UpdatedIs
  <2>4. CASE ~modern
    <3> DEFINE k == Kept(step.page)
    <3>1. k \in Seq(Rows) /\ Faithful(k)
      BY <1>4, <2>1, KeptIs
    <3>2. l = k \/ l = list \o k
      BY <2>4
    <3> HIDE DEF l, k
    <3> QED BY <2>1, <2>4, <3>1, <3>2, ConcatIs
  <2> QED BY <2>2, <2>3, <2>4 DEF ServerInv
<1> HIDE DEF l
<1>7. RowsInv' /\ list' = l
  BY <1>1, <1>2, <1>6, ListingKeeps DEF Listing
<1>8. /\ x \in Walk /\ x.phase # "answered" /\ (modern => Carried(x) \subseteq Carried(step))
      /\ modern /\ x.phase = "asked" => x.ids # <<>>
  <2>1. CASE step.ids = <<>>
    <3>1. x = Idle
      BY <2>1
    <3> HIDE DEF x
    <3> QED BY <3>1, IdleIs
  <2>2. CASE step.ids # <<>> /\ modern
    <3>1. x = Asking(step.ids, 0) /\ 0 \in 0..MaxTasks
      BY <2>2, RequestorTasksAssumption
    <3> HIDE DEF x
    <3>2. /\ x \in Walk /\ x.phase = "asked" /\ x.ids = step.ids
          /\ Carried(x) = {step.ids[i] : i \in DOMAIN step.ids}
      BY <1>4, <3>1, AskingIs
    <3> QED BY <2>2, <3>2 DEF Carried
  <2>3. CASE step.ids # <<>> /\ ~modern
    <3>1. x = Asking(<<>>, step.at + 1) /\ <<>> \in Seq(Tasks)
      BY <2>3
    <3>2. step.at < MaxTasks
      BY <1>1, <2>3 DEF WalkInv
    <3>3. step.at + 1 \in 0..MaxTasks
      BY <1>4, <3>2, RequestorTasksAssumption
    <3> HIDE DEF x
    <3> QED BY <2>3, <3>1, <3>3, AskingIs
  <2> QED BY <2>1, <2>2, <2>3 DEF ServerInv
<1> HIDE DEF x
<1>9. WalkInv' /\ \A v \in 1..Walks : walks'[v] = IF v = w THEN x ELSE walks[v]
  BY <1>1, <1>2, <1>8, OneWalks
<1>10. NewInv'
  <2> SUFFICES ASSUME modern, NEW u \in Tasks, New(u)' PROVE Unheard(u)'
    BY <1>2 DEF NewInv
  <2>1. Unheard(u)
    BY <1>2 DEF NewInv, New
  <2>2. u \notin Carried(step)
    BY <2>1 DEF Unheard
  <2>3. \A v \in 1..Walks : u \notin Carried(walks'[v])
    BY <1>8, <1>9, <2>1 DEF Unheard
  <2>4. u \notin Ids(list')
    BY <1>6, <1>7, <2>1, <2>2 DEF Unheard
  <2> QED BY <1>2, <2>1, <2>3, <2>4 DEF Unheard, Ids, Carried
<1> QED BY <1>3, <1>7, <1>9, <1>10

LEMMA WalkFailsKeeps ==
  ASSUME TasksIInv, NEW w \in 1..Walks, WalkFails(w)
  PROVE  TasksIInv'
<1> USE DEF TasksIInv
<1>1. /\ ~modern /\ Stirred /\ walks' = [walks EXCEPT ![w] = Idle]
      /\ UNCHANGED <<sessionVars, taskServerVars, notes, storeVars, marked, poll, cancel>>
  BY DEF WalkFails
<1>2. UNCHANGED <<modern, server, notes, list, dismissed, stuck, doubled, marked, poll,
                  cancel, wire>>
  BY <1>1 DEF storeVars, sessionVars, taskServerVars
<1>3. SessionIInv' /\ RowsInv' /\ PollInv'
  BY <1>1, <1>2, SessionSteps, RowsStay DEF PollInv, PollFits
<1>4. ServerInv' /\ NewInv'
  BY <1>1, <1>2, StirredIs DEF ServerInv, NewInv
<1>5. WalkInv'
  BY <1>1, <1>2, IdleIs, OneWalks
<1> QED BY <1>3, <1>4, <1>5

(* Clear completed: while every task is listed once, none of the rows that   *)
(* stay is of a task that is cleared.                                        *)
LEMMA ClearCompletedKeeps == ASSUME TasksIInv, ClearCompleted PROVE TasksIInv'
<1> USE DEF TasksIInv
<1> DEFINE active == {r \in Rows : r.status \notin Ended}
           done == {i \in DOMAIN list : list[i].status \in Ended}
           l == Only(list, active)
<1>1. /\ Stirred /\ dismissed' = dismissed \union {list[i].id : i \in done} /\ Listing(l)
      /\ UNCHANGED <<sessionVars, taskServerVars, notes, stuck, marked, walks, poll, cancel>>
  BY DEF ClearCompleted
<1>2. UNCHANGED <<modern, server, notes, stuck, marked, walks, poll, cancel, wire>>
  BY <1>1 DEF sessionVars, taskServerVars
<1>3. list \in Seq(Rows) /\ dismissed \subseteq Tasks /\ stuck \subseteq Tasks
  BY DEF RowsInv
<1> HIDE DEF active, done
<1>4. /\ l \in Seq(Rows)
      /\ \A i \in DOMAIN l : l[i] \in active /\ \E j \in DOMAIN list : l[i] = list[j]
  BY <1>3, OnlyIs
<1> HIDE DEF l
<1> USE DEF active, done
<1>5. list' = l /\ doubled' = (doubled \/ \E t \in Tasks : Cardinality(At(l, t)) > 1)
  BY <1>1 DEF Listing
<1>6. doubled' \in BOOLEAN /\ dismissed' \subseteq Tasks
  <2>1. \A i \in DOMAIN list : list[i].id \in Tasks
    BY <1>3, RowsAre
  <2> QED BY <1>1, <1>3, <1>5, <2>1
<1>7. ~doubled' => ~doubled /\ Once(l)
  BY <1>5, Zenon DEF Once
<1>8. Once(list)' <=> Once(l)
  BY <1>5 DEF Once
<1>9. ~doubled' => Faithful(list)'
  <2> SUFFICES ASSUME ~doubled', NEW i \in DOMAIN l
               PROVE  l[i].id \notin dismissed' /\ (l[i].id \in stuck => l[i].status = "cancelled")
    BY <1>2, <1>5 DEF Faithful, Cleared, Pinned
  <2>1. Once(list) /\ Faithful(list)
    BY <1>7 DEF RowsInv
  <2>2. PICK j \in DOMAIN list : l[i] = list[j]
    BY <1>4
  <2>3. l[i].status \notin Ended
    BY <1>4
  <2>4. ASSUME NEW k \in done, list[k].id = list[j].id PROVE FALSE
    <3>1. list[j].id \in Tasks
      BY <1>3, RowsAre
    <3>2. k \in At(list, list[j].id) /\ j \in At(list, list[j].id)
      BY <2>4 DEF At
    <3> HIDE DEF done
    <3>3. k = j
      BY <1>3, <2>1, <3>1, <3>2, OneRow
    <3> QED BY <2>2, <2>3, <3>3 DEF done
  <2>5. l[i].id \notin dismissed /\ (l[i].id \in stuck => l[i].status = "cancelled")
    BY <2>1, <2>2 DEF Faithful, Cleared, Pinned
  <2> HIDE DEF done
  <2> QED BY <1>1, <2>2, <2>4, <2>5
<1>10. RowsInv'
  BY <1>2, <1>3, <1>4, <1>5, <1>6, <1>7, <1>8, <1>9 DEF RowsInv
<1>11. Ids(list') \subseteq Ids(list)
  BY <1>4, <1>5 DEF Ids
<1>12. SessionIInv' /\ WalkInv' /\ PollInv'
  BY <1>1, <1>2, SessionSteps, WalksStay DEF PollInv, PollFits
<1>13. ServerInv'
  BY <1>1, <1>2, StirredIs DEF ServerInv
<1>14. NewInv'
  BY <1>2, <1>11, NothingHeard DEF New
<1> QED BY <1>10, <1>12, <1>13, <1>14
-----------------------------------------------------------------------------
(* The invariant of RequestorTasks, and what it says. *)

LEMMA TasksStarts == TasksInit => TasksIInv
<1> SUFFICES ASSUME TasksInit PROVE TasksIInv
  OBVIOUS
<1>1. /\ modern \in BOOLEAN /\ server = [t \in Tasks |-> "none"] /\ notes = <<>> /\ stirs = 0
      /\ list = <<>> /\ dismissed = {} /\ stuck = {} /\ doubled = FALSE /\ marked = {}
      /\ walks = [w \in 1..Walks |-> Idle] /\ poll = [t \in Tasks |-> NoPoll]
      /\ cancel = [t \in Tasks |-> "none"]
  BY DEF TasksInit
<1>2. RowsInv
  <2>1. \A t \in Tasks : At(list, t) = {}
    BY <1>1 DEF At
  <2>2. Once(list)
    BY <2>1, FS_EmptySet DEF Once
  <2>3. Faithful(list)
    BY <1>1 DEF Faithful, Cleared, Pinned
  <2>4. list \in Seq(Rows) /\ dismissed \subseteq Tasks /\ stuck \subseteq Tasks
    BY <1>1
  <2> QED BY <1>1, <2>2, <2>3, <2>4, Zenon DEF RowsInv
<1>3. \A w \in 1..Walks : walks[w] = Idle
  BY <1>1
<1>4. WalkInv
  BY <1>1, <1>3, IdleIs DEF WalkInv
<1>5. ServerInv
  <2>1. notes \in Seq(Rows) /\ Len(notes) <= MaxNotes /\ stirs \in 0..MaxStirs
    BY <1>1, RequestorTasksAssumption
  <2>2. server \in [Tasks -> Statuses \union {"none", "gone"}]
        /\ \A t \in Tasks : server[t] # "input_required"
    BY <1>1
  <2>3. cancel \in [Tasks -> {"none", "asked", "acked", "refused"}] /\ marked \subseteq Tasks
    BY <1>1
  <2> QED BY <1>1, <2>1, <2>2, <2>3 DEF ServerInv
<1>6. PollInv
  <2>1. poll \in [Tasks -> PollRec] /\ \A t \in Tasks : poll[t] = NoPoll
    BY <1>1, NoPollIs
  <2> QED BY <2>1, NoPollIs DEF PollInv, PollFits
<1>7. NewInv
  <2>1. \A w \in 1..Walks : Carried(walks[w]) = {}
    BY <1>3, IdleIs
  <2> QED BY <1>1, <2>1 DEF NewInv, Unheard, Ids
<1> QED BY <1>2, <1>4, <1>5, <1>6, <1>7, SessionStarts DEF TasksIInv, TasksInit

LEMMA TasksSteps == TasksIInv /\ [TasksNext]_<<sessionVars, taskVars>> => TasksIInv'
<1> SUFFICES ASSUME TasksIInv, [TasksNext]_<<sessionVars, taskVars>> PROVE TasksIInv'
  OBVIOUS
<1>1. CASE UNCHANGED <<sessionVars, taskVars>>
  <2>1. UNCHANGED <<modern, server, notes, stirs, list, dismissed, stuck, doubled, marked,
                    walks, poll, cancel, wire>>
    BY <1>1 DEF sessionVars, taskVars, taskServerVars, storeVars
  <2>2. SessionIInv' /\ RowsInv' /\ WalkInv'
    BY <1>1, <2>1, SessionSteps, RowsStay, WalksStay DEF TasksIInv
  <2>3. ServerInv' /\ PollInv' /\ NewInv'
    BY <2>1 DEF TasksIInv, ServerInv, PollInv, PollFits, NewInv, New, Unheard, Ids, Carried
  <2> QED BY <2>2, <2>3 DEF TasksIInv
<1>2. CASE TasksOpen \/ TasksAnnounced \/ TasksClose \/ TasksErr \/ NoteReaches \/ ClearCompleted
  BY <1>2, TasksOpenKeeps, RefreshKeeps, TasksCloseKeeps, TasksErrKeeps, NoteReachesKeeps,
     ClearCompletedKeeps
<1>3. ASSUME NEW t \in Tasks,
             \/ CallTool(t) \/ HandleArrives(t) \/ PollAnswered(t)
             \/ PollReturns(t) \/ ResultReturns(t) \/ PollFails(t)
      PROVE  TasksIInv'
  BY <1>3, CallToolKeeps, HandleArrivesKeeps, PollAnsweredKeeps, PollReturnsKeeps,
     ResultReturnsKeeps, PollFailsKeeps
<1>4. ASSUME NEW t \in Tasks,
             \/ InputSubmitted(t) \/ UserCancels(t) \/ CancelHandled(t) \/ CancelReturns(t)
             \/ \E s \in Statuses : ServerMoves(t, s)
      PROVE  TasksIInv'
  BY <1>4, InputSubmittedKeeps, UserCancelsKeeps, CancelHandledKeeps, CancelReturnsKeeps,
     ServerMovesKeeps
<1>5. ASSUME NEW w \in 1..Walks,
             RefreshTasks(w) \/ WalkAnswered(w) \/ WalkCommits(w) \/ WalkFails(w)
      PROVE  TasksIInv'
  BY <1>5, RefreshKeeps, WalkAnsweredKeeps, WalkCommitsKeeps, WalkFailsKeeps
<1> QED BY <1>1, <1>2, <1>3, <1>4, <1>5, Zenon DEF TasksNext

LEMMA TasksTyped ==
  TasksIInv => TasksTypeOK /\ ClearedStayGone /\ CancelSticks /\ InputIsLive
<1> SUFFICES ASSUME TasksIInv
             PROVE  TasksTypeOK /\ ClearedStayGone /\ CancelSticks /\ InputIsLive
  OBVIOUS
<1>1. TasksTypeOK
  BY Zenon DEF TasksIInv, RowsInv, WalkInv, Walk, ServerInv, PollInv, PollRec, TasksTypeOK
<1>2. ClearedStayGone /\ CancelSticks
  BY DEF TasksIInv, RowsInv, Faithful, Cleared, Pinned, ClearedStayGone, CancelSticks, Ids
<1>3. InputIsLive
  BY DEF TasksIInv, PollInv, PollFits, InputIsLive
<1> QED BY <1>1, <1>2, <1>3

(* A task the user cleared stays gone, whatever refreshes, polls and          *)
(* notifications were on their way.                                          *)
THEOREM ClearedIsGone == TasksSpec => []ClearedStayGone
BY TasksStarts, TasksSteps, TasksTyped, PTL DEF TasksSpec

(* The row of a task whose cancel the server accepted says so from then on.  *)
THEOREM CancelIsFinal == TasksSpec => []CancelSticks
BY TasksStarts, TasksSteps, TasksTyped, PTL DEF TasksSpec

(* No wait for the user's input outlives the connection or a cancel.         *)
THEOREM NoInputIsStuck == TasksSpec => []InputIsLive
BY TasksStarts, TasksSteps, TasksTyped, PTL DEF TasksSpec
-----------------------------------------------------------------------------
(* One list of the server.  Whatever is shown is current, or something that  *)
(* is under way, or on the screen, will tell.                                *)

Fetches == [of : 0..MaxSessions, got : Versions]
Read == [page : 1..Pages, got : Versions]
Load == [page : 0..Pages, got : Versions, of : 0..MaxSessions]

(* What is not said of contents. *)
FieldsInv ==
  /\ current \in 1..(MaxChanges + 1) /\ notices \in Nat /\ notices < current
  /\ auto \in BOOLEAN /\ paginated \in BOOLEAN /\ saves \in 0..MaxSaves
  /\ fallback \in Fallbacks
  /\ items \in Versions /\ lit \in BOOLEAN /\ err \in 0..MaxSessions
  /\ timer \in BOOLEAN /\ more \in BOOLEAN /\ pageErr \in BOOLEAN
  /\ excuses \subseteq {"overlap", "dropped", "reverted", "late", "masked"}
  /\ announced => Connected

(* The loop runs while its fetch is in flight, and a turn is queued only     *)
(* while it runs; two fetches in flight are an overlap.                      *)
LoopInv ==
  /\ running \in BOOLEAN /\ runQueued \in BOOLEAN
  /\ running <=> fetch[Loop] # NoFetch
  /\ runQueued => running
  /\ fetch \in [Callers -> Fetches]
  /\ \A c \in Callers : fetch[c] # NoFetch => fetch[c].of > 0
  /\ \A c, d \in Callers :
       c # d /\ fetch[c] # NoFetch /\ fetch[d] # NoFetch => "overlap" \in excuses

(* The pages follow each other, the one in flight included. *)
PagesInv ==
  /\ pages \in Seq(Read) /\ load \in Load
  /\ load.page = 0 => load = NoLoad
  /\ load.page > 1 => Len(pages) < load.page
  /\ more => pages # <<>> /\ Len(pages) < Pages
  /\ load.of <= session
  /\ load.page > 1 /\ Connected /\ load.of = session => load.page = Len(pages) + 1
  /\ PagesInOrder

Sign == lit \/ notices > 0 \/ timer \/ runQueued

AggregateInv ==
  announced /\ ~paginated /\ excuses \intersect {"overlap", "reverted"} = {} =>
    \/ Sign
    \/ \E c \in Callers : fetch[c] # NoFetch /\ fetch[c].got \in {0, current}
    \/ (\A c \in Callers : fetch[c] = NoFetch) /\ (items = current \/ err # 0)

PagesCurrent ==
  /\ pages # <<>> /\ \A i \in DOMAIN pages : pages[i] = [page |-> i, got |-> current]
  /\ load = NoLoad \/ (load.page = Len(pages) + 1 /\ load.got \in {0, current})

(* A first page in flight will replace what there is, errors included. *)
PagedInv ==
  announced /\ paginated /\ excuses \intersect {"dropped", "reverted"} = {} =>
    \/ Sign
    \/ load.page = 1 /\ load.got \in {0, current}
    \/ load.page # 1 /\ (pageErr \/ excuses \intersect {"late", "masked"} # {} \/ PagesCurrent)

ListIInv == SessionIInv /\ FieldsInv /\ LoopInv /\ PagesInv /\ AggregateInv /\ PagedInv

(* The loop, the user and the sessions are callers apart.                    *)
LEMMA CallersApart ==
  /\ Loop \in Callers /\ User \in Callers /\ User # Loop
  /\ \A n \in 0..MaxSessions : n \in Callers /\ (n > 0 => n # Loop)
<1>1. MaxSessions \in Nat
  BY SessionAssumption
<1> QED BY <1>1 DEF Loop, User, Callers

LEMMA Asks ==
  ASSUME SessionIInv, NEW f \in [Callers -> Fetches], NEW c \in Callers
  PROVE  /\ Asked(c, f) \in [Callers -> Fetches]
         /\ \A d \in Callers : d # c => Asked(c, f)[d] = f[d]
         /\ ~Connected => Asked(c, f) = f
         /\ Connected => /\ Asked(c, f)[c] # NoFetch
                         /\ Asked(c, f)[c].of > 0 /\ Asked(c, f)[c].got = 0
<1>1. CASE Connected
  <2> DEFINE a == [of |-> session, got |-> 0]
  <2>1. session \in 0..MaxSessions /\ session > 0 /\ MaxSessions \in Nat
    BY <1>1, SessionAssumption DEF SessionIInv, SessionTypeOK
  <2>2. 0 \in Versions
    BY ManagedListAssumption DEF Versions
  <2>3. a \in Fetches /\ a.of > 0 /\ a.got = 0 /\ a # NoFetch
    BY <2>1, <2>2 DEF Fetches, NoFetch
  <2>4. Asked(c, f) = [f EXCEPT ![c] = a]
    BY <1>1 DEF Asked
  <2> HIDE DEF a
  <2> QED BY <1>1, <2>3, <2>4
<1>2. CASE ~Connected
  BY <1>2 DEF Asked
<1> QED BY <1>1, <1>2

LEMMA Overlaps ==
  ASSUME NEW f
  PROVE  /\ Overlap(f) \subseteq {"overlap"}
         /\ \A c, d \in Callers :
              c # d /\ f[c] # NoFetch /\ f[d] # NoFetch => "overlap" \in Overlap(f)
BY DEF Overlap, Fetching

(* The steps that leave fetches, pages or what is shown as they are. *)
LEMMA LoopStays ==
  ASSUME LoopInv, UNCHANGED <<running, runQueued, fetch>>,
         "overlap" \in excuses => "overlap" \in excuses'
  PROVE  LoopInv'
BY DEF LoopInv

LEMMA PagesStay ==
  ASSUME PagesInv, UNCHANGED <<pages, more, load>>, session <= session',
         Connected' => Connected \/ load.of # session',
         session' = session \/ load.of # session',
         SessionIInv, SessionIInv',
         "late" \in excuses => "late" \in excuses'
  PROVE  PagesInv'
<1>1. load.of <= session'
  BY DEF PagesInv, Load, SessionIInv, SessionTypeOK
<1> QED BY <1>1 DEF PagesInv, PagesInOrder

LEMMA AggregateStays ==
  ASSUME AggregateInv, UNCHANGED <<announced, paginated, items, err, fetch, current>>,
         excuses \intersect {"overlap", "reverted"} \subseteq excuses', Sign => Sign'
  PROVE  AggregateInv'
BY DEF AggregateInv

LEMMA PagedStays ==
  ASSUME PagedInv, UNCHANGED <<announced, paginated, pages, load, pageErr, current>>,
         excuses \intersect {"dropped", "reverted", "late", "masked"} \subseteq excuses',
         Sign => Sign'
  PROVE  PagedInv'
BY DEF PagedInv, PagesCurrent

-----------------------------------------------------------------------------
(* The steps of the session, for the list. *)

LEMMA ListAway ==
  ASSUME ListIInv, SessionCloses \/ SessionErrs,
         DropLists \/ UNCHANGED listVars
  PROVE  ListIInv'
<1> USE DEF ListIInv
<1>1. SessionIInv' /\ ~announced' /\ session' = session /\ ~Connected'
  BY SessionSteps DEF SessionCloses, SessionErrs, Connected
<1>2. /\ UNCHANGED <<current, notices, auto, paginated, saves, fallback, running, runQueued,
                     fetch, load, excuses>>
      /\ \/ UNCHANGED <<items, lit, err, timer, pages, more, pageErr>>
         \/ /\ items' = 0 /\ lit' = FALSE /\ err' = 0 /\ timer' = FALSE
            /\ pages' = <<>> /\ more' = FALSE /\ pageErr' = FALSE
  BY DEF DropLists, listVars, serverVars, settingVars, itemVars, loopVars, pagedVars
<1>3. 0 \in Versions /\ 0 \in 0..MaxSessions
  BY ManagedListAssumption, SessionAssumption DEF Versions
<1>4. FieldsInv'
  BY <1>1, <1>2, <1>3 DEF FieldsInv
<1>5. LoopInv'
  BY <1>2, LoopStays
<1>6. PagesInv'
  <2>1. CASE UNCHANGED <<pages, more>>
    BY <1>1, <1>2, <2>1, PagesStay DEF SessionIInv, SessionTypeOK
  <2>2. CASE pages' = <<>> /\ more' = FALSE
    <3>1. pages' \in Seq(Read) /\ Len(pages') = 0 /\ DOMAIN pages' = {}
      BY <2>2
    <3>2. load' = load /\ (load.page > 1 => Len(pages') < load.page)
      <4>1. load.page \in 0..Pages
        BY DEF PagesInv, Load
      <4> QED BY <1>2, <3>1, <4>1, ManagedListAssumption
    <3>3. PagesInOrder'
      BY <3>1 DEF PagesInOrder
    <3> QED BY <1>1, <2>2, <3>1, <3>2, <3>3 DEF PagesInv
  <2> QED BY <1>2, <2>1, <2>2
<1> QED BY <1>1, <1>4, <1>5, <1>6 DEF AggregateInv, PagedInv

LEMMA ListOpensKeeps == ASSUME ListIInv, ListOpens PROVE ListIInv'
<1> USE DEF ListIInv
<1>1. /\ SessionIInv' /\ ~announced' /\ session' = session + 1 /\ ~Connected
      /\ session \in Nat
  <2>1. SessionOpens
    BY DEF ListOpens
  <2>2. SessionIInv'
    BY <2>1, SessionSteps
  <2>3. session \in Nat
    BY DEF SessionIInv, SessionTypeOK
  <2> QED BY <2>1, <2>2, <2>3 DEF SessionOpens
<1>2. /\ UNCHANGED <<current, auto, paginated, saves, fallback, items, lit, err, timer,
                     running, runQueued, fetch, pages, more, load, pageErr, excuses>>
      /\ notices' \in {notices, 0}
  BY DEF ListOpens, settingVars, itemVars, loopVars, pagedVars
<1>3. FieldsInv'
  BY <1>1, <1>2, ManagedListAssumption DEF FieldsInv
<1>4. PagesInv'
  <2>1. load.of \in 0..MaxSessions /\ load.of <= session
    BY DEF PagesInv, Load
  <2>2. load.of # session' /\ session <= session'
    BY <1>1, <2>1, SessionAssumption
  <2> QED BY <1>1, <1>2, <2>2, PagesStay
<1> QED BY <1>1, <1>2, <1>3, <1>4, LoopStays DEF AggregateInv, PagedInv

(* loadPage(), of the first page or of the one after the last. *)
LEMMA LoadPageKeeps ==
  ASSUME ListIInv, NEW p \in 1..Pages, LoadPage(p), p = 1 \/ p = Len(pages) + 1,
         UNCHANGED <<pages, more, status, session>>
  PROVE  /\ PagesInv'
         /\ excuses' \subseteq excuses \union {"dropped"}
         /\ excuses \ {"dropped"} \subseteq excuses'
         /\ load # NoLoad => load' = load /\ "dropped" \in excuses'
         /\ Connected /\ load = NoLoad => load'.page = p /\ load'.got = 0
         /\ p # 1 => excuses \subseteq excuses'
<1> USE DEF ListIInv
<1>1. /\ excuses' \subseteq excuses \union {"dropped"}
      /\ excuses \ {"dropped"} \subseteq excuses'
      /\ load # NoLoad => load' = load /\ "dropped" \in excuses'
      /\ p # 1 => excuses \subseteq excuses'
  BY DEF LoadPage
<1>2. CASE Connected /\ load = NoLoad
  <2> DEFINE x == [page |-> p, got |-> 0, of |-> session]
  <2>1. 0 \in Versions /\ session \in 0..MaxSessions /\ session \in Nat
    BY ManagedListAssumption, SessionAssumption DEF Versions, SessionIInv, SessionTypeOK
  <2>2. p \in 0..Pages /\ p >= 1
    BY ManagedListAssumption
  <2>3. x \in Load /\ x.page = p /\ x.got = 0 /\ x.of = session
    BY <2>1, <2>2 DEF Load
  <2>4. load' = x
    BY <1>2 DEF LoadPage
  <2> HIDE DEF x
  <2>5. Len(pages) \in Nat
    BY DEF PagesInv
  <2>6. PagesInv'
    BY <1>1, <2>1, <2>2, <2>3, <2>4, <2>5 DEF PagesInv, PagesInOrder, Connected
  <2> QED BY <1>1, <2>3, <2>4, <2>6
<1>3. CASE ~(Connected /\ load = NoLoad)
  <2>1. load' = load
    BY <1>3 DEF LoadPage
  <2>2. PagesInv'
    BY <1>1, <2>1 DEF PagesInv, PagesInOrder, Connected
  <2> QED BY <1>1, <1>3, <2>2
<1> QED BY <1>2, <1>3

(* refresh() of a caller that replaces what it had in flight. *)
LEMMA FetchKeeps ==
  ASSUME ListIInv, NEW c \in Callers, c # Loop, fetch' = Asked(c, fetch),
         "overlap" \in Overlap(fetch') => "overlap" \in excuses',
         UNCHANGED <<running, runQueued>>
  PROVE  /\ LoopInv'
         /\ Connected => fetch'[c] # NoFetch /\ fetch'[c].got = 0
<1> USE DEF ListIInv
<1>1. /\ fetch' \in [Callers -> Fetches]
      /\ \A d \in Callers : d # c => fetch'[d] = fetch[d]
      /\ ~Connected => fetch' = fetch
      /\ Connected => fetch'[c] # NoFetch /\ fetch'[c].of > 0 /\ fetch'[c].got = 0
  BY Asks DEF LoopInv
<1>2. Loop \in Callers
  BY CallersApart
<1> QED BY <1>1, <1>2, Overlaps DEF LoopInv

LEMMA ListAnnouncedKeeps == ASSUME ListIInv, ListAnnounced PROVE ListIInv'
<1> USE DEF ListIInv
<1>1. /\ SessionIInv' /\ announced' /\ Connected /\ Connected'
      /\ UNCHANGED <<status, session>>
  BY SessionSteps DEF ListAnnounced, SessionAnnounced, Connected
<1>2. UNCHANGED <<current, notices, auto, paginated, saves, fallback, items, lit, err, timer,
                  running, runQueued, pages, more, pageErr>>
  BY DEF ListAnnounced, serverVars, settingVars, itemVars, loopVars
<1>3. CASE paginated
  <2>1. LoadPage(1) /\ fetch' = fetch /\ 1 \in 1..Pages
    BY <1>3, ManagedListAssumption DEF ListAnnounced
  <2>2. /\ PagesInv'
        /\ excuses' \subseteq excuses \union {"dropped"}
        /\ excuses \ {"dropped"} \subseteq excuses'
        /\ load # NoLoad => "dropped" \in excuses'
        /\ load = NoLoad => load'.page = 1 /\ load'.got = 0
    BY <1>1, <1>2, <2>1, LoadPageKeeps
  <2>3. FieldsInv' /\ LoopInv'
    BY <1>1, <1>2, <2>1, <2>2, LoopStays DEF FieldsInv
  <2> QED BY <1>1, <1>2, <1>3, <2>2, <2>3 DEF AggregateInv, PagedInv
<1>4. CASE ~paginated
  <2>1. /\ fetch' = Asked(session, fetch) /\ load' = load
        /\ excuses' = (excuses \intersect {"late", "masked"}) \union Overlap(fetch')
    BY <1>4 DEF ListAnnounced
  <2>2. session \in Callers /\ session # Loop
    BY <1>1, CallersApart DEF SessionIInv, SessionTypeOK
  <2>3. LoopInv' /\ fetch'[session] # NoFetch /\ fetch'[session].got = 0
    BY <1>1, <1>2, <2>1, <2>2, FetchKeeps
  <2>4. Overlap(fetch') \subseteq {"overlap"}
    BY Overlaps
  <2>5. FieldsInv'
    BY <1>1, <1>2, <2>1, <2>4 DEF FieldsInv
  <2>6. PagesInv'
    BY <1>1, <1>2, <2>1, PagesStay DEF SessionIInv, SessionTypeOK
  <2> QED BY <1>1, <1>2, <1>4, <2>2, <2>3, <2>5, <2>6 DEF AggregateInv, PagedInv
<1> QED BY <1>3, <1>4
-----------------------------------------------------------------------------
(* Changes of the server's list, and what the client makes of them. *)

LEMMA ListChangesKeeps == ASSUME ListIInv, ListChanges PROVE ListIInv'
<1> USE DEF ListIInv
<1>1. /\ current <= MaxChanges /\ current' = current + 1
      /\ notices' = IF wire THEN notices + 1 ELSE notices
      /\ UNCHANGED <<status, session, announced, sessionVars>>
      /\ UNCHANGED <<auto, paginated, saves, fallback, items, lit, err, timer,
                     running, runQueued, fetch, pages, more, load, pageErr, excuses>>
  BY DEF ListChanges, sessionVars, settingVars, itemVars, loopVars, pagedVars
<1>2. SessionIInv'
  BY <1>1, SessionSteps
<1>3. current' \in 1..(MaxChanges + 1) /\ notices' \in Nat /\ notices' < current'
  BY <1>1, ManagedListAssumption DEF FieldsInv
<1>4. FieldsInv'
  BY <1>1, <1>3 DEF FieldsInv, Connected
<1>5. PagesInv' /\ LoopInv'
  BY <1>1, <1>2, PagesStay, LoopStays DEF Connected, SessionIInv, SessionTypeOK
<1>6. announced => notices' > 0
  BY <1>1 DEF FieldsInv, SessionIInv
<1> QED BY <1>1, <1>2, <1>4, <1>5, <1>6 DEF AggregateInv, PagedInv, Sign

LEMMA NoticeArrivesKeeps == ASSUME ListIInv, NoticeArrives PROVE ListIInv'
<1> USE DEF ListIInv
<1>1. /\ notices > 0 /\ notices' = notices - 1 /\ timer' = TRUE
      /\ UNCHANGED <<status, session, announced, sessionVars>>
      /\ UNCHANGED <<current, auto, paginated, saves, fallback, items, lit, err,
                     running, runQueued, fetch, pages, more, load, pageErr, excuses>>
  BY DEF NoticeArrives, sessionVars, settingVars, itemVars, pagedVars
<1>2. SessionIInv'
  BY <1>1, SessionSteps
<1>3. FieldsInv'
  BY <1>1 DEF FieldsInv, Connected
<1>4. PagesInv' /\ LoopInv'
  BY <1>1, <1>2, PagesStay, LoopStays DEF Connected, SessionIInv, SessionTypeOK
<1> QED BY <1>1, <1>2, <1>3, <1>4 DEF AggregateInv, PagedInv, Sign

(* A turn of the loop, f being the other fetches in flight. *)
LEMMA TurnKeeps ==
  ASSUME ListIInv, NEW f \in [Callers -> Fetches], NEW error \in 0..MaxSessions, Turn(f, error),
         f[Loop] = NoFetch,
         \A c \in Callers : f[c] # NoFetch => f[c] = fetch[c],
         UNCHANGED <<sessionVars, serverVars, settingVars, pagedVars>>,
         items' \in Versions, timer' \in BOOLEAN
  PROVE  ListIInv'
<1> USE DEF ListIInv
<1>1. /\ runQueued' = FALSE /\ excuses' = excuses \union Overlap(fetch')
      /\ UNCHANGED <<status, session, announced>>
      /\ UNCHANGED <<current, notices, auto, paginated, saves, fallback, pages, more, load,
                     pageErr>>
  BY DEF Turn, sessionVars, serverVars, settingVars, pagedVars
<1>2. /\ fetch' = IF auto /\ ~paginated THEN Asked(Loop, f) ELSE f
      /\ running' = (auto /\ ~paginated /\ Connected)
      /\ lit' = IF auto /\ ~paginated THEN lit ELSE TRUE
      /\ err' \in {error, 0}
  BY DEF Turn, FieldsInv, Connected
<1>3. Loop \in Callers
  BY CallersApart
<1>4. /\ fetch' \in [Callers -> Fetches]
      /\ \A c \in Callers : c # Loop => fetch'[c] = f[c]
      /\ running' => /\ fetch'[Loop] # NoFetch /\ fetch'[Loop].of > 0
                     /\ fetch'[Loop].got = 0
      /\ ~running' => fetch'[Loop] = NoFetch
  <2>1. CASE auto /\ ~paginated
    BY <1>2, <1>3, <2>1, Asks
  <2>2. CASE ~(auto /\ ~paginated)
    BY <1>2, <2>2
  <2> QED BY <2>1, <2>2
<1>5. SessionIInv'
  BY SessionSteps
<1>6. LoopInv'
  <2>1. running' \in BOOLEAN /\ (running' <=> fetch'[Loop] # NoFetch)
    BY <1>2, <1>4
  <2>2. ASSUME NEW c \in Callers, fetch'[c] # NoFetch PROVE fetch'[c].of > 0
    BY <1>4, <2>2 DEF LoopInv
  <2>3. \A c, d \in Callers :
          c # d /\ fetch'[c] # NoFetch /\ fetch'[d] # NoFetch => "overlap" \in excuses'
    BY <1>1, Overlaps
  <2> QED BY <1>1, <1>4, <2>1, <2>2, <2>3, Zenon DEF LoopInv
<1>7. FieldsInv'
  <2>1. excuses' \subseteq excuses \union {"overlap"}
    BY <1>1, Overlaps
  <2>2. err' \in 0..MaxSessions
    BY <1>2, SessionAssumption
  <2>3. lit' \in {lit, TRUE}
    BY <1>2
  <2> QED BY <1>1, <2>1, <2>2, <2>3 DEF FieldsInv, Connected
<1>8. PagesInv'
  BY <1>1, <1>5, PagesStay DEF Connected, SessionIInv, SessionTypeOK
<1>9. announced' => Connected
  BY <1>1 DEF FieldsInv
<1>10. AggregateInv' /\ PagedInv'
  BY <1>1, <1>2, <1>3, <1>4, <1>9 DEF AggregateInv, PagedInv, Sign, FieldsInv
<1> QED BY <1>5, <1>6, <1>7, <1>8, <1>10

LEMMA TimerFiresKeeps == ASSUME ListIInv, TimerFires PROVE ListIInv'
<1> USE DEF ListIInv
<1>1. CASE running
  <2>1. /\ timer' = FALSE /\ runQueued' = TRUE
        /\ UNCHANGED <<status, session, announced, sessionVars>>
        /\ UNCHANGED <<current, notices, auto, paginated, saves, fallback, items, lit, err,
                       running, fetch, pages, more, load, pageErr, excuses>>
    BY <1>1 DEF TimerFires, sessionVars, serverVars, settingVars, pagedVars
  <2>2. SessionIInv' /\ FieldsInv' /\ LoopInv'
    BY <1>1, <2>1, SessionSteps DEF FieldsInv, LoopInv, Connected
  <2>3. PagesInv'
    BY <2>1, <2>2, PagesStay DEF Connected, SessionIInv, SessionTypeOK
  <2> QED BY <2>1, <2>2, <2>3 DEF AggregateInv, PagedInv, Sign
<1>2. CASE ~running
  <2>1. /\ Turn(fetch, err) /\ timer' = FALSE /\ items' = items
        /\ UNCHANGED <<sessionVars, serverVars, settingVars, pagedVars>>
    BY <1>2 DEF TimerFires
  <2>2. fetch \in [Callers -> Fetches] /\ fetch[Loop] = NoFetch /\ err \in 0..MaxSessions
        /\ items \in Versions
    BY <1>2 DEF LoopInv, FieldsInv
  <2> QED BY <2>1, <2>2, TurnKeeps
<1> QED BY <1>1, <1>2 DEF LoopInv

LEMMA FetchAnsweredKeeps ==
  ASSUME ListIInv, NEW c \in Callers, FetchAnswered(c)
  PROVE  ListIInv'
<1> USE DEF ListIInv
<1> DEFINE x == [fetch[c] EXCEPT !.got = current]
<1>1. /\ fetch[c] # NoFetch /\ fetch[c].got = 0 /\ fetch' = [fetch EXCEPT ![c] = x]
      /\ UNCHANGED <<status, session, announced, sessionVars>>
      /\ UNCHANGED <<current, notices, auto, paginated, saves, fallback, items, lit, err, timer,
                     running, runQueued, pages, more, load, pageErr, excuses>>
  BY DEF FetchAnswered, sessionVars, serverVars, settingVars, itemVars, loopVars, pagedVars,
         LoopInv
<1>2. current \in Versions /\ current # 0
  BY ManagedListAssumption DEF FieldsInv, Versions
<1>3. x \in Fetches /\ x.of = fetch[c].of /\ x.got = current /\ x # NoFetch
  BY <1>2 DEF LoopInv, Fetches, NoFetch
<1> HIDE DEF x
<1>4. /\ fetch' \in [Callers -> Fetches]
      /\ \A d \in Callers : fetch'[d] = IF d = c THEN x ELSE fetch[d]
      /\ \A d \in Callers : fetch'[d] # NoFetch <=> fetch[d] # NoFetch
  BY <1>1, <1>3 DEF LoopInv
<1>5. SessionIInv' /\ FieldsInv'
  BY <1>1, SessionSteps DEF FieldsInv, Connected
<1>6. LoopInv'
  <2>1. Loop \in Callers
    BY CallersApart
  <2> QED BY <1>1, <1>3, <1>4, <2>1 DEF LoopInv
<1>7. PagesInv' /\ PagedInv'
  BY <1>1, <1>5, PagesStay, PagedStays DEF Connected, SessionIInv, SessionTypeOK, Sign
<1>8. AggregateInv'
  BY <1>1, <1>3, <1>4 DEF AggregateInv, Sign
<1> QED BY <1>5, <1>6, <1>7, <1>8

(* A refresh ends, with what it read or with an error. *)
LEMMA FetchEndsKeeps ==
  ASSUME ListIInv, NEW c \in Callers, NEW error \in 0..MaxSessions, FetchEnds(c, error),
         fetch[c] # NoFetch, items' \in Versions,
         \/ error # 0 /\ items' = items
         \/ items' = fetch[c].got /\ fetch[c].got # 0
  PROVE  ListIInv'
<1> USE DEF ListIInv
<1> DEFINE f == Settled(c)
<1>1. NoFetch \in Fetches /\ Loop \in Callers
  BY CallersApart, ManagedListAssumption, SessionAssumption DEF NoFetch, Fetches, Versions
<1>2. /\ f \in [Callers -> Fetches] /\ f[c] = NoFetch
      /\ \A d \in Callers : d # c => f[d] = fetch[d]
  BY <1>1 DEF Settled, LoopInv
<1> HIDE DEF f
<1>3. UNCHANGED <<sessionVars, serverVars, settingVars, timer, pagedVars>>
  BY DEF FetchEnds
<1>4. CASE c = Loop /\ runQueued
  <2>1. Turn(f, error)
    BY <1>4 DEF FetchEnds, f
  <2> QED BY <1>2, <1>3, <1>4, <2>1, TurnKeeps DEF FieldsInv
<1>5. CASE ~(c = Loop /\ runQueued)
  <2>1. /\ fetch' = f /\ err' = error /\ running' = (running /\ c # Loop)
        /\ UNCHANGED <<lit, runQueued, excuses>>
    BY <1>5 DEF FetchEnds, f
  <2>2. /\ UNCHANGED <<status, session, announced>>
        /\ UNCHANGED <<current, notices, auto, paginated, saves, fallback, timer,
                       pages, more, load, pageErr>>
    BY <1>3 DEF sessionVars, serverVars, settingVars, pagedVars
  <2>3. SessionIInv' /\ FieldsInv'
    BY <1>3, <2>1, <2>2, SessionSteps DEF FieldsInv, Connected
  <2>4. LoopInv'
    <3>1. running' \in BOOLEAN /\ (running' <=> fetch'[Loop] # NoFetch)
      BY <1>1, <1>2, <2>1 DEF LoopInv
    <3>2. runQueued' => running'
      BY <1>5, <2>1 DEF LoopInv
    <3> QED BY <1>2, <2>1, <3>1, <3>2 DEF LoopInv
  <2>5. PagesInv' /\ PagedInv'
    BY <2>1, <2>2, <2>3, PagesStay, PagedStays DEF Connected, SessionIInv, SessionTypeOK, Sign
  <2>6. AggregateInv'
    <3> SUFFICES ASSUME announced, ~paginated, excuses \intersect {"overlap", "reverted"} = {},
                        ~Sign
                 PROVE  /\ \A d \in Callers : fetch'[d] = NoFetch
                        /\ items' = current \/ err' # 0
      BY <2>1, <2>2 DEF AggregateInv, Sign
    <3>1. \A d \in Callers : d # c => fetch[d] = NoFetch
      BY DEF LoopInv
    <3>2. fetch[c].got \in {0, current}
      BY <3>1 DEF AggregateInv
    <3> QED BY <1>2, <2>1, <3>1, <3>2
  <2> QED BY <2>3, <2>4, <2>5, <2>6
<1> QED BY <1>4, <1>5 DEF LoopInv

LEMMA FetchReturnsKeeps ==
  ASSUME ListIInv, NEW c \in Callers, FetchCommits(c) \/ FetchFails(c)
  PROVE  ListIInv'
<1>1. fetch[c] \in Fetches /\ (fetch[c] # NoFetch => fetch[c].of > 0) /\ items \in Versions
  BY DEF ListIInv, LoopInv, FieldsInv
<1>2. CASE FetchCommits(c)
  <2>1. fetch[c].got # 0 /\ items' = fetch[c].got /\ FetchEnds(c, 0)
    BY <1>2 DEF FetchCommits
  <2>2. fetch[c] # NoFetch /\ items' \in Versions /\ 0 \in 0..MaxSessions
    BY <1>1, <2>1, SessionAssumption DEF NoFetch, Fetches
  <2> QED BY <2>1, <2>2, FetchEndsKeeps
<1>3. CASE FetchFails(c)
  <2>1. fetch[c] # NoFetch /\ FetchEnds(c, fetch[c].of) /\ items' = items
    BY <1>3 DEF FetchFails
  <2>2. fetch[c].of \in 0..MaxSessions /\ fetch[c].of # 0
    BY <1>1, <2>1, SessionAssumption DEF Fetches
  <2> QED BY <1>1, <2>1, <2>2, FetchEndsKeeps
<1> QED BY <1>2, <1>3
-----------------------------------------------------------------------------
(* The pages, and the user. *)

LEMMA PageAnsweredKeeps == ASSUME ListIInv, PageAnswered PROVE ListIInv'
<1> USE DEF ListIInv
<1> DEFINE x == [load EXCEPT !.got = current]
<1>1. /\ load.page # 0 /\ load.got = 0 /\ load' = x
      /\ UNCHANGED <<status, session, announced, sessionVars>>
      /\ UNCHANGED <<current, notices, auto, paginated, saves, fallback, items, lit, err, timer,
                     running, runQueued, fetch, pages, more, pageErr, excuses>>
  BY DEF PageAnswered, sessionVars, serverVars, settingVars, itemVars, loopVars
<1>2. current \in Versions /\ current # 0
  BY ManagedListAssumption DEF FieldsInv, Versions
<1>3. /\ x \in Load /\ x.page = load.page /\ x.of = load.of /\ x.got = current
      /\ x # NoLoad /\ load # NoLoad
  BY <1>1, <1>2 DEF PagesInv, Load, NoLoad
<1> HIDE DEF x
<1>4. SessionIInv' /\ FieldsInv' /\ LoopInv'
  BY <1>1, SessionSteps, LoopStays DEF FieldsInv, Connected
<1>5. AggregateInv'
  BY <1>1, AggregateStays DEF Sign
<1>6. PagesInv'
  BY <1>1, <1>3 DEF PagesInv, PagesInOrder, Connected
<1>7. PagedInv'
  BY <1>1, <1>3 DEF PagedInv, PagesCurrent, Sign
<1> QED BY <1>4, <1>5, <1>6, <1>7

(* A page is taken in: the first replaces the list, a later one extends it.  *)
LEMMA PageCommitsKeeps == ASSUME ListIInv, PageCommits PROVE ListIInv'
<1> USE DEF ListIInv
<1>1. /\ load.got # 0 /\ load' = NoLoad /\ pageErr' = FALSE /\ more' = (load.page < Pages)
      /\ pages' = IF load.page = 1 THEN <<Loaded>> ELSE Append(pages, Loaded)
      /\ excuses' = (excuses \ {"late", "masked"}) \union Blemish
      /\ UNCHANGED <<status, session, announced, sessionVars>>
      /\ UNCHANGED <<current, notices, auto, paginated, saves, fallback, items, lit, err, timer,
                     running, runQueued, fetch>>
  BY DEF PageCommits, sessionVars, serverVars, settingVars, itemVars, loopVars
<1>2. /\ Blemish \subseteq {"late", "masked"}
      /\ load.page # 1 => /\ excuses \intersect {"late", "masked"} \subseteq Blemish
                          /\ pageErr => "masked" \in Blemish
                          /\ ~Connected \/ load.of # session => "late" \in Blemish
  BY DEF Blemish
<1>3. excuses' \ {"late", "masked"} = excuses \ {"late", "masked"}
  BY <1>1, <1>2
<1>4. /\ load \in Load /\ load.page \in 1..Pages /\ load.got \in Versions /\ Pages \in Nat
      /\ pages \in Seq(Read) /\ Len(pages) \in Nat /\ DOMAIN pages = 1..Len(pages)
      /\ \A i \in DOMAIN pages : pages[i] \in Read
  <2>1. load \in Load /\ load # NoLoad /\ load.page # 0
    BY <1>1 DEF PagesInv, NoLoad
  <2> QED BY <2>1, ManagedListAssumption DEF PagesInv, Load
<1>5. Loaded \in Read /\ Loaded.page = load.page /\ Loaded.got = load.got
      /\ Loaded = [page |-> load.page, got |-> load.got]
  BY <1>4 DEF Loaded, Read
<1>6. NoLoad \in Load /\ NoLoad.page = 0 /\ NoLoad.of = 0
  BY ManagedListAssumption, SessionAssumption DEF NoLoad, Load, Versions
<1> HIDE DEF Loaded, NoLoad
<1>7. SessionIInv' /\ FieldsInv' /\ LoopInv'
  <2>1. excuses' \subseteq {"overlap", "dropped", "reverted", "late", "masked"}
    BY <1>1, <1>2 DEF FieldsInv
  <2>2. "overlap" \in excuses => "overlap" \in excuses'
    BY <1>1
  <2>3. more' \in BOOLEAN
    BY <1>1
  <2> QED BY <1>1, <2>1, <2>2, <2>3, SessionSteps, LoopStays DEF FieldsInv, Connected
<1>8. AggregateInv'
  <2>1. excuses \intersect {"overlap", "reverted"} \subseteq excuses'
    BY <1>1
  <2> QED BY <1>1, <2>1, AggregateStays DEF Sign
<1>9. more' => load.page < Pages
  BY <1>1, Zenon
<1>10. CASE load.page = 1
  <2>1. /\ pages' \in Seq(Read) /\ Len(pages') = 1 /\ pages' # <<>>
        /\ DOMAIN pages' = {1} /\ pages'[1] = Loaded
    BY <1>1, <1>5, <1>10
  <2>2. PagesInv'
    <3>1. session \in Nat /\ session' = session
      BY <1>1 DEF SessionIInv, SessionTypeOK
    <3>2. PagesInOrder'
      BY <1>5, <1>10, <2>1 DEF PagesInOrder
    <3>3. more' => Len(pages') < Pages
      BY <1>10, <1>9, <2>1
    <3> QED BY <1>1, <1>4, <1>6, <1>10, <2>1, <3>1, <3>2, <3>3 DEF PagesInv
  <2>3. PagedInv'
    <3>1. load.got = current => PagesCurrent'
      BY <1>1, <1>5, <1>10, <2>1 DEF PagesCurrent
    <3> QED BY <1>1, <1>3, <1>6, <1>10, <3>1 DEF PagedInv, Sign
  <2> QED BY <1>7, <1>8, <2>2, <2>3
<1>11. CASE load.page # 1
  <2>1. /\ pages' \in Seq(Read) /\ Len(pages') = Len(pages) + 1 /\ pages' # <<>>
        /\ DOMAIN pages' = 1..(Len(pages) + 1)
        /\ \A i \in 1..(Len(pages) + 1) :
             pages'[i] = IF i = Len(pages) + 1 THEN Loaded ELSE pages[i]
    BY <1>1, <1>4, <1>5, <1>11
  <2>2. PagesInv'
    <3>1. session \in Nat /\ session' = session
      BY <1>1 DEF SessionIInv, SessionTypeOK
    <3>2. load.page > 1 /\ Len(pages) < load.page
      BY <1>4, <1>11 DEF PagesInv
    <3>3. more' => Len(pages') < Pages
      BY <1>4, <1>9, <2>1, <3>2
    <3>4. PagesInOrder'
      <4> SUFFICES ASSUME "late" \notin excuses', NEW i \in DOMAIN pages'
                   PROVE  pages'[i].page = i
        BY DEF PagesInOrder
      <4>1. "late" \notin excuses /\ Connected /\ load.of = session
        BY <1>1, <1>2, <1>11
      <4>2. load.page = Len(pages) + 1
        BY <3>2, <4>1 DEF PagesInv
      <4>3. \A j \in DOMAIN pages : pages[j].page = j
        BY <4>1 DEF PagesInv, PagesInOrder
      <4> QED BY <1>4, <1>5, <2>1, <4>2, <4>3
    <3> QED BY <1>1, <1>4, <1>6, <2>1, <3>1, <3>3, <3>4 DEF PagesInv
  <2>3. PagedInv'
    <3>1. excuses \intersect {"late", "masked"} \subseteq excuses'
      BY <1>1, <1>2, <1>11
    <3>2. pageErr => "masked" \in excuses'
      BY <1>1, <1>2, <1>11
    <3>3. PagesCurrent => PagesCurrent'
      <4> SUFFICES ASSUME PagesCurrent PROVE PagesCurrent'
        OBVIOUS
      <4>1. load.page = Len(pages) + 1 /\ load.got = current
        BY <1>1, <1>4, <1>6 DEF PagesCurrent
      <4> QED BY <1>1, <1>4, <1>5, <2>1, <4>1 DEF PagesCurrent
    <3> QED BY <1>1, <1>3, <1>6, <1>11, <3>1, <3>2, <3>3 DEF PagedInv, Sign
  <2> QED BY <1>7, <1>8, <2>2, <2>3
<1> QED BY <1>10, <1>11

LEMMA PageFailsKeeps == ASSUME ListIInv, PageFails PROVE ListIInv'
<1> USE DEF ListIInv
<1>1. /\ load' = NoLoad /\ pageErr' = TRUE
      /\ UNCHANGED <<status, session, announced, sessionVars>>
      /\ UNCHANGED <<current, notices, auto, paginated, saves, fallback, items, lit, err, timer,
                     running, runQueued, fetch, pages, more, excuses>>
  BY DEF PageFails, sessionVars, serverVars, settingVars, itemVars, loopVars
<1>2. NoLoad \in Load /\ NoLoad.page = 0 /\ NoLoad.of = 0
  BY ManagedListAssumption, SessionAssumption DEF NoLoad, Load, Versions
<1>3. SessionIInv' /\ FieldsInv' /\ LoopInv'
  BY <1>1, SessionSteps, LoopStays DEF FieldsInv, Connected
<1>4. AggregateInv'
  BY <1>1, AggregateStays DEF Sign
<1>5. PagesInv'
  <2>1. session \in Nat
    BY DEF SessionIInv, SessionTypeOK
  <2> QED BY <1>1, <1>2, <2>1 DEF PagesInv, PagesInOrder
<1>6. PagedInv'
  BY <1>1, <1>2 DEF PagedInv
<1> QED BY <1>3, <1>4, <1>5, <1>6

LEMMA LoadMoreKeeps == ASSUME ListIInv, LoadMore PROVE ListIInv'
<1> USE DEF ListIInv
<1> DEFINE p == Len(pages) + 1
<1>1. /\ Connected /\ paginated /\ more /\ load = NoLoad /\ LoadPage(p)
      /\ UNCHANGED <<status, session, announced, sessionVars>>
      /\ UNCHANGED <<current, notices, auto, paginated, saves, fallback, items, lit, err, timer,
                     running, runQueued, fetch, pages, more, pageErr>>
  BY DEF LoadMore, sessionVars, serverVars, settingVars, itemVars, loopVars
<1>2. pages # <<>> /\ Len(pages) < Pages /\ Len(pages) \in Nat /\ Len(pages) > 0
  BY <1>1 DEF PagesInv
<1>3. p \in 1..Pages /\ p # 1 /\ p = Len(pages) + 1
  BY <1>2, ManagedListAssumption
<1> HIDE DEF p
<1>4. /\ PagesInv' /\ excuses' \subseteq excuses \union {"dropped"} /\ excuses \subseteq excuses'
      /\ load'.page = p /\ load'.got = 0
  BY <1>1, <1>3, LoadPageKeeps
<1>5. SessionIInv' /\ FieldsInv' /\ LoopInv'
  BY <1>1, <1>4, SessionSteps, LoopStays DEF FieldsInv, Connected
<1>6. NoLoad.page # 1
  BY DEF NoLoad
<1>7. PagedInv'
  <2>1. PagesCurrent => PagesCurrent'
    BY <1>1, <1>3, <1>4 DEF PagesCurrent
  <2> QED BY <1>1, <1>3, <1>4, <1>6, <2>1 DEF PagedInv, Sign
<1> QED BY <1>1, <1>4, <1>5, <1>7 DEF AggregateInv

(* What the user asks for is on its way from then on, or was dropped. *)
LEMMA UserAsksKeeps ==
  ASSUME ListIInv,
         \/ /\ paginated' /\ LoadPage(1) /\ fetch' = fetch
         \/ /\ ~paginated' /\ Fetch(User) /\ load' = load,
         UNCHANGED <<sessionVars, current, notices, auto, items, err, timer, running,
                     runQueued, pages, more, pageErr>>,
         Connected, lit' \in BOOLEAN, paginated' \in BOOLEAN, saves' \in 0..MaxSaves,
         fallback' \in Fallbacks
  PROVE  ListIInv'
<1> USE DEF ListIInv
<1>1. UNCHANGED <<status, session, announced>> /\ SessionIInv'
  BY SessionSteps DEF sessionVars
<1>2. CASE paginated' /\ LoadPage(1) /\ fetch' = fetch
  <2>1. /\ PagesInv' /\ excuses' \subseteq excuses \union {"dropped"}
        /\ excuses \ {"dropped"} \subseteq excuses'
        /\ load # NoLoad => "dropped" \in excuses'
        /\ load = NoLoad => load'.page = 1 /\ load'.got = 0
    BY <1>1, <1>2, LoadPageKeeps, ManagedListAssumption
  <2>2. FieldsInv' /\ LoopInv'
    BY <1>1, <1>2, <2>1, LoopStays DEF FieldsInv, Connected
  <2> QED BY <1>1, <1>2, <2>1, <2>2 DEF AggregateInv, PagedInv
<1>3. CASE ~paginated' /\ Fetch(User) /\ load' = load
  <2>1. /\ fetch' = Asked(User, fetch)
        /\ excuses' = (excuses \ {"overlap"}) \union Overlap(fetch')
    BY <1>3 DEF Fetch
  <2>2. User \in Callers /\ User # Loop
    BY CallersApart
  <2>3. LoopInv' /\ fetch'[User] # NoFetch /\ fetch'[User].got = 0
    BY <2>1, <2>2, FetchKeeps
  <2>4. Overlap(fetch') \subseteq {"overlap"}
    BY Overlaps
  <2>5. FieldsInv'
    <3>1. excuses' \subseteq excuses \union {"overlap"}
      BY <2>1, <2>4
    <3> QED BY <1>1, <3>1 DEF FieldsInv, Connected
  <2>6. PagesInv'
    BY <1>1, <1>3, <2>1, PagesStay DEF Connected, SessionIInv, SessionTypeOK
  <2> QED BY <1>1, <1>3, <2>2, <2>3, <2>5, <2>6 DEF AggregateInv, PagedInv
<1> QED BY <1>2, <1>3

LEMMA UserRefreshesKeeps == ASSUME ListIInv, UserRefreshes PROVE ListIInv'
<1>1. /\ Connected /\ lit' = FALSE
      /\ IF paginated THEN LoadPage(1) /\ fetch' = fetch ELSE Fetch(User) /\ load' = load
      /\ UNCHANGED <<sessionVars, current, notices, auto, paginated, saves, fallback, items,
                     err, timer, running, runQueued, pages, more, pageErr>>
  BY DEF UserRefreshes, serverVars, settingVars, loopVars
<1>2. paginated \in BOOLEAN /\ saves \in 0..MaxSaves /\ fallback \in Fallbacks
  BY DEF ListIInv, FieldsInv
<1> QED BY <1>1, <1>2, UserAsksKeeps

LEMMA UserTogglesAutoKeeps == ASSUME ListIInv, UserTogglesAuto PROVE ListIInv'
<1> USE DEF ListIInv
<1>1. /\ saves < MaxSaves /\ auto' = ~auto /\ saves' = saves + 1
      /\ UNCHANGED <<status, session, announced, sessionVars>>
      /\ UNCHANGED <<current, notices, paginated, fallback, items, lit, err, timer, running,
                     runQueued, fetch, pages, more, load, pageErr, excuses>>
  BY DEF UserTogglesAuto, sessionVars, serverVars, itemVars, loopVars, pagedVars
<1>2. auto' \in BOOLEAN /\ saves' \in 0..MaxSaves
  BY <1>1, ManagedListAssumption DEF FieldsInv
<1>3. SessionIInv' /\ FieldsInv'
  BY <1>1, <1>2, SessionSteps DEF FieldsInv, Connected
<1>4. LoopInv' /\ PagesInv'
  BY <1>1, <1>3, LoopStays, PagesStay DEF Connected, SessionIInv, SessionTypeOK
<1>5. AggregateInv' /\ PagedInv'
  BY <1>1, AggregateStays, PagedStays DEF Sign
<1> QED BY <1>3, <1>4, <1>5

LEMMA UserTogglesPaginatedKeeps == ASSUME ListIInv, UserTogglesPaginated PROVE ListIInv'
<1> USE DEF ListIInv
<1>1. /\ saves < MaxSaves /\ paginated' = ~paginated /\ saves' = saves + 1
      /\ fallback' = IF paginated THEN "paginated" ELSE "aggregate"
      /\ UNCHANGED <<sessionVars, current, notices, auto, items, err, timer, running,
                     runQueued, pages, more, pageErr>>
  BY DEF UserTogglesPaginated, serverVars, loopVars
<1>2. paginated' \in BOOLEAN /\ saves' \in 0..MaxSaves /\ fallback' \in Fallbacks
  BY <1>1, ManagedListAssumption DEF FieldsInv, Fallbacks
<1>3. CASE Connected
  <2>1. /\ \/ /\ paginated' /\ LoadPage(1) /\ fetch' = fetch
           \/ /\ ~paginated' /\ Fetch(User) /\ load' = load
        /\ lit' \in {lit, FALSE}
    BY <1>3 DEF UserTogglesPaginated
  <2>2. lit' \in BOOLEAN
    BY <2>1 DEF FieldsInv
  <2> QED BY <1>1, <1>2, <1>3, <2>1, <2>2, UserAsksKeeps
<1>4. CASE ~Connected
  <2>1. UNCHANGED <<lit, fetch, load, excuses>> /\ UNCHANGED <<status, session, announced>>
    BY <1>1, <1>4 DEF UserTogglesPaginated, sessionVars
  <2>2. SessionIInv' /\ FieldsInv' /\ ~announced'
    BY <1>1, <1>2, <1>4, <2>1, SessionSteps DEF FieldsInv, Connected
  <2>3. LoopInv' /\ PagesInv'
    BY <1>1, <2>1, <2>2, LoopStays, PagesStay DEF Connected, SessionIInv, SessionTypeOK
  <2> QED BY <2>2, <2>3 DEF AggregateInv, PagedInv
<1> QED BY <1>3, <1>4

LEMMA SaveSettlesKeeps == ASSUME ListIInv, SaveSettles PROVE ListIInv'
<1> USE DEF ListIInv
<1>1. /\ fallback' = "none"
      /\ \/ UNCHANGED <<paginated, excuses>>
         \/ /\ paginated' = (fallback = "paginated")
            /\ excuses' = excuses \union {"reverted"}
      /\ UNCHANGED <<status, session, announced, sessionVars>>
      /\ UNCHANGED <<current, notices, auto, saves, items, lit, err, timer, running,
                     runQueued, fetch, pages, more, load, pageErr>>
  BY DEF SaveSettles, sessionVars, serverVars, itemVars, loopVars, pagedVars
<1>2. SessionIInv' /\ FieldsInv'
  BY <1>1, SessionSteps DEF FieldsInv, Connected, Fallbacks
<1>3. LoopInv' /\ PagesInv'
  BY <1>1, <1>2, LoopStays, PagesStay DEF Connected, SessionIInv, SessionTypeOK
<1>4. AggregateInv' /\ PagedInv'
  <2>1. CASE UNCHANGED <<paginated, excuses>>
    BY <1>1, <2>1, AggregateStays, PagedStays DEF Sign
  <2>2. CASE "reverted" \in excuses'
    BY <2>2 DEF AggregateInv, PagedInv
  <2> QED BY <1>1, <2>1, <2>2
<1> QED BY <1>2, <1>3, <1>4
-----------------------------------------------------------------------------
(* The invariant of ManagedList, and what it says. *)

LEMMA ListStarts == ListInit => ListIInv
<1> SUFFICES ASSUME ListInit PROVE ListIInv
  OBVIOUS
<1>1. SessionIInv /\ ~announced /\ session = 0
  BY SessionStarts DEF ListInit, SessionInit
<1>2. 0 \in Versions /\ 1 \in 1..(MaxChanges + 1) /\ 0 \in 0..MaxSaves /\ 0 \in 0..MaxSessions
  BY ManagedListAssumption, SessionAssumption DEF Versions
<1>3. FieldsInv
  <2>1. 0 \in Nat /\ 0 < 1
    OBVIOUS
  <2> QED BY <1>1, <1>2, <2>1, Zenon DEF ListInit, FieldsInv, Fallbacks
<1>4. LoopInv
  <2>1. NoFetch \in Fetches /\ Loop \in Callers
    BY <1>2, CallersApart DEF NoFetch, Fetches
  <2> QED BY <2>1 DEF ListInit, LoopInv
<1>5. PagesInv
  <2>1. load = NoLoad /\ load \in Load /\ load.page = 0 /\ load.of = 0
    BY <1>2, ManagedListAssumption DEF ListInit, NoLoad, Load
  <2>2. pages = <<>> /\ more = FALSE
    BY DEF ListInit
  <2>3. pages \in Seq(Read) /\ DOMAIN pages = {}
    BY <2>2
  <2> QED BY <1>1, <2>1, <2>2, <2>3 DEF PagesInv, PagesInOrder
<1> QED BY <1>1, <1>3, <1>4, <1>5 DEF ListIInv, AggregateInv, PagedInv

LEMMA ListSteps == ListIInv /\ [ListNext]_<<sessionVars, listVars>> => ListIInv'
<1> SUFFICES ASSUME ListIInv, [ListNext]_<<sessionVars, listVars>> PROVE ListIInv'
  OBVIOUS
<1>1. CASE UNCHANGED <<sessionVars, listVars>>
  <2> USE DEF ListIInv
  <2>1. /\ UNCHANGED <<status, session, announced>>
        /\ UNCHANGED <<current, notices, auto, paginated, saves, fallback, items, lit, err,
                       timer, running, runQueued, fetch, pages, more, load, pageErr, excuses>>
    BY <1>1 DEF sessionVars, listVars, serverVars, settingVars, itemVars, loopVars, pagedVars
  <2>2. SessionIInv' /\ FieldsInv' /\ LoopInv'
    BY <1>1, <2>1, SessionSteps, LoopStays DEF FieldsInv, Connected
  <2>3. PagesInv' /\ AggregateInv' /\ PagedInv'
    BY <2>1, <2>2, PagesStay, AggregateStays, PagedStays
    DEF Connected, SessionIInv, SessionTypeOK, Sign
  <2> QED BY <2>2, <2>3
<1>2. CASE ListOpens \/ ListAnnounced \/ ListCloses \/ ListErrs
  BY <1>2, ListOpensKeeps, ListAnnouncedKeeps, ListAway DEF ListCloses, ListErrs
<1>3. CASE ListChanges \/ NoticeArrives \/ TimerFires
           \/ \E c \in Callers : FetchAnswered(c) \/ FetchCommits(c) \/ FetchFails(c)
  BY <1>3, ListChangesKeeps, NoticeArrivesKeeps, TimerFiresKeeps, FetchAnsweredKeeps,
     FetchReturnsKeeps
<1>4. CASE \/ PageAnswered \/ PageCommits \/ PageFails \/ LoadMore
           \/ UserRefreshes \/ UserTogglesAuto \/ UserTogglesPaginated \/ SaveSettles
  BY <1>4, PageAnsweredKeeps, PageCommitsKeeps, PageFailsKeeps, LoadMoreKeeps,
     UserRefreshesKeeps, UserTogglesAutoKeeps, UserTogglesPaginatedKeeps, SaveSettlesKeeps
<1> QED BY <1>1, <1>2, <1>3, <1>4, Zenon DEF ListNext

LEMMA ListTyped == ListIInv => ListTypeOK /\ PagesInOrder /\ NothingMissed
<1> SUFFICES ASSUME ListIInv PROVE ListTypeOK /\ PagesInOrder /\ NothingMissed
  OBVIOUS
<1> USE DEF ListIInv
<1>1. notices \in 0..MaxChanges
  BY ManagedListAssumption DEF FieldsInv
<1>2. ListTypeOK
  BY <1>1, Zenon DEF FieldsInv, LoopInv, PagesInv, ListTypeOK, Fetches, Read, Load
<1>3. NothingMissed
  <2> SUFFICES ASSUME Quiet, excuses = {}
               PROVE  \/ ShownIsCurrent \/ lit
                      \/ IF paginated THEN pageErr ELSE err # 0
    BY DEF NothingMissed
  <2>1. announced /\ load = NoLoad /\ ~timer /\ ~(notices > 0) /\ \A c \in Callers : fetch[c] = NoFetch
    BY DEF Quiet, Fetching, FieldsInv
  <2>2. ~runQueued /\ load.page # 1
    <3>1. Loop \in Callers
      BY CallersApart
    <3> QED BY <2>1, <3>1 DEF LoopInv, NoLoad
  <2>3. CASE paginated
    BY <2>1, <2>2, <2>3 DEF PagedInv, PagesCurrent, ShownIsCurrent, Sign
  <2>4. CASE ~paginated
    BY <2>1, <2>2, <2>4 DEF AggregateInv, ShownIsCurrent, Sign
  <2> QED BY <2>3, <2>4 DEF FieldsInv
<1> QED BY <1>2, <1>3 DEF PagesInv

(* Once nothing is under way, what is shown of a list is the server's, or    *)
(* the screen says that it may not be.                                       *)
THEOREM NoChangeIsMissed == ListSpec => []NothingMissed
BY ListStarts, ListSteps, ListTyped, PTL DEF ListSpec
-----------------------------------------------------------------------------
(* The stores together.  The one that is attached takes the steps of its own *)
(* specification, the others none.                                           *)

WatchedInv ==
  /\ watched \in {"list", "tasks", "log", "fetches", "peers", "oauth", "credentials"}
  /\ SessionIInv
  /\ watched = "list" => ListIInv
  /\ watched = "tasks" => TasksIInv
  /\ watched = "log" => LogIInv
  /\ watched = "fetches" => FetchIInv
  /\ watched = "peers" => PeersTypeOK /\ PeersInv
  /\ watched = "oauth" => OAuthIInv
  /\ watched = "credentials" => StorageIInv

LEMMA StoresStart == StoresInit => WatchedInv
BY ListStarts, TasksStarts, LogStarts, FetchInitInv, PeersInitInv, OAuthStarts, StorageStarts
DEF StoresInit, WatchedInv, ListIInv

LEMMA WatchedSteps ==
  ASSUME [StoresNext]_storesVars
  PROVE  /\ watched' = watched
         /\ watched = "list" => [ListNext]_<<sessionVars, listVars>>
         /\ watched = "tasks" => [TasksNext]_<<sessionVars, taskVars>>
         /\ watched = "log" => [LogNext]_<<sessionVars, logVars>>
         /\ watched = "fetches" => [FetchNext]_fetchVars /\ UNCHANGED sessionVars
         /\ watched = "peers" => [PeersNext]_peerVars /\ UNCHANGED sessionVars
         /\ watched = "oauth" => [OAuthNext]_oauthVars /\ UNCHANGED sessionVars
         /\ watched = "credentials" => [StorageNext]_credentialVars /\ UNCHANGED sessionVars
<1>1. CASE UNCHANGED storesVars
  BY <1>1, Zenon DEF storesVars
<1>2. CASE StoresNext
  BY <1>2, Zenon DEF StoresNext
<1> QED BY <1>1, <1>2

LEMMA StoresStep == WatchedInv /\ [StoresNext]_storesVars => WatchedInv'
<1> SUFFICES ASSUME WatchedInv, [StoresNext]_storesVars PROVE WatchedInv'
  OBVIOUS
<1>1. watched' = watched
  BY WatchedSteps
<1>2. CASE watched = "list"
  BY <1>1, <1>2, WatchedSteps, ListSteps DEF WatchedInv, ListIInv
<1>3. CASE watched = "tasks"
  BY <1>1, <1>3, WatchedSteps, TasksSteps DEF WatchedInv, TasksIInv
<1>4. CASE watched = "log"
  BY <1>1, <1>4, WatchedSteps, LogSteps DEF WatchedInv, LogIInv
<1>5. ASSUME UNCHANGED sessionVars PROVE SessionIInv'
  BY <1>5, SessionSteps DEF WatchedInv
<1>6. CASE watched = "fetches"
  BY <1>1, <1>5, <1>6, WatchedSteps, FetchNextInv DEF WatchedInv
<1>7. CASE watched = "peers"
  BY <1>1, <1>5, <1>7, WatchedSteps, PeersNextInv DEF WatchedInv
<1>8. CASE watched = "oauth"
  BY <1>1, <1>5, <1>8, WatchedSteps, OAuthSteps DEF WatchedInv
<1>9. CASE watched = "credentials"
  BY <1>1, <1>5, <1>9, WatchedSteps, StorageSteps DEF WatchedInv
<1> QED BY <1>2, <1>3, <1>4, <1>6, <1>7, <1>8, <1>9 DEF WatchedInv

LEMMA WatchedTyped == WatchedInv => StoresTypeOK /\ ListMissesNothing
<1> SUFFICES ASSUME WatchedInv PROVE StoresTypeOK /\ ListMissesNothing
  OBVIOUS
<1>1. SessionTypeOK /\ ListMissesNothing
  BY ListTyped DEF WatchedInv, SessionIInv, ListMissesNothing
<1>2. /\ watched = "list" => ListTypeOK /\ PagesInOrder
      /\ watched = "tasks" => TasksTypeOK
      /\ watched = "log" => LogTypeOK
  BY ListTyped, TasksTyped, LogTyped DEF WatchedInv
<1>3. /\ watched = "fetches" => FetchTypeOK
      /\ watched = "oauth" => OAuthTypeOK
      /\ watched = "credentials" => StorageTypeOK
  BY DEF WatchedInv, FetchIInv, OAuthIInv, StorageIInv
<1>4. watched \in {"list", "tasks", "log", "fetches", "peers", "oauth", "credentials"}
      /\ (watched = "peers" => PeersTypeOK)
  BY DEF WatchedInv
<1> QED BY <1>1, <1>2, <1>3, <1>4, Zenon DEF StoresTypeOK

(* Whichever of the stores is attached, it holds what it may.                *)
THEOREM StoresTyped == StoresSpec => []StoresTypeOK
BY StoresStart, StoresStep, WatchedTyped, PTL DEF StoresSpec

(* And a list that hears of the sessions of the client misses no change.     *)
THEOREM AttachedListMissesNothing == StoresSpec => []ListMissesNothing
BY StoresStart, StoresStep, WatchedTyped, PTL DEF StoresSpec
=============================================================================
