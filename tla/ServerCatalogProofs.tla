-------------------------- MODULE ServerCatalogProofs --------------------------
(* Theorems of ServerCatalog, for any ids, fields, values and requests.      *)
(* At most one mutation is past the lock, and what it will write and delete  *)
(* is in its request: so the inductive invariants say, for each point of a   *)
(* mutation, what the file it will write leaves to the keychain and where    *)
(* that is (in the keychain, or in a write under way).                       *)
EXTENDS ServerCatalog, TLAPS

(* Between taking the lock and letting it go. *)
Active == {"looking", "sweeping", "setting", "migrating", "dropping"}

Locked == \A q \in Reqs : req[q].pc \in Active => lock = q

(* Configuration c lists field f of server id and leaves its value out. *)
LeftOut(c, id, f) == c[id] # NoEntry /\ c[id][f] = Blank
Holds(id, f) == keychain[id][f] # Absent
Comes(r, id, f) == \E s \in r.sets : s.id = id /\ s.field = f

(* What a request r past the lock needs not to throw a secret away. *)
Looks(r) ==
  \A id \in Ids, f \in EnvKeys :
    /\ LeftOut(r.next, id, f) => Holds(id, f)
    /\ LeftOut(file, id, f) => LeftOut(r.next, id, f)
Sweeps(r) ==
  \A id \in Ids, f \in EnvKeys :
    /\ ~LeftOut(file, r.to, f)
    /\ LeftOut(r.next, id, f) => IF id = r.to THEN Comes(r, id, f) ELSE Holds(id, f)
Sets(r) ==
  \A id \in Ids, f \in EnvKeys :
    LeftOut(r.next, id, f) =>
      /\ Holds(id, f) \/ Comes(r, id, f)
      /\ <<id, f>> \in r.drop => r.op = "patch" /\ ~keyring
Drops(r) ==
  \A id \in Ids, f \in EnvKeys :
    LeftOut(file, id, f) /\ <<id, f>> \in r.drop => r.op = "patch" /\ ~keyring
Migrates(r) ==
  \A id \in Ids, f \in EnvKeys :
    r.next[id] # NoEntry /\ r.next[id][f] # Absent => Holds(id, f) \/ Comes(r, id, f)

Careful(r) ==
  /\ r.op # "clear"
  /\ r.pc \in {"looking", "sweeping", "queued", "migrating"} => r.drop = {}
  /\ r.pc = "looking" => ((r.id # r.to) <=> (r.op = "rename"))
  /\ r.pc = "looking" => Looks(r)
  /\ r.pc = "sweeping" => Sweeps(r)
  /\ r.pc = "setting" => Sets(r)
  /\ r.pc = "migrating" => Migrates(r)
  /\ r.pc = "dropping" => Drops(r)

BackedInv == Locked /\ BlankIsBacked /\ \A q \in Reqs : Careful(req[q])

(* A patch reads the keychain when it builds its entry and deletes from it   *)
(* last: the keychain does not turn in between.                              *)
PatchUnderWay == \E q \in Reqs : req[q].op = "patch" /\ req[q].pc \in {"setting", "dropping"}
SteadyPatch == PatchUnderWay => keyring' = keyring

-----------------------------------------------------------------------------
(* While nothing has failed and nobody has edited the file. *)
Calm == faults = 0 /\ edits = 0

Listed(c, id, f) == c[id] # NoEntry /\ f \in Expected(c[id])

(* A configuration without plain text. *)
Stored(c) ==
  \A id \in Ids : c[id] # NoEntry =>
    \A f \in Fields : c[id][f] = Absent \/ (f \in EnvKeys /\ c[id][f] = Blank)

Tidy(r) ==
  /\ r.pc # "migrating"
  /\ r.pc \in {"looking", "queued"} => r.sets = {} /\ r.drop = {}
  /\ keyring /\ r.pc \notin {"sweeping", "setting"} => r.sets = {}
  /\ r.pc \in {"looking", "sweeping", "setting"} => Stored(r.next)
  /\ r.pc \in {"looking", "sweeping"} => ((r.id # r.to) <=> (r.op = "rename"))
  /\ r.pc = "looking" => r.next = file /\ r.op \in Ops
  /\ r.pc = "sweeping" =>
       /\ r.op = "post" /\ r.drop = {}
       /\ file[r.id] = NoEntry /\ r.next = [file EXCEPT ![r.id] = Stripped(r.body)]
       /\ r.sets = SetsFor(r, EmptyEntry, r.body)
  /\ r.pc = "setting" =>
       /\ r.op \in {"get", "seed"} => r.drop = {}
       /\ \A s \in r.sets : Listed(r.next, s.id, s.field)
       /\ \A id \in Ids, f \in Fields :
            Holds(id, f) => Listed(r.next, id, f) \/ <<id, f>> \in r.drop
  /\ r.pc = "dropping" =>
       /\ r.sets = {}
       /\ \A id \in Ids, f \in Fields :
            Holds(id, f) => Listed(file, id, f) \/ <<id, f>> \in r.drop

(* No request is where what it does to the keychain shows. *)
Between == \A q \in Reqs : req[q].pc \notin {"setting", "dropping"}

NothingHeld == ~keyring => \A id \in Ids, f \in Fields : ~Holds(id, f)
NoStrays == Between => \A id \in Ids, f \in Fields : Holds(id, f) => Listed(file, id, f)

Clean == Stored(file) /\ (\A q \in Reqs : Tidy(req[q])) /\ NothingHeld /\ NoStrays

TidyInv ==
  /\ Locked
  /\ ~exists => file = EmptyConfig
  /\ Calm => Clean

-----------------------------------------------------------------------------
(* An entry, with what the keychain holds of it, is what was said of it.     *)
Agrees(e, found, said) ==
  /\ said # Unknown
  /\ (e = NoEntry) = (said = NoEntry)
  /\ said # NoEntry => \A f \in Fields : Merged(e, found)[f] = said[f]

Shown(c, k, a) == \A id \in Ids : Agrees(c[id], k[id], a[id])

(* The keychain when request r is through with it. *)
Through(r) ==
  [id \in Ids |-> [f \in Fields |->
     IF <<id, f>> \in r.drop THEN Absent
     ELSE IF Comes(r, id, f) THEN (CHOOSE s \in r.sets : s.id = id /\ s.field = f).value
     ELSE keychain[id][f]]]

Promises(r) ==
  /\ \A s, t \in r.sets : s.id = t.id /\ s.field = t.field => s = t
  /\ r.op \notin {"config", "clear"}
  /\ r.pc = "setting" => Shown(r.next, Through(r), Acknowledged(r))
  /\ r.pc = "dropping" => Shown(file, Through(r), acked)

(* No request has done a part of its work. *)
Settled ==
  \A q \in Reqs : req[q].pc # "dropping" /\ (keyring => req[q].pc # "setting")

Honest == (\A q \in Reqs : Promises(req[q])) /\ (Settled => Shown(file, keychain, acked))

ShownInv == Calm => Honest

-----------------------------------------------------------------------------
(* The operators of the model. *)

LEMMA Kinds ==
  /\ EmptyEntry \in Secrets /\ EmptyEntry \in Entry
  /\ Secrets \subseteq Entry
  /\ EmptyConfig \in Config /\ SeedConfig \in Config
  /\ \A e : Stripped(e) \in Entry
  /\ \A e, d : Obsolete(e, d) \subseteq Fields
  /\ \A id \in Ids : AllOf(id) \subseteq Ids \X Fields
  /\ \A r, e, d : SetsFor(r, e, d) \subseteq Secret
  /\ \A c : PlainSecrets(c) \subseteq Secret
<1>1. EmptyEntry \in Secrets /\ EmptyEntry \in Entry
  BY DEF EmptyEntry, Secrets, Entry
<1>2. Secrets \subseteq Entry
  BY DEF Secrets, Entry
<1>3. EmptyConfig \in Config /\ SeedConfig \in Config
  BY <1>1 DEF EmptyConfig, SeedConfig, Config
<1>4. \A e : Stripped(e) \in Entry
  BY DEF Stripped, Entry
<1>5. \A e, d : Obsolete(e, d) \subseteq Fields
  BY DEF Obsolete, Expected, Fields
<1>6. \A id \in Ids : AllOf(id) \subseteq Ids \X Fields
  BY DEF AllOf
<1>7. \A r, e, d : SetsFor(r, e, d) \subseteq Secret
  BY DEF SetsFor
<1>8. \A c : PlainSecrets(c) \subseteq Secret
  BY DEF PlainSecrets
<1> QED BY <1>1, <1>2, <1>3, <1>4, <1>5, <1>6, <1>7, <1>8

Places == {"idle", "looking", "sweeping", "setting", "dropping",
           "queued", "migrating", "reading", "done"}

(* A request stays one when a field takes a value of its own. *)
LEMMA FieldUpdates ==
  ASSUME NEW r \in Request
  PROVE  /\ \A x \in Places : [r EXCEPT !.pc = x] \in Request
         /\ \A op \in Mutations \union {"none", "get", "seed"} : [r EXCEPT !.op = op] \in Request
         /\ \A id \in Ids : /\ [r EXCEPT !.id = id] \in Request
                            /\ [r EXCEPT !.to = id] \in Request
         /\ \A b \in Secrets : [r EXCEPT !.body = b] \in Request
         /\ \A c \in Config : [r EXCEPT !.next = c] \in Request
         /\ \A S \in SUBSET Secret : [r EXCEPT !.sets = S] \in Request
         /\ \A D \in SUBSET (Ids \X Fields) : [r EXCEPT !.drop = D] \in Request
<1>1. \A x \in Places : [r EXCEPT !.pc = x] \in Request
  BY DEF Request, Places
<1>2. \A op \in Mutations \union {"none", "get", "seed"} : [r EXCEPT !.op = op] \in Request
  BY DEF Request
<1>3. \A id \in Ids : [r EXCEPT !.id = id] \in Request
  BY DEF Request
<1>4. \A id \in Ids : [r EXCEPT !.to = id] \in Request
  BY DEF Request
<1>5. \A b \in Secrets : [r EXCEPT !.body = b] \in Request
  BY DEF Request
<1>6. \A c \in Config : [r EXCEPT !.next = c] \in Request
  BY DEF Request
<1>7. \A S \in SUBSET Secret : [r EXCEPT !.sets = S] \in Request
  BY DEF Request
<1>8. \A D \in SUBSET (Ids \X Fields) : [r EXCEPT !.drop = D] \in Request
  BY DEF Request
<1> QED BY <1>1, <1>2, <1>3, <1>4, <1>5, <1>6, <1>7, <1>8

LEMMA IdleIs ==
  /\ Idle \in Request /\ Finished \in Request
  /\ Idle.pc = "idle" /\ Idle.op = "none" /\ Idle.sets = {} /\ Idle.drop = {}
  /\ Finished.pc = "done" /\ Finished.op = "none" /\ Finished.sets = {} /\ Finished.drop = {}
<1>1. (CHOOSE id \in Ids : TRUE) \in Ids
  BY ServerCatalogAssumption
<1>2. Idle \in Request
  BY <1>1, Kinds DEF Idle, Request
<1>3. Idle.pc = "idle" /\ Idle.op = "none" /\ Idle.sets = {} /\ Idle.drop = {}
  BY DEF Idle
<1>4. Finished = [Idle EXCEPT !.pc = "done"]
  BY DEF Finished
<1>5. Finished \in Request
  BY <1>2, <1>4, FieldUpdates DEF Places
<1>6. Finished.pc = "done" /\ Finished.op = "none" /\ Finished.sets = {} /\ Finished.drop = {}
  BY <1>2, <1>3, <1>4 DEF Request
<1> QED BY <1>2, <1>3, <1>5, <1>6

-----------------------------------------------------------------------------
(* What each action does to its request. *)

Only(q) == req' \in [Reqs -> Request] /\ \A p \in Reqs \ {q} : req'[p] = req[p]

LEMMA OneRequest ==
  ASSUME TypeOK, NEW q \in Reqs, NEW s \in Request, req' = [req EXCEPT ![q] = s]
  PROVE  Only(q) /\ req'[q] = s
BY DEF TypeOK, Only

LEMMA LookIs ==
  ASSUME TypeOK, NEW q \in Reqs, Look(q)
  PROVE  /\ Only(q)
         /\ req'[q].pc = "looking" /\ req'[q].op \in Ops
         /\ req'[q].next = file /\ req'[q].sets = {} /\ req'[q].drop = {}
         /\ (req'[q].id # req'[q].to) <=> (req'[q].op = "rename")
<1>1. PICK op \in Ops, id \in Ids, to \in Ids, body \in Secrets :
        /\ Asks(op, id, to, body)
        /\ req' = [req EXCEPT ![q] = [Idle EXCEPT !.pc = "looking", !.op = op, !.id = id,
                                        !.to = to, !.body = body, !.next = file]]
  BY DEF Look
<1> DEFINE a == [Idle EXCEPT !.pc = "looking"]
           b == [a EXCEPT !.op = op]
           c == [b EXCEPT !.id = id]
           d == [c EXCEPT !.to = to]
           e == [d EXCEPT !.body = body]
           s == [e EXCEPT !.next = file]
<1>2. a \in Request
  BY IdleIs, FieldUpdates DEF Places
<1>3. b \in Request
  <2> HIDE DEF a
  <2> QED BY <1>2, FieldUpdates, ServerCatalogAssumption
<1>4. c \in Request
  <2> HIDE DEF b
  <2> QED BY <1>3, FieldUpdates
<1>5. d \in Request
  <2> HIDE DEF c
  <2> QED BY <1>4, FieldUpdates
<1>6. e \in Request
  <2> HIDE DEF d
  <2> QED BY <1>5, FieldUpdates
<1>7. s \in Request
  <2>1. file \in Config
    BY DEF TypeOK
  <2> HIDE DEF e
  <2> QED BY <1>6, <2>1, FieldUpdates
<1>8. /\ s.pc = "looking" /\ s.op = op /\ s.id = id /\ s.to = to
      /\ s.next = file /\ s.sets = Idle.sets /\ s.drop = Idle.drop
  BY IdleIs DEF Request
<1>9. req' = [req EXCEPT ![q] = s]
  BY <1>1
<1>10. s.sets = {} /\ s.drop = {}
  BY <1>8, IdleIs
<1> HIDE DEF s
<1>11. Only(q) /\ req'[q] = s
  BY <1>7, <1>9, OneRequest
<1>12. (id # to) <=> (op = "rename")
  BY <1>1 DEF Asks
<1> QED BY <1>8, <1>10, <1>11, <1>12

LEMMA FinishedIs ==
  ASSUME TypeOK, NEW q \in Reqs, Refuse(q) \/ FileWriteFails(q) \/ Drop(q) \/ Rehydrate(q)
  PROVE  Only(q) /\ req'[q] = Finished
<1>1. req' = [req EXCEPT ![q] = Finished]
  BY DEF Refuse, FileWriteFails, Drop, Rehydrate
<1> QED BY <1>1, IdleIs, OneRequest

LEMMA AddServerIs ==
  ASSUME TypeOK, NEW q \in Reqs, AddServer(q)
  PROVE  LET r == req[q]
             s == req'[q]
         IN  /\ Only(q)
             /\ s.pc = "sweeping" /\ s.op = r.op /\ s.id = r.id /\ s.to = r.to /\ s.body = r.body
             /\ s.next = [r.next EXCEPT ![r.id] = Stripped(r.body)]
             /\ s.sets = SetsFor(r, EmptyEntry, r.body) /\ s.drop = r.drop
<1> DEFINE r == req[q]
           next == [r.next EXCEPT ![r.id] = Stripped(r.body)]
           sets == SetsFor(r, EmptyEntry, r.body)
           a == [r EXCEPT !.pc = "sweeping"]
           b == [a EXCEPT !.next = next]
           s == [b EXCEPT !.sets = sets]
<1>1. r \in Request /\ r.next \in Config /\ r.id \in Ids
  BY DEF TypeOK, Request
<1>2. next \in Config
  BY <1>1, Kinds DEF Config
<1>3. sets \in SUBSET Secret
  BY Kinds
<1>4. req' = [req EXCEPT ![q] = s]
  BY <1>1 DEF AddServer, Request
<1> HIDE DEF next, sets, r
<1>5. a \in Request
  BY <1>1, FieldUpdates DEF Places
<1>6. b \in Request
  <2> HIDE DEF a
  <2> QED BY <1>2, <1>5, FieldUpdates
<1>7. s \in Request
  <2> HIDE DEF b
  <2> QED BY <1>3, <1>6, FieldUpdates
<1>8. /\ s.pc = "sweeping" /\ s.op = r.op /\ s.id = r.id /\ s.to = r.to /\ s.body = r.body
      /\ s.next = next /\ s.sets = sets /\ s.drop = r.drop
  BY <1>1 DEF Request
<1> HIDE DEF s
<1>9. Only(q) /\ req'[q] = s
  BY <1>4, <1>7, OneRequest
<1> QED BY <1>8, <1>9 DEF next, sets, r

LEMMA UpdateServerIs ==
  ASSUME TypeOK, NEW q \in Reqs, UpdateServer(q)
  PROVE  LET r == req[q]
             s == req'[q]
             old == r.next[r.id]
             new == Built(r, old)
         IN  /\ Only(q)
             /\ s.pc = "setting" /\ s.op = r.op /\ s.id = r.id /\ s.to = r.to /\ s.body = r.body
             /\ s.next = [r.next EXCEPT ![r.id] = NoEntry, ![r.to] = Stripped(new)]
             /\ s.sets = SetsFor(r, old, new)
             /\ s.drop = IF r.op = "rename" THEN AllOf(r.id) ELSE {r.id} \X Obsolete(old, new)
<1> DEFINE r == req[q]
           old == r.next[r.id]
           new == Built(r, old)
           next == [r.next EXCEPT ![r.id] = NoEntry, ![r.to] = Stripped(new)]
           sets == SetsFor(r, old, new)
           drop == IF r.op = "rename" THEN AllOf(r.id) ELSE {r.id} \X Obsolete(old, new)
           a == [r EXCEPT !.pc = "setting"]
           b == [a EXCEPT !.next = next]
           c == [b EXCEPT !.sets = sets]
           s == [c EXCEPT !.drop = drop]
<1>1. r \in Request /\ r.next \in Config /\ r.id \in Ids /\ r.to \in Ids
  BY DEF TypeOK, Request
<1> HIDE DEF new
<1>2. next \in Config
  <2>1. NoEntry \in Entry \union {NoEntry} /\ Stripped(new) \in Entry \union {NoEntry}
    BY Kinds
  <2> QED BY <1>1, <2>1 DEF Config
<1>3. sets \in SUBSET Secret
  BY Kinds
<1>4. drop \in SUBSET (Ids \X Fields)
  BY <1>1, Kinds
<1>5. req' = [req EXCEPT ![q] = s]
  <2>1. a.next = r.next
    BY <1>1 DEF Request
  <2> HIDE DEF r
  <2>2. [r EXCEPT !.pc = "setting",
                  !.next = [@ EXCEPT ![r.id] = NoEntry, ![r.to] = Stripped(new)],
                  !.sets = sets, !.drop = drop] = s
    <3> HIDE DEF sets, drop
    <3> QED BY <2>1
  <2> QED BY <2>2 DEF UpdateServer, new, r
<1> HIDE DEF next, sets, drop, r
<1>6. a \in Request
  BY <1>1, FieldUpdates DEF Places
<1>7. b \in Request
  <2> HIDE DEF a
  <2> QED BY <1>2, <1>6, FieldUpdates
<1>8. c \in Request
  <2> HIDE DEF b
  <2> QED BY <1>3, <1>7, FieldUpdates
<1>9. s \in Request
  <2> HIDE DEF c
  <2> QED BY <1>4, <1>8, FieldUpdates
<1>10. /\ s.pc = "setting" /\ s.op = r.op /\ s.id = r.id /\ s.to = r.to /\ s.body = r.body
       /\ s.next = next /\ s.sets = sets /\ s.drop = drop
  BY <1>1 DEF Request
<1> HIDE DEF s
<1>11. Only(q) /\ req'[q] = s
  BY <1>5, <1>9, OneRequest
<1> QED BY <1>10, <1>11 DEF next, sets, drop, new, r

(* A request that only moves on. *)
LEMMA MovesOn ==
  ASSUME TypeOK, NEW q \in Reqs, NEW x \in Places, req' = [req EXCEPT ![q].pc = x]
  PROVE  LET r == req[q]
             s == req'[q]
         IN  /\ Only(q)
             /\ s.pc = x /\ s.op = r.op /\ s.id = r.id /\ s.to = r.to /\ s.body = r.body
             /\ s.next = r.next /\ s.sets = r.sets /\ s.drop = r.drop
<1> DEFINE r == req[q]
           s == [r EXCEPT !.pc = x]
<1>1. r \in Request
  BY DEF TypeOK
<1>2. s \in Request
  BY <1>1, FieldUpdates
<1>3. req' = [req EXCEPT ![q] = s]
  BY <1>1
<1>4. /\ s.pc = x /\ s.op = r.op /\ s.id = r.id /\ s.to = r.to /\ s.body = r.body
      /\ s.next = r.next /\ s.sets = r.sets /\ s.drop = r.drop
  BY <1>1 DEF Request
<1> HIDE DEF s
<1>5. Only(q) /\ req'[q] = s
  BY <1>2, <1>3, OneRequest
<1> QED BY <1>4, <1>5

(* A request whose keychain writes settle. *)
LEMMA SetsShrink ==
  ASSUME TypeOK, NEW q \in Reqs, NEW S \in SUBSET Secret, req' = [req EXCEPT ![q].sets = S]
  PROVE  LET r == req[q]
             s == req'[q]
         IN  /\ Only(q)
             /\ s.pc = r.pc /\ s.op = r.op /\ s.id = r.id /\ s.to = r.to /\ s.body = r.body
             /\ s.next = r.next /\ s.sets = S /\ s.drop = r.drop
<1> DEFINE r == req[q]
           s == [r EXCEPT !.sets = S]
<1>1. r \in Request
  BY DEF TypeOK
<1>2. s \in Request
  BY <1>1, FieldUpdates
<1>3. req' = [req EXCEPT ![q] = s]
  BY <1>1
<1>4. /\ s.pc = r.pc /\ s.op = r.op /\ s.id = r.id /\ s.to = r.to /\ s.body = r.body
      /\ s.next = r.next /\ s.sets = S /\ s.drop = r.drop
  BY <1>1 DEF Request
<1> HIDE DEF s
<1>5. Only(q) /\ req'[q] = s
  BY <1>2, <1>3, OneRequest
<1> QED BY <1>4, <1>5

LEMMA RemoveServerIs ==
  ASSUME TypeOK, NEW q \in Reqs, RemoveServer(q)
  PROVE  LET r == req[q]
             s == req'[q]
         IN  /\ Only(q)
             /\ s.pc = (IF r.next[r.id] # NoEntry THEN "setting" ELSE "dropping")
             /\ s.op = r.op /\ s.id = r.id /\ s.to = r.to /\ s.body = r.body
             /\ s.next = [r.next EXCEPT ![r.id] = NoEntry]
             /\ s.sets = r.sets /\ s.drop = AllOf(r.id)
<1> DEFINE r == req[q]
           x == IF r.next[r.id] # NoEntry THEN "setting" ELSE "dropping"
           next == [r.next EXCEPT ![r.id] = NoEntry]
           drop == AllOf(r.id)
           a == [r EXCEPT !.pc = x]
           b == [a EXCEPT !.next = next]
           s == [b EXCEPT !.drop = drop]
<1>1. r \in Request /\ r.next \in Config /\ r.id \in Ids
  BY DEF TypeOK, Request
<1>2. next \in Config /\ x \in Places /\ drop \in SUBSET (Ids \X Fields)
  BY <1>1, Kinds DEF Config, Places
<1>3. req' = [req EXCEPT ![q] = s]
  <2>1. a.next = r.next
    BY <1>1 DEF Request
  <2> HIDE DEF r
  <2>2. [r EXCEPT !.pc = x, !.next[r.id] = NoEntry, !.drop = drop] = s
    <3> HIDE DEF x, drop
    <3> QED BY <2>1
  <2> QED BY <2>2 DEF RemoveServer, r
<1> HIDE DEF next, x, drop, r
<1>4. a \in Request
  BY <1>1, <1>2, FieldUpdates
<1>5. b \in Request
  <2> HIDE DEF a
  <2> QED BY <1>2, <1>4, FieldUpdates
<1>6. s \in Request
  <2> HIDE DEF b
  <2> QED BY <1>2, <1>5, FieldUpdates
<1>7. /\ s.pc = x /\ s.op = r.op /\ s.id = r.id /\ s.to = r.to /\ s.body = r.body
      /\ s.next = next /\ s.sets = r.sets /\ s.drop = drop
  BY <1>1 DEF Request
<1> HIDE DEF s
<1>8. Only(q) /\ req'[q] = s
  BY <1>3, <1>6, OneRequest
<1> QED BY <1>7, <1>8 DEF next, x, drop, r

LEMMA SetFailsIs ==
  ASSUME TypeOK, NEW q \in Reqs, NEW w \in req[q].sets, SetFails(q, w)
  PROVE  /\ Only(q)
         /\ req'[q].pc = "done" /\ req'[q].op = "none" /\ req'[q].drop = {}
         /\ req'[q].sets = req[q].sets \ {w}
<1> DEFINE S == req[q].sets \ {w}
           s == [Finished EXCEPT !.sets = S]
<1>1. S \in SUBSET Secret
  BY DEF TypeOK, Request
<1>2. req' = [req EXCEPT ![q] = s]
  BY DEF SetFails
<1> HIDE DEF S
<1>3. s \in Request
  BY <1>1, IdleIs, FieldUpdates
<1>4. s.pc = "done" /\ s.op = "none" /\ s.drop = {} /\ s.sets = S
  <2>1. s.pc = Finished.pc /\ s.op = Finished.op /\ s.drop = Finished.drop /\ s.sets = S
    BY IdleIs DEF Request
  <2> QED BY <2>1, IdleIs
<1> HIDE DEF s
<1>5. Only(q) /\ req'[q] = s
  BY <1>2, <1>3, OneRequest
<1> QED BY <1>4, <1>5 DEF S

LEMMA PeekIs ==
  ASSUME TypeOK, NEW q \in Reqs, Peek(q)
  PROVE  /\ Only(q)
         /\ req'[q].pc \in {"reading", "queued"} /\ req'[q].op = "get"
         /\ req'[q].next = file /\ req'[q].sets = {} /\ req'[q].drop = {}
<1> DEFINE x == IF exists /\ PlainSecrets(file) = {} THEN "reading" ELSE "queued"
           a == [Idle EXCEPT !.op = "get"]
           b == [a EXCEPT !.pc = x]
           s == [b EXCEPT !.next = file]
<1>1. req' = [req EXCEPT ![q] = s]
  BY DEF Peek
<1>2. file \in Config /\ x \in {"reading", "queued"} /\ x \in Places
  BY DEF TypeOK, Places
<1> HIDE DEF x
<1>3. a \in Request
  BY IdleIs, FieldUpdates
<1>4. b \in Request
  <2> HIDE DEF a
  <2> QED BY <1>2, <1>3, FieldUpdates
<1>5. s \in Request
  <2> HIDE DEF b
  <2> QED BY <1>2, <1>4, FieldUpdates
<1>6. /\ s.pc = x /\ s.op = "get" /\ s.next = file
      /\ s.sets = Idle.sets /\ s.drop = Idle.drop
  BY IdleIs DEF Request
<1>7. s.sets = {} /\ s.drop = {}
  BY <1>6, IdleIs
<1> HIDE DEF s
<1>8. Only(q) /\ req'[q] = s
  BY <1>1, <1>5, OneRequest
<1> QED BY <1>2, <1>6, <1>7, <1>8

LEMMA SettleIs ==
  ASSUME TypeOK, NEW q \in Reqs, Settle(q)
  PROVE  LET r == req[q]
             s == req'[q]
             there == PlainSecrets(file)
         IN  /\ Only(q)
             /\ ~exists => /\ s.pc = "setting" /\ s.op = "seed" /\ s.next = SeedConfig
                           /\ s.sets = r.sets
             /\ exists => /\ s.pc = (IF there = {} THEN "reading" ELSE "migrating")
                          /\ s.op = r.op /\ s.next = file /\ s.sets = there
             /\ s.id = r.id /\ s.to = r.to /\ s.body = r.body /\ s.drop = r.drop
<1> DEFINE r == req[q]
           there == PlainSecrets(file)
           x == IF there = {} THEN "reading" ELSE "migrating"
           y == IF ~exists THEN "setting" ELSE x
           op == IF ~exists THEN "seed" ELSE r.op
           next == IF ~exists THEN SeedConfig ELSE file
           sets == IF ~exists THEN r.sets ELSE there
           a == [r EXCEPT !.pc = y]
           b == [a EXCEPT !.op = op]
           c == [b EXCEPT !.next = next]
           s == [c EXCEPT !.sets = sets]
<1>1. r \in Request /\ r.op \in Mutations \union {"none", "get", "seed"} /\ r.sets \in SUBSET Secret
  BY DEF TypeOK, Request
<1>2. y \in Places /\ op \in Mutations \union {"none", "get", "seed"}
  BY <1>1 DEF Places
<1>3. next \in Config
  BY Kinds DEF TypeOK
<1>4. sets \in SUBSET Secret
  BY <1>1, Kinds
<1>5. ~exists => req'[q] = [r EXCEPT !.pc = "setting", !.op = "seed", !.next = SeedConfig]
  BY DEF Settle, TypeOK
<1>6. exists => req'[q] = [r EXCEPT !.pc = x, !.next = file, !.sets = there]
  BY DEF Settle, TypeOK
<1>7. /\ s.pc = y /\ s.op = op /\ s.next = next /\ s.sets = sets
      /\ s.id = r.id /\ s.to = r.to /\ s.body = r.body /\ s.drop = r.drop
  BY <1>1 DEF Request
<1>8. s \in Request
  <2> HIDE DEF r, y, op, next, sets
  <2>1. a \in Request
    BY <1>1, <1>2, FieldUpdates
  <2>2. b \in Request
    <3> HIDE DEF a
    <3> QED BY <1>2, <2>1, FieldUpdates
  <2>3. c \in Request
    <3> HIDE DEF b
    <3> QED BY <1>3, <2>2, FieldUpdates
  <2> HIDE DEF c
  <2> QED BY <1>4, <2>3, FieldUpdates
<1>9. req'[q] = s
  <2>1. ASSUME ~exists PROVE req'[q] = s
    <3> HIDE DEF r
    <3>1. [r EXCEPT !.sets = r.sets] = r
      BY <1>1 DEF Request
    <3>2. s = [[r EXCEPT !.pc = "setting", !.op = "seed", !.next = SeedConfig] EXCEPT !.sets = r.sets]
      BY <2>1
    <3>3. [r EXCEPT !.pc = "setting", !.op = "seed", !.next = SeedConfig] \in Request
      <4> DEFINE d == [r EXCEPT !.pc = "setting"]
                 e == [d EXCEPT !.op = "seed"]
                 g == [e EXCEPT !.next = SeedConfig]
      <4>1. d \in Request
        BY <1>1, FieldUpdates DEF Places
      <4>2. e \in Request
        <5> HIDE DEF d
        <5> QED BY <4>1, FieldUpdates
      <4>3. g \in Request
        <5> HIDE DEF e
        <5> QED BY <4>2, Kinds, FieldUpdates
      <4> QED BY <4>3
    <3> DEFINE h == [r EXCEPT !.pc = "setting", !.op = "seed", !.next = SeedConfig]
    <3>4. h.sets = r.sets
      BY <1>1 DEF Request
    <3>5. h \in Request
      BY <3>3
    <3> HIDE DEF h, s
    <3>6. [h EXCEPT !.sets = h.sets] = h
      BY <3>5 DEF Request
    <3> QED BY <1>5, <2>1, <3>2, <3>4, <3>6 DEF h, r
  <2>2. ASSUME exists PROVE req'[q] = s
    <3> HIDE DEF r, x, there
    <3> DEFINE g == [r EXCEPT !.pc = x]
    <3>1. g.op = r.op
      BY <1>1 DEF Request
    <3>2. g \in Request
      BY <1>1, FieldUpdates DEF x, Places
    <3>3. [g EXCEPT !.op = g.op] = g
      <4> HIDE DEF g
      <4> QED BY <3>2 DEF Request
    <3>4. s = [[[g EXCEPT !.op = g.op] EXCEPT !.next = file] EXCEPT !.sets = there]
      BY <2>2, <3>1
    <3>5. s = [[g EXCEPT !.next = file] EXCEPT !.sets = there]
      BY <3>3, <3>4
    <3> QED BY <1>6, <2>2, <3>5 DEF r
  <2> QED BY <2>1, <2>2
<1> HIDE DEF s
<1>10. Only(q)
  <2>1. req' = [req EXCEPT ![q] = req'[q]]
    BY DEF Settle, TypeOK
  <2> QED BY <1>8, <1>9, <2>1, OneRequest
<1> QED BY <1>7, <1>9, <1>10

LEMMA MigrateFailsIs ==
  ASSUME TypeOK, NEW q \in Reqs, MigrateFails(q)
  PROVE  /\ Only(q)
         /\ req'[q].pc = "reading" /\ req'[q].op = req[q].op
         /\ req'[q].sets = {} /\ req'[q].drop = req[q].drop
<1> DEFINE r == req[q]
           a == [r EXCEPT !.pc = "reading"]
           s == [a EXCEPT !.sets = {}]
<1>1. r \in Request
  BY DEF TypeOK
<1>2. req' = [req EXCEPT ![q] = s]
  BY DEF MigrateFails, TypeOK
<1>3. a \in Request
  BY <1>1, FieldUpdates DEF Places
<1>4. s \in Request
  <2> HIDE DEF a
  <2> QED BY <1>3, FieldUpdates
<1>5. s.pc = "reading" /\ s.op = r.op /\ s.sets = {} /\ s.drop = r.drop
  BY <1>1 DEF Request
<1> HIDE DEF s
<1>6. Only(q) /\ req'[q] = s
  BY <1>2, <1>4, OneRequest
<1> QED BY <1>5, <1>6

LEMMA MigratedIs ==
  ASSUME TypeOK, NEW q \in Reqs, Migrated(q)
  PROVE  LET r == req[q]
             s == req'[q]
         IN  /\ Only(q)
             /\ s.pc = "setting" /\ s.op = r.op /\ s.id = r.id /\ s.to = r.to /\ s.body = r.body
             /\ s.next = [id \in Ids |-> IF r.next[id] = NoEntry THEN NoEntry
                                         ELSE Stripped(r.next[id])]
             /\ s.sets = r.sets /\ s.drop = r.drop
<1> DEFINE r == req[q]
           next == [id \in Ids |-> IF r.next[id] = NoEntry THEN NoEntry ELSE Stripped(r.next[id])]
           a == [r EXCEPT !.pc = "setting"]
           s == [a EXCEPT !.next = next]
<1>1. r \in Request
  BY DEF TypeOK
<1>2. next \in Config
  BY Kinds DEF Config
<1>3. req' = [req EXCEPT ![q] = s]
  <2>1. a.next = r.next
    BY <1>1 DEF Request
  <2>2. req[q].next = r.next
    OBVIOUS
  <2> QED BY <2>1 DEF Migrated, TypeOK
<1> HIDE DEF next
<1>4. a \in Request
  BY <1>1, FieldUpdates DEF Places
<1>5. s \in Request
  <2> HIDE DEF a
  <2> QED BY <1>2, <1>4, FieldUpdates
<1>6. /\ s.pc = "setting" /\ s.op = r.op /\ s.id = r.id /\ s.to = r.to /\ s.body = r.body
      /\ s.next = next /\ s.sets = r.sets /\ s.drop = r.drop
  BY <1>1 DEF Request
<1> HIDE DEF s
<1>7. Only(q) /\ req'[q] = s
  BY <1>3, <1>5, OneRequest
<1> QED BY <1>6, <1>7 DEF next

LEMMA RestartIs ==
  ASSUME TypeOK, Restart
  PROVE  /\ req' \in [Reqs -> Request]
         /\ \A q \in Reqs : \/ req'[q] = req[q] /\ req[q].pc = "idle"
                            \/ req'[q] = Finished
BY IdleIs DEF Restart, TypeOK

-----------------------------------------------------------------------------
(* Types *)

LEMMA AckedKind ==
  ASSUME TypeOK, NEW r \in Request
  PROVE  Acknowledged(r) \in [Ids -> Secrets \union {NoEntry, Unknown}]
<1> DEFINE A == Secrets \union {NoEntry, Unknown}
<1>1. acked \in [Ids -> A] /\ r.body \in Secrets /\ r.id \in Ids /\ r.to \in Ids
  BY DEF TypeOK, Request
<1>2. Promised(r, acked[r.id]) \in A
  <2> DEFINE old == acked[r.id]
  <2>1. CASE r.op \in {"post", "settings"} \/ old \in {NoEntry, Unknown}
    BY <1>1, <2>1 DEF Promised
  <2>2. CASE r.op \notin {"post", "settings"} /\ old \notin {NoEntry, Unknown}
    <3>1. old \in Secrets
      BY <1>1, <2>2
    <3> QED BY <1>1, <2>2, <3>1 DEF Promised, Secrets
  <2> QED BY <2>1, <2>2
<1>3. EmptyEntry \in A
  BY Kinds
<1>4. NoEntry \in A
  OBVIOUS
<1> HIDE DEF A
<1>5. [acked EXCEPT ![r.id] = NoEntry] \in [Ids -> A]
  BY <1>1, <1>4
<1>6. [acked EXCEPT ![r.id] = NoEntry, ![r.to] = Promised(r, acked[r.id])] \in [Ids -> A]
  BY <1>1, <1>2, <1>4
<1>7. [id \in Ids |-> IF id \in Seeds THEN EmptyEntry ELSE acked[id]] \in [Ids -> A]
  BY <1>1, <1>3
<1> QED BY <1>1, <1>5, <1>6, <1>7 DEF Acknowledged, A

LEMMA KeychainKind ==
  ASSUME TypeOK
  PROVE  /\ \A D : /\ Deleted(D) \in [Ids -> Secrets]
                   /\ ~keyring => Deleted(D) = keychain
                   /\ keyring => \A id \in Ids, f \in Fields :
                        Deleted(D)[id][f] = IF <<id, f>> \in D THEN Absent ELSE keychain[id][f]
         /\ \A id \in Ids, f \in Fields, v \in Values \union {Absent} :
              LET k == [keychain EXCEPT ![id][f] = v]
              IN  /\ k \in [Ids -> Secrets]
                  /\ \A i \in Ids, g \in Fields :
                       k[i][g] = IF i = id /\ g = f THEN v ELSE keychain[i][g]
<1>1. keychain \in [Ids -> [Fields -> Values \union {Absent}]]
  BY DEF TypeOK, Secrets
<1>2. ASSUME NEW D
      PROVE  /\ Deleted(D) \in [Ids -> Secrets]
             /\ ~keyring => Deleted(D) = keychain
             /\ keyring => \A id \in Ids, f \in Fields :
                  Deleted(D)[id][f] = IF <<id, f>> \in D THEN Absent ELSE keychain[id][f]
  BY <1>1 DEF Deleted, Secrets
<1>3. ASSUME NEW id \in Ids, NEW f \in Fields, NEW v \in Values \union {Absent}
      PROVE  LET k == [keychain EXCEPT ![id][f] = v]
             IN  /\ k \in [Ids -> Secrets]
                 /\ \A i \in Ids, g \in Fields :
                      k[i][g] = IF i = id /\ g = f THEN v ELSE keychain[i][g]
  BY <1>1 DEF Secrets
<1> QED BY <1>2, <1>3

LEMMA InitTypeOK == Init => TypeOK
<1> SUFFICES ASSUME Init PROVE TypeOK
  OBVIOUS
<1>1. req \in [Reqs -> Request]
  BY IdleIs DEF Init
<1>2. file \in Config /\ keychain \in [Ids -> Secrets]
  BY Kinds DEF Init
<1>3. acked \in [Ids -> Secrets \union {NoEntry, Unknown}]
  BY DEF Init
<1>4. edits \in 0..MaxEdits /\ faults \in 0..MaxFaults
  BY ServerCatalogAssumption DEF Init
<1>5. exists \in BOOLEAN /\ keyring \in BOOLEAN /\ lock \in Reqs \union {NoReq}
  BY DEF Init
<1> QED BY <1>1, <1>2, <1>3, <1>4, <1>5 DEF TypeOK

LEMMA NextTypeOK == TypeOK /\ [Next]_vars => TypeOK'
<1> SUFFICES ASSUME TypeOK, [Next]_vars PROVE TypeOK'
  OBVIOUS
<1> USE DEF disk
<1>1. ASSUME NEW q \in Reqs, Look(q) PROVE TypeOK'
  BY <1>1, LookIs DEF TypeOK, Look, Only
<1>2. ASSUME NEW q \in Reqs, Refuse(q) \/ Rehydrate(q) PROVE TypeOK'
  BY <1>2, FinishedIs DEF TypeOK, Refuse, Rehydrate, Only
<1>3. ASSUME NEW q \in Reqs, AddServer(q) PROVE TypeOK'
  <2>1. Only(q)
    BY <1>3, AddServerIs
  <2> QED BY <1>3, <2>1 DEF TypeOK, AddServer, Only
<1>4. ASSUME NEW q \in Reqs, UpdateServer(q) PROVE TypeOK'
  <2>1. Only(q)
    BY <1>4, UpdateServerIs
  <2> QED BY <1>4, <2>1 DEF TypeOK, UpdateServer, Only
<1>5. ASSUME NEW q \in Reqs, RemoveServer(q) PROVE TypeOK'
  <2>1. Only(q)
    BY <1>5, RemoveServerIs
  <2> QED BY <1>5, <2>1 DEF TypeOK, RemoveServer, Only
<1>6. ASSUME NEW q \in Reqs, Sweep(q) PROVE TypeOK'
  <2>1. keychain' \in [Ids -> Secrets]
    BY <1>6, KeychainKind DEF Sweep
  <2>2. Only(q)
    BY <1>6, MovesOn DEF Sweep, Places
  <2> QED BY <1>6, <2>1, <2>2 DEF TypeOK, Sweep, Only
<1>7. ASSUME NEW q \in Reqs, NEW w \in req[q].sets, SetSucceeds(q, w) PROVE TypeOK'
  <2>1. req[q].sets \ {w} \in SUBSET Secret /\ w \in Secret
    BY DEF TypeOK, Request
  <2>2. w.id \in Ids /\ w.field \in Fields /\ w.value \in Values
    BY <2>1 DEF Secret
  <2>3. keychain' \in [Ids -> Secrets]
    BY <1>7, <2>2, KeychainKind DEF SetSucceeds
  <2>4. Only(q)
    <3> DEFINE S == req[q].sets \ {w}
    <3>1. req' = [req EXCEPT ![q].sets = S]
      BY <1>7 DEF SetSucceeds, TypeOK
    <3> HIDE DEF S
    <3> QED BY <2>1, <3>1, SetsShrink DEF S
  <2> QED BY <1>7, <2>3, <2>4 DEF TypeOK, SetSucceeds, Only
<1>8. ASSUME NEW q \in Reqs, NEW w \in req[q].sets, SetFails(q, w) PROVE TypeOK'
  BY <1>8, SetFailsIs DEF TypeOK, SetFails, Only
<1>9. ASSUME NEW q \in Reqs, FileWritten(q) PROVE TypeOK'
  <2>1. file' \in Config
    BY <1>9 DEF FileWritten, TypeOK, Request
  <2>2. acked' \in [Ids -> Secrets \union {NoEntry, Unknown}]
    BY <1>9, AckedKind DEF FileWritten, TypeOK
  <2>3. Only(q)
    BY <1>9, MovesOn DEF FileWritten, Places
  <2>4. lock' \in Reqs \union {NoReq}
    BY <1>9 DEF FileWritten, TypeOK
  <2> QED BY <1>9, <2>1, <2>2, <2>3, <2>4 DEF TypeOK, FileWritten, Only
<1>10. ASSUME NEW q \in Reqs, FileWriteFails(q) PROVE TypeOK'
  <2>1. acked' \in [Ids -> Secrets \union {NoEntry, Unknown}]
    BY <1>10 DEF FileWriteFails, TypeOK
  <2>2. faults' \in 0..MaxFaults
    BY <1>10, ServerCatalogAssumption DEF FileWriteFails, TypeOK
  <2> QED BY <1>10, <2>1, <2>2, FinishedIs DEF TypeOK, FileWriteFails, Only
<1>11. ASSUME NEW q \in Reqs, Drop(q) PROVE TypeOK'
  BY <1>11, KeychainKind, FinishedIs DEF TypeOK, Drop, Only
<1>12. ASSUME NEW q \in Reqs, Peek(q) PROVE TypeOK'
  BY <1>12, PeekIs DEF TypeOK, Peek, Only
<1>13. ASSUME NEW q \in Reqs, Settle(q) PROVE TypeOK'
  <2>1. lock' \in Reqs \union {NoReq}
    BY <1>13 DEF Settle
  <2> QED BY <1>13, <2>1, SettleIs DEF TypeOK, Settle, Only
<1>14. ASSUME NEW q \in Reqs, Migrate(q) PROVE TypeOK'
  <2>1. PICK s \in req[q].sets :
          /\ keychain' = [keychain EXCEPT ![s.id][s.field] = IF @ = Absent THEN s.value ELSE @]
          /\ req' = [req EXCEPT ![q].sets = @ \ {s}]
    BY <1>14 DEF Migrate
  <2>2. req[q].sets \ {s} \in SUBSET Secret /\ s \in Secret
    BY DEF TypeOK, Request
  <2>3. s.id \in Ids /\ s.field \in Fields /\ s.value \in Values
    BY <2>2 DEF Secret
  <2>4. keychain' \in [Ids -> Secrets]
    <3> DEFINE v == IF keychain[s.id][s.field] = Absent THEN s.value ELSE keychain[s.id][s.field]
    <3>1. v \in Values \union {Absent}
      BY <2>3 DEF TypeOK, Secrets
    <3>2. keychain' = [keychain EXCEPT ![s.id][s.field] = v]
      BY <2>1 DEF TypeOK
    <3> HIDE DEF v
    <3> QED BY <2>3, <3>1, <3>2, KeychainKind
  <2>5. Only(q)
    <3> DEFINE S == req[q].sets \ {s}
    <3>1. req' = [req EXCEPT ![q].sets = S]
      BY <2>1 DEF TypeOK
    <3> HIDE DEF S
    <3> QED BY <2>2, <3>1, SetsShrink DEF S
  <2> QED BY <1>14, <2>4, <2>5 DEF TypeOK, Migrate, Only
<1>15. ASSUME NEW q \in Reqs, MigrateFails(q) PROVE TypeOK'
  BY <1>15, MigrateFailsIs DEF TypeOK, MigrateFails, Only
<1>16. ASSUME NEW q \in Reqs, Migrated(q) PROVE TypeOK'
  BY <1>16, MigratedIs DEF TypeOK, Migrated, Only
<1>17. ASSUME NEW id \in Ids, NEW e \in Secrets \union {NoEntry}, EditByHand(id, e) PROVE TypeOK'
  <2>1. file' \in Config
    BY <1>17, Kinds DEF EditByHand, TypeOK, Config
  <2>2. acked' \in [Ids -> Secrets \union {NoEntry, Unknown}]
    BY <1>17 DEF EditByHand, TypeOK
  <2>3. edits' \in 0..MaxEdits
    BY <1>17, ServerCatalogAssumption DEF EditByHand, TypeOK
  <2> QED BY <1>17, <2>1, <2>2, <2>3 DEF TypeOK, EditByHand
<1>18. CASE KeyringTurns
  <2>1. faults' \in 0..MaxFaults /\ keyring' \in BOOLEAN
    BY <1>18, ServerCatalogAssumption DEF KeyringTurns, TypeOK
  <2> QED BY <1>18, <2>1 DEF TypeOK, KeyringTurns
<1>19. CASE Restart
  <2>1. faults' \in 0..MaxFaults
    BY <1>19, ServerCatalogAssumption DEF Restart, TypeOK
  <2>2. acked' \in [Ids -> Secrets \union {NoEntry, Unknown}]
    BY <1>19 DEF Restart, TypeOK
  <2> QED BY <1>19, <2>1, <2>2, RestartIs DEF TypeOK, Restart
<1>20. CASE UNCHANGED vars
  BY <1>20 DEF vars, TypeOK
<1> QED
  BY <1>1, <1>2, <1>3, <1>4, <1>5, <1>6, <1>7, <1>8, <1>9, <1>10, <1>11, <1>12, <1>13,
     <1>14, <1>15, <1>16, <1>17, <1>18, <1>19, <1>20 DEF Next

(* The catalog is well formed: the file a configuration, the keychain a      *)
(* function of values, each request where a request can be.                  *)
THEOREM CatalogTyped == Spec => []TypeOK
BY InitTypeOK, NextTypeOK, PTL DEF Spec

-----------------------------------------------------------------------------
(* The lock *)

LEMMA LockStep ==
  ASSUME TypeOK, Locked, NEW q \in Reqs, Only(q),
         req'[q].pc \in Active => lock' = q,
         lock' # lock => req[q].pc \in Active \/ lock = NoReq
  PROVE  Locked'
<1>1. SUFFICES ASSUME NEW p \in Reqs \ {q}, req'[p].pc \in Active PROVE lock' = p
  BY DEF Locked
<1>2. req'[p] = req[p]
  BY DEF Only
<1>3. lock = p
  BY <1>1, <1>2 DEF Locked
<1>4. lock # NoReq /\ req[q].pc \notin Active
  BY <1>3, ServerCatalogAssumption DEF Locked
<1> QED BY <1>3, <1>4

LEMMA LockedNext == TypeOK /\ Locked /\ [Next]_vars => Locked'
<1> SUFFICES ASSUME TypeOK, Locked, [Next]_vars PROVE Locked'
  OBVIOUS
<1> USE DEF Active
<1>1. ASSUME NEW q \in Reqs, Look(q) PROVE Locked'
  <2>1. Only(q) /\ (req'[q].pc \in Active => lock' = q)
    BY <1>1, LookIs DEF Look
  <2>2. lock' # lock => req[q].pc \in Active \/ lock = NoReq
    BY <1>1 DEF Look
  <2> QED BY <2>1, <2>2, LockStep
<1>2. ASSUME NEW q \in Reqs, Refuse(q) PROVE Locked'
  <2>1. Only(q) /\ (req'[q].pc \in Active => lock' = q)
    BY <1>2, FinishedIs, IdleIs DEF Refuse
  <2>2. lock' # lock => req[q].pc \in Active \/ lock = NoReq
    BY <1>2 DEF Refuse
  <2> QED BY <2>1, <2>2, LockStep
<1>3. ASSUME NEW q \in Reqs, FileWriteFails(q) PROVE Locked'
  <2>1. Only(q) /\ (req'[q].pc \in Active => lock' = q)
    BY <1>3, FinishedIs, IdleIs DEF FileWriteFails
  <2>2. lock' # lock => req[q].pc \in Active \/ lock = NoReq
    BY <1>3 DEF FileWriteFails
  <2> QED BY <2>1, <2>2, LockStep
<1>4. ASSUME NEW q \in Reqs, Drop(q) PROVE Locked'
  <2>1. Only(q) /\ (req'[q].pc \in Active => lock' = q)
    BY <1>4, FinishedIs, IdleIs DEF Drop
  <2>2. lock' # lock => req[q].pc \in Active \/ lock = NoReq
    BY <1>4 DEF Drop
  <2> QED BY <2>1, <2>2, LockStep
<1>5. ASSUME NEW q \in Reqs, Rehydrate(q) PROVE Locked'
  <2>1. Only(q) /\ (req'[q].pc \in Active => lock' = q)
    BY <1>5, FinishedIs, IdleIs DEF Rehydrate
  <2>2. lock' # lock => req[q].pc \in Active \/ lock = NoReq
    BY <1>5 DEF Rehydrate
  <2> QED BY <2>1, <2>2, LockStep
<1>6. ASSUME NEW q \in Reqs, AddServer(q) PROVE Locked'
  <2>1. lock = q /\ lock' = lock
    BY <1>6 DEF AddServer, Locked
  <2>2. Only(q) /\ (req'[q].pc \in Active => lock' = q)
    BY <1>6, <2>1, AddServerIs
  <2>3. lock' # lock => req[q].pc \in Active \/ lock = NoReq
    BY <1>6 DEF AddServer
  <2> QED BY <2>2, <2>3, LockStep
<1>7. ASSUME NEW q \in Reqs, UpdateServer(q) PROVE Locked'
  <2>1. lock = q /\ lock' = lock
    BY <1>7 DEF UpdateServer, Locked
  <2>2. Only(q) /\ (req'[q].pc \in Active => lock' = q)
    BY <1>7, <2>1, UpdateServerIs
  <2>3. lock' # lock => req[q].pc \in Active \/ lock = NoReq
    BY <1>7 DEF UpdateServer
  <2> QED BY <2>2, <2>3, LockStep
<1>8. ASSUME NEW q \in Reqs, RemoveServer(q) PROVE Locked'
  <2>1. lock = q /\ lock' = lock
    BY <1>8 DEF RemoveServer, Locked
  <2>2. Only(q) /\ (req'[q].pc \in Active => lock' = q)
    BY <1>8, <2>1, RemoveServerIs
  <2>3. lock' # lock => req[q].pc \in Active \/ lock = NoReq
    BY <1>8 DEF RemoveServer
  <2> QED BY <2>2, <2>3, LockStep
<1>9. ASSUME NEW q \in Reqs, Sweep(q) PROVE Locked'
  <2>1. lock = q
    BY <1>9 DEF Sweep, Locked
  <2>2. Only(q) /\ (req'[q].pc \in Active => lock' = q)
    BY <1>9, <2>1, MovesOn DEF Sweep, Places
  <2>3. lock' # lock => req[q].pc \in Active \/ lock = NoReq
    BY <1>9 DEF Sweep, Places
  <2> QED BY <2>2, <2>3, LockStep
<1>10. ASSUME NEW q \in Reqs, NEW w \in req[q].sets, SetSucceeds(q, w) PROVE Locked'
  <2> DEFINE S == req[q].sets \ {w}
  <2>1. S \in SUBSET Secret
    BY DEF TypeOK, Request
  <2>2. req' = [req EXCEPT ![q].sets = S] /\ lock' = lock
    BY <1>10 DEF SetSucceeds, TypeOK
  <2> HIDE DEF S
  <2>3. Only(q) /\ req'[q].pc = req[q].pc
    BY <2>1, <2>2, SetsShrink
  <2> QED BY <2>2, <2>3, LockStep DEF Locked
<1>11. ASSUME NEW q \in Reqs, NEW w \in req[q].sets, SetFails(q, w) PROVE Locked'
  <2>1. Only(q) /\ (req'[q].pc \in Active => lock' = q)
    BY <1>11, SetFailsIs DEF SetFails
  <2>2. CASE lock' = lock
    BY <2>1, <2>2, LockStep
  <2>3. CASE lock' # lock
    <3>1. lock = q /\ lock' = NoReq
      BY <1>11, <2>3 DEF SetFails
    <3>2. \A p \in Reqs \ {q} : req[p].pc \notin Active
      BY <3>1 DEF Locked
    <3>3. \A p \in Reqs : req'[p].pc \notin Active
      BY <1>11, <3>2, SetFailsIs DEF Only
    <3> QED BY <3>3 DEF Locked
  <2> QED BY <2>2, <2>3
<1>12. ASSUME NEW q \in Reqs, FileWritten(q) PROVE Locked'
  <2>1. lock = q
    BY <1>12 DEF FileWritten, Locked
  <2>2. Only(q) /\ (req'[q].pc \in Active => lock' = q)
    BY <1>12, <2>1, MovesOn DEF FileWritten, Places
  <2>3. lock' # lock => req[q].pc \in Active \/ lock = NoReq
    BY <1>12 DEF FileWritten, Places
  <2> QED BY <2>2, <2>3, LockStep
<1>13. ASSUME NEW q \in Reqs, Peek(q) PROVE Locked'
  <2>1. Only(q) /\ (req'[q].pc \in Active => lock' = q)
    BY <1>13, PeekIs DEF Peek
  <2>2. lock' # lock => req[q].pc \in Active \/ lock = NoReq
    BY <1>13 DEF Peek
  <2> QED BY <2>1, <2>2, LockStep
<1>14. ASSUME NEW q \in Reqs, Settle(q) PROVE Locked'
  <2>1. Only(q) /\ (exists => req'[q].pc = (IF PlainSecrets(file) = {} THEN "reading"
                                            ELSE "migrating"))
    BY <1>14, SettleIs
  <2>2. lock' = (IF exists /\ PlainSecrets(file) = {} THEN NoReq ELSE q)
    BY <1>14 DEF Settle
  <2>3. Only(q) /\ (req'[q].pc \in Active => lock' = q)
    BY <2>1, <2>2
  <2>4. lock' # lock => req[q].pc \in Active \/ lock = NoReq
    BY <1>14 DEF Settle
  <2> QED BY <2>3, <2>4, LockStep
<1>15. ASSUME NEW q \in Reqs, Migrate(q) PROVE Locked'
  <2>1. PICK s \in req[q].sets : req' = [req EXCEPT ![q].sets = @ \ {s}]
    BY <1>15 DEF Migrate
  <2> DEFINE S == req[q].sets \ {s}
  <2>2. S \in SUBSET Secret
    BY DEF TypeOK, Request
  <2>3. req' = [req EXCEPT ![q].sets = S] /\ lock' = lock
    BY <1>15, <2>1 DEF TypeOK, Migrate
  <2> HIDE DEF S
  <2>4. Only(q) /\ req'[q].pc = req[q].pc
    BY <2>2, <2>3, SetsShrink
  <2> QED BY <2>3, <2>4, LockStep DEF Locked
<1>16. ASSUME NEW q \in Reqs, MigrateFails(q) PROVE Locked'
  <2>1. Only(q) /\ (req'[q].pc \in Active => lock' = q)
    BY <1>16, MigrateFailsIs DEF MigrateFails
  <2>2. lock' # lock => req[q].pc \in Active \/ lock = NoReq
    BY <1>16 DEF MigrateFails
  <2> QED BY <2>1, <2>2, LockStep
<1>17. ASSUME NEW q \in Reqs, Migrated(q) PROVE Locked'
  <2>1. lock = q
    BY <1>17 DEF Migrated, Locked
  <2>2. Only(q) /\ (req'[q].pc \in Active => lock' = q)
    BY <1>17, <2>1, MigratedIs DEF Migrated
  <2>3. lock' # lock => req[q].pc \in Active \/ lock = NoReq
    BY <1>17 DEF Migrated
  <2> QED BY <2>2, <2>3, LockStep
<1>18. CASE Restart
  <2>1. \A q \in Reqs : req'[q].pc \notin Active
    BY <1>18, RestartIs, IdleIs
  <2> QED BY <2>1 DEF Locked
<1>19. CASE \/ \E id \in Ids, e \in Secrets \union {NoEntry} : EditByHand(id, e)
            \/ KeyringTurns \/ UNCHANGED vars
  <2>1. req' = req /\ lock' = lock
    BY <1>19 DEF EditByHand, KeyringTurns, vars
  <2> QED BY <2>1 DEF Locked
<1> QED
  BY <1>1, <1>2, <1>3, <1>4, <1>5, <1>6, <1>7, <1>8, <1>9, <1>10, <1>11, <1>12, <1>13,
     <1>14, <1>15, <1>16, <1>17, <1>18, <1>19 DEF Next

LEMMA OneActive ==
  ASSUME Locked, NEW q \in Reqs, req[q].pc \in Active \/ lock = NoReq
  PROVE  \A p \in Reqs \ {q} : req[p].pc \notin Active
BY ServerCatalogAssumption DEF Locked

-----------------------------------------------------------------------------
(* Secrets *)

(* The keychain lost nothing that counts, and the file left out nothing new. *)
Grows ==
  \A id \in Ids, f \in EnvKeys : /\ Holds(id, f) => Holds(id, f)'
                                 /\ LeftOut(file', id, f) => LeftOut(file, id, f)

LEMMA Frame ==
  ASSUME TypeOK, NEW p \in Reqs, req'[p] = req[p], Careful(req[p]), Grows,
         req[p].op = "patch" /\ req[p].pc \in {"setting", "dropping"} => keyring' = keyring
  PROVE  Careful(req[p])'
<1> DEFINE r == req[p]
<1>1. /\ r.to \in Ids /\ r' = r
      /\ \A id \in Ids, f \in EnvKeys : Comes(r, id, f)' = Comes(r, id, f)
  BY DEF TypeOK, Request, Comes
<1>2. r.pc = "looking" => Looks(r)'
  BY <1>1 DEF Careful, Looks, Grows, LeftOut
<1>3. r.pc = "sweeping" => Sweeps(r)'
  <2> SUFFICES ASSUME r.pc = "sweeping", NEW id \in Ids, NEW f \in EnvKeys
               PROVE  /\ ~LeftOut(file', r.to, f)
                      /\ LeftOut(r.next, id, f) => IF id = r.to THEN Comes(r, id, f)
                                                               ELSE Holds(id, f)'
    BY <1>1 DEF Sweeps
  <2>1. /\ ~LeftOut(file, r.to, f)
        /\ LeftOut(r.next, id, f) => IF id = r.to THEN Comes(r, id, f) ELSE Holds(id, f)
    BY DEF Careful, Sweeps
  <2> HIDE DEF r
  <2> QED BY <1>1, <2>1 DEF Grows
<1>4. r.pc = "setting" => Sets(r)'
  BY <1>1 DEF Careful, Sets, Grows, LeftOut
<1>5. r.pc = "migrating" => Migrates(r)'
  BY <1>1 DEF Careful, Migrates, Grows
<1>6. r.pc = "dropping" => Drops(r)'
  BY <1>1 DEF Careful, Drops, Grows
<1> QED BY <1>1, <1>2, <1>3, <1>4, <1>5, <1>6 DEF Careful

LEMMA StaysBacked == BlankIsBacked /\ Grows => BlankIsBacked'
BY DEF BlankIsBacked, Grows, LeftOut, Holds

(* A step of one request, that nobody else has to care about. *)
LEMMA BackedStep ==
  ASSUME TypeOK, BackedInv, Locked', NEW q \in Reqs, Only(q), Careful(req[q])',
         Grows, keyring' = keyring
  PROVE  BackedInv'
<1>1. ASSUME NEW p \in Reqs PROVE Careful(req[p])'
  <2>1. CASE p = q
    BY <2>1
  <2>2. CASE p # q
    BY <2>2, Frame DEF BackedInv, Only
  <2> QED BY <2>1, <2>2
<1> QED BY <1>1, StaysBacked DEF BackedInv

(* A step under the lock: what the others need is left alone. *)
LEMMA BackedMove ==
  ASSUME TypeOK, BackedInv, Locked', NEW q \in Reqs, req[q].pc \in Active, Only(q),
         Careful(req[q])', BlankIsBacked'
  PROVE  BackedInv'
<1>1. ASSUME NEW p \in Reqs PROVE Careful(req[p])'
  <2>1. CASE p = q
    BY <2>1
  <2>2. CASE p # q
    <3>1. req'[p] = req[p] /\ Careful(req[p])
      BY <2>2 DEF BackedInv, Only
    <3>2. req[p].pc \notin Active
      BY <2>2, OneActive DEF BackedInv
    <3> QED BY <3>1, <3>2 DEF Careful, Active
  <2> QED BY <2>1, <2>2
<1> QED BY <1>1 DEF BackedInv

(* What a request brings to the keychain, of the values a new entry has. *)
LEMMA SetsComes ==
  ASSUME NEW r \in Request, NEW old, NEW new, NEW f \in Fields, f \in Plain(new)
  PROVE  [id |-> r.to, field |-> f, value |-> new[f]] \in SetsFor(r, old, new)
<1>1. r.to \in Ids /\ new[f] \in Values
  BY DEF Request, Plain
<1> DEFINE s == [id |-> r.to, field |-> f, value |-> new[f]]
<1>2. s \in Secret /\ s.id = r.to /\ s.field = f /\ s.value = new[f]
  BY <1>1 DEF Secret
<1> HIDE DEF s
<1>3. s \in SetsFor(r, old, new)
  BY <1>2 DEF SetsFor
<1> QED BY <1>3 DEF s

(* An env value a PUT of an entry leaves out is one that a patch did not     *)
(* find.                                                                     *)
LEMMA LeavesOut ==
  ASSUME TypeOK, NEW r \in Request, r.op \in PutOps, r.op # "clear", NEW old \in Entry,
         NEW f \in EnvKeys, Built(r, old)[f] \notin Values \union {Absent}
  PROVE  r.op = "patch" /\ old[f] = Blank /\ (keyring => ~Holds(r.id, f))
<1>1. f \in Fields /\ r.id \in Ids /\ r.body[f] \in Values \union {Absent}
  BY DEF Fields, Request, Secrets
<1>2. old[f] \in Values \union {Absent, Blank}
  BY <1>1 DEF Entry
<1>3. keychain[r.id][f] \in Values \union {Absent}
  BY <1>1 DEF TypeOK, Secrets
<1>4. r.op = "patch"
  BY <1>1 DEF Built, PutOps
<1>5. Built(r, old)[f] = Merged(old, Found(r.id))[f]
  BY <1>1, <1>4 DEF Built
<1>6. Found(r.id)[f] = IF keyring THEN keychain[r.id][f] ELSE Absent
  BY <1>1 DEF Found, EmptyEntry
<1>7. f \in Expected(old) <=> old[f] # Absent
  BY ServerCatalogAssumption DEF Expected
<1>8. Merged(old, Found(r.id))[f] = IF f \in Expected(old) /\ Found(r.id)[f] # Absent
                                    THEN Found(r.id)[f] ELSE old[f]
  BY <1>1 DEF Merged
<1> QED BY <1>2, <1>3, <1>4, <1>5, <1>6, <1>7, <1>8 DEF Holds

LEMMA BuiltKind ==
  ASSUME TypeOK, NEW r \in Request, r.op \in PutOps, NEW old \in Entry
  PROVE  Built(r, old) \in Entry
<1> SUFFICES ASSUME NEW f \in Fields PROVE Built(r, old)[f] \in Values \union {Absent, Blank}
  BY DEF Built, Entry
<1>1. r.id \in Ids /\ r.body[f] \in Values \union {Absent} /\ old[f] \in Values \union {Absent, Blank}
  BY DEF Request, Secrets, Entry
<1>2. keychain[r.id][f] \in Values \union {Absent}
  BY <1>1 DEF TypeOK, Secrets
<1>3. Merged(old, Found(r.id))[f] \in Values \union {Absent, Blank}
  BY <1>1, <1>2 DEF Merged, Found, EmptyEntry
<1> QED BY <1>1, <1>3 DEF Built, PutOps

(* The actions that move a mutation on. *)

LEMMA BackedLook ==
  ASSUME TypeOK, BackedInv, Locked', "clear" \notin Ops, NEW q \in Reqs, Look(q)
  PROVE  BackedInv'
<1> DEFINE s == req'[q]
<1>1. /\ Only(q) /\ s.pc = "looking" /\ s.op \in Ops
      /\ s.next = file /\ s.sets = {} /\ s.drop = {}
      /\ (s.id # s.to) <=> (s.op = "rename")
  BY LookIs
<1>2. file' = file /\ keychain' = keychain /\ keyring' = keyring
  BY DEF Look, disk
<1>3. Looks(req[q])'
  BY <1>1, <1>2 DEF Looks, LeftOut, Holds, BackedInv, BlankIsBacked
<1>4. Careful(req[q])'
  BY <1>1, <1>3 DEF Careful
<1>5. Grows
  BY <1>2 DEF Grows, Holds
<1> QED BY <1>1, <1>2, <1>4, <1>5, BackedStep

LEMMA BackedAdd ==
  ASSUME TypeOK, BackedInv, Locked', NEW q \in Reqs, AddServer(q)
  PROVE  BackedInv'
<1> DEFINE r == req[q]
           s == req'[q]
<1>1. /\ Only(q) /\ s.pc = "sweeping" /\ s.op = r.op /\ s.id = r.id /\ s.to = r.to
      /\ s.next = [r.next EXCEPT ![r.id] = Stripped(r.body)]
      /\ s.sets = SetsFor(r, EmptyEntry, r.body) /\ s.drop = r.drop
  BY AddServerIs
<1>2. /\ file' = file /\ keychain' = keychain /\ keyring' = keyring
      /\ r.pc = "looking" /\ r.op = "post" /\ r.next[r.id] = NoEntry
  BY DEF AddServer, disk
<1>3. Careful(r) /\ Looks(r) /\ r.drop = {} /\ r.id = r.to
  BY <1>2 DEF BackedInv, Careful
<1>4. r \in Request /\ r.next \in Config /\ r.id \in Ids /\ r.body \in Secrets
  BY DEF TypeOK, Request
<1>5. Sweeps(req[q])'
  <2> SUFFICES ASSUME NEW id \in Ids, NEW f \in EnvKeys
               PROVE  /\ ~LeftOut(file', s.to, f)
                      /\ LeftOut(s.next, id, f) => IF id = s.to THEN Comes(s, id, f)
                                                               ELSE Holds(id, f)'
    BY DEF Sweeps, Comes
  <2>1. ~LeftOut(file', s.to, f)
    BY <1>1, <1>2, <1>3, <1>4 DEF Looks, LeftOut
  <2>2. CASE id = s.to
    <3> SUFFICES ASSUME LeftOut(s.next, id, f) PROVE Comes(s, id, f)
      BY <2>1, <2>2
    <3>1. s.next[id] = Stripped(r.body) /\ f \in Fields
      BY <1>1, <1>3, <1>4, <2>2 DEF Config, Fields
    <3>2. r.body[f] \in Values
      BY <1>4, <3>1, ServerCatalogAssumption DEF LeftOut, Stripped, Secrets
    <3>3. [id |-> r.to, field |-> f, value |-> r.body[f]] \in s.sets
      BY <1>1, <1>4, <3>1, <3>2, SetsComes DEF Plain
    <3> QED BY <1>1, <2>2, <3>3 DEF Comes
  <2>3. CASE id # s.to
    <3>1. s.next[id] = r.next[id]
      BY <1>1, <1>3, <1>4, <2>3 DEF Config
    <3> QED BY <1>2, <1>3, <2>1, <2>3, <3>1 DEF Looks, LeftOut, Holds
  <2> QED BY <2>2, <2>3
<1>6. Careful(req[q])'
  BY <1>1, <1>2, <1>3, <1>5 DEF Careful
<1>7. Grows
  BY <1>2 DEF Grows, Holds
<1> QED BY <1>1, <1>2, <1>6, <1>7, BackedStep

LEMMA BackedUpdate ==
  ASSUME TypeOK, BackedInv, Locked', NEW q \in Reqs, UpdateServer(q)
  PROVE  BackedInv'
<1> DEFINE r == req[q]
           s == req'[q]
           old == r.next[r.id]
           new == Built(r, old)
<1>1. /\ Only(q) /\ s.pc = "setting" /\ s.op = r.op
      /\ s.next = [r.next EXCEPT ![r.id] = NoEntry, ![r.to] = Stripped(new)]
      /\ s.sets = SetsFor(r, old, new)
      /\ s.drop = IF r.op = "rename" THEN AllOf(r.id) ELSE {r.id} \X Obsolete(old, new)
  BY UpdateServerIs
<1>2. /\ file' = file /\ keychain' = keychain /\ keyring' = keyring
      /\ r.pc = "looking" /\ r.op \in PutOps /\ old # NoEntry
  BY DEF UpdateServer, disk
<1>3. Careful(r) /\ Looks(r) /\ ((r.id # r.to) <=> (r.op = "rename")) /\ r.op # "clear"
  BY <1>2 DEF BackedInv, Careful
<1>4. r \in Request /\ r.next \in Config /\ r.id \in Ids /\ r.to \in Ids
  BY DEF TypeOK, Request
<1>5. old \in Entry /\ new \in Entry
  <2>1. old \in Entry
    BY <1>2, <1>4 DEF Config
  <2> HIDE DEF old, r
  <2> QED BY <1>2, <1>4, <2>1, BuiltKind
<1>6. Sets(req[q])'
  <2> SUFFICES ASSUME NEW id \in Ids, NEW f \in EnvKeys, LeftOut(s.next, id, f)
               PROVE  /\ Holds(id, f)' \/ Comes(s, id, f)
                      /\ <<id, f>> \in s.drop => s.op = "patch" /\ ~keyring
    BY <1>2 DEF Sets, Comes
  <2>1. f \in Fields
    BY DEF Fields
  <2>2. CASE id = r.to
    <3>1. s.next[id] = Stripped(new)
      BY <1>1, <1>4, <2>2 DEF Config
    <3>2. new[f] # Absent
      BY <2>1, <3>1, ServerCatalogAssumption DEF LeftOut, Stripped
    <3>3. CASE new[f] \in Values
      <4>1. f \in Plain(new)
        BY <2>1, <3>3 DEF Plain
      <4>2. [id |-> r.to, field |-> f, value |-> new[f]] \in s.sets
        <5> HIDE DEF r, old, new
        <5> QED BY <1>1, <1>4, <2>1, <4>1, SetsComes
      <4>3. <<id, f>> \notin s.drop
        <5> HIDE DEF new
        <5> QED BY <1>1, <1>3, <2>2, <4>1 DEF AllOf, Obsolete
      <4> QED BY <2>2, <4>2, <4>3 DEF Comes
    <3>4. CASE new[f] \notin Values
      <4>1. r.op = "patch" /\ old[f] = Blank /\ (keyring => ~Holds(r.id, f))
        <5> HIDE DEF old, r
        <5> QED BY <1>2, <1>3, <1>4, <1>5, <3>2, <3>4, LeavesOut DEF new
      <4>2. LeftOut(r.next, r.id, f) /\ r.id = id
        BY <1>2, <1>3, <2>2, <4>1 DEF LeftOut
      <4>3. Holds(id, f)
        BY <1>3, <4>2 DEF Looks
      <4> QED BY <1>1, <1>2, <4>1, <4>2, <4>3 DEF Holds
    <3> QED BY <3>3, <3>4
  <2>3. CASE id # r.to
    <3>1. id # r.id /\ s.next[id] = r.next[id]
      BY <1>1, <1>4, <2>3 DEF Config, LeftOut
    <3>2. Holds(id, f)
      BY <1>3, <3>1 DEF Looks, LeftOut
    <3>3. <<id, f>> \notin s.drop
      <4> HIDE DEF new, old
      <4> QED BY <1>1, <3>1 DEF AllOf
    <3> QED BY <1>2, <3>2, <3>3 DEF Holds
  <2> QED BY <2>2, <2>3
<1>7. Careful(req[q])'
  BY <1>1, <1>3, <1>6 DEF Careful
<1>8. Grows
  BY <1>2 DEF Grows, Holds
<1> QED BY <1>1, <1>2, <1>7, <1>8, BackedStep

LEMMA BackedRemove ==
  ASSUME TypeOK, BackedInv, Locked', NEW q \in Reqs, RemoveServer(q)
  PROVE  BackedInv'
<1> DEFINE r == req[q]
           s == req'[q]
<1>1. /\ Only(q) /\ s.pc = (IF r.next[r.id] # NoEntry THEN "setting" ELSE "dropping")
      /\ s.op = r.op /\ s.next = [r.next EXCEPT ![r.id] = NoEntry]
      /\ s.drop = AllOf(r.id)
  BY RemoveServerIs
<1>2. /\ file' = file /\ keychain' = keychain /\ keyring' = keyring
      /\ r.pc = "looking" /\ r.op = "delete"
  BY DEF RemoveServer, disk
<1>3. Careful(r) /\ Looks(r)
  BY <1>2 DEF BackedInv, Careful
<1>4. r.next \in Config /\ r.id \in Ids
  BY DEF TypeOK, Request
<1>5. \A id, f : <<id, f>> \in s.drop => id = r.id
  BY <1>1 DEF AllOf
<1>6. s.pc = "setting" => Sets(req[q])'
  <2> SUFFICES ASSUME NEW id \in Ids, NEW f \in EnvKeys, LeftOut(s.next, id, f)
               PROVE  Holds(id, f)' /\ <<id, f>> \notin s.drop
    BY DEF Sets
  <2>1. id # r.id /\ LeftOut(r.next, id, f)
    BY <1>1, <1>4 DEF LeftOut, Config
  <2> QED BY <1>2, <1>3, <1>5, <2>1 DEF Looks, Holds
<1>7. s.pc = "dropping" => Drops(req[q])'
  <2> SUFFICES ASSUME s.pc = "dropping", NEW id \in Ids, NEW f \in EnvKeys,
                      LeftOut(file, id, f), <<id, f>> \in s.drop
               PROVE  FALSE
    BY <1>2 DEF Drops
  <2>1. r.next[r.id] = NoEntry
    BY <1>1
  <2> QED BY <1>3, <1>5, <2>1 DEF Looks, LeftOut
<1>8. Careful(req[q])'
  BY <1>1, <1>2, <1>6, <1>7 DEF Careful
<1>9. Grows
  BY <1>2 DEF Grows, Holds
<1> QED BY <1>1, <1>2, <1>8, <1>9, BackedStep

LEMMA BackedSweep ==
  ASSUME TypeOK, BackedInv, Locked', NEW q \in Reqs, Sweep(q)
  PROVE  BackedInv'
<1> DEFINE r == req[q]
           s == req'[q]
<1>1. /\ Only(q) /\ s.pc = "setting" /\ s.op = r.op /\ s.to = r.to
      /\ s.next = r.next /\ s.sets = r.sets /\ s.drop = r.drop
  BY MovesOn DEF Sweep, Places
<1>2. /\ file' = file /\ keyring' = keyring /\ keychain' = Deleted(AllOf(r.to))
      /\ r.pc = "sweeping"
  BY DEF Sweep, disk
<1>3. Careful(r) /\ Sweeps(r) /\ r.drop = {} /\ BlankIsBacked
  BY <1>2 DEF BackedInv, Careful
<1>4. \A id \in Ids, f \in EnvKeys : id # r.to => Holds(id, f)' = Holds(id, f)
  <2>1. ASSUME NEW id \in Ids, NEW f \in EnvKeys, id # r.to
        PROVE  keychain'[id][f] = keychain[id][f]
    <3>1. f \in Fields /\ <<id, f>> \notin AllOf(r.to)
      BY <2>1 DEF Fields, AllOf
    <3> HIDE DEF r
    <3> QED BY <1>2, <3>1, KeychainKind DEF TypeOK
  <2> QED BY <2>1 DEF Holds
<1>5. Sets(req[q])'
  BY <1>1, <1>3, <1>4 DEF Sets, Sweeps, Comes
<1>6. Careful(req[q])'
  BY <1>1, <1>3, <1>5 DEF Careful
<1>7. BlankIsBacked'
  <2>1. \A id \in Ids, f \in EnvKeys : LeftOut(file, id, f) => id # r.to /\ Holds(id, f)
    BY <1>3 DEF Sweeps, BlankIsBacked, LeftOut, Holds
  <2> QED BY <1>2, <1>4, <2>1 DEF BlankIsBacked, LeftOut, Holds
<1> QED BY <1>1, <1>2, <1>6, <1>7, BackedMove DEF Active

LEMMA BackedSet ==
  ASSUME TypeOK, BackedInv, Locked', NEW q \in Reqs, NEW w \in req[q].sets, SetSucceeds(q, w)
  PROVE  BackedInv'
<1> DEFINE r == req[q]
           s == req'[q]
           S == r.sets \ {w}
<1>1. w \in Secret /\ S \in SUBSET Secret /\ w.id \in Ids /\ w.field \in Fields
      /\ w.value \in Values
  BY DEF TypeOK, Request, Secret
<1>2. req' = [req EXCEPT ![q].sets = S]
  BY DEF SetSucceeds, TypeOK
<1>3. /\ Only(q) /\ s.pc = r.pc /\ s.op = r.op /\ s.id = r.id /\ s.to = r.to
      /\ s.next = r.next /\ s.sets = S /\ s.drop = r.drop
  <2> HIDE DEF S
  <2> QED BY <1>1, <1>2, SetsShrink
<1>4. /\ file' = file /\ keyring' = keyring /\ r.pc \in {"setting", "done"}
      /\ keychain' = [keychain EXCEPT ![w.id][w.field] = w.value]
  BY DEF SetSucceeds, disk
<1>5. \A id \in Ids, f \in EnvKeys : /\ Holds(id, f) => Holds(id, f)'
                                     /\ id = w.id /\ f = w.field => Holds(id, f)'
  BY <1>1, <1>4, KeychainKind, ServerCatalogAssumption DEF Holds, Fields
<1>6. \A id \in Ids, f \in EnvKeys : Comes(r, id, f) => Comes(s, id, f) \/ Holds(id, f)'
  BY <1>3, <1>5 DEF Comes
<1>7. Careful(r)
  BY DEF BackedInv
<1>8. r.pc = "setting" => Sets(req[q])'
  <2> SUFFICES ASSUME r.pc = "setting", NEW id \in Ids, NEW f \in EnvKeys,
                      LeftOut(s.next, id, f)
               PROVE  /\ Holds(id, f)' \/ Comes(s, id, f)
                      /\ <<id, f>> \in s.drop => s.op = "patch" /\ ~keyring'
    BY DEF Sets, Comes
  <2>1. /\ Holds(id, f) \/ Comes(r, id, f)
        /\ <<id, f>> \in r.drop => r.op = "patch" /\ ~keyring
    BY <1>3, <1>7 DEF Careful, Sets
  <2> HIDE DEF r, s
  <2> QED BY <1>3, <1>4, <1>5, <1>6, <2>1
<1>9. Careful(req[q])'
  BY <1>3, <1>4, <1>7, <1>8 DEF Careful
<1>10. Grows
  BY <1>4, <1>5 DEF Grows
<1> QED BY <1>3, <1>4, <1>9, <1>10, BackedStep

LEMMA BackedWrite ==
  ASSUME TypeOK, BackedInv, Locked', NEW q \in Reqs, FileWritten(q)
  PROVE  BackedInv'
<1> DEFINE r == req[q]
           s == req'[q]
<1>1. /\ Only(q) /\ s.pc \in {"reading", "dropping"} /\ s.op = r.op /\ s.drop = r.drop
  BY MovesOn DEF FileWritten, Places
<1>2. /\ file' = r.next /\ keychain' = keychain /\ keyring' = keyring
      /\ r.pc = "setting" /\ r.sets = {}
  BY DEF FileWritten
<1>3. Careful(r) /\ Sets(r)
  BY <1>2 DEF BackedInv, Careful
<1>4. Drops(req[q])'
  BY <1>1, <1>2, <1>3 DEF Drops, Sets, LeftOut
<1>5. Careful(req[q])'
  BY <1>1, <1>3, <1>4 DEF Careful
<1>6. BlankIsBacked'
  BY <1>2, <1>3 DEF BlankIsBacked, Sets, LeftOut, Holds, Comes
<1> QED BY <1>1, <1>2, <1>5, <1>6, BackedMove DEF Active

LEMMA BackedDrop ==
  ASSUME TypeOK, BackedInv, Locked', NEW q \in Reqs, Drop(q)
  PROVE  BackedInv'
<1> DEFINE r == req[q]
<1>1. Only(q) /\ req'[q] = Finished
  BY FinishedIs
<1>2. /\ file' = file /\ keychain' = Deleted(r.drop) /\ r.pc = "dropping"
  BY DEF Drop, disk
<1>3. Drops(r) /\ BlankIsBacked
  BY <1>2 DEF BackedInv, Careful
<1>4. Careful(req[q])'
  BY <1>1, IdleIs DEF Careful
<1>5. BlankIsBacked'
  <2> SUFFICES ASSUME NEW id \in Ids, NEW f \in EnvKeys, LeftOut(file, id, f)
               PROVE  keychain'[id][f] # Absent
    BY <1>2 DEF BlankIsBacked, LeftOut
  <2>1. keychain[id][f] # Absent
    BY <1>3 DEF BlankIsBacked, LeftOut
  <2>2. keyring => <<id, f>> \notin r.drop
    BY <1>3 DEF Drops
  <2>3. f \in Fields
    BY DEF Fields
  <2> HIDE DEF r
  <2> QED BY <1>2, <2>1, <2>2, <2>3, KeychainKind DEF TypeOK
<1> QED BY <1>1, <1>2, <1>4, <1>5, BackedMove DEF Active

LEMMA BackedSettle ==
  ASSUME TypeOK, BackedInv, Locked', NEW q \in Reqs, Settle(q)
  PROVE  BackedInv'
<1> DEFINE r == req[q]
           s == req'[q]
<1>1. /\ Only(q) /\ s.drop = r.drop
      /\ ~exists => s.pc = "setting" /\ s.op = "seed" /\ s.next = SeedConfig
      /\ exists => /\ s.pc \in {"reading", "migrating"} /\ s.op = r.op
                   /\ s.next = file /\ s.sets = PlainSecrets(file)
  BY SettleIs
<1>2. file' = file /\ keychain' = keychain /\ keyring' = keyring /\ r.pc = "queued"
  BY DEF Settle, disk
<1>3. Careful(r) /\ r.drop = {} /\ BlankIsBacked
  BY <1>2 DEF BackedInv, Careful
<1>4. ~exists => Sets(req[q])'
  <2>1. \A id \in Ids, f \in EnvKeys : ~LeftOut(SeedConfig, id, f)
    BY ServerCatalogAssumption DEF LeftOut, SeedConfig, EmptyEntry, Fields
  <2> QED BY <1>1, <2>1 DEF Sets
<1>5. exists => Migrates(req[q])'
  <2> SUFFICES ASSUME exists, NEW id \in Ids, NEW f \in EnvKeys,
                      file[id] # NoEntry, file[id][f] # Absent
               PROVE  Holds(id, f) \/ Comes(s, id, f)
    BY <1>1, <1>2 DEF Migrates, Comes, Holds
  <2>1. f \in Fields /\ file[id] \in Entry
    BY DEF Fields, TypeOK, Config
  <2>2. CASE file[id][f] = Blank
    BY <1>3, <2>2 DEF BlankIsBacked, Holds
  <2>3. CASE file[id][f] \in Values
    <3> DEFINE t == [id |-> id, field |-> f, value |-> file[id][f]]
    <3>1. t \in Secret /\ t.id = id /\ t.field = f /\ t.value = file[id][f]
      BY <2>1, <2>3 DEF Secret
    <3> HIDE DEF t
    <3>2. t \in s.sets
      BY <1>1, <3>1 DEF PlainSecrets
    <3> QED BY <3>1, <3>2 DEF Comes
  <2> QED BY <2>1, <2>2, <2>3 DEF Entry
<1>6. Careful(req[q])'
  BY <1>1, <1>3, <1>4, <1>5 DEF Careful
<1>7. Grows
  BY <1>2 DEF Grows, Holds
<1> QED BY <1>1, <1>2, <1>6, <1>7, BackedStep

LEMMA BackedMigrate ==
  ASSUME TypeOK, BackedInv, Locked', NEW q \in Reqs, Migrate(q)
  PROVE  BackedInv'
<1> DEFINE r == req[q]
           s == req'[q]
<1>1. PICK w \in r.sets :
        /\ keychain' = [keychain EXCEPT ![w.id][w.field] = IF @ = Absent THEN w.value ELSE @]
        /\ req' = [req EXCEPT ![q].sets = @ \ {w}]
  BY DEF Migrate
<1> DEFINE S == r.sets \ {w}
           v == IF keychain[w.id][w.field] = Absent THEN w.value ELSE keychain[w.id][w.field]
<1>2. w \in Secret /\ S \in SUBSET Secret /\ w.id \in Ids /\ w.field \in Fields
      /\ w.value \in Values
  BY DEF TypeOK, Request, Secret
<1>3. req' = [req EXCEPT ![q].sets = S]
  BY <1>1 DEF TypeOK
<1>4. /\ Only(q) /\ s.pc = r.pc /\ s.op = r.op
      /\ s.next = r.next /\ s.sets = S /\ s.drop = r.drop
  <2> HIDE DEF S
  <2> QED BY <1>2, <1>3, SetsShrink
<1>5. file' = file /\ keyring' = keyring /\ r.pc = "migrating"
  BY DEF Migrate, disk
<1>6. keychain' = [keychain EXCEPT ![w.id][w.field] = v] /\ v \in Values
  <2>1. keychain[w.id][w.field] \in Values \union {Absent}
    BY <1>2 DEF TypeOK, Secrets
  <2>2. keychain' = [keychain EXCEPT ![w.id][w.field] = v]
    BY <1>1 DEF TypeOK
  <2> QED BY <1>2, <2>1, <2>2
<1>7. \A id \in Ids, f \in EnvKeys : /\ Holds(id, f) => Holds(id, f)'
                                     /\ id = w.id /\ f = w.field => Holds(id, f)'
  <2> HIDE DEF v
  <2> QED BY <1>2, <1>6, KeychainKind, ServerCatalogAssumption DEF Holds, Fields
<1>8. \A id \in Ids, f \in EnvKeys : Comes(r, id, f) => Comes(s, id, f) \/ Holds(id, f)'
  BY <1>4, <1>7 DEF Comes
<1>9. Careful(r) /\ Migrates(r) /\ r.drop = {}
  BY <1>5 DEF BackedInv, Careful
<1>10. Migrates(req[q])'
  <2> SUFFICES ASSUME NEW id \in Ids, NEW f \in EnvKeys,
                      r.next[id] # NoEntry, r.next[id][f] # Absent
               PROVE  Holds(id, f)' \/ Comes(s, id, f)
    BY <1>4 DEF Migrates, Comes
  <2>1. Holds(id, f) \/ Comes(r, id, f)
    BY <1>9 DEF Migrates
  <2> HIDE DEF r, s
  <2> QED BY <1>7, <1>8, <2>1
<1>11. Careful(req[q])'
  BY <1>4, <1>5, <1>9, <1>10 DEF Careful
<1>12. Grows
  BY <1>5, <1>7 DEF Grows
<1> QED BY <1>4, <1>5, <1>11, <1>12, BackedStep

LEMMA BackedMigrated ==
  ASSUME TypeOK, BackedInv, Locked', NEW q \in Reqs, Migrated(q)
  PROVE  BackedInv'
<1> DEFINE r == req[q]
           s == req'[q]
<1>1. /\ Only(q) /\ s.pc = "setting" /\ s.op = r.op
      /\ s.next = [id \in Ids |-> IF r.next[id] = NoEntry THEN NoEntry ELSE Stripped(r.next[id])]
      /\ s.sets = r.sets /\ s.drop = r.drop
  BY MigratedIs
<1>2. /\ file' = file /\ keychain' = keychain /\ keyring' = keyring
      /\ r.pc = "migrating" /\ r.sets = {}
  BY DEF Migrated, disk
<1>3. Careful(r) /\ Migrates(r) /\ r.drop = {}
  BY <1>2 DEF BackedInv, Careful
<1>4. Sets(req[q])'
  <2> SUFFICES ASSUME NEW id \in Ids, NEW f \in EnvKeys, LeftOut(s.next, id, f)
               PROVE  Holds(id, f)
    BY <1>1, <1>2, <1>3 DEF Sets, Holds
  <2>1. s.next[id] # NoEntry /\ s.next[id][f] = Blank /\ f \in Fields
    BY DEF LeftOut, Fields
  <2>2. r.next[id] # NoEntry /\ s.next[id] = Stripped(r.next[id])
    BY <1>1, <2>1
  <2>3. r.next[id][f] # Absent
    BY <2>1, <2>2, ServerCatalogAssumption DEF Stripped
  <2> QED BY <1>2, <1>3, <2>2, <2>3 DEF Migrates, Comes
<1>5. Careful(req[q])'
  BY <1>1, <1>3, <1>4 DEF Careful
<1>6. Grows
  BY <1>2 DEF Grows, Holds
<1> QED BY <1>1, <1>2, <1>5, <1>6, BackedStep

LEMMA BackedInit == Init /\ "clear" \notin Ops => BackedInv
<1> SUFFICES ASSUME Init PROVE BackedInv
  OBVIOUS
<1>1. \A q \in Reqs : req[q] = Idle
  BY DEF Init
<1>2. Locked
  BY <1>1, IdleIs DEF Locked, Active
<1>3. BlankIsBacked
  BY DEF Init, BlankIsBacked, EmptyConfig
<1>4. \A q \in Reqs : Careful(req[q])
  BY <1>1, IdleIs DEF Careful
<1> QED BY <1>2, <1>3, <1>4 DEF BackedInv

LEMMA BackedNext ==
  ASSUME "clear" \notin Ops, TypeOK, BackedInv, [Next /\ SteadyPatch]_vars
  PROVE  BackedInv'
<1>1. Locked'
  BY LockedNext DEF BackedInv
<1>2. ASSUME NEW q \in Reqs, Refuse(q) \/ FileWriteFails(q) \/ Rehydrate(q) PROVE BackedInv'
  <2>1. Only(q) /\ req'[q] = Finished
    BY <1>2, FinishedIs
  <2>2. file' = file /\ keychain' = keychain /\ keyring' = keyring
    BY <1>2 DEF Refuse, FileWriteFails, Rehydrate, disk
  <2>3. Careful(req[q])' /\ Grows
    BY <2>1, <2>2, IdleIs DEF Careful, Grows, Holds
  <2> QED BY <1>1, <2>1, <2>2, <2>3, BackedStep
<1>3. ASSUME NEW q \in Reqs, NEW w \in req[q].sets, SetFails(q, w) PROVE BackedInv'
  <2>1. Only(q) /\ req'[q].pc = "done" /\ req'[q].op = "none"
    BY <1>3, SetFailsIs
  <2>2. file' = file /\ keychain' = keychain /\ keyring' = keyring
    BY <1>3 DEF SetFails, disk
  <2>3. Careful(req[q])' /\ Grows
    BY <2>1, <2>2 DEF Careful, Grows, Holds
  <2> QED BY <1>1, <2>1, <2>2, <2>3, BackedStep
<1>4. ASSUME NEW q \in Reqs, Peek(q) PROVE BackedInv'
  <2>1. /\ Only(q) /\ req'[q].pc \in {"reading", "queued"} /\ req'[q].op = "get"
        /\ req'[q].drop = {}
    BY <1>4, PeekIs
  <2>2. file' = file /\ keychain' = keychain /\ keyring' = keyring
    BY <1>4 DEF Peek, disk
  <2>3. Careful(req[q])' /\ Grows
    BY <2>1, <2>2 DEF Careful, Grows, Holds
  <2> QED BY <1>1, <2>1, <2>2, <2>3, BackedStep
<1>5. ASSUME NEW q \in Reqs, MigrateFails(q) PROVE BackedInv'
  <2>1. Only(q) /\ req'[q].pc = "reading" /\ req'[q].op = req[q].op
    BY <1>5, MigrateFailsIs
  <2>2. file' = file /\ keychain' = keychain /\ keyring' = keyring
    BY <1>5 DEF MigrateFails, disk
  <2>3. Careful(req[q])' /\ Grows
    BY <2>1, <2>2 DEF Careful, Grows, Holds, BackedInv
  <2> QED BY <1>1, <2>1, <2>2, <2>3, BackedStep
<1>6. ASSUME NEW id \in Ids, NEW e \in Secrets \union {NoEntry}, EditByHand(id, e)
      PROVE  BackedInv'
  <2>1. /\ file' = [file EXCEPT ![id] = e] /\ keychain' = keychain /\ keyring' = keyring
        /\ req' = req
    BY <1>6 DEF EditByHand
  <2>2. Grows
    <3>1. \A f \in EnvKeys : ~LeftOut(file', id, f)
      BY <2>1, ServerCatalogAssumption DEF LeftOut, TypeOK, Config, Secrets, Fields
    <3>2. \A i \in Ids : i # id => file'[i] = file[i]
      BY <2>1 DEF TypeOK, Config
    <3> QED BY <2>1, <3>1, <3>2 DEF Grows, LeftOut, Holds
  <2>3. \A p \in Reqs : Careful(req[p])'
    BY <2>1, <2>2, Frame DEF BackedInv
  <2> QED BY <1>1, <2>2, <2>3, StaysBacked DEF BackedInv
<1>7. CASE KeyringTurns /\ SteadyPatch
  <2>1. file' = file /\ keychain' = keychain /\ req' = req
    BY <1>7 DEF KeyringTurns, disk
  <2>2. Grows
    BY <2>1 DEF Grows, Holds
  <2>3. \A p \in Reqs : Careful(req[p])'
    BY <1>7, <2>1, <2>2, Frame DEF BackedInv, SteadyPatch, PatchUnderWay
  <2> QED BY <1>1, <2>2, <2>3, StaysBacked DEF BackedInv
<1>8. CASE Restart
  <2>1. file' = file /\ keychain' = keychain
    BY <1>8 DEF Restart, disk
  <2>2. Grows
    BY <2>1 DEF Grows, Holds
  <2>3. ASSUME NEW p \in Reqs PROVE Careful(req[p])'
    <3>1. req'[p] = Finished \/ (req'[p] = req[p] /\ req[p].pc = "idle")
      BY <1>8, RestartIs
    <3> QED BY <3>1, IdleIs DEF Careful, BackedInv
  <2> QED BY <1>1, <2>2, <2>3, StaysBacked DEF BackedInv
<1>9. CASE UNCHANGED vars
  <2>1. file' = file /\ keychain' = keychain /\ keyring' = keyring /\ req' = req
    BY <1>9 DEF vars, disk
  <2>2. Grows
    BY <2>1 DEF Grows, Holds
  <2>3. \A p \in Reqs : Careful(req[p])'
    BY <2>1, <2>2, Frame DEF BackedInv
  <2> QED BY <1>1, <2>2, <2>3, StaysBacked DEF BackedInv
<1>10. ASSUME NEW q \in Reqs,
              \/ Look(q) \/ AddServer(q) \/ UpdateServer(q) \/ RemoveServer(q) \/ Sweep(q)
              \/ FileWritten(q) \/ Drop(q) \/ Settle(q) \/ Migrate(q) \/ Migrated(q)
              \/ \E w \in req[q].sets : SetSucceeds(q, w)
       PROVE  BackedInv'
  BY <1>1, <1>10, BackedLook, BackedAdd, BackedUpdate, BackedRemove, BackedSweep, BackedWrite,
     BackedDrop, BackedSettle, BackedMigrate, BackedMigrated, BackedSet
<1> QED
  BY <1>2, <1>3, <1>4, <1>5, <1>6, <1>7, <1>8, <1>9, <1>10 DEF Next

(* No write of the backend throws away a secret of an env key: whatever      *)
(* fails or stops and whoever edits the file, an env key that mcp.json lists *)
(* without its value has one in the keychain.  Two things of the code are    *)
(* outside it: a PUT of settings: null alone deletes the env values that the *)
(* entry goes on to list, so no such PUT is made; and a patch reads the env  *)
(* values back long before its deletes (PUT /api/servers/:id), so the        *)
(* keychain does not come back in between.                                   *)
THEOREM SecretsAreBacked ==
  ASSUME "clear" \notin Ops
  PROVE  Init /\ [][Next /\ SteadyPatch]_vars => []BlankIsBacked
<1>1. Init => TypeOK /\ BackedInv
  BY InitTypeOK, BackedInit
<1>2. TypeOK /\ BackedInv /\ [Next /\ SteadyPatch]_vars => (TypeOK /\ BackedInv)'
  BY NextTypeOK, BackedNext
<1>3. TypeOK /\ BackedInv => BlankIsBacked
  BY DEF BackedInv
<1> QED BY <1>1, <1>2, <1>3, PTL

-----------------------------------------------------------------------------
(* Orphans *)

LEMMA StoredParts ==
  /\ Stored(EmptyConfig) /\ Stored(SeedConfig)
  /\ \A c \in Config, id \in Ids : Stored(c) => Stored([c EXCEPT ![id] = NoEntry])
  /\ \A c \in Config, id \in Ids, e \in Entry : Stored(c) => Stored([c EXCEPT ![id] = Stripped(e)])
<1>1. Stored(EmptyConfig)
  BY DEF Stored, EmptyConfig
<1>2. Stored(SeedConfig)
  BY DEF Stored, SeedConfig, EmptyEntry
<1>3. ASSUME NEW c \in Config, NEW id \in Ids, Stored(c) PROVE Stored([c EXCEPT ![id] = NoEntry])
  BY <1>3 DEF Stored, Config
<1>4. ASSUME NEW c \in Config, NEW id \in Ids, NEW e \in Entry, Stored(c)
      PROVE  Stored([c EXCEPT ![id] = Stripped(e)])
  <2>1. \A f \in Fields : Stripped(e)[f] = Absent \/ (f \in EnvKeys /\ Stripped(e)[f] = Blank)
    BY DEF Stripped
  <2> QED BY <1>4, <2>1 DEF Stored, Config
<1> QED BY <1>1, <1>2, <1>3, <1>4

(* A configuration without plain text has no secret to migrate. *)
LEMMA StoredHasNone == \A c \in Config : Stored(c) => PlainSecrets(c) = {}
<1> SUFFICES ASSUME NEW c \in Config, Stored(c), NEW s \in PlainSecrets(c) PROVE FALSE
  OBVIOUS
<1>1. s.id \in Ids /\ s.field \in Fields /\ s.value \in Values
      /\ c[s.id] # NoEntry /\ c[s.id][s.field] = s.value
  BY DEF PlainSecrets, Secret
<1> QED BY <1>1, ServerCatalogAssumption DEF Stored

(* What the entry of a configuration lists. *)
LEMMA ListsPlain ==
  ASSUME NEW c \in Config, NEW id \in Ids, NEW e \in Entry, NEW f \in Fields,
         e[f] # Absent \/ f \in Expected(Stripped(e))
  PROVE  Listed([c EXCEPT ![id] = Stripped(e)], id, f)
<1>1. [c EXCEPT ![id] = Stripped(e)][id] = Stripped(e) /\ Stripped(e) # NoEntry
  BY Kinds, ServerCatalogAssumption DEF Config
<1>2. f \in Expected(Stripped(e))
  BY ServerCatalogAssumption DEF Expected, Stripped, Fields
<1> QED BY <1>1, <1>2 DEF Listed

(* The keychain writes of a mutation are of secrets that its entry lists. *)
LEMMA SetsListed ==
  ASSUME NEW r \in Request, NEW old, NEW new \in Entry, NEW c \in Config,
         NEW s \in SetsFor(r, old, new)
  PROVE  Listed([c EXCEPT ![r.to] = Stripped(new)], s.id, s.field)
<1>1. r.to \in Ids /\ s.field \in Fields /\ s.value \in Values /\ s.id = r.to
  BY DEF SetsFor, Secret, Request
<1>2. \/ s.field \in Plain(new)
      \/ s.field \in Expected(Stripped(new))
  BY <1>1, ServerCatalogAssumption DEF SetsFor
<1>3. new[s.field] # Absent \/ s.field \in Expected(Stripped(new))
  BY <1>2, ServerCatalogAssumption DEF Plain
<1> QED BY <1>1, <1>3, ListsPlain

(* A step that leaves the file and the keychain alone. *)
LEMMA TidyStill ==
  ASSUME NEW p \in Reqs, req'[p] = req[p], Tidy(req[p]),
         file' = file, keychain' = keychain, keyring' = keyring
  PROVE  Tidy(req[p])'
<1> DEFINE r == req[p]
<1>1. r' = r /\ \A id \in Ids, f \in Fields : Holds(id, f)' = Holds(id, f)
  BY DEF Holds
<1>2. SetsFor(r, EmptyEntry, r.body)' = SetsFor(r, EmptyEntry, r.body)
  BY <1>1 DEF SetsFor, Found, EmptyEntry
<1> HIDE DEF r
<1>3. Tidy(r)'
  BY <1>1, <1>2 DEF Tidy, Listed, r
<1> QED BY <1>3 DEF r

LEMMA CleanStill ==
  ASSUME Clean, NEW q \in Reqs, Only(q), Tidy(req[q])',
         file' = file, keychain' = keychain, keyring' = keyring,
         req[q].pc \in {"setting", "dropping"} => req'[q].pc \in {"setting", "dropping"}
  PROVE  Clean'
<1>1. ASSUME NEW p \in Reqs PROVE Tidy(req[p])'
  <2>1. CASE p = q
    BY <2>1
  <2>2. CASE p # q
    BY <2>2, TidyStill DEF Only, Clean
  <2> QED BY <2>1, <2>2
<1>2. Between' => Between
  BY DEF Between, Only
<1>3. NothingHeld' /\ NoStrays'
  BY <1>2 DEF Clean, NothingHeld, NoStrays, Holds, Listed
<1> QED BY <1>1, <1>3 DEF Clean, Stored

(* A step under the lock. *)
LEMMA CleanMove ==
  ASSUME Locked, Clean, NEW q \in Reqs, Only(q), req[q].pc \in Active \/ lock = NoReq,
         keyring' = keyring, Tidy(req[q])', Stored(file)', NothingHeld', NoStrays'
  PROVE  Clean'
<1>1. ASSUME NEW p \in Reqs PROVE Tidy(req[p])'
  <2>1. CASE p = q
    BY <2>1
  <2>2. CASE p # q
    <3>1. req'[p] = req[p] /\ Tidy(req[p]) /\ req[p].pc \notin Active
      BY <2>2, OneActive DEF Only, Clean
    <3> QED BY <3>1 DEF Tidy, Active
  <2> QED BY <2>1, <2>2
<1> QED BY <1>1 DEF Clean

(* With the lock free, or in the hands of a request not that far yet. *)
LEMMA BetweenWrites ==
  ASSUME Locked, Clean, NEW q \in Reqs,
         req[q].pc \in {"looking", "sweeping"} \/ lock = NoReq
  PROVE  \A id \in Ids, f \in Fields : Holds(id, f) => Listed(file, id, f)
<1>1. \A p \in Reqs \ {q} : req[p].pc \notin Active
  BY OneActive DEF Active
<1>2. req[q].pc \notin {"setting", "dropping"}
  BY ServerCatalogAssumption DEF Locked, Active
<1>3. Between
  BY <1>1, <1>2 DEF Between, Active
<1> QED BY <1>3 DEF Clean, NoStrays

LEMMA CleanLook ==
  ASSUME TypeOK, Locked, Clean, NEW q \in Reqs, Look(q)
  PROVE  Clean'
<1> DEFINE s == req'[q]
<1>1. /\ Only(q) /\ s.pc = "looking" /\ s.op \in Ops
      /\ s.next = file /\ s.sets = {} /\ s.drop = {}
      /\ (s.id # s.to) <=> (s.op = "rename")
  BY LookIs
<1>2. file' = file /\ keychain' = keychain /\ keyring' = keyring /\ req[q].pc = "idle"
  BY DEF Look, disk
<1>3. Tidy(req[q])'
  BY <1>1, <1>2 DEF Tidy, Clean
<1> QED BY <1>1, <1>2, <1>3, CleanStill

LEMMA CleanAdd ==
  ASSUME TypeOK, Locked, Clean, NEW q \in Reqs, AddServer(q)
  PROVE  Clean'
<1> DEFINE r == req[q]
           s == req'[q]
<1>1. /\ Only(q) /\ s.pc = "sweeping" /\ s.op = r.op /\ s.id = r.id /\ s.to = r.to /\ s.body = r.body
      /\ s.next = [r.next EXCEPT ![r.id] = Stripped(r.body)]
      /\ s.sets = SetsFor(r, EmptyEntry, r.body) /\ s.drop = r.drop
  BY AddServerIs
<1>2. /\ file' = file /\ keychain' = keychain /\ keyring' = keyring
      /\ r.pc = "looking" /\ r.op = "post" /\ r.next[r.id] = NoEntry
  BY DEF AddServer, disk
<1>3. /\ Tidy(r) /\ r.drop = {} /\ r.id = r.to /\ r.next = file /\ Stored(file)
  BY <1>2 DEF Clean, Tidy
<1>4. file \in Config /\ r.id \in Ids /\ r.body \in Entry
  BY Kinds DEF TypeOK, Request
<1>5. Stored(s.next)
  <2> HIDE DEF r
  <2> QED BY <1>1, <1>3, <1>4, StoredParts
<1>6. s.sets = SetsFor(req[q], EmptyEntry, req[q].body)'
  BY <1>1, <1>2 DEF SetsFor, Found, EmptyEntry
<1>7. Tidy(req[q])'
  BY <1>1, <1>2, <1>3, <1>5, <1>6 DEF Tidy
<1> QED BY <1>1, <1>2, <1>7, CleanStill

LEMMA CleanUpdate ==
  ASSUME TypeOK, Locked, Clean, NEW q \in Reqs, UpdateServer(q)
  PROVE  Clean'
<1> DEFINE r == req[q]
           s == req'[q]
           old == r.next[r.id]
           new == Built(r, old)
           gone == [r.next EXCEPT ![r.id] = NoEntry]
<1>1. /\ Only(q) /\ s.pc = "setting" /\ s.op = r.op
      /\ s.next = [gone EXCEPT ![r.to] = Stripped(new)]
      /\ s.sets = SetsFor(r, old, new)
      /\ s.drop = IF r.op = "rename" THEN AllOf(r.id) ELSE {r.id} \X Obsolete(old, new)
  BY UpdateServerIs
<1>2. /\ file' = file /\ keychain' = keychain /\ keyring' = keyring
      /\ r.pc = "looking" /\ r.op \in PutOps /\ old # NoEntry
      /\ r.op = "rename" => r.next[r.to] = NoEntry
  BY DEF UpdateServer, disk
<1>3. r.next = file /\ ((r.id # r.to) <=> (r.op = "rename")) /\ Stored(file)
  BY <1>2 DEF Clean, Tidy
<1>4. r \in Request /\ r.next \in Config /\ r.id \in Ids /\ r.to \in Ids
  BY DEF TypeOK, Request
<1>5. old \in Entry /\ new \in Entry
  <2>1. old \in Entry
    BY <1>2, <1>4 DEF Config
  <2> HIDE DEF old, r
  <2> QED BY <1>2, <1>4, <2>1, BuiltKind
<1>6. gone \in Config /\ Stored(gone)
  <2>1. gone \in Config
    BY <1>4 DEF Config
  <2> QED BY <1>3, <1>4, <2>1, StoredParts
<1> HIDE DEF new
<1>7. Stored(s.next)
  <2> HIDE DEF gone
  <2> QED BY <1>1, <1>4, <1>5, <1>6, StoredParts
<1>8. \A t \in s.sets : Listed(s.next, t.id, t.field)
  <2> HIDE DEF gone, old, r
  <2> QED BY <1>1, <1>4, <1>5, <1>6, SetsListed
<1>9. ASSUME NEW id \in Ids, NEW f \in Fields, Holds(id, f)
      PROVE  Listed(s.next, id, f) \/ <<id, f>> \in s.drop
  <2>1. Listed(file, id, f)
    BY <1>2, <1>9, BetweenWrites
  <2>2. CASE id \notin {r.id, r.to}
    <3>1. s.next[id] = file[id]
      BY <1>1, <1>3, <1>4, <2>2 DEF Config
    <3> QED BY <2>1, <3>1 DEF Listed
  <2>3. CASE r.op = "rename" /\ id \in {r.id, r.to}
    <3>1. id = r.id
      BY <1>2, <1>3, <2>1, <2>3 DEF Listed
    <3> QED BY <1>1, <2>3, <3>1 DEF AllOf
  <2>4. CASE r.op # "rename" /\ id \in {r.id, r.to}
    <3>1. id = r.id /\ id = r.to /\ f \in Expected(old)
      BY <1>3, <2>1, <2>4 DEF Listed
    <3>2. CASE f \in Plain(new)
      <4>1. new[f] # Absent
        BY <3>2, ServerCatalogAssumption DEF Plain
      <4> HIDE DEF gone
      <4> QED BY <1>1, <1>5, <1>6, <3>1, <4>1, ListsPlain
    <3>3. CASE f \notin Plain(new)
      <4> HIDE DEF old
      <4> QED BY <1>1, <2>4, <3>1, <3>3 DEF Obsolete
    <3> QED BY <3>2, <3>3
  <2> QED BY <2>2, <2>3, <2>4
<1>10. Tidy(req[q])'
  <2>1. r.op \notin {"get", "seed"}
    BY <1>2 DEF PutOps
  <2> HIDE DEF gone, old, r
  <2> QED BY <1>1, <1>2, <1>7, <1>8, <1>9, <2>1 DEF Tidy, Holds
<1> QED BY <1>1, <1>2, <1>10, CleanStill

LEMMA CleanRemove ==
  ASSUME TypeOK, Locked, Clean, NEW q \in Reqs, RemoveServer(q)
  PROVE  Clean'
<1> DEFINE r == req[q]
           s == req'[q]
<1>1. /\ Only(q) /\ s.pc = (IF r.next[r.id] # NoEntry THEN "setting" ELSE "dropping")
      /\ s.op = r.op /\ s.next = [r.next EXCEPT ![r.id] = NoEntry]
      /\ s.sets = r.sets /\ s.drop = AllOf(r.id)
  BY RemoveServerIs
<1>2. /\ file' = file /\ keychain' = keychain /\ keyring' = keyring
      /\ r.pc = "looking" /\ r.op = "delete"
  BY DEF RemoveServer, disk
<1>3. r.next = file /\ Stored(file) /\ r.sets = {}
  BY <1>2 DEF Clean, Tidy
<1>4. file \in Config /\ r.id \in Ids
  BY DEF TypeOK, Request
<1>5. Stored(s.next)
  BY <1>1, <1>3, <1>4, StoredParts
<1>6. \A id \in Ids, f \in Fields : Holds(id, f) => Listed(file, id, f)
  BY <1>2, BetweenWrites
<1>7. ASSUME NEW id \in Ids, NEW f \in Fields, Holds(id, f)
      PROVE  Listed(s.next, id, f) \/ <<id, f>> \in s.drop
  <2>1. CASE id = r.id
    BY <1>1, <2>1 DEF AllOf
  <2>2. CASE id # r.id
    <3>1. s.next[id] = file[id]
      BY <1>1, <1>3, <1>4, <2>2 DEF Config
    <3> QED BY <1>6, <1>7, <3>1 DEF Listed
  <2> QED BY <2>1, <2>2
<1>8. Tidy(req[q])'
  BY <1>1, <1>2, <1>3, <1>5, <1>6, <1>7 DEF Tidy, Holds, Listed
<1> QED BY <1>1, <1>2, <1>8, CleanStill

LEMMA CleanSweep ==
  ASSUME TypeOK, Locked, Clean, NEW q \in Reqs, Sweep(q)
  PROVE  Clean'
<1> DEFINE r == req[q]
           s == req'[q]
<1>1. /\ Only(q) /\ s.pc = "setting" /\ s.op = r.op
      /\ s.next = r.next /\ s.sets = r.sets /\ s.drop = r.drop
  BY MovesOn DEF Sweep, Places
<1>2. /\ file' = file /\ keyring' = keyring /\ keychain' = Deleted(AllOf(r.to))
      /\ r.pc = "sweeping"
  BY DEF Sweep, disk
<1>3. /\ r.op = "post" /\ r.drop = {} /\ r.id = r.to /\ Stored(r.next)
      /\ r.next = [file EXCEPT ![r.to] = Stripped(r.body)]
      /\ r.sets = SetsFor(r, EmptyEntry, r.body)
      /\ Stored(file) /\ NothingHeld
  BY <1>2 DEF Clean, Tidy
<1>4. r \in Request /\ file \in Config /\ r.to \in Ids /\ r.body \in Entry
  BY Kinds DEF TypeOK, Request
<1>5. \A t \in s.sets : Listed(s.next, t.id, t.field)
  <2> HIDE DEF r
  <2> QED BY <1>1, <1>3, <1>4, SetsListed
<1>6. ASSUME NEW id \in Ids, NEW f \in Fields, Holds(id, f)'
      PROVE  Holds(id, f) /\ (keyring => id # r.to)
  <2>1. <<id, f>> \in AllOf(r.to) <=> id = r.to
    BY DEF AllOf
  <2> HIDE DEF r
  <2> QED BY <1>2, <1>6, <2>1, KeychainKind DEF Holds, TypeOK
<1>7. ASSUME NEW id \in Ids, NEW f \in Fields, Holds(id, f)' PROVE Listed(s.next, id, f)
  <2>1. Holds(id, f) /\ id # r.to
    BY <1>3, <1>6, <1>7 DEF NothingHeld, TypeOK
  <2>2. Listed(file, id, f)
    BY <1>2, <2>1, BetweenWrites
  <2>3. s.next[id] = file[id]
    BY <1>1, <1>3, <1>4, <2>1 DEF Config
  <2> QED BY <2>2, <2>3 DEF Listed
<1>8. Tidy(req[q])'
  BY <1>1, <1>3, <1>5, <1>7 DEF Tidy
<1>9. Stored(file)' /\ NothingHeld'
  BY <1>2, <1>3, <1>6 DEF NothingHeld
<1>10. NoStrays'
  BY <1>1 DEF NoStrays, Between
<1> QED BY <1>1, <1>2, <1>8, <1>9, <1>10, CleanMove DEF Active

LEMMA CleanSet ==
  ASSUME TypeOK, Locked, Clean, NEW q \in Reqs, NEW w \in req[q].sets, SetSucceeds(q, w)
  PROVE  Clean'
<1> DEFINE r == req[q]
           s == req'[q]
           S == r.sets \ {w}
<1>1. /\ S \in SUBSET Secret /\ w.id \in Ids /\ w.field \in Fields /\ w.value \in Values
  BY DEF TypeOK, Request, Secret
<1>2. req' = [req EXCEPT ![q].sets = S]
  BY DEF SetSucceeds, TypeOK
<1>3. /\ Only(q) /\ s.pc = r.pc /\ s.op = r.op
      /\ s.next = r.next /\ s.sets = S /\ s.drop = r.drop
  <2> HIDE DEF S
  <2> QED BY <1>1, <1>2, SetsShrink
<1>4. /\ file' = file /\ keyring' = keyring /\ keyring /\ r.pc \in {"setting", "done"}
      /\ keychain' = [keychain EXCEPT ![w.id][w.field] = w.value]
  BY DEF SetSucceeds, disk
<1>5. Tidy(r) /\ r.pc = "setting" /\ Stored(file)
  BY <1>4 DEF Clean, Tidy
<1>6. ASSUME NEW id \in Ids, NEW f \in Fields, Holds(id, f)'
      PROVE  Holds(id, f) \/ (id = w.id /\ f = w.field)
  BY <1>1, <1>4, <1>6, KeychainKind DEF Holds
<1>7. ASSUME NEW id \in Ids, NEW f \in Fields, Holds(id, f)'
      PROVE  Listed(s.next, id, f) \/ <<id, f>> \in s.drop
  <2>1. /\ Holds(id, f) => Listed(r.next, id, f) \/ <<id, f>> \in r.drop
        /\ Listed(r.next, w.id, w.field)
    BY <1>5 DEF Tidy
  <2> QED BY <1>3, <1>6, <1>7, <2>1
<1>8. \A t \in s.sets : Listed(s.next, t.id, t.field)
  BY <1>3, <1>5 DEF Tidy
<1>9. Tidy(req[q])'
  BY <1>3, <1>5, <1>7, <1>8 DEF Tidy
<1>10. NothingHeld' /\ NoStrays'
  BY <1>3, <1>4, <1>5 DEF NothingHeld, NoStrays, Between
<1> QED BY <1>3, <1>4, <1>5, <1>9, <1>10, CleanMove DEF Active

LEMMA CleanSetFails ==
  ASSUME TypeOK, Locked, Clean, NEW q \in Reqs, NEW w \in req[q].sets, SetFails(q, w)
  PROVE  Clean'
<1>1. /\ Only(q) /\ req'[q].pc = "done"
  BY SetFailsIs
<1>2. file' = file /\ keychain' = keychain /\ keyring' = keyring /\ ~keyring
  BY DEF SetFails, disk
<1>3. Tidy(req[q])'
  BY <1>1, <1>2 DEF Tidy
<1>4. \A p \in Reqs : Tidy(req[p])'
  BY <1>1, <1>2, <1>3, TidyStill DEF Only, Clean
<1>5. NothingHeld' /\ NoStrays'
  BY <1>2 DEF Clean, NothingHeld, NoStrays, Holds
<1> QED BY <1>2, <1>4, <1>5 DEF Clean, Stored

LEMMA CleanWrite ==
  ASSUME TypeOK, Locked, Clean, NEW q \in Reqs, FileWritten(q)
  PROVE  Clean'
<1> DEFINE r == req[q]
           s == req'[q]
<1>1. /\ Only(q) /\ s.sets = r.sets /\ s.drop = r.drop
      /\ s.pc = (IF r.op \in {"get", "seed"} THEN "reading" ELSE "dropping")
  <2> DEFINE x == IF r.op \in {"get", "seed"} THEN "reading" ELSE "dropping"
  <2>1. x \in Places /\ req' = [req EXCEPT ![q].pc = x]
    BY DEF FileWritten, Places
  <2> HIDE DEF x
  <2>2. Only(q) /\ s.sets = r.sets /\ s.drop = r.drop /\ s.pc = x
    BY <2>1, MovesOn
  <2> QED BY <2>2 DEF x
<1>2. /\ file' = r.next /\ keychain' = keychain /\ keyring' = keyring
      /\ r.pc = "setting" /\ r.sets = {}
  BY DEF FileWritten
<1>3. /\ Stored(r.next) /\ NothingHeld
      /\ r.op \in {"get", "seed"} => r.drop = {}
      /\ \A id \in Ids, f \in Fields :
           Holds(id, f) => Listed(r.next, id, f) \/ <<id, f>> \in r.drop
  BY <1>2 DEF Clean, Tidy
<1>4. Tidy(req[q])'
  BY <1>1, <1>2, <1>3 DEF Tidy, Holds
<1>5. Stored(file)' /\ NothingHeld'
  BY <1>2, <1>3 DEF NothingHeld, Holds
<1>6. NoStrays'
  <2> SUFFICES ASSUME Between', NEW id \in Ids, NEW f \in Fields, Holds(id, f)
               PROVE  Listed(r.next, id, f)
    BY <1>2 DEF NoStrays, Holds
  <2>1. r.drop = {}
    BY <1>1, <1>3 DEF Between
  <2> QED BY <1>3, <2>1
<1> QED BY <1>1, <1>2, <1>4, <1>5, <1>6, CleanMove DEF Active

LEMMA CleanDrop ==
  ASSUME TypeOK, Locked, Clean, NEW q \in Reqs, Drop(q)
  PROVE  Clean'
<1> DEFINE r == req[q]
<1>1. Only(q) /\ req'[q] = Finished
  BY FinishedIs
<1>2. /\ file' = file /\ keyring' = keyring /\ keychain' = Deleted(r.drop) /\ r.pc = "dropping"
  BY DEF Drop, disk
<1>3. /\ Stored(file) /\ NothingHeld
      /\ \A id \in Ids, f \in Fields : Holds(id, f) => Listed(file, id, f) \/ <<id, f>> \in r.drop
  BY <1>2 DEF Clean, Tidy
<1>4. ASSUME NEW id \in Ids, NEW f \in Fields, Holds(id, f)'
      PROVE  Holds(id, f) /\ (keyring => <<id, f>> \notin r.drop)
  <2> HIDE DEF r
  <2> QED BY <1>2, <1>4, KeychainKind DEF Holds, TypeOK
<1>5. Tidy(req[q])'
  BY <1>1, IdleIs DEF Tidy
<1>6. NothingHeld'
  BY <1>2, <1>3, <1>4 DEF NothingHeld
<1>7. NoStrays'
  <2> SUFFICES ASSUME NEW id \in Ids, NEW f \in Fields, Holds(id, f)' PROVE Listed(file, id, f)
    BY <1>2 DEF NoStrays
  <2>1. keyring
    BY <1>3, <1>4 DEF NothingHeld
  <2> QED BY <1>3, <1>4, <2>1
<1> QED BY <1>1, <1>2, <1>3, <1>5, <1>6, <1>7, CleanMove DEF Active

LEMMA CleanSettle ==
  ASSUME TypeOK, Locked, Clean, ~exists => file = EmptyConfig, NEW q \in Reqs, Settle(q)
  PROVE  Clean'
<1> DEFINE r == req[q]
           s == req'[q]
           there == PlainSecrets(file)
<1>1. /\ Only(q) /\ s.drop = r.drop
      /\ ~exists => s.pc = "setting" /\ s.next = SeedConfig /\ s.sets = r.sets
      /\ exists => s.pc = (IF there = {} THEN "reading" ELSE "migrating") /\ s.sets = there
  BY SettleIs
<1>2. /\ file' = file /\ keychain' = keychain /\ keyring' = keyring /\ lock = NoReq
      /\ r.pc = "queued"
  BY DEF Settle, disk
<1>3. Stored(file) /\ r.drop = {} /\ r.sets = {}
  BY <1>2 DEF Clean, Tidy
<1>4. there = {}
  BY <1>3, StoredHasNone DEF TypeOK
<1>5. ASSUME ~exists PROVE \A id \in Ids, f \in Fields : ~Holds(id, f)
  <2>1. \A id \in Ids, f \in Fields : ~Listed(file, id, f)
    BY <1>5 DEF Listed, EmptyConfig
  <2> QED BY <1>2, <2>1, BetweenWrites
<1>6. Tidy(req[q])'
  <2>1. CASE exists
    BY <1>1, <1>4, <2>1 DEF Tidy
  <2>2. CASE ~exists
    <3> HIDE DEF r
    <3> QED BY <1>1, <1>2, <1>3, <1>5, <2>2, StoredParts DEF Tidy, Holds
  <2> QED BY <2>1, <2>2
<1> QED BY <1>1, <1>2, <1>6, CleanStill

LEMMA TidyInit == Init => TidyInv
<1> SUFFICES ASSUME Init PROVE TidyInv
  OBVIOUS
<1>1. \A q \in Reqs : req[q] = Idle
  BY DEF Init
<1>2. Locked
  BY <1>1, IdleIs DEF Locked, Active
<1>3. file = EmptyConfig
  BY DEF Init
<1>4. \A id \in Ids, f \in Fields : ~Holds(id, f)
  BY DEF Init, Holds, EmptyEntry
<1>5. \A q \in Reqs : Tidy(req[q])
  BY <1>1, IdleIs DEF Tidy
<1>6. Clean
  BY <1>3, <1>4, <1>5, StoredParts DEF Clean, NothingHeld, NoStrays
<1> QED BY <1>2, <1>3, <1>6 DEF TidyInv

LEMMA CleanNext ==
  ASSUME TypeOK, Locked, Clean, ~exists => file = EmptyConfig, [Next]_vars, Calm, Calm'
  PROVE  Clean'
<1>1. ASSUME NEW q \in Reqs, Refuse(q) \/ Rehydrate(q) PROVE Clean'
  <2>1. Only(q) /\ req'[q] = Finished
    BY <1>1, FinishedIs
  <2>2. /\ file' = file /\ keychain' = keychain /\ keyring' = keyring
        /\ req[q].pc \in {"looking", "reading"}
    BY <1>1 DEF Refuse, Rehydrate, disk
  <2>3. Tidy(req[q])'
    BY <2>1, IdleIs DEF Tidy
  <2> QED BY <2>1, <2>2, <2>3, CleanStill
<1>2. ASSUME NEW q \in Reqs, Peek(q) PROVE Clean'
  <2>1. /\ Only(q) /\ req'[q].pc \in {"reading", "queued"}
        /\ req'[q].sets = {} /\ req'[q].drop = {}
    BY <1>2, PeekIs
  <2>2. /\ file' = file /\ keychain' = keychain /\ keyring' = keyring /\ req[q].pc = "idle"
    BY <1>2 DEF Peek, disk
  <2>3. Tidy(req[q])'
    BY <2>1 DEF Tidy
  <2> QED BY <2>1, <2>2, <2>3, CleanStill
<1>3. ASSUME NEW q \in Reqs, Migrate(q) \/ MigrateFails(q) \/ Migrated(q) PROVE Clean'
  BY <1>3 DEF Migrate, MigrateFails, Migrated, Clean, Tidy
<1>4. CASE \/ \E q \in Reqs : FileWriteFails(q)
           \/ \E id \in Ids, e \in Secrets \union {NoEntry} : EditByHand(id, e)
           \/ KeyringTurns \/ Restart
  <2>1. faults' = 1 \/ edits' = 1
    BY <1>4 DEF FileWriteFails, EditByHand, KeyringTurns, Restart, Calm
  <2> QED BY <2>1 DEF Calm
<1>5. CASE UNCHANGED vars
  <2>1. file' = file /\ keychain' = keychain /\ keyring' = keyring /\ req' = req
    BY <1>5 DEF vars, disk
  <2>2. \A p \in Reqs : Tidy(req[p])'
    BY <2>1, TidyStill DEF Clean
  <2>3. NothingHeld' /\ NoStrays'
    BY <2>1 DEF Clean, NothingHeld, NoStrays, Between, Holds, Listed
  <2> QED BY <2>1, <2>2, <2>3 DEF Clean, Stored
<1>6. ASSUME NEW q \in Reqs,
             \/ Look(q) \/ AddServer(q) \/ UpdateServer(q) \/ RemoveServer(q) \/ Sweep(q)
             \/ \E w \in req[q].sets : SetSucceeds(q, w) \/ SetFails(q, w)
             \/ FileWritten(q) \/ Drop(q) \/ Settle(q)
      PROVE  Clean'
  BY <1>6, CleanLook, CleanAdd, CleanUpdate, CleanRemove, CleanSweep, CleanSet, CleanSetFails,
     CleanWrite, CleanDrop, CleanSettle
<1> QED BY <1>1, <1>2, <1>3, <1>4, <1>5, <1>6 DEF Next

LEMMA StaysCalm == TypeOK /\ [Next]_vars /\ Calm' => Calm
<1> SUFFICES ASSUME TypeOK, [Next]_vars PROVE faults' # 0 \/ edits' # 0 \/ Calm
  BY DEF Calm
<1>1. faults \in Nat /\ edits \in Nat
  <2>1. faults \in 0..MaxFaults /\ edits \in 0..MaxEdits
    BY DEF TypeOK
  <2> QED BY <2>1, ServerCatalogAssumption
<1>2. CASE faults' = faults /\ edits' = edits
  BY <1>2 DEF Calm
<1>3. CASE faults' = faults + 1 \/ edits' = edits + 1
  BY <1>1, <1>3
<1>4. ASSUME NEW q \in Reqs,
             Look(q) \/ Refuse(q) \/ AddServer(q) \/ UpdateServer(q) \/ RemoveServer(q)
      PROVE  faults' = faults /\ edits' = edits
  BY <1>4 DEF Look, Refuse, AddServer, UpdateServer, RemoveServer
<1>5. ASSUME NEW q \in Reqs,
             \/ Sweep(q) \/ \E w \in req[q].sets : SetSucceeds(q, w) \/ SetFails(q, w)
             \/ FileWritten(q) \/ Drop(q)
      PROVE  faults' = faults /\ edits' = edits
  BY <1>5 DEF Sweep, SetSucceeds, SetFails, FileWritten, Drop
<1>6. ASSUME NEW q \in Reqs,
             \/ Peek(q) \/ Settle(q) \/ Migrate(q) \/ MigrateFails(q) \/ Migrated(q)
             \/ Rehydrate(q)
      PROVE  faults' = faults /\ edits' = edits
  BY <1>6 DEF Peek, Settle, Migrate, MigrateFails, Migrated, Rehydrate
<1>7. CASE \/ \E q \in Reqs : FileWriteFails(q)
           \/ \E id \in Ids, e \in Secrets \union {NoEntry} : EditByHand(id, e)
           \/ KeyringTurns \/ Restart
  BY <1>3, <1>7 DEF FileWriteFails, EditByHand, KeyringTurns, Restart
<1>8. CASE UNCHANGED vars
  BY <1>2, <1>8 DEF vars
<1> QED BY <1>2, <1>4, <1>5, <1>6, <1>7, <1>8 DEF Next

LEMMA FileIsThere ==
  [Next]_vars /\ (~exists => file = EmptyConfig) => (~exists => file = EmptyConfig)'
<1> SUFFICES ASSUME [Next]_vars PROVE exists' \/ (exists' = exists /\ file' = file)
  OBVIOUS
<1>1. ASSUME NEW q \in Reqs,
             Look(q) \/ Refuse(q) \/ AddServer(q) \/ UpdateServer(q) \/ RemoveServer(q)
      PROVE  exists' = exists /\ file' = file
  BY <1>1 DEF Look, Refuse, AddServer, UpdateServer, RemoveServer, disk
<1>2. ASSUME NEW q \in Reqs,
             \/ Sweep(q) \/ \E w \in req[q].sets : SetSucceeds(q, w) \/ SetFails(q, w)
             \/ FileWriteFails(q) \/ Drop(q)
      PROVE  exists' = exists /\ file' = file
  BY <1>2 DEF Sweep, SetSucceeds, SetFails, FileWriteFails, Drop, disk
<1>3. ASSUME NEW q \in Reqs,
             \/ Peek(q) \/ Settle(q) \/ Migrate(q) \/ MigrateFails(q) \/ Migrated(q)
             \/ Rehydrate(q)
      PROVE  exists' = exists /\ file' = file
  BY <1>3 DEF Peek, Settle, Migrate, MigrateFails, Migrated, Rehydrate, disk
<1>4. CASE \/ \E q \in Reqs : FileWritten(q)
           \/ \E id \in Ids, e \in Secrets \union {NoEntry} : EditByHand(id, e)
  BY <1>4 DEF FileWritten, EditByHand
<1>5. CASE KeyringTurns \/ Restart \/ UNCHANGED vars
  BY <1>5 DEF KeyringTurns, Restart, vars, disk
<1> QED BY <1>1, <1>2, <1>3, <1>4, <1>5 DEF Next

LEMMA TidyNext == TypeOK /\ TidyInv /\ [Next]_vars => TidyInv'
<1> SUFFICES ASSUME TypeOK, TidyInv, [Next]_vars PROVE TidyInv'
  OBVIOUS
<1>1. Locked' /\ (~exists => file = EmptyConfig)'
  BY LockedNext, FileIsThere DEF TidyInv
<1>2. Calm' => Clean'
  BY StaysCalm, CleanNext DEF TidyInv
<1> QED BY <1>1, <1>2 DEF TidyInv

(* As long as nothing fails and nobody edits mcp.json, the routes leave no   *)
(* secret in the keychain that the file does not list: a PUT deletes what    *)
(* its entry dropped, a rename and a DELETE take the whole of the old id     *)
(* along, and only under the write lock is there ever a secret in between.   *)
THEOREM NoSecretIsOrphaned == Spec => []NoOrphans
<1>1. TypeOK /\ TidyInv => NoOrphans
  <2> SUFFICES ASSUME TidyInv, Quiet, Calm PROVE \A id \in Ids, f \in Fields :
                        Holds(id, f) => Listed(file, id, f)
    BY DEF NoOrphans, Calm, Holds, Listed
  <2>1. Between
    BY DEF Quiet, Between
  <2> QED BY <2>1 DEF TidyInv, Clean, NoStrays
<1> QED BY <1>1, InitTypeOK, NextTypeOK, TidyInit, TidyNext, PTL DEF Spec

-----------------------------------------------------------------------------
(* What was promised *)

LEMMA AgreesAlike ==
  ASSUME NEW e, NEW k, NEW l, NEW a, \A f \in Fields : k[f] = l[f], Agrees(e, k, a)
  PROVE  Agrees(e, l, a)
<1>1. \A f \in Fields : Merged(e, k)[f] = Merged(e, l)[f]
  BY DEF Merged
<1> QED BY <1>1 DEF Agrees

LEMMA ShownAlike ==
  ASSUME NEW c, NEW k, NEW l, NEW a, Shown(c, k, a),
         \A id \in Ids, f \in Fields : k[id][f] = l[id][f]
  PROVE  Shown(c, l, a)
<1> SUFFICES ASSUME NEW id \in Ids PROVE Agrees(c[id], l[id], a[id])
  BY DEF Shown
<1>1. Agrees(c[id], k[id], a[id]) /\ \A f \in Fields : k[id][f] = l[id][f]
  BY DEF Shown
<1> QED BY <1>1, AgreesAlike

LEMMA NoneAgrees == \A k : Agrees(NoEntry, k, NoEntry)
BY ServerCatalogAssumption DEF Agrees

LEMMA MergedStored ==
  ASSUME NEW e, NEW k, NEW f \in Fields, e[f] = Absent \/ (f \in EnvKeys /\ e[f] = Blank)
  PROVE  /\ f \in OauthFields => Merged(e, k)[f] = k[f]
         /\ f \in EnvKeys => Merged(e, k)[f] = IF e[f] = Blank /\ k[f] # Absent THEN k[f] ELSE e[f]
<1>1. Merged(e, k)[f] = IF f \in Expected(e) /\ k[f] # Absent THEN k[f] ELSE e[f]
  BY DEF Merged
<1>2. /\ f \in OauthFields => f \notin EnvKeys /\ f \in Expected(e)
      /\ f \in EnvKeys => (f \in Expected(e) <=> e[f] = Blank)
  BY ServerCatalogAssumption DEF Expected
<1> QED BY <1>1, <1>2

(* The entry made of e, once the keychain holds of it what was said.         *)
LEMMA NewAgrees ==
  ASSUME NEW e \in Entry, NEW k, NEW said \in Secrets,
         \A f \in EnvKeys : e[f] = said[f],
         \A f \in Fields : said[f] # Absent \/ f \in OauthFields => k[f] = said[f]
  PROVE  Agrees(Stripped(e), k, said)
<1>1. Stripped(e) # NoEntry /\ said # NoEntry /\ said # Unknown
  BY Kinds, ServerCatalogAssumption
<1>2. ASSUME NEW f \in Fields PROVE Merged(Stripped(e), k)[f] = said[f]
  <2>1. /\ Stripped(e)[f] = IF f \in EnvKeys /\ e[f] # Absent THEN Blank ELSE Absent
        /\ said[f] \in Values \union {Absent}
    BY DEF Stripped, Secrets
  <2>2. CASE f \in OauthFields
    <3>1. f \notin EnvKeys
      BY <2>2, ServerCatalogAssumption
    <3> QED BY <2>1, <2>2, <3>1, MergedStored
  <2>3. CASE f \in EnvKeys
    <3>1. Merged(Stripped(e), k)[f] = IF Stripped(e)[f] = Blank /\ k[f] # Absent THEN k[f]
                                      ELSE Stripped(e)[f]
      BY <2>1, <2>3, MergedStored
    <3> QED BY <2>1, <2>3, <3>1, ServerCatalogAssumption
  <2> QED BY <2>2, <2>3 DEF Fields
<1> QED BY <1>1, <1>2 DEF Agrees

LEMMA FoundIs ==
  ASSUME TypeOK, NothingHeld, NEW id \in Ids, NEW f \in Fields
  PROVE  Found(id)[f] = keychain[id][f]
BY DEF Found, EmptyEntry, NothingHeld, Holds

LEMMA ThroughIs ==
  ASSUME NEW r, \A s, t \in r.sets : s.id = t.id /\ s.field = t.field => s = t,
         NEW id \in Ids, NEW f \in Fields
  PROVE  /\ <<id, f>> \in r.drop => Through(r)[id][f] = Absent
         /\ <<id, f>> \notin r.drop =>
              /\ \A s \in r.sets : s.id = id /\ s.field = f => Through(r)[id][f] = s.value
              /\ ~Comes(r, id, f) => Through(r)[id][f] = keychain[id][f]
<1> DEFINE c == CHOOSE s \in r.sets : s.id = id /\ s.field = f
<1>1. Through(r)[id][f] = IF <<id, f>> \in r.drop THEN Absent
                          ELSE IF Comes(r, id, f) THEN c.value ELSE keychain[id][f]
  BY DEF Through
<1>2. ASSUME NEW s \in r.sets, s.id = id, s.field = f PROVE c = s /\ Comes(r, id, f)
  <2>1. c \in r.sets /\ c.id = id /\ c.field = f
    BY <1>2
  <2> HIDE DEF c
  <2> QED BY <1>2, <2>1 DEF Comes
<1> QED BY <1>1, <1>2

(* The keychain writes of a mutation, at most one for each field.            *)
LEMMA SetsForIs ==
  ASSUME NEW r \in Request, NEW old, NEW new, NEW s \in SetsFor(r, old, new)
  PROVE  /\ s \in Secret /\ s.id = r.to
         /\ s.value = IF s.field \in Plain(new) THEN new[s.field]
                      ELSE IF r.op = "rename" /\ s.field \in Expected(old) \intersect Expected(Stripped(new))
                      THEN Found(r.id)[s.field] ELSE Absent
BY DEF SetsFor

LEMMA SetsForCarries ==
  ASSUME NEW r \in Request, NEW old, NEW new, NEW f \in Fields, f \notin Plain(new),
         r.op = "rename", f \in Expected(old) \intersect Expected(Stripped(new)),
         Found(r.id)[f] \in Values
  PROVE  \E s \in SetsFor(r, old, new) : s.id = r.to /\ s.field = f /\ s.value = Found(r.id)[f]
<1> DEFINE s == [id |-> r.to, field |-> f, value |-> Found(r.id)[f]]
<1>1. s \in Secret /\ s.id = r.to /\ s.field = f /\ s.value = Found(r.id)[f]
  BY DEF Secret, Request
<1> HIDE DEF s
<1>2. s \in SetsFor(r, old, new)
  BY <1>1 DEF SetsFor
<1> QED BY <1>1, <1>2

LEMMA SetsForOnce ==
  ASSUME NEW r \in Request, NEW old, NEW new
  PROVE  \A s, t \in SetsFor(r, old, new) : s.id = t.id /\ s.field = t.field => s = t
<1> SUFFICES ASSUME NEW s \in SetsFor(r, old, new), NEW t \in SetsFor(r, old, new),
                    s.field = t.field
             PROVE  s = t
  OBVIOUS
<1>1. s \in Secret /\ t \in Secret /\ s.id = t.id
  BY SetsForIs
<1>2. s.value = t.value
  BY SetsForIs
<1> QED BY <1>1, <1>2 DEF Secret

-----------------------------------------------------------------------------

(* A step that shows nowhere yet. *)
LEMMA HonestStill ==
  ASSUME Honest, NEW q \in Reqs, Only(q), Promises(req[q])',
         req[q].pc # "dropping" /\ (keyring => req[q].pc # "setting"),
         file' = file, keychain' = keychain, keyring' = keyring, acked' = acked
  PROVE  Honest'
<1>1. ASSUME NEW p \in Reqs PROVE Promises(req[p])'
  <2>1. CASE p = q
    BY <2>1
  <2>2. CASE p # q
    <3>1. req'[p] = req[p] /\ Promises(req[p])
      BY <2>2 DEF Only, Honest
    <3>2. /\ Through(req[p])' = Through(req[p])
          /\ Acknowledged(req[p])' = Acknowledged(req[p])
      BY <3>1 DEF Through, Comes, Acknowledged
    <3> QED BY <3>1, <3>2 DEF Promises
  <2> QED BY <2>1, <2>2
<1>2. Settled' => Settled
  BY DEF Settled, Only
<1>3. Settled' => Shown(file, keychain, acked)'
  BY <1>2 DEF Honest
<1> QED BY <1>1, <1>3 DEF Honest

(* A step under the lock. *)
LEMMA HonestMove ==
  ASSUME Locked, Honest, NEW q \in Reqs, Only(q), req[q].pc \in Active \/ lock = NoReq,
         Promises(req[q])', Settled' => Shown(file, keychain, acked)'
  PROVE  Honest'
<1>1. ASSUME NEW p \in Reqs PROVE Promises(req[p])'
  <2>1. CASE p = q
    BY <2>1
  <2>2. CASE p # q
    <3>1. req'[p] = req[p] /\ Promises(req[p]) /\ req[p].pc \notin Active
      BY <2>2, OneActive DEF Only, Honest
    <3> QED BY <3>1 DEF Promises, Active
  <2> QED BY <2>1, <2>2
<1> QED BY <1>1 DEF Honest

LEMMA ShownBefore ==
  ASSUME Locked, Honest, NEW q \in Reqs,
         req[q].pc \in {"looking", "sweeping"} \/ lock = NoReq
  PROVE  Shown(file, keychain, acked)
<1>1. \A p \in Reqs \ {q} : req[p].pc \notin Active
  BY OneActive DEF Active
<1>2. req[q].pc \notin {"setting", "dropping"}
  BY ServerCatalogAssumption DEF Locked, Active
<1>3. Settled
  BY <1>1, <1>2 DEF Settled, Active
<1> QED BY <1>3 DEF Honest

LEMMA HonestLook ==
  ASSUME TypeOK, Locked, Honest, {"config", "clear"} \intersect Ops = {}, NEW q \in Reqs, Look(q)
  PROVE  Honest'
<1>1. /\ Only(q) /\ req'[q].pc = "looking" /\ req'[q].op \in Ops /\ req'[q].sets = {}
  BY LookIs
<1>2. /\ file' = file /\ keychain' = keychain /\ keyring' = keyring /\ acked' = acked
      /\ req[q].pc = "idle"
  BY DEF Look, disk
<1>3. Promises(req[q])'
  BY <1>1 DEF Promises
<1> QED BY <1>1, <1>2, <1>3, HonestStill

LEMMA HonestAdd ==
  ASSUME TypeOK, Locked, Honest, NEW q \in Reqs, AddServer(q)
  PROVE  Honest'
<1> DEFINE r == req[q]
<1>1. /\ Only(q) /\ req'[q].pc = "sweeping" /\ req'[q].op = r.op
      /\ req'[q].sets = SetsFor(r, EmptyEntry, r.body)
  BY AddServerIs
<1>2. /\ file' = file /\ keychain' = keychain /\ keyring' = keyring /\ acked' = acked
      /\ r.pc = "looking" /\ r.op = "post" /\ r \in Request
  BY DEF AddServer, disk, TypeOK
<1>3. \A s, t \in req'[q].sets : s.id = t.id /\ s.field = t.field => s = t
  <2> HIDE DEF r
  <2> QED BY <1>1, <1>2, SetsForOnce
<1>4. Promises(req[q])'
  BY <1>1, <1>2, <1>3 DEF Promises
<1> QED BY <1>1, <1>2, <1>4, HonestStill

(* What a PUT promises of its server is what its entry and the keychain will *)
(* show.                                                                     *)
LEMMA UpdateAgrees ==
  ASSUME TypeOK, NothingHeld, Stored(file), NEW r \in Request, NEW s,
         r.op \in PutOps, r.op \notin {"config", "clear"}, r.next = file, file[r.id] # NoEntry,
         (r.id # r.to) <=> (r.op = "rename"),
         r.op = "rename" => \A f \in Fields : ~Holds(r.to, f),
         s.sets = SetsFor(r, file[r.id], Built(r, file[r.id])),
         s.drop = IF r.op = "rename" THEN AllOf(r.id)
                  ELSE {r.id} \X Obsolete(file[r.id], Built(r, file[r.id])),
         Agrees(file[r.id], keychain[r.id], acked[r.id])
  PROVE  Agrees(Stripped(Built(r, file[r.id])), Through(s)[r.to], Promised(r, acked[r.id]))
<1> DEFINE old == file[r.id]
           new == Built(r, old)
           was == acked[r.id]
           said == Promised(r, was)
<1>1. /\ r.id \in Ids /\ r.to \in Ids /\ r.body \in Secrets
      /\ file \in Config /\ acked \in [Ids -> Secrets \union {NoEntry, Unknown}]
      /\ keychain \in [Ids -> Secrets]
  BY DEF TypeOK, Request
<1>2. /\ was \in Secrets /\ was \notin {NoEntry, Unknown}
      /\ \A f \in Fields : Merged(old, keychain[r.id])[f] = was[f]
  BY <1>1 DEF Agrees
<1>3. old \in Entry /\ \A f \in Fields : old[f] = Absent \/ (f \in EnvKeys /\ old[f] = Blank)
  BY <1>1 DEF Config, Stored
<1> HIDE DEF old, was
<1>4. new \in Entry
  BY <1>3, BuiltKind
<1>5. r.op \in {"settings", "rename", "patch"}
  BY DEF PutOps
<1>6. \A f \in Fields :
        said[f] = CASE r.op = "settings" -> r.body[f]
                    [] r.op = "rename" -> IF f \in EnvKeys THEN r.body[f] ELSE was[f]
                    [] r.op = "patch" -> IF f \in OauthFields THEN r.body[f] ELSE was[f]
  BY <1>2, <1>5 DEF Promised
<1>7. said \in Secrets
  <2>1. CASE r.op = "settings"
    BY <1>1, <2>1 DEF Promised
  <2>2. CASE r.op # "settings"
    BY <1>1, <1>2, <1>5, <2>2 DEF Promised, Secrets
  <2> QED BY <2>1, <2>2
<1>8. \A f \in EnvKeys : new[f] = said[f]
  <2> SUFFICES ASSUME NEW f \in EnvKeys PROVE new[f] = said[f]
    OBVIOUS
  <2>1. f \in Fields /\ f \notin OauthFields
    BY ServerCatalogAssumption DEF Fields
  <2>2. CASE r.op \in {"settings", "rename"}
    BY <1>6, <2>1, <2>2 DEF Built
  <2>3. CASE r.op = "patch"
    <3>1. new[f] = Merged(old, Found(r.id))[f]
      BY <2>1, <2>3 DEF Built
    <3>2. Merged(old, Found(r.id))[f] = Merged(old, keychain[r.id])[f]
      BY <1>1, <2>1, FoundIs DEF Merged
    <3> QED BY <1>2, <1>6, <2>1, <2>3, <3>1, <3>2
  <2> QED BY <1>5, <2>2, <2>3
<1>9. \A f \in OauthFields : new[f] = IF r.op = "rename" THEN Absent ELSE said[f]
  <2> SUFFICES ASSUME NEW f \in OauthFields
               PROVE  new[f] = IF r.op = "rename" THEN Absent ELSE said[f]
    OBVIOUS
  <2>1. f \in Fields /\ f \notin EnvKeys
    BY ServerCatalogAssumption DEF Fields
  <2>2. new[f] = IF r.op = "rename" THEN old[f] ELSE r.body[f]
    BY <1>5, <2>1 DEF Built
  <2> QED BY <1>3, <1>5, <1>6, <2>1, <2>2
<1>10. /\ s.sets = SetsFor(r, old, new)
       /\ s.drop = IF r.op = "rename" THEN AllOf(r.id) ELSE {r.id} \X Obsolete(old, new)
  BY DEF old
<1> HIDE DEF new, said
<1>11. \A t, u \in s.sets : t.id = u.id /\ t.field = u.field => t = u
  BY <1>10, SetsForOnce
<1>12. ASSUME NEW f \in Fields, said[f] # Absent \/ f \in OauthFields
       PROVE  Through(s)[r.to][f] = said[f]
  <2>1. new[f] \in Values \union {Absent, Blank} /\ said[f] \in Values \union {Absent}
    BY <1>4, <1>7 DEF Entry, Secrets
  <2>2. CASE f \in Plain(new)
    <3>1. new[f] = said[f]
      BY <1>8, <1>9, <2>2, ServerCatalogAssumption DEF Plain, Fields
    <3>2. <<r.to, f>> \notin s.drop
      BY <1>10, <2>2 DEF AllOf, Obsolete
    <3>3. PICK t \in s.sets : t.id = r.to /\ t.field = f /\ t.value = new[f]
      <4> DEFINE u == [id |-> r.to, field |-> f, value |-> new[f]]
      <4>1. u.id = r.to /\ u.field = f /\ u.value = new[f]
        OBVIOUS
      <4>2. u \in s.sets
        BY <1>10, <2>2, SetsComes
      <4> HIDE DEF u
      <4> QED BY <4>1, <4>2
    <3> QED BY <1>1, <1>11, <3>1, <3>2, <3>3, ThroughIs
  <2>3. CASE f \notin Plain(new)
    <3>1. new[f] \notin Values
      BY <2>3 DEF Plain
    <3>2. f \in OauthFields /\ f \notin EnvKeys
      BY <1>8, <1>12, <2>1, <3>1, ServerCatalogAssumption DEF Fields
    <3>3. f \in Expected(old) /\ f \in Expected(Stripped(new))
      BY <3>2 DEF Expected
    <3>4. CASE r.op # "rename"
      <4>1. <<r.to, f>> \in s.drop
        BY <1>10, <2>3, <3>3, <3>4 DEF Obsolete
      <4>2. said[f] = Absent
        BY <1>9, <2>1, <3>1, <3>2, <3>4
      <4> QED BY <1>1, <1>11, <4>1, <4>2, ThroughIs
    <3>5. CASE r.op = "rename"
      <4>1. said[f] = keychain[r.id][f]
        <5>1. said[f] = was[f]
          BY <1>6, <3>2, <3>5 DEF said
        <5>2. Merged(old, keychain[r.id])[f] = keychain[r.id][f]
          BY <1>3, <3>2, MergedStored
        <5> QED BY <1>2, <5>1, <5>2
      <4>2. Found(r.id)[f] = keychain[r.id][f]
        BY <1>1, FoundIs
      <4>3. <<r.to, f>> \notin s.drop
        BY <1>10, <3>5 DEF AllOf
      <4>4. CASE said[f] \in Values
        <5>1. PICK t \in s.sets : t.id = r.to /\ t.field = f /\ t.value = Found(r.id)[f]
          BY <1>10, <2>3, <3>3, <3>5, <4>1, <4>2, <4>4, SetsForCarries
        <5> QED BY <1>1, <1>11, <4>1, <4>2, <4>3, <5>1, ThroughIs
      <4>5. CASE said[f] = Absent
        <5>1. ~Comes(s, r.to, f)
          <6> SUFFICES ASSUME NEW t \in s.sets, t.field = f PROVE FALSE
            BY DEF Comes
          <6>1. t.value \in Values /\ t.value = Found(r.id)[f]
            BY <1>10, <2>3, <3>3, <3>5, SetsForIs DEF Secret
          <6> QED BY <4>1, <4>2, <4>5, <6>1, ServerCatalogAssumption
        <5>2. keychain[r.to][f] = Absent
          BY <3>5 DEF Holds
        <5> QED BY <1>1, <1>11, <4>3, <4>5, <5>1, <5>2, ThroughIs
      <4> QED BY <2>1, <4>4, <4>5
    <3> QED BY <3>4, <3>5
  <2> QED BY <2>2, <2>3
<1>13. Agrees(Stripped(new), Through(s)[r.to], said)
  BY <1>4, <1>7, <1>8, <1>12, NewAgrees
<1> QED BY <1>13 DEF new, old, said, was

LEMMA HonestUpdate ==
  ASSUME TypeOK, Locked, Clean, Honest, NEW q \in Reqs, UpdateServer(q)
  PROVE  Honest'
<1> DEFINE r == req[q]
           s == req'[q]
           old == r.next[r.id]
           new == Built(r, old)
<1>1. /\ Only(q) /\ s.pc = "setting" /\ s.op = r.op /\ s.id = r.id /\ s.to = r.to /\ s.body = r.body
      /\ s.next = [r.next EXCEPT ![r.id] = NoEntry, ![r.to] = Stripped(new)]
      /\ s.sets = SetsFor(r, old, new)
      /\ s.drop = IF r.op = "rename" THEN AllOf(r.id) ELSE {r.id} \X Obsolete(old, new)
  BY UpdateServerIs
<1>2. /\ file' = file /\ keychain' = keychain /\ keyring' = keyring /\ acked' = acked
      /\ r.pc = "looking" /\ r.op \in PutOps /\ old # NoEntry
      /\ r.op = "rename" => r.next[r.to] = NoEntry
  BY DEF UpdateServer, disk
<1>3. /\ r.next = file /\ ((r.id # r.to) <=> (r.op = "rename"))
      /\ Stored(file) /\ NothingHeld /\ r.op \notin {"config", "clear"}
  BY <1>2 DEF Clean, Tidy, Honest, Promises
<1>4. /\ r \in Request /\ r.id \in Ids /\ r.to \in Ids /\ file \in Config
      /\ acked \in [Ids -> Secrets \union {NoEntry, Unknown}]
  BY DEF TypeOK, Request
<1>5. Shown(file, keychain, acked)
  BY <1>2, ShownBefore
<1>6. r.op = "rename" => \A f \in Fields : ~Holds(r.to, f)
  BY <1>2, <1>3, <1>4, BetweenWrites DEF Listed
<1> DEFINE said == Promised(r, acked[r.id])
           k == Through(s)
<1>7. Agrees(Stripped(new), k[r.to], said)
  <2>1. /\ s.sets = SetsFor(r, file[r.id], Built(r, file[r.id]))
        /\ s.drop = IF r.op = "rename" THEN AllOf(r.id)
                    ELSE {r.id} \X Obsolete(file[r.id], Built(r, file[r.id]))
    BY <1>1, <1>3
  <2>2. Agrees(file[r.id], keychain[r.id], acked[r.id])
    BY <1>4, <1>5 DEF Shown
  <2>3. file[r.id] # NoEntry
    BY <1>2, <1>3
  <2> HIDE DEF r, s
  <2>4. Agrees(Stripped(Built(r, file[r.id])), Through(s)[r.to], Promised(r, acked[r.id]))
    BY <1>2, <1>3, <1>4, <1>6, <2>1, <2>2, <2>3, UpdateAgrees
  <2> QED BY <1>3, <2>4
<1>8. Acknowledged(s) = [acked EXCEPT ![r.id] = NoEntry, ![r.to] = said]
  BY <1>1, <1>2 DEF Acknowledged, PutOps, Promised
<1>9. \A t, u \in s.sets : t.id = u.id /\ t.field = u.field => t = u
  <2> HIDE DEF r, old, new
  <2> QED BY <1>1, <1>4, SetsForOnce
<1>10. ASSUME NEW id \in Ids PROVE Agrees(s.next[id], k[id], Acknowledged(s)[id])
  <2>1. CASE id = r.to
    <3>1. s.next[id] = Stripped(new)
      BY <1>1, <1>3, <1>4, <2>1 DEF Config
    <3>2. Acknowledged(s)[id] = said
      BY <1>4, <1>8, <2>1
    <3> QED BY <1>7, <2>1, <3>1, <3>2
  <2>2. CASE id # r.to /\ id = r.id
    <3>1. s.next[id] = NoEntry
      BY <1>1, <1>3, <1>4, <2>2 DEF Config
    <3>2. Acknowledged(s)[id] = NoEntry
      BY <1>4, <1>8, <2>2
    <3> QED BY <3>1, <3>2, NoneAgrees
  <2>3. CASE id # r.to /\ id # r.id
    <3>1. s.next[id] = file[id]
      BY <1>1, <1>3, <1>4, <2>3 DEF Config
    <3>2. Acknowledged(s)[id] = acked[id]
      BY <1>4, <1>8, <2>3
    <3>3. ASSUME NEW f \in Fields PROVE keychain[id][f] = k[id][f]
      <4> HIDE DEF r, s, old, new
      <4>1. <<id, f>> \notin s.drop
        BY <1>1, <2>3 DEF AllOf
      <4>2. ~Comes(s, id, f)
        BY <1>1, <1>4, <2>3, SetsForIs DEF Comes
      <4> QED BY <1>9, <4>1, <4>2, ThroughIs
    <3>4. Agrees(file[id], keychain[id], acked[id])
      BY <1>5 DEF Shown
    <3> HIDE DEF k
    <3> QED BY <3>1, <3>2, <3>3, <3>4, AgreesAlike
  <2> QED BY <2>1, <2>2, <2>3
<1>11. Shown(s.next, Through(s), Acknowledged(s))
  BY <1>10 DEF Shown
<1>12. Promises(req[q])'
  <2>1. Through(req[q])' = Through(s) /\ Acknowledged(req[q])' = Acknowledged(s)
    BY <1>2 DEF Through, Comes, Acknowledged
  <2> HIDE DEF r, new, old
  <2> QED BY <1>1, <1>3, <1>9, <1>11, <2>1 DEF Promises
<1> QED BY <1>1, <1>2, <1>12, HonestStill

LEMMA HonestRemove ==
  ASSUME TypeOK, Locked, Clean, Honest, NEW q \in Reqs, RemoveServer(q)
  PROVE  Honest'
<1> DEFINE r == req[q]
           s == req'[q]
<1>1. /\ Only(q) /\ s.pc = (IF r.next[r.id] # NoEntry THEN "setting" ELSE "dropping")
      /\ s.op = r.op /\ s.id = r.id /\ s.next = [r.next EXCEPT ![r.id] = NoEntry]
      /\ s.sets = r.sets /\ s.drop = AllOf(r.id)
  BY RemoveServerIs
<1>2. /\ file' = file /\ keychain' = keychain /\ keyring' = keyring /\ acked' = acked
      /\ r.pc = "looking" /\ r.op = "delete"
  BY DEF RemoveServer, disk
<1>3. r.next = file /\ r.sets = {} /\ r.id \in Ids /\ file \in Config
      /\ acked \in [Ids -> Secrets \union {NoEntry, Unknown}]
  BY <1>2 DEF Clean, Tidy, TypeOK, Request
<1>4. Shown(file, keychain, acked)
  BY <1>2, ShownBefore
<1>5. Acknowledged(s) = [acked EXCEPT ![r.id] = NoEntry]
  BY <1>1, <1>2 DEF Acknowledged
<1>6. ASSUME NEW id \in Ids, id # r.id PROVE Agrees(file[id], Through(s)[id], acked[id])
  <2>1. ASSUME NEW f \in Fields PROVE keychain[id][f] = Through(s)[id][f]
    <3>1. <<id, f>> \notin s.drop /\ ~Comes(s, id, f)
      BY <1>1, <1>3, <1>6 DEF AllOf, Comes
    <3>2. s.sets = {}
      BY <1>1, <1>3
    <3> HIDE DEF s
    <3> QED BY <3>1, <3>2, ThroughIs
  <2>2. Agrees(file[id], keychain[id], acked[id])
    BY <1>4 DEF Shown
  <2> QED BY <2>1, <2>2, AgreesAlike
<1>7. Shown(s.next, Through(s), Acknowledged(s))
  <2>1. Agrees(s.next[r.id], Through(s)[r.id], Acknowledged(s)[r.id])
    BY <1>1, <1>3, <1>5, NoneAgrees DEF Config
  <2>2. \A id \in Ids : id # r.id => s.next[id] = file[id] /\ Acknowledged(s)[id] = acked[id]
    BY <1>1, <1>3, <1>5 DEF Config
  <2> QED BY <1>6, <2>1, <2>2 DEF Shown
<1>8. s.pc = "dropping" => Shown(file, Through(s), acked)
  <2> SUFFICES ASSUME file[r.id] = NoEntry PROVE Shown(file, Through(s), acked)
    BY <1>1, <1>3
  <2>1. acked[r.id] = NoEntry
    BY <1>3, <1>4 DEF Shown, Agrees
  <2>2. Agrees(file[r.id], Through(s)[r.id], acked[r.id])
    BY <2>1, NoneAgrees
  <2> QED BY <1>6, <2>2 DEF Shown
<1>9. Promises(req[q])'
  <2>1. Through(req[q])' = Through(s) /\ Acknowledged(req[q])' = Acknowledged(s)
    BY <1>2 DEF Through, Comes, Acknowledged
  <2>2. s.sets = {} /\ s.op \notin {"config", "clear"}
    BY <1>1, <1>2, <1>3
  <2> HIDE DEF r
  <2> QED BY <1>2, <1>7, <1>8, <2>1, <2>2 DEF Promises
<1> QED BY <1>1, <1>2, <1>9, HonestStill

LEMMA HonestSweep ==
  ASSUME TypeOK, Locked, Clean, Honest, NEW q \in Reqs, Sweep(q)
  PROVE  Honest'
<1> DEFINE r == req[q]
           s == req'[q]
           body == r.body
<1>1. /\ Only(q) /\ s.pc = "setting" /\ s.op = r.op /\ s.id = r.id /\ s.to = r.to /\ s.body = body
      /\ s.next = r.next /\ s.sets = r.sets /\ s.drop = r.drop
  BY MovesOn DEF Sweep, Places
<1>2. /\ file' = file /\ keyring' = keyring /\ acked' = acked
      /\ keychain' = Deleted(AllOf(r.to)) /\ r.pc = "sweeping"
  BY DEF Sweep, disk
<1>3. /\ r.op = "post" /\ r.drop = {} /\ r.id = r.to
      /\ r.next = [file EXCEPT ![r.to] = Stripped(body)]
      /\ r.sets = SetsFor(r, EmptyEntry, body) /\ NothingHeld
  BY <1>2 DEF Clean, Tidy
<1>4. /\ r \in Request /\ r.to \in Ids /\ body \in Secrets /\ body \in Entry /\ file \in Config
      /\ acked \in [Ids -> Secrets \union {NoEntry, Unknown}]
  BY Kinds DEF TypeOK, Request
<1>5. Shown(file, keychain, acked)
  BY <1>2, ShownBefore
<1>6. ASSUME NEW id \in Ids, NEW f \in Fields
      PROVE  keychain'[id][f] = IF id = r.to THEN Absent ELSE keychain[id][f]
  <2>1. <<id, f>> \in AllOf(r.to) <=> id = r.to
    BY DEF AllOf
  <2>2. ~keyring => keychain[id][f] = Absent
    BY <1>3 DEF NothingHeld, Holds
  <2> HIDE DEF r
  <2> QED BY <1>2, <2>1, <2>2, KeychainKind DEF TypeOK
<1>7. Acknowledged(s) = [acked EXCEPT ![r.to] = body]
  BY <1>1, <1>3, <1>4 DEF Acknowledged, Promised
<1> DEFINE k == Through(req[q])'
<1>8. \A t, u \in s.sets : t.id = u.id /\ t.field = u.field => t = u
  <2> HIDE DEF r, body
  <2> QED BY <1>1, <1>3, <1>4, SetsForOnce
<1>9. ASSUME NEW id \in Ids, NEW f \in Fields
      PROVE  /\ ~Comes(s, id, f) => k[id][f] = keychain'[id][f]
             /\ Comes(s, id, f) => id = r.to /\ k[id][f] = body[f] /\ body[f] \in Values
  <2>1. k[id][f] = IF Comes(s, id, f) THEN (CHOOSE t \in s.sets : t.id = id /\ t.field = f).value
                   ELSE keychain'[id][f]
    BY <1>1, <1>3 DEF Through, Comes
  <2>2. ASSUME NEW t \in s.sets, t.id = id, t.field = f
        PROVE  id = r.to /\ t.value = body[f] /\ body[f] \in Values
    <3>1. /\ t \in Secret /\ t.id = r.to
          /\ t.value = IF t.field \in Plain(body) THEN body[t.field] ELSE Absent
      <4> HIDE DEF r, body
      <4> QED BY <1>1, <1>3, <1>4, SetsForIs
    <3> QED BY <2>2, <3>1, ServerCatalogAssumption DEF Secret
  <2> DEFINE c == CHOOSE t \in s.sets : t.id = id /\ t.field = f
  <2>3. Comes(s, id, f) => c \in s.sets /\ c.id = id /\ c.field = f
    BY DEF Comes
  <2>4. Comes(s, id, f) => id = r.to /\ c.value = body[f] /\ body[f] \in Values
    <3> HIDE DEF c, r, s, body
    <3> QED BY <2>2, <2>3
  <2> HIDE DEF k, r, s, body
  <2> QED BY <2>1, <2>4
<1> HIDE DEF k
<1>10. Agrees(Stripped(body), k[r.to], body)
  <2>1. ASSUME NEW f \in Fields PROVE k[r.to][f] = body[f]
    <3>1. CASE body[f] \in Values
      <4> DEFINE t == [id |-> r.to, field |-> f, value |-> body[f]]
      <4>1. t.id = r.to /\ t.field = f
        OBVIOUS
      <4>2. t \in s.sets
        <5> HIDE DEF r, body
        <5> QED BY <1>1, <1>3, <1>4, <3>1, SetsComes DEF Plain
      <4> HIDE DEF t
      <4>3. Comes(s, r.to, f)
        BY <4>1, <4>2 DEF Comes
      <4> QED BY <1>4, <1>9, <4>3
    <3>2. CASE body[f] = Absent
      <4>1. ~Comes(s, r.to, f)
        BY <1>4, <1>9, <3>2, ServerCatalogAssumption
      <4> QED BY <1>4, <1>6, <1>9, <3>2, <4>1
    <3> QED BY <1>4, <3>1, <3>2 DEF Secrets
  <2> HIDE DEF body, r
  <2> QED BY <1>4, <2>1, NewAgrees
<1>11. ASSUME NEW id \in Ids PROVE Agrees(s.next[id], k[id], Acknowledged(s)[id])
  <2>1. CASE id = r.to
    <3>1. s.next[id] = Stripped(body)
      BY <1>1, <1>3, <1>4, <2>1 DEF Config
    <3>2. Acknowledged(s)[id] = body
      BY <1>4, <1>7, <2>1
    <3> QED BY <1>10, <2>1, <3>1, <3>2
  <2>2. CASE id # r.to
    <3>1. s.next[id] = file[id]
      BY <1>1, <1>3, <1>4, <2>2 DEF Config
    <3>2. Acknowledged(s)[id] = acked[id]
      BY <1>4, <1>7, <2>2
    <3>3. \A f \in Fields : keychain[id][f] = k[id][f]
      BY <1>6, <1>9, <2>2
    <3>4. Agrees(file[id], keychain[id], acked[id])
      BY <1>5 DEF Shown
    <3> QED BY <3>1, <3>2, <3>3, <3>4, AgreesAlike
  <2> QED BY <2>1, <2>2
<1>12. Promises(req[q])'
  <2>1. Shown(s.next, k, Acknowledged(s))
    BY <1>11 DEF Shown
  <2>2. Acknowledged(req[q])' = Acknowledged(s)
    BY <1>2 DEF Acknowledged
  <2> HIDE DEF r, body
  <2> QED BY <1>1, <1>3, <1>8, <2>1, <2>2 DEF Promises, k, r
<1>13. Settled' => Shown(file, keychain, acked)'
  <2> SUFFICES ASSUME ~keyring PROVE Shown(file, keychain, acked)'
    BY <1>1, <1>2 DEF Settled
  <2>1. keychain' = keychain
    <3> HIDE DEF r
    <3> QED BY <1>2, KeychainKind
  <2> QED BY <1>2, <1>5, <2>1 DEF Shown
<1> QED BY <1>1, <1>2, <1>12, <1>13, HonestMove DEF Active

LEMMA HonestSet ==
  ASSUME TypeOK, Locked, Clean, Honest, NEW q \in Reqs, NEW w \in req[q].sets, SetSucceeds(q, w)
  PROVE  Honest'
<1> DEFINE r == req[q]
           s == req'[q]
           S == r.sets \ {w}
           k == Through(req[q])'
<1>1. /\ S \in SUBSET Secret /\ w.id \in Ids /\ w.field \in Fields /\ w.value \in Values
  BY DEF TypeOK, Request, Secret
<1>2. req' = [req EXCEPT ![q].sets = S]
  BY DEF SetSucceeds, TypeOK
<1>3. /\ Only(q) /\ s.pc = r.pc /\ s.op = r.op /\ s.id = r.id /\ s.to = r.to /\ s.body = r.body
      /\ s.next = r.next /\ s.sets = S /\ s.drop = r.drop
  <2> HIDE DEF S
  <2> QED BY <1>1, <1>2, SetsShrink
<1>4. /\ file' = file /\ keyring' = keyring /\ acked' = acked /\ keyring
      /\ keychain' = [keychain EXCEPT ![w.id][w.field] = w.value]
  BY DEF SetSucceeds, disk
<1>5. r.pc = "setting"
  BY DEF SetSucceeds, Clean, Tidy
<1>6. /\ \A t, u \in r.sets : t.id = u.id /\ t.field = u.field => t = u
      /\ r.op \notin {"config", "clear"}
      /\ Shown(r.next, Through(r), Acknowledged(r))
  BY <1>5 DEF Honest, Promises
<1>7. ASSUME NEW id \in Ids, NEW f \in Fields PROVE Through(r)[id][f] = k[id][f]
  <2>1. k[id][f] = IF <<id, f>> \in s.drop THEN Absent
                   ELSE IF Comes(s, id, f)
                   THEN (CHOOSE t \in s.sets : t.id = id /\ t.field = f).value
                   ELSE keychain'[id][f]
    BY DEF Through, Comes
  <2> DEFINE c == CHOOSE t \in s.sets : t.id = id /\ t.field = f
  <2>2. Comes(s, id, f) => c \in s.sets /\ c.id = id /\ c.field = f
    BY DEF Comes
  <2>3. keychain'[id][f] = IF id = w.id /\ f = w.field THEN w.value ELSE keychain[id][f]
    BY <1>1, <1>4, KeychainKind
  <2> HIDE DEF c, k, r, s
  <2>4. CASE <<id, f>> \in r.drop
    BY <1>3, <1>6, <2>1, <2>4, ThroughIs
  <2>5. CASE <<id, f>> \notin r.drop /\ id = w.id /\ f = w.field
    <3>1. Through(r)[id][f] = w.value
      BY <1>6, <2>5, ThroughIs DEF r
    <3>2. ~Comes(s, id, f)
      BY <1>3, <1>6, <2>5 DEF Comes, r
    <3> QED BY <1>3, <2>1, <2>3, <2>5, <3>1, <3>2 DEF c
  <2>6. CASE <<id, f>> \notin r.drop /\ ~(id = w.id /\ f = w.field)
    <3>1. CASE Comes(s, id, f)
      <4>1. c \in r.sets /\ c.id = id /\ c.field = f
        BY <1>3, <2>2, <3>1
      <4> QED BY <1>3, <1>6, <2>1, <2>6, <3>1, <4>1, ThroughIs DEF c
    <3>2. CASE ~Comes(s, id, f)
      <4>1. ~Comes(r, id, f)
        BY <1>3, <2>6, <3>2 DEF Comes
      <4> QED BY <1>3, <1>6, <2>1, <2>3, <2>6, <3>2, <4>1, ThroughIs
    <3> QED BY <3>1, <3>2
  <2> QED BY <2>4, <2>5, <2>6
<1> HIDE DEF k
<1>8. Shown(r.next, k, Acknowledged(r))
  <2> HIDE DEF r
  <2> QED BY <1>6, <1>7, ShownAlike
<1>9. Promises(req[q])'
  <2>1. Acknowledged(req[q])' = Acknowledged(r)
    BY <1>3, <1>4 DEF Acknowledged, Promised
  <2>2. \A t, u \in s.sets : t.id = u.id /\ t.field = u.field => t = u
    BY <1>3, <1>6
  <2> HIDE DEF r
  <2> QED BY <1>3, <1>5, <1>6, <1>8, <2>1, <2>2 DEF Promises, k
<1>10. Settled' => Shown(file, keychain, acked)'
  BY <1>3, <1>4, <1>5 DEF Settled
<1> QED BY <1>3, <1>5, <1>9, <1>10, HonestMove DEF Active

LEMMA HonestSetFails ==
  ASSUME TypeOK, Locked, Clean, Honest, NEW q \in Reqs, NEW w \in req[q].sets, SetFails(q, w)
  PROVE  Honest'
<1>1. /\ Only(q) /\ req'[q].pc = "done" /\ req'[q].op = "none"
      /\ req'[q].sets = req[q].sets \ {w}
  BY SetFailsIs
<1>2. /\ file' = file /\ keychain' = keychain /\ keyring' = keyring /\ acked' = acked
      /\ ~keyring /\ req[q].pc # "dropping"
  BY DEF SetFails, disk
<1>3. Promises(req[q])'
  BY <1>1 DEF Promises, Honest
<1> QED BY <1>1, <1>2, <1>3, HonestStill

LEMMA HonestWrite ==
  ASSUME TypeOK, Locked, Clean, Honest, NEW q \in Reqs, FileWritten(q)
  PROVE  Honest'
<1> DEFINE r == req[q]
           s == req'[q]
           x == IF r.op \in {"get", "seed"} THEN "reading" ELSE "dropping"
<1>1. /\ Only(q) /\ s.op = r.op /\ s.sets = r.sets /\ s.drop = r.drop /\ s.pc = x
  <2>1. x \in Places /\ req' = [req EXCEPT ![q].pc = x]
    BY DEF FileWritten, Places
  <2> HIDE DEF x
  <2> QED BY <2>1, MovesOn
<1>2. /\ file' = r.next /\ keychain' = keychain /\ keyring' = keyring
      /\ acked' = Acknowledged(r) /\ r.pc = "setting" /\ r.sets = {}
  BY DEF FileWritten
<1>3. /\ Shown(r.next, Through(r), Acknowledged(r)) /\ r.op \notin {"config", "clear"}
      /\ r.op \in {"get", "seed"} => r.drop = {}
  BY <1>2 DEF Honest, Promises, Clean, Tidy
<1>4. Through(req[q])' = Through(r)
  BY <1>1, <1>2 DEF Through, Comes
<1>5. Promises(req[q])'
  <2>1. s.sets = {} /\ s.pc # "setting"
    BY <1>1, <1>2
  <2> HIDE DEF r
  <2> QED BY <1>1, <1>2, <1>3, <1>4, <2>1 DEF Promises, Shown
<1>6. Settled' => Shown(file, keychain, acked)'
  <2> SUFFICES ASSUME r.op \in {"get", "seed"} PROVE Shown(file, keychain, acked)'
    BY <1>1 DEF Settled
  <2>1. ASSUME NEW id \in Ids, NEW f \in Fields PROVE Through(r)[id][f] = keychain[id][f]
    <3>1. <<id, f>> \notin r.drop /\ ~Comes(r, id, f)
      BY <1>2, <1>3 DEF Comes
    <3>2. \A t, u \in r.sets : t.id = u.id /\ t.field = u.field => t = u
      BY <1>2
    <3> HIDE DEF r
    <3> QED BY <3>1, <3>2, ThroughIs
  <2>2. Shown(r.next, keychain, Acknowledged(r))
    <3> HIDE DEF r
    <3> QED BY <1>3, <2>1, ShownAlike
  <2> HIDE DEF r
  <2> QED BY <1>2, <2>2 DEF Shown
<1> QED BY <1>1, <1>2, <1>5, <1>6, HonestMove DEF Active

LEMMA HonestDrop ==
  ASSUME TypeOK, Locked, Clean, Honest, NEW q \in Reqs, Drop(q)
  PROVE  Honest'
<1> DEFINE r == req[q]
<1>1. Only(q) /\ req'[q] = Finished
  BY FinishedIs
<1>2. /\ file' = file /\ keyring' = keyring /\ acked' = acked
      /\ keychain' = Deleted(r.drop) /\ r.pc = "dropping"
  BY DEF Drop, disk
<1>3. Shown(file, Through(r), acked) /\ r.sets = {} /\ NothingHeld
  BY <1>2 DEF Honest, Promises, Clean, Tidy
<1>4. ASSUME NEW id \in Ids, NEW f \in Fields PROVE Through(r)[id][f] = keychain'[id][f]
  <2>1. ~Comes(r, id, f)
    BY <1>3 DEF Comes
  <2>2. ~keyring => keychain[id][f] = Absent
    BY <1>3 DEF NothingHeld, Holds
  <2>3. keychain'[id][f] = IF <<id, f>> \in r.drop THEN Absent ELSE keychain[id][f]
    <3> HIDE DEF r
    <3> QED BY <1>2, <2>2, KeychainKind DEF TypeOK
  <2> HIDE DEF r
  <2> QED BY <1>3, <2>1, <2>3, ThroughIs
<1>5. Shown(file, keychain', acked)
  <2> HIDE DEF r
  <2> QED BY <1>3, <1>4, ShownAlike
<1>6. Promises(req[q])'
  BY <1>1, IdleIs DEF Promises
<1>7. Shown(file, keychain, acked)'
  BY <1>2, <1>5 DEF Shown
<1> QED BY <1>1, <1>2, <1>6, <1>7, HonestMove DEF Active

LEMMA HonestSettle ==
  ASSUME TypeOK, Locked, Clean, Honest, ~exists => file = EmptyConfig, NEW q \in Reqs, Settle(q)
  PROVE  Honest'
<1> DEFINE r == req[q]
           s == req'[q]
<1>1. /\ Only(q) /\ s.drop = r.drop
      /\ ~exists => s.pc = "setting" /\ s.op = "seed" /\ s.next = SeedConfig /\ s.sets = r.sets
      /\ exists => /\ s.pc = (IF PlainSecrets(file) = {} THEN "reading" ELSE "migrating")
                   /\ s.op = r.op /\ s.sets = PlainSecrets(file)
  BY SettleIs
<1>2. /\ file' = file /\ keychain' = keychain /\ keyring' = keyring /\ acked' = acked
      /\ lock = NoReq /\ r.pc = "queued"
  BY DEF Settle, disk
<1>3. r.drop = {} /\ r.sets = {} /\ PlainSecrets(file) = {} /\ r.op \notin {"config", "clear"}
  BY <1>2, StoredHasNone DEF Clean, Tidy, Honest, Promises, TypeOK
<1>4. Shown(file, keychain, acked)
  BY <1>2, ShownBefore
<1>5. ASSUME ~exists PROVE Shown(SeedConfig, Through(s), Acknowledged(s))
  <2>1. file = EmptyConfig /\ s.sets = {} /\ s.drop = {} /\ s.op = "seed"
    BY <1>1, <1>3, <1>5
  <2> HIDE DEF r, s
  <2>2. \A id \in Ids : acked[id] = NoEntry
    BY <1>4, <2>1 DEF Shown, Agrees, EmptyConfig
  <2>3. \A id \in Ids, f \in Fields : keychain[id][f] = Absent
    BY <1>2, <2>1, BetweenWrites DEF Holds, Listed, EmptyConfig
  <2> SUFFICES ASSUME NEW id \in Ids
               PROVE  Agrees(SeedConfig[id], Through(s)[id], Acknowledged(s)[id])
    BY DEF Shown
  <2>4. Acknowledged(s)[id] = IF id \in Seeds THEN EmptyEntry ELSE acked[id]
    BY <2>1 DEF Acknowledged
  <2>5. CASE id \notin Seeds
    <3>1. SeedConfig[id] = NoEntry /\ Acknowledged(s)[id] = NoEntry
      BY <2>2, <2>4, <2>5 DEF SeedConfig
    <3> QED BY <3>1, NoneAgrees
  <2>6. CASE id \in Seeds
    <3>1. SeedConfig[id] = EmptyEntry /\ Acknowledged(s)[id] = EmptyEntry
      BY <2>4, <2>6 DEF SeedConfig
    <3>2. EmptyEntry # NoEntry /\ EmptyEntry # Unknown
      BY Kinds, ServerCatalogAssumption
    <3>3. ASSUME NEW f \in Fields PROVE Through(s)[id][f] = EmptyEntry[f]
      <4>1. ~Comes(s, id, f) /\ <<id, f>> \notin s.drop
        BY <2>1 DEF Comes
      <4>2. \A t, u \in s.sets : t.id = u.id /\ t.field = u.field => t = u
        BY <2>1
      <4>3. Through(s)[id][f] = keychain[id][f]
        BY <4>1, <4>2, ThroughIs
      <4> QED BY <2>3, <4>3 DEF EmptyEntry
    <3>4. ASSUME NEW f \in Fields PROVE Merged(EmptyEntry, Through(s)[id])[f] = EmptyEntry[f]
      BY <3>3 DEF Merged, EmptyEntry
    <3> QED BY <3>1, <3>2, <3>4 DEF Agrees
  <2> QED BY <2>5, <2>6
<1>6. Promises(req[q])'
  <2>1. Through(req[q])' = Through(s) /\ Acknowledged(req[q])' = Acknowledged(s)
    BY <1>2 DEF Through, Comes, Acknowledged
  <2>2. s.sets = {} /\ s.op \notin {"config", "clear"} /\ s.pc # "dropping"
    BY <1>1, <1>3
  <2>3. s.pc = "setting" => ~exists /\ s.next = SeedConfig
    BY <1>1
  <2> HIDE DEF r, s
  <2>4. s.pc = "setting" => Shown(s.next, Through(s), Acknowledged(s))
    BY <1>5, <2>3
  <2> QED BY <2>1, <2>2, <2>4 DEF Promises, s
<1> QED BY <1>1, <1>2, <1>6, HonestStill

LEMMA ShownInit == Init => ShownInv
<1> SUFFICES ASSUME Init PROVE Honest
  BY DEF ShownInv
<1>1. \A q \in Reqs : Promises(req[q])
  BY IdleIs DEF Init, Promises
<1>2. Shown(file, keychain, acked)
  BY NoneAgrees DEF Init, EmptyConfig, Shown
<1> QED BY <1>1, <1>2 DEF Honest

LEMMA HonestNext ==
  ASSUME TypeOK, TidyInv, Honest, {"config", "clear"} \intersect Ops = {}, [Next]_vars, Calm, Calm'
  PROVE  Honest'
<1> USE DEF TidyInv
<1>1. ASSUME NEW q \in Reqs, Refuse(q) \/ Rehydrate(q) PROVE Honest'
  <2>1. Only(q) /\ req'[q] = Finished
    BY <1>1, FinishedIs
  <2>2. /\ file' = file /\ keychain' = keychain /\ keyring' = keyring /\ acked' = acked
        /\ req[q].pc \in {"looking", "reading"}
    BY <1>1 DEF Refuse, Rehydrate, disk
  <2>3. Promises(req[q])'
    BY <2>1, IdleIs DEF Promises
  <2> QED BY <2>1, <2>2, <2>3, HonestStill
<1>2. ASSUME NEW q \in Reqs, Peek(q) PROVE Honest'
  <2>1. /\ Only(q) /\ req'[q].pc \in {"reading", "queued"} /\ req'[q].op = "get"
        /\ req'[q].sets = {}
    BY <1>2, PeekIs
  <2>2. /\ file' = file /\ keychain' = keychain /\ keyring' = keyring /\ acked' = acked
        /\ req[q].pc = "idle"
    BY <1>2 DEF Peek, disk
  <2>3. Promises(req[q])'
    BY <2>1 DEF Promises
  <2> QED BY <2>1, <2>2, <2>3, HonestStill
<1>3. ASSUME NEW q \in Reqs, Migrate(q) \/ MigrateFails(q) \/ Migrated(q) PROVE Honest'
  BY <1>3 DEF Migrate, MigrateFails, Migrated, Clean, Tidy
<1>4. CASE \/ \E q \in Reqs : FileWriteFails(q)
           \/ \E id \in Ids, e \in Secrets \union {NoEntry} : EditByHand(id, e)
           \/ KeyringTurns \/ Restart
  <2>1. faults' = 1 \/ edits' = 1
    BY <1>4 DEF FileWriteFails, EditByHand, KeyringTurns, Restart, Calm
  <2> QED BY <2>1 DEF Calm
<1>5. CASE UNCHANGED vars
  <2>1. /\ file' = file /\ keychain' = keychain /\ keyring' = keyring /\ acked' = acked
        /\ req' = req
    BY <1>5 DEF vars, disk
  <2>2. ASSUME NEW p \in Reqs PROVE Promises(req[p])'
    <3>1. Through(req[p])' = Through(req[p]) /\ Acknowledged(req[p])' = Acknowledged(req[p])
      BY <2>1 DEF Through, Comes, Acknowledged
    <3> QED BY <2>1, <3>1 DEF Honest, Promises
  <2>3. Settled' => Shown(file, keychain, acked)'
    BY <2>1 DEF Honest, Settled
  <2> QED BY <2>2, <2>3 DEF Honest
<1>6. ASSUME NEW q \in Reqs,
             \/ Look(q) \/ AddServer(q) \/ UpdateServer(q) \/ RemoveServer(q) \/ Sweep(q)
             \/ \E w \in req[q].sets : SetSucceeds(q, w) \/ SetFails(q, w)
             \/ FileWritten(q) \/ Drop(q) \/ Settle(q)
      PROVE  Honest'
  BY <1>6, HonestLook, HonestAdd, HonestUpdate, HonestRemove, HonestSweep, HonestSet,
     HonestSetFails, HonestWrite, HonestDrop, HonestSettle
<1> QED BY <1>1, <1>2, <1>3, <1>4, <1>5, <1>6 DEF Next

(* Without faults and hand edits, the catalog shows, once the mutations are  *)
(* answered, what their answers said: what each request will write and       *)
(* delete adds up to it at every point under the write lock.  A PUT of a     *)
(* config alone loses the OAuth secret, and one of settings: null the env    *)
(* values, so neither is made.                                               *)
THEOREM CatalogKeepsItsWord ==
  ASSUME {"config", "clear"} \intersect Ops = {}
  PROVE  Spec => [](Calm => CatalogShowsAcked)
<1>1. TypeOK /\ TidyInv /\ ShownInv /\ [Next]_vars => ShownInv'
  <2> SUFFICES ASSUME TypeOK, TidyInv, ShownInv, [Next]_vars, Calm' PROVE Honest'
    BY DEF ShownInv
  <2>1. Calm
    BY StaysCalm
  <2> QED BY <2>1, HonestNext DEF ShownInv
<1>2. ShownInv => (Calm => CatalogShowsAcked)
  <2> SUFFICES ASSUME Honest PROVE Shows(Fields)
    BY DEF ShownInv, CatalogShowsAcked
  <2>1. Quiet => Shown(file, keychain, acked)
    BY DEF Quiet, Settled, Honest
  <2> QED BY <2>1 DEF Shown, Agrees, Shows
<1> QED BY <1>1, <1>2, InitTypeOK, NextTypeOK, TidyInit, TidyNext, ShownInit, PTL DEF Spec
=============================================================================
