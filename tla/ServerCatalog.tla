---------------------------- MODULE ServerCatalog ----------------------------
(***************************************************************************)
(* The server catalog of the web backend: the /api/servers routes of       *)
(* core/mcp/remote/node/server.ts over mcp.json and the OS keychain.  An   *)
(* entry of the file lists the secrets of a server (its OAuth client       *)
(* secret and the values of its environment) but their values live in the  *)
(* keychain; core/mcp/serverList.ts splits and merges the two.  A mutation *)
(* holds the write lock from reading the file, over the keychain writes    *)
(* and the write of the file, to the last keychain delete; each may fail,  *)
(* and the process may stop in between.  Users also edit the file by hand, *)
(* with the secrets in plain text.                                         *)
(***************************************************************************)
EXTENDS Integers

CONSTANTS
  Ids,         \* server ids
  EnvKeys,     \* the env:<key> secret fields
  OauthFields, \* the oauth-client-secret field, or nothing
  Values,      \* secret values
  Absent,      \* no value
  Blank,       \* an env key listed with the value ""
  NoEntry,     \* no server of that id
  Unknown,     \* a server whose contents no answer promises
  Reqs,        \* requests to the routes, each made once
  NoReq,       \* not a request
  Ops,         \* the kinds of mutation the requests choose from
  Seeds,       \* the ids of DEFAULT_SEED_CONFIG
  MaxEdits,    \* bound: edits by hand
  MaxFaults    \* bound: failed writes, restarts and turns of the keychain

Fields == EnvKeys \union OauthFields
PutOps == {"config", "rename", "settings", "patch", "clear"}
Mutations == PutOps \union {"post", "delete"}

Secrets == [Fields -> Values \union {Absent}]
Entry == [Fields -> Values \union {Absent, Blank}]

ASSUME ServerCatalogAssumption ==
  /\ EnvKeys \intersect OauthFields = {}
  /\ Absent # Blank /\ {Absent, Blank} \intersect Values = {}
  /\ NoReq \notin Reqs /\ Ids # {}
  /\ NoEntry \notin Entry /\ {NoEntry, Unknown} \intersect Secrets = {} /\ NoEntry # Unknown
  /\ Ops \subseteq Mutations
  /\ Seeds \subseteq Ids
  /\ MaxEdits \in Nat /\ MaxFaults \in Nat

Config == [Ids -> Entry \union {NoEntry}]
Secret == [id : Ids, field : Fields, value : Values]

EmptyEntry == [f \in Fields |-> Absent]
EmptyConfig == [id \in Ids |-> NoEntry]
SeedConfig == [id \in Ids |-> IF id \in Seeds THEN EmptyEntry ELSE NoEntry]

(* A request: where it is; what it does to server `id`, named `to` after   *)
(* it, with which body; the file it read and later the one it will write;  *)
(* the keychain writes under way, and the keychain fields to delete last.  *)
Request == [pc : {"idle", "looking", "sweeping", "setting", "dropping",
                  "queued", "migrating", "reading", "done"},
            op : Mutations \union {"none", "get", "seed"},
            id : Ids, to : Ids, body : Secrets, next : Config,
            sets : SUBSET Secret, drop : SUBSET (Ids \X Fields)]

VARIABLES
  exists,   \* mcp.json exists
  file,     \* its mcpServers
  keychain, \* the OS keychain
  keyring,  \* the keychain is available
  lock,     \* the request that holds the write lock
  req,      \* the requests
  acked,    \* what the answers so far promise of each server
  edits, faults

disk == <<exists, file>>
vars == <<disk, keychain, keyring, lock, req, acked, edits, faults>>

TypeOK ==
  /\ exists \in BOOLEAN
  /\ file \in Config
  /\ keychain \in [Ids -> Secrets]
  /\ keyring \in BOOLEAN
  /\ lock \in Reqs \union {NoReq}
  /\ req \in [Reqs -> Request]
  /\ acked \in [Ids -> Secrets \union {NoEntry, Unknown}]
  /\ edits \in 0..MaxEdits /\ faults \in 0..MaxFaults

Idle == [pc |-> "idle", op |-> "none", id |-> CHOOSE id \in Ids : TRUE,
         to |-> CHOOSE id \in Ids : TRUE, body |-> EmptyEntry, next |-> EmptyConfig,
         sets |-> {}, drop |-> {}]
Finished == [Idle EXCEPT !.pc = "done"]

Init ==
  /\ exists = FALSE
  /\ file = EmptyConfig
  /\ keychain = [id \in Ids |-> EmptyEntry]
  /\ keyring \in BOOLEAN
  /\ lock = NoReq
  /\ req = [q \in Reqs |-> Idle]
  /\ acked = [id \in Ids |-> NoEntry]
  /\ edits = 0 /\ faults = 0

-----------------------------------------------------------------------------
(* extractSecretsFromStored: the fields an entry carries in plain text, and *)
(* the entry without them.                                                  *)
Plain(e) == {f \in Fields : e[f] \in Values}
Stripped(e) == [f \in Fields |-> IF f \in EnvKeys /\ e[f] # Absent THEN Blank ELSE Absent]

(* expectedSecretFields: the OAuth slot always, and the env keys listed. *)
Expected(e) == OauthFields \union {f \in EnvKeys : e[f] # Absent}

(* What hasPlaintextSecrets looks for: the secrets of c in plain text. *)
PlainSecrets(c) ==
  {s \in Secret : c[s.id] # NoEntry /\ c[s.id][s.field] = s.value}

(* mergeSecretsIntoStored of the secrets `found` into entry e. *)
Merged(e, found) ==
  [f \in Fields |-> IF f \in Expected(e) /\ found[f] # Absent THEN found[f] ELSE e[f]]

(* secretStore.get of every field of id: nothing when the keychain is gone. *)
Found(id) == IF keyring THEN keychain[id] ELSE EmptyEntry

(* Mutation: a patch takes the blanked env of the file for the new one. *)
BuiltBlank(r, old) ==
  [f \in Fields |->
     IF f \in EnvKeys
     THEN CASE r.op \in {"config", "rename", "settings"} -> r.body[f]
            [] r.op \in {"patch", "clear"} -> old[f]
     ELSE CASE r.op \in {"settings", "patch"} -> r.body[f]
            [] r.op \in {"config", "rename"} -> old[f]
            [] r.op = "clear" -> Absent]

(* buildStoredEntry and applyStdioSettingsToConfig: the entry a PUT makes   *)
(* of the old one.  The body of "config" and "rename" is a config, of       *)
(* "settings" the settings with the env they mirror, of "patch" settings    *)
(* without env; "clear" sends settings: null alone.                         *)
Built(r, old) ==
  [f \in Fields |->
     IF f \in EnvKeys
     THEN CASE r.op \in {"config", "rename", "settings"} -> r.body[f]
            [] r.op = "patch" -> Merged(old, Found(r.id))[f]
            [] r.op = "clear" -> old[f]
     ELSE CASE r.op \in {"settings", "patch"} -> r.body[f]
            [] r.op \in {"config", "rename"} -> old[f]
            [] r.op = "clear" -> Absent]

(* Mutation: the two sides are swapped. *)
ObsoleteSwapped(old, new) == Expected(old) \intersect Plain(new)

(* Mutation: what the user removed is not looked for. *)
ObsoleteNone(old, new) == {}

(* computeObsoleteFields *)
Obsolete(old, new) == Expected(old) \ Plain(new)

(* writeKeychainEntriesFor of the new entry; a rename also carries over     *)
(* what the keychain holds under the old id (mergeRenameKeychainSecrets).   *)
SetsFor(r, old, new) ==
  LET carried(f) == r.op = "rename" /\ f \in Expected(old) \intersect Expected(Stripped(new))
      value(f) == IF f \in Plain(new) THEN new[f]
                  ELSE IF carried(f) THEN Found(r.id)[f] ELSE Absent
  IN {s \in Secret : s.id = r.to /\ s.value = value(s.field)}

AllOf(id) == {id} \X Fields

(* What the answer ok of request r promises of its server, of which `old`   *)
(* was promised before: what its body says, and the rest as it was.         *)
Promised(r, old) ==
  IF r.op \in {"post", "settings"} THEN r.body
  ELSE IF old \in {NoEntry, Unknown} THEN Unknown
  ELSE [f \in Fields |->
          IF \/ r.op \in {"config", "rename"} /\ f \in EnvKeys
             \/ r.op = "patch" /\ f \in OauthFields
          THEN r.body[f]
          ELSE IF r.op = "clear" /\ f \in OauthFields THEN Absent ELSE old[f]]

Acknowledged(r) ==
  CASE r.op = "get" -> acked
    [] r.op = "seed" -> [id \in Ids |-> IF id \in Seeds THEN EmptyEntry ELSE acked[id]]
    [] r.op = "delete" -> [acked EXCEPT ![r.id] = NoEntry]
    [] OTHER -> [acked EXCEPT ![r.id] = NoEntry, ![r.to] = Promised(r, acked[r.id])]

-----------------------------------------------------------------------------
(* The mutating routes. *)

(* What a request may ask: only the fields its kind of body has. *)
Asks(op, id, to, body) ==
  /\ op \in Ops
  /\ (id # to) <=> (op = "rename")
  /\ \A f \in Fields : body[f] # Absent =>
       \/ op \in {"post", "settings"}
       \/ op \in {"config", "rename"} /\ f \in EnvKeys
       \/ op = "patch" /\ f \in OauthFields

(* Mutation: it does not wait for the lock. *)
LookUnlocked(q) ==
  /\ req[q].pc = "idle"
  /\ lock' = q
  /\ \E op \in Ops, id \in Ids, to \in Ids, body \in Secrets :
       /\ Asks(op, id, to, body)
       /\ req' = [req EXCEPT ![q] =
            [Idle EXCEPT !.pc = "looking", !.op = op, !.id = id, !.to = to,
                         !.body = body, !.next = file]]
  /\ UNCHANGED <<disk, keychain, keyring, acked, edits, faults>>

(* A mutation gets the write lock and reads the file. *)
Look(q) ==
  /\ req[q].pc = "idle"
  /\ lock = NoReq
  /\ lock' = q
  /\ \E op \in Ops, id \in Ids, to \in Ids, body \in Secrets :
       /\ Asks(op, id, to, body)
       /\ req' = [req EXCEPT ![q] =
            [Idle EXCEPT !.pc = "looking", !.op = op, !.id = id, !.to = to,
                         !.body = body, !.next = file]]
  /\ UNCHANGED <<disk, keychain, keyring, acked, edits, faults>>

(* 404 or 409: the id is not there, or the new one is taken. *)
Refuse(q) ==
  LET r == req[q] IN
  /\ r.pc = "looking"
  /\ \/ r.op = "post" /\ r.next[r.id] # NoEntry
     \/ r.op \in PutOps /\ r.next[r.id] = NoEntry
     \/ r.op = "rename" /\ r.next[r.to] # NoEntry
  /\ req' = [req EXCEPT ![q] = Finished]
  /\ lock' = NoReq
  /\ UNCHANGED <<disk, keychain, keyring, acked, edits, faults>>

(* POST first sweeps what an earlier delete may have left under the id. *)
AddServer(q) ==
  LET r == req[q] IN
  /\ r.pc = "looking"
  /\ r.op = "post"
  /\ r.next[r.id] = NoEntry
  /\ req' = [req EXCEPT ![q] =
       [r EXCEPT !.pc = "sweeping", !.next[r.id] = Stripped(r.body),
                 !.sets = SetsFor(r, EmptyEntry, r.body)]]
  /\ UNCHANGED <<disk, keychain, keyring, lock, acked, edits, faults>>

(* PUT builds the entry, reading the keychain for what its body left out,   *)
(* and starts the keychain writes.                                          *)
UpdateServer(q) ==
  LET r == req[q]
      old == r.next[r.id]
      new == Built(r, old)
  IN
  /\ r.pc = "looking"
  /\ r.op \in PutOps
  /\ old # NoEntry
  /\ r.op = "rename" => r.next[r.to] = NoEntry
  /\ req' = [req EXCEPT ![q] =
       [r EXCEPT !.pc = "setting",
                 !.next = [@ EXCEPT ![r.id] = NoEntry, ![r.to] = Stripped(new)],
                 !.sets = SetsFor(r, old, new),
                 !.drop = IF r.op = "rename" THEN AllOf(r.id)
                          ELSE {r.id} \X Obsolete(old, new)]]
  /\ UNCHANGED <<disk, keychain, keyring, lock, acked, edits, faults>>

(* DELETE sweeps the keychain even when the id is not there. *)
RemoveServer(q) ==
  LET r == req[q]
      there == r.next[r.id] # NoEntry
  IN
  /\ r.pc = "looking"
  /\ r.op = "delete"
  /\ req' = [req EXCEPT ![q] =
       [r EXCEPT !.pc = IF there THEN "setting" ELSE "dropping",
                 !.next[r.id] = NoEntry, !.drop = AllOf(r.id)]]
  /\ UNCHANGED <<disk, keychain, keyring, lock, acked, edits, faults>>

-----------------------------------------------------------------------------
(* The awaits of a mutation, each on the keychain or the file. *)

(* Mutation: a deleted secret stays behind as an empty one. *)
DeletedToBlank(pairs) ==
  IF keyring THEN [id \in Ids |-> [f \in Fields |->
                     IF <<id, f>> \in pairs THEN Blank ELSE keychain[id][f]]]
  ELSE keychain

(* secretStore.delete and deleteAllForServer do nothing, silently, when the *)
(* keychain is unavailable.                                                 *)
Deleted(pairs) ==
  IF keyring THEN [id \in Ids |-> [f \in Fields |->
                     IF <<id, f>> \in pairs THEN Absent ELSE keychain[id][f]]]
  ELSE keychain

Sweep(q) ==
  /\ req[q].pc = "sweeping"
  /\ keychain' = Deleted(AllOf(req[q].to))
  /\ req' = [req EXCEPT ![q].pc = "setting"]
  /\ UNCHANGED <<disk, keyring, lock, acked, edits, faults>>

(* One of the parallel keychain writes settles, perhaps after the request   *)
(* was answered.                                                            *)
SetSucceeds(q, s) ==
  /\ req[q].pc \in {"setting", "done"}
  /\ keyring
  /\ keychain' = [keychain EXCEPT ![s.id][s.field] = s.value]
  /\ req' = [req EXCEPT ![q].sets = @ \ {s}]
  /\ UNCHANGED <<disk, keyring, lock, acked, edits, faults>>

(* The first write to fail answers 503 and lets the lock go, whatever the   *)
(* others still do.                                                         *)
SetFails(q, s) ==
  /\ req[q].pc \in {"setting", "done"}
  /\ ~keyring
  /\ req' = [req EXCEPT ![q] = [Finished EXCEPT !.sets = req[q].sets \ {s}]]
  /\ lock' = IF lock = q THEN NoReq ELSE lock
  /\ UNCHANGED <<disk, keychain, keyring, acked, edits, faults>>

(* writeMcpAndTrackMtime: a mutation goes on to its deletes, a GET to its   *)
(* answer.                                                                  *)
FileWritten(q) ==
  LET r == req[q]
      reads == r.op \in {"get", "seed"}
  IN
  /\ r.pc = "setting"
  /\ r.sets = {}
  /\ exists' = TRUE
  /\ file' = r.next
  /\ req' = [req EXCEPT ![q].pc = IF reads THEN "reading" ELSE "dropping"]
  /\ lock' = IF reads THEN NoReq ELSE lock
  /\ acked' = Acknowledged(r)
  /\ UNCHANGED <<keychain, keyring, edits, faults>>

(* The answer is 500: an update in place may have left new secrets under    *)
(* the old entry.                                                           *)
FileWriteFails(q) ==
  LET r == req[q] IN
  /\ r.pc = "setting"
  /\ r.sets = {}
  /\ faults < MaxFaults
  /\ faults' = faults + 1
  /\ req' = [req EXCEPT ![q] = Finished]
  /\ lock' = NoReq
  /\ acked' = IF r.op \in PutOps \ {"rename"} THEN [acked EXCEPT ![r.id] = Unknown] ELSE acked
  /\ UNCHANGED <<disk, keychain, keyring, edits>>

(* The deletes that come last, and the answer ok. *)
Drop(q) ==
  /\ req[q].pc = "dropping"
  /\ keychain' = Deleted(req[q].drop)
  /\ req' = [req EXCEPT ![q] = Finished]
  /\ lock' = NoReq
  /\ UNCHANGED <<disk, keyring, acked, edits, faults>>

-----------------------------------------------------------------------------
(* GET /api/servers *)

(* The peek at the file without the lock: rehydrate it as it is, or queue   *)
(* for the lock to seed or to migrate it.                                   *)
Peek(q) ==
  /\ req[q].pc = "idle"
  /\ req' = [req EXCEPT ![q] =
       [Idle EXCEPT !.op = "get",
                    !.pc = IF exists /\ PlainSecrets(file) = {} THEN "reading" ELSE "queued",
                    !.next = file]]
  /\ UNCHANGED <<disk, keychain, keyring, lock, acked, edits, faults>>

(* The lock is taken and the file read again: nothing to do any more, or    *)
(* the seed to write, or secrets to migrate.                                *)
Settle(q) ==
  LET there == IF exists THEN PlainSecrets(file) ELSE {} IN
  /\ req[q].pc = "queued"
  /\ lock = NoReq
  /\ lock' = IF exists /\ there = {} THEN NoReq ELSE q
  /\ req' = [req EXCEPT ![q] =
       IF ~exists THEN [@ EXCEPT !.pc = "setting", !.op = "seed", !.next = SeedConfig]
       ELSE [@ EXCEPT !.pc = IF there = {} THEN "reading" ELSE "migrating",
                      !.next = file, !.sets = there]]
  /\ UNCHANGED <<disk, keychain, keyring, acked, edits, faults>>

(* migratePlaintextSecrets takes one secret to the keychain, where a value  *)
(* already there wins.                                                      *)
Migrate(q) ==
  /\ req[q].pc = "migrating"
  /\ keyring
  /\ \E s \in req[q].sets :
       /\ keychain' = [keychain EXCEPT ![s.id][s.field] = IF @ = Absent THEN s.value ELSE @]
       /\ req' = [req EXCEPT ![q].sets = @ \ {s}]
  /\ UNCHANGED <<disk, keyring, lock, acked, edits, faults>>

(* Mutation: the file is stripped although the keychain took nothing. *)
MigrateRegardless(q) ==
  /\ req[q].pc = "migrating"
  /\ ~keyring
  /\ req[q].sets # {}
  /\ req' = [req EXCEPT ![q].sets = {}]
  /\ UNCHANGED <<disk, keychain, keyring, lock, acked, edits, faults>>

(* Without a keychain it abandons the whole, and the answer is the file as  *)
(* it is.                                                                   *)
MigrateFails(q) ==
  /\ req[q].pc = "migrating"
  /\ ~keyring
  /\ req[q].sets # {}
  /\ req' = [req EXCEPT ![q].pc = "reading", ![q].sets = {}]
  /\ lock' = NoReq
  /\ UNCHANGED <<disk, keychain, keyring, acked, edits, faults>>

Migrated(q) ==
  /\ req[q].pc = "migrating"
  /\ req[q].sets = {}
  /\ req' = [req EXCEPT ![q].pc = "setting",
       ![q].next = [id \in Ids |-> IF @[id] = NoEntry THEN NoEntry ELSE Stripped(@[id])]]
  /\ UNCHANGED <<disk, keychain, keyring, lock, acked, edits, faults>>

(* rehydrateConfig has read the keychain for the entries it had, and the    *)
(* answer is given.                                                         *)
Rehydrate(q) ==
  /\ req[q].pc = "reading"
  /\ req' = [req EXCEPT ![q] = Finished]
  /\ UNCHANGED <<disk, keychain, keyring, lock, acked, edits, faults>>

-----------------------------------------------------------------------------
(* The world. *)

(* A user edits or removes an entry of the file, or writes a new one, with  *)
(* the secrets in plain text.                                               *)
EditByHand(id, e) ==
  /\ edits < MaxEdits
  /\ edits' = edits + 1
  /\ exists' = TRUE
  /\ file' = [file EXCEPT ![id] = e]
  /\ acked' = [acked EXCEPT ![id] = Unknown]
  /\ UNCHANGED <<keychain, keyring, lock, req, faults>>

(* The keychain becomes available, or ceases to be. *)
KeyringTurns ==
  /\ faults < MaxFaults
  /\ faults' = faults + 1
  /\ keyring' = ~keyring
  /\ UNCHANGED <<disk, keychain, lock, req, acked, edits>>

(* The process restarts, and nobody learns how its mutation ended. *)
Restart ==
  /\ faults < MaxFaults
  /\ faults' = faults + 1
  /\ lock' = NoReq
  /\ req' = [q \in Reqs |-> IF req[q].pc = "idle" THEN req[q] ELSE Finished]
  /\ acked' = IF lock = NoReq \/ req[lock].op \in {"get", "seed"} THEN acked
              ELSE [acked EXCEPT ![req[lock].id] = Unknown, ![req[lock].to] = Unknown]
  /\ UNCHANGED <<disk, keychain, keyring, edits>>

Next ==
  \/ \E q \in Reqs :
       \/ Look(q)
       \/ Refuse(q)
       \/ AddServer(q)
       \/ UpdateServer(q)
       \/ RemoveServer(q)
       \/ Sweep(q)
       \/ \E s \in req[q].sets : SetSucceeds(q, s) \/ SetFails(q, s)
       \/ FileWritten(q)
       \/ FileWriteFails(q)
       \/ Drop(q)
       \/ Peek(q)
       \/ Settle(q)
       \/ Migrate(q)
       \/ MigrateFails(q)
       \/ Migrated(q)
       \/ Rehydrate(q)
  \/ \E id \in Ids, e \in Secrets \union {NoEntry} : EditByHand(id, e)
  \/ KeyringTurns
  \/ Restart

Spec == Init /\ [][Next]_vars

-----------------------------------------------------------------------------
(* Safety *)

(* The file never lists an env key without its value that the keychain does *)
(* not hold: whatever fails or stops, and whoever edits the file, no write  *)
(* of the backend has thrown a secret away (migratePlaintextSecrets and the *)
(* order keychain, file, deletes of the PUT route).                         *)
BlankIsBacked ==
  \A id \in Ids : file[id] # NoEntry =>
    \A f \in EnvKeys : file[id][f] = Blank => keychain[id][f] # Absent

(* No mutation is under way, none of its keychain writes either. *)
Quiet == \A q \in Reqs : /\ req[q].pc \in {"idle", "queued", "reading", "done"}
                        /\ req[q].sets = {}

(* What the next GET shows of fields F agrees with what the answers of the  *)
(* mutations promised.                                                      *)
Shows(F) ==
  Quiet => \A id \in Ids : acked[id] # Unknown =>
    /\ (file[id] = NoEntry) = (acked[id] = NoEntry)
    /\ acked[id] # NoEntry =>
         \A f \in F : Merged(file[id], keychain[id])[f] = acked[id][f]

(* Once the mutations have been answered, the catalog is what their answers *)
(* said: an ok is in the file and the keychain, a refusal or a failed       *)
(* keychain write changed nothing, and no mutation undid another's (the     *)
(* write lock, and reading the file under it).                              *)
CatalogShowsAcked == Shows(Fields)

(* As long as nothing fails and nobody edits the file, the keychain holds   *)
(* no secret that the file does not list (computeObsoleteFields and         *)
(* deleteAllForServer).                                                     *)
NoOrphans ==
  Quiet /\ faults = 0 /\ edits = 0 =>
    \A id \in Ids, f \in Fields : keychain[id][f] # Absent =>
      /\ file[id] # NoEntry
      /\ f \in Expected(file[id])

-----------------------------------------------------------------------------
(* What a comment of the code claims, and a run refutes *)

(* A save of the config alone keeps the OAuth client secret.  The PUT route *)
(* says so of settings it was not sent.                                     *)
ConfigSaveKeepsOauth == Shows(OauthFields)
=============================================================================
