---------------------------- MODULE OAuthStorage ----------------------------
(***************************************************************************)
(* Where the OAuth state lives (core/auth/oauth-storage.ts): one memory,   *)
(* loaded once, whose every change is written out whole, to a file or to   *)
(* the backend that keeps it (oauth-persist.ts).  A page that reloads, as  *)
(* it does for every authorization, starts from what was written.          *)
(***************************************************************************)
EXTENDS Integers, Sequences

CONSTANTS
  Savers,    \* the calls that change the state; each changes it once
  MaxReloads \* bound: pages reloaded

ASSUME OAuthStorageAssumption == MaxReloads \in Nat

VARIABLES
  memory,       \* the changes the memory has taken in
  disk,         \* those the last snapshot written has
  loadPromise,  \* "none", "pending", "resolved" or "rejected"
  persistQueue, \* writes on their way, in order: who waits for it, and what it holds
  saver,        \* where each call is
  reloads

credentialVars == <<memory, disk, loadPromise, persistQueue, saver, reloads>>

StorageTypeOK ==
  /\ memory \subseteq Savers /\ disk \subseteq Savers
  /\ loadPromise \in {"none", "pending", "resolved", "rejected"}
  /\ persistQueue \in Seq([by : Savers, snapshot : SUBSET Savers])
  /\ saver \in [Savers -> {"idle", "loading", "writing", "resolved", "rejected", "lost"}]
  /\ reloads \in 0..MaxReloads

StorageInit ==
  /\ memory = {} /\ disk = {} /\ loadPromise = "none" /\ persistQueue = <<>>
  /\ saver = [s \in Savers |-> "idle"]
  /\ reloads = 0

-----------------------------------------------------------------------------
(* ensureLoaded(): the first call reads, and all wait for that read.  A     *)
(* read that failed is not repeated.                                        *)
EnsureLoaded(s) ==
  /\ saver[s] = "idle"
  /\ loadPromise' = IF loadPromise = "none" THEN "pending" ELSE loadPromise
  /\ saver' = [saver EXCEPT ![s] = IF loadPromise = "rejected" THEN "rejected" ELSE "loading"]
  /\ UNCHANGED <<memory, disk, persistQueue, reloads>>

LoadSucceeds ==
  /\ loadPromise = "pending"
  /\ loadPromise' = "resolved"
  /\ memory' = disk
  /\ UNCHANGED <<disk, persistQueue, saver, reloads>>

LoadFails ==
  /\ loadPromise = "pending"
  /\ loadPromise' = "rejected"
  /\ saver' = [s \in Savers |-> IF saver[s] = "loading" THEN "rejected" ELSE saver[s]]
  /\ UNCHANGED <<memory, disk, persistQueue, reloads>>

(* The change is made and persist() takes its snapshot, in one step. *)
Save(s) ==
  /\ saver[s] = "loading" /\ loadPromise = "resolved"
  /\ memory' = memory \union {s}
  /\ persistQueue' = Append(persistQueue, [by |-> s, snapshot |-> memory'])
  /\ saver' = [saver EXCEPT ![s] = "writing"]
  /\ UNCHANGED <<disk, loadPromise, reloads>>

(* Mutation: the writes are not chained, and end in any order. *)
WriteSucceedsInAnyOrder ==
  /\ \E i \in DOMAIN persistQueue :
       /\ disk' = persistQueue[i].snapshot
       /\ persistQueue' = SelectSeq(persistQueue, LAMBDA w : w # persistQueue[i])
       /\ saver' = [saver EXCEPT ![persistQueue[i].by] = "resolved"]
  /\ UNCHANGED <<memory, loadPromise, reloads>>

(* A write starts when the one before it is over. *)
WriteSucceeds ==
  /\ persistQueue # <<>>
  /\ disk' = Head(persistQueue).snapshot
  /\ persistQueue' = Tail(persistQueue)
  /\ saver' = [saver EXCEPT ![Head(persistQueue).by] = "resolved"]
  /\ UNCHANGED <<memory, loadPromise, reloads>>

(* The memory keeps a change that could not be written, and the next write  *)
(* takes it along: prior.catch(() => {}).                                   *)
WriteFails ==
  /\ persistQueue # <<>>
  /\ persistQueue' = Tail(persistQueue)
  /\ saver' = [saver EXCEPT ![Head(persistQueue).by] = "rejected"]
  /\ UNCHANGED <<memory, disk, loadPromise, reloads>>

(* The page goes, and its calls with it; the write that was under way is    *)
(* done, or never will be.                                                  *)
PageReloads ==
  /\ reloads < MaxReloads
  /\ reloads' = reloads + 1
  /\ disk' \in {disk} \union {Head(q).snapshot : q \in {persistQueue} \ {<<>>}}
  /\ memory' = {} /\ persistQueue' = <<>> /\ loadPromise' = "none"
  /\ saver' = [s \in Savers |-> IF saver[s] \in {"loading", "writing"} THEN "lost" ELSE saver[s]]

StorageNext ==
  \/ \E s \in Savers : EnsureLoaded(s) \/ Save(s)
  \/ LoadSucceeds \/ LoadFails
  \/ WriteSucceeds \/ WriteFails
  \/ PageReloads

StorageSpec == StorageInit /\ [][StorageNext]_credentialVars

-----------------------------------------------------------------------------
(* Properties. *)

(* What a call was told is saved stays saved: no later write of an older    *)
(* snapshot, no write from a memory that was not loaded, no failure of      *)
(* another call's write and no reload takes it off the disk.                *)
SavedIsDurable == \A s \in Savers : saver[s] = "resolved" => s \in disk

(* Why: each snapshot holds what the ones before it hold and what the disk  *)
(* held when the memory was loaded.                                         *)
SnapshotsGrow ==
  /\ \A i \in DOMAIN persistQueue :
       /\ persistQueue[i].by \in persistQueue[i].snapshot
       /\ disk \subseteq persistQueue[i].snapshot
       /\ persistQueue[i].snapshot \subseteq memory
  /\ \A i, j \in DOMAIN persistQueue : i < j => persistQueue[i].snapshot \subseteq persistQueue[j].snapshot
  /\ loadPromise = "resolved" => disk \subseteq memory
  /\ loadPromise # "resolved" => persistQueue = <<>>
=============================================================================
