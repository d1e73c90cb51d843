----------------------------- MODULE CacheStore -----------------------------
(***************************************************************************)
(* The encrypted cache file and its key in the keyring                     *)
(* (src/src/cache/store.rs, src/src/cache/keystore.rs).                    *)
(*                                                                         *)
(* CacheStore keeps a queue of one snapshot behind a lock.  load, save and *)
(* delete_all are async and take no lock: each is a record here, with the  *)
(* step it is at, and their steps interleave.  The process may die between *)
(* any two; the file and the keyring are what is left.  A removal that the *)
(* disk refuses is left out.                                               *)
(*                                                                         *)
(* A snapshot is its number; 0 is none.  A key is its number too.  Junk is *)
(* a file no key opens, or of another format.  cleared and signedOut are   *)
(* history that only properties read.                                      *)
(***************************************************************************)
EXTENDS Naturals

CONSTANTS
    NoFile,       \* no cache.bin
    MaxSaves,     \* bound: snapshots handed to the store
    MaxLoads,     \* bound: loads
    MaxDeletes,   \* bound: sign-outs and switches
    MaxCrashes    \* bound: times the process dies

ASSUME CacheStoreAssumption ==
    /\ NoFile \notin [data : Nat, key : Nat]
    /\ MaxSaves \in Nat /\ MaxLoads \in Nat /\ MaxDeletes \in Nat /\ MaxCrashes \in Nat

VARIABLES
    file,        \* cache.bin: the snapshot and the key that sealed it
    keyring,     \* the key the Secret Service holds, 0 for none
    reachable,   \* the keyring is unlocked and answers
    pending,     \* queue.pending
    scheduled,   \* queue.scheduled
    sleeping,    \* debounce tasks asleep
    saves,       \* calls of save, by the step they are at
    loads,       \* calls of load
    deletes,     \* calls of delete_all
    taken,       \* snapshots, keys, loads, deletions and crashes so far
    cleared,     \* snapshots a deletion took out of the queue
    signedOut    \* the last snapshot before the latest deletion

disk == <<file, keyring>>
queue == <<pending, scheduled, sleeping>>
calls == <<saves, loads, deletes>>
history == <<cleared, signedOut>>
vars == <<disk, reachable, queue, calls, taken, history>>

----------------------------------------------------------------------------
Junk == [data |-> 0, key |-> 0]

(* crypto::open, then the format check. *)
Opens(key, f) == f # NoFile /\ f # Junk /\ f.key = key

Readable == Opens(keyring, file)

Save(n, step, key) == [data |-> n, step |-> step, key |-> key]
Load(n, step, raw) == [id |-> n, step |-> step, raw |-> raw]
Delete(n, step) == [id |-> n, step |-> step]

Advance(set, old, new) == (set \ {old}) \cup {new}
Finish(set, old) == set \ {old}

(* A start after any earlier run: snapshot 1 was the last one, key 1 sealed it. *)
Init ==
    /\ file \in {NoFile, Junk, [data |-> 1, key |-> 1]}
    /\ keyring \in {0, 1}
    /\ reachable \in BOOLEAN
    /\ pending = 0 /\ scheduled = FALSE /\ sleeping = 0
    /\ saves = {} /\ loads = {} /\ deletes = {}
    /\ taken = [snapshots |-> 1, keys |-> 1, loads |-> 0, deletes |-> 0, crashes |-> 0]
    /\ cleared = {} /\ signedOut = 0

----------------------------------------------------------------------------
(* save_debounced, under the queue's lock: a later snapshot takes the place *)
(* of the one that waits, and a task that sleeps is not joined by another.  *)
TaskForQueue == sleeping' = IF scheduled THEN sleeping ELSE sleeping + 1

SaveDebounced ==
    /\ taken.snapshots <= MaxSaves
    /\ taken' = [taken EXCEPT !.snapshots = @ + 1]
    /\ pending' = taken'.snapshots
    /\ scheduled' = TRUE
    /\ TaskForQueue
    /\ UNCHANGED <<disk, reachable, calls, history>>

(* The task wakes and takes what is pending, if it is still there. *)
StaysScheduled == UNCHANGED scheduled     \* mutant: the flag is not lowered
Unscheduled == scheduled' = FALSE

DebounceEnds ==
    /\ sleeping > 0
    /\ sleeping' = sleeping - 1
    /\ Unscheduled
    /\ pending' = 0
    /\ saves' = IF pending = 0 THEN saves ELSE saves \cup {Save(pending, "key", 0)}
    /\ UNCHANGED <<disk, reachable, loads, deletes, taken, history>>

(* save: the key the keyring holds, else one to make; without a keyring the *)
(* snapshot is dropped without a word.                                      *)
SaveFindsKey(s) ==
    /\ s \in saves /\ s.step = "key"
    /\ saves' = IF ~reachable THEN Finish(saves, s)
                ELSE IF keyring = 0 THEN Advance(saves, s, Save(s.data, "create", 0))
                ELSE Advance(saves, s, Save(s.data, "write", keyring))
    /\ UNCHANGED <<disk, reachable, queue, loads, deletes, taken, history>>

(* key_inner makes a key after its search found none: create_item replaces  *)
(* whatever the keyring holds by then.                                      *)
SaveMakesKey(s) ==
    /\ s \in saves /\ s.step = "create"
    /\ taken' = [taken EXCEPT !.keys = @ + 1]
    /\ keyring' = taken'.keys
    /\ saves' = Advance(saves, s, Save(s.data, "write", keyring'))
    /\ UNCHANGED <<file, reachable, queue, loads, deletes, history>>

(* write_atomic renames a finished file over the old one.                   *)
SaveWrites(s) ==
    /\ s \in saves /\ s.step = "write"
    /\ file' = [data |-> s.data, key |-> s.key]
    /\ saves' = Finish(saves, s)
    /\ UNCHANGED <<keyring, reachable, queue, loads, deletes, taken, history>>

(* The keyring or the disk fails the save. *)
SaveFails(s) ==
    /\ s \in saves /\ s.step \in {"create", "write"}
    /\ saves' = Finish(saves, s)
    /\ UNCHANGED <<disk, reachable, queue, loads, deletes, taken, history>>

----------------------------------------------------------------------------
(* load: the bytes first; a file that is not there, or cannot be read, ends *)
(* it.                                                                      *)
LoadReads ==
    /\ file # NoFile /\ taken.loads < MaxLoads
    /\ taken' = [taken EXCEPT !.loads = @ + 1]
    /\ loads' = loads \cup {Load(taken'.loads, "key", file)}
    /\ UNCHANGED <<disk, reachable, queue, saves, deletes, history>>

(* Then the key, which it does not make.  Out of reach, the file is kept;   *)
(* without the key that opens it, it is to be removed.                      *)
KeptIfOpened(l) == reachable /\ Opens(keyring, l.raw)     \* mutant: out of reach is missing
Kept(l) == ~reachable \/ Opens(keyring, l.raw)

LoadFindsKey(l) ==
    /\ l \in loads /\ l.step = "key"
    /\ loads' = IF Kept(l) THEN Finish(loads, l)
                ELSE Advance(loads, l, Load(l.id, "remove", l.raw))
    /\ UNCHANGED <<disk, reachable, queue, saves, deletes, taken, history>>

LoadRemoves(l) ==
    /\ l \in loads /\ l.step = "remove"
    /\ file' = NoFile
    /\ loads' = Finish(loads, l)
    /\ UNCHANGED <<keyring, reachable, queue, saves, deletes, taken, history>>

----------------------------------------------------------------------------
(* delete_all: the queue under its lock, then the file, then the key. *)
QueueLeft == UNCHANGED pending     \* mutant: the queue is not emptied
QueueEmptied == pending' = 0

DeleteAll ==
    /\ taken.deletes < MaxDeletes
    /\ taken' = [taken EXCEPT !.deletes = @ + 1]
    /\ QueueEmptied
    /\ deletes' = deletes \cup {Delete(taken'.deletes, "file")}
    /\ cleared' = cleared \cup ({pending} \ {0})
    /\ signedOut' = taken.snapshots
    /\ UNCHANGED <<disk, reachable, scheduled, sleeping, saves, loads>>

DeleteRemovesFile(d) ==
    /\ d \in deletes /\ d.step = "file"
    /\ file' = NoFile
    /\ deletes' = Advance(deletes, d, Delete(d.id, "key"))
    /\ UNCHANGED <<keyring, reachable, queue, saves, loads, taken, history>>

(* A keyring that cannot be asked keeps the key. *)
DeleteRemovesKey(d) ==
    /\ d \in deletes /\ d.step = "key"
    /\ keyring' = IF reachable THEN 0 ELSE keyring
    /\ deletes' = Finish(deletes, d)
    /\ UNCHANGED <<file, reachable, queue, saves, loads, taken, history>>

----------------------------------------------------------------------------
(* The user locks or unlocks the keyring. *)
KeyringToggles == reachable' = ~reachable /\ UNCHANGED <<disk, queue, calls, taken, history>>

(* The process dies, and what it had in hand with it. *)
Crash ==
    /\ taken.crashes < MaxCrashes
    /\ taken' = [taken EXCEPT !.crashes = @ + 1]
    /\ pending' = 0 /\ scheduled' = FALSE /\ sleeping' = 0
    /\ saves' = {} /\ loads' = {} /\ deletes' = {}
    /\ UNCHANGED <<disk, reachable, history>>

SaveStep(s) == SaveFindsKey(s) \/ SaveMakesKey(s) \/ SaveWrites(s) \/ SaveFails(s)
LoadStep(l) == LoadFindsKey(l) \/ LoadRemoves(l)
DeleteStep(d) == DeleteRemovesFile(d) \/ DeleteRemovesKey(d)

Next ==
    \/ SaveDebounced \/ DebounceEnds
    \/ \E s \in saves : SaveStep(s)
    \/ LoadReads
    \/ \E l \in loads : LoadStep(l)
    \/ DeleteAll
    \/ \E d \in deletes : DeleteStep(d)
    \/ KeyringToggles
    \/ Crash

(* A task that sleeps wakes: the runtime runs it when its time has come. *)
Fairness == WF_vars(DebounceEnds)

Spec == Init /\ [][Next]_vars /\ Fairness

----------------------------------------------------------------------------
Files == [data : Nat, key : Nat]

(* The variables are of their types. *)
TypeOK ==
    /\ file \in Files \cup {NoFile}
    /\ keyring \in Nat /\ reachable \in BOOLEAN
    /\ pending \in Nat /\ scheduled \in BOOLEAN /\ sleeping \in 0..1
    /\ saves \subseteq [data : Nat, step : {"key", "create", "write"}, key : Nat]
    /\ loads \subseteq [id : Nat, step : {"key", "remove"}, raw : Files]
    /\ deletes \subseteq [id : Nat, step : {"file", "key"}]
    /\ taken \in [snapshots : Nat, keys : Nat, loads : Nat, deletes : Nat, crashes : Nat]
    /\ cleared \subseteq Nat /\ signedOut \in Nat

(* A snapshot that waits has the one task that will take it: neither a task *)
(* that woke, nor a deletion, nor a snapshot that replaced another leaves   *)
(* the queue without one, and two never sleep at once (at most one write in *)
(* 2 s, cache-format.md).                                                   *)
PendingHasItsTask ==
    /\ pending # 0 => scheduled
    /\ sleeping = IF scheduled THEN 1 ELSE 0

(* What waits in the queue is newer than all that is saved or being saved,  *)
(* and what a sign-out took out of the queue is never written.              *)
ClearedIsNotWritten ==
    /\ pending # 0 => pending = taken.snapshots /\ \A s \in saves : s.data < pending
    /\ \A n \in cleared :
          /\ n # pending
          /\ file # NoFile => file.data # n
          /\ \A s \in saves : s.data # n

(* A file the keyring's key opens stops being one only by a deletion, or by *)
(* a task that acts on what it read before another task changed it: a load  *)
(* that removes a file it did not read, a save whose key is no longer the   *)
(* keyring's, a save that makes a key where there is one by now.  The step  *)
(* is that task's own, so no other costs a readable cache: no crash, no     *)
(* failure, no keyring out of reach (FR-024a).                              *)
ActsOnStale ==
    \/ \E l \in loads : LoadRemoves(l) /\ l.raw # file
    \/ \E s \in saves : SaveWrites(s) /\ s.key # keyring
    \/ \E s \in saves : SaveMakesKey(s) /\ keyring # 0
Deletes == \E d \in deletes : DeleteStep(d)
ReadableStays == [][Readable /\ ~Readable' => Deletes \/ ActsOnStale]_vars

(* A snapshot does not wait for ever. *)
QueueDrains == \A n \in 1..(MaxSaves + 1) : pending = n ~> pending # n

----------------------------------------------------------------------------
(* What the specification and the comments say and the code does not keep. *)

(* Spec 001, FR-024b: signing out deletes the on-disk cache.  Once every    *)
(* deletion is over no snapshot of before it is on disk.                    *)
DeletedStaysDeleted ==
    deletes = {} /\ file # NoFile => file = Junk \/ file.data > signedOut

(* CacheStore::load: unreadable or incompatible files are deleted.          *)
OnlyUnreadableRemoved == [][\A l \in loads : LoadRemoves(l) => ~Readable]_vars
=============================================================================
