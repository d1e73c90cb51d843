-------------------------- MODULE CacheStoreProofs --------------------------
(***************************************************************************)
(* Theorems about CacheStore, for any number of snapshots, loads,          *)
(* deletions and crashes.                                                  *)
(*                                                                         *)
(* The queue's flag counts its task, and a snapshot that waits is the last *)
(* one handed over, so what a deletion drops from the queue was taken by   *)
(* no save (QueueInv).  Keys are never made twice, so a file once judged   *)
(* unreadable stays so: keys in hand are old, a new one opens none of them *)
(* (KeyInv).                                                               *)
(***************************************************************************)
EXTENDS CacheStore, TLAPS

QueueInv ==
    /\ TypeOK
    /\ PendingHasItsTask
    /\ ClearedIsNotWritten
    /\ \A n \in cleared : 0 < n /\ n <= taken.snapshots
    /\ \A s \in saves : 0 < s.data /\ s.data <= taken.snapshots
    /\ file # NoFile => file.data <= taken.snapshots
    /\ pending # 0 /\ file # NoFile => file.data < pending

(* A file a load is to remove is opened by no key, present or to come. *)
Sealed(f) == f # Junk => 0 < f.key

KeyInv ==
    /\ keyring <= taken.keys
    /\ file # NoFile => file.key <= taken.keys /\ Sealed(file)
    /\ \A s \in saves : s.key <= taken.keys /\ (s.step = "write" => 0 < s.key)
    /\ \A l \in loads :
          /\ l.raw.key <= taken.keys /\ Sealed(l.raw)
          /\ l.step = "remove" => ~Opens(keyring, l.raw)

Inv == QueueInv /\ KeyInv

----------------------------------------------------------------------------
(* A finished or advanced call leaves the others as they were. *)
LEMMA CallSets ==
    \A S, old, new, x : x \in Advance(S, old, new) => x \in S \/ x = new
BY DEF Advance

LEMMA InitStore == Init => Inv
  <1> SUFFICES ASSUME Init PROVE Inv
    OBVIOUS
  <1>1. /\ file \in Files \cup {NoFile}
        /\ file # NoFile => file.data <= 1 /\ file.key <= 1 /\ Sealed(file)
    BY DEF Init, Files, Junk, Sealed
  <1>0. /\ saves = {} /\ loads = {} /\ deletes = {} /\ cleared = {} /\ signedOut = 0
        /\ pending = 0 /\ sleeping = 0 /\ keyring \in Nat /\ reachable \in BOOLEAN
        /\ taken = [snapshots |-> 1, keys |-> 1, loads |-> 0, deletes |-> 0, crashes |-> 0]
    BY DEF Init
  <1>a. scheduled = FALSE
    BY DEF Init
  <1>b. scheduled \in BOOLEAN
    BY <1>a
  <1>2. TypeOK
    BY <1>0, <1>1, <1>b DEF TypeOK
  <1>3. QueueInv
    <2>1. PendingHasItsTask
      BY <1>0, <1>a DEF PendingHasItsTask
    <2>2. ClearedIsNotWritten
      BY <1>0 DEF ClearedIsNotWritten
    <2>3. QED
      BY <1>0, <1>1, <1>2, <2>1, <2>2 DEF QueueInv
  <1>4. KeyInv
    BY <1>0, <1>1, keyring \in {0, 1} DEF KeyInv, Init
  <1>5. QED
    BY <1>3, <1>4 DEF Inv

----------------------------------------------------------------------------
(* The queue. *)

LEMMA SaveDebouncedQueue == QueueInv /\ SaveDebounced => QueueInv'
  <1> SUFFICES ASSUME QueueInv, SaveDebounced PROVE QueueInv'
    OBVIOUS
  <1>0. /\ taken'.snapshots = taken.snapshots + 1 /\ pending' = taken.snapshots + 1
        /\ taken' \in [snapshots : Nat, keys : Nat, loads : Nat, deletes : Nat, crashes : Nat]
        /\ taken.snapshots \in Nat
    BY DEF QueueInv, SaveDebounced, TypeOK
  <1>1. /\ file' = file /\ keyring' = keyring /\ reachable' = reachable
        /\ cleared' = cleared /\ signedOut' = signedOut
        /\ saves' = saves /\ loads' = loads /\ deletes' = deletes
        /\ scheduled' = TRUE /\ sleeping' = 1
    BY DEF QueueInv, PendingHasItsTask, TypeOK, SaveDebounced, TaskForQueue, disk, calls, history
  <1>2. TypeOK'
    BY <1>0, <1>1 DEF QueueInv, TypeOK
  <1>3. PendingHasItsTask'
    BY <1>1 DEF PendingHasItsTask
  <1>4. ClearedIsNotWritten'
    <2>1. \A t \in saves : t.data \in Nat /\ t.data < pending'
      BY <1>0 DEF QueueInv, TypeOK
    <2>2. \A n \in cleared : n \in Nat /\ n # pending'
      BY <1>0 DEF QueueInv, TypeOK
    <2>3. QED
      BY <1>0, <1>1, <2>1, <2>2 DEF QueueInv, ClearedIsNotWritten
  <1>5. QED
    <2>1. \A t \in saves : t.data \in Nat
      BY DEF QueueInv, TypeOK
    <2>2. file # NoFile => file.data \in Nat
      BY DEF QueueInv, TypeOK, Files
    <2>3. \A n \in cleared : n \in Nat
      BY DEF QueueInv, TypeOK
    <2>4. QED
      BY <1>0, <1>1, <1>2, <1>3, <1>4, <2>1, <2>2, <2>3 DEF QueueInv

LEMMA DebounceEndsQueue == QueueInv /\ DebounceEnds => QueueInv'
  <1> SUFFICES ASSUME QueueInv, DebounceEnds PROVE QueueInv'
    OBVIOUS
  <1>1. \A s \in saves' : s \in saves \/ (pending # 0 /\ s = Save(pending, "key", 0))
    BY DEF DebounceEnds
  <1>2. /\ file' = file /\ keyring' = keyring /\ reachable' = reachable
        /\ cleared' = cleared /\ signedOut' = signedOut /\ loads' = loads /\ deletes' = deletes
        /\ taken' = taken /\ pending' = 0 /\ sleeping' = sleeping - 1
    BY DEF DebounceEnds, disk, history
  <1>3. sleeping' = 0
    BY <1>2 DEF QueueInv, TypeOK, DebounceEnds
  <1>4. scheduled' = FALSE
    BY DEF DebounceEnds, Unscheduled
  <1>5. scheduled' \in BOOLEAN
    BY <1>4
  <1>6. Save(pending, "key", 0) \in [data : Nat, step : {"key", "create", "write"}, key : Nat]
        /\ Save(pending, "key", 0).data = pending
    BY DEF Save, QueueInv, TypeOK
  <1>7. TypeOK'
    BY <1>1, <1>2, <1>3, <1>5, <1>6 DEF QueueInv, TypeOK
  <1>8. PendingHasItsTask'
    BY <1>2, <1>3, <1>4 DEF PendingHasItsTask
  <1>9. ClearedIsNotWritten'
    BY <1>1, <1>2, <1>6 DEF QueueInv, TypeOK, ClearedIsNotWritten
  <1>10. \A s \in saves' : 0 < s.data /\ s.data <= taken.snapshots
    BY <1>1, <1>6 DEF QueueInv, TypeOK, ClearedIsNotWritten
  <1>11. QED
    BY <1>2, <1>7, <1>8, <1>9, <1>10 DEF QueueInv

(* A step of a save keeps what it saves; what it writes waits no longer. *)
LEMMA SaveStepQueue == ASSUME NEW s \in saves, QueueInv, SaveStep(s) PROVE QueueInv'
  <1>1. \A t \in saves' : t \in saves \/ t.data = s.data
    BY DEF SaveStep, SaveFindsKey, SaveMakesKey, SaveWrites, SaveFails, Advance, Finish, Save
  <1>2. s.data \in Nat /\ s.key \in Nat /\ keyring \in Nat /\ taken.keys \in Nat
    BY DEF QueueInv, TypeOK
  <1>3. \A k \in Nat, step \in {"key", "create", "write"} :
           Save(s.data, step, k) \in [data : Nat, step : {"key", "create", "write"}, key : Nat]
    BY <1>2 DEF Save
  <1>4. saves' \subseteq [data : Nat, step : {"key", "create", "write"}, key : Nat]
    <2>0. saves \subseteq [data : Nat, step : {"key", "create", "write"}, key : Nat]
      BY DEF QueueInv, TypeOK
    <2>1. CASE SaveFindsKey(s)
      <3>1. \A t \in saves' : t \in saves \/ t = Save(s.data, "create", 0) \/ t = Save(s.data, "write", keyring)
        BY <2>1 DEF SaveFindsKey, Advance, Finish
      <3>2. Save(s.data, "create", 0) \in [data : Nat, step : {"key", "create", "write"}, key : Nat]
        BY <1>3
      <3>3. Save(s.data, "write", keyring) \in [data : Nat, step : {"key", "create", "write"}, key : Nat]
        BY <1>2, <1>3
      <3>4. QED
        BY <2>0, <3>1, <3>2, <3>3
    <2>2. CASE SaveMakesKey(s)
      <3>1. \A t \in saves' : t \in saves \/ t = Save(s.data, "write", keyring')
        BY <2>2 DEF SaveMakesKey, Advance
      <3>2. keyring' \in Nat
        BY <1>2, <2>2 DEF SaveMakesKey, QueueInv, TypeOK
      <3>3. Save(s.data, "write", keyring') \in [data : Nat, step : {"key", "create", "write"}, key : Nat]
        BY <1>3, <3>2
      <3>4. QED
        BY <2>0, <3>1, <3>3
    <2>3. CASE SaveWrites(s) \/ SaveFails(s)
      BY <2>0, <2>3 DEF SaveWrites, SaveFails, Finish
    <2>4. QED
      BY <2>1, <2>2, <2>3 DEF SaveStep
  <1>5. /\ pending' = pending /\ scheduled' = scheduled /\ sleeping' = sleeping
        /\ loads' = loads /\ deletes' = deletes /\ cleared' = cleared /\ signedOut' = signedOut
        /\ reachable' = reachable
    BY DEF SaveStep, SaveFindsKey, SaveMakesKey, SaveWrites, SaveFails, disk, queue, history
  <1>6. /\ taken' \in [snapshots : Nat, keys : Nat, loads : Nat, deletes : Nat, crashes : Nat]
        /\ taken'.snapshots = taken.snapshots
    BY DEF SaveStep, SaveFindsKey, SaveMakesKey, SaveWrites, SaveFails, QueueInv, TypeOK
  <1>7. keyring' \in Nat
    BY <1>6 DEF SaveStep, SaveFindsKey, SaveMakesKey, SaveWrites, SaveFails, QueueInv, TypeOK, disk
  <1>8. file' = file \/ (file' \in Files /\ file'.data = s.data)
    BY <1>2 DEF SaveStep, SaveFindsKey, SaveMakesKey, SaveWrites, SaveFails, Files, disk
  <1>9. TypeOK'
    BY <1>4, <1>5, <1>6, <1>7, <1>8 DEF QueueInv, TypeOK
  <1>10. ClearedIsNotWritten'
    <2>1. pending # 0 => pending = taken.snapshots /\ \A t \in saves' : t.data < pending
      BY <1>1 DEF QueueInv, ClearedIsNotWritten
    <2>2. ASSUME NEW n \in cleared PROVE n # pending /\ s.data # n /\ \A t \in saves' : t.data # n
      BY <1>1 DEF QueueInv, ClearedIsNotWritten
    <2>3. ASSUME NEW n \in cleared, file' # NoFile PROVE file'.data # n
      BY <1>8, <2>2, <2>3 DEF QueueInv, ClearedIsNotWritten
    <2>4. QED
      BY <1>5, <1>6, <2>1, <2>2, <2>3 DEF ClearedIsNotWritten
  <1>11. PendingHasItsTask'
    BY <1>5 DEF QueueInv, PendingHasItsTask
  <1>12. QED
    BY <1>1, <1>5, <1>6, <1>8, <1>9, <1>10, <1>11 DEF QueueInv, ClearedIsNotWritten

LEMMA DeleteAllQueue == QueueInv /\ DeleteAll => QueueInv'
  <1> SUFFICES ASSUME QueueInv, DeleteAll PROVE QueueInv'
    OBVIOUS
  <1>1. taken'.snapshots = taken.snapshots /\ pending' = 0
        /\ cleared' = cleared \cup ({pending} \ {0})
    BY DEF QueueInv, DeleteAll, QueueEmptied, TypeOK
  <1>2. TypeOK'
    BY <1>1 DEF QueueInv, DeleteAll, Delete, TypeOK, disk
  <1>3. PendingHasItsTask'
    BY <1>1 DEF QueueInv, DeleteAll, PendingHasItsTask
  <1>4. ClearedIsNotWritten'
    <2>1. file' = file /\ saves' = saves
      BY DEF DeleteAll, disk
    <2>2. ASSUME NEW n \in cleared'
          PROVE  /\ n # 0
                 /\ \A s \in saves : s.data # n
                 /\ file # NoFile => file.data # n
      <3>1. CASE n \in cleared
        BY <3>1 DEF QueueInv, ClearedIsNotWritten, TypeOK
      <3>2. CASE n = pending /\ pending # 0
        BY <3>2 DEF QueueInv, TypeOK, Files, ClearedIsNotWritten
      <3>3. QED
        BY <1>1, <3>1, <3>2
    <2>3. QED
      BY <1>1, <2>1, <2>2 DEF ClearedIsNotWritten
  <1>5. QED
    BY <1>1, <1>2, <1>3, <1>4 DEF QueueInv, DeleteAll, TypeOK, ClearedIsNotWritten, disk

(* Loads, the other steps of a deletion, and the keyring leave the queue    *)
(* alone, and put no snapshot on disk.                                      *)
LEMMA OtherStepQueue ==
    ASSUME QueueInv,
           \/ LoadReads
           \/ \E l \in loads : LoadStep(l)
           \/ \E d \in deletes : DeleteStep(d)
           \/ KeyringToggles
    PROVE  QueueInv'
  <1>1. /\ pending' = pending /\ scheduled' = scheduled /\ sleeping' = sleeping
        /\ saves' = saves /\ cleared' = cleared /\ signedOut' = signedOut
        /\ file' \in {file, NoFile}
        /\ taken'.snapshots = taken.snapshots
    BY DEF LoadReads, LoadStep, LoadFindsKey, LoadRemoves, DeleteStep, DeleteRemovesFile,
           DeleteRemovesKey, KeyringToggles, QueueInv, TypeOK, disk, queue, calls, history
  <1>2. TypeOK'
    <2>1. CASE LoadReads
      BY <1>1, <2>1 DEF LoadReads, Load, QueueInv, TypeOK, disk
    <2>2. ASSUME NEW l \in loads, LoadStep(l) PROVE TypeOK'
      <3>1. Load(l.id, "remove", l.raw) \in [id : Nat, step : {"key", "remove"}, raw : Files]
        BY DEF Load, QueueInv, TypeOK
      <3>2. QED
        BY <1>1, <2>2, <3>1
        DEF LoadStep, LoadFindsKey, LoadRemoves, Advance, Finish, QueueInv, TypeOK, disk
    <2>3. ASSUME NEW d \in deletes, DeleteStep(d) PROVE TypeOK'
      <3>1. Delete(d.id, "key") \in [id : Nat, step : {"file", "key"}]
        BY DEF Delete, QueueInv, TypeOK
      <3>2. QED
        BY <1>1, <2>3, <3>1
        DEF DeleteStep, DeleteRemovesFile, DeleteRemovesKey, Advance, Finish, QueueInv, TypeOK
    <2>4. CASE KeyringToggles
      BY <1>1, <2>4 DEF KeyringToggles, QueueInv, TypeOK, disk, calls
    <2>5. QED
      BY <2>1, <2>2, <2>3, <2>4
  <1>3. QED
    BY <1>1, <1>2 DEF QueueInv, PendingHasItsTask, ClearedIsNotWritten

LEMMA CrashQueue == QueueInv /\ Crash => QueueInv'
  <1> SUFFICES ASSUME QueueInv, Crash PROVE QueueInv'
    OBVIOUS
  <1>1. /\ taken'.snapshots = taken.snapshots
        /\ taken' \in [snapshots : Nat, keys : Nat, loads : Nat, deletes : Nat, crashes : Nat]
    BY DEF QueueInv, Crash, TypeOK
  <1>2. /\ file' = file /\ keyring' = keyring /\ reachable' = reachable
        /\ cleared' = cleared /\ signedOut' = signedOut
        /\ pending' = 0 /\ sleeping' = 0
        /\ \A x : x \notin saves' /\ x \notin loads' /\ x \notin deletes'
    BY DEF Crash, disk, history
  <1>3. scheduled' = FALSE
    BY DEF Crash
  <1>4. scheduled' \in BOOLEAN
    BY <1>3
  <1>5. TypeOK'
    BY <1>1, <1>2, <1>4 DEF QueueInv, TypeOK
  <1>6. PendingHasItsTask'
    BY <1>2, <1>3 DEF PendingHasItsTask
  <1>7. ClearedIsNotWritten'
    BY <1>2 DEF QueueInv, TypeOK, Files, ClearedIsNotWritten
  <1>8. QED
    BY <1>1, <1>2, <1>5, <1>6, <1>7 DEF QueueInv

LEMMA NextQueue == QueueInv /\ [Next]_vars => QueueInv'
  <1> SUFFICES ASSUME QueueInv, [Next]_vars PROVE QueueInv'
    OBVIOUS
  <1>1. CASE UNCHANGED vars
    BY <1>1 DEF vars, disk, queue, calls, history, QueueInv, TypeOK, PendingHasItsTask,
                ClearedIsNotWritten
  <1>2. QED
    BY <1>1, SaveDebouncedQueue, DebounceEndsQueue, SaveStepQueue, DeleteAllQueue,
       OtherStepQueue, CrashQueue DEF Next

----------------------------------------------------------------------------
(* The keys. *)

LEMMA SaveStepKeys == ASSUME NEW s \in saves, Inv, SaveStep(s) PROVE KeyInv'
  <1> USE DEF Sealed
  <1>1. CASE SaveMakesKey(s)
    <2>1. taken'.keys = taken.keys + 1 /\ keyring' = taken.keys + 1
      BY <1>1 DEF SaveMakesKey, Inv, QueueInv, TypeOK
    <2>2. \A l \in loads : l.raw.key \in Nat /\ ~Opens(keyring', l.raw)
      BY <2>1 DEF Opens, Inv, QueueInv, KeyInv, TypeOK, Files
    <2>3. \A t \in saves' : t \in saves \/ t.key = keyring'
      BY <1>1 DEF SaveMakesKey, Advance, Save
    <2>4. QED
      BY <1>1, <2>1, <2>2, <2>3 DEF SaveMakesKey, Inv, QueueInv, KeyInv, TypeOK, Files, Opens
  <1>2. CASE SaveFindsKey(s)
    <2>1. \A t \in saves' :
             \/ t \in saves
             \/ t.key = 0 /\ t.step = "create"
             \/ t.key = keyring /\ keyring # 0
      BY <1>2 DEF SaveFindsKey, Advance, Finish, Save
    <2>2. QED
      BY <1>2, <2>1 DEF SaveFindsKey, Inv, QueueInv, KeyInv, TypeOK, Opens, disk
  <1>3. CASE SaveWrites(s)
    BY <1>3 DEF SaveWrites, Finish, Inv, KeyInv, Opens
  <1>4. CASE SaveFails(s)
    BY <1>4 DEF SaveFails, Finish, Inv, KeyInv, Opens, disk
  <1>5. QED
    BY <1>1, <1>2, <1>3, <1>4 DEF SaveStep

LEMMA LoadStepKeys == ASSUME NEW l \in loads, Inv, LoadStep(l) PROVE KeyInv'
  <1>1. CASE LoadFindsKey(l)
    <2>1. Load(l.id, "remove", l.raw).raw = l.raw
      BY DEF Load
    <2>2. \A m \in loads' : m \in loads \/ (m.raw = l.raw /\ ~Opens(keyring, l.raw))
      BY <1>1, <2>1 DEF LoadFindsKey, Kept, Advance, Finish
    <2>3. QED
      BY <1>1, <2>2 DEF LoadFindsKey, Inv, KeyInv, Opens, disk
  <1>2. CASE LoadRemoves(l)
    BY <1>2 DEF LoadRemoves, Finish, Inv, KeyInv, Opens
  <1>3. QED
    BY <1>1, <1>2 DEF LoadStep

LEMMA NextKeys == Inv /\ [Next]_vars => KeyInv'
  <1> SUFFICES ASSUME Inv, [Next]_vars PROVE KeyInv'
    OBVIOUS
  <1>1. CASE SaveDebounced
    BY <1>1 DEF SaveDebounced, Inv, QueueInv, KeyInv, TypeOK, Opens, disk, calls
  <1>2. CASE DebounceEnds
    BY <1>2 DEF DebounceEnds, Save, Inv, QueueInv, KeyInv, TypeOK, Opens, disk
  <1>3. CASE LoadReads
    BY <1>3 DEF LoadReads, Load, Inv, QueueInv, KeyInv, TypeOK, Opens, disk
  <1>4. CASE DeleteAll
    BY <1>4 DEF DeleteAll, Inv, QueueInv, KeyInv, TypeOK, Opens, disk
  <1>5. ASSUME NEW d \in deletes, DeleteStep(d) PROVE KeyInv'
    <2>1. keyring' \in {0, keyring} /\ saves' = saves /\ loads' = loads /\ taken' = taken
          /\ file' \in {file, NoFile}
      BY <1>5 DEF DeleteStep, DeleteRemovesFile, DeleteRemovesKey
    <2>2. \A l \in loads : ~Opens(0, l.raw)
      BY DEF Inv, KeyInv, Sealed, Opens
    <2>3. QED
      BY <2>1, <2>2 DEF Inv, QueueInv, KeyInv, TypeOK, Opens
  <1>6. CASE KeyringToggles
    BY <1>6 DEF KeyringToggles, Inv, KeyInv, Opens, disk, calls
  <1>7. CASE Crash
    BY <1>7 DEF Crash, Inv, QueueInv, KeyInv, TypeOK, Opens, disk
  <1>8. CASE UNCHANGED vars
    BY <1>8 DEF vars, disk, calls, Inv, KeyInv, Opens
  <1>9. QED
    BY <1>1, <1>2, <1>3, <1>4, <1>5, <1>6, <1>7, <1>8, SaveStepKeys, LoadStepKeys DEF Next

----------------------------------------------------------------------------
(* The inductive invariant. *)
THEOREM StoreInvariant == Spec => []Inv
  <1>1. Inv /\ [Next]_vars => Inv'
    BY NextQueue, NextKeys DEF Inv
  <1>2. QED
    BY <1>1, InitStore, PTL DEF Spec

(* The store keeps its types. *)
THEOREM StoreTypeCorrect == Spec => []TypeOK
  <1>1. Inv => TypeOK
    BY DEF Inv, QueueInv
  <1>2. QED
    BY <1>1, StoreInvariant, PTL

(* What waits to be saved has its one task, whatever replaced, took or      *)
(* dropped the snapshot before it.                                          *)
THEOREM NothingWaitsAlone == Spec => []PendingHasItsTask
  <1>1. Inv => PendingHasItsTask
    BY DEF Inv, QueueInv
  <1>2. QED
    BY <1>1, StoreInvariant, PTL

(* What a sign-out drops from the queue is never written. *)
THEOREM DroppedForGood == Spec => []ClearedIsNotWritten
  <1>1. Inv => ClearedIsNotWritten
    BY DEF Inv, QueueInv
  <1>2. QED
    BY <1>1, StoreInvariant, PTL

(* A readable cache is lost only to a step of a deletion, or of a task that *)
(* acts on what it read before (spec 001, FR-024a).                         *)
THEOREM ReadableIsKept == Spec => ReadableStays
  <1> DEFINE Step == Readable /\ ~Readable' => Deletes \/ ActsOnStale
  <1>1. ASSUME Inv, [Next]_vars, Readable, ~Readable' PROVE Deletes \/ ActsOnStale
    <2>1. ~UNCHANGED disk
      BY <1>1 DEF disk, Readable, Opens
    <2>2. ASSUME NEW s \in saves, SaveStep(s) PROVE ActsOnStale
      <3>1. CASE SaveMakesKey(s)
        <4>1. file # NoFile /\ file # Junk /\ file.key = keyring
          BY <1>1 DEF Readable, Opens
        <4>2. keyring # 0
          BY <1>1, <4>1 DEF Inv, KeyInv, Sealed, Junk
        <4>3. QED
          BY <3>1, <4>2 DEF ActsOnStale
      <3>2. CASE SaveWrites(s)
        <4>1. file' = [data |-> s.data, key |-> s.key] /\ keyring' = keyring /\ s.step = "write"
          BY <3>2 DEF SaveWrites
        <4>2. s.data \in Nat /\ s.key \in Nat /\ 0 < s.key
          BY <1>1, <4>1 DEF Inv, QueueInv, TypeOK, KeyInv
        <4>3. file' # NoFile /\ file' # Junk /\ file'.key = s.key
          BY <4>1, <4>2, CacheStoreAssumption DEF Junk
        <4>4. s.key # keyring
          BY <1>1, <4>1, <4>3 DEF Readable, Opens
        <4>5. QED
          BY <3>2, <4>4 DEF ActsOnStale
      <3>3. ~SaveFindsKey(s) /\ ~SaveFails(s)
        BY <2>1 DEF SaveFindsKey, SaveFails
      <3>4. QED
        BY <2>2, <3>1, <3>2, <3>3 DEF SaveStep
    <2>3. ASSUME NEW l \in loads, LoadStep(l) PROVE ActsOnStale
      <3>1. LoadRemoves(l) /\ l.step = "remove"
        BY <2>1, <2>3 DEF LoadStep, LoadFindsKey, LoadRemoves
      <3>2. l.raw # file
        BY <1>1, <3>1 DEF Readable, Inv, KeyInv
      <3>3. QED
        BY <3>1, <3>2 DEF ActsOnStale
    <2>4. QED
      BY <1>1, <2>1, <2>2, <2>3
      DEF Deletes, Next, SaveDebounced, DebounceEnds, LoadReads, DeleteAll, KeyringToggles, Crash, vars
  <1>2. Inv /\ [Next]_vars => [Step]_vars
    BY <1>1
  <1>3. QED
    BY <1>2, StoreInvariant, PTL DEF Spec, ReadableStays
=============================================================================
