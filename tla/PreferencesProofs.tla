-------------------------- MODULE PreferencesProofs --------------------------
(***************************************************************************)
(* Theorems about Preferences, for any actions and chords, any stored      *)
(* files and any number of changes.                                        *)
(*                                                                         *)
(* Two arguments.  What is settled: the last file on its way to the        *)
(* reducer is the file itself unless the watcher has still to look, so the *)
(* last load always brings the stored preferences, whatever order the jobs *)
(* wrote in.  And what a save keeps: validating gives every action its     *)
(* stored chord unless an earlier one has it, so a map every action of     *)
(* which has its default or a chord no earlier one has (Fits) is its own   *)
(* validation; the map in use is always such a map, and so is that map     *)
(* with one chord captured that no other action has.                       *)
(***************************************************************************)
EXTENDS Preferences, NaturalsInduction, WellFoundedInduction, TLAPS

----------------------------------------------------------------------------
(* Induction over the numbers, as a statement about a set. *)
LEMMA LeastNumber ==
    ASSUME NEW T \in SUBSET Nat, T # {}
    PROVE  \E x \in T : \A y \in T : x <= y
  <1> DEFINE less == OpToRel(<, Nat)
  <1>1. less = {ss \in Nat \X Nat : ss[1] < ss[2]}
    BY Zenon DEF OpToRel
  <1>2. \E x \in T : \A y \in T : <<y, x>> \notin less
    <2> HIDE DEF less
    <2>1. IsWellFoundedOn(less, Nat)
      BY NatLessThanWellFounded, Zenon DEF less
    <2>2. QED
      BY <2>1, WFMin, Zenon
  <1>3. PICK x \in T : \A y \in T : <<y, x>> \notin less
    BY <1>2
  <1>4. \A y \in T : ~(y < x)
    <2> HIDE DEF less
    <2> QED
    BY <1>1, <1>3
  <1>5. QED
    BY <1>4

LEMMA SetInduction ==
    ASSUME NEW T \in SUBSET Nat, 0 \in T, \A n \in T : n + 1 \in T
    PROVE  T = Nat
  <1> SUFFICES ASSUME Nat \ T # {} PROVE FALSE
    OBVIOUS
  <1>1. PICK x \in Nat \ T : \A y \in Nat \ T : x <= y
    BY LeastNumber
  <1>2. x - 1 \in T
    BY <1>1
  <1>3. QED
    BY <1>1, <1>2

LEMMA ActionTypes ==
    /\ Len(DefaultChord) \in Nat
    /\ \A a \in Actions : a \in Nat /\ a # None /\ 0 < a /\ a <= Len(DefaultChord)
    /\ \A a \in Actions : DefaultChord[a] \in Chords /\ DefaultChord[a] # Unset
    /\ DefaultChord \in [Actions -> Chords]
BY PreferencesAssumption DEF Actions, None

----------------------------------------------------------------------------
(* validated, chord by chord: the recursion of ChordsInOrder has a solution *)
(* and no other.                                                            *)
Given(chord, stored, a) ==
    IF stored[a] # Unset /\ \A b \in 1..(a - 1) : chord[b] # stored[a]
    THEN stored[a] ELSE DefaultChord[a]

StoredMaps == [Actions -> Chords \union {Unset}]

LEMMA GivenType ==
    ASSUME NEW stored \in StoredMaps, NEW chord, NEW a \in Actions
    PROVE  Given(chord, stored, a) \in Chords
BY ActionTypes DEF Given, StoredMaps

LEMMA GivenFromEarlier ==
    ASSUME NEW stored, NEW f, NEW g, NEW a \in Actions, \A b \in 1..(a - 1) : f[b] = g[b]
    PROVE  Given(f, stored, a) = Given(g, stored, a)
BY DEF Given

LEMMA GivenSoFar ==
    ASSUME NEW stored \in StoredMaps, NEW n \in Nat
    PROVE  \E g \in [Actions -> Chords] :
              \A a \in Actions : a <= n => g[a] = Given(g, stored, a)
  <1> DEFINE Good(g, m) == \A a \in Actions : a <= m => g[a] = Given(g, stored, a)
             T == {m \in Nat : \E g \in [Actions -> Chords] : Good(g, m)}
  <1>1. 0 \in T
    BY ActionTypes
  <1>2. ASSUME NEW m \in T PROVE m + 1 \in T
    <2>1. PICK g \in [Actions -> Chords] : Good(g, m)
      BY <1>2
    <2> DEFINE h == [a \in Actions |-> IF a <= m THEN g[a] ELSE Given(g, stored, a)]
    <2>2. h \in [Actions -> Chords]
      BY <2>1, GivenType
    <2>3. ASSUME NEW a \in Actions, a <= m + 1 PROVE h[a] = Given(h, stored, a)
      <3>1. h[a] = Given(g, stored, a)
        BY <2>1
      <3>2. \A b \in 1..(a - 1) : b \in Actions /\ b <= m
        BY <1>2, <2>3, ActionTypes DEF Actions
      <3>3. \A b \in 1..(a - 1) : h[b] = g[b]
        BY <3>2
      <3> HIDE DEF h
      <3>4. QED
        BY <3>1, <3>3, GivenFromEarlier
    <2> HIDE DEF h
    <2>4. QED
      BY <1>2, <2>2, <2>3
  <1>3. T = Nat
    <2> HIDE DEF T
    <2>1. T \in SUBSET Nat
      BY DEF T
    <2>2. QED
      BY <1>1, <1>2, <2>1, SetInduction
  <1>4. QED
    BY <1>3

LEMMA ChordsInOrderIs ==
    ASSUME NEW stored \in StoredMaps
    PROVE  /\ ChordsInOrder(stored) \in [Actions -> Chords]
           /\ \A a \in Actions :
                 ChordsInOrder(stored)[a] = Given(ChordsInOrder(stored), stored, a)
  <1> DEFINE Solves(f) == f = [a \in Actions |-> Given(f, stored, a)]
  <1>1. PICK g \in [Actions -> Chords] : \A a \in Actions : g[a] = Given(g, stored, a)
    <2>1. PICK g \in [Actions -> Chords] :
             \A a \in Actions : a <= Len(DefaultChord) => g[a] = Given(g, stored, a)
      BY GivenSoFar, ActionTypes
    <2>2. QED
      BY <2>1, ActionTypes
  <1>2. Solves(g)
    BY <1>1
  <1>3. ChordsInOrder(stored) = CHOOSE f : Solves(f)
    BY DEF ChordsInOrder, Given
  <1>4. Solves(ChordsInOrder(stored))
    <2> HIDE DEF Solves
    <2> QED
    BY <1>2, <1>3
  <1>5. QED
    BY <1>4, GivenType

LEMMA OneSolution ==
    ASSUME NEW stored, NEW f \in [Actions -> Chords], NEW g \in [Actions -> Chords],
           \A a \in Actions : f[a] = Given(f, stored, a),
           \A a \in Actions : g[a] = Given(g, stored, a)
    PROVE  f = g
  <1> SUFFICES ASSUME {a \in Actions : f[a] # g[a]} # {} PROVE FALSE
    OBVIOUS
  <1>1. PICK x \in Actions : f[x] # g[x] /\ \A y \in Actions : f[y] # g[y] => x <= y
    <2> DEFINE T == {a \in Actions : f[a] # g[a]}
    <2>1. T \in SUBSET Nat
      BY ActionTypes
    <2>2. \E x \in T : \A y \in T : x <= y
      <3> HIDE DEF T
      <3> QED
      BY <2>1, LeastNumber DEF T
    <2>3. QED
      BY <2>2
  <1>2. \A b \in 1..(x - 1) : b \in Actions /\ ~(x <= b)
    BY ActionTypes DEF Actions
  <1>3. \A b \in 1..(x - 1) : f[b] = g[b]
    BY <1>1, <1>2
  <1>4. Given(f, stored, x) = Given(g, stored, x)
    BY <1>3, GivenFromEarlier
  <1>5. QED
    BY <1>1, <1>4

(* Every action has its default or a chord no earlier one has. *)
Fits(chords) ==
    \A a \in Actions : chords[a] = DefaultChord[a] \/ \A b \in 1..(a - 1) : chords[b] # chords[a]

LEMMA ValidatedFits ==
    ASSUME NEW stored \in StoredMaps
    PROVE  Fits(ChordsInOrder(stored))
BY ChordsInOrderIs DEF Fits, Given

LEMMA FittingIsKept ==
    ASSUME NEW chords \in [Actions -> Chords], Fits(chords)
    PROVE  ChordsInOrder(chords) = chords
  <1>1. chords \in StoredMaps
    BY DEF StoredMaps
  <1>2. \A a \in Actions : chords[a] = Given(chords, chords, a)
    BY PreferencesAssumption DEF Fits, Given
  <1>3. QED
    BY <1>1, <1>2, ChordsInOrderIs, OneSolution

LEMMA CapturedFits ==
    ASSUME NEW chords \in [Actions -> Chords], Fits(chords), NEW a \in Actions, NEW chord \in Chords,
           \A b \in Actions : chords[b] = chord => b = a
    PROVE  Fits([chords EXCEPT ![a] = chord])
  <1> DEFINE q == [chords EXCEPT ![a] = chord]
  <1>1. \A b \in Actions : q[b] = IF b = a THEN chord ELSE chords[b]
    OBVIOUS
  <1> HIDE DEF q
  <1>2. ASSUME NEW x \in Actions, q[x] # DefaultChord[x], NEW b \in 1..(x - 1) PROVE q[b] # q[x]
    <2>1. b \in Actions /\ b # x
      BY ActionTypes DEF Actions
    <2>2. x # a => chords[b] # chords[x]
      BY <1>1, <1>2 DEF Fits
    <2>3. QED
      BY <1>1, <2>1, <2>2
  <1>3. Fits(q)
    BY <1>2 DEF Fits
  <1>4. QED
    BY <1>3 DEF q

LEMMA DefaultFits == Fits(DefaultChord)
BY DEF Fits

LEMMA ClampedType == \A secs \in Int : Clamped(secs) \in ClearMin..ClearMax
BY PreferencesAssumption DEF Clamped

LEMMA ValidatedType ==
    ASSUME NEW p, p.clear \in Int, p.chords \in StoredMaps
    PROVE  Validated(p) \in ValidPrefs /\ Fits(Validated(p).chords)
  <1>1. ChordsInOrder(p.chords) \in [Actions -> Chords]
    BY ChordsInOrderIs
  <1>2. QED
    BY <1>1, ClampedType, ValidatedFits DEF Validated, ValidPrefs

----------------------------------------------------------------------------
(* The invariant. *)
Settling ==
    /\ Quiet /\ ~failed => prefs = Validated(file)
    /\ ~changed /\ loads # <<>> => loads[Len(loads)] = file

PrefsInv == TypeOK /\ Fits(prefs.chords) /\ Settling

LEMMA StoredIsValidatable ==
    ASSUME NEW p \in StoredPrefs
    PROVE  Validated(p) \in ValidPrefs /\ Fits(Validated(p).chords)
BY ValidatedType DEF StoredPrefs, StoredMaps

(* A save: the validated change is in use, and a job to write it runs; or   *)
(* the change comes to nothing.                                             *)
LEMMA SavePrefsLemma ==
    ASSUME PrefsInv, NEW p, p.clear \in Int, p.chords \in StoredMaps, SavePrefs(p),
           Outside, open' \in BOOLEAN,
           rebinding' \in Actions \union {None}, rebinding' # None => open'
    PROVE  PrefsInv'
  <1>1. Validated(p) \in ValidPrefs /\ Fits(Validated(p).chords)
    BY ValidatedType
  <1>2. CASE UNCHANGED <<prefs, saves, changes>>
    BY <1>2 DEF PrefsInv, TypeOK, Settling, Quiet, Outside
  <1>3. CASE ~UNCHANGED <<prefs, saves, changes>>
    <2> DEFINE job == [no |-> changes, want |-> Validated(p), key |-> "clear"]
    <2>1. /\ changes < MaxChanges /\ changes' = changes + 1
          /\ prefs' = Validated(p) /\ saves' = saves \union {job}
      BY <1>3 DEF SavePrefs
    <2>2. changes \in Nat /\ changes \in 0..MaxChanges /\ MaxChanges \in Nat
      BY PreferencesAssumption DEF PrefsInv, TypeOK
    <2>3. job \in Jobs
      BY <1>1, <2>2 DEF Jobs
    <2>4. TypeOK'
      <3> HIDE DEF job
      <3> QED
      BY <1>1, <2>1, <2>2, <2>3 DEF PrefsInv, TypeOK, Outside
    <2>5. saves' # {}
      BY <2>1
    <2>6. Settling'
      BY <2>5 DEF PrefsInv, Settling, Quiet, Outside
    <2>7. QED
      BY <1>1, <2>1, <2>4, <2>6 DEF PrefsInv
  <1>4. QED
    BY <1>2, <1>3

LEMMA AdjustClearLemma ==
    ASSUME PrefsInv, NEW delta \in {Step, -Step}, AdjustClear(delta), Outside, UNCHANGED editor
    PROVE  PrefsInv'
  <1> DEFINE next == prefs.clear + delta
             p == [prefs EXCEPT !.clear = IF next < 0 THEN 0 ELSE next]
  <1>1. prefs \in ValidPrefs /\ prefs.clear \in Nat /\ delta \in Int
    BY PreferencesAssumption DEF PrefsInv, TypeOK, ValidPrefs
  <1>2. p.clear \in Int /\ p.chords \in StoredMaps
    BY <1>1 DEF ValidPrefs, StoredMaps
  <1>3. SavePrefs(p)
    BY DEF AdjustClear
  <1> HIDE DEF p
  <1>4. QED
    BY <1>2, <1>3, SavePrefsLemma DEF editor, PrefsInv, TypeOK

LEMMA ResetLemma ==
    ASSUME PrefsInv, ResetShortcuts, Outside, UNCHANGED editor
    PROVE  PrefsInv'
  <1> DEFINE p == [prefs EXCEPT !.chords = DefaultChord]
  <1>1. prefs \in ValidPrefs /\ prefs.clear \in Nat
    BY PreferencesAssumption DEF PrefsInv, TypeOK, ValidPrefs
  <1>2. p.clear \in Int /\ p.chords \in StoredMaps
    BY <1>1, ActionTypes DEF ValidPrefs, StoredMaps
  <1>3. SavePrefs(p)
    BY DEF ResetShortcuts
  <1> HIDE DEF p
  <1>4. QED
    BY <1>2, <1>3, SavePrefsLemma DEF editor, PrefsInv, TypeOK

LEMMA CapturedLemma ==
    ASSUME PrefsInv, open, rebinding # None, NEW chord \in Chords, Captured(chord), Outside,
           UNCHANGED open
    PROVE  PrefsInv'
  <1>1. CASE NoConflict(rebinding, chord)
    <2> DEFINE p == [prefs EXCEPT !.chords[rebinding] = chord]
    <2>1. prefs \in ValidPrefs /\ prefs.clear \in Nat
      BY PreferencesAssumption DEF PrefsInv, TypeOK, ValidPrefs
    <2>2. p.clear \in Int /\ p.chords \in StoredMaps
      <3>1. prefs.chords \in [Actions -> Chords]
        BY <2>1 DEF ValidPrefs
      <3>2. [prefs.chords EXCEPT ![rebinding] = chord] \in StoredMaps
        BY <3>1 DEF StoredMaps
      <3>3. p.clear = prefs.clear /\ p.chords = [prefs.chords EXCEPT ![rebinding] = chord]
        BY <2>1 DEF ValidPrefs
      <3>4. QED
        BY <2>1, <3>2, <3>3
    <2>3. SavePrefs(p) /\ rebinding' = None
      BY <1>1 DEF Captured
    <2> HIDE DEF p
    <2>4. QED
      BY <2>2, <2>3, SavePrefsLemma DEF PrefsInv, TypeOK
  <1>2. CASE ~NoConflict(rebinding, chord)
    BY <1>2 DEF Captured, PrefsInv, TypeOK, Settling, Quiet, Outside
  <1>3. QED
    BY <1>1, <1>2

(* The editor's other steps change nothing of the preferences. *)
LEMMA EditorLemma ==
    ASSUME PrefsInv, UNCHANGED <<prefs, store, loads, changes, failed>>,
           open' \in BOOLEAN, rebinding' \in Actions \union {None}, rebinding' # None => open'
    PROVE  PrefsInv'
BY DEF PrefsInv, TypeOK, Settling, Quiet, store

LEMMA FirstIsAction ==
    ASSUME NEW S \in SUBSET Actions, S # {}
    PROVE  First(S) \in S
  <1>1. S \in SUBSET Nat
    BY ActionTypes
  <1>2. \E x \in S : \A y \in S : x <= y
    BY <1>1, LeastNumber
  <1>3. QED
    BY <1>2 DEF First

LEMMA PressLemma ==
    ASSUME PrefsInv, NEW chord \in Chords, Press(chord)
    PROVE  PrefsInv'
  <1>0. open /\ UNCHANGED open /\ Outside
    BY DEF Press
  <1>1. CASE rebinding # None
    BY <1>0, <1>1, CapturedLemma DEF Press
  <1>2. CASE rebinding = None /\ UNCHANGED rebinding
    <2>1. CASE ResetShortcuts
      BY <1>0, <1>2, <2>1, ResetLemma DEF editor
    <2>2. CASE AdjustClear(Step) \/ AdjustClear(-Step)
      BY <1>0, <1>2, <2>2, AdjustClearLemma DEF editor
    <2>3. ASSUME NEW a, StartRebind(a) PROVE PrefsInv'
      BY <1>0, <1>2, <2>3, EditorLemma DEF StartRebind, Outside, store, PrefsInv, TypeOK
    <2>4. QED
      BY <1>2, <2>1, <2>2, <2>3 DEF Press, PressWhileOpen
  <1>3. CASE rebinding = None /\ ~UNCHANGED rebinding
    <2>1. ActionsFor(chord) # {} /\ StartRebind(First(ActionsFor(chord)))
      BY <1>3 DEF Press, PressWhileOpen
    <2>2. First(ActionsFor(chord)) \in Actions
      BY <2>1, FirstIsAction DEF ActionsFor
    <2>3. QED
      BY <1>0, <2>1, <2>2, EditorLemma DEF StartRebind, Outside, store, PrefsInv, TypeOK
  <1>4. QED
    BY <1>1, <1>2, <1>3

LEMMA ClickLemma ==
    ASSUME PrefsInv, Click
    PROVE  PrefsInv'
  <1>0. open /\ UNCHANGED open /\ Outside
    BY DEF Click
  <1>1. ASSUME NEW delta \in {Step, -Step}, AdjustClear(delta), UNCHANGED rebinding PROVE PrefsInv'
    BY <1>0, <1>1, AdjustClearLemma DEF editor
  <1>2. CASE ResetShortcuts /\ UNCHANGED rebinding
    BY <1>0, <1>2, ResetLemma DEF editor
  <1>3. ASSUME NEW a \in Actions, StartRebind(a) PROVE PrefsInv'
    BY <1>0, <1>3, EditorLemma DEF StartRebind, Outside, store, PrefsInv, TypeOK
  <1>4. QED
    BY <1>1, <1>2, <1>3 DEF Click

(* The file: after a write the watcher has still to look. *)
LEMMA FileLemma ==
    ASSUME PrefsInv, file' \in StoredPrefs, changed', saves' \subseteq Jobs,
           changes' \in 0..MaxChanges,
           UNCHANGED <<prefs, editor, loads, failed>>, changed' \in BOOLEAN
    PROVE  PrefsInv'
BY DEF PrefsInv, TypeOK, Settling, Quiet, editor

LEMMA WritesNextLemma ==
    ASSUME PrefsInv, NEW job \in saves, WritesNext(job)
    PROVE  PrefsInv'
  <1>1. job \in Jobs /\ file \in StoredPrefs
    BY DEF PrefsInv, TypeOK
  <1>2. job.want \in ValidPrefs /\ job.want.clear \in Nat
    BY <1>1, PreferencesAssumption DEF Jobs, ValidPrefs
  <1>3. file' \in StoredPrefs
    <2>1. CASE job.key = "clear"
      BY <1>1, <1>2, <2>1 DEF WritesNext, StoredPrefs
    <2>2. CASE job.key = "chords"
      BY <1>1, <1>2, <2>2 DEF WritesNext, StoredPrefs, ValidPrefs
    <2>3. QED
      BY <1>1, <2>1, <2>2 DEF Jobs
  <1>4. saves' \subseteq Jobs
    BY <1>1 DEF WritesNext, PrefsInv, TypeOK, Jobs
  <1>5. QED
    BY <1>3, <1>4, FileLemma DEF WritesNext, PrefsInv, TypeOK

LEMMA WriteFailsLemma ==
    ASSUME PrefsInv, NEW job \in saves, WriteFails(job)
    PROVE  PrefsInv'
BY DEF WriteFails, PrefsInv, TypeOK, Settling, Quiet, editor

LEMMA EditFileLemma ==
    ASSUME PrefsInv, EditFile
    PROVE  PrefsInv'
  <1>1. file \in StoredPrefs /\ changes \in 0..MaxChanges /\ MaxChanges \in Nat
    BY PreferencesAssumption DEF PrefsInv, TypeOK
  <1>2. file' \in StoredPrefs
    BY <1>1, PreferencesAssumption DEF EditFile, StoredPrefs
  <1>3. changes' \in 0..MaxChanges
    BY <1>1 DEF EditFile
  <1>4. QED
    BY <1>2, <1>3, FileLemma DEF EditFile, PrefsInv, TypeOK

(* What the watcher sends last is what the file holds. *)
LEMMA WatchedLemma ==
    ASSUME PrefsInv, Watched
    PROVE  PrefsInv'
  <1>1. loads \in Seq(StoredPrefs) /\ file \in StoredPrefs
    BY DEF PrefsInv, TypeOK
  <1>2. loads' = Append(loads, file)
    BY DEF Watched
  <1>3. /\ loads' \in Seq(StoredPrefs) /\ loads' # <<>>
        /\ loads'[Len(loads')] = file
    BY <1>1, <1>2
  <1>4. QED
    BY <1>3 DEF Watched, PrefsInv, TypeOK, Settling, Quiet, editor

LEMMA PrefsLoadedLemma ==
    ASSUME PrefsInv, PrefsLoaded
    PROVE  PrefsInv'
  <1>1. loads \in Seq(StoredPrefs) /\ loads # <<>>
    BY DEF PrefsInv, TypeOK, PrefsLoaded
  <1>2. Head(loads) \in StoredPrefs /\ loads' \in Seq(StoredPrefs)
    BY <1>1 DEF PrefsLoaded
  <1>3. prefs' \in ValidPrefs /\ Fits(prefs'.chords)
    BY <1>2, StoredIsValidatable DEF PrefsLoaded, ApplyLoaded
  <1>4. TypeOK'
    BY <1>2, <1>3 DEF PrefsLoaded, ApplyLoaded, PrefsInv, TypeOK, editor
  <1>5. loads' # <<>> => loads'[Len(loads')] = loads[Len(loads)]
    BY <1>1 DEF PrefsLoaded
  <1>6. loads' = <<>> => Head(loads) = loads[Len(loads)]
    <2>1. Len(loads') = Len(loads) - 1 /\ Len(loads) \in Nat
      BY <1>1 DEF PrefsLoaded
    <2>2. loads' = <<>> => Len(loads) = 1
      BY <2>1
    <2>3. QED
      BY <1>1, <2>2
  <1>7. ~changed => loads[Len(loads)] = file
    BY <1>1 DEF PrefsInv, Settling
  <1>8. Settling'
    BY <1>5, <1>6, <1>7 DEF Settling, Quiet, PrefsLoaded, ApplyLoaded
  <1>9. QED
    BY <1>3, <1>4, <1>8 DEF PrefsInv

LEMMA InitPreferences == Init => PrefsInv
  <1> SUFFICES ASSUME Init PROVE PrefsInv
    OBVIOUS
  <1>1. file \in StoredPrefs
    BY PreferencesAssumption DEF Init, StoredPrefs
  <1>2. prefs \in ValidPrefs /\ Fits(prefs.chords)
    BY <1>1, StoredIsValidatable DEF Init
  <1>3. MaxChanges \in Nat /\ loads \in Seq(StoredPrefs)
    BY PreferencesAssumption DEF Init
  <1>4. TypeOK
    <2>1. saves \subseteq Jobs /\ changes \in 0..MaxChanges
      BY <1>3 DEF Init
    <2>2. open \in BOOLEAN /\ changed \in BOOLEAN /\ failed \in BOOLEAN
      BY DEF Init
    <2>3. rebinding \in Actions \union {None} /\ rebinding = None
      BY DEF Init
    <2>4. QED
      BY <1>1, <1>2, <1>3, <2>1, <2>2, <2>3 DEF TypeOK
  <1>5. Settling
    BY DEF Init, Settling
  <1>6. QED
    BY <1>2, <1>4, <1>5 DEF PrefsInv

LEMMA NextPreferences == PrefsInv /\ [Next]_vars => PrefsInv'
  <1> SUFFICES ASSUME PrefsInv, [Next]_vars PROVE PrefsInv'
    OBVIOUS
  <1>1. ASSUME NEW chord \in Chords, Press(chord) PROVE PrefsInv'
    BY <1>1, PressLemma
  <1>2. CASE Click
    BY <1>2, ClickLemma
  <1>3. CASE OpenPreferences \/ Escape \/ Leave
    BY <1>3, EditorLemma DEF OpenPreferences, Escape, Leave, PrefsInv, TypeOK
  <1>4. ASSUME NEW job \in saves, WritesNext(job) \/ WriteFails(job) PROVE PrefsInv'
    BY <1>4, WritesNextLemma, WriteFailsLemma
  <1>5. CASE Watched \/ PrefsLoaded \/ EditFile
    BY <1>5, WatchedLemma, PrefsLoadedLemma, EditFileLemma
  <1>6. CASE UNCHANGED vars
    BY <1>6, EditorLemma DEF vars, editor, PrefsInv, TypeOK
  <1>7. QED
    BY <1>1, <1>2, <1>3, <1>4, <1>5, <1>6 DEF Next

(* What is in use is valid and fits, and what was loaded last is the file.  *)
THEOREM PreferencesInvariant == Spec => []PrefsInv
BY InitPreferences, NextPreferences, PTL DEF Spec

(* The preferences in use are always valid ones (Preferences::validated),   *)
(* whatever the files hold.                                                 *)
THEOREM PreferencesTypeCorrect == Spec => []TypeOK
  <1>1. PrefsInv => TypeOK
    BY DEF PrefsInv
  <1>2. QED
    BY <1>1, PreferencesInvariant, PTL

(* When nothing is under way and nothing failed, what is in use is what a   *)
(* restart would load (save_prefs, Effect::SavePreferences, PrefsLoaded).   *)
THEOREM SettledPreferences == Spec => []SettledIsStored
  <1>1. PrefsInv => SettledIsStored
    BY DEF PrefsInv, Settling, SettledIsStored
  <1>2. QED
    BY <1>1, PreferencesInvariant, PTL

----------------------------------------------------------------------------
(* What an editor's step does to the key map. *)

LEMMA SavedIsValidated ==
    ASSUME NEW p, SavePrefs(p)
    PROVE  prefs' = Validated(p)
BY DEF SavePrefs

LEMMA ClearKeepsChords ==
    ASSUME PrefsInv, NEW delta \in {Step, -Step}, AdjustClear(delta)
    PROVE  prefs'.chords = prefs.chords
  <1> DEFINE next == prefs.clear + delta
             p == [prefs EXCEPT !.clear = IF next < 0 THEN 0 ELSE next]
  <1>1. prefs \in ValidPrefs /\ prefs.chords \in [Actions -> Chords] /\ Fits(prefs.chords)
    BY DEF PrefsInv, TypeOK, ValidPrefs
  <1>2. p.chords = prefs.chords
    BY <1>1 DEF ValidPrefs
  <1>3. prefs' = Validated(p)
    BY SavedIsValidated DEF AdjustClear
  <1> HIDE DEF p
  <1>4. QED
    BY <1>1, <1>2, <1>3, FittingIsKept DEF Validated

LEMMA ResetGivesDefaults ==
    ASSUME PrefsInv, ResetShortcuts
    PROVE  prefs'.chords = DefaultChord
  <1> DEFINE p == [prefs EXCEPT !.chords = DefaultChord]
  <1>1. p.chords = DefaultChord
    BY DEF PrefsInv, TypeOK, ValidPrefs
  <1>2. prefs' = Validated(p)
    BY SavedIsValidated DEF ResetShortcuts
  <1> HIDE DEF p
  <1>3. QED
    BY <1>1, <1>2, FittingIsKept, ActionTypes, DefaultFits DEF Validated

LEMMA CaptureTakesOneRow ==
    ASSUME PrefsInv, rebinding # None, NEW chord \in Chords, Captured(chord),
           NoConflict(rebinding, chord)
    PROVE  prefs'.chords = [prefs.chords EXCEPT ![rebinding] = chord]
  <1> DEFINE q == [prefs.chords EXCEPT ![rebinding] = chord]
             p == [prefs EXCEPT !.chords[rebinding] = chord]
  <1>1. /\ prefs \in ValidPrefs /\ prefs.chords \in [Actions -> Chords] /\ Fits(prefs.chords)
        /\ rebinding \in Actions
    BY DEF PrefsInv, TypeOK, ValidPrefs
  <1>2. p.chords = q
    BY <1>1 DEF ValidPrefs
  <1>3. q \in [Actions -> Chords]
    BY <1>1
  <1>4. \A b \in Actions : prefs.chords[b] = chord => b = rebinding
    BY DEF NoConflict, ActionsFor
  <1>5. Fits(q)
    BY <1>1, <1>4, CapturedFits
  <1>6. prefs' = Validated(p)
    BY SavedIsValidated DEF Captured
  <1> HIDE DEF p, q
  <1>7. prefs'.chords = q
    BY <1>2, <1>3, <1>5, <1>6, FittingIsKept DEF Validated
  <1>8. QED
    BY <1>7 DEF q

(* In the editor a chord is captured only if no other row has it, and is    *)
(* then that row's alone; a save never takes a chord from another row       *)
(* (chord_captured, conflict, validated).                                   *)
THEOREM EditorKeepsKeymap == Spec => KeymapIsKept
  <1> DEFINE OneRow == \A a \in Actions, chord \in Chords :
                rebinding = a /\ Press(chord) /\ rebinding' = None =>
                    prefs'.chords = [prefs.chords EXCEPT ![a] = chord]
             Apart == \A a, b \in Actions :
                a # b /\ prefs'.chords[a] = prefs'.chords[b] =>
                    prefs.chords[a] = prefs.chords[b] \/ PrefsLoaded
  <1>1. ASSUME PrefsInv PROVE OneRow
    <2> SUFFICES ASSUME NEW a \in Actions, NEW chord \in Chords,
                        rebinding = a, Press(chord), rebinding' = None
                 PROVE  prefs'.chords = [prefs.chords EXCEPT ![a] = chord]
      OBVIOUS
    <2>1. rebinding # None
      BY ActionTypes
    <2>2. Captured(chord)
      BY <2>1 DEF Press
    <2>3. NoConflict(rebinding, chord)
      BY <2>1, <2>2 DEF Captured
    <2>4. QED
      BY <1>1, <2>1, <2>2, <2>3, CaptureTakesOneRow
  <1>2. ASSUME PrefsInv, [Next]_vars PROVE Apart
    <2> SUFFICES ASSUME NEW a \in Actions, NEW b \in Actions, a # b,
                        prefs'.chords[a] = prefs'.chords[b], ~PrefsLoaded
                 PROVE  prefs.chords[a] = prefs.chords[b]
      OBVIOUS
    <2>1. CASE prefs'.chords = prefs.chords
      BY <2>1
    <2>2. CASE ResetShortcuts
      BY <1>2, <2>2, ResetGivesDefaults, PreferencesAssumption
    <2>3. ASSUME NEW delta \in {Step, -Step}, AdjustClear(delta)
          PROVE  prefs.chords[a] = prefs.chords[b]
      BY <1>2, <2>1, <2>3, ClearKeepsChords
    <2>4. ASSUME NEW chord \in Chords, rebinding # None, Captured(chord)
          PROVE  prefs.chords[a] = prefs.chords[b]
      <3>1. CASE NoConflict(rebinding, chord)
        <4>1. \A c \in Actions : prefs.chords[c] = chord => c = rebinding
          BY <3>1 DEF NoConflict, ActionsFor
        <4>2. prefs'.chords = [prefs.chords EXCEPT ![rebinding] = chord]
          BY <1>2, <2>4, <3>1, CaptureTakesOneRow
        <4>3. prefs.chords \in [Actions -> Chords]
          BY <1>2 DEF PrefsInv, TypeOK, ValidPrefs
        <4>4. QED
          BY <4>1, <4>2, <4>3
      <3>2. CASE ~NoConflict(rebinding, chord)
        BY <2>1, <2>4, <3>2 DEF Captured
      <3>3. QED
        BY <3>1, <3>2
    <2>5. ASSUME NEW chord \in Chords, Press(chord) PROVE prefs.chords[a] = prefs.chords[b]
      BY <2>1, <2>2, <2>3, <2>4, <2>5 DEF Press, PressWhileOpen, StartRebind
    <2>6. CASE Click
      BY <2>1, <2>2, <2>3, <2>6 DEF Click, StartRebind
    <2>7. QED
      BY <1>2, <2>1, <2>5, <2>6
      DEF Next, OpenPreferences, Escape, Leave, WritesNext, WriteFails, Watched, EditFile, vars
  <1>3. PrefsInv /\ [Next]_vars => [OneRow]_vars /\ [Apart]_vars
    BY <1>1, <1>2
  <1>4. QED
    BY <1>3, PreferencesInvariant, PTL DEF Spec, KeymapIsKept, RebindTakesOneRow, ChordsStayApart
=============================================================================
