----------------------------- MODULE Preferences -----------------------------
(***************************************************************************)
(* The preferences, their editor and their file (src/src/config.rs, the    *)
(* preferences arms of src/src/core/state.rs, preferences_key of           *)
(* src/src/app/keys.rs, SavePreferences of src/src/runtime.rs).            *)
(*                                                                         *)
(* Every change is applied at once and saved by a job of its own; the jobs *)
(* run beside one another, and each writes one file per value.  The file   *)
(* is watched: what it holds comes back as PrefsLoaded, this program's own *)
(* changes included.                                                       *)
(*                                                                         *)
(* The watcher is a library's (config_subscription, src/src/app/mod.rs:    *)
(* 514).  Assumed of it: after a write it looks at the file, and then      *)
(* sends all of it, also when it is what was sent last.  One that sent     *)
(* nothing then would leave in use a change whose write failed or was      *)
(* written over by an older one.                                           *)
(*                                                                         *)
(* An action is its position in Action::ALL, a chord its normalized form.  *)
(***************************************************************************)
EXTENDS Integers, Sequences, FiniteSets

CONSTANTS
    Chords,                  \* the chords a user may press
    DefaultChord,            \* Action::default_chord, a sequence over Chords
    Plus, Minus, Delete,     \* the chords the editor keeps for itself
    ClearMin, ClearMax, Step,\* CLIPBOARD_CLEAR_RANGE and _STEP
    StoredChords,            \* what the shortcuts file may hold, Unset for a missing entry
    StoredClears,            \* what the timeout file may hold
    MaxChanges               \* bound: changes made in the editor or to the file

Actions == 1..Len(DefaultChord)
Unset == "unset"
None == 0

ASSUME PreferencesAssumption ==
    /\ DefaultChord \in Seq(Chords)
    /\ \A a, b \in Actions : a # b => DefaultChord[a] # DefaultChord[b]
    /\ {Plus, Minus, Delete} \subseteq Chords /\ Unset \notin Chords
    /\ StoredChords \subseteq [Actions -> Chords \union {Unset}] /\ StoredClears \subseteq Nat
    /\ ClearMin \in Nat /\ ClearMax \in Nat /\ ClearMin < ClearMax
    /\ Step \in Nat \ {0} /\ MaxChanges \in Nat

VARIABLES
    prefs,     \* model.prefs
    open,      \* view.mode is Mode::Preferences
    rebinding, \* the action that waits for a chord, or None
    saves,     \* the running jobs: what each writes, and what it writes next
    file,
    changed,   \* the watcher has not yet looked at the last write
    loads,     \* the PrefsLoaded on their way
    changes,   \* changes made so far
    failed     \* history: a write failed

editor == <<open, rebinding>>
store == <<saves, file, changed>>
vars == <<prefs, editor, store, loads, changes, failed>>

----------------------------------------------------------------------------
(* Preferences::validated *)
Clamped(secs) == IF secs < ClearMin THEN ClearMin ELSE IF secs > ClearMax THEN ClearMax ELSE secs

\* mutant: compared with every other action, the later ones too
ApartFromAll(stored) ==
    [a \in Actions |->
        IF stored[a] # Unset /\ \A b \in Actions \ {a} : stored[b] # stored[a]
        THEN stored[a] ELSE DefaultChord[a]]

ChordsInOrder(stored) ==
    LET chord[a \in Actions] ==
            IF stored[a] # Unset /\ \A b \in 1..(a - 1) : chord[b] # stored[a]
            THEN stored[a] ELSE DefaultChord[a]
    IN chord

Validated(p) == [clear |-> Clamped(p.clear), chords |-> ChordsInOrder(p.chords)]

(* Preferences::action_for and conflict: the first in the order of ALL *)
ActionsFor(chord) == {a \in Actions : prefs.chords[a] = chord}
First(actions) == CHOOSE a \in actions : \A b \in actions : a <= b
NoConflict(a, chord) == ActionsFor(chord) \subseteq {a}

----------------------------------------------------------------------------
Init ==
    /\ file \in [clear : StoredClears, chords : StoredChords]
    /\ prefs = Validated(file)
    /\ open = FALSE /\ rebinding = None
    /\ saves = {} /\ changed = FALSE /\ loads = <<>> /\ changes = 0
    /\ failed = FALSE

(* save_prefs: what a change comes to is applied, and saved if it is one. *)
SavePrefs(p) ==
    LET next == Validated(p)
    IN  IF next = prefs THEN UNCHANGED <<prefs, saves, changes>>
        ELSE /\ changes < MaxChanges /\ changes' = changes + 1
             /\ prefs' = next
             /\ saves' = saves \union {[no |-> changes, want |-> next, key |-> "clear"]}

AdjustClear(delta) ==
    LET next == prefs.clear + delta
    IN  SavePrefs([prefs EXCEPT !.clear = IF next < 0 THEN 0 ELSE next])

(* ChordCaptured: a chord another action has is turned down. *)
Captured(chord) ==
    IF NoConflict(rebinding, chord)
    THEN rebinding' = None /\ SavePrefs([prefs EXCEPT !.chords[rebinding] = chord])
    ELSE UNCHANGED <<rebinding, prefs, saves, changes>>

ResetShortcuts == SavePrefs([prefs EXCEPT !.chords = DefaultChord])

StartRebind(a) == rebinding' = a /\ UNCHANGED <<prefs, saves, changes>>

Outside == UNCHANGED <<file, changed, loads, failed>>

(* preferences_key: the editor's own keys come before the rows. *)
PressWhileOpen(chord) ==
    \/ chord = Delete /\ ResetShortcuts /\ UNCHANGED rebinding
    \/ chord = Plus /\ AdjustClear(Step) /\ UNCHANGED rebinding
    \/ chord = Minus /\ AdjustClear(-Step) /\ UNCHANGED rebinding
    \/ /\ chord \notin {Delete, Plus, Minus} /\ ActionsFor(chord) # {}
       /\ StartRebind(First(ActionsFor(chord)))

Press(chord) ==
    /\ open /\ UNCHANGED open /\ Outside
    /\ \/ rebinding = None /\ PressWhileOpen(chord)
       \/ rebinding # None /\ Captured(chord)

(* The editor's buttons work while a row waits for its chord, too. *)
Click ==
    /\ open /\ UNCHANGED open /\ Outside
    /\ \/ \E delta \in {Step, -Step} : AdjustClear(delta) /\ UNCHANGED rebinding
       \/ ResetShortcuts /\ UNCHANGED rebinding
       \/ \E a \in Actions : StartRebind(a)

OpenPreferences ==
    /\ ~open /\ open' = TRUE /\ rebinding' = None
    /\ UNCHANGED <<prefs, store, loads, changes, failed>>

(* Escape first gives the rebinding up; Back and Hide leave at once. *)
Escape ==
    /\ open /\ rebinding # None /\ rebinding' = None
    /\ UNCHANGED <<open, prefs, store, loads, changes, failed>>
Leave ==
    /\ open /\ open' = FALSE /\ rebinding' = None
    /\ UNCHANGED <<prefs, store, loads, changes, failed>>

----------------------------------------------------------------------------
(* A job of SavePreferences writes one file after the other. *)
WritesNext(job) ==
    /\ file' = [file EXCEPT ![job.key] = job.want[job.key]]
    /\ changed' = TRUE
    /\ saves' = (saves \ {job}) \union
                    (IF job.key = "clear" THEN {[job EXCEPT !.key = "chords"]} ELSE {})
    /\ UNCHANGED <<prefs, editor, loads, changes, failed>>

(* A failure is logged, and the job is over. *)
WriteFails(job) ==
    /\ saves' = saves \ {job} /\ failed' = TRUE
    /\ UNCHANGED <<prefs, editor, file, changed, loads, changes>>

(* cosmic-config's watcher: it reads the file some time after a write, and *)
(* sends it whatever it has sent before.                                   *)
Watched ==
    /\ changed /\ changed' = FALSE
    /\ loads' = Append(loads, file)
    /\ UNCHANGED <<prefs, editor, saves, file, changes, failed>>

(* PrefsLoaded *)
LoadUnlessEditing(p) ==     \* mutant: an open editor is left alone
    UNCHANGED saves /\ prefs' = IF open THEN prefs ELSE Validated(p)
ApplyLoaded(p) == prefs' = Validated(p) /\ UNCHANGED saves

PrefsLoaded ==
    /\ loads # <<>> /\ loads' = Tail(loads)
    /\ ApplyLoaded(Head(loads))
    /\ UNCHANGED <<editor, file, changed, changes, failed>>

(* The user's editor, or a dotfile manager. *)
EditFile ==
    /\ changes < MaxChanges /\ changes' = changes + 1
    /\ \/ \E secs \in StoredClears : file' = [file EXCEPT !.clear = secs]
       \/ \E stored \in StoredChords : file' = [file EXCEPT !.chords = stored]
    /\ changed' = TRUE
    /\ UNCHANGED <<prefs, editor, saves, loads, failed>>

Next ==
    \/ \E chord \in Chords : Press(chord)
    \/ Click \/ OpenPreferences \/ Escape \/ Leave
    \/ \E job \in saves : WritesNext(job) \/ WriteFails(job)
    \/ Watched \/ PrefsLoaded \/ EditFile

Spec == Init /\ [][Next]_vars

(* The jobs, the watcher and the update loop run; nobody has to press a key. *)
FairSpec ==
    /\ Spec
    /\ WF_vars(\E job \in saves : WritesNext(job) \/ WriteFails(job))
    /\ WF_vars(Watched) /\ WF_vars(PrefsLoaded)

----------------------------------------------------------------------------
Quiet == saves = {} /\ ~changed /\ loads = <<>>

(* The variables are of their types: what is in use, and what a job        *)
(* writes, is valid; what is read need not be.                             *)
ValidPrefs == [clear : ClearMin..ClearMax, chords : [Actions -> Chords]]
StoredPrefs == [clear : Nat, chords : [Actions -> Chords \union {Unset}]]
Jobs == [no : 0..MaxChanges, want : ValidPrefs, key : {"clear", "chords"}]

TypeOK ==
    /\ prefs \in ValidPrefs
    /\ open \in BOOLEAN /\ rebinding \in Actions \union {None} /\ (rebinding # None => open)
    /\ saves \subseteq Jobs
    /\ file \in StoredPrefs /\ changed \in BOOLEAN /\ loads \in Seq(StoredPrefs)
    /\ changes \in 0..MaxChanges /\ failed \in BOOLEAN

(* Once nothing is under way and no write failed, the preferences in use   *)
(* are those a restart would load: neither a reordered job nor a load that *)
(* came after a newer change leaves the two apart.                         *)
SettledIsStored == Quiet /\ ~failed => prefs = Validated(file)

(* A captured chord goes to the row that waited for it and to no other:    *)
(* validating the whole map, as every save does, takes no other chord.     *)
RebindTakesOneRow ==
    [][\A a \in Actions, chord \in Chords :
          rebinding = a /\ Press(chord) /\ rebinding' = None =>
              prefs'.chords = [prefs.chords EXCEPT ![a] = chord]]_vars

(* Nothing done in the editor, and no save, makes two actions share a chord:*)
(* only a file that already gave a default away does (see ChordsDiffer).   *)
ChordsStayApart ==
    [][\A a, b \in Actions :
          a # b /\ prefs'.chords[a] = prefs'.chords[b] =>
              prefs.chords[a] = prefs.chords[b] \/ PrefsLoaded]_vars

(* The keyboard survives the editor: both of the above.                    *)
KeymapIsKept == RebindTakesOneRow /\ ChordsStayApart

(* Loads and saves do not keep one another going.                          *)
PrefsSettle == []<>Quiet

----------------------------------------------------------------------------
(* What the code does not keep; the README tells each counterexample.      *)

(* No two actions share a chord: the later one could not be reached.       *)
(* validated falls back to a default that may itself be taken.             *)
ChordsDiffer == \A a, b \in Actions : a # b => prefs.chords[a] # prefs.chords[b]

(* Pressing the chord a row shows is how the row is reached (preferences_key). *)
RowsAreReached ==
    open /\ rebinding = None => \A a \in Actions :
        prefs.chords[a] \notin {Plus, Minus, Delete} /\ First(ActionsFor(prefs.chords[a])) = a
=============================================================================
