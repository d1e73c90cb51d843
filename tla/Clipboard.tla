----------------------------- MODULE Clipboard -----------------------------
(***************************************************************************)
(* The clipboard helpers (src/src/clipboard/mod.rs, serve.rs).             *)
(*                                                                         *)
(* Each copy runs a helper that takes the selection and serves it until    *)
(* another client takes it or the helper is killed.  copy_inner is async   *)
(* and takes no lock but for the moment it reads or sets the current job,  *)
(* so copies overlap; a task watches each helper that became ready.  The   *)
(* app may die and leave its helpers behind.                               *)
(*                                                                         *)
(* Copies are numbered as they are asked for.  Time goes by in seconds: a  *)
(* second does not pass while a timer is due.                              *)
(***************************************************************************)
EXTENDS Naturals

CONSTANTS
    NoOwner,       \* nothing is copied
    Other,         \* another client owns the selection
    Timeout,       \* the seconds after which a secret is cleared
    MaxCopies      \* bound: copies

ASSUME ClipboardAssumption ==
    /\ NoOwner # Other /\ NoOwner \notin Nat /\ Other \notin Nat
    /\ Timeout \in Nat /\ Timeout > 0
    /\ MaxCopies \in Nat

VARIABLES
    up,          \* the app runs
    asked,       \* copies asked for
    secret,      \* those of them that are secret
    job,         \* the app's side of a copy
    current,     \* HelperClipboard.current
    cancelled,   \* jobs whose token was cancelled
    helper,      \* the helper of a copy
    ready,       \* helpers that wrote their ready line
    selection,   \* who owns the clipboard
    waited,      \* seconds wait_ready has waited
    age,         \* seconds the helper's watchdog has run
    timer        \* seconds the watcher's deadline has run

app == <<up, asked, secret>>
jobs == <<job, current, cancelled>>
helpers == <<helper, ready, selection>>
clocks == <<waited, age, timer>>
vars == <<app, jobs, helpers, clocks>>

----------------------------------------------------------------------------
Copies == 1..MaxCopies

READY_TIMEOUT == 3
WATCHDOG_MARGIN == 1

Watched(c) == up /\ job[c] = "watched"
WaitsReady(c) == up /\ job[c] = "waiting"
Alive(c) == helper[c] \in {"started", "armed", "serving"}

(* A helper that dies takes its selection with it, if it still has it. *)
Dies(c) ==
    /\ helper' = [helper EXCEPT ![c] = "dead"]
    /\ selection' = IF selection = c THEN NoOwner ELSE selection

(* watchdog_delay: only a secret copy is limited in time. *)
NoWatchdog(c) == FALSE     \* mutant: the helper relies on the app
WatchdogDue(c) ==
    /\ c \in secret /\ helper[c] \in {"armed", "serving"}
    /\ age[c] >= Timeout + WATCHDOG_MARGIN

AlwaysLimited(c) == TRUE     \* mutant: any copy has a deadline
Limited(c) == c \in secret
DeadlineDue(c) == Watched(c) /\ Limited(c) /\ timer[c] >= Timeout

ReadyNeverDue(c) == FALSE     \* mutant: wait_ready waits for ever
ReadyDue(c) == WaitsReady(c) /\ waited[c] >= READY_TIMEOUT

Init ==
    /\ up = TRUE /\ asked = 0 /\ secret = {}
    /\ job = [c \in Copies |-> "none"] /\ current = 0 /\ cancelled = {}
    /\ helper = [c \in Copies |-> "none"] /\ ready = {}
    /\ selection \in {NoOwner, Other}
    /\ waited = [c \in Copies |-> 0]
    /\ age = [c \in Copies |-> 0]
    /\ timer = [c \in Copies |-> 0]

----------------------------------------------------------------------------
(* copy_inner, up to the ready line: the current job is taken and cancelled *)
(* before anything can fail.                                                *)
Copy(c, isSecret) ==
    /\ up /\ c = asked + 1
    /\ asked' = c
    /\ secret' = IF isSecret THEN secret \cup {c} ELSE secret
    /\ cancelled' = IF current = 0 THEN cancelled ELSE cancelled \cup {current}
    /\ current' = 0
    /\ \/ /\ job' = [job EXCEPT ![c] = "waiting"]
          /\ helper' = [helper EXCEPT ![c] = "started"]
       \/ job' = [job EXCEPT ![c] = "failed"] /\ UNCHANGED helper
    /\ UNCHANGED <<up, ready, selection, clocks>>

(* wait_ready reads the line: the job is current, whichever was.           *)
ReadyRead(c) ==
    /\ WaitsReady(c) /\ c \in ready
    /\ job' = [job EXCEPT ![c] = "watched"]
    /\ current' = c
    /\ UNCHANGED <<app, cancelled, helpers, clocks>>

(* No line, or not in time: the helper is killed. *)
NotKilled(c) == UNCHANGED <<helper, selection>>     \* mutant: the helper is left to itself
Killed(c) == Dies(c)

ReadyFails(c) ==
    /\ WaitsReady(c)
    /\ ReadyDue(c) \/ (helper[c] = "dead" /\ c \notin ready)
    /\ job' = [job EXCEPT ![c] = "failed"]
    /\ Killed(c)
    /\ UNCHANGED <<app, current, cancelled, ready, clocks>>

(* The watcher's select!: any of the branches that are ready.              *)
WatcherEnds(c) ==
    /\ Watched(c)
    /\ \/ helper[c] = "dead" /\ job' = [job EXCEPT ![c] = "OwnershipLost"]
       \/ DeadlineDue(c) /\ job' = [job EXCEPT ![c] = "Cleared"]
       \/ c \in cancelled /\ job' = [job EXCEPT ![c] = "Replaced"]
    /\ Dies(c)
    /\ UNCHANGED <<app, current, cancelled, ready, clocks>>

(* The app is killed, and its helpers are not. *)
AppDies ==
    /\ up /\ up' = FALSE
    /\ UNCHANGED <<asked, secret, jobs, helpers, clocks>>

(* The app ends: its helpers are killed as they are dropped. *)
AppQuits ==
    /\ up /\ up' = FALSE
    /\ helper' = [c \in Copies |-> IF Alive(c) THEN "dead" ELSE helper[c]]
    /\ selection' = IF selection \in Copies THEN NoOwner ELSE selection
    /\ UNCHANGED <<asked, secret, jobs, ready, clocks>>

----------------------------------------------------------------------------
(* serve: the value is read and the watchdog started, then the selection is *)
(* taken, then the line written.                                            *)
ReadsValue(c) ==
    /\ helper[c] = "started"
    /\ helper' = [helper EXCEPT ![c] = "armed"]
    /\ UNCHANGED <<app, jobs, ready, selection, clocks>>

TakesSelection(c) ==
    /\ helper[c] = "armed"
    /\ helper' = [helper EXCEPT ![c] = "serving"]
    /\ selection' = c
    /\ UNCHANGED <<app, jobs, ready, clocks>>

(* The line goes to a pipe nobody reads once the app has died: the helper *)
(* gives up.                                                              *)
WritesReady(c) ==
    /\ helper[c] = "serving" /\ c \notin ready
    /\ IF up THEN ready' = ready \cup {c} /\ UNCHANGED <<helper, selection>>
             ELSE Dies(c) /\ UNCHANGED ready
    /\ UNCHANGED <<app, jobs, clocks>>

(* No data-control protocol, an empty or unreadable value, an error; and of *)
(* serve(), once the line is written: the selection goes with its helper.   *)
HelperFails(c) ==
    /\ helper[c] \in {"started", "armed"} \/ (helper[c] = "serving" /\ c \in ready)
    /\ Dies(c)
    /\ UNCHANGED <<app, jobs, ready, clocks>>

LosesSelection(c) ==
    /\ helper[c] = "serving" /\ selection # c
    /\ Dies(c)
    /\ UNCHANGED <<app, jobs, ready, clocks>>

WatchdogFires(c) ==
    /\ WatchdogDue(c)
    /\ Dies(c)
    /\ UNCHANGED <<app, jobs, ready, clocks>>

----------------------------------------------------------------------------
(* Another client copies something. *)
OtherCopies ==
    /\ selection # Other /\ selection' = Other
    /\ UNCHANGED <<app, jobs, helper, ready, clocks>>

(* A clock is of use up to a second past its limit, and bounded by it. *)
Elapsed(clock, runs(_), limit) ==
    [c \in Copies |-> IF runs(c) /\ clock[c] <= limit THEN clock[c] + 1 ELSE clock[c]]
WatchdogRuns(c) == c \in secret /\ helper[c] \in {"armed", "serving"}
DeadlineRuns(c) == Watched(c) /\ Limited(c)

SecondPasses ==
    /\ \A c \in Copies : ~WatchdogDue(c) /\ ~DeadlineDue(c) /\ ~ReadyDue(c)
    /\ waited' = Elapsed(waited, WaitsReady, READY_TIMEOUT)
    /\ age' = Elapsed(age, WatchdogRuns, Timeout + WATCHDOG_MARGIN)
    /\ timer' = Elapsed(timer, DeadlineRuns, Timeout)
    /\ UNCHANGED <<app, jobs, helpers>>

AppStep(c) == ReadyRead(c) \/ ReadyFails(c) \/ WatcherEnds(c)
HelperStep(c) ==
    \/ ReadsValue(c) \/ TakesSelection(c) \/ WritesReady(c)
    \/ HelperFails(c) \/ LosesSelection(c) \/ WatchdogFires(c)

Next ==
    \/ \E c \in Copies, isSecret \in BOOLEAN : Copy(c, isSecret)
    \/ \E c \in Copies : AppStep(c) \/ HelperStep(c)
    \/ OtherCopies
    \/ AppDies \/ AppQuits
    \/ SecondPasses

(* The app's tasks and the watchdog run when their time has come, and time *)
(* passes.  Nothing is asked of a helper, nor of other clients.            *)
Fairness ==
    /\ \A c \in Copies : WF_vars(AppStep(c)) /\ WF_vars(WatchdogFires(c))
    /\ WF_vars(SecondPasses)

Spec == Init /\ [][Next]_vars /\ Fairness

----------------------------------------------------------------------------
Ended == {"failed", "OwnershipLost", "Cleared", "Replaced"}

(* The variables are of their types. *)
TypeOK ==
    /\ up \in BOOLEAN /\ asked \in 0..MaxCopies /\ secret \subseteq 1..asked
    /\ job \in [Copies -> {"none", "waiting", "watched"} \cup Ended]
    /\ current \in 0..asked /\ cancelled \subseteq 1..asked
    /\ helper \in [Copies -> {"none", "started", "armed", "serving", "dead"}]
    /\ ready \subseteq 1..asked
    /\ selection \in Copies \cup {NoOwner, Other}
    /\ waited \in [Copies -> 0..READY_TIMEOUT]
    /\ age \in [Copies -> 0..(Timeout + WATCHDOG_MARGIN)]
    /\ timer \in [Copies -> 0..Timeout]

(* A secret is off the clipboard a second after the timeout, whether or not *)
(* the app is still there to clear it (SC-005).  The watchdog has run for   *)
(* at least as long as the secret is there.                                 *)
SecretExpires ==
    \A c \in secret : selection = c => age[c] <= Timeout + WATCHDOG_MARGIN

(* While the app runs no helper is left to itself: the copy waits for it or *)
(* a task watches it.  A copy that is reported as failed is not on the      *)
(* clipboard.                                                               *)
HelpersAreWatched ==
    up => \A c \in Copies : Alive(c) \/ selection = c => job[c] \in {"waiting", "watched"}

(* No timer takes a value that is not secret off the clipboard, neither the *)
(* watcher's nor the helper's own (serve.rs: it stays until another client  *)
(* replaces it).  It is gone without a successor only when a newer copy has *)
(* cancelled it, the app ends, its copy gives up waiting for the ready line *)
(* (the value may be there by then), or the helper fails to serve it, with  *)
(* no watchdog run.                                                         *)
PlainValueStays ==
    [][\A c \in Copies \ secret :
          selection = c /\ selection' = NoOwner =>
             \/ c \in cancelled \/ ~up' \/ WaitsReady(c)
             \/ HelperFails(c) /\ age[c] = 0]_vars

(* Every copy is reported as done or as failed, and a secret does not stay. *)
CopiesSettle ==
    \A c \in Copies :
        /\ WaitsReady(c) ~> ~WaitsReady(c)
        /\ (c \in secret /\ selection = c) ~> selection # c

----------------------------------------------------------------------------
(* data-model.md: only one job at a time, a new copy kills the previous     *)
(* helper first.  So what was copied first never replaces what was copied   *)
(* after it.                                                                *)
NewestCopyStays ==
    [][(selection \in Copies) /\ (selection' \in Copies) => (selection' >= selection)]_vars
=============================================================================
