--------------------------- MODULE ClipboardProofs --------------------------
(***************************************************************************)
(* Theorems about Clipboard, for any timeout and any number of copies.     *)
(*                                                                         *)
(* ClipInv joins the types to what ties the clipboard to its helpers: the  *)
(* owner of the selection serves, a helper that lives was started by a     *)
(* copy that waits for it or watches it, and no clock is past its limit.   *)
(***************************************************************************)
EXTENDS Clipboard, TLAPS

HelperStates == {"none", "started", "armed", "serving", "dead"}
JobStates == {"none", "waiting", "watched"} \cup Ended

Types ==
    /\ up \in BOOLEAN /\ asked \in Nat /\ secret \subseteq Copies
    /\ job \in [Copies -> JobStates]
    /\ helper \in [Copies -> HelperStates]
    /\ age \in [Copies -> Nat]

(* Only a helper that serves is the owner of the selection. *)
OwnerServes == \A c \in Copies : selection = c => helper[c] = "serving"

(* What was not asked for has neither a job nor a helper. *)
Untouched == \A c \in Copies : c > asked => job[c] = "none" /\ helper[c] = "none"

(* No watchdog runs past its limit. *)
WatchdogInTime == \A c \in Copies : age[c] <= Timeout + WATCHDOG_MARGIN

(* While the app runs, a helper that lives has a job that knows it. *)
LivesWatched == up => \A c \in Copies : Alive(c) => job[c] \in {"waiting", "watched"}

(* The watchdog of a value that is not secret never runs. *)
PlainUnlimited == \A c \in Copies \ secret : age[c] = 0

ClipInv ==
    /\ Types /\ OwnerServes /\ Untouched /\ WatchdogInTime /\ LivesWatched
    /\ PlainUnlimited

----------------------------------------------------------------------------
(* A number of a copy is neither of the two other owners. *)
LEMMA CopiesAreNumbers == Copies \subseteq Nat /\ NoOwner \notin Copies /\ Other \notin Copies
BY ClipboardAssumption DEF Copies

(* The death of a helper, with any end of its job, disturbs no other copy.  *)
(* The job of the dead one is free to end.                                  *)
LEMMA DeathKeeps ==
    ASSUME ClipInv, NEW c \in Copies, Dies(c), c <= asked,
           UNCHANGED <<up, asked, secret, age>>,
           \/ UNCHANGED job
           \/ \E how \in JobStates : job' = [job EXCEPT ![c] = how]
    PROVE  ClipInv'
  <1>1. Types'
    BY DEF ClipInv, Types, Dies, HelperStates, JobStates
  <1>2. OwnerServes'
    BY CopiesAreNumbers DEF ClipInv, Types, Dies, OwnerServes
  <1>3. Untouched'
    BY CopiesAreNumbers DEF ClipInv, Types, Dies, Untouched
  <1>4. WatchdogInTime' /\ PlainUnlimited'
    BY DEF ClipInv, WatchdogInTime, PlainUnlimited
  <1>5. LivesWatched'
    <2> SUFFICES ASSUME up', NEW d \in Copies, Alive(d)' PROVE job'[d] \in {"waiting", "watched"}
      BY DEF LivesWatched
    <2>1. d # c
      BY DEF Alive, Dies, ClipInv, Types
    <2>2. Alive(d) /\ up /\ job'[d] = job[d]
      BY <2>1 DEF Alive, Dies, ClipInv, Types
    <2>3. QED
      BY <2>2 DEF ClipInv, LivesWatched
  <1>6. QED
    BY <1>1, <1>2, <1>3, <1>4, <1>5 DEF ClipInv

LEMMA InitClip == Init => ClipInv
  <1> SUFFICES ASSUME Init PROVE ClipInv
    OBVIOUS
  <1>1. Types /\ Untouched /\ LivesWatched
    BY DEF Init, Types, HelperStates, JobStates, Untouched, LivesWatched, Alive
  <1>2. OwnerServes
    BY CopiesAreNumbers DEF Init, OwnerServes
  <1>3. WatchdogInTime /\ PlainUnlimited
    BY ClipboardAssumption DEF Init, WatchdogInTime, WATCHDOG_MARGIN, PlainUnlimited
  <1>4. QED
    BY <1>1, <1>2, <1>3 DEF ClipInv

LEMMA CopyStep ==
    ASSUME ClipInv, NEW c \in Copies, NEW isSecret \in BOOLEAN, Copy(c, isSecret)
    PROVE  ClipInv'
  <1>1. Types'
    BY CopiesAreNumbers DEF ClipInv, Types, Copy, HelperStates, JobStates, Ended, clocks
  <1>2. OwnerServes'
    BY CopiesAreNumbers DEF ClipInv, Types, Copy, OwnerServes, Untouched
  <1>3. Untouched'
    BY CopiesAreNumbers DEF ClipInv, Types, Copy, Untouched
  <1>4. WatchdogInTime' /\ PlainUnlimited'
    BY DEF ClipInv, Copy, WatchdogInTime, PlainUnlimited, clocks
  <1>5. LivesWatched'
    <2> SUFFICES ASSUME NEW d \in Copies, Alive(d)' PROVE job'[d] \in {"waiting", "watched"}
      BY DEF LivesWatched
    <2>1. helper[c] = "none"
      BY CopiesAreNumbers DEF ClipInv, Types, Untouched, Copy
    <2>2. CASE d = c
      BY <2>1, <2>2 DEF ClipInv, Types, Copy, Alive
    <2>3. CASE d # c
      BY <2>3 DEF ClipInv, Types, Copy, Alive, LivesWatched
    <2>4. QED
      BY <2>2, <2>3
  <1>6. QED
    BY <1>1, <1>2, <1>3, <1>4, <1>5 DEF ClipInv

(* A copy that has a job or a helper was asked for. *)
LEMMA TouchedAsked ==
    ASSUME ClipInv, NEW c \in Copies, helper[c] # "none" \/ job[c] # "none"
    PROVE  c <= asked
BY CopiesAreNumbers DEF ClipInv, Types, Untouched

LEMMA AppStepKeeps ==
    ASSUME ClipInv, NEW c \in Copies, AppStep(c)
    PROVE  ClipInv'
  <1>1. CASE ReadyRead(c)
    <2>1. Types' /\ WatchdogInTime' /\ OwnerServes' /\ PlainUnlimited'
      BY <1>1 DEF ClipInv, Types, ReadyRead, JobStates, app, helpers, clocks, WatchdogInTime,
         OwnerServes, PlainUnlimited
    <2>2. Untouched'
      BY <1>1, TouchedAsked, CopiesAreNumbers
         DEF ClipInv, Types, ReadyRead, WaitsReady, app, helpers, Untouched
    <2>3. LivesWatched'
      BY <1>1 DEF ClipInv, Types, ReadyRead, app, helpers, LivesWatched, Alive
    <2>4. QED
      BY <2>1, <2>2, <2>3 DEF ClipInv
  <1>2. CASE ReadyFails(c)
    <2>1. c <= asked
      BY <1>2, TouchedAsked DEF ReadyFails, WaitsReady
    <2>2. Dies(c) /\ UNCHANGED <<up, asked, secret, age>> /\ \E how \in JobStates : job' = [job EXCEPT ![c] = how]
      BY <1>2 DEF ReadyFails, Killed, JobStates, Ended, app, clocks
    <2>3. QED
      BY <2>1, <2>2, DeathKeeps
  <1>3. CASE WatcherEnds(c)
    <2>1. c <= asked
      BY <1>3, TouchedAsked DEF WatcherEnds, Watched
    <2>2. Dies(c) /\ UNCHANGED <<up, asked, secret, age>> /\ \E how \in JobStates : job' = [job EXCEPT ![c] = how]
      BY <1>3 DEF WatcherEnds, JobStates, Ended, app, clocks
    <2>3. QED
      BY <2>1, <2>2, DeathKeeps
  <1>4. QED
    BY <1>1, <1>2, <1>3 DEF AppStep

LEMMA HelperStepKeeps ==
    ASSUME ClipInv, NEW c \in Copies, HelperStep(c)
    PROVE  ClipInv'
  <1>1. c <= asked
    BY TouchedAsked DEF HelperStep, ReadsValue, TakesSelection, WritesReady, HelperFails,
       LosesSelection, WatchdogFires, WatchdogDue
  <1>2. CASE ReadsValue(c) \/ TakesSelection(c)
    <2>1. Types' /\ WatchdogInTime' /\ PlainUnlimited'
      BY <1>2 DEF ClipInv, Types, ReadsValue, TakesSelection, HelperStates, app, jobs, clocks,
         WatchdogInTime, PlainUnlimited
    <2>2. OwnerServes' /\ Untouched'
      BY <1>1, <1>2, CopiesAreNumbers DEF ClipInv, Types, ReadsValue, TakesSelection, app, jobs,
         OwnerServes, Untouched
    <2>3. LivesWatched'
      BY <1>2 DEF ClipInv, Types, ReadsValue, TakesSelection, app, jobs, LivesWatched, Alive
    <2>4. QED
      BY <2>1, <2>2, <2>3 DEF ClipInv
  <1>3. CASE WritesReady(c) /\ up
    BY <1>3 DEF ClipInv, WritesReady, Types, OwnerServes, Untouched, WatchdogInTime, LivesWatched,
       PlainUnlimited, Alive, app, jobs, clocks
  <1>4. CASE (WritesReady(c) /\ ~up) \/ HelperFails(c) \/ LosesSelection(c) \/ WatchdogFires(c)
    <2>1. Dies(c) /\ UNCHANGED <<up, asked, secret, age, job>>
      BY <1>4 DEF WritesReady, HelperFails, LosesSelection, WatchdogFires, app, jobs, clocks
    <2>2. QED
      BY <1>1, <2>1, DeathKeeps
  <1>5. QED
    BY <1>2, <1>3, <1>4 DEF HelperStep

(* The app ends: by itself it takes its helpers along, killed it does not,  *)
(* and no helper is its own any more.                                       *)
LEMMA AppEndKeeps == ClipInv /\ (AppDies \/ AppQuits) => ClipInv'
  <1>1. ASSUME ClipInv, AppDies PROVE ClipInv'
    BY <1>1 DEF ClipInv, AppDies, Types, OwnerServes, Untouched, WatchdogInTime, LivesWatched,
       PlainUnlimited, jobs, helpers, clocks
  <1>2. ASSUME ClipInv, AppQuits PROVE ClipInv'
    <2>1. Types' /\ WatchdogInTime' /\ LivesWatched' /\ PlainUnlimited'
      BY <1>2 DEF ClipInv, AppQuits, Types, HelperStates, WatchdogInTime, LivesWatched,
         PlainUnlimited, jobs, clocks
    <2>2. OwnerServes' /\ Untouched'
      BY <1>2, CopiesAreNumbers DEF ClipInv, AppQuits, Types, OwnerServes, Untouched, Alive, jobs
    <2>3. QED
      BY <2>1, <2>2 DEF ClipInv
  <1>3. QED
    BY <1>1, <1>2

(* A second is not let by while a watchdog is due. *)
LEMMA SecondKeeps == ClipInv /\ SecondPasses => ClipInv'
  <1> SUFFICES ASSUME ClipInv, SecondPasses PROVE ClipInv'
    OBVIOUS
  <1>0. Timeout + WATCHDOG_MARGIN \in Nat
    BY ClipboardAssumption DEF WATCHDOG_MARGIN
  <1>1. \A c \in Copies : /\ age'[c] \in Nat
                          /\ age'[c] <= Timeout + WATCHDOG_MARGIN
    <2> TAKE c \in Copies
    <2>1. /\ age[c] \in Nat /\ age[c] <= Timeout + WATCHDOG_MARGIN
          /\ helper[c] \in HelperStates
      BY DEF ClipInv, Types, WatchdogInTime
    <2>2. age'[c] = IF WatchdogRuns(c) /\ age[c] <= Timeout + WATCHDOG_MARGIN
                    THEN age[c] + 1 ELSE age[c]
      BY DEF SecondPasses, Elapsed
    <2>3. CASE WatchdogRuns(c)
      <3>1. ~(age[c] >= Timeout + WATCHDOG_MARGIN)
        BY <2>3 DEF SecondPasses, WatchdogDue, WatchdogRuns
      <3>2. QED
        BY <1>0, <2>1, <2>2, <3>1
    <2>4. CASE ~WatchdogRuns(c)
      BY <2>1, <2>2, <2>4
    <2>5. QED
      BY <2>3, <2>4
  <1>2. age' \in [Copies -> Nat]
    BY <1>1 DEF SecondPasses, Elapsed
  <1>3. UNCHANGED <<up, asked, secret, job, helper, selection>>
    BY DEF SecondPasses, app, jobs, helpers
  <1>4. PlainUnlimited'
    BY <1>3 DEF ClipInv, PlainUnlimited, SecondPasses, Elapsed, WatchdogRuns
  <1>5. QED
    BY <1>1, <1>2, <1>3, <1>4 DEF ClipInv, Types, OwnerServes, Untouched, WatchdogInTime,
       LivesWatched, Alive

LEMMA NextClip == ClipInv /\ [Next]_vars => ClipInv'
  <1> SUFFICES ASSUME ClipInv, [Next]_vars PROVE ClipInv'
    OBVIOUS
  <1>1. CASE \E c \in Copies, isSecret \in BOOLEAN : Copy(c, isSecret)
    BY <1>1, CopyStep
  <1>2. CASE \E c \in Copies : AppStep(c) \/ HelperStep(c)
    BY <1>2, AppStepKeeps, HelperStepKeeps
  <1>3. CASE OtherCopies
    BY <1>3, CopiesAreNumbers DEF OtherCopies, ClipInv, Types, OwnerServes, Untouched,
       WatchdogInTime, LivesWatched, PlainUnlimited, Alive, app, jobs, clocks
  <1>4. CASE AppDies \/ AppQuits
    BY <1>4, AppEndKeeps
  <1>5. CASE SecondPasses
    BY <1>5, SecondKeeps
  <1>6. CASE UNCHANGED vars
    BY <1>6 DEF ClipInv, Types, OwnerServes, Untouched, WatchdogInTime, LivesWatched,
       PlainUnlimited, Alive, vars, app, jobs, helpers, clocks
  <1>7. QED
    BY <1>1, <1>2, <1>3, <1>4, <1>5, <1>6 DEF Next

(* The invariant the theorems below are read off. *)
THEOREM ClipboardInvariant == Spec => []ClipInv
  <1>1. QED
    BY InitClip, NextClip, PTL DEF Spec

(* SC-005: a secret is off the clipboard a second after its timeout, whether *)
(* the app that copied it still runs, was killed or has ended.               *)
THEOREM SecretsExpire == Spec => []SecretExpires
  <1>1. ClipInv => SecretExpires
    BY DEF ClipInv, Types, SecretExpires, WatchdogInTime
  <1>2. QED
    BY <1>1, ClipboardInvariant, PTL

(* Who owns the clipboard is a helper that serves it: none is left to a      *)
(* helper that was killed, failed or never came up.                          *)
THEOREM OwnersServe == Spec => []OwnerServes
  <1>1. ClipInv => OwnerServes
    BY DEF ClipInv
  <1>2. QED
    BY <1>1, ClipboardInvariant, PTL

(* While the app runs it knows every helper there is, and nothing reported   *)
(* as failed is on the clipboard.                                            *)
THEOREM HelpersWatched == Spec => []HelpersAreWatched
  <1>1. ClipInv => HelpersAreWatched
    BY DEF ClipInv, HelpersAreWatched, LivesWatched, OwnerServes, Alive
  <1>2. QED
    BY <1>1, ClipboardInvariant, PTL

(* What may empty the clipboard of c: its copy giving up, its watcher, which *)
(* reports it replaced, the end of the app, or its helper failing.           *)
LEMMA OwnerGivesUp ==
    ASSUME ClipInv, [Next]_vars, NEW c \in Copies \ secret, selection = c, selection' = NoOwner
    PROVE  \/ c \in cancelled \/ ~up' \/ WaitsReady(c)
           \/ HelperFails(c) /\ age[c] = 0
  <1>1. c \in Copies /\ helper[c] = "serving" /\ age[c] = 0 /\ NoOwner # c /\ Other # NoOwner
    BY CopiesAreNumbers, ClipboardAssumption DEF ClipInv, OwnerServes, PlainUnlimited
  <1>2. ASSUME NEW d \in Copies, Dies(d) PROVE d = c
    BY <1>1, <1>2 DEF Dies
  <1>3. CASE \E d \in Copies, isSecret \in BOOLEAN : Copy(d, isSecret)
    BY <1>1, <1>3 DEF Copy
  <1>4. CASE \E d \in Copies : ReadyRead(d)
    BY <1>1, <1>4 DEF ReadyRead, helpers
  <1>5. CASE \E d \in Copies : ReadyFails(d)
    BY <1>2, <1>5 DEF ReadyFails, Killed
  <1>6. CASE \E d \in Copies : WatcherEnds(d)
    BY <1>1, <1>2, <1>6 DEF WatcherEnds, DeadlineDue, Limited
  <1>7. CASE \E d \in Copies : ReadsValue(d) \/ TakesSelection(d)
    BY <1>1, <1>7, CopiesAreNumbers DEF ReadsValue, TakesSelection
  <1>8. CASE \E d \in Copies : WritesReady(d)
    BY <1>1, <1>8 DEF WritesReady, app
  <1>9. CASE \E d \in Copies : HelperFails(d)
    <2>1. PICK d \in Copies : HelperFails(d)
      BY <1>9
    <2>2. d = c
      BY <1>2, <2>1 DEF HelperFails
    <2>3. QED
      BY <1>1, <2>1, <2>2
  <1>9a. CASE \E d \in Copies : LosesSelection(d) \/ WatchdogFires(d)
    BY <1>1, <1>2, <1>9a DEF LosesSelection, WatchdogFires, WatchdogDue
  <1>10. CASE OtherCopies
    BY <1>1, <1>10 DEF OtherCopies
  <1>11. CASE AppDies \/ AppQuits
    BY <1>11 DEF AppDies, AppQuits
  <1>12. CASE SecondPasses \/ UNCHANGED vars
    BY <1>1, <1>12 DEF SecondPasses, vars, helpers
  <1>13. QED
    BY <1>3, <1>4, <1>5, <1>6, <1>7, <1>8, <1>9, <1>9a, <1>10, <1>11, <1>12
       DEF Next, AppStep, HelperStep

(* No timer takes a value that is not secret off the clipboard: it is gone   *)
(* without a successor only when a newer copy cancelled it, the app ends,    *)
(* its copy gives up waiting for the ready line, or its helper fails.        *)
THEOREM PlainValuesStay == Spec => PlainValueStays
  <1>1. ClipInv /\ [Next]_vars =>
           [\A c \in Copies \ secret :
               selection = c /\ selection' = NoOwner =>
                  \/ c \in cancelled \/ ~up' \/ WaitsReady(c)
                  \/ HelperFails(c) /\ age[c] = 0]_vars
    BY OwnerGivesUp
  <1>2. QED
    BY <1>1, ClipboardInvariant, PTL DEF Spec, PlainValueStays
=============================================================================
