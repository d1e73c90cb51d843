------------------------------- MODULE Runner -------------------------------
(***************************************************************************)
(* Running pass-cli: at most MAX_CONCURRENT processes, one at a time until *)
(* one has come back (src/src/pass/runner.rs), and the calls of a listing, *)
(* which are made at once and stand or fall together                       *)
(* (src/src/pass/backend.rs, list_all).                                    *)
(*                                                                         *)
(* A call waits for a permit, then, on a profile where pass-cli has never  *)
(* run, for the warm-up guard, then for its process.  Both waits are first *)
(* come, first served (tokio's Semaphore and Mutex).  Sign-in takes        *)
(* neither.  Time goes by in seconds: none passes while a call can go on.  *)
(***************************************************************************)
EXTENDS Naturals, FiniteSets

CONSTANTS
    Listed,           \* the item list calls of one listing, one for each vault
    Single,           \* the other calls, each made once
    MAX_CONCURRENT,
    Timeout           \* seconds a process may take

ASSUME RunnerAssumption ==
    /\ Listed \cap Single = {} /\ 0 \notin Listed \cup Single
    /\ IsFiniteSet(Listed) /\ IsFiniteSet(Single)
    /\ MAX_CONCURRENT \in Nat /\ MAX_CONCURRENT > 0
    /\ Timeout \in Nat /\ Timeout > 0

VARIABLES
    call,        \* where each call is
    fired,       \* calls whose token was cancelled
    permits,     \* free permits of the semaphore
    warm,        \* a pass-cli process has come back
    warmup,      \* the call that holds the warm-up guard, 0 for none
    login,       \* pass-cli login is running
    ahead,       \* the calls it found and those made with it: it waits behind them
    since,       \* seconds since it was made
    ran          \* seconds its process has run

locks == <<permits, warm, warmup>>
clocks == <<ahead, since, ran>>
vars == <<call, fired, locks, login, clocks>>

----------------------------------------------------------------------------
Calls == Listed \cup Single

Holding == {c \in Calls : call[c] \in {"warmup", "running"}}
Running == {c \in Calls : call[c] = "running"}
Pending == {c \in Calls : call[c] \in {"permit", "warmup", "running"}}

Init ==
    /\ call = [c \in Calls |-> "none"] /\ fired = {}
    /\ permits = MAX_CONCURRENT
    /\ warm \in BOOLEAN /\ warmup = 0
    /\ login = FALSE
    /\ ahead = [c \in Calls |-> {}]
    /\ since = [c \in Calls |-> 0]
    /\ ran = [c \in Calls |-> 0]

(* What a call holds is dropped with it, and it waits no more. *)
PermitKept(S) == permits' = permits + Cardinality(S \cap Running)     \* mutant: lost by calls in the warm-up queue
PermitReturned(S) == permits' = permits + Cardinality(S \cap Holding)

GuardReturned(S) == warmup' = IF warmup \in S THEN 0 ELSE warmup

End(S, how) ==
    /\ call' = [c \in Calls |-> IF c \in S THEN how ELSE call[c]]
    /\ PermitReturned(S)
    /\ GuardReturned(S)

(* try_join_all: a listing whose call failed drops the calls that are left. *)
FallsWith(c) == IF c \in Listed THEN {c} \cup (Listed \cap Pending) ELSE {c}

----------------------------------------------------------------------------
Ask(S) ==
    /\ S # {} /\ \A c \in S : call[c] = "none"
    /\ call' = [c \in Calls |-> IF c \in S THEN "permit" ELSE call[c]]
    /\ ahead' = [c \in Calls |-> IF c \in S THEN (Pending \cup S) \ {c} ELSE ahead[c]]
    /\ UNCHANGED <<fired, locks, login, since, ran>>

Cancel(c) ==
    /\ c \in Pending \ fired
    /\ fired' = fired \cup {c}
    /\ UNCHANGED <<call, locks, login, clocks>>

(* The next of those that wait where c does.  Calls come to the guard in the *)
(* order of their permits, and so in that in which they were made.          *)
Anyone(c) == TRUE     \* mutant: whoever comes
FirstInLine(c) == \A d \in Calls \ {c} : call[d] = call[c] => c \in ahead[d]

(* The semaphore, then warmup_guard's first look at warm. *)
TakePermit(c) ==
    /\ call[c] = "permit" /\ FirstInLine(c) /\ permits > 0
    /\ permits' = permits - 1
    /\ call' = [call EXCEPT ![c] = IF warm THEN "running" ELSE "warmup"]
    /\ UNCHANGED <<fired, warm, warmup, login, clocks>>

(* The guard, then the second look: it is held while the process runs, and *)
(* dropped at once when another call has finished meanwhile.               *)
GuardDropped(c) == warmup' = 0     \* mutant: dropped before the process runs
GuardHeld(c) == warmup' = IF warm THEN 0 ELSE c

TakeWarmup(c) ==
    /\ call[c] = "warmup" /\ FirstInLine(c) /\ warmup = 0
    /\ GuardHeld(c)
    /\ call' = [call EXCEPT ![c] = "running"]
    /\ UNCHANGED <<fired, permits, warm, login, clocks>>

(* The process does not start: spawn fails as it is reached. *)
SpawnFails(c) ==
    /\ c \in Running /\ ran[c] = 0
    /\ End(FallsWith(c), "failed")
    /\ UNCHANGED <<fired, warm, login, clocks>>

(* The process comes back, whatever its status: pass-cli is warm. *)
Succeeds(c) ==
    /\ c \in Running
    /\ End({c}, "ok")
    /\ warm' = TRUE
    /\ UNCHANGED <<fired, login, clocks>>

Fails(c) ==
    /\ c \in Running
    /\ End(FallsWith(c), "failed")
    /\ warm' = TRUE
    /\ UNCHANGED <<fired, login, clocks>>

(* Timed out or cancelled, the process group is killed, and says nothing of *)
(* whether pass-cli is warm.                                                *)
NeverDue(c) == FALSE     \* mutant: a process may take for ever
Due(c) == c \in Running /\ ran[c] >= Timeout

TimesOut(c) ==
    /\ Due(c)
    /\ End(FallsWith(c), "timeout")
    /\ UNCHANGED <<fired, warm, login, clocks>>

IsCancelled(c) ==
    /\ c \in Pending \cap fired
    /\ End({c}, "cancelled")
    /\ UNCHANGED <<fired, warm, login, clocks>>

(* run_streaming: neither permit nor guard. *)
StartLogin == ~login /\ login' = TRUE /\ UNCHANGED <<call, fired, locks, clocks>>
EndLogin ==
    /\ login /\ login' = FALSE
    /\ warm' \in {warm, TRUE}     \* killed after its timeout, or back by itself
    /\ UNCHANGED <<call, fired, permits, warmup, clocks>>

GoesOn(c) == TakePermit(c) \/ TakeWarmup(c) \/ TimesOut(c) \/ IsCancelled(c)
Answers(c) == Succeeds(c) \/ Fails(c) \/ SpawnFails(c)

(* bound: a clock stops a second past the most it may come to. *)
Patience(c) == Timeout * (Cardinality(ahead[c]) + 1)

SecondPasses ==
    /\ \A c \in Calls : ~Due(c) /\ c \notin Pending \cap fired
    /\ (\E c \in Calls : call[c] = "permit") => permits = 0
    /\ (\E c \in Calls : call[c] = "warmup") => warmup # 0
    /\ since' = [c \in Calls |-> IF c \in Pending /\ since[c] <= Patience(c) THEN since[c] + 1 ELSE since[c]]
    /\ ran' = [c \in Calls |-> IF c \in Running /\ ran[c] <= Timeout THEN ran[c] + 1 ELSE ran[c]]
    /\ UNCHANGED <<call, fired, locks, login, ahead>>

Next ==
    \/ Ask(Listed) \/ \E c \in Single : Ask({c}) \/ Cancel(c)
    \/ \E c \in Calls : GoesOn(c) \/ Answers(c)
    \/ StartLogin \/ EndLogin
    \/ SecondPasses

(* Tasks that can go on do, and time passes; no process need ever answer. *)
Fairness == (\A c \in Calls : WF_vars(GoesOn(c))) /\ WF_vars(SecondPasses)

Spec == Init /\ [][Next]_vars /\ Fairness

----------------------------------------------------------------------------
Ended == {"ok", "failed", "timeout", "cancelled"}

(* The variables are of their types. *)
TypeOK ==
    /\ call \in [Calls -> {"none", "permit", "warmup", "running"} \cup Ended]
    /\ fired \subseteq Single
    /\ permits \in 0..MAX_CONCURRENT
    /\ warm \in BOOLEAN /\ warmup \in Calls \cup {0} /\ login \in BOOLEAN
    /\ ahead \in [Calls -> SUBSET Calls]
    /\ since \in [Calls -> Nat] /\ ran \in [Calls -> 0..Timeout]

(* Every permit is free or held by a call that is waiting for the guard or  *)
(* for its process: none is lost with a call that was cancelled or dropped  *)
(* on the way, so the limit of four does not shrink.                        *)
PermitsAreConserved == permits + Cardinality(Holding) = MAX_CONCURRENT

(* Until pass-cli has come back once its processes run one at a time, and   *)
(* the one that runs holds the guard.                                       *)
ColdRunsAlone == ~warm => \A c \in Running : warmup = c

(* A listing's calls stand or fall together: none runs on for a listing     *)
(* that has failed.                                                         *)
ListingFallsWhole ==
    \A c \in Listed : call[c] \in {"failed", "timeout"} => Listed \cap Pending = {}

(* No call waits longer than the calls that were there before it could take. *)
WaitsForThoseBefore == \A c \in Pending : since[c] <= Patience(c)

(* Every call is answered. *)
CallsEnd == \A c \in Calls : c \in Pending ~> c \notin Pending

----------------------------------------------------------------------------
(* What the documents and comments say and the code does not keep. *)

(* contracts/pass-cli.md: at most 4 processes at once. *)
LimitHolds == Cardinality(Running) + (IF login THEN 1 ELSE 0) <= MAX_CONCURRENT

(* CommandRunner::run fails with Timeout after its timeout. *)
AnsweredInTime == \A c \in Pending : since[c] <= Timeout
=============================================================================
