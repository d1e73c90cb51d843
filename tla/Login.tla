-------------------------------- MODULE Login -------------------------------
(***************************************************************************)
(* A sign-in in full.  Session takes `pass-cli login` in two steps, asked  *)
(* and answered; here are the steps between: the process and its two       *)
(* pipes, the task that reads them (run_streaming_inner,                   *)
(* src/src/pass/runner.rs), the channel of lines and the stream of         *)
(* messages made of it (login_stream, src/src/runtime.rs), and the link    *)
(* and the panel the reducer makes of those.                               *)
(*                                                                         *)
(* Everything else of the session is Session's, step by step, and that the *)
(* whole keeps Session's specification is a property: what Session assumes *)
(* of a sign-in, that it is answered, is shown here.                       *)
(*                                                                         *)
(* A line is the number it has in its pipe.  Whether it carries a link is  *)
(* chosen where the reducer looks for one.                                 *)
(***************************************************************************)
EXTENDS Naturals, Sequences, FiniteSets

CONSTANTS
    Accounts, NoAccount, MaxCalls, LoadSlots,
    SignIns,      \* bound: the sign-ins there may be at once
    MaxLines,     \* bound: lines a process prints
    PipeSize,     \* lines a pipe holds before the process has to wait
    ChannelSize   \* lines the channel holds before the task has to wait

ASSUME LoginAssumption ==
    /\ IsFiniteSet(SignIns) /\ ChannelSize \in Nat \ {0}
    /\ NoAccount \notin Accounts /\ MaxCalls \in Nat

VARIABLES
    session, dataAccount, data, disk, probes, refreshes, asker, loads, pending,
    inFlight,     \* StartLogin effects whose stream has not finished
    loginUrl,     \* Model.login_url, as whether there is one
    signIn        \* each sign-in: its process, its task, its channel

S == INSTANCE Session WITH logins <- inFlight

sessionVars == <<session, dataAccount, data, disk, probes, refreshes, asker, loads, pending>>
vars == <<sessionVars, inFlight, loginUrl, signIn>>

----------------------------------------------------------------------------
Pipes == {"stdout", "stderr"}

None == [phase |-> "none"]

(* The task has been spawned and not run yet.  Two fields only record: how  *)
(* many lines of each pipe the task has taken, and what the reducer has     *)
(* been told of it.                                                         *)
Fresh ==
    [phase |-> "spawned", result |-> "none",
     printed |-> [p \in Pipes |-> 0], pipe |-> [p \in Pipes |-> <<>>],
     open |-> [p \in Pipes |-> TRUE], done |-> {}, broken |-> {}, sending |-> <<>>,
     channel |-> <<>>, taken |-> [p \in Pipes |-> 0], told |-> [p \in Pipes |-> <<>>]]

(* s takes the place of the sign-in of slot i, and nothing else changes. *)
Becomes(i, s) ==
    /\ signIn' = [signIn EXCEPT ![i] = s]
    /\ UNCHANGED <<sessionVars, inFlight, loginUrl>>

Reading(s) == s.phase = "reading"
Waiting(s) == s.phase = "waiting"

----------------------------------------------------------------------------
(* The process, and whatever it has started, which shares its pipes. *)

Prints(i, p) ==
    LET s == signIn[i]
    IN  /\ s.phase \in {"reading", "waiting"} /\ s.open[p]
        /\ s.printed["stdout"] + s.printed["stderr"] < MaxLines /\ Len(s.pipe[p]) < PipeSize
        /\ Becomes(i, [s EXCEPT !.printed[p] = @ + 1, !.pipe[p] = Append(@, s.printed[p] + 1)])

(* The last holder of the pipe closes it: pass-cli, or a browser it opened. *)
Closes(i, p) ==
    LET s == signIn[i]
    IN  /\ s.phase \in {"reading", "waiting"} /\ s.open[p]
        /\ Becomes(i, [s EXCEPT !.open[p] = FALSE])

----------------------------------------------------------------------------
(* run_streaming_inner. *)

(* It returns, and all it holds goes: the ends of the pipes, a line it has  *)
(* not sent, and the process group if it still runs.                        *)
Over(s, result) ==
    [s EXCEPT !.phase = "ended", !.result = result, !.sending = <<>>, !.done = {},
              !.pipe = [p \in Pipes |-> <<>>], !.open = [p \in Pipes |-> FALSE]]

Spawns(i) ==
    /\ signIn[i].phase = "spawned"
    /\ Becomes(i, [signIn[i] EXCEPT !.phase = "reading"])

SpawnFails(i) ==
    /\ signIn[i].phase = "spawned"
    /\ Becomes(i, Over(signIn[i], "failed"))

(* select! takes a line from whichever pipe has one, and waits until the    *)
(* channel has room for it before it looks at either again.  A pipe that is *)
(* done is not looked at again.                                             *)
LineReady(s, p) == Reading(s) /\ s.sending = <<>> /\ p \notin s.done /\ s.pipe[p] # <<>>
EndReady(s, p) ==
    Reading(s) /\ s.sending = <<>> /\ p \notin s.done /\ s.pipe[p] = <<>> /\ ~s.open[p]
SendReady(s) == Reading(s) /\ s.sending # <<>> /\ Len(s.channel) < ChannelSize

ReadsLine(i, p) ==
    LET s == signIn[i]
    IN  /\ LineReady(s, p)
        /\ Becomes(i, [s EXCEPT !.pipe[p] = Tail(@), !.taken[p] = @ + 1,
                                !.sending = <<[from |-> p, nr |-> Head(s.pipe[p])]>>])

SendsLine(i) ==
    LET s == signIn[i]
    IN  /\ SendReady(s)
        /\ Becomes(i, [s EXCEPT !.sending = <<>>, !.channel = @ \o s.sending])

(* The end of a pipe.  The loop is left when both have ended. *)
OneDone(done) == done # {}     \* mutant: || for &&
AllDone(done) == done = Pipes

Done(s, p) ==
    [s EXCEPT !.done = @ \cup {p}, !.phase = IF AllDone(s.done \cup {p}) THEN "waiting" ELSE @]

ReadsEnd(i, p) ==
    /\ EndReady(signIn[i], p)
    /\ Becomes(i, Done(signIn[i], p))

(* A line that is not UTF-8 is an error, and so is a read that fails: the   *)
(* arm `_` takes either for the end, though the pipe is open and has more.  *)
(* What is left in it, and what is printed to it later, nobody reads: to    *)
(* the task it is a closed pipe, and pass-cli may wait on it for good, as   *)
(* it may anyway.                                                           *)
ReadFails(i, p) ==
    LET s == signIn[i]
    IN  /\ Reading(s) /\ s.sending = <<>> /\ p \notin s.done
        /\ Becomes(i, [Done(s, p) EXCEPT !.broken = @ \cup {p}, !.pipe[p] = <<>>, !.open[p] = FALSE])

(* The process has exited, long ago or only now, and its status is read.    *)
(* It need never come to that.                                              *)
ChildWaited(i, status) ==
    /\ Waiting(signIn[i])
    /\ Becomes(i, Over(signIn[i], status))

(* What the task does when it is run, and what may happen to it, which need *)
(* never happen.                                                            *)
TaskRuns(i) ==
    \/ Spawns(i) \/ SpawnFails(i) \/ SendsLine(i)
    \/ \E p \in Pipes : ReadsLine(i, p) \/ ReadsEnd(i, p)

AppMoves(i) == TaskRuns(i) \/ \E p \in Pipes : ReadFails(i, p)

(* LOGIN_TIMEOUT, 300 s over the loop and the wait together.  It may come   *)
(* at any of their moments: a line that waits for room in the channel goes  *)
(* with the future, and so do those still in the pipes.                     *)
OverTheWait(s) == Waiting(s)     \* mutant: only over child.wait
OverAll(s) == Reading(s) \/ Waiting(s)

TimesOut(i) ==
    /\ OverAll(signIn[i])
    /\ Becomes(i, Over(signIn[i], "timeout"))

----------------------------------------------------------------------------
(* The stream of messages, and what the reducer does with each. *)

StartLogin(i) ==
    /\ signIn[i] = None
    /\ signIn' = [signIn EXCEPT ![i] = Fresh]
    /\ loginUrl' = FALSE
    /\ S!StartLogin

(* LoginLine: the first link of a sign-in is kept. *)
LoginLine(i, link) ==
    LET s == signIn[i]
    IN  /\ s.phase # "none" /\ s.channel # <<>>
        /\ signIn' = [signIn EXCEPT ![i] =
                         [s EXCEPT !.channel = Tail(@), !.told[Head(s.channel).from] = Append(@, Head(s.channel).nr)]]
        /\ loginUrl' = (loginUrl \/ link)
        /\ UNCHANGED <<sessionVars, inFlight>>

(* LoginFinished: chained after the last line. *)
LinkKept(url) == url     \* mutant: cleared only by the next sign-in
LinkCleared(url) == FALSE

LoginFinished(i) ==
    /\ signIn[i].phase = "ended" /\ signIn[i].channel = <<>>
    /\ signIn' = [signIn EXCEPT ![i] = None]
    /\ loginUrl' = LinkCleared(loginUrl)
    /\ S!LoginFinished(signIn[i].result = "ok")

StreamMoves(i) == LoginFinished(i) \/ \E link \in BOOLEAN : LoginLine(i, link)

----------------------------------------------------------------------------
(* The rest of the session: Session's other steps.  F5 and copies are left  *)
(* out: a probe asks for the listing, and their errors are those of its.    *)
Probed == UNCHANGED <<inFlight, loginUrl, signIn>> /\ S!ProbeAnswered
Listed == UNCHANGED <<inFlight, loginUrl, signIn>> /\ S!ListingAnswered
Elsewhere ==
    /\ UNCHANGED <<inFlight, loginUrl, signIn>>
    /\ S!LoadAnswered \/ S!Startup

Init ==
    /\ S!Init
    /\ loginUrl = FALSE
    /\ signIn = [i \in SignIns |-> None]

Next ==
    \/ \E i \in SignIns :
          \/ StartLogin(i) \/ AppMoves(i) \/ TimesOut(i) \/ StreamMoves(i)
          \/ \E p \in Pipes : Prints(i, p) \/ Closes(i, p)
          \/ \E status \in {"ok", "failed"} : ChildWaited(i, status)
    \/ Probed \/ Listed \/ Elsewhere

(* The task runs, the stream is polled, and 300 s go by, whatever the task  *)
(* does meanwhile.  The process need do nothing, and no read need fail.     *)
Fairness ==
    /\ \A i \in SignIns : WF_vars(TaskRuns(i)) /\ WF_vars(TimesOut(i)) /\ WF_vars(StreamMoves(i))
    /\ WF_vars(Probed) /\ WF_vars(Listed)

Spec == Init /\ [][Next]_vars /\ Fairness

----------------------------------------------------------------------------
(* view/status.rs: the panel that stands in for the list, and what it       *)
(* offers to press.  Checking has it while there are no items, which a      *)
(* cached or a fetched listing may have none of either: it is taken to have *)
(* it always.                                                               *)
Panel ==
    session.state \in {"SignedOut", "LoggingIn", "Locked", "CliMissing", "Error", "Checking"}

Offers ==
    {b \in {"sign in", "try again", "link"} :
        CASE b = "sign in" -> S!CanStartLogin
          [] b = "try again" -> session.state \in {"Locked", "CliMissing", "Error"}
          [] OTHER -> loginUrl}

----------------------------------------------------------------------------
(* The whole sign-in keeps Session's specification, its fairness included:  *)
(* every sign-in is answered, though pass-cli may hang, print nothing, or   *)
(* leave its pipes to a browser that never closes them.                     *)
SessionKept == S!Spec

(* What the reducer has been told of a pipe is at every moment its first    *)
(* lines, in their order and with no gap.  When it is told of the end it    *)
(* has been told of every line the task took, unless the 300 s ended it;    *)
(* and of every line that was printed to a pipe, unless a line of that very *)
(* pipe could not be read.  So an unreadable line of one pipe costs the     *)
(* other nothing, and of its own none before it.                            *)
FirstLines(told) == told = [n \in 1..Len(told) |-> n]

LinesAreTold ==
    \A i \in SignIns :
        LET s == signIn[i]
            told(p) == Len(s.told[p])
        IN  /\ s # None => \A p \in Pipes : FirstLines(s.told[p])
            /\ s.phase = "ended" /\ s.channel = <<>> /\ s.result # "timeout" =>
                   \A p \in Pipes :
                       /\ told(p) = s.taken[p]
                       /\ p \notin s.broken => told(p) = s.printed[p]

(* What does not hold: that every line has been told whatever ends a        *)
(* sign-in.  A read that fails and the timeout leave lines behind.          *)
EveryLineArrives ==
    \A i \in SignIns :
        signIn[i].phase = "ended" /\ signIn[i].channel = <<>> =>
            \A p \in Pipes : Len(signIn[i].told[p]) = signIn[i].printed[p]

(* The panel is never a dead end: where it has no button, a probe or a      *)
(* sign-in is under way that will replace it, and the link it shows is that *)
(* of a sign-in that is.                                                    *)
PanelIsAlive ==
    /\ Panel /\ Offers = {} => probes + inFlight > 0
    /\ loginUrl => inFlight > 0
=============================================================================
