------------------------------ MODULE CopyFlow ------------------------------
(***************************************************************************)
(* Copying from the launcher window (src/src/core/state.rs): the window,   *)
(* the one fetch it waits for, the values handed to the clipboard helper,  *)
(* and the notices that say what went wrong.                               *)
(*                                                                         *)
(* A copy is a fetch, then a hand-off, then the helper's confirmation; all *)
(* three answers are messages.  A fetch that is cancelled may have         *)
(* resolved already, and then still delivers its value.  An answer names   *)
(* the item it is for, not the fetch.                                      *)
(*                                                                         *)
(* Fetches are told apart here by an id the code does not have; stopped    *)
(* says by what a fetch was cancelled, and window in which opening of the  *)
(* window a value was handed over.  Both are history, nothing reads them   *)
(* but properties.                                                         *)
(***************************************************************************)
EXTENDS Naturals, ItemKeys

CONSTANTS
    NoCopy,       \* Option::None for view.pending
    MaxCopies,    \* bound: copies asked for
    MaxWindows,   \* bound: times the window opens
    MaxNotices    \* bound: notices shown by other handlers than these

ASSUME CopyFlowAssumption ==
    /\ MaxCopies \in Nat /\ MaxWindows \in Nat /\ MaxNotices \in Nat

VARIABLES
    visible,      \* view.visible
    window,       \* how often the window was opened
    pending,      \* view.pending
    copying,      \* view.copying
    fetches,      \* FetchAndCopy and FetchTotpAndCopy effects in flight
    handoffs,     \* Copy effects, in flight or answered
    notice,       \* the id of view.notice, 0 for None
    nextNotice,   \* next_notice
    timers,       \* ExpireNotice effects that sleep
    nextCopy      \* copies asked for

copyVars == <<visible, window, pending, copying, fetches, handoffs, notice, nextNotice, timers,
          nextCopy>>

----------------------------------------------------------------------------
Pending(id, key, secret) == [id |-> id, key |-> key, secret |-> secret]

(* cancel_pending: the token of the pending fetch is fired. *)
Stopped(by) ==
    {[f EXCEPT !.stopped = IF pending # NoCopy /\ f.id = pending.id THEN by ELSE @] : f \in fetches}

CancelPending(by) == pending' = NoCopy /\ fetches' = Stopped(by)

(* take_if: an answer for the pending item ends the wait. *)
TakeNothing == UNCHANGED pending     \* mutant: it is only looked at
TakePending == pending' = NoCopy

(* notify: a notice of its own number, and the timer that expires it. *)
Notify ==
    /\ nextNotice' = nextNotice + 1
    /\ notice' = nextNotice'
    /\ timers' = timers \cup {nextNotice'}

(* hide: the view is a new one. *)
HideView ==
    /\ CancelPending("hide")
    /\ visible' = FALSE
    /\ copying' = FALSE
    /\ notice' = 0

----------------------------------------------------------------------------
CopyInit ==
    /\ visible = FALSE /\ window = 0
    /\ pending = NoCopy /\ copying = FALSE
    /\ fetches = {} /\ handoffs = {}
    /\ notice = 0 /\ nextNotice = 0 /\ timers = {}
    /\ nextCopy = 0

(* show, when the window is closed. *)
Show ==
    /\ ~visible /\ window < MaxWindows
    /\ visible' = TRUE
    /\ window' = window + 1
    /\ UNCHANGED <<pending, copying, fetches, handoffs, notice, nextNotice, timers, nextCopy>>

(* hide: the toggle chord, D-Bus, a lost focus, Escape from the list. *)
Hide ==
    /\ HideView
    /\ UNCHANGED <<window, handoffs, nextNotice, timers, nextCopy>>

(* Escape while a copy waits for its fetch. *)
EscapePending ==
    /\ pending # NoCopy
    /\ CancelPending("escape")
    /\ UNCHANGED <<visible, window, copying, handoffs, notice, nextNotice, timers, nextCopy>>

NewCopy == nextCopy' = nextCopy + 1

(* start_copy, of a secret or of a plain field.  Keys reach an open window. *)
StartCopy(key, secret) ==
    LET id == nextCopy + 1
    IN  /\ visible /\ nextCopy < MaxCopies
        /\ NewCopy
        /\ pending' = Pending(id, key, secret)
        /\ fetches' = Stopped("copy") \cup
              {[id |-> id, key |-> key, secret |-> secret, stopped |-> "no"]}
        /\ UNCHANGED <<visible, window, copying, handoffs, notice, nextNotice, timers>>

(* CopyFetched: the answer to f, by the item it names. *)
CopyAwaited(f) == pending # NoCopy /\ pending.key = f.key

CopyIgnored(f) ==
    /\ f \in fetches /\ ~CopyAwaited(f)
    /\ fetches' = fetches \ {f}
    /\ UNCHANGED <<visible, window, pending, copying, handoffs, notice, nextNotice, timers, nextCopy>>

(* The value goes to the helper, marked as what is pending is marked. *)
CopyFetched(f) ==
    /\ f \in fetches /\ CopyAwaited(f)
    /\ fetches' = fetches \ {f}
    /\ TakePending
    /\ copying' = TRUE
    /\ handoffs' = handoffs \cup
          {[id |-> f.id, secret |-> f.secret, marked |-> pending.secret, stopped |-> f.stopped,
            window |-> window, answered |-> FALSE]}
    /\ UNCHANGED <<visible, window, notice, nextNotice, timers, nextCopy>>

(* Cancelled is silent, any other error is a notice. *)
CopyCancelled(f) ==
    /\ f \in fetches /\ CopyAwaited(f) /\ f.stopped # "no"
    /\ fetches' = fetches \ {f}
    /\ TakePending
    /\ UNCHANGED <<visible, window, copying, handoffs, notice, nextNotice, timers, nextCopy>>

CopyFailed(f) ==
    /\ f \in fetches /\ CopyAwaited(f)
    /\ fetches' = fetches \ {f}
    /\ TakePending
    /\ Notify
    /\ UNCHANGED <<visible, window, copying, handoffs, nextCopy>>

(* CopyFinished: the helper owns the selection, or could not be started. *)
Answered(h) == handoffs' = (handoffs \ {h}) \cup {[h EXCEPT !.answered = TRUE]}

CopyConfirmed(h) ==
    /\ h \in handoffs /\ ~h.answered
    /\ Answered(h)
    /\ IF copying THEN HideView ELSE UNCHANGED <<visible, pending, copying, fetches, notice>>
    /\ UNCHANGED <<window, nextNotice, timers, nextCopy>>

ClipboardUnavailable(h) ==
    /\ h \in handoffs /\ ~h.answered
    /\ Answered(h)
    /\ Notify
    /\ UNCHANGED <<visible, window, pending, copying, fetches, nextCopy>>

(* A notice of another handler of the open window. *)
OtherNotice ==
    /\ visible /\ nextNotice < MaxNotices
    /\ Notify
    /\ UNCHANGED <<visible, window, pending, copying, fetches, handoffs, nextCopy>>

ExpiresAny(n) ==     \* mutant: the notice's id is not compared
    /\ n \in timers
    /\ timers' = timers \ {n}
    /\ notice' = 0
    /\ UNCHANGED <<visible, window, pending, copying, fetches, handoffs, nextNotice, nextCopy>>
NoticeExpired(n) ==
    /\ n \in timers
    /\ timers' = timers \ {n}
    /\ notice' = IF notice = n THEN 0 ELSE notice
    /\ UNCHANGED <<visible, window, pending, copying, fetches, handoffs, nextNotice, nextCopy>>

----------------------------------------------------------------------------
FetchAnswered ==
    \E f \in fetches : CopyIgnored(f) \/ CopyFetched(f) \/ CopyCancelled(f) \/ CopyFailed(f)

HandoffAnswered == \E h \in handoffs : CopyConfirmed(h) \/ ClipboardUnavailable(h)

CopyUserStep ==
    \/ Show \/ Hide \/ EscapePending \/ OtherNotice
    \/ \E key \in Keys, secret \in BOOLEAN : StartCopy(key, secret)

CopyNext ==
    \/ CopyUserStep
    \/ FetchAnswered
    \/ HandoffAnswered
    \/ \E n \in timers : NoticeExpired(n)

(* A fetch ends within FIELD_TIMEOUT, a notice within NOTICE_DURATION, and  *)
(* each runs in a task of its own.                                          *)
NoticeIds == 1..(MaxNotices + 2 * MaxCopies)     \* the bounds allow no more
CopyFairness == WF_copyVars(FetchAnswered) /\ \A n \in NoticeIds : WF_copyVars(NoticeExpired(n))

CopySpec == CopyInit /\ [][CopyNext]_copyVars /\ CopyFairness

----------------------------------------------------------------------------
Stops == {"no", "escape", "hide", "copy"}
Fetches == [id : Nat, key : Keys, secret : BOOLEAN, stopped : Stops]
Handoffs == [id : Nat, secret : BOOLEAN, marked : BOOLEAN, stopped : Stops, window : Nat,
             answered : BOOLEAN]

(* The variables are of their types, and nothing bears a number not given.  *)
CopyTypeOK ==
    /\ visible \in BOOLEAN /\ copying \in BOOLEAN
    /\ window \in Nat /\ nextCopy \in Nat /\ nextNotice \in Nat
    /\ pending \in [id : 1..nextCopy, key : Keys, secret : BOOLEAN] \cup {NoCopy}
    /\ fetches \subseteq Fetches
    /\ handoffs \subseteq Handoffs
    /\ notice \in 0..nextNotice
    /\ timers \subseteq 1..nextNotice

(* A row that says it is busy has its own fetch, not cancelled, in flight:  *)
(* no answer, of whichever fetch, leaves the busy indicator up for good.    *)
BusyHasItsFetch == pending # NoCopy => \E f \in fetches : f.id = pending.id /\ f.stopped = "no"

(* A closed window waits for nothing: it can neither copy nor be closed by  *)
(* a confirmation.                                                          *)
ClosedWindowIsIdle == ~visible => pending = NoCopy /\ ~copying

(* A confirmation closes only a window that itself handed a value over.     *)
OnlyCopyingWindowsClose == copying => \E h \in handoffs : h.window = window

(* Once the window is closed nothing more reaches the clipboard.            *)
NothingCopiedAfterClosing == 
    [][~visible => {h.id : h \in handoffs'} = {h.id : h \in handoffs}]_copyVars

(* A notice on screen has its own timer running. *)
NoticeHasItsTimer == notice # 0 => notice \in timers

(* A notice stays for its own time: it gives way to a newer one, to its own *)
(* timer or to the closing of the window.  The timer of an earlier notice,  *)
(* which still sleeps, does not take it away, nor does any answer.          *)
NoticeKeepsItsTime ==
    [][notice # 0 /\ notice' # notice =>
          notice' > notice \/ (notice \in timers /\ notice \notin timers') \/ ~visible']_copyVars

(* A copy does not stay busy, a notice does not stay. *)
BusyAndNoticesEnd ==
    /\ \A id \in 1..MaxCopies :
          (pending # NoCopy /\ pending.id = id) ~> ~(pending # NoCopy /\ pending.id = id)
    /\ \A n \in NoticeIds : notice = n ~> notice # n

----------------------------------------------------------------------------
(* What the specification and the comments say and the code does not keep. *)

(* Spec 001, FR-016: copied secrets are marked for clipboard managers. *)
SecretsAreMarked == \A h \in handoffs : h.secret => h.marked

(* Spec 001, edge cases: the user can cancel with Escape without the value  *)
(* being copied later.                                                      *)
EscapedIsNotCopied == \A h \in handoffs : h.stopped # "escape"

(* copy_confirmed: a confirmation that arrives after the window was         *)
(* dismissed must not disturb a fresh session.                              *)
FreshWindowUndisturbed ==
    [][\A h \in handoffs : CopyConfirmed(h) /\ visible /\ ~visible' => h.window = window]_copyVars

(* ViewState.copying: a copy is waiting for the helper. *)
CopyingWaitsForHelper == copying => \E h \in handoffs : ~h.answered
=============================================================================
