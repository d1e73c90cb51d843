-------------------------------- MODULE View --------------------------------
(***************************************************************************)
(* The launcher window as the user meets it (ViewState and its handlers,   *)
(* src/src/core/state.rs): the field list of FieldList and the copy flow   *)
(* of CopyFlow in one view, which one hide throws away.                    *)
(*                                                                         *)
(* Every action is a whole handler and joins what it does to the two       *)
(* halves.  Escape, a confirmed copy and a lost focus reach both; a copy   *)
(* is asked for from a row of the item the view is on; what fails in the   *)
(* field list is told in the same notice as what fails in a copy.          *)
(***************************************************************************)
EXTENDS FieldList, CopyFlow

view == <<vars, copyVars>>

----------------------------------------------------------------------------
ViewInit == Init /\ CopyInit

(* show resets nothing: hide has. *)
ShowWindow == Show /\ UNCHANGED vars

(* hide: both halves of the view are thrown away. *)
HideFieldsLeft == Hide /\ mode' = ListMode     \* mutant: the reveal is forgotten
                  /\ UNCHANGED <<items, revealed, revealCancel, totpCancel, nextReveal,
                                 totpCalls, reveals, totps, clock>>
HideWindow == Hide /\ Leave

(* escape, one level at a time: the pending copy, the list, the window. *)
EscapeCopy == EscapePending /\ UNCHANGED vars
EscapeMode ==
    /\ visible /\ pending = NoCopy /\ mode # ListMode
    /\ Leave
    /\ UNCHANGED copyVars
EscapeWindow ==
    /\ visible /\ pending = NoCopy /\ mode = ListMode
    /\ HideWindow

(* Back, from the list or from the preferences. *)
Back == visible /\ mode # ListMode /\ Leave /\ UNCHANGED copyVars

(* The other keys of the field list; keys reach an open window.             *)
ListKey ==
    /\ visible
    /\ \/ \E k \in Keys : OpenActions(k)
       \/ OpenPreferences
       \/ \E delta \in Deltas : MoveSelection(delta)
       \/ ToggleReveal
    /\ UNCHANGED copyVars

(* copy_with and ActivateAction: the target item is that of the open list,  *)
(* else a listed one, and what is copied is a row it has.  Preferences      *)
(* take no copy key.                                                        *)
Target(k) ==
    /\ Listed(k)
    /\ mode.name = "List" \/ InActions(k)

RowIsSecret(k, row) == row.code \/ items[k].fields[row.at] \in Secrets

CopyRow(k) ==
    /\ Target(k)
    /\ \E n \in DOMAIN Rows(items[k]) :
          StartCopy(k, RowIsSecret(k, Rows(items[k])[n]))
    /\ UNCHANGED vars

NothingToCopy == (\E k \in Keys : Target(k)) /\ OtherNotice /\ UNCHANGED vars

(* copy_fetched: an error that says the session is signed out clears the    *)
(* data with the reveal.                                                    *)
CopyFetchEnds(f) ==
    \/ (CopyIgnored(f) \/ CopyFetched(f) \/ CopyCancelled(f)) /\ UNCHANGED vars
    \/ CopyFailed(f) /\ (UNCHANGED vars \/ ListingCleared)

(* copy_confirmed closes the window only while a copy is waited for. *)
Confirmed(h) ==
    /\ CopyConfirmed(h)
    /\ IF copying THEN Leave ELSE UNCHANGED vars

Unconfirmed(h) == ClipboardUnavailable(h) /\ UNCHANGED vars

(* RevealFetched and TotpFetched: what fails is told in a notice, what was  *)
(* cancelled is not.                                                        *)
FieldAnswered ==
    \/ /\ \/ \E f \in reveals : RevealLate(f) \/ RevealArrived(f) \/ RevealFailed(f, TRUE)
          \/ \E f \in totps :
                \/ TotpLate(f)
                \/ TotpFailed(f) /\ f.cancelled
                \/ \E made \in f.since..clock, has \in BOOLEAN : TotpArrived(f, made, has)
       /\ UNCHANGED copyVars
    \/ /\ (\E f \in reveals : RevealFailed(f, FALSE)) \/ (\E f \in totps : TotpFailed(f))
       /\ OtherNotice

(* The session half: a listing or the cache file arrives, or goes. *)
DataChanged ==
    /\ (\E listing \in Listings : ListingReplaced(listing)) \/ ListingCleared
    /\ UNCHANGED copyVars

(* The subscription ticks while the window is open and shows a code.        *)
TimePasses ==
    \/ visible /\ Tick /\ UNCHANGED copyVars
    \/ SecondPasses /\ UNCHANGED copyVars
    \/ (\E n \in timers : NoticeExpired(n)) /\ UNCHANGED vars

ViewNext ==
    \/ ShowWindow \/ HideWindow
    \/ EscapeCopy \/ EscapeMode \/ EscapeWindow \/ Back
    \/ ListKey
    \/ (\E k \in Keys : CopyRow(k)) \/ NothingToCopy
    \/ \E f \in fetches : CopyFetchEnds(f)
    \/ \E h \in handoffs : Confirmed(h) \/ Unconfirmed(h)
    \/ FieldAnswered
    \/ DataChanged
    \/ TimePasses

ViewSpec == ViewInit /\ [][ViewNext]_view

----------------------------------------------------------------------------
(* Types, and what each half says of its own. *)
ViewTypeOK == TypeOK /\ CopyTypeOK

(* A closed window shows nothing, fetches nothing for its list and waits    *)
(* for no copy that could act on the next window, however it was closed: by *)
(* a key, by a lost focus, or by a copy confirmed while a secret was        *)
(* revealed or on its way (spec 001 FR-003, spec 002 FR-103).               *)
ClosedWindowIsMasked ==
    ~visible =>
        /\ mode = ListMode /\ revealed = Nothing
        /\ \A f \in reveals \cup totps : f.cancelled
        /\ pending = NoCopy /\ ~copying
=============================================================================
