------------------------------ MODULE Surface ------------------------------
(***************************************************************************)
(* Showing and hiding the popup (src/src/app/surface.rs, src/src/app/mod.rs *)
(* and Show, Hide and Toggle of src/src/core/state.rs).                    *)
(*                                                                         *)
(* The reducer has view.visible, the adapter surface.visible: an effect    *)
(* carries the one to the other, and may be refused.  Requests come from   *)
(* the shortcut (which starts a cosmic-pass that activates this one over   *)
(* D-Bus), from the command line and from the keyboard; the compositor     *)
(* reports focus.  What is under way to the app is handled in any order.   *)
(*                                                                         *)
(* owed is history: what the last request should have led to.              *)
(***************************************************************************)
CONSTANTS
    Prompt     \* an activation arrives within TOGGLE_DEBOUNCE of the press

ASSUME SurfaceAssumption == Prompt \in BOOLEAN

VARIABLES
    visible,     \* model.view.visible
    shown,       \* surface.visible
    measuring,   \* surface.pending_show is set
    recent,      \* surface.last_hide is less than TOGGLE_DEBOUNCE ago
    focused,     \* the compositor gave the popup the keyboard
    inbox,       \* requests and events on their way to the app
    owed

window == <<visible, shown, measuring, recent>>
vars == <<window, focused, inbox, owed>>

Init ==
    /\ visible \in BOOLEAN /\ shown = visible /\ measuring = shown
    /\ recent = FALSE /\ focused = FALSE /\ inbox = {}
    /\ owed = "none"

----------------------------------------------------------------------------
(* run_effect, Effect::ShowWindow: refused just after a hide. *)
RefusedOnly == UNCHANGED <<shown, measuring, recent>> /\ visible' = TRUE     \* mutant: the reducer is not told
Refused == UNCHANGED <<shown, measuring, recent>> /\ visible' = FALSE

OpenSurface ==
    \/ recent /\ Refused
    \/ ~recent /\ visible' = TRUE /\ shown' = TRUE /\ measuring' = ~shown /\ UNCHANGED recent

ShowWindow == IF visible THEN UNCHANGED window ELSE OpenSurface

(* Msg::Hide and Effect::HideWindow: hiding what is hidden does not count. *)
MeasureDropped == measuring' = FALSE

HideWindow ==
    /\ visible' = FALSE
    /\ IF shown THEN shown' = FALSE /\ recent' = TRUE /\ MeasureDropped
                ELSE UNCHANGED <<shown, recent, measuring>>

ToggleAlways == IF visible THEN HideWindow ELSE ShowWindow

(* dbus_activation: an activation just after a hide is taken for the one    *)
(* whose press caused the focus loss that hid the window.                   *)
ActivateBlindly ==     \* mutant: the press is not told from another
    IF visible THEN HideWindow
    ELSE visible' = TRUE /\ shown' = TRUE /\ measuring' = TRUE /\ UNCHANGED recent
Activate == IF recent THEN UNCHANGED window ELSE ToggleAlways

----------------------------------------------------------------------------
Handled(msg) == msg \in inbox /\ inbox' = inbox \ {msg}

(* A hidden popup has no surface, so no focus. *)
FocusFollows == focused' = (focused /\ shown')

OnActivate ==
    /\ Handled("Activate") /\ Activate /\ FocusFollows
    /\ UNCHANGED owed
OnShow ==
    /\ Handled("Show") /\ ShowWindow /\ FocusFollows
    /\ UNCHANGED owed
OnHide ==
    /\ Handled("Hide") /\ HideWindow /\ FocusFollows
    /\ UNCHANGED owed
OnUnfocused ==
    /\ Handled("Unfocused") /\ HideWindow /\ FocusFollows
    /\ UNCHANGED owed
OnFocused ==
    /\ Handled("Focused") /\ measuring' = FALSE
    /\ UNCHANGED <<visible, shown, recent, focused, owed>>

(* Escape in the list, or a copy that is confirmed. *)
Dismiss ==
    /\ shown /\ HideWindow /\ FocusFollows
    /\ owed' = "none"
    /\ UNCHANGED inbox

(* 100 ms after the last hide. *)
DebounceEnds ==
    /\ recent /\ recent' = FALSE
    /\ Prompt => "Activate" \notin inbox
    /\ UNCHANGED <<visible, shown, measuring, focused, inbox, owed>>

----------------------------------------------------------------------------
(* A request is on its way; it owes something if nothing else is.  Bound:  *)
(* one of a kind at a time.                                                *)
Request(msgs, debt) ==
    /\ msgs \cap inbox = {}
    /\ inbox' = inbox \cup msgs
    /\ owed' = IF inbox = {} THEN debt ELSE "none"
    /\ UNCHANGED window

(* The shortcut: the compositor may take the focus away for it. *)
Press ==
    /\ \/ Request({"Activate"}, IF shown THEN "closed" ELSE "none") /\ UNCHANGED focused
       \/ /\ focused /\ focused' = FALSE
          /\ Request({"Activate", "Unfocused"}, IF shown THEN "closed" ELSE "none")

CommandShow == Request({"Show"}, "open") /\ UNCHANGED focused
CommandHide == Request({"Hide"}, "closed") /\ UNCHANGED focused

(* The compositor reports the focus it gave, and that it is gone. *)
GainsFocus ==
    /\ shown /\ ~focused /\ {"Focused", "Unfocused"} \cap inbox = {}
    /\ focused' = TRUE /\ inbox' = inbox \cup {"Focused"}
    /\ UNCHANGED <<window, owed>>
LosesFocus ==
    /\ focused /\ focused' = FALSE
    /\ inbox' = inbox \cup {"Unfocused"}
    /\ owed' = "none"
    /\ UNCHANGED window

Next ==
    \/ OnActivate \/ OnShow \/ OnHide \/ OnUnfocused \/ OnFocused
    \/ Dismiss \/ DebounceEnds
    \/ Press \/ CommandShow \/ CommandHide
    \/ GainsFocus \/ LosesFocus

Spec == Init /\ [][Next]_vars

----------------------------------------------------------------------------
(* The reducer and the surface agree on whether the popup is up, also when  *)
(* an opening was refused: else the next press would close what is closed.  *)
(* And none is up that hid less than 100 ms ago.                            *)
ReducerKnowsSurface == visible = shown /\ ~(shown /\ recent)

(* An opening is measured until its own focus: nothing is left to be        *)
(* charged to a later one (SC-001).                                         *)
MeasuresThisOpening == measuring => shown

(* A press on the open popup, or cosmic-pass hide, leaves it closed: the    *)
(* focus the press took away and the activation it sent do not undo each    *)
(* other, whichever comes first (spec 001, edge cases).                     *)
PressCloses == owed = "closed" /\ inbox = {} => ~shown

(* cli.md: cosmic-pass show shows the window. *)
ShowShows == owed = "open" /\ inbox = {} => shown
=============================================================================
