---------------------------- MODULE MCPreferences ----------------------------
(* Three actions of Action::ALL in their order, and chords enough for each  *)
(* to lose its own to another; the timeout has three values.               *)
EXTENDS Preferences

Three == <<"ctrl+u", "ctrl+l", "ctrl+shift+s">>
Own == {"+", "-", "delete"}
Pressed == {"ctrl+u", "ctrl+l", "ctrl+shift+s"} \union Own

\* What this version writes, what a hand may leave, and a file from before
\* there was the second action, whose default has been given away since.
AnyStored == {Three, <<"ctrl+u", "ctrl+u", "ctrl+l">>, <<"ctrl+l", "unset", "ctrl+shift+s">>}
=============================================================================
