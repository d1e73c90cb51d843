----------------------------- MODULE MCLauncher -----------------------------
(***************************************************************************)
(* Launcher on three items, of which a query finds two and ranks them       *)
(* against their titles; listings lose, reorder and bring back items.       *)
(***************************************************************************)
EXTENDS Launcher, TLC

MCTitle == <<2, 1, 3>>
MCInTitle == [w |-> <<1, 0, 2>>]
MCInOthers == [w |-> <<3, 0, 0>>]
MCStored == {(3 :> 0)}
MCListings == {<<1, 2, 3>>, <<3, 1>>}
=============================================================================
