------------------------------ MODULE ItemKeys ------------------------------
(***************************************************************************)
(* The keys of the listed items (ItemKey, src/src/model.rs), by which the  *)
(* parts of the window name the same item.                                 *)
(***************************************************************************)
CONSTANT Keys
=============================================================================
