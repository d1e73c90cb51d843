------------------------------- MODULE MCView -------------------------------
(***************************************************************************)
(* View on one item with a plain field, a secret one and a code, which a   *)
(* listing may no longer carry.                                            *)
(***************************************************************************)
EXTENDS View

CONSTANTS k1, user, password, code

Plain == [fields |-> <<user, password>>, preferred |-> 2, totps |-> <<code>>, modified |-> 1]

MCShapes == {Plain}
MCListings == [{k1} -> MCShapes \cup {Gone}]
=============================================================================
