---------------------------- MODULE MCFieldList ----------------------------
(***************************************************************************)
(* A small instance of FieldList: two items, three fields of which two are *)
(* secret, and listings in which the first item is edited without any      *)
(* visible change, its secret is replaced, its fields and its codes are    *)
(* reordered, or it is gone.                                               *)
(***************************************************************************)
EXTENDS FieldList

CONSTANTS k1, k2, user, password, pin, code, backup

Item(fields, codes, at) ==
    [fields |-> fields, preferred |-> 0, totps |-> codes, modified |-> at]

Plain == Item(<<user, password>>, <<code, backup>>, 1)
Edited == Item(<<user, password>>, <<code, backup>>, 2)
Replaced == Item(<<user, pin>>, <<code>>, 1)
Reordered == Item(<<pin, password>>, <<backup, code>>, 1)
Preferred == [Item(<<pin, user>>, <<>>, 1) EXCEPT !.preferred = 2]

MCShapes == {Plain, Edited, Replaced, Reordered, Preferred}

Listing(one, other) == [k \in {k1, k2} |-> IF k = k1 THEN one ELSE other]

MCListings ==
    {Listing(Plain, Preferred), Listing(Edited, Gone), Listing(Replaced, Preferred),
     Listing(Reordered, Gone), Listing(Gone, Preferred)}
=============================================================================
