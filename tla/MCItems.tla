------------------------------ MODULE MCItems ------------------------------
(* Items on a small instance: items of every kind, whose names clash in     *)
(* every way parse.rs tells apart, and in case, as custom fields and as the *)
(* pin of a credit card.  Three entries where only custom fields or only    *)
(* members can clash, two where the layout is what differs.                 *)
EXTENDS Items

MCNames == {<<"PIN">>, <<"pin">>, <<"totp">>, <<"One", "PIN">>}
MCLowerCase == ("PIN" :> "pin") @@ ("One" :> "one") @@ ("Two" :> "two")
MCTitlings == {<<<<>>, <<>>>>, <<<<"One">>, <<"Two">>>>, <<<<"One">>, <<"One">>>>}
MCMembers == {"username", "email", "password", "totp_uri", "number", "pin",
              "full_name", "company", "ssid", "private_key", "note"}
MCKinds == {"Login", "CreditCard", "Identity", "Wifi", "SshKey", "Custom", "Note", "Alias"}
MCMaxEntries == [kind \in MCKinds |-> IF kind \in {"Login", "Custom"} THEN 3 ELSE 2]
=============================================================================
