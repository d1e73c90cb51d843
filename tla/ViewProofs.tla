----------------------------- MODULE ViewProofs -----------------------------
(***************************************************************************)
(* Theorems about the window and its two halves, for any items, listings,  *)
(* periods and any number of fetches, copies, windows and notices.         *)
(*                                                                         *)
(* The field list first.  Generations are never reused, so at most one     *)
(* fetch in flight carries the number of the revealed target               *)
(* (RevealNumbers), that fetch is for the very field the target pins       *)
(* (RevealInv), and the target is dropped as soon as the listing or the    *)
(* mode stops describing it.  Firing the one stored token cancels every    *)
(* fetch that is not cancelled yet, because there is at most one.          *)
(*                                                                         *)
(* Then the copy flow.  Its invariant adds to the checked ones that a      *)
(* fetch is numbered, and that the fetch pending waits for is for the      *)
(* pending item: an answer that is ignored, because it names another item, *)
(* is then never the one a busy row waits for.                             *)
(*                                                                         *)
(* Last the window that joins them.  Each of its steps is a step or a      *)
(* stutter of either half, so it keeps both invariants, and what they say  *)
(* of fetches makes a closed window a masked and idle one.                 *)
(***************************************************************************)
EXTENDS View, TLAPS

(* Fetches are numbered from 1 up, each by a number of its own. *)
RevealNumbers ==
    /\ revealCancel <= nextReveal
    /\ \A f \in reveals : 0 < f.generation /\ f.generation <= nextReveal
    /\ \A f, g \in reveals : f.generation = g.generation => f = g
    /\ IsField => revealed.target.generation <= nextReveal

RevealInv ==
    /\ TypeOK
    /\ RevealNumbers
    /\ IsField =>
         /\ InActions(revealed.target.key)
         /\ StillDescribes(revealed.target, items)
         /\ \A f \in reveals :
               f.generation = revealed.target.generation =>
                  f.key = revealed.target.key /\ f.field = revealed.target.field
    /\ Showing => revealed.value = PlainOf(revealed.target)
    /\ WaitingHasItsFetch

(* The one-time codes: what is not cancelled answers to the stored token. *)
TotpInv ==
    /\ totpCancel <= totpCalls
    /\ \A f \in totps : 0 < f.token /\ f.token <= totpCalls
    /\ \A f \in totps : ~f.cancelled => f.token = totpCancel /\ InActions(f.key)
    /\ CodeOfTheOpenItem

----------------------------------------------------------------------------
(* What the handlers' shared pieces do. *)

(* The constructors. *)
LEMMA Constructors ==
    /\ Nothing \in Reveals /\ Nothing.kind = "nothing"
    /\ \A t \in Targets, v \in Plaintexts \cup {NoValue} :
          /\ Field(t, v) \in Reveals /\ Field(t, v).kind = "field"
          /\ Field(t, v).target = t /\ Field(t, v).value = v
    /\ \A c \in ShownCodes \cup {NoCode}, b \in BOOLEAN :
          /\ Totp(c, b) \in Reveals /\ Totp(c, b).kind = "totp"
          /\ Totp(c, b).code = c /\ Totp(c, b).fetching = b
  <1>1. Nothing \in Reveals /\ Nothing.kind = "nothing"
    BY DEF Nothing, Reveals
  <1>2. ASSUME NEW t \in Targets, NEW v \in Plaintexts \cup {NoValue}
        PROVE  /\ Field(t, v) \in Reveals /\ Field(t, v).kind = "field"
               /\ Field(t, v).target = t /\ Field(t, v).value = v
    BY DEF Field, Reveals
  <1>3. ASSUME NEW c \in ShownCodes \cup {NoCode}, NEW b \in BOOLEAN
        PROVE  /\ Totp(c, b) \in Reveals /\ Totp(c, b).kind = "totp"
               /\ Totp(c, b).code = c /\ Totp(c, b).fetching = b
    BY DEF Totp, Reveals
  <1>4. QED
    BY <1>1, <1>2, <1>3

LEMMA ModeTypes ==
    /\ ListMode \in Modes /\ ListMode.name = "List"
    /\ PreferencesMode \in Modes /\ PreferencesMode.name = "Preferences"
    /\ \A k \in Keys, n \in Nat :
          /\ ActionsMode(k, n) \in Modes
          /\ ActionsMode(k, n).name = "Actions" /\ ActionsMode(k, n).key = k
BY DEF ListMode, PreferencesMode, ActionsMode, Modes

(* A mode is the field list of a key, or another one. *)
LEMMA ModeShape ==
    ASSUME NEW m \in Modes
    PROVE  /\ m.name = "Actions" => m.key \in Keys /\ m.selected \in Nat
           /\ m.name = "Actions" => \A n \in Nat : [m EXCEPT !.selected = n] \in Modes
BY DEF Modes, ListMode, PreferencesMode

(* A fetch of a secret, cancelled or not. *)
LEMMA CancelledCall ==
    ASSUME NEW f \in RevealCalls, NEW b
    PROVE  LET g == [f EXCEPT !.cancelled = @ \/ b]
           IN  /\ g \in RevealCalls
               /\ g.generation = f.generation /\ g.key = f.key
               /\ g.index = f.index /\ g.field = f.field
               /\ g.cancelled <=> (f.cancelled \/ b)
  <1>1. f.cancelled \in BOOLEAN /\ (f.cancelled \/ b) \in BOOLEAN
    BY DEF RevealCalls
  <1> DEFINE c == f.cancelled \/ b
  <1>2. /\ [f EXCEPT !.cancelled = c] \in RevealCalls
        /\ [f EXCEPT !.cancelled = c].generation = f.generation
        /\ [f EXCEPT !.cancelled = c].key = f.key
        /\ [f EXCEPT !.cancelled = c].index = f.index
        /\ [f EXCEPT !.cancelled = c].field = f.field
        /\ [f EXCEPT !.cancelled = c].cancelled = c
    <2>1. c \in BOOLEAN
      BY <1>1
    <2> HIDE DEF c
    <2>2. QED
      BY <2>1 DEF RevealCalls
  <1>3. QED
    BY <1>2, <1>1

LEMMA CancelledTotp ==
    ASSUME NEW f \in TotpCalls, NEW b
    PROVE  LET g == [f EXCEPT !.cancelled = @ \/ b]
           IN  /\ g \in TotpCalls
               /\ g.id = f.id /\ g.key = f.key /\ g.token = f.token
               /\ g.cancelled <=> (f.cancelled \/ b)
  <1>1. f.cancelled \in BOOLEAN /\ (f.cancelled \/ b) \in BOOLEAN
    BY DEF TotpCalls
  <1> DEFINE c == f.cancelled \/ b
  <1>2. /\ [f EXCEPT !.cancelled = c] \in TotpCalls
        /\ [f EXCEPT !.cancelled = c].id = f.id
        /\ [f EXCEPT !.cancelled = c].key = f.key
        /\ [f EXCEPT !.cancelled = c].token = f.token
        /\ [f EXCEPT !.cancelled = c].cancelled = c
    <2>1. c \in BOOLEAN
      BY <1>1
    <2> HIDE DEF c
    <2>2. QED
      BY <2>1 DEF TotpCalls
  <1>3. QED
    BY <1>2, <1>1

(* Once the stored token is fired, no fetch of a secret is left that is not *)
(* cancelled, and what is in flight is otherwise what it was.               *)
LEMMA StoppedRevealsLemma ==
    ASSUME RevealInv
    PROVE  /\ StoppedReveals \subseteq RevealCalls
           /\ \A g \in StoppedReveals :
                 g.cancelled /\ \E f \in reveals : /\ g.generation = f.generation /\ g.key = f.key
                                                 /\ g.index = f.index /\ g.field = f.field
           /\ \A f, g \in StoppedReveals : f.generation = g.generation => f = g
  <1>0. /\ reveals \subseteq RevealCalls
        /\ \A f, g \in reveals : f.generation = g.generation => f = g
        /\ \A f \in reveals : f.cancelled \/ f.generation = revealCancel
    BY DEF RevealInv, TypeOK, RevealNumbers, WaitingHasItsFetch
  <1>1. ASSUME NEW g \in StoppedReveals
        PROVE  /\ g \in RevealCalls /\ g.cancelled
               /\ \E f \in reveals : /\ g.generation = f.generation /\ g.key = f.key
                                     /\ g.index = f.index /\ g.field = f.field
    <2>1. PICK f \in reveals : g = [f EXCEPT !.cancelled = @ \/ f.generation = revealCancel]
      BY <1>1 DEF StoppedReveals
    <2>2. f \in RevealCalls /\ (f.cancelled \/ f.generation = revealCancel)
      BY <1>0
    <2>3. QED
      BY <2>1, <2>2, CancelledCall
  <1>2. ASSUME NEW g \in StoppedReveals, NEW h \in StoppedReveals, g.generation = h.generation
        PROVE  g = h
    <2>1. PICK f \in reveals : g = [f EXCEPT !.cancelled = @ \/ f.generation = revealCancel]
      BY DEF StoppedReveals
    <2>2. PICK e \in reveals : h = [e EXCEPT !.cancelled = @ \/ e.generation = revealCancel]
      BY DEF StoppedReveals
    <2>3. f \in RevealCalls /\ e \in RevealCalls
      BY <1>0
    <2>4. g.generation = f.generation
      BY <2>1, <2>3, CancelledCall
    <2>5. h.generation = e.generation
      BY <2>2, <2>3, CancelledCall
    <2>6. f = e
      BY <1>0, <1>2, <2>4, <2>5
    <2>7. QED
      BY <2>1, <2>2, <2>6
  <1>3. QED
    BY <1>1, <1>2

LEMMA StoppedTotpsLemma ==
    ASSUME TypeOK, TotpInv
    PROVE  /\ StoppedTotps \subseteq TotpCalls
           /\ \A g \in StoppedTotps : g.cancelled /\ 0 < g.token /\ g.token <= totpCalls
  <1>0. /\ totps \subseteq TotpCalls
        /\ \A f \in totps : f.cancelled \/ f.token = totpCancel
        /\ \A f \in totps : 0 < f.token /\ f.token <= totpCalls
    BY DEF TypeOK, TotpInv
  <1>1. ASSUME NEW g \in StoppedTotps
        PROVE  g \in TotpCalls /\ g.cancelled /\ 0 < g.token /\ g.token <= totpCalls
    <2>1. PICK f \in totps : g = [f EXCEPT !.cancelled = @ \/ f.token = totpCancel]
      BY <1>1 DEF StoppedTotps
    <2>2. f \in TotpCalls /\ (f.cancelled \/ f.token = totpCancel)
      BY <1>0
    <2>3. QED
      BY <2>1, <2>2, <1>0, CancelledTotp
  <1>2. QED
    BY <1>1

----------------------------------------------------------------------------
(* The steps that mask everything: sign-out, leaving the list, moving the   *)
(* highlight, and the key that masks.                                       *)
LEMMA ClearRevealedLemma ==
    ASSUME RevealInv, TotpInv, ClearRevealed,
           UNCHANGED <<nextReveal, totpCalls, clock>>,
           items' \in [Keys -> Shapes \cup {Gone}], mode' \in Modes
    PROVE  RevealInv' /\ TotpInv'
  <1> USE DEF ClearRevealed, DropReveal, CancelReveal, CancelTotp
  <1>1. TypeOK'
    BY Constructors, StoppedRevealsLemma, StoppedTotpsLemma DEF TypeOK, RevealInv
  <1>2. ~IsField' /\ ~IsTotp' /\ ~Showing' /\ ~Waiting' /\ ~HasCode' /\ ~TotpFetching'
    BY DEF Nothing, IsField, IsTotp, Showing, Waiting, HasCode, TotpFetching
  <1>3. /\ \A g \in reveals' : g.cancelled /\ 0 < g.generation /\ g.generation <= nextReveal'
        /\ \A f, g \in reveals' : f.generation = g.generation => f = g
    <2>1. \A f \in reveals : 0 < f.generation /\ f.generation <= nextReveal
      BY DEF RevealInv, RevealNumbers
    <2>2. QED
      BY <2>1, StoppedRevealsLemma
  <1>4. \A g \in totps' : g.cancelled /\ 0 < g.token /\ g.token <= totpCalls'
    BY StoppedTotpsLemma DEF RevealInv
  <1>5. revealCancel' <= nextReveal' /\ totpCancel' <= totpCalls'
    BY DEF RevealInv, TypeOK
  <1>6. RevealInv'
    BY <1>1, <1>2, <1>3, <1>5 DEF RevealInv, RevealNumbers, WaitingHasItsFetch
  <1>7. TotpInv'
    BY <1>2, <1>4, <1>5 DEF TotpInv, CodeOfTheOpenItem
  <1>8. QED
    BY <1>6, <1>7

(* Steps that change only the one-time codes leave the reveal's half alone, *)
(* and the other way round.                                                 *)
LEMMA TotpStepFrame ==
    ASSUME RevealInv, TypeOK', IsTotp, IsTotp',
           UNCHANGED <<items, mode, revealCancel, nextReveal, reveals>>
    PROVE  RevealInv'
  <1>1. ~IsField /\ ~IsField'
    BY DEF IsField, IsTotp
  <1>2. ~Waiting /\ ~Waiting' /\ ~Showing'
    BY <1>1 DEF Waiting, Showing
  <1>3. RevealNumbers'
    BY <1>1 DEF RevealInv, RevealNumbers
  <1>4. WaitingHasItsFetch'
    BY <1>2 DEF RevealInv, WaitingHasItsFetch
  <1>5. QED
    BY <1>1, <1>2, <1>3, <1>4 DEF RevealInv

LEMMA RevealStepFrame ==
    ASSUME TotpInv, UNCHANGED <<mode, totpCancel, totpCalls, totps>>,
           revealed' = revealed \/ ~IsTotp'
    PROVE  TotpInv'
  <1>1. CASE revealed' = revealed
    BY <1>1 DEF TotpInv, CodeOfTheOpenItem, HasCode, TotpFetching, IsTotp, InActions
  <1>2. CASE ~IsTotp'
    BY <1>2 DEF TotpInv, CodeOfTheOpenItem, HasCode, TotpFetching, InActions
  <1>3. QED
    BY <1>1, <1>2

(* When no fetch awaits the reveal but a set of fetches shrinks. *)
LEMMA FewerReveals ==
    ASSUME RevealInv, TypeOK', reveals' \subseteq reveals, ~Waiting,
           revealed' = revealed \/ revealed' = Nothing,
           revealCancel' = revealCancel \/ revealCancel' = 0,
           UNCHANGED <<mode, items, nextReveal>>
    PROVE  RevealInv'
  <1>1. ~Waiting'
    BY DEF Waiting, Nothing, IsField
  <1>2. RevealNumbers'
    BY DEF RevealInv, RevealNumbers, TypeOK, Nothing, IsField
  <1>3. WaitingHasItsFetch'
    BY <1>1 DEF RevealInv, WaitingHasItsFetch
  <1>4. CASE revealed' = revealed
    BY <1>2, <1>3, <1>4
    DEF RevealInv, IsField, Showing, InActions, StillDescribes, PlainOf
  <1>5. CASE revealed' = Nothing
    <2>1. ~IsField' /\ ~Showing'
      BY <1>5 DEF IsField, Showing, Nothing
    <2>2. QED
      BY <2>1, <1>2, <1>3 DEF RevealInv
  <1>6. QED
    BY <1>4, <1>5

----------------------------------------------------------------------------
LEMMA InitFieldList == Init => RevealInv /\ TotpInv
  <1> SUFFICES ASSUME Init PROVE RevealInv /\ TotpInv
    OBVIOUS
  <1>1. TypeOK
    BY Constructors, ModeTypes DEF Init, TypeOK
  <1>2. ~IsField /\ ~Showing /\ ~Waiting /\ ~HasCode /\ ~TotpFetching
    BY DEF Init, Nothing, IsField, IsTotp, Showing, Waiting, HasCode, TotpFetching
  <1>3. QED
    BY <1>1, <1>2
    DEF Init, RevealInv, RevealNumbers, WaitingHasItsFetch, TotpInv, CodeOfTheOpenItem

(* A listing arrives: what the reveal is pinned to is still so, or it goes. *)
LEMMA ListingReplacedLemma ==
    ASSUME RevealInv, TotpInv, NEW listing \in Listings, ListingReplaced(listing)
    PROVE  RevealInv' /\ TotpInv'
  <1> USE DEF ListingReplaced
  <1>0. items' \in [Keys -> Shapes \cup {Gone}]
    BY FieldListAssumption
  <1>1. CASE Intact(listing)
    <2>1. TypeOK' /\ RevealNumbers' /\ WaitingHasItsFetch'
      BY <1>0, <1>1
      DEF RevealInv, TypeOK, RevealNumbers, WaitingHasItsFetch, Waiting, IsField, Awaited, InActions
    <2>2. IsField' => StillDescribes(revealed.target, items)'
      BY <1>1 DEF Intact, IsField, StillDescribes
    <2>3. RevealInv'
      BY <1>1, <2>1, <2>2 DEF RevealInv, IsField, Showing, InActions
    <2>4. QED
      BY <1>1, <2>3, RevealStepFrame
  <1>2. CASE ~Intact(listing)
    <2> USE <1>2 DEF DropReveal, CancelReveal
    <2>1. TypeOK'
      BY <1>0, Constructors, StoppedRevealsLemma DEF RevealInv, TypeOK
    <2>2. ~IsField' /\ ~Showing' /\ ~Waiting' /\ ~IsTotp'
      BY DEF Nothing, IsField, IsTotp, Showing, Waiting
    <2>3. RevealNumbers' /\ \A g \in reveals' : g.cancelled
      <3>1. \A f \in reveals : 0 < f.generation /\ f.generation <= nextReveal
        BY DEF RevealInv, RevealNumbers
      <3>2. 0 <= nextReveal
        BY DEF RevealInv, TypeOK
      <3>3. QED
        BY <2>2, <3>1, <3>2, StoppedRevealsLemma DEF RevealNumbers
    <2>4. RevealInv'
      BY <2>1, <2>2, <2>3 DEF RevealInv, WaitingHasItsFetch
    <2>5. QED
      BY <2>2, <2>4, RevealStepFrame
  <1>3. QED
    BY <1>1, <1>2

(* Opening a list: there was none, so nothing was shown and nothing fetched. *)
LEMMA OpenActionsLemma ==
    ASSUME RevealInv, TotpInv, NEW k \in Keys, OpenActions(k)
    PROVE  RevealInv' /\ TotpInv'
  <1> USE DEF OpenActions
  <1>1. \A key \in Keys : ~InActions(key)
    BY DEF InActions
  <1>2. ~IsField
    BY <1>1 DEF RevealInv, TypeOK, InActions
  <1>3. ~HasCode /\ ~TotpFetching /\ (\A f \in totps : f.cancelled)
    BY DEF TotpInv, CodeOfTheOpenItem, InActions
  <1>4. TypeOK'
    BY ModeTypes DEF RevealInv, TypeOK
  <1>5. ~IsField' /\ ~Waiting /\ ~Waiting' /\ ~Showing'
    BY <1>2 DEF IsField, Waiting, Showing
  <1>6. RevealInv'
    BY <1>4, <1>5 DEF RevealInv, RevealNumbers, WaitingHasItsFetch
  <1>7. ~HasCode' /\ ~TotpFetching'
    BY <1>3 DEF HasCode, TotpFetching, IsTotp
  <1>8. TotpInv'
    BY <1>3, <1>7 DEF TotpInv, CodeOfTheOpenItem
  <1>9. QED
    BY <1>6, <1>8

(* Asking for a secret: its number is new and its fetch the only one that   *)
(* is not cancelled.                                                        *)
LEMMA RevealSecretLemma ==
    ASSUME RevealInv, TotpInv, NEW row, RevealSecret(row)
    PROVE  RevealInv' /\ TotpInv'
  <1> DEFINE item == items[mode.key]
             g == nextReveal + 1
             target == [generation |-> g, key |-> mode.key, index |-> row.at,
                        field |-> item.fields[row.at], modified |-> item.modified]
             call == [generation |-> g, key |-> mode.key, index |-> row.at,
                      field |-> item.fields[row.at], cancelled |-> FALSE]
  <1>1. /\ OnRow(row) /\ row.at \in DOMAIN item.fields
        /\ nextReveal' = g /\ revealCancel' = g
        /\ revealed' = Field(target, NoValue)
        /\ reveals' = StoppedReveals \cup {call}
        /\ CancelTotp
        /\ UNCHANGED <<items, mode, totpCalls, clock>>
    BY DEF RevealSecret
  <1>2. mode.name = "Actions" /\ mode.key \in Keys /\ Listed(mode.key)
    <2>1. mode.name = "Actions" /\ mode.key \in Keys
      BY <1>1, ModeShape DEF OnRow, RevealInv, TypeOK
    <2>2. Actions # <<>>
      BY <1>1 DEF OnRow
    <2>3. QED
      BY <2>1, <2>2 DEF Actions
  <1>3. item \in [fields : Seq(Fields), preferred : Nat, totps : Seq(Codes), modified : Nat]
    BY <1>2, FieldListAssumption DEF RevealInv, TypeOK, Listed
  <1>4. nextReveal \in Nat /\ g \in Nat
    BY DEF RevealInv, TypeOK
  <1>5. target \in Targets /\ call \in RevealCalls
    <2>1. row.at \in Nat /\ item.fields[row.at] \in Fields /\ item.modified \in Nat
      BY <1>1, <1>3
    <2>2. QED
      BY <2>1, <1>2, <1>4 DEF Targets, RevealCalls
  <1>6. Field(target, NoValue) \in Reveals /\ IsField' /\ Waiting' /\ ~Showing' /\ ~IsTotp'
        /\ revealed'.target = target
    BY <1>1, <1>5, Constructors DEF IsField, Waiting, Showing, IsTotp
  <1>7. TypeOK'
    BY <1>1, <1>4, <1>5, <1>6, StoppedRevealsLemma, StoppedTotpsLemma
    DEF RevealInv, TypeOK, CancelTotp
  <1>8. \A f \in StoppedReveals : f.cancelled /\ 0 < f.generation /\ f.generation < g
                                  /\ f.generation \in Nat
    BY StoppedRevealsLemma DEF RevealInv, RevealNumbers, TypeOK, RevealCalls
  <1>9. PICK c : c = call
    OBVIOUS
  <1>a. /\ c.generation = g /\ ~c.cancelled /\ c.key = mode.key /\ c.index = row.at
        /\ c.field = item.fields[row.at] /\ reveals' = StoppedReveals \cup {c}
    BY <1>1, <1>9
  <1> HIDE DEF call
  <1>10. target.generation = g /\ target.key = mode.key /\ target.index = row.at
         /\ target.field = item.fields[row.at] /\ target.modified = item.modified
    OBVIOUS
  <1> HIDE DEF target
  <1>11. RevealNumbers'
    <2>1. \A f \in reveals' : 0 < f.generation /\ f.generation <= g
      BY <1>1, <1>4, <1>8, <1>a
    <2>2. \A f, h \in reveals' : f.generation = h.generation => f = h
      BY <1>1, <1>4, <1>8, <1>a, StoppedRevealsLemma DEF RevealInv, TypeOK, RevealCalls
    <2>3. QED
      BY <2>1, <2>2, <1>1, <1>4, <1>6, <1>10 DEF RevealNumbers
  <1>12. Awaited(c)'
    BY <1>1, <1>2, <1>6, <1>a, <1>10 DEF Awaited, InActions
  <1>13. WaitingHasItsFetch'
    <2>1. c \in reveals' /\ Awaited(c)' /\ ~c.cancelled
      BY <1>1, <1>a, <1>12
    <2>2. \A f \in reveals' : ~f.cancelled => f = c
      BY <1>a, <1>8
    <2>3. QED
      BY <2>1, <2>2, <1>1, <1>6, <1>a DEF WaitingHasItsFetch
  <1>14. InActions(revealed.target.key)' /\ StillDescribes(revealed.target, items)'
    BY <1>1, <1>2, <1>6, <1>10 DEF InActions, StillDescribes, Listed
  <1>15. \A f \in reveals' :
            f.generation = revealed'.target.generation =>
               f.key = revealed'.target.key /\ f.field = revealed'.target.field
    BY <1>1, <1>4, <1>6, <1>8, <1>a, <1>10 DEF RevealInv, TypeOK, RevealCalls
  <1>16. RevealInv'
    BY <1>6, <1>7, <1>11, <1>13, <1>14, <1>15 DEF RevealInv
  <1>17. TotpInv'
    <2>1. ~HasCode' /\ ~TotpFetching'
      BY <1>6 DEF HasCode, TotpFetching
    <2>2. totpCancel' = 0 /\ totps' = StoppedTotps /\ totpCalls \in Nat
      BY <1>1 DEF CancelTotp, RevealInv, TypeOK
    <2>3. QED
      BY <1>1, <2>1, <2>2, StoppedTotpsLemma DEF TotpInv, CodeOfTheOpenItem, RevealInv
  <1>18. QED
    BY <1>16, <1>17

(* Asking for a code: what was revealed goes, and the new fetch is the only *)
(* one that is not cancelled.                                               *)
LEMMA RevealCodeLemma ==
    ASSUME RevealInv, TotpInv, NEW row, RevealCode(row)
    PROVE  RevealInv' /\ TotpInv'
  <1> DEFINE asked == items[mode.key].totps[row.at]
             n == totpCalls + 1
             call == [id |-> n, key |-> mode.key, asked |-> asked, token |-> n,
                      since |-> clock, cancelled |-> FALSE]
  <1>1. /\ OnRow(row) /\ row.at \in DOMAIN items[mode.key].totps
        /\ CancelReveal
        /\ revealed' = Totp(NoCode, TRUE)
        /\ totpCalls' = n /\ totpCancel' = n
        /\ totps' = StoppedTotps \cup {call}
        /\ UNCHANGED <<items, mode, nextReveal, clock>>
    BY DEF RevealCode, FetchTotp
  <1>2. mode.name = "Actions" /\ mode.key \in Keys /\ Listed(mode.key)
    <2>1. mode.name = "Actions" /\ mode.key \in Keys
      BY <1>1, ModeShape DEF OnRow, RevealInv, TypeOK
    <2>2. Actions # <<>>
      BY <1>1 DEF OnRow
    <2>3. QED
      BY <2>1, <2>2 DEF Actions
  <1>3. items[mode.key]
           \in [fields : Seq(Fields), preferred : Nat, totps : Seq(Codes), modified : Nat]
    BY <1>2, FieldListAssumption DEF RevealInv, TypeOK, Listed
  <1>4. asked \in Codes
    BY <1>1, <1>3
  <1>5. totpCalls \in Nat /\ n \in Nat /\ clock \in Nat /\ nextReveal \in Nat
    BY DEF RevealInv, TypeOK
  <1> HIDE DEF asked
  <1>6. call \in TotpCalls
    BY <1>2, <1>4, <1>5 DEF TotpCalls
  <1>7. PICK c : c = call
    OBVIOUS
  <1>8. /\ c.key = mode.key /\ c.token = n /\ ~c.cancelled /\ c \in TotpCalls
        /\ totps' = StoppedTotps \cup {c}
    BY <1>1, <1>6, <1>7
  <1> HIDE DEF call
  <1>9. /\ Totp(NoCode, TRUE) \in Reveals
        /\ ~IsField' /\ ~Showing' /\ ~Waiting' /\ ~HasCode' /\ TotpFetching'
    BY <1>1, Constructors DEF IsField, IsTotp, Showing, Waiting, HasCode, TotpFetching
  <1>10. TypeOK'
    BY <1>1, <1>5, <1>8, <1>9, StoppedRevealsLemma, StoppedTotpsLemma
    DEF RevealInv, TypeOK, CancelReveal
  <1>11. RevealInv'
    <2>1. /\ \A f \in reveals' : f.cancelled /\ 0 < f.generation /\ f.generation <= nextReveal'
          /\ \A f, g \in reveals' : f.generation = g.generation => f = g
          /\ revealCancel' <= nextReveal'
      <3>1. \A f \in reveals : 0 < f.generation /\ f.generation <= nextReveal
        BY DEF RevealInv, RevealNumbers
      <3>2. QED
        BY <1>1, <1>5, <3>1, StoppedRevealsLemma DEF CancelReveal
    <2>2. QED
      BY <2>1, <1>9, <1>10 DEF RevealInv, RevealNumbers, WaitingHasItsFetch
  <1>12. TotpInv'
    <2>1. \A f \in totps' : 0 < f.token /\ f.token <= n
      BY <1>5, <1>8, StoppedTotpsLemma DEF RevealInv, TotpCalls
    <2>2. InActions(c.key)'
      BY <1>1, <1>2, <1>8 DEF InActions
    <2>3. \A f \in totps' : ~f.cancelled => f = c
      BY <1>8, StoppedTotpsLemma DEF RevealInv
    <2>4. CodeOfTheOpenItem'
      BY <1>8, <1>9, <2>2 DEF CodeOfTheOpenItem
    <2>5. QED
      BY <1>1, <1>5, <1>8, <2>1, <2>2, <2>3, <2>4 DEF TotpInv
  <1>13. QED
    BY <1>11, <1>12

----------------------------------------------------------------------------
(* Answers to fetches of secrets. *)
LEMMA RevealLateLemma ==
    ASSUME RevealInv, TotpInv, NEW f \in reveals, RevealLate(f)
    PROVE  RevealInv' /\ TotpInv'
  <1> USE DEF RevealLate
  <1>1. TypeOK' /\ RevealNumbers'
    BY DEF RevealInv, TypeOK, RevealNumbers, IsField
  <1>2. WaitingHasItsFetch'
    <2>1. \A g \in reveals : Awaited(g) => g \in reveals'
      OBVIOUS
    <2>2. QED
      BY <2>1
      DEF RevealInv, WaitingHasItsFetch, Waiting, IsField, Awaited, InActions
  <1>3. RevealInv'
    BY <1>1, <1>2 DEF RevealInv, IsField, Showing, InActions, StillDescribes, PlainOf
  <1>4. QED
    BY <1>3, RevealStepFrame

(* The answer that is awaited is the answer for the field that is pinned. *)
LEMMA RevealArrivedLemma ==
    ASSUME RevealInv, TotpInv, NEW f \in reveals, RevealArrived(f)
    PROVE  RevealInv' /\ TotpInv'
  <1> USE DEF RevealArrived
  <1>1. /\ Awaited(f) /\ IsField
        /\ f.generation = revealed.target.generation
        /\ InActions(revealed.target.key) /\ StillDescribes(revealed.target, items)
        /\ f.key = revealed.target.key /\ f.field = revealed.target.field
    BY DEF RevealInv, Awaited
  <1>2. revealed.target \in Targets /\ f \in RevealCalls
    BY <1>1 DEF RevealInv, TypeOK, Reveals, IsField, Nothing
  <1>3. PlainOf(f) \in Plaintexts /\ PlainOf(f) # NoValue
    BY <1>2, FieldListAssumption DEF PlainOf, Plaintexts, NoValue, RevealCalls
  <1>4. /\ revealed' \in Reveals /\ IsField' /\ Showing' /\ ~Waiting' /\ ~IsTotp'
        /\ revealed'.target = revealed.target /\ revealed'.value = PlainOf(f)
    BY <1>2, <1>3, Constructors DEF IsField, Showing, Waiting, IsTotp
  <1>5. TypeOK'
    BY <1>4 DEF RevealInv, TypeOK
  <1>6. RevealNumbers'
    BY <1>1, <1>4 DEF RevealInv, RevealNumbers, TypeOK
  <1>7. \A g \in reveals' : g.cancelled
    BY <1>1 DEF RevealInv, RevealNumbers, WaitingHasItsFetch, Awaited
  <1>8. WaitingHasItsFetch'
    BY <1>4, <1>7 DEF WaitingHasItsFetch
  <1>9. revealed'.value = PlainOf(revealed'.target)
    BY <1>1, <1>4 DEF PlainOf
  <1>10. RevealInv'
    BY <1>1, <1>4, <1>5, <1>6, <1>8, <1>9 DEF RevealInv, InActions, StillDescribes, PlainOf
  <1>11. QED
    BY <1>4, <1>10, RevealStepFrame

(* A cancelled fetch is never the one awaited; any other failure gives up.  *)
LEMMA RevealFailedLemma ==
    ASSUME RevealInv, TotpInv, NEW f \in reveals, NEW byToken \in BOOLEAN,
           RevealFailed(f, byToken)
    PROVE  RevealInv' /\ TotpInv'
  <1> USE DEF RevealFailed
  <1>1. Awaited(f) /\ IsField
    BY DEF Awaited
  <1>2. TypeOK'
    BY Constructors DEF RevealInv, TypeOK
  <1>3. ~IsTotp' /\ (revealed' = revealed \/ revealed' = Nothing)
    BY <1>1 DEF IsTotp, IsField, Nothing
  <1>4. CASE Waiting
    <2>1. ~f.cancelled /\ \A g \in reveals : g # f => g.cancelled
      BY <1>1, <1>4 DEF RevealInv, RevealNumbers, WaitingHasItsFetch, Awaited
    <2>2. revealed' = Nothing /\ \A g \in reveals' : g.cancelled
      BY <2>1
    <2>3. ~IsField' /\ ~Showing' /\ ~Waiting'
      BY <2>2 DEF IsField, Showing, Waiting, Nothing
    <2>4. RevealNumbers'
      BY <2>3 DEF RevealInv, RevealNumbers, TypeOK
    <2>5. RevealInv'
      BY <1>2, <2>2, <2>3, <2>4 DEF RevealInv, WaitingHasItsFetch
    <2>6. QED
      BY <1>3, <2>5, RevealStepFrame
  <1>5. CASE ~Waiting
    BY <1>2, <1>3, <1>5, FewerReveals, RevealStepFrame
  <1>6. QED
    BY <1>4, <1>5

----------------------------------------------------------------------------
(* Answers to fetches of codes. *)
LEMMA ValidUntilType == \A t \in Nat : ValidUntil(t) \in Nat
  <1> SUFFICES ASSUME NEW t \in Nat PROVE ValidUntil(t) \in Nat
    OBVIOUS
  <1>1. Period \in Nat \ {0}
    BY FieldListAssumption
  <1>2. t \div Period \in Nat
    BY <1>1
  <1> DEFINE q == t \div Period
  <1>3. q + 1 \in Nat
    BY <1>2
  <1> HIDE DEF q
  <1>4. (q + 1) * Period \in Nat
    BY <1>1, <1>3
  <1>5. QED
    BY <1>4 DEF ValidUntil, q

LEMMA TotpLateLemma ==
    ASSUME RevealInv, TotpInv, NEW f \in totps, TotpLate(f)
    PROVE  RevealInv' /\ TotpInv'
  <1> USE DEF TotpLate
  <1>1. TypeOK' /\ RevealNumbers' /\ WaitingHasItsFetch'
    BY DEF RevealInv, TypeOK, RevealNumbers, WaitingHasItsFetch, Waiting, IsField, Awaited, InActions
  <1>2. RevealInv'
    BY <1>1 DEF RevealInv, IsField, Showing, InActions, StillDescribes, PlainOf
  <1>3. CodeOfTheOpenItem'
    <2>1. TotpFetching => \A g \in totps : InActions(g.key) => g \in totps'
      BY DEF TotpAwaited
    <2>2. QED
      BY <2>1 DEF TotpInv, CodeOfTheOpenItem, HasCode, TotpFetching, IsTotp, InActions
  <1>4. TotpInv'
    BY <1>3 DEF TotpInv, InActions
  <1>5. QED
    BY <1>2, <1>4

(* An answer that lowers the flag, whatever code it leaves on screen. *)
LEMMA TotpAnsweredLemma ==
    ASSUME RevealInv, TotpInv, NEW f \in totps, TotpAwaited(f),
           NEW c \in ShownCodes \cup {NoCode}, c # NoCode => InActions(c.key),
           revealed' = Totp(c, FALSE), totps' = totps \ {f},
           UNCHANGED <<items, mode, revealCancel, totpCancel, nextReveal, totpCalls,
                       reveals, clock>>
    PROVE  RevealInv' /\ TotpInv'
  <1>1. /\ IsTotp /\ IsTotp' /\ ~TotpFetching' /\ revealed' \in Reveals
        /\ revealed'.code = c
    BY Constructors DEF TotpAwaited, TotpFetching, IsTotp
  <1>2. TypeOK'
    BY <1>1 DEF RevealInv, TypeOK
  <1>3. RevealInv'
    BY <1>1, <1>2, TotpStepFrame
  <1>4. CodeOfTheOpenItem'
    BY <1>1 DEF CodeOfTheOpenItem, HasCode, InActions
  <1>5. TotpInv'
    BY <1>4 DEF TotpInv, InActions
  <1>6. QED
    BY <1>3, <1>5

LEMMA TotpArrivedLemma ==
    ASSUME RevealInv, TotpInv, NEW f \in totps, NEW made \in f.since..clock, NEW has \in BOOLEAN,
           TotpArrived(f, made, has)
    PROVE  RevealInv' /\ TotpInv'
  <1> DEFINE code == [key |-> f.key, field |-> HighlightedCode, asked |-> f.asked,
                      made |-> made, until |-> ValidUntil(clock)]
  <1>1. f \in TotpCalls /\ clock \in Nat
    BY DEF RevealInv, TypeOK
  <1>2. TotpAwaited(f) /\ InActions(f.key)
    BY DEF TotpArrived, TotpAwaited
  <1>3. CASE has /\ CodeHighlighted
    <2>1. Listed(mode.key) /\ mode.key \in Keys
      <3>1. Actions # <<>> /\ mode.name = "Actions"
        BY <1>3 DEF CodeHighlighted
      <3>2. QED
        BY <3>1, ModeShape DEF Actions, RevealInv, TypeOK
    <2>2. items[mode.key]
             \in [fields : Seq(Fields), preferred : Nat, totps : Seq(Codes), modified : Nat]
      BY <2>1, FieldListAssumption DEF RevealInv, TypeOK, Listed
    <2>3. HighlightedCode \in Codes
      BY <1>3, <2>2 DEF CodeHighlighted, HighlightedCode
    <2>4. made \in Nat /\ ValidUntil(clock) \in Nat /\ f.key \in Keys /\ f.asked \in Codes
      BY <1>1, ValidUntilType DEF TotpCalls
    <2>5. code \in ShownCodes /\ code.key = f.key
      BY <2>3, <2>4 DEF ShownCodes
    <2>6. revealed' = Totp(code, FALSE)
      BY <1>3 DEF TotpArrived
    <2> HIDE DEF code
    <2>7. QED
      BY <1>2, <2>5, <2>6, TotpAnsweredLemma DEF TotpArrived
  <1>4. CASE ~(has /\ CodeHighlighted)
    <2>1. revealed' = Totp(NoCode, FALSE)
      BY <1>4 DEF TotpArrived
    <2>2. QED
      BY <1>2, <2>1, TotpAnsweredLemma DEF TotpArrived
  <1>5. QED
    BY <1>3, <1>4

LEMMA TotpFailedLemma ==
    ASSUME RevealInv, TotpInv, NEW f \in totps, TotpFailed(f)
    PROVE  RevealInv' /\ TotpInv'
  <1>1. TotpAwaited(f) /\ IsTotp /\ revealed' = Totp(revealed.code, FALSE)
    BY DEF TotpFailed, TotpAwaited, TotpFetching, FetchSettled
  <1>2. revealed.code \in ShownCodes \cup {NoCode}
    BY <1>1 DEF RevealInv, TypeOK, Reveals, IsTotp, Nothing
  <1>3. revealed.code # NoCode => InActions(revealed.code.key)
    BY <1>1 DEF TotpInv, CodeOfTheOpenItem, HasCode
  <1>4. QED
    BY <1>1, <1>2, <1>3, TotpAnsweredLemma DEF TotpFailed

(* Renewing a code: its list is open, and a stored token is never fired.    *)
LEMMA TickLemma ==
    ASSUME RevealInv, TotpInv, Tick
    PROVE  RevealInv' /\ TotpInv'
  <1> DEFINE n == totpCalls + 1
             t == IF totpCancel = 0 THEN n ELSE totpCancel
             call == [id |-> n, key |-> mode.key, asked |-> revealed.code.asked, token |-> t,
                      since |-> clock, cancelled |-> FALSE]
  <1>1. /\ HasCode /\ IsTotp
        /\ revealed' = Totp(revealed.code, TRUE)
        /\ totpCalls' = n /\ totpCancel' = t
        /\ totps' = totps \cup {call}
        /\ UNCHANGED <<items, mode, revealCancel, nextReveal, reveals, clock>>
    BY DEF Tick, TickDue, FetchTotp, HasCode
  <1>2. /\ revealed.code \in ShownCodes /\ InActions(revealed.code.key)
        /\ totpCalls \in Nat /\ clock \in Nat /\ totpCancel \in Nat /\ totps \subseteq TotpCalls
    BY <1>1 DEF RevealInv, TypeOK, Reveals, IsTotp, Nothing, HasCode, TotpInv, CodeOfTheOpenItem
  <1>3. mode.key \in Keys /\ InActions(mode.key) /\ revealed.code.asked \in Codes
    BY <1>2 DEF InActions, ShownCodes
  <1>4. t \in Nat /\ 0 < t /\ t <= n /\ n \in Nat
    BY <1>2 DEF TotpInv
  <1> HIDE DEF t
  <1>5. call \in TotpCalls
    BY <1>2, <1>3, <1>4 DEF TotpCalls
  <1>6. PICK c : c = call
    OBVIOUS
  <1>7. /\ c.key = mode.key /\ c.token = t /\ ~c.cancelled /\ c \in TotpCalls
        /\ totps' = totps \cup {c}
    BY <1>1, <1>5, <1>6
  <1> HIDE DEF call
  <1>8. /\ revealed' \in Reveals /\ IsTotp' /\ TotpFetching' /\ HasCode'
        /\ revealed'.code = revealed.code
    BY <1>1, <1>2, Constructors DEF IsTotp, TotpFetching, HasCode
  <1>9. TypeOK'
    BY <1>1, <1>4, <1>7, <1>8 DEF RevealInv, TypeOK
  <1>10. RevealInv'
    BY <1>1, <1>8, <1>9, TotpStepFrame
  <1>11. TotpInv'
    <2>1. \A f \in totps' : 0 < f.token /\ f.token <= n
      BY <1>2, <1>4, <1>7 DEF TotpInv, TotpCalls
    <2>2. \A f \in totps : ~f.cancelled => f.token = t
      BY <1>2 DEF TotpInv, t
    <2>3. \A f \in totps' : ~f.cancelled => f.token = t /\ InActions(f.key)'
      BY <1>1, <1>3, <1>7, <2>2 DEF TotpInv, InActions
    <2>4. CodeOfTheOpenItem'
      BY <1>1, <1>2, <1>3, <1>7, <1>8 DEF CodeOfTheOpenItem, InActions
    <2>5. QED
      BY <1>1, <1>4, <2>1, <2>3, <2>4 DEF TotpInv
  <1>12. QED
    BY <1>10, <1>11

(* A second passes, or nothing happens. *)
LEMMA FieldListStutter ==
    ASSUME RevealInv, TotpInv, clock' \in Nat,
           UNCHANGED <<items, mode, revealed, revealCancel, totpCancel, nextReveal, totpCalls,
                       reveals, totps>>
    PROVE  RevealInv' /\ TotpInv'
  <1>1. TypeOK' /\ RevealNumbers' /\ WaitingHasItsFetch'
    BY DEF RevealInv, TypeOK, RevealNumbers, WaitingHasItsFetch, Waiting, IsField, Awaited, InActions
  <1>2. RevealInv'
    BY <1>1 DEF RevealInv, IsField, Showing, InActions, StillDescribes, PlainOf
  <1>3. QED
    BY <1>2, RevealStepFrame

LEMMA UserStepLemma ==
    ASSUME RevealInv, TotpInv, UserStep
    PROVE  RevealInv' /\ TotpInv'
  <1>0. items \in [Keys -> Shapes \cup {Gone}] /\ mode \in Modes
    BY DEF RevealInv, TypeOK
  <1>1. ASSUME NEW k \in Keys, OpenActions(k) PROVE RevealInv' /\ TotpInv'
    BY <1>1, OpenActionsLemma
  <1>2. CASE OpenPreferences
    BY <1>0, <1>2, ClearRevealedLemma, ModeTypes DEF OpenPreferences
  <1>3. CASE Leave
    BY <1>0, <1>3, ClearRevealedLemma, ModeTypes DEF Leave, LeaveMode
  <1>4. ASSUME NEW delta \in Deltas, MoveSelection(delta) PROVE RevealInv' /\ TotpInv'
    <2>1. mode.name = "Actions" /\ mode.selected \in Nat
      BY <1>0, <1>4, ModeShape DEF MoveSelection
    <2>2. Clamp(mode.selected + delta, Len(Actions)) \in Nat
      BY <2>1 DEF Clamp, Deltas, PAGE
    <2>3. mode' \in Modes
      BY <1>0, <1>4, <2>1, <2>2, ModeShape DEF MoveSelection
    <2>4. QED
      BY <1>0, <1>4, <2>3, ClearRevealedLemma DEF MoveSelection
  <1>5. ASSUME NEW row, Mask(row) PROVE RevealInv' /\ TotpInv'
    BY <1>0, <1>5, ClearRevealedLemma DEF Mask
  <1>6. ASSUME NEW row, RevealPlain(row) PROVE RevealInv' /\ TotpInv'
    BY <1>0, <1>6, ClearRevealedLemma DEF RevealPlain
  <1>7. CASE ToggleReveal
    BY <1>5, <1>6, <1>7, RevealSecretLemma, RevealCodeLemma DEF ToggleReveal
  <1>8. QED
    BY <1>1, <1>2, <1>3, <1>4, <1>7 DEF UserStep

LEMMA NextFieldList ==
    ASSUME RevealInv, TotpInv, [Next]_vars
    PROVE  RevealInv' /\ TotpInv'
  <1>1. ASSUME NEW listing \in Listings, ListingReplaced(listing) PROVE RevealInv' /\ TotpInv'
    BY <1>1, ListingReplacedLemma
  <1>2. CASE ListingCleared
    <2>1. items' \in [Keys -> Shapes \cup {Gone}] /\ mode' \in Modes
      BY <1>2 DEF ListingCleared, RevealInv, TypeOK
    <2>2. QED
      BY <1>2, <2>1, ClearRevealedLemma DEF ListingCleared
  <1>3. CASE UserStep
    BY <1>3, UserStepLemma
  <1>4. CASE RevealAnswered
    BY <1>4, RevealLateLemma, RevealArrivedLemma, RevealFailedLemma DEF RevealAnswered
  <1>5. CASE TotpAnswered
    BY <1>5, TotpLateLemma, TotpArrivedLemma, TotpFailedLemma DEF TotpAnswered
  <1>6. CASE Tick
    BY <1>6, TickLemma
  <1>7. CASE SecondPasses
    <2>1. clock' \in Nat
      BY <1>7 DEF SecondPasses, RevealInv, TypeOK
    <2>2. QED
      BY <1>7, <2>1, FieldListStutter DEF SecondPasses
  <1>8. CASE UNCHANGED vars
    <2>1. clock' \in Nat
      BY <1>8 DEF vars, RevealInv, TypeOK
    <2>2. QED
      BY <1>8, <2>1, FieldListStutter DEF vars
  <1>9. QED
    BY <1>1, <1>2, <1>3, <1>4, <1>5, <1>6, <1>7, <1>8 DEF Next

(* Both halves hold in every reachable state. *)
THEOREM FieldListInvariant == Spec => [](RevealInv /\ TotpInv)
  <1>1. RevealInv /\ TotpInv /\ [Next]_vars => (RevealInv /\ TotpInv)'
    BY NextFieldList
  <1>2. QED
    BY InitFieldList, <1>1, PTL DEF Spec

(* The variables of the field list keep their types. *)
THEOREM FieldListTypeCorrect == Spec => []TypeOK
  <1>1. RevealInv => TypeOK
    BY DEF RevealInv
  <1>2. QED
    BY <1>1, FieldListInvariant, PTL

(* No secret is ever drawn under the label of another: whatever is late,    *)
(* edited, renamed or reordered (spec 002, FR-106).                         *)
THEOREM NoValueUnderAnotherLabel == Spec => []ValueUnderItsLabel
  <1>1. RevealInv => ValueUnderItsLabel
    BY DEF RevealInv, ValueUnderItsLabel, Showing
  <1>2. QED
    BY <1>1, FieldListInvariant, PTL

(* A row waits for exactly the one fetch that is not cancelled. *)
THEOREM EveryRevealHasItsFetch == Spec => []WaitingHasItsFetch
  <1>1. RevealInv => WaitingHasItsFetch
    BY DEF RevealInv
  <1>2. QED
    BY <1>1, FieldListInvariant, PTL

(* Leaving the list, whichever way, stops the fetches it started. *)
THEOREM OnlyOpenListFetches == Spec => []OpenListFetches
  <1>1. RevealInv /\ TotpInv => OpenListFetches
    BY DEF RevealInv, WaitingHasItsFetch, Awaited, TotpInv, OpenListFetches
  <1>2. QED
    BY <1>1, FieldListInvariant, PTL

(* A code on screen belongs to the item whose list is open, and a code row  *)
(* that waits has a fetch in flight.                                        *)
THEOREM NoCodeOfAnotherItem == Spec => []CodeOfTheOpenItem
  <1>1. TotpInv => CodeOfTheOpenItem
    BY DEF TotpInv
  <1>2. QED
    BY <1>1, FieldListInvariant, PTL

(* A masked list stays masked until the user asks (spec 002, FR-103).       *)
THEOREM NothingUncoversItself == Spec => MaskedStaysMasked
  <1> DEFINE Masked == revealed = Nothing => ~(Showing \/ HasCode)'
  <1>1. ASSUME RevealInv, [Next]_vars, revealed = Nothing PROVE ~(Showing \/ HasCode)'
    <2>1. ~IsField /\ ~IsTotp /\ ~HasCode /\ ~TotpFetching
      BY <1>1 DEF Nothing, IsField, IsTotp, HasCode, TotpFetching
    <2>2. CASE revealed' = Nothing
      BY <2>2 DEF Nothing, IsField, IsTotp, HasCode, Showing
    <2>3. ASSUME NEW row, RevealSecret(row) PROVE ~(Showing \/ HasCode)'
      BY <2>3 DEF RevealSecret, Field, IsField, IsTotp, HasCode, Showing
    <2>4. ASSUME NEW row, RevealCode(row) PROVE ~(Showing \/ HasCode)'
      BY <2>4 DEF RevealCode, FetchTotp, Totp, IsField, IsTotp, HasCode, Showing
    <2>5. CASE UserStep
      BY <1>1, <2>2, <2>3, <2>4, <2>5
      DEF UserStep, OpenActions, OpenPreferences, Leave, LeaveMode, MoveSelection, ToggleReveal,
          Mask, RevealPlain, ClearRevealed, DropReveal
    <2>6. CASE RevealAnswered
      BY <1>1, <2>1, <2>2, <2>6 DEF RevealAnswered, RevealLate, RevealArrived, RevealFailed, Awaited
    <2>7. CASE TotpAnswered
      BY <1>1, <2>1, <2>2, <2>7 DEF TotpAnswered, TotpLate, TotpArrived, TotpFailed, TotpAwaited
    <2>8. ~Tick
      BY <2>1 DEF Tick, TickDue
    <2>9. QED
      BY <1>1, <2>2, <2>5, <2>6, <2>7, <2>8
      DEF Next, ListingReplaced, ListingCleared, ClearRevealed, DropReveal, SecondPasses, vars
  <1>2. RevealInv /\ [Next]_vars => [Masked]_vars
    BY <1>1
  <1>3. QED
    BY <1>2, FieldListInvariant, PTL DEF Spec, MaskedStaysMasked

(* A code on screen is not blinked out by the fetch of its successor        *)
(* (fetch_totp keeps the code it renews, TotpFetched settles it).           *)
THEOREM CodesDoNotBlink == Spec => CodeDoesNotBlink
  <1> DEFINE Stays == HasCode /\ TotpFetching' => HasCode'
  <1>1. ASSUME RevealInv, [Next]_vars, HasCode PROVE TotpFetching' => HasCode'
    <2>1. CASE revealed' = revealed
      BY <1>1, <2>1 DEF HasCode, IsTotp
    <2>2. CASE revealed' = Nothing
      BY <2>2 DEF Nothing, TotpFetching, IsTotp
    <2>3. ASSUME NEW row, RevealSecret(row) PROVE ~TotpFetching'
      BY <2>3 DEF RevealSecret, Field, IsTotp, TotpFetching
    <2>4. ASSUME NEW row PROVE ~RevealCode(row)
      BY <1>1 DEF RevealCode, WasShowing
    <2>5. CASE UserStep
      BY <2>1, <2>2, <2>3, <2>4, <2>5
      DEF UserStep, OpenActions, OpenPreferences, Leave, LeaveMode, MoveSelection, ToggleReveal,
          Mask, RevealPlain, ClearRevealed, DropReveal
    <2>6. CASE RevealAnswered
      BY <1>1, <2>1, <2>6
      DEF RevealAnswered, RevealLate, RevealArrived, RevealFailed, Awaited, HasCode, IsField, IsTotp
    <2>7. ASSUME NEW f \in totps, TotpFailed(f) PROVE ~TotpFetching'
      BY <1>1, <2>7 DEF TotpFailed, FetchSettled, HasCode, Totp, TotpFetching
    <2>8. ASSUME NEW f \in totps, NEW made, NEW has, TotpArrived(f, made, has) PROVE ~TotpFetching'
      BY <2>8 DEF TotpArrived, Totp, TotpFetching
    <2>9. CASE TotpAnswered
      BY <2>1, <2>7, <2>8, <2>9 DEF TotpAnswered, TotpLate
    <2>10. CASE Tick
      BY <1>1, <2>10 DEF Tick, FetchTotp, Totp, HasCode, IsTotp
    <2>11. QED
      BY <1>1, <2>1, <2>2, <2>5, <2>6, <2>9, <2>10
      DEF Next, ListingReplaced, ListingCleared, ClearRevealed, DropReveal, SecondPasses, vars
  <1>2. RevealInv /\ [Next]_vars => [Stays]_vars
    BY <1>1
  <1>3. QED
    BY <1>2, FieldListInvariant, PTL DEF Spec, CodeDoesNotBlink
----------------------------------------------------------------------------
(* The copy flow. *)

PendingNamesItsItem ==
    /\ \A f \in fetches : f.id <= nextCopy
    /\ pending # NoCopy => \A f \in fetches : f.id = pending.id => f.key = pending.key

CopyInv ==
    /\ CopyTypeOK
    /\ PendingNamesItsItem
    /\ BusyHasItsFetch
    /\ ClosedWindowIsIdle
    /\ OnlyCopyingWindowsClose
    /\ NoticeHasItsTimer

----------------------------------------------------------------------------
(* Stopping the pending fetch changes nothing else about what is in flight. *)
LEMMA StoppedLemma ==
    ASSUME CopyTypeOK, NEW by \in Stops
    PROVE  /\ Stopped(by) \subseteq Fetches
           /\ \A g \in Stopped(by) : \E f \in fetches : g.id = f.id /\ g.key = f.key
  <1> SUFFICES ASSUME NEW g \in Stopped(by)
               PROVE  g \in Fetches /\ \E f \in fetches : g.id = f.id /\ g.key = f.key
    OBVIOUS
  <1>1. PICK f \in fetches :
           g = [f EXCEPT !.stopped = IF pending # NoCopy /\ f.id = pending.id THEN by ELSE @]
    BY DEF Stopped
  <1>2. f \in Fetches
    BY DEF CopyTypeOK
  <1>3. QED
    BY <1>1, <1>2 DEF Fetches

(* A step that ends the wait, or leaves it alone, and starts no fetch. *)
LEMMA WaitLemma ==
    ASSUME CopyInv, UNCHANGED nextCopy,
           fetches' \subseteq Fetches,
           \A g \in fetches' : \E f \in fetches : g.id = f.id /\ g.key = f.key,
           \/ pending' = NoCopy
           \/ pending' = pending /\ \A f \in fetches : f \in fetches' \/ f.key # pending.key
    PROVE  PendingNamesItsItem' /\ BusyHasItsFetch'
  <1>1. \A g \in fetches' : g.id <= nextCopy'
    BY DEF CopyInv, PendingNamesItsItem
  <1>2. CASE pending' = NoCopy
    BY <1>1, <1>2 DEF PendingNamesItsItem, BusyHasItsFetch
  <1>3. CASE pending' = pending /\ \A f \in fetches : f \in fetches' \/ f.key # pending.key
    <2>1. PendingNamesItsItem'
      BY <1>1, <1>3 DEF CopyInv, PendingNamesItsItem
    <2>2. BusyHasItsFetch'
      BY <1>3 DEF CopyInv, PendingNamesItsItem, BusyHasItsFetch
    <2>3. QED
      BY <2>1, <2>2
  <1>4. QED
    BY <1>2, <1>3

(* A new notice has its timer; the timers that run keep running. *)
LEMMA NotifyLemma ==
    ASSUME CopyTypeOK, Notify
    PROVE  /\ nextNotice' \in Nat /\ notice' \in 0..nextNotice' /\ timers' \subseteq 1..nextNotice'
           /\ NoticeHasItsTimer'
BY DEF CopyTypeOK, Notify, NoticeHasItsTimer

LEMMA InitCopy == CopyInit => CopyInv
  <1> SUFFICES ASSUME CopyInit PROVE CopyInv
    OBVIOUS
  <1>1. CopyTypeOK
    <2>1. visible \in BOOLEAN /\ copying \in BOOLEAN
      BY DEF CopyInit
    <2>2. window = 0 /\ nextCopy = 0 /\ nextNotice = 0 /\ notice = 0 /\ pending = NoCopy
          /\ fetches = {} /\ handoffs = {} /\ timers = {}
      BY DEF CopyInit
    <2>3. QED
      BY <2>1, <2>2 DEF CopyTypeOK
  <1>2. QED
    BY <1>1
    DEF CopyInit, CopyInv, PendingNamesItsItem, BusyHasItsFetch, ClosedWindowIsIdle,
        OnlyCopyingWindowsClose, NoticeHasItsTimer

(* Every way of closing the window leaves it idle. *)
LEMMA HideViewLemma ==
    ASSUME CopyInv, HideView, UNCHANGED <<window, nextNotice, timers, nextCopy>>,
           handoffs' \subseteq Handoffs
    PROVE  CopyInv'
  <1> USE DEF HideView, CancelPending
  <1>1. "hide" \in Stops
    BY DEF Stops
  <1>2. CopyTypeOK'
    <2>1. CopyTypeOK /\ nextNotice \in Nat
      BY DEF CopyInv, CopyTypeOK
    <2>2. visible' \in BOOLEAN /\ copying' \in BOOLEAN
      OBVIOUS
    <2>3. /\ notice' = 0 /\ pending' = NoCopy /\ fetches' \subseteq Fetches
          /\ UNCHANGED <<window, nextNotice, timers, nextCopy>>
      BY <1>1, <2>1, StoppedLemma
    <2>4. QED
      BY <2>1, <2>2, <2>3 DEF CopyTypeOK
  <1>3. PendingNamesItsItem' /\ BusyHasItsFetch'
    BY <1>1, StoppedLemma, WaitLemma DEF CopyInv
  <1>4. ClosedWindowIsIdle' /\ OnlyCopyingWindowsClose' /\ NoticeHasItsTimer'
    BY DEF ClosedWindowIsIdle, OnlyCopyingWindowsClose, NoticeHasItsTimer
  <1>5. QED
    BY <1>2, <1>3, <1>4 DEF CopyInv

LEMMA EscapePendingLemma ==
    ASSUME CopyInv, EscapePending PROVE CopyInv'
  <1> USE DEF EscapePending, CancelPending
  <1>1. "escape" \in Stops
    BY DEF Stops
  <1>2. CopyTypeOK'
    BY <1>1, StoppedLemma DEF CopyInv, CopyTypeOK
  <1>3. PendingNamesItsItem' /\ BusyHasItsFetch'
    BY <1>1, StoppedLemma, WaitLemma DEF CopyInv
  <1>4. ClosedWindowIsIdle' /\ OnlyCopyingWindowsClose' /\ NoticeHasItsTimer'
    BY DEF CopyInv, ClosedWindowIsIdle, OnlyCopyingWindowsClose, NoticeHasItsTimer
  <1>5. QED
    BY <1>2, <1>3, <1>4 DEF CopyInv

(* The fetch of a new copy has a number no other has. *)
LEMMA StartCopyLemma ==
    ASSUME CopyInv, NEW key \in Keys, NEW secret \in BOOLEAN, StartCopy(key, secret)
    PROVE  CopyInv'
  <1> DEFINE id == nextCopy + 1
             call == [id |-> id, key |-> key, secret |-> secret, stopped |-> "no"]
  <1>1. /\ nextCopy \in Nat /\ nextCopy' = id /\ visible /\ "copy" \in Stops
        /\ pending' = Pending(id, key, secret)
        /\ fetches' = Stopped("copy") \cup {call}
        /\ UNCHANGED <<visible, window, copying, handoffs, notice, nextNotice, timers>>
    BY DEF StartCopy, NewCopy, CopyInv, CopyTypeOK, Stops
  <1>2. call \in Fetches
    BY <1>1 DEF Fetches, Stops
  <1>3. \A g \in Stopped("copy") : g.id <= nextCopy /\ g.id \in Nat
    BY <1>1, StoppedLemma DEF CopyInv, PendingNamesItsItem, Fetches
  <1>4. CopyTypeOK'
    <2>1. pending' \in [id : 1..nextCopy', key : Keys, secret : BOOLEAN]
      BY <1>1 DEF Pending
    <2>2. QED
      BY <1>1, <1>2, <2>1, StoppedLemma DEF CopyInv, CopyTypeOK
  <1>5. PendingNamesItsItem'
    <2>1. pending'.id = id /\ pending'.key = key
      BY <1>1 DEF Pending
    <2>2. \A f \in fetches' : f.id <= id /\ (f.id = id => f = call)
      BY <1>1, <1>3
    <2>3. QED
      BY <1>1, <2>1, <2>2 DEF PendingNamesItsItem
  <1>6. BusyHasItsFetch'
    <2>1. call \in fetches' /\ call.id = pending'.id /\ call.stopped = "no"
      BY <1>1 DEF Pending
    <2>2. QED
      BY <2>1 DEF BusyHasItsFetch
  <1>7. ClosedWindowIsIdle' /\ OnlyCopyingWindowsClose' /\ NoticeHasItsTimer'
    BY <1>1 DEF CopyInv, ClosedWindowIsIdle, OnlyCopyingWindowsClose, NoticeHasItsTimer
  <1>8. QED
    BY <1>4, <1>5, <1>6, <1>7 DEF CopyInv

----------------------------------------------------------------------------
(* The answers to a fetch. *)
LEMMA FetchAnsweredLemma ==
    ASSUME CopyInv, NEW f \in fetches,
           CopyIgnored(f) \/ CopyFetched(f) \/ CopyCancelled(f) \/ CopyFailed(f)
    PROVE  CopyInv'
  <1>1. fetches' = fetches \ {f} /\ UNCHANGED <<visible, window, nextCopy>>
    BY DEF CopyIgnored, CopyFetched, CopyCancelled, CopyFailed
  <1>2. PendingNamesItsItem' /\ BusyHasItsFetch'
    <2>1. fetches' \subseteq Fetches /\ \A g \in fetches' : g \in fetches
      BY <1>1 DEF CopyInv, CopyTypeOK
    <2>2. CASE CopyIgnored(f)
      <3>1. pending' = pending
        BY <2>2 DEF CopyIgnored
      <3>2. CASE pending = NoCopy
        BY <1>1, <2>1, <3>1, <3>2, WaitLemma
      <3>3. CASE pending # NoCopy
        <4>1. f.key # pending.key
          BY <2>2, <3>3 DEF CopyIgnored, CopyAwaited
        <4>2. QED
          BY <1>1, <2>1, <3>1, <4>1, WaitLemma
      <3>4. QED
        BY <3>2, <3>3
    <2>3. CASE ~CopyIgnored(f)
      <3>1. pending' = NoCopy
        BY <2>3 DEF CopyFetched, CopyCancelled, CopyFailed, TakePending
      <3>2. QED
        BY <1>1, <2>1, <3>1, WaitLemma
    <2>4. QED
      BY <2>2, <2>3
  <1>3. CASE CopyFetched(f)
    <2> DEFINE h == [id |-> f.id, secret |-> f.secret, marked |-> pending.secret,
                     stopped |-> f.stopped, window |-> window, answered |-> FALSE]
    <2>1. /\ pending # NoCopy /\ f \in Fetches
          /\ pending \in [id : 1..nextCopy, key : Keys, secret : BOOLEAN]
          /\ pending' = NoCopy /\ copying' = TRUE /\ handoffs' = handoffs \cup {h}
          /\ UNCHANGED <<notice, nextNotice, timers>>
      BY <1>3 DEF CopyFetched, CopyAwaited, TakePending, CopyInv, CopyTypeOK
    <2>2. h \in Handoffs /\ h.window = window
      BY <2>1 DEF Handoffs, Fetches, CopyInv, CopyTypeOK
    <2>3. CopyTypeOK'
      BY <1>1, <2>1, <2>2 DEF CopyInv, CopyTypeOK
    <2>4. ClosedWindowIsIdle' /\ OnlyCopyingWindowsClose' /\ NoticeHasItsTimer'
      BY <1>1, <2>1, <2>2
      DEF CopyInv, ClosedWindowIsIdle, OnlyCopyingWindowsClose, NoticeHasItsTimer
    <2>5. QED
      BY <1>2, <2>3, <2>4 DEF CopyInv
  <1>4. CASE CopyIgnored(f) \/ CopyCancelled(f)
    <2>1. /\ pending' \in {pending, NoCopy}
          /\ UNCHANGED <<copying, handoffs, notice, nextNotice, timers>>
      BY <1>4 DEF CopyIgnored, CopyCancelled, TakePending
    <2>2. CopyTypeOK'
      BY <1>1, <2>1 DEF CopyInv, CopyTypeOK
    <2>3. QED
      BY <1>1, <1>2, <2>1, <2>2
      DEF CopyInv, ClosedWindowIsIdle, OnlyCopyingWindowsClose, NoticeHasItsTimer
  <1>5. CASE CopyFailed(f)
    <2>1. pending' = NoCopy /\ Notify /\ UNCHANGED <<copying, handoffs>>
      BY <1>5 DEF CopyFailed, TakePending
    <2>2. CopyTypeOK' /\ NoticeHasItsTimer'
      BY <1>1, <2>1, NotifyLemma DEF CopyInv, CopyTypeOK
    <2>3. QED
      BY <1>1, <1>2, <2>1, <2>2
      DEF CopyInv, ClosedWindowIsIdle, OnlyCopyingWindowsClose
  <1>6. QED
    BY <1>3, <1>4, <1>5

(* The answer of the helper. *)
LEMMA AnsweredLemma ==
    ASSUME CopyInv, NEW h \in handoffs, Answered(h)
    PROVE  /\ handoffs' \subseteq Handoffs
           /\ \A g \in handoffs : \E i \in handoffs' : i.window = g.window
  <1>1. h \in Handoffs
    BY DEF CopyInv, CopyTypeOK
  <1> DEFINE g == [h EXCEPT !.answered = TRUE]
  <1>2. g \in Handoffs /\ g.window = h.window
    BY <1>1 DEF Handoffs
  <1>3. handoffs' = (handoffs \ {h}) \cup {g}
    BY DEF Answered
  <1> HIDE DEF g
  <1>4. QED
    BY <1>2, <1>3 DEF CopyInv, CopyTypeOK

LEMMA HandoffAnsweredLemma ==
    ASSUME CopyInv, NEW h \in handoffs, CopyConfirmed(h) \/ ClipboardUnavailable(h)
    PROVE  CopyInv'
  <1>1. /\ handoffs' \subseteq Handoffs
        /\ \A g \in handoffs : \E i \in handoffs' : i.window = g.window
    BY AnsweredLemma DEF CopyConfirmed, ClipboardUnavailable
  <1>2. CASE CopyConfirmed(h) /\ copying
    BY <1>1, <1>2, HideViewLemma DEF CopyConfirmed
  <1>3. ASSUME UNCHANGED <<visible, window, pending, copying, fetches, nextCopy>>
        PROVE  PendingNamesItsItem' /\ BusyHasItsFetch' /\ ClosedWindowIsIdle'
               /\ OnlyCopyingWindowsClose'
    BY <1>1, <1>3
    DEF CopyInv, PendingNamesItsItem, BusyHasItsFetch, ClosedWindowIsIdle, OnlyCopyingWindowsClose
  <1>4. CASE CopyConfirmed(h) /\ ~copying
    <2>1. UNCHANGED <<visible, window, pending, copying, fetches, nextCopy, notice, nextNotice, timers>>
      BY <1>4 DEF CopyConfirmed
    <2>2. CopyTypeOK' /\ NoticeHasItsTimer'
      BY <1>1, <2>1 DEF CopyInv, CopyTypeOK, NoticeHasItsTimer
    <2>3. QED
      BY <1>3, <2>1, <2>2 DEF CopyInv
  <1>5. CASE ClipboardUnavailable(h)
    <2>1. Notify /\ UNCHANGED <<visible, window, pending, copying, fetches, nextCopy>>
      BY <1>5 DEF ClipboardUnavailable
    <2>2. CopyTypeOK' /\ NoticeHasItsTimer'
      BY <1>1, <2>1, NotifyLemma DEF CopyInv, CopyTypeOK
    <2>3. QED
      BY <1>3, <2>1, <2>2 DEF CopyInv
  <1>6. QED
    BY <1>2, <1>4, <1>5

(* Steps that touch neither the fetches nor what is pending. *)
LEMMA QuietStepLemma ==
    ASSUME CopyInv, Show \/ OtherNotice \/ (\E n \in timers : NoticeExpired(n)) \/ UNCHANGED copyVars
    PROVE  CopyInv'
  <1>1. UNCHANGED <<pending, copying, fetches, handoffs, nextCopy>>
    BY DEF Show, OtherNotice, NoticeExpired, copyVars
  <1>2. PendingNamesItsItem' /\ BusyHasItsFetch'
    BY <1>1 DEF CopyInv, PendingNamesItsItem, BusyHasItsFetch
  <1>3. ClosedWindowIsIdle' /\ OnlyCopyingWindowsClose'
    BY <1>1
    DEF CopyInv, ClosedWindowIsIdle, OnlyCopyingWindowsClose, Show, OtherNotice, NoticeExpired, copyVars
  <1>4. CopyTypeOK' /\ NoticeHasItsTimer'
    <2>1. CASE OtherNotice
      BY <1>1, <2>1, NotifyLemma DEF OtherNotice, CopyInv, CopyTypeOK
    <2>2. CASE Show \/ UNCHANGED copyVars
      <3>1. visible' \in BOOLEAN
        BY <2>2 DEF Show, copyVars, CopyInv, CopyTypeOK
      <3>2. window' \in Nat /\ UNCHANGED <<notice, nextNotice, timers>>
        BY <2>2 DEF Show, copyVars, CopyInv, CopyTypeOK
      <3>3. QED
        BY <1>1, <3>1, <3>2 DEF CopyInv, CopyTypeOK, NoticeHasItsTimer
    <2>3. ASSUME NEW n \in timers, NoticeExpired(n) PROVE CopyTypeOK' /\ NoticeHasItsTimer'
      <3>1. /\ timers' = timers \ {n} /\ UNCHANGED <<visible, window, nextNotice>>
            /\ notice' = IF notice = n THEN 0 ELSE notice
        BY <2>3 DEF NoticeExpired
      <3>2. notice' \in 0..nextNotice' /\ (notice' # 0 => notice' \in timers')
        BY <3>1 DEF CopyInv, CopyTypeOK, NoticeHasItsTimer
      <3>3. QED
        BY <1>1, <3>1, <3>2 DEF CopyInv, CopyTypeOK, NoticeHasItsTimer
    <2>4. QED
      BY <2>1, <2>2, <2>3
  <1>5. QED
    BY <1>2, <1>3, <1>4 DEF CopyInv

LEMMA NextCopyInv == CopyInv /\ [CopyNext]_copyVars => CopyInv'
  <1> SUFFICES ASSUME CopyInv, [CopyNext]_copyVars PROVE CopyInv'
    OBVIOUS
  <1>1. CASE Hide
    BY <1>1, HideViewLemma DEF Hide, CopyInv, CopyTypeOK
  <1>2. CASE FetchAnswered
    BY <1>2, FetchAnsweredLemma DEF FetchAnswered
  <1>3. CASE HandoffAnswered
    BY <1>3, HandoffAnsweredLemma DEF HandoffAnswered
  <1>4. ASSUME NEW key \in Keys, NEW secret \in BOOLEAN, StartCopy(key, secret) PROVE CopyInv'
    BY <1>4, StartCopyLemma
  <1>5. CASE EscapePending
    BY <1>5, EscapePendingLemma
  <1>6. CASE Show \/ OtherNotice \/ (\E n \in timers : NoticeExpired(n)) \/ UNCHANGED copyVars
    BY <1>6, QuietStepLemma
  <1>7. QED
    BY <1>1, <1>2, <1>3, <1>4, <1>5, <1>6 DEF CopyNext, CopyUserStep

----------------------------------------------------------------------------
(* The copy flow keeps its invariant, whatever is late or cancelled. *)
THEOREM CopyInvariant == CopySpec => []CopyInv
BY InitCopy, NextCopyInv, PTL DEF CopySpec


(* The busy indicator stands for a fetch of its own (start_copy). *)
THEOREM BusyIsBacked == CopySpec => []BusyHasItsFetch
  <1>1. CopyInv => BusyHasItsFetch
    BY DEF CopyInv
  <1>2. QED
    BY <1>1, CopyInvariant, PTL

(* A closed window waits for nothing (hide). *)
THEOREM ClosedIsIdle == CopySpec => []ClosedWindowIsIdle
  <1>1. CopyInv => ClosedWindowIsIdle
    BY DEF CopyInv
  <1>2. QED
    BY <1>1, CopyInvariant, PTL

(* Only a window that handed a value over is closed by a confirmation. *)
THEOREM OnlyCopyingCloses == CopySpec => []OnlyCopyingWindowsClose
  <1>1. CopyInv => OnlyCopyingWindowsClose
    BY DEF CopyInv
  <1>2. QED
    BY <1>1, CopyInvariant, PTL

(* A notice is taken away by its own timer, by a newer notice or by hide,   *)
(* and by nothing else: not by the timer of an earlier one (NoticeExpired). *)
LEMMA NoticeGoes ==
    ASSUME CopyInv, [CopyNext]_copyVars, notice # 0, notice' # notice
    PROVE  notice' > notice \/ (notice \in timers /\ notice \notin timers') \/ ~visible'
  <1>1. notice \in Nat /\ nextNotice \in Nat /\ notice <= nextNotice
    BY DEF CopyInv, CopyTypeOK
  <1>2. notice \in timers
    BY DEF CopyInv, NoticeHasItsTimer
  <1>3. CASE Notify
    BY <1>1, <1>3 DEF Notify
  <1>4. CASE HideView
    BY <1>4 DEF HideView
  <1>5. ASSUME NEW n \in timers, NoticeExpired(n)
        PROVE  notice \notin timers'
    BY <1>5 DEF NoticeExpired
  <1>6. CASE FetchAnswered
    BY <1>3, <1>6 DEF FetchAnswered, CopyIgnored, CopyFetched, CopyCancelled, CopyFailed
  <1>7. CASE HandoffAnswered
    BY <1>3, <1>4, <1>7 DEF HandoffAnswered, CopyConfirmed, ClipboardUnavailable
  <1>8. CASE CopyUserStep
    BY <1>3, <1>4, <1>8 DEF CopyUserStep, Show, Hide, EscapePending, OtherNotice, StartCopy
  <1>9. CASE UNCHANGED copyVars
    BY <1>9 DEF copyVars
  <1>10. QED
    BY <1>2, <1>5, <1>6, <1>7, <1>8, <1>9 DEF CopyNext

(* However many notices and copies there are, a notice keeps its time. *)
THEOREM NoticesKeepTheirTime == CopySpec => NoticeKeepsItsTime
  <1>1. CopyInv /\ [CopyNext]_copyVars =>
           [notice # 0 /\ notice' # notice =>
              notice' > notice \/ (notice \in timers /\ notice \notin timers') \/ ~visible']_copyVars
    BY NoticeGoes
  <1>2. QED
    BY <1>1, CopyInvariant, PTL DEF CopySpec, NoticeKeepsItsTime

(* Nothing more is handed to the clipboard once the window is closed: an    *)
(* answer that comes late finds no copy to answer to.                       *)
THEOREM ClosedCopiesNothing == CopySpec => NothingCopiedAfterClosing
  <1> DEFINE Same == ~visible => {h.id : h \in handoffs'} = {h.id : h \in handoffs}
  <1>1. ASSUME CopyInv, [CopyNext]_copyVars, ~visible
        PROVE  {h.id : h \in handoffs'} = {h.id : h \in handoffs}
    <2>1. pending = NoCopy
      BY <1>1 DEF CopyInv, ClosedWindowIsIdle
    <2>2. CASE UNCHANGED handoffs
      BY <2>2
    <2>3. CASE FetchAnswered
      BY <2>1, <2>2, <2>3
      DEF FetchAnswered, CopyIgnored, CopyFetched, CopyCancelled, CopyFailed, CopyAwaited
    <2>4. ASSUME NEW a \in handoffs, Answered(a)
          PROVE  {h.id : h \in handoffs'} = {h.id : h \in handoffs}
      <3>1. a \in Handoffs
        BY <1>1 DEF CopyInv, CopyTypeOK
      <3>2. [a EXCEPT !.answered = TRUE].id = a.id
        BY <3>1 DEF Handoffs
      <3>3. handoffs' = (handoffs \ {a}) \cup {[a EXCEPT !.answered = TRUE]}
        BY <2>4 DEF Answered
      <3>4. QED
        BY <3>2, <3>3
    <2>5. CASE HandoffAnswered
      BY <2>4, <2>5 DEF HandoffAnswered, CopyConfirmed, ClipboardUnavailable
    <2>6. CASE CopyUserStep
      BY <2>2, <2>6 DEF CopyUserStep, Show, Hide, EscapePending, OtherNotice, StartCopy
    <2>7. QED
      BY <1>1, <2>2, <2>3, <2>5, <2>6 DEF CopyNext, NoticeExpired, copyVars
  <1>2. CopyInv /\ [CopyNext]_copyVars => [Same]_copyVars
    BY <1>1 DEF copyVars
  <1>3. QED
    BY <1>2, CopyInvariant, PTL DEF CopySpec, NothingCopiedAfterClosing

----------------------------------------------------------------------------
(* The window: both halves of the view, and the one hide that resets them.  *)

ViewInv ==
    /\ RevealInv /\ TotpInv /\ CopyInv
    /\ ~visible => mode = ListMode /\ revealed = Nothing

(* A row is secret or it is not. *)
LEMMA RowSecrecy == \A k, row : RowIsSecret(k, row) \in BOOLEAN
BY DEF RowIsSecret

(* What a step of the window is to the field list. *)
LEMMA ViewStepOfTheList == ViewNext => [Next]_vars
  <1> SUFFICES ASSUME ViewNext PROVE [Next]_vars
    OBVIOUS
  <1>1. Leave => Next
    BY DEF Next, UserStep
  <1>2. CASE HideWindow \/ EscapeMode \/ EscapeWindow \/ Back
    BY <1>1, <1>2 DEF HideWindow, EscapeMode, EscapeWindow, Back
  <1>3. CASE ListKey
    BY <1>3 DEF ListKey, Next, UserStep
  <1>4. CASE FieldAnswered
    <2>1. ASSUME NEW f \in reveals, NEW b \in BOOLEAN,
                 RevealLate(f) \/ RevealArrived(f) \/ RevealFailed(f, b)
          PROVE  Next
      BY <2>1 DEF Next, RevealAnswered
    <2>2. ASSUME NEW f \in totps,
                 \/ TotpLate(f) \/ TotpFailed(f)
                 \/ \E made \in f.since..clock, has \in BOOLEAN : TotpArrived(f, made, has)
          PROVE  Next
      BY <2>2 DEF Next, TotpAnswered
    <2>3. QED
      BY <1>4, <2>1, <2>2 DEF FieldAnswered
  <1>5. CASE DataChanged
    BY <1>5 DEF DataChanged, Next
  <1>6. CASE TimePasses
    BY <1>6 DEF TimePasses, Next
  <1>7. ASSUME NEW f \in fetches, CopyFetchEnds(f) PROVE [Next]_vars
    BY <1>7 DEF CopyFetchEnds, Next
  <1>8. ASSUME NEW h \in handoffs, Confirmed(h) \/ Unconfirmed(h) PROVE [Next]_vars
    BY <1>1, <1>8 DEF Confirmed, Unconfirmed
  <1>9. CASE ShowWindow \/ EscapeCopy \/ (\E k \in Keys : CopyRow(k)) \/ NothingToCopy
    BY <1>9 DEF ShowWindow, EscapeCopy, CopyRow, NothingToCopy
  <1>10. QED
    BY <1>2, <1>3, <1>4, <1>5, <1>6, <1>7, <1>8, <1>9 DEF ViewNext

(* What a step of the window is to the copy flow. *)
LEMMA ViewStepOfTheCopy == ViewNext => [CopyNext]_copyVars
  <1> SUFFICES ASSUME ViewNext PROVE [CopyNext]_copyVars
    OBVIOUS
  <1>1. Hide \/ Show \/ EscapePending \/ OtherNotice => CopyNext
    BY DEF CopyNext, CopyUserStep
  <1>2. CASE ShowWindow \/ HideWindow \/ EscapeCopy \/ EscapeWindow \/ NothingToCopy
    BY <1>1, <1>2 DEF ShowWindow, HideWindow, EscapeCopy, EscapeWindow, NothingToCopy
  <1>3. CASE EscapeMode \/ Back \/ ListKey \/ DataChanged
    BY <1>3 DEF EscapeMode, Back, ListKey, DataChanged
  <1>4. ASSUME NEW k \in Keys, CopyRow(k) PROVE CopyNext
    <2>1. PICK n : StartCopy(k, RowIsSecret(k, Rows(items[k])[n]))
      BY <1>4 DEF CopyRow
    <2>2. RowIsSecret(k, Rows(items[k])[n]) \in BOOLEAN
      BY RowSecrecy
    <2>3. QED
      BY <2>1, <2>2 DEF CopyNext, CopyUserStep
  <1>5. ASSUME NEW f \in fetches, CopyFetchEnds(f) PROVE CopyNext
    BY <1>5 DEF CopyFetchEnds, CopyNext, FetchAnswered
  <1>6. ASSUME NEW h \in handoffs, Confirmed(h) \/ Unconfirmed(h) PROVE CopyNext
    BY <1>6 DEF Confirmed, Unconfirmed, CopyNext, HandoffAnswered
  <1>7. CASE FieldAnswered
    BY <1>1, <1>7 DEF FieldAnswered
  <1>8. CASE TimePasses
    BY <1>8 DEF TimePasses, CopyNext
  <1>9. QED
    BY <1>2, <1>3, <1>4, <1>5, <1>6, <1>7, <1>8 DEF ViewNext

(* Whatever closes the window leaves the list and masks, and nothing that   *)
(* happens to a closed one opens a list or shows a value.                   *)
LEMMA ClosedStaysMasked ==
    ASSUME ViewInv, ViewNext, ~visible'
    PROVE  mode' = ListMode /\ revealed' = Nothing
  <1>1. Leave => mode' = ListMode /\ revealed' = Nothing
    BY DEF Leave, LeaveMode, ClearRevealed, DropReveal
  <1>2. CASE HideWindow \/ EscapeMode \/ EscapeWindow \/ Back
    BY <1>1, <1>2 DEF HideWindow, EscapeMode, EscapeWindow, Back
  <1>3. ASSUME NEW h \in handoffs, Confirmed(h), copying
        PROVE  mode' = ListMode /\ revealed' = Nothing
    BY <1>1, <1>3 DEF Confirmed
  <1>4. ASSUME NEW h \in handoffs, Confirmed(h), ~copying PROVE UNCHANGED <<vars, visible>>
    BY <1>4 DEF Confirmed, CopyConfirmed
  <1>5. CASE ~visible /\ UNCHANGED vars
    BY <1>5 DEF ViewInv, vars
  <1>6. ASSUME UNCHANGED visible PROVE mode' = ListMode /\ revealed' = Nothing
    <2>0. ~visible /\ mode = ListMode /\ revealed = Nothing
      BY <1>6 DEF ViewInv
    <2>1. ~ListKey
      BY <2>0 DEF ListKey
    <2>2. CASE FieldAnswered
      <3>1. \A k : ~InActions(k)
        BY <2>0 DEF InActions, ListMode
      <3>2. QED
        BY <2>0, <2>2, <3>1
        DEF FieldAnswered, RevealLate, RevealArrived, RevealFailed, Awaited,
            TotpLate, TotpArrived, TotpFailed, TotpAwaited
    <2>3. CASE DataChanged
      BY <2>0, <2>3
      DEF DataChanged, ListingReplaced, ListingCleared, ClearRevealed, DropReveal
    <2>4. CASE TimePasses
      BY <2>0, <2>4 DEF TimePasses, SecondPasses, vars
    <2>5. ASSUME NEW f \in fetches, CopyFetchEnds(f) PROVE mode' = ListMode /\ revealed' = Nothing
      BY <2>0, <2>5 DEF CopyFetchEnds, ListingCleared, ClearRevealed, DropReveal, vars
    <2>6. ASSUME NEW h \in handoffs, Unconfirmed(h) PROVE UNCHANGED vars
      BY <2>6 DEF Unconfirmed
    <2>7. CASE ShowWindow \/ EscapeCopy \/ (\E k \in Keys : CopyRow(k)) \/ NothingToCopy
      BY <1>5, <2>0, <2>7 DEF ShowWindow, EscapeCopy, CopyRow, NothingToCopy
    <2>8. QED
      BY <1>2, <1>3, <1>4, <1>5, <2>0, <2>1, <2>2, <2>3, <2>4, <2>5, <2>6, <2>7 DEF ViewNext
  <1>7. CASE ~UNCHANGED visible
    <2>1. ~(EscapeMode \/ Back \/ ListKey \/ DataChanged)
      BY <1>7 DEF EscapeMode, Back, ListKey, DataChanged, copyVars
    <2>2. ~TimePasses
      BY <1>7 DEF TimePasses, copyVars, NoticeExpired
    <2>3. ~FieldAnswered
      BY <1>7 DEF FieldAnswered, copyVars, OtherNotice
    <2>4. ~(ShowWindow \/ EscapeCopy \/ NothingToCopy \/ \E k \in Keys : CopyRow(k))
      BY <1>7 DEF ShowWindow, EscapeCopy, NothingToCopy, CopyRow,
                  Show, EscapePending, OtherNotice, StartCopy
    <2>5. \A f \in fetches : ~CopyFetchEnds(f)
      BY <1>7 DEF CopyFetchEnds, CopyIgnored, CopyFetched, CopyCancelled, CopyFailed
    <2>6. \A h \in handoffs : ~Unconfirmed(h)
      BY <1>7 DEF Unconfirmed, ClipboardUnavailable
    <2>7. QED
      BY <1>2, <1>3, <1>4, <1>7, <2>1, <2>2, <2>3, <2>4, <2>5, <2>6 DEF ViewNext
  <1>8. QED
    BY <1>6, <1>7

LEMMA InitView == ViewInit => ViewInv
  <1> SUFFICES ASSUME ViewInit PROVE ViewInv
    OBVIOUS
  <1>1. mode = ListMode /\ revealed = Nothing
    BY DEF ViewInit, Init
  <1>2. QED
    BY <1>1, InitFieldList, InitCopy DEF ViewInit, ViewInv

LEMMA NextView == ViewInv /\ [ViewNext]_view => ViewInv'
  <1>1. ASSUME ViewInv, ViewNext PROVE ViewInv'
    <2>1. RevealInv' /\ TotpInv'
      BY <1>1, NextFieldList, ViewStepOfTheList DEF ViewInv
    <2>2. CopyInv'
      BY <1>1, NextCopyInv, ViewStepOfTheCopy DEF ViewInv
    <2>3. QED
      BY <1>1, <2>1, <2>2, ClosedStaysMasked DEF ViewInv
  <1>2. ASSUME ViewInv, UNCHANGED view PROVE ViewInv'
    <2>1. UNCHANGED vars /\ UNCHANGED copyVars
      BY <1>2 DEF view
    <2>2. RevealInv' /\ TotpInv'
      BY <1>2, <2>1, NextFieldList DEF ViewInv
    <2>3. CopyInv'
      BY <1>2, <2>1, NextCopyInv DEF ViewInv
    <2>4. QED
      BY <1>2, <2>1, <2>2, <2>3 DEF ViewInv, vars, copyVars
  <1>3. QED
    BY <1>1, <1>2

(* The window keeps the invariants of both its halves. *)
THEOREM ViewInvariant == ViewSpec => []ViewInv
BY InitView, NextView, PTL DEF ViewSpec

(* A closed window shows nothing, fetches nothing for its list and waits    *)
(* for nothing, however it was closed (hide, escape, copy_confirmed).       *)
THEOREM ClosedIsMasked == ViewSpec => []ClosedWindowIsMasked
  <1>1. ViewInv => ClosedWindowIsMasked
    <2> SUFFICES ASSUME ViewInv, ~visible PROVE ClosedWindowIsMasked
      BY DEF ClosedWindowIsMasked
    <2>1. mode = ListMode /\ revealed = Nothing
      BY DEF ViewInv
    <2>2. \A k : ~InActions(k)
      BY <2>1 DEF InActions, ListMode
    <2>3. ~Waiting
      BY <2>1 DEF Waiting, IsField, Nothing
    <2>4. \A f \in reveals \cup totps : f.cancelled
      <3>1. \A f \in reveals : f.cancelled
        BY <2>2 DEF ViewInv, RevealInv, WaitingHasItsFetch, Awaited
      <3>2. \A f \in totps : f.cancelled
        BY <2>2 DEF ViewInv, TotpInv
      <3>3. QED
        BY <3>1, <3>2
    <2>5. pending = NoCopy /\ ~copying
      BY DEF ViewInv, CopyInv, ClosedWindowIsIdle
    <2>6. QED
      BY <2>1, <2>4, <2>5 DEF ClosedWindowIsMasked
  <1>2. QED
    BY <1>1, ViewInvariant, PTL

(* Every variable of the window keeps its type. *)
THEOREM ViewTypeCorrect == ViewSpec => []ViewTypeOK
  <1>1. ViewInv => ViewTypeOK
    BY DEF ViewInv, RevealInv, CopyInv, ViewTypeOK
  <1>2. QED
    BY <1>1, ViewInvariant, PTL
=============================================================================
