----------------------------- MODULE FieldList -----------------------------
(***************************************************************************)
(* The field list of one item and the single value it may reveal           *)
(* (src/src/core/state.rs: Mode, Revealed, RevealTarget and the handlers   *)
(* that touch them).                                                       *)
(*                                                                         *)
(* A secret is fetched when it is asked for.  Its answer is a message that *)
(* may arrive after the row was masked, the list left, the item edited or  *)
(* the same row asked for again; and a cancelled fetch that had already    *)
(* resolved still delivers its value.  One-time codes expire and are       *)
(* fetched again while they are shown.                                     *)
(*                                                                         *)
(* A field stands for its FieldRef, an item for its fields, which of them  *)
(* its kind copies first, its one-time codes and its edit time.  A         *)
(* plaintext is the field of the item it was fetched for, a code the item, *)
(* the code field and the second at which it was made; asked is the code   *)
(* field whose row the user revealed.                                      *)
(***************************************************************************)
EXTENDS Integers, Sequences, FiniteSets, ItemKeys

CONSTANTS
    NoKey,        \* no item
    Gone,         \* an item the listing does not carry
    Fields,       \* FieldRefs
    Secrets,      \* the secret ones
    Codes,        \* names of one-time-code fields
    Shapes,       \* what an item may look like
    Listings,     \* what pass-cli may list
    Period,       \* seconds a one-time code lasts
    MaxFetches,   \* bound: fetches of each kind
    MaxClock      \* bound: seconds that pass

ASSUME FieldListAssumption ==
    /\ NoKey \notin Keys
    /\ Gone \notin Shapes
    /\ Secrets \subseteq Fields
    /\ \A s \in Shapes : s \in [fields : Seq(Fields), preferred : Nat, totps : Seq(Codes), modified : Nat]
    /\ \A s \in Shapes : s.preferred \in {0} \cup DOMAIN s.fields
    /\ Listings \subseteq [Keys -> Shapes \cup {Gone}]
    /\ Period \in Nat \ {0}
    /\ MaxFetches \in Nat /\ MaxClock \in Nat

VARIABLES
    items,         \* Model.data.items: what the listing says of each key
    mode,          \* view.mode
    revealed,      \* view.revealed
    revealCancel,  \* view.reveal_cancel: the fetch its token stops, 0 for None
    totpCancel,    \* view.reveal_totp_cancel: the token's number, 0 for None
    nextReveal,    \* next_reveal
    totpCalls,     \* one-time-code fetches issued
    reveals,       \* FetchReveal effects in flight
    totps,         \* FetchTotp effects in flight
    clock          \* seconds

vars == <<items, mode, revealed, revealCancel, totpCancel, nextReveal, totpCalls,
          reveals, totps, clock>>

----------------------------------------------------------------------------
(* Items and the rows their field list shows. *)

Listed(k) == items[k] # Gone

FieldRow(i) == [code |-> FALSE, at |-> i]
CodeRow(j) == [code |-> TRUE, at |-> j]

(* primary_action: the field the kind prefers, if the item has it, else the *)
(* first secret one, else the first.                                        *)
PrimaryAt(s) ==
    LET secret == {i \in DOMAIN s.fields : s.fields[i] \in Secrets}
    IN  IF s.preferred # 0 THEN s.preferred
        ELSE IF secret = {} THEN 1
        ELSE CHOOSE i \in secret : \A j \in secret : i <= j

(* all_actions: the primary field first, then the other fields, then the codes. *)
Rows(s) ==
    LET others == SelectSeq([i \in DOMAIN s.fields |-> i],
                            LAMBDA i : s.fields[i] # s.fields[PrimaryAt(s)])
    IN  (IF s.fields = <<>> THEN <<>> ELSE <<FieldRow(PrimaryAt(s))>>)
        \o [i \in DOMAIN others |-> FieldRow(others[i])]
        \o [j \in DOMAIN s.totps |-> CodeRow(j)]

----------------------------------------------------------------------------
(* Mode and Revealed. *)

ListMode == [name |-> "List", key |-> NoKey, selected |-> 0]
PreferencesMode == [name |-> "Preferences", key |-> NoKey, selected |-> 0]
ActionsMode(k, n) == [name |-> "Actions", key |-> k, selected |-> n]

InActions(k) == mode.name = "Actions" /\ mode.key = k

(* actions(): the rows of the item the list is open on, if it still exists. *)
Actions == IF mode.name = "Actions" /\ Listed(mode.key) THEN Rows(items[mode.key]) ELSE <<>>

NoValue == [key |-> NoKey]
PlainOf(f) == [key |-> f.key, field |-> f.field]

Nothing == [kind |-> "nothing"]
Field(target, value) == [kind |-> "field", target |-> target, value |-> value]
Totp(code, fetching) == [kind |-> "totp", code |-> code, fetching |-> fetching]

NoCode == [key |-> NoKey]

(* RevealTarget::still_describes, of the item in a listing; an item that is *)
(* gone is described by nothing.                                            *)
StillDescribes(t, listing) ==
    /\ listing[t.key] # Gone
    /\ listing[t.key].modified = t.modified
    /\ t.index \in DOMAIN listing[t.key].fields
    /\ listing[t.key].fields[t.index] = t.field

IsField == revealed.kind = "field"
IsTotp == revealed.kind = "totp"
Showing == IsField /\ revealed.value # NoValue
Waiting == IsField /\ revealed.value = NoValue
TotpFetching == IsTotp /\ revealed.fetching
HasCode == IsTotp /\ revealed.code # NoCode

(* The highlighted row is a one-time code, and which. *)
CodeHighlighted ==
    LET n == mode.selected + 1
    IN  /\ mode.name = "Actions" /\ n \in DOMAIN Actions
        /\ Actions[n].code /\ Actions[n].at \in DOMAIN items[mode.key].totps
HighlightedCode == items[mode.key].totps[Actions[mode.selected + 1].at]

ValidUntil(now) == ((now \div Period) + 1) * Period

----------------------------------------------------------------------------
(* Pieces the handlers share: each says what becomes of the reveal and of  *)
(* the fetches, which a fired token marks cancelled.                       *)

StoppedReveals == {[f EXCEPT !.cancelled = @ \/ f.generation = revealCancel] : f \in reveals}
StoppedTotps == {[f EXCEPT !.cancelled = @ \/ f.token = totpCancel] : f \in totps}

CancelReveal == revealCancel' = 0 /\ reveals' = StoppedReveals

DropReveal == revealed' = Nothing /\ CancelReveal

CancelTotp == totpCancel' = 0 /\ totps' = StoppedTotps

(* Mutant: re-masking drops the value but leaves its fetch running. *)
ClearRevealedOnly == revealed' = Nothing /\ UNCHANGED <<revealCancel, reveals>> /\ CancelTotp
ClearRevealed == DropReveal /\ CancelTotp

LeaveMode == mode' = ListMode /\ ClearRevealed

(* Mutant: the code is dropped when it expires. *)
FetchTotpBlank(code, asked, t, inFlight) ==
    /\ revealed' = Totp(NoCode, TRUE)
    /\ totpCalls' = totpCalls + 1
    /\ totpCancel' = t
    /\ totps' = inFlight \cup
          {[id |-> totpCalls + 1, key |-> mode.key, asked |-> asked, token |-> t,
            since |-> clock, cancelled |-> FALSE]}

(* fetch_totp with token t, beside the fetches in flight: the code on show  *)
(* stays until the answer.                                                  *)
FetchTotp(code, asked, t, inFlight) ==
    /\ revealed' = Totp(code, TRUE)
    /\ totpCalls' = totpCalls + 1
    /\ totpCancel' = t
    /\ totps' = inFlight \cup
          {[id |-> totpCalls + 1, key |-> mode.key, asked |-> asked, token |-> t,
            since |-> clock, cancelled |-> FALSE]}

(* totp_fetch_settled. *)
FetchStaysUp == revealed     \* mutant: the flag is not lowered
FetchSettled == IF IsTotp THEN Totp(revealed.code, FALSE) ELSE revealed

----------------------------------------------------------------------------
Init ==
    /\ items = [k \in Keys |-> Gone]
    /\ mode = ListMode
    /\ revealed = Nothing
    /\ revealCancel = 0 /\ totpCancel = 0 /\ nextReveal = 0 /\ totpCalls = 0
    /\ reveals = {} /\ totps = {}
    /\ clock = 0

(* replace_items: a listing or the cache file arrives.  drop_stale_reveal   *)
(* is a part of it.                                                         *)
IntactAlways(listing) == TRUE     \* mutant: drop_stale_reveal is not called
Intact(listing) == IsField => StillDescribes(revealed.target, listing)

ListingReplaced(listing) ==
    /\ items' = listing
    /\ IF Intact(listing) THEN UNCHANGED <<revealed, revealCancel, reveals>> ELSE DropReveal
    /\ UNCHANGED <<mode, totpCancel, nextReveal, totpCalls, totps, clock>>

(* clear_data: sign-out or account switch. *)
ListingCleared ==
    /\ items' = [k \in Keys |-> Gone]
    /\ ClearRevealed
    /\ UNCHANGED <<mode, nextReveal, totpCalls, clock>>

(* OpenActions on the highlighted result; the key map offers it in List mode. *)
OpenActions(k) ==
    /\ mode.name = "List"
    /\ Listed(k)
    /\ mode' = ActionsMode(k, 0)
    /\ UNCHANGED <<items, revealed, revealCancel, totpCancel, nextReveal, totpCalls,
                   reveals, totps, clock>>

OpenPreferences ==
    /\ mode.name = "List"
    /\ mode' = PreferencesMode
    /\ ClearRevealed
    /\ UNCHANGED <<items, nextReveal, totpCalls, clock>>

(* Back, Escape from a sub-mode, and hide, which resets the view it leaves. *)
Leave == LeaveMode /\ UNCHANGED <<items, nextReveal, totpCalls, clock>>

(* SelectNext, SelectPrev and the page keys in the field list. *)
Clamp(n, len) == IF n < 0 \/ len = 0 THEN 0 ELSE IF n > len - 1 THEN len - 1 ELSE n

PAGE == 10
Deltas == {-PAGE, -1, 1, PAGE}

MoveSelection(delta) ==
    /\ mode.name = "Actions"
    /\ mode' = [mode EXCEPT !.selected = Clamp(@ + delta, Len(Actions))]
    /\ ClearRevealed
    /\ UNCHANGED <<items, nextReveal, totpCalls, clock>>

(* ToggleReveal on the highlighted row, by what the row is. *)
OnRow(row) ==
    /\ mode.name = "Actions"
    /\ mode.selected + 1 \in DOMAIN Actions
    /\ row = Actions[mode.selected + 1]

WasShowing(row) ==
    IF row.code THEN HasCode \/ TotpFetching
    ELSE IsField /\ revealed.target.key = mode.key /\ revealed.target.index = row.at

Mask(row) ==
    /\ OnRow(row) /\ WasShowing(row)
    /\ ClearRevealed
    /\ UNCHANGED <<items, mode, nextReveal, totpCalls, clock>>

RevealPlain(row) ==
    /\ OnRow(row) /\ ~WasShowing(row)
    /\ ~row.code /\ items[mode.key].fields[row.at] \notin Secrets
    /\ ClearRevealed
    /\ UNCHANGED <<items, mode, nextReveal, totpCalls, clock>>

RevealSecret(row) ==
    LET item == items[mode.key]
        field == item.fields[row.at]
        g == nextReveal + 1
    IN  /\ OnRow(row) /\ ~WasShowing(row)
        /\ ~row.code /\ row.at \in DOMAIN item.fields /\ field \in Secrets
        /\ nextReveal < MaxFetches
        /\ nextReveal' = g
        /\ revealed' = Field([generation |-> g, key |-> mode.key, index |-> row.at,
                              field |-> field, modified |-> item.modified], NoValue)
        /\ revealCancel' = g
        /\ reveals' = StoppedReveals \cup
              {[generation |-> g, key |-> mode.key, index |-> row.at, field |-> field,
                     cancelled |-> FALSE]}
        /\ CancelTotp
        /\ UNCHANGED <<items, mode, totpCalls, clock>>

RevealCode(row) ==
    /\ OnRow(row) /\ ~WasShowing(row)
    /\ row.code /\ row.at \in DOMAIN items[mode.key].totps
    /\ totpCalls < MaxFetches
    /\ CancelReveal
    /\ FetchTotp(NoCode, items[mode.key].totps[row.at], totpCalls + 1, StoppedTotps)
    /\ UNCHANGED <<items, mode, nextReveal, clock>>

ToggleReveal ==
    \E n \in DOMAIN Actions :
        LET row == Actions[n]
        IN  Mask(row) \/ RevealPlain(row) \/ RevealSecret(row) \/ RevealCode(row)

(* RevealFetched.  A fetch whose token was fired may still have resolved    *)
(* before; one whose token was not cannot report Cancelled.                 *)
AwaitedPosition(f) ==     \* mutant: the generation is not compared
    InActions(f.key) /\ IsField /\ revealed.target.index = f.index
AwaitedCountedTwice(f) ==     \* mutant: the fetch is numbered after the target
    InActions(f.key) /\ IsField /\ revealed.target.generation + 1 = f.generation
Awaited(f) ==
    /\ InActions(f.key) /\ IsField
    /\ revealed.target.generation = f.generation /\ revealed.target.index = f.index

RevealLate(f) ==
    /\ f \in reveals /\ ~Awaited(f)
    /\ reveals' = reveals \ {f}
    /\ UNCHANGED <<items, mode, revealed, revealCancel, totpCancel, nextReveal, totpCalls,
                   totps, clock>>

RevealArrived(f) ==
    /\ f \in reveals /\ Awaited(f)
    /\ reveals' = reveals \ {f}
    /\ revealCancel' = 0
    /\ revealed' = Field(revealed.target, PlainOf(f))
    /\ UNCHANGED <<items, mode, totpCancel, nextReveal, totpCalls, totps, clock>>

(* Cancelled leaves what is revealed; any other error gives it up. *)
RevealFailed(f, byToken) ==
    /\ f \in reveals /\ Awaited(f)
    /\ byToken => f.cancelled
    /\ reveals' = reveals \ {f}
    /\ revealCancel' = 0
    /\ revealed' = IF byToken THEN revealed ELSE Nothing
    /\ UNCHANGED <<items, mode, totpCancel, nextReveal, totpCalls, totps, clock>>

(* TotpFetched: no number says which fetch it answers. *)
TotpAwaitedAnyway(f) == InActions(f.key)     \* mutant: wanted or not
TotpAwaited(f) == InActions(f.key) /\ TotpFetching

TotpLate(f) ==
    /\ f \in totps /\ ~TotpAwaited(f)
    /\ totps' = totps \ {f}
    /\ UNCHANGED <<items, mode, revealed, revealCancel, totpCancel, nextReveal, totpCalls,
                   reveals, clock>>

(* The answer holds the codes of the item, made at some second since it was *)
(* asked for; the highlighted one is shown, if the answer has it.  It is    *)
(* shown as valid to the end of the period it arrives in.                   *)
TotpArrived(f, made, has) ==
    /\ f \in totps /\ TotpAwaited(f)
    /\ made \in f.since..clock
    /\ totps' = totps \ {f}
    /\ revealed' =
          Totp(IF has /\ CodeHighlighted
               THEN [key |-> f.key, field |-> HighlightedCode, asked |-> f.asked,
                     made |-> made, until |-> ValidUntil(clock)]
               ELSE NoCode, FALSE)
    /\ UNCHANGED <<items, mode, revealCancel, totpCancel, nextReveal, totpCalls, reveals, clock>>

(* An error, or Cancelled if its token was fired: the code stays. *)
TotpFailed(f) ==
    /\ f \in totps /\ TotpAwaited(f)
    /\ totps' = totps \ {f}
    /\ revealed' = FetchSettled
    /\ UNCHANGED <<items, mode, revealCancel, totpCancel, nextReveal, totpCalls, reveals, clock>>

(* Tick, once a second while a code is shown. *)
TickDue == HasCode /\ clock >= revealed.code.until /\ ~revealed.fetching

Tick ==
    /\ TickDue
    /\ totpCalls < MaxFetches
    /\ FetchTotp(revealed.code, revealed.code.asked,
                 IF totpCancel = 0 THEN totpCalls + 1 ELSE totpCancel, totps)
    /\ UNCHANGED <<items, mode, revealCancel, nextReveal, reveals, clock>>

SecondPasses ==
    /\ clock < MaxClock
    /\ clock' = clock + 1
    /\ UNCHANGED <<items, mode, revealed, revealCancel, totpCancel, nextReveal, totpCalls,
                   reveals, totps>>

----------------------------------------------------------------------------
RevealAnswered ==
    \E f \in reveals : RevealLate(f) \/ RevealArrived(f) \/ \E byToken \in BOOLEAN : RevealFailed(f, byToken)

TotpAnswered ==
    \E f \in totps :
        \/ TotpLate(f)
        \/ TotpFailed(f)
        \/ \E made \in f.since..clock, has \in BOOLEAN : TotpArrived(f, made, has)

UserStep ==
    \/ \E k \in Keys : OpenActions(k)
    \/ OpenPreferences
    \/ Leave
    \/ \E delta \in Deltas : MoveSelection(delta)
    \/ ToggleReveal

Next ==
    \/ (\E listing \in Listings : ListingReplaced(listing)) \/ ListingCleared
    \/ UserStep
    \/ RevealAnswered \/ TotpAnswered
    \/ Tick \/ SecondPasses

(* Every fetch ends in at most FIELD_TIMEOUT (10 s) and runs in a task of   *)
(* its own.                                                                 *)
Fairness == WF_vars(RevealAnswered) /\ WF_vars(TotpAnswered)

Spec == Init /\ [][Next]_vars /\ Fairness
----------------------------------------------------------------------------
Modes == {ListMode, PreferencesMode} \cup [name : {"Actions"}, key : Keys, selected : Nat]
Targets == [generation : Nat, key : Keys, index : Nat, field : Fields, modified : Nat]
Plaintexts == [key : Keys, field : Fields]
ShownCodes == [key : Keys, field : Codes, asked : Codes, made : Nat, until : Nat]
Reveals ==
    {Nothing}
    \cup [kind : {"field"}, target : Targets, value : Plaintexts \cup {NoValue}]
    \cup [kind : {"totp"}, code : ShownCodes \cup {NoCode}, fetching : BOOLEAN]
RevealCalls == [generation : Nat, key : Keys, index : Nat, field : Fields, cancelled : BOOLEAN]
TotpCalls == [id : Nat, key : Keys, asked : Codes, token : Nat, since : Nat, cancelled : BOOLEAN]

(* The variables are of their types. *)
TypeOK ==
    /\ items \in [Keys -> Shapes \cup {Gone}]
    /\ mode \in Modes
    /\ revealed \in Reveals
    /\ revealCancel \in Nat /\ totpCancel \in Nat
    /\ nextReveal \in Nat /\ totpCalls \in Nat /\ clock \in Nat
    /\ reveals \subseteq RevealCalls
    /\ totps \subseteq TotpCalls

(* A plaintext on screen is the field of the item it stands beside, and the *)
(* list open is that item's: late answers, edits, renames and reorderings   *)
(* of the fields never draw one secret under the label of another.          *)
ValueUnderItsLabel ==
    Showing => /\ InActions(revealed.target.key)
               /\ StillDescribes(revealed.target, items)
               /\ revealed.value = PlainOf(revealed.target)

(* A reveal that says it is waiting has its own fetch, not cancelled, in    *)
(* flight, and that fetch alone: a row is never left saying so for good.    *)
WaitingHasItsFetch ==
    /\ Waiting => \E f \in reveals : Awaited(f) /\ ~f.cancelled
    /\ \A f \in reveals : ~f.cancelled => Waiting /\ Awaited(f) /\ revealCancel = f.generation

(* What is fetched without having been cancelled is fetched for the list    *)
(* that is open: leaving it, whichever way, stops the fetches it started.   *)
OpenListFetches == \A f \in reveals \cup totps : ~f.cancelled => InActions(f.key)

(* A code on screen belongs to the item whose list is open, and a code row  *)
(* that says it is waiting has a fetch, not cancelled, in flight.           *)
CodeOfTheOpenItem ==
    /\ HasCode => InActions(revealed.code.key)
    /\ TotpFetching => \E f \in totps : InActions(f.key) /\ ~f.cancelled

(* Once masked, the list stays masked until the user asks again: an answer  *)
(* that was already on its way uncovers nothing.                            *)
MaskedStaysMasked == [][revealed = Nothing => ~(Showing \/ HasCode)']_vars

(* A step that takes a code off the screen leaves no row waiting for one: an *)
(* expired code is up as long as the one that is to replace it is fetched,  *)
(* so renewing it does not blink it out.                                    *)
CodeDoesNotBlink == [][HasCode /\ TotpFetching' => HasCode']_vars

(* No row, of a field or of a code, says for ever that it is waiting. *)
RevealSettles == (Waiting ~> ~Waiting) /\ (TotpFetching ~> ~TotpFetching)

----------------------------------------------------------------------------
(* What the specification and the comments say and the code does not keep. *)

(* Spec 002, edge cases: while the value is being fetched the row shows     *)
(* that a fetch is in flight, and the value replaces it when it arrives.    *)
CodeFetchIsMarked == \A f \in totps : ~f.cancelled => TotpFetching

(* Spec 002, FR-104: the code shown is the current one, with the seconds    *)
(* that remain in its period.                                               *)
CodeIsCurrent ==
    HasCode /\ clock < revealed.code.until => ValidUntil(revealed.code.made) = revealed.code.until

(* Spec 002, FR-106: what arrives after the field it was requested for has  *)
(* moved is discarded rather than displayed.                                *)
CodeIsOfTheRowAskedFor == HasCode => revealed.code.field = revealed.code.asked
=============================================================================
