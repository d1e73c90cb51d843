------------------------------- MODULE Items -------------------------------
(***************************************************************************)
(* From an item in Proton Pass to the rows of its field list, and from a   *)
(* row back to the item (src/src/pass/parse.rs, src/src/core/actions.rs,   *)
(* src/src/model.rs).                                                      *)
(*                                                                         *)
(* A listing names an item's fields without their values: the name is all  *)
(* a later copy has, and pass-cli resolves it against the item as it is    *)
(* then.  Two fields may bear one name.  Here the user builds an item, the *)
(* app lists it, and rows are copied; what a copy reached is compared with *)
(* the field its row was made of.                                          *)
(*                                                                         *)
(* A name is the sequence of its dot-separated parts.  A field knows what  *)
(* it was made of ("of"), which stands for its label and stored value; the *)
(* code never compares two fields of one name, where that could matter.    *)
(***************************************************************************)
EXTENDS Integers, Sequences, FiniteSets, FiniteSetsExt, SequencesExt, TLC

CONSTANTS
    Kinds,        \* the item kinds the user makes
    Members,      \* the built-in members the user fills in
    Names,        \* the names given to custom fields
    LowerCase,    \* the lower case of the parts of names that have another
    Titlings,     \* the names given to an item's two sections
    MaxEntries    \* bound: an item's entries, by its kind

VARIABLES
    item,         \* the item, in Proton Pass
    held,         \* its ItemSummary, once it is listed
    answer        \* what the last copy asked for, and what it got

itemsVars == <<item, held, answer>>

----------------------------------------------------------------------------
(* KindContent: the members of a kind in the order fill pushes them.  Of a *)
(* plain one the value is kept, of the others only that there is one.  The *)
(* custom fields of an identity stand between its groups.                  *)
Slots(class, names) == [i \in DOMAIN names |-> [class |-> class, place |-> names[i]]]

LoginBody ==
    Slots("plain", <<"username", "email">>) \o Slots("secret", <<"password">>)
    \o Slots("websites", <<"urls">>) \o Slots("code", <<"totp_uri">>)
CardBody ==
    Slots("secret", <<"number">>) \o Slots("plain", <<"cardholder_name", "expiration_date">>)
    \o Slots("secret", <<"verification_number", "pin">>)
IdentityBody ==
    Slots("plain", <<"full_name", "email">>)
    \o Slots("unstored", <<"phone_number", "first_name", "middle_name", "last_name",
                           "birthdate", "gender">>)
    \o Slots("custom", <<"personal">>)
    \o Slots("unstored", <<"organization", "street_address", "zip_or_postal_code", "city",
                           "state_or_province", "country_or_region", "floor", "county">>)
    \o Slots("custom", <<"address">>)
    \o Slots("secret", <<"social_security_number", "passport_number", "license_number">>)
    \o Slots("unstored", <<"website", "x_handle", "second_phone_number", "linkedin", "reddit",
                           "facebook", "yahoo", "instagram">>)
    \o Slots("custom", <<"contact">>)
    \o Slots("unstored", <<"company", "job_title", "personal_website", "work_phone_number",
                           "work_email">>)
    \o Slots("custom", <<"work">>)
Sections == Slots("custom", <<"first", "second">>)
WifiBody == Slots("secret", <<"password">>) \o Slots("plain", <<"ssid">>)
SshBody == Slots("secret", <<"private_key">>) \o Slots("plain", <<"public_key">>)

Body(kind) ==
    CASE kind = "Login" -> LoginBody
      [] kind = "CreditCard" -> CardBody
      [] kind = "Identity" -> IdentityBody \o Sections
      [] kind = "Wifi" -> WifiBody \o Sections
      [] kind = "SshKey" -> SshBody \o Sections
      [] kind = "Custom" -> Sections
      [] OTHER -> <<>>                     \* Note, Alias, Unknown

Extras == Slots("custom", <<"extra">>)

(* RawContent::fill: the body, the extra fields, and the note last - first  *)
(* in a note.                                                              *)
Note == Slots("secret", <<"note">>)
Layout ==
    [kind \in Kinds |-> IF kind = "Note" THEN Note \o Extras ELSE Body(kind) \o Extras \o Note]

(* website_field: names the app makes up, and no member has. *)
WebsiteName(i) == <<IF i = 1 THEN "url" ELSE "url" \o ToString(i)>>
ItemsAssumption ==
    /\ MaxEntries \in [Kinds -> Nat]
    /\ \A kind \in Kinds : \A i \in 1..MaxEntries[kind], m \in Members : WebsiteName(i) # <<m>>
ASSUME ItemsAssumption

Holds(class, place) ==
    \E i \in DOMAIN Layout[item.kind] : Layout[item.kind][i] = [class |-> class, place |-> place]

----------------------------------------------------------------------------
(* What stands in an item's slots, as raw entries.  A custom field is [name, *)
(* content]; titles are the section names, <<>> one without a name.        *)
CustomPlaces == {"first", "second", "personal", "address", "contact", "work", "extra"}
Contents == {"Unread", "Hidden", "Totp"}     \* CustomFieldKind: Unread is Text and Other

Raw(place, at) == [place |-> place, at |-> at]
RawEntries ==
    (UNION {{Raw(place, i) : i \in DOMAIN item.custom[place]} : place \in CustomPlaces})
    \cup {Raw("urls", i) : i \in 1..item.websites}
    \cup {Raw(place, 0) : place \in item.members}

(* fill pushes slot by slot, and within a slot in order. *)
SlotOf(place) ==
    CHOOSE i \in DOMAIN Layout[item.kind] : Layout[item.kind][i].place = place
ClassOf(raw) == Layout[item.kind][SlotOf(raw.place)].class
Earlier(a, b) ==
    IF a.place = b.place THEN a.at < b.at ELSE SlotOf(a.place) < SlotOf(b.place)

IsCustom(raw) == raw.place \in CustomPlaces
CustomOf(raw) == item.custom[raw.place][raw.at]
TitleOf(place) == CASE place = "first" -> item.titles[1]
                    [] place = "second" -> item.titles[2]
                    [] OTHER -> <<>>

(* qualified: Section.Field, unless a dot on either side would make it the  *)
(* name of another field.                                                  *)
Bare(section, name) == name     \* mutant: a section's field has no qualifier
Dotless(name) == Len(name) = 1
Qualified(section, name) ==
    IF Dotless(section) /\ Dotless(name) THEN section \o name ELSE name

(* FieldRef: secret_if, plain_if, unstored_if, custom_fields_in. *)
IsField(raw) == IF IsCustom(raw) THEN CustomOf(raw).content = "Hidden" ELSE ClassOf(raw) # "code"
FieldName(raw) ==
    CASE IsCustom(raw) -> Qualified(TitleOf(raw.place), CustomOf(raw).name)
      [] raw.place = "urls" -> WebsiteName(raw.at)
      [] OTHER -> <<raw.place>>
Field(raw) ==
    [name |-> FieldName(raw), of |-> raw,
     secret |-> ClassOf(raw) \in {"secret", "custom"}]

(* item totp answers by bare name: a code takes no qualifier. *)
IsCode(raw) == IF IsCustom(raw) THEN CustomOf(raw).content = "Totp" ELSE raw.place = "totp_uri"
BareName(raw) == IF IsCustom(raw) THEN CustomOf(raw).name ELSE <<raw.place>>
Code(raw) == [name |-> BareName(raw), of |-> raw]

(* dedupe_selectors: of the entries of one name the last is kept. *)
KeepLast(entries) ==
    {e \in entries : \A later \in entries : Earlier(e.of, later.of) => later.name # e.name}
InOrder(entries) ==
    [n \in 1..Cardinality(entries) |->
        CHOOSE e \in entries : Cardinality({o \in entries : Earlier(o.of, e.of)}) = n - 1]

(* RawItem::into_summary *)
KeptFields == KeepLast({Field(raw) : raw \in {r \in RawEntries : IsField(r)}})
KeptCodes == KeepLast({Code(raw) : raw \in {r \in RawEntries : IsCode(r)}})
Summary ==
    [kind |-> item.kind, fields |-> InOrder(KeptFields), codes |-> InOrder(KeptCodes)]

Unlisted == [kind |-> "none", fields |-> <<>>, codes |-> <<>>]

----------------------------------------------------------------------------
(* core/actions.rs: the sources of the copies of a summary.                *)
FieldSource(field) == [code |-> FALSE, entry |-> field]
CodeSource(code) == [code |-> TRUE, entry |-> code]
NoSource == [code |-> FALSE, entry |-> [name |-> <<>>]]

(* Positions; 0 where the code has None. *)
First(positions) == IF positions = {} THEN 0 ELSE Min(positions)
IndexOf(s, name) == First({i \in DOMAIN s.fields : s.fields[i].name = <<name>>})
FirstNonZero(a, b) == IF a # 0 THEN a ELSE b

(* username_index, url_index *)
UsernameIndex(s) == FirstNonZero(IndexOf(s, "username"), IndexOf(s, "email"))
UrlIndex(s) == IndexOf(s, "url")

FieldAt(s, i) == IF i = 0 THEN NoSource ELSE FieldSource(s.fields[i])
TotpAction(s) == IF s.codes = <<>> THEN NoSource ELSE CodeSource(s.codes[1])
UsernameAction(s) == FieldAt(s, UsernameIndex(s))
UrlAction(s) == FieldAt(s, UrlIndex(s))

Preferred(kind) == CASE kind = "Login" -> "password"
                     [] kind = "CreditCard" -> "number"
                     [] kind = "Note" -> "note"
                     [] OTHER -> "none"
PrimaryIndex(s) ==
    FirstNonZero(IndexOf(s, Preferred(s.kind)),
        FirstNonZero(First({i \in DOMAIN s.fields : s.fields[i].secret}), First(DOMAIN s.fields)))
PrimaryAction(s) ==
    IF PrimaryIndex(s) # 0 THEN FieldSource(s.fields[PrimaryIndex(s)]) ELSE TotpAction(s)

(* all_actions: the primary row, the other fields, the other codes.  Names  *)
(* differ once deduped, so one row is passed over for being the primary.   *)
BoundByName(s, i) ==     \* mutant: no shortcut on the e-mail in the user name's place
    CASE s.fields[i].name = <<"username">> -> "CopyUsername"
      [] s.fields[i].name = <<"url">> -> "CopyUrl"
      [] OTHER -> "none"
Bound(s, i) ==
    IF i = UsernameIndex(s) THEN "CopyUsername"
    ELSE IF i = UrlIndex(s) THEN "CopyUrl" ELSE "none"

Row(source, shortcut) == [source |-> source, shortcut |-> shortcut]
RowsOf(s) ==
    [i \in DOMAIN s.fields |-> Row(FieldSource(s.fields[i]), Bound(s, i))]
    \o [i \in DOMAIN s.codes |->
           Row(CodeSource(s.codes[i]), IF i = 1 THEN "CopyTotp" ELSE "none")]
AllActions(s) ==
    LET rows == RowsOf(s)
        primary == PrimaryAction(s)
        at == CHOOSE i \in DOMAIN rows : rows[i].source = primary
    IN  IF primary = NoSource THEN <<>>
        ELSE <<Row(primary, "CopyPrimary")>> \o RemoveAt(rows, at)

----------------------------------------------------------------------------
(* pass-cli, as parse.rs and specs/001-cosmic-pass/contracts/pass-cli.md    *)
(* report it.  A field is addressed by its name, one of a named section    *)
(* also by Section.Field; of namesakes an extra field hides the others,    *)
(* the last extra first, then the first of a section.  The websites have   *)
(* the one name urls.  Names are matched in any case.                      *)
Nothing == [place |-> "none", at |-> 0]

Address(raw) ==
    IF IsCustom(raw) /\ Dotless(TitleOf(raw.place)) /\ Dotless(CustomOf(raw).name)
    THEN TitleOf(raw.place) \o CustomOf(raw).name
    ELSE BareName(raw)
AnswersTo(raw) == {BareName(raw), Address(raw)}

Folded(name) ==
    [i \in DOMAIN name |-> IF name[i] \in DOMAIN LowerCase THEN LowerCase[name[i]] ELSE name[i]]
AnswersFolded(raw) == {Folded(name) : name \in AnswersTo(raw)}

Strength(raw) ==
    CASE raw.place = "extra" -> <<1, -raw.at>>
      [] ~IsCustom(raw) -> <<2, raw.at>>
      [] raw.place = "second" -> <<4, raw.at>>
      [] OTHER -> <<3, raw.at>>
Stronger(a, b) == a[1] < b[1] \/ (a[1] = b[1] /\ a[2] < b[2])
ItemView(name) ==
    LET named == {raw \in RawEntries : Folded(name) \in AnswersFolded(raw)}
    IN  IF named = {} THEN Nothing
        ELSE CHOOSE raw \in named :
                 \A other \in named \ {raw} :
                     ~Stronger(Strength(other), Strength(raw))

(* item totp: the codes by bare name; the login's own under totp_uri, under *)
(* totp, or both.  Of two of one name either.                              *)
TotpKeys(raw, own) == IF raw.place = "totp_uri" THEN own ELSE {BareName(raw)}
TotpUnder(name, own) == {raw \in RawEntries : IsCode(raw) /\ name \in TotpKeys(raw, own)}

(* pick_totp *)
PickTotpPlain(name, own) ==     \* mutant: the alias of the login's code is not looked up
    IF TotpUnder(name, own) # {} THEN TotpUnder(name, own) ELSE {Nothing}
PickTotp(name, own) ==
    LET alias == IF name = <<"totp_uri">> THEN <<"totp">> ELSE name
    IN  IF TotpUnder(name, own) # {} THEN TotpUnder(name, own)
        ELSE IF TotpUnder(alias, own) # {} THEN TotpUnder(alias, own)
        ELSE {Nothing}                              \* PassError::FieldMissing

----------------------------------------------------------------------------
NoAnswer == [asked |-> Nothing, got |-> Nothing]
ItemsInit ==
    /\ item \in [kind : Kinds, members : {{}}, websites : {0}, titles : Titlings,
                 custom : {[place \in CustomPlaces |-> <<>>]}]
    /\ item.titles = <<<<>>, <<>>>> \/ Holds("custom", "first")
    /\ held = Unlisted /\ answer = NoAnswer

(* The user makes the item.  Bound: no edit after the listing; what a row   *)
(* that is out of date does is the field list's subject.                   *)
Edited(next) ==
    /\ held = Unlisted
    /\ item' = next
    /\ UNCHANGED <<held, answer>>

HoldsMember(m) == \E class \in {"plain", "secret", "unstored", "code"} : Holds(class, m)
Room == Cardinality(RawEntries) < MaxEntries[item.kind]

FillMember ==
    \E m \in Members \ item.members :
        /\ Room /\ HoldsMember(m)
        /\ Edited([item EXCEPT !.members = @ \cup {m}])
AddWebsite ==
    /\ Room /\ Holds("websites", "urls")
    /\ Edited([item EXCEPT !.websites = @ + 1])
AddCustom ==
    \E place \in CustomPlaces, name \in Names, content \in Contents :
        /\ Room /\ Holds("custom", place)
        /\ Edited([item EXCEPT !.custom[place] =
                      Append(@, [name |-> name, content |-> content])])

(* list_all, parse_items: the item is listed, with the summary of it. *)
List ==
    /\ held' = Summary /\ answer' = NoAnswer
    /\ UNCHANGED item

(* start_copy and copy_fetched: by name, whether the value is stored or not. *)
CopyRow ==
    \E row \in Range(AllActions(held)) :
        LET source == row.source
            name == source.entry.name
        IN  /\ answer' \in
                [asked : {source.entry.of},
                 got : IF source.code
                       THEN UNION {PickTotp(name, own) :
                                own \in (SUBSET {<<"totp_uri">>, <<"totp">>}) \ {{}}}
                       ELSE {ItemView(name)}]
            /\ UNCHANGED <<item, held>>

ItemsNext ==
    \/ FillMember \/ AddWebsite \/ AddCustom
    \/ List \/ CopyRow

ItemsSpec == ItemsInit /\ [][ItemsNext]_itemsVars

----------------------------------------------------------------------------
(* An entry no other has the name of, and one that pass-cli, too, can take  *)
(* for no other, in whatever case.                                          *)
Alone(raw) ==
    /\ raw.place # "urls"
    /\ \A other \in RawEntries \ {raw} : Address(raw) \notin AnswersTo(other)
AloneInAnyCase(raw) ==
    /\ raw.place # "urls"
    /\ \A other \in RawEntries \ {raw} : Folded(Address(raw)) \notin AnswersFolded(other)
Readable(raw) == ~IsCustom(raw) \/ CustomOf(raw).content \in {"Hidden", "Totp"}
(* A code no other can be taken for; the login's own has two names. *)
CodeNames(raw) == IF IsCustom(raw) THEN {BareName(raw)} ELSE {<<"totp_uri">>, <<"totp">>}
AloneAmongCodes(raw) ==
    \A other \in RawEntries \ {raw} : IsCode(other) => CodeNames(raw) \cap CodeNames(other) = {}

(* Every field and code that could be told from the others has a row: a     *)
(* namesake costs nobody but its namesakes their row, and a name that       *)
(* differs in case only is none.                                            *)
ReadableIsOffered ==
    held # Unlisted =>
        \A raw \in RawEntries :
            IF IsCode(raw)
            THEN AloneAmongCodes(raw) => \E i \in DOMAIN held.codes : held.codes[i].of = raw
            ELSE Alone(raw) /\ Readable(raw) =>
                     \E i \in DOMAIN held.fields : held.fields[i].of = raw

(* Copying the row of a field that pass-cli can take for no other, in       *)
(* whatever case, or of a code with no namesake among the codes, reaches    *)
(* it, while the item is as it was listed: never another's value under its  *)
(* label (wqx.41).                                                          *)
CopyReachesItsOwn ==
    answer # NoAnswer =>
        LET asked == answer.asked
        IN  (IF IsCode(asked) THEN AloneAmongCodes(asked) ELSE AloneInAnyCase(asked))
                => answer.got = asked

(* The row that shows a shortcut copies what the shortcut copies from the   *)
(* list of items, and every field and code has exactly one row.            *)
ShortcutsCopyTheirRow ==
    LET rows == AllActions(held)
        sources == {rows[i].source : i \in DOMAIN rows}
        shows(i, shortcut, source) == rows[i].shortcut = shortcut => rows[i].source = source
    IN  /\ Cardinality(sources) = Len(rows)
        /\ Len(rows) = Len(held.fields) + Len(held.codes)
        /\ \A i \in DOMAIN rows :
               /\ shows(i, "CopyPrimary", PrimaryAction(held))
               /\ shows(i, "CopyUsername", UsernameAction(held))
               /\ shows(i, "CopyUrl", UrlAction(held))
               /\ shows(i, "CopyTotp", TotpAction(held))
        /\ \A source \in {UsernameAction(held), UrlAction(held), TotpAction(held)} \ {NoSource} :
               \E i \in DOMAIN rows : rows[i].source = source /\ rows[i].shortcut # "none"

----------------------------------------------------------------------------
(* What does not hold: dedupe_selectors compares bytes, so PIN and pin both *)
(* have a row, and both rows reach the one that pass-cli finds.             *)
CaseTellsApart ==
    answer # NoAnswer /\ ~IsCode(answer.asked) /\ Alone(answer.asked) => answer.got = answer.asked

(* pass-cli's map knows no website by the name its row has. *)
WebsiteRowsCopyTheirOwn ==
    answer.asked.place = "urls" => answer.got = answer.asked
=============================================================================
