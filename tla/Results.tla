------------------------------ MODULE Results ------------------------------
(***************************************************************************)
(* The result list (src/src/core/search.rs, src/src/core/usage.rs and the  *)
(* handlers of src/src/core/state.rs that touch view.results).             *)
(*                                                                         *)
(* A row points into the list of items by position, the selection into the *)
(* rows by position, and both are what a key or a press goes by.  Listings,*)
(* preferences and copies change what is under them at any time.  Rows are *)
(* computed from the items, the query and the recent uses as they are then;*)
(* a use recorded later moves no row until the next computation.           *)
(*                                                                         *)
(* Items are their keys, numbers so that they are ordered.  Positions       *)
(* count from 1.  last is history: the item copied last, while the app is   *)
(* bound to remember it.                                                    *)
(***************************************************************************)
EXTENDS Integers, Sequences, FiniteSets, FiniteSetsExt

CONSTANTS
    Keys,         \* item keys
    Title,        \* sort_title of each, as a number
    Atoms,        \* what a query is made of
    InTitle,      \* the score of an atom in an item's title, 0 for no match
    InOthers,     \* and the best one in its other metadata
    Listings,     \* the item lists pass-cli or the cache file answers
    Maxima,       \* values of max_results
    MaxRecords,   \* usage.rs
    Page,         \* PAGE
    NoKey,        \* None, of an item key
    MaxClock      \* bound: the clock

VARIABLES
    items,        \* data.items
    index,        \* the items the search index was built from
    usage,        \* last_used of the items with a usage record
    query,        \* view.query, a set of atoms
    results,      \* view.results: positions in items
    selected,     \* view.selected
    max,          \* prefs.max_results
    fetched,      \* data.fetched_at is set
    pending,      \* the item a copy is under way of
    clock,
    last

results_ == <<items, index, usage, query, results, selected, max, fetched, pending, clock, last>>

----------------------------------------------------------------------------
(* score_entry: every atom matches the title or another field, and counts   *)
(* its best score; a title counts double.                                  *)
AtomScore(atom, key) ==
    LET title == 2 * InTitle[atom][key]
    IN  IF title > InOthers[atom][key] THEN title ELSE InOthers[atom][key]
Matches(q, key) == \A atom \in q : AtomScore(atom, key) > 0
Score(q, key) == MapThenSumSet(LAMBDA atom : AtomScore(atom, key), q)

(* UsageTable::recency: None is before every time. *)
Recency(table, key) == IF key \in DOMAIN table THEN table[key] ELSE -1

(* search: by score, recency, title and position. *)
Less(left, right) ==
    \E c \in DOMAIN left : left[c] < right[c] /\ \A d \in 1..(c - 1) : left[d] = right[d]

Search(q, entries, listing, table, most) ==
    LET rows == {n \in DOMAIN entries : Matches(q, entries[n])}
        order == [n \in rows |-> <<-Score(q, entries[n]), -Recency(table, listing[n]),
                                   Title[entries[n]], n>>]
        rank == [n \in rows |-> Cardinality({m \in rows : Less(order[m], order[n])}) + 1]
        shown == IF Cardinality(rows) < most THEN Cardinality(rows) ELSE most
    IN  [r \in 1..shown |-> CHOOSE n \in rows : rank[n] = r]

(* recompute_results, on what the handler leaves behind. *)
Clamped(position) ==
    IF position <= Len(results') THEN position ELSE IF results' = <<>> THEN 1 ELSE Len(results')
Recompute == results' = Search(query', index', items', usage', max')

SelectedKey == IF selected \in DOMAIN results THEN items[results[selected]] ELSE NoKey

----------------------------------------------------------------------------
(* usage.rs: record, evict, prune. *)
Newer(table, a, b) == table[a] > table[b] \/ (table[a] = table[b] /\ a > b)
Evict(table) ==
    [key \in {k \in DOMAIN table :
                 Cardinality({j \in DOMAIN table : Newer(table, j, k)}) < MaxRecords}
        |-> table[key]]
Record(table, key) ==
    Evict([k \in DOMAIN table \cup {key} |-> IF k = key THEN clock ELSE table[k]])
Only(table, keys) == [key \in DOMAIN table \cap keys |-> table[key]]
Prune(table, listing) == Only(table, {listing[n] : n \in DOMAIN listing})
NoUsage == [key \in {} |-> 0]

(* What the app is bound to remember. *)
Listed(listing) == {listing[n] : n \in DOMAIN listing}
StillLast(listing) == IF last \in Listed(listing) THEN last ELSE NoKey

----------------------------------------------------------------------------
Init ==
    /\ items = <<>> /\ index = <<>> /\ usage = NoUsage
    /\ query = {} /\ results = <<>> /\ selected = 1
    /\ max \in Maxima
    /\ fetched = FALSE /\ pending = NoKey /\ clock = 0 /\ last = NoKey

(* The keys and presses of the open window. *)
QueryChanged(q) ==
    /\ query' = q /\ selected' = 1
    /\ UNCHANGED <<items, index, usage, max, fetched, pending, clock, last>>
    /\ Recompute

Select(n) ==
    /\ n \in DOMAIN results
    /\ selected' = n
    /\ UNCHANGED <<items, index, usage, query, results, max, fetched, pending, clock, last>>

MoveSelection(delta) ==
    LET moved == selected + delta
    IN  /\ results # <<>>
        /\ selected' = IF moved < 1 THEN 1 ELSE IF moved > Len(results) THEN Len(results) ELSE moved
        /\ UNCHANGED <<items, index, usage, query, results, max, fetched, pending, clock, last>>

(* copy_with, start_copy: of the selected item. *)
StartCopy ==
    /\ SelectedKey # NoKey
    /\ pending' = SelectedKey
    /\ UNCHANGED <<items, index, usage, query, results, selected, max, fetched, clock, last>>

(* copy_fetched, finish_copy: no row moves.  A later use of another item is *)
(* what last is forgotten for; one of the same second does not count.      *)
CopyFetched ==
    /\ pending # NoKey
    /\ usage' = Record(usage, pending)
    /\ pending' = NoKey
    /\ last' = IF pending \in Listed(items) /\ \A k \in DOMAIN usage : usage[k] < clock
               THEN pending ELSE NoKey
    /\ UNCHANGED <<items, index, query, results, selected, max, fetched, clock>>
CopyFailed ==
    /\ pending # NoKey /\ pending' = NoKey
    /\ UNCHANGED <<items, index, usage, query, results, selected, max, fetched, clock, last>>

(* hide: the view is a new one. *)
HideResults ==
    /\ query' = {} /\ selected' = 1 /\ pending' = NoKey
    /\ UNCHANGED <<items, index, usage, max, fetched, clock, last>>
    /\ Recompute

(* replace_items: the selected item stays selected if it is still there.    *)
ReselectByPosition(key) == selected' = Clamped(selected)     \* mutant: the row stays selected
Reselect(key) ==
    selected' = IF \E n \in DOMAIN results' : items'[results'[n]] = key
                THEN CHOOSE n \in DOMAIN results' : items'[results'[n]] = key
                ELSE 1
ReplaceItems(listing, table) ==
    /\ items' = listing /\ index' = listing
    /\ usage' = Prune(table, listing)
    /\ Recompute
    /\ Reselect(SelectedKey)

DataLoaded(listing) ==
    /\ UNCHANGED <<query, max, pending, clock>>
    /\ fetched' = TRUE
    /\ last' = StillLast(listing)
    /\ ReplaceItems(listing, usage)

(* cache_loaded, with the uses the file has; only before a listing. *)
CacheLoaded(listing, table) ==
    /\ ~fetched
    /\ UNCHANGED <<query, max, fetched, pending, clock>>
    /\ last' = NoKey
    /\ ReplaceItems(listing, Evict(table))

(* clear_data *)
ClearLeavingRows ==     \* mutant: the rows point at items that are gone
    /\ items' = <<>> /\ index' = <<>> /\ usage' = NoUsage
    /\ selected' = 1
    /\ fetched' = FALSE /\ last' = NoKey
    /\ UNCHANGED <<query, results, max, pending, clock>>
ClearData ==
    /\ items' = <<>> /\ index' = <<>> /\ usage' = NoUsage
    /\ selected' = 1
    /\ fetched' = FALSE /\ last' = NoKey
    /\ UNCHANGED <<query, max, pending, clock>>
    /\ Recompute

(* apply_prefs *)
PrefsLoaded(most) ==
    /\ most # max
    /\ max' = most
    /\ UNCHANGED <<items, index, usage, query, fetched, pending, clock, last>>
    /\ Recompute
    /\ selected' = Clamped(selected)

SecondPasses ==
    /\ clock < MaxClock /\ clock' = clock + 1
    /\ UNCHANGED <<items, index, usage, query, results, selected, max, fetched, pending, last>>

----------------------------------------------------------------------------
(* The rows are what the query asks for: each is a listed item that         *)
(* matches, none is there twice, no match is missing while there is room,   *)
(* and a better match never comes after a worse one.  The selection is one  *)
(* of them.                                                                 *)
ResultsAreTheMatches ==
    LET matches == {n \in DOMAIN items : Matches(query, items[n])}
        rows == {results[r] : r \in DOMAIN results}
        score(n) == Score(query, items[n])
    IN  /\ rows \subseteq matches
        /\ Cardinality(rows) = Len(results)
        /\ Len(results) <= max
        /\ Len(results) < max => rows = matches
        /\ \A n \in matches \ rows, m \in rows : score(n) <= score(m)
        /\ \A r, s \in DOMAIN results : r < s => score(results[s]) <= score(results[r])
        /\ selected \in DOMAIN results \/ (results = <<>> /\ selected = 1)

(* A listing takes the highlight off an item only with the item: Enter,     *)
(* pressed as the list is replaced under it, copies what was highlighted.   *)
Replaced == items' # items \/ fetched' # fetched
SelectionSurvivesListings ==
    [][Replaced /\ SelectedKey \in {items'[results'[n]] : n \in DOMAIN results'}
          => SelectedKey' = SelectedKey]_results_
=============================================================================
