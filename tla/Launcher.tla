------------------------------ MODULE Launcher ------------------------------
(***************************************************************************)
(* The popup and the result list in it (src/src/app/mod.rs): Surface says   *)
(* when the window is up, Results what it lists.  A key reaches the list    *)
(* while the window is up; whatever closes the window, and every Hide that  *)
(* finds it closed, starts the list anew; listings and preferences arrive   *)
(* either way.                                                              *)
(***************************************************************************)
EXTENDS Surface, Integers, Sequences, FiniteSets

CONSTANTS
    Keys, Title, Atoms, InTitle, InOthers, Listings, Maxima, MaxRecords, Page, NoKey, MaxClock,
    Stored        \* the recent uses of a cache file

(* Items are ordered; config.rs clamps max_results to a range above zero,    *)
(* and usage.rs keeps 200 records.                                          *)
ASSUME LauncherAssumption ==
    /\ IsFiniteSet(Atoms) /\ Keys \subseteq Int /\ NoKey \notin Keys
    /\ Title \in [Keys -> Int]
    /\ InTitle \in [Atoms -> [Keys -> Nat]] /\ InOthers \in [Atoms -> [Keys -> Nat]]
    /\ Listings \subseteq Seq(Keys)
    /\ Maxima \subseteq Nat \ {0} /\ MaxRecords \in Nat \ {0} /\ Page \in Nat
    /\ \A table \in Stored : DOMAIN table \subseteq Keys /\ \A k \in DOMAIN table : table[k] \in Nat

VARIABLES
    items, index, usage, query, results, selected, max, fetched, pending, clock, last

R == INSTANCE Results

surface == <<visible, shown, measuring, recent, focused, inbox, owed>>
list == <<items, index, usage, query, results, selected, max, fetched, pending, clock, last>>
launcher == <<surface, list>>

----------------------------------------------------------------------------
LauncherInit == Init /\ R!Init

(* A Hide starts the view anew, also when it finds none to hide. *)
Kept == UNCHANGED list
KeepsOnUnfocus == OnUnfocused /\ Kept     \* mutant: a lost focus leaves the list
HideOnUnfocus == OnUnfocused /\ R!HideResults

WindowStep ==
    \/ OnActivate /\ IF visible /\ ~recent THEN R!HideResults ELSE Kept
    \/ OnHide /\ R!HideResults
    \/ HideOnUnfocus
    \/ Dismiss /\ R!HideResults
    \/ (OnShow \/ OnFocused \/ DebounceEnds) /\ Kept
    \/ (Press \/ CommandShow \/ CommandHide \/ GainsFocus \/ LosesFocus) /\ Kept

(* on_key, map_key, the search field and RowPressed. *)
ListStep ==
    /\ shown
    /\ \/ \E q \in SUBSET Atoms : R!QueryChanged(q)
       \/ \E n \in DOMAIN results : R!Select(n)
       \/ \E delta \in {-Page, -1, 1, Page} : R!MoveSelection(delta)
       \/ R!StartCopy
    /\ UNCHANGED surface

(* Messages of the other components. *)
DataStep ==
    /\ \/ \E listing \in Listings : R!DataLoaded(listing)
       \/ \E listing \in Listings, table \in Stored : R!CacheLoaded(listing, table)
       \/ R!ClearData
       \/ \E most \in Maxima : R!PrefsLoaded(most)
       \/ R!CopyFetched \/ R!CopyFailed
       \/ R!SecondPasses
    /\ UNCHANGED surface

LauncherNext == WindowStep \/ ListStep \/ DataStep

LauncherSpec == LauncherInit /\ [][LauncherNext]_launcher

----------------------------------------------------------------------------
(* Results, of the open and of the closed window. *)
ResultsAreTheMatches == R!ResultsAreTheMatches
SelectionSurvivesListings == R!SelectionSurvivesListings

(* The window opens on a fresh list: no query of the last time, and the     *)
(* item copied last, if it is still there, on top of it.                    *)
OpensFresh ==
    ~visible =>
        /\ query = {} /\ pending = NoKey
        /\ last # NoKey => items[results[1]] = last
=============================================================================
