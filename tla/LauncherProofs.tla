--------------------------- MODULE LauncherProofs ---------------------------
(***************************************************************************)
(* Theorems about the window and what it lists: Surface, Launcher, Items.  *)
(*                                                                         *)
(* Surface: a request that owes a closed popup has, while that is up, its   *)
(* message on the way; once it is down an activation still under way finds  *)
(* it hidden just now, provided it is prompt (Closing).                    *)
(*                                                                         *)
(* Launcher: search ranks the matches by a strict order, so that every      *)
(* rank is taken once and the row r is the match of rank r (SearchRanks);   *)
(* the list is always what search found in what is there now (Listing), and *)
(* of a closed window, what it would find for an empty query (ClosedAfresh).*)
(*                                                                         *)
(* Items: fill's order of an item's entries is strict, so that InOrder, too, *)
(* lists every entry of a summary once; no other name is that of what no    *)
(* other can be taken for (AloneKeepsItsName), so it stays listed, and what *)
(* its name reaches is it (ViewReachesTheField, TotpReachesTheCode).        *)
(***************************************************************************)
EXTENDS Launcher, Items, FiniteSetTheorems, SequenceTheorems, WellFoundedInduction, TLAPS

Types == visible \in BOOLEAN /\ shown \in BOOLEAN /\ recent \in BOOLEAN /\ measuring \in BOOLEAN

Window == Types /\ ReducerKnowsSurface /\ MeasuresThisOpening

Closing ==
    owed = "closed" =>
        /\ "Show" \notin inbox
        /\ shown => "Hide" \in inbox \/ "Activate" \in inbox
        /\ ~shown /\ "Activate" \in inbox => recent

----------------------------------------------------------------------------
LEMMA HideLeaves == Window /\ HideWindow => Window' /\ ~shown' /\ (shown \/ recent => recent')
  <1> SUFFICES ASSUME Window, HideWindow PROVE Window' /\ ~shown' /\ (shown \/ recent => recent')
    OBVIOUS
  <1>1. CASE shown
    <2>1. visible' = FALSE /\ shown' = FALSE /\ recent' = TRUE /\ measuring' = FALSE
      BY <1>1, Zenon DEF HideWindow, MeasureDropped
    <2>2. QED
      BY <2>1, Zenon DEF Window, Types, ReducerKnowsSurface, MeasuresThisOpening
  <1>2. CASE ~shown
    <2>1. visible' = FALSE /\ shown' = shown /\ recent' = recent /\ measuring' = measuring
      BY <1>2, Zenon DEF HideWindow
    <2>2. shown = FALSE
      BY <1>2, Zenon DEF Window, Types
    <2>3. QED
      BY <1>2, <2>1, <2>2, Zenon DEF Window, Types, ReducerKnowsSurface, MeasuresThisOpening
  <1>3. QED
    BY <1>1, <1>2, Zenon

LEMMA ShowLeaves == Window /\ ShowWindow => Window'
  <1> SUFFICES ASSUME Window, ShowWindow PROVE Window'
    OBVIOUS
  <1>1. CASE visible
    BY <1>1, Zenon DEF ShowWindow, window, Window, Types, ReducerKnowsSurface, MeasuresThisOpening
  <1>2. CASE ~visible /\ recent
    <2>1. shown' = shown /\ measuring' = measuring /\ recent' = recent /\ visible' = FALSE
      BY <1>2, Zenon DEF ShowWindow, OpenSurface, Refused
    <2>2. visible = FALSE
      BY <1>2, Zenon DEF Window, Types
    <2>3. QED
      BY <1>2, <2>1, <2>2, Zenon DEF Window, Types, ReducerKnowsSurface, MeasuresThisOpening
  <1>3. CASE ~visible /\ ~recent
    <2>1. visible' = TRUE /\ shown' = TRUE /\ measuring' = ~shown /\ recent' = recent
      BY <1>3, Zenon DEF ShowWindow, OpenSurface
    <2>2. (~shown) \in BOOLEAN
      BY Zenon
    <2>3. QED
      BY <1>3, <2>1, <2>2, Zenon DEF Window, Types, ReducerKnowsSurface, MeasuresThisOpening
  <1>4. QED
    BY <1>1, <1>2, <1>3, Zenon

LEMMA ActivateLeaves == Window /\ Activate => Window' /\ (shown => ~shown') /\ (~shown /\ recent => ~shown')
  <1> SUFFICES ASSUME Window, Activate PROVE Window' /\ (shown => ~shown') /\ (~shown /\ recent => ~shown')
    OBVIOUS
  <1>1. CASE recent
    BY <1>1, Zenon DEF Activate, window, Window, Types, ReducerKnowsSurface, MeasuresThisOpening
  <1>2. CASE ~recent
    BY <1>2, HideLeaves, ShowLeaves, Zenon DEF Activate, ToggleAlways, Window, ReducerKnowsSurface
  <1>3. QED
    BY <1>1, <1>2, Zenon

LEMMA NextWindow == Window /\ [Next]_vars => Window'
  <1> SUFFICES ASSUME Window, [Next]_vars PROVE Window'
    OBVIOUS
  <1>1. CASE HideWindow \/ ShowWindow \/ Activate
    BY <1>1, HideLeaves, ShowLeaves, ActivateLeaves, Zenon
  <1>2. CASE OnFocused
    <2>1. visible' = visible /\ shown' = shown /\ recent' = recent /\ measuring' = FALSE
      BY <1>2, Zenon DEF OnFocused
    <2>2. QED
      BY <2>1, Zenon DEF Window, Types, ReducerKnowsSurface, MeasuresThisOpening
  <1>3. CASE DebounceEnds
    <2>1. visible' = visible /\ shown' = shown /\ recent' = FALSE /\ measuring' = measuring
      BY <1>3, Zenon DEF DebounceEnds
    <2>2. QED
      BY <2>1, Zenon DEF Window, Types, ReducerKnowsSurface, MeasuresThisOpening
  <1>4. CASE UNCHANGED window
    BY <1>4, Zenon DEF window, Window, Types, ReducerKnowsSurface, MeasuresThisOpening
  <1>5. QED
    BY <1>1, <1>2, <1>3, <1>4, Zenon
    DEF Next, OnActivate, OnShow, OnHide, OnUnfocused, Dismiss, Press, CommandShow, CommandHide,
        Request, GainsFocus, LosesFocus, vars

LEMMA NextClosing == Prompt /\ Window /\ Closing /\ [Next]_vars => Closing'
  <1> SUFFICES ASSUME Prompt, Window, Closing, [Next]_vars, owed' = "closed"
               PROVE /\ "Show" \notin inbox'
                     /\ shown' => "Hide" \in inbox' \/ "Activate" \in inbox'
                     /\ ~shown' /\ "Activate" \in inbox' => recent'
    BY Zenon DEF Closing
  <1>1. CASE owed = "closed" /\ OnActivate
    <2>1. inbox' = inbox \ {"Activate"} /\ Activate
      BY <1>1, Zenon DEF OnActivate, Handled
    <2>2. ~shown'
      BY <1>1, <2>1, ActivateLeaves, Zenon DEF Closing, OnActivate, Handled
    <2>3. QED
      BY <1>1, <2>1, <2>2 DEF Closing
  <1>2. CASE owed = "closed" /\ (OnHide \/ OnUnfocused)
    <2>1. HideWindow /\ inbox' \subseteq inbox
      BY <1>2 DEF OnHide, OnUnfocused, Handled
    <2>2. ~shown' /\ (shown \/ recent => recent')
      BY <2>1, HideLeaves, Zenon
    <2>3. QED
      BY <1>2, <2>1, <2>2 DEF Closing
  <1>3. CASE owed = "closed" /\ (OnFocused \/ GainsFocus)
    <2>1. /\ shown' = shown /\ recent' = recent
          /\ \A msg \in {"Show", "Hide", "Activate"} : msg \in inbox' <=> msg \in inbox
      BY <1>3 DEF OnFocused, GainsFocus, Handled, window
    <2>2. QED
      BY <1>3, <2>1 DEF Closing
  <1>4. CASE owed = "closed" /\ DebounceEnds
    <2>1. shown' = shown /\ inbox' = inbox /\ "Activate" \notin inbox
      BY <1>4, Zenon DEF DebounceEnds
    <2>2. QED
      BY <1>4, <2>1, Zenon DEF Closing
  <1>5. CASE Press
    <2>1. shown' = shown /\ inbox = {} /\ (inbox' = {"Activate"} \/ inbox' = {"Activate", "Unfocused"}) /\ shown
      BY <1>5 DEF Press, Request, window
    <2>2. QED
      BY <2>1
  <1>6. CASE CommandHide
    <2>1. inbox' = {"Hide"}
      BY <1>6 DEF CommandHide, Request
    <2>2. QED
      BY <2>1
  <1>7. CASE UNCHANGED vars
    BY <1>7, Zenon DEF vars, window, Closing
  <1>8. ~OnShow /\ ~Dismiss /\ ~LosesFocus /\ ~CommandShow
    <2>1. CASE OnShow
      BY <2>1, Zenon DEF OnShow, Handled, Closing
    <2>2. CASE Dismiss \/ LosesFocus
      BY <2>2 DEF Dismiss, LosesFocus
    <2>3. CASE CommandShow
      BY <2>3 DEF CommandShow, Request
    <2>4. QED
      BY <2>1, <2>2, <2>3, Zenon
  <1>9. OnActivate \/ OnHide \/ OnUnfocused \/ OnFocused \/ GainsFocus \/ DebounceEnds => owed = "closed"
    BY Zenon DEF OnActivate, OnHide, OnUnfocused, OnFocused, GainsFocus, DebounceEnds
  <1>10. QED
    BY <1>1, <1>2, <1>3, <1>4, <1>5, <1>6, <1>7, <1>8, <1>9, Zenon DEF Next

----------------------------------------------------------------------------
THEOREM WindowInvariant == Spec => []Window
  <1>1. Init => Window
    <2> SUFFICES ASSUME Init PROVE Window
      OBVIOUS
    <2>1. visible \in BOOLEAN /\ shown = visible /\ measuring = shown /\ recent = FALSE
      BY Zenon DEF Init
    <2>2. QED
      BY <2>1, Zenon DEF Window, Types, ReducerKnowsSurface, MeasuresThisOpening
  <1>2. QED
    BY <1>1, NextWindow, PTL DEF Spec

(* The reducer and the surface agree, whatever is refused. *)
THEOREM SurfaceFollowsReducer == Spec => []ReducerKnowsSurface
  <1>1. Window => ReducerKnowsSurface
    BY DEF Window
  <1>2. QED
    BY <1>1, WindowInvariant, PTL

(* No measurement outlives its opening. *)
THEOREM OnlyThisOpeningIsMeasured == Spec => []MeasuresThisOpening
  <1>1. Window => MeasuresThisOpening
    BY DEF Window
  <1>2. QED
    BY <1>1, WindowInvariant, PTL

(* When activations are prompt, a press on the open popup closes it. *)
THEOREM PressAlwaysCloses == ASSUME Prompt PROVE Spec => []PressCloses
  <1>1. Init => Closing
    BY Zenon DEF Init, Closing
  <1>2. Window /\ Closing /\ [Next]_vars => Closing'
    BY NextClosing, Prompt, Zenon
  <1>3. Closing => PressCloses
    BY DEF Closing, PressCloses
  <1>4. QED
    BY <1>1, <1>2, <1>3, WindowInvariant, PTL DEF Spec

----------------------------------------------------------------------------
(* Induction over the numbers, as a fact about sets. *)
LEMMA LeastNumber ==
    ASSUME NEW T \in SUBSET Nat, T # {}
    PROVE  \E x \in T : \A y \in T : x <= y
  <1> DEFINE less == OpToRel(<, Nat)
  <1>1. less = {ss \in Nat \X Nat : ss[1] < ss[2]}
    BY Zenon DEF OpToRel
  <1>2. \E x \in T : \A y \in T : <<y, x>> \notin less
    <2> HIDE DEF less
    <2>1. IsWellFoundedOn(less, Nat)
      BY NatLessThanWellFounded, Zenon DEF less
    <2>2. QED
      BY <2>1, WFMin, Zenon
  <1>3. PICK x \in T : \A y \in T : <<y, x>> \notin less
    BY <1>2
  <1>4. \A y \in T : ~(y < x)
    <2> HIDE DEF less
    <2> QED
    BY <1>1, <1>3
  <1>5. QED
    BY <1>4

LEMMA SetInduction ==
    ASSUME NEW T \in SUBSET Nat, 0 \in T, \A n \in T : n + 1 \in T
    PROVE  T = Nat
  <1> SUFFICES ASSUME Nat \ T # {} PROVE FALSE
    OBVIOUS
  <1>1. PICK x \in Nat \ T : \A y \in Nat \ T : x <= y
    BY LeastNumber
  <1>2. x - 1 \in T
    BY <1>1
  <1>3. QED
    BY <1>1, <1>2

----------------------------------------------------------------------------
(* ord orders S: it is transitive, irreflexive and total on S. *)
Orders(ord, S) ==
    /\ \A a \in S : <<a, a>> \notin ord
    /\ \A a, b, c \in S : <<a, b>> \in ord /\ <<b, c>> \in ord => <<a, c>> \in ord
    /\ \A a, b \in S : a # b => <<a, b>> \in ord \/ <<b, a>> \in ord

Below(ord, S, a) == {b \in S : <<b, a>> \in ord}
RankIn(ord, S, a) == Cardinality(Below(ord, S, a)) + 1

LEMMA RankBounds ==
    ASSUME NEW S, IsFiniteSet(S), NEW ord, Orders(ord, S), NEW a \in S
    PROVE  /\ RankIn(ord, S, a) \in 1..Cardinality(S)
           /\ IsFiniteSet(Below(ord, S, a)) /\ Cardinality(Below(ord, S, a)) \in Nat
  <1>1. IsFiniteSet(S \ {a}) /\ Cardinality(S \ {a}) = Cardinality(S) - 1
    BY FS_RemoveElement
  <1>2. Below(ord, S, a) \subseteq S \ {a}
    BY DEF Below, Orders
  <1>3. /\ IsFiniteSet(Below(ord, S, a))
        /\ Cardinality(Below(ord, S, a)) <= Cardinality(S) - 1
        /\ Cardinality(Below(ord, S, a)) \in Nat
    BY <1>1, <1>2, FS_Subset, FS_CardinalityType
  <1>4. QED
    BY <1>3, FS_CardinalityType DEF RankIn

LEMMA RankKeepsOrder ==
    ASSUME NEW S, IsFiniteSet(S), NEW ord, Orders(ord, S), NEW a \in S, NEW b \in S, <<a, b>> \in ord
    PROVE  RankIn(ord, S, a) < RankIn(ord, S, b)
  <1>1. Below(ord, S, a) \cup {a} \subseteq Below(ord, S, b) /\ a \notin Below(ord, S, a)
    BY DEF Below, Orders
  <1>2. Cardinality(Below(ord, S, a) \cup {a}) = Cardinality(Below(ord, S, a)) + 1
        /\ IsFiniteSet(Below(ord, S, a) \cup {a})
    BY <1>1, RankBounds, FS_AddElement
  <1>3. Cardinality(Below(ord, S, a) \cup {a}) <= Cardinality(Below(ord, S, b))
    BY <1>1, RankBounds, FS_Subset
  <1>4. QED
    BY <1>2, <1>3, RankBounds DEF RankIn

LEMMA RankReflectsOrder ==
    ASSUME NEW S, IsFiniteSet(S), NEW ord, Orders(ord, S), NEW a \in S, NEW b \in S
    PROVE  /\ RankIn(ord, S, a) < RankIn(ord, S, b) => <<a, b>> \in ord
           /\ RankIn(ord, S, a) = RankIn(ord, S, b) => a = b
  <1>1. <<a, b>> \in ord \/ <<b, a>> \in ord \/ a = b
    BY DEF Orders
  <1>2. RankIn(ord, S, a) \in Int /\ RankIn(ord, S, b) \in Int
    BY RankBounds
  <1>3. QED
    BY <1>1, <1>2, RankKeepsOrder

LEMMA EveryRankIsTaken ==
    ASSUME NEW S, IsFiniteSet(S), NEW ord, Orders(ord, S), NEW r \in 1..Cardinality(S)
    PROVE  \E a \in S : RankIn(ord, S, a) = r
  <1> DEFINE rank == [a \in S |-> RankIn(ord, S, a)]
             ranks == {rank[a] : a \in S}
  <1>1. rank \in [S -> 1..Cardinality(S)]
    BY RankBounds
  <1>2. \A a, b \in S : rank[a] = rank[b] => a = b
    BY RankReflectsOrder
  <1>3. rank \in Bijection(S, ranks)
    BY <1>2 DEF Bijection, Injection, Surjection, IsInjective
  <1>4. IsFiniteSet(ranks) /\ Cardinality(ranks) = Cardinality(S)
    <2> HIDE DEF rank, ranks
    <2>1. ExistsBijection(S, ranks)
      BY <1>3 DEF ExistsBijection
    <2>2. QED
      BY <2>1, FS_Bijection
  <1>5. IsFiniteSet(1..Cardinality(S)) /\ Cardinality(1..Cardinality(S)) = Cardinality(S)
    BY FS_Interval, FS_CardinalityType
  <1>6. ranks \subseteq 1..Cardinality(S)
    BY <1>1
  <1>7. ranks = 1..Cardinality(S)
    BY <1>4, <1>5, <1>6, FS_Subset
  <1>8. QED
    BY <1>7

----------------------------------------------------------------------------
(* A score is a number: MapThenSumSet is a recursive function on the        *)
(* subsets of the query, defined for all of them.                          *)
LEMMA ScoresAreWhole == IsFiniteSet(Atoms) /\ \A a \in Atoms, k \in Keys : R!AtomScore(a, k) \in Int
  <1>1. ASSUME NEW a \in Atoms, NEW k \in Keys PROVE R!AtomScore(a, k) \in Int
    <2>1. InTitle[a][k] \in Nat /\ InOthers[a][k] \in Nat
      BY LauncherAssumption
    <2>2. QED
      BY <2>1 DEF R!AtomScore
  <1>2. QED
    BY <1>1, LauncherAssumption

(* One step of the sum. *)
Term(q, k, g, s) == IF s = {} THEN 0 ELSE R!AtomScore(CHOOSE x \in s : TRUE, k) + g[s \ {CHOOSE x \in s : TRUE}]

LEMMA SumStep ==
    ASSUME NEW q \in SUBSET Atoms, NEW k \in Keys, NEW s \in SUBSET q, s # {},
           NEW g \in [SUBSET q -> Int]
    PROVE  \E x \in s : /\ Term(q, k, g, s) = R!AtomScore(x, k) + g[s \ {x}]
                        /\ Term(q, k, g, s) \in Int
                        /\ s \ {x} \in SUBSET q /\ s \ {x} # s
                        /\ IsFiniteSet(s) /\ Cardinality(s \ {x}) = Cardinality(s) - 1
  <1> DEFINE x == CHOOSE x \in s : TRUE
  <1>1. x \in s
    OBVIOUS
  <1>2. IsFiniteSet(s)
    BY ScoresAreWhole, FS_Subset
  <1>3. Cardinality(s \ {x}) = Cardinality(s) - 1
    BY <1>1, <1>2, FS_RemoveElement
  <1>4. Term(q, k, g, s) = R!AtomScore(x, k) + g[s \ {x}]
    BY DEF Term
  <1> HIDE DEF x
  <1>5. s \ {x} \in SUBSET q /\ s \ {x} # s
    BY <1>1
  <1>6. g[s \ {x}] \in Int /\ R!AtomScore(x, k) \in Int
    BY <1>1, <1>5, ScoresAreWhole
  <1>7. Term(q, k, g, s) \in Int
    BY <1>4, <1>6
  <1>8. QED
    BY <1>1, <1>2, <1>3, <1>4, <1>5, <1>7, Zenon

LEMMA Approximation ==
    ASSUME NEW q \in SUBSET Atoms, NEW k \in Keys, NEW n \in Nat
    PROVE  \E g \in [SUBSET q -> Int] :
              \A s \in SUBSET q : Cardinality(s) <= n => g[s] = Term(q, k, g, s)
  <1> DEFINE Good(g, m) == \A s \in SUBSET q : Cardinality(s) <= m => g[s] = Term(q, k, g, s)
             T == {m \in Nat : \E g \in [SUBSET q -> Int] : Good(g, m)}
  <1>0. \A s \in SUBSET q : IsFiniteSet(s) /\ Cardinality(s) \in Nat
    BY ScoresAreWhole, FS_Subset, FS_CardinalityType
  <1>1. 0 \in T
    <2> DEFINE g == [s \in SUBSET q |-> 0]
    <2>1. Good(g, 0)
      <3> SUFFICES ASSUME NEW s \in SUBSET q, Cardinality(s) <= 0 PROVE g[s] = Term(q, k, g, s)
        OBVIOUS
      <3>1. s = {}
        BY <1>0, FS_EmptySet
      <3>2. QED
        BY <3>1 DEF Term
    <2>2. g \in [SUBSET q -> Int]
      OBVIOUS
    <2>3. QED
      <3> HIDE DEF g, Good
      <3> QED
      BY <2>1, <2>2
  <1>2. ASSUME NEW m \in T PROVE m + 1 \in T
    <2>1. PICK g \in [SUBSET q -> Int] : Good(g, m)
      BY <1>2
    <2> DEFINE h == [s \in SUBSET q |-> IF Cardinality(s) <= m THEN g[s] ELSE Term(q, k, g, s)]
    <2>2. h \in [SUBSET q -> Int]
      <3> SUFFICES ASSUME NEW s \in SUBSET q PROVE Term(q, k, g, s) \in Int
        OBVIOUS
      <3>1. CASE s = {}
        BY <3>1 DEF Term
      <3>2. CASE s # {}
        BY <3>2, SumStep
      <3>3. QED
        BY <3>1, <3>2
    <2>3. ASSUME NEW s \in SUBSET q, Cardinality(s) <= m + 1 PROVE h[s] = Term(q, k, h, s)
      <3>1. h[s] = Term(q, k, g, s)
        BY <2>1
      <3>2. Term(q, k, h, s) = Term(q, k, g, s)
        <4>1. CASE s = {}
          BY <4>1 DEF Term
        <4>2. CASE s # {}
          <5> DEFINE x == CHOOSE x \in s : TRUE
          <5>1. x \in s
            BY <4>2
          <5>2. Cardinality(s \ {x}) = Cardinality(s) - 1 /\ s \ {x} \in SUBSET q
            BY <1>0, <5>1, FS_RemoveElement
          <5>3. h[s \ {x}] = g[s \ {x}]
            <6> HIDE DEF x
            <6> QED
            BY <1>0, <1>2, <2>3, <5>2
          <5>4. QED
            BY <4>2, <5>3 DEF Term
        <4>3. QED
          BY <4>1, <4>2
      <3>3. QED
        BY <3>1, <3>2
    <2>4. QED
      <3> HIDE DEF h
      <3>1. Good(h, m + 1)
        BY <2>3
      <3>2. QED
        <4> HIDE DEF Good
        <4> QED
        BY <1>2, <2>2, <3>1
  <1>3. T = Nat
    <2> HIDE DEF T
    <2>1. T \in SUBSET Nat
      BY DEF T
    <2>2. QED
      BY <1>1, <1>2, <2>1, SetInduction
  <1>4. QED
    BY <1>3

LEMMA ScoreIsInt ==
    ASSUME NEW q \in SUBSET Atoms, NEW k \in Keys
    PROVE  R!Score(q, k) \in Int
  <1> DEFINE sum == CHOOSE g : g = [s \in SUBSET q |-> IF s = {} THEN 0
                                       ELSE LET x == CHOOSE x \in s : TRUE IN R!AtomScore(x,k) + g[s \ {x}]]
  <1>1. R!Score(q, k) = sum[q]
    BY DEF R!Score, R!MapThenSumSet, R!MapThenFoldSet
  <1>2. PICK g \in [SUBSET q -> Int] :
           \A s \in SUBSET q : Cardinality(s) <= Cardinality(q) => g[s] = Term(q, k, g, s)
    <2>1. Cardinality(q) \in Nat
      BY ScoresAreWhole, FS_Subset, FS_CardinalityType
    <2>2. QED
      BY <2>1, Approximation
  <1>3. \A s \in SUBSET q : g[s] = Term(q, k, g, s)
    BY <1>2, ScoresAreWhole, FS_Subset
  <1>4. g = [s \in SUBSET q |-> IF s = {} THEN 0
                                       ELSE LET x == CHOOSE x \in s : TRUE IN R!AtomScore(x,k) + g[s \ {x}]]
    BY <1>3 DEF Term
  <1>5. sum = [s \in SUBSET q |-> IF s = {} THEN 0
                                       ELSE LET x == CHOOSE x \in s : TRUE IN R!AtomScore(x,k) + sum[s \ {x}]]
    BY <1>4
  <1> HIDE DEF sum
  <1> DEFINE T == {m \in Nat : \A s \in SUBSET q : Cardinality(s) = m => sum[s] \in Int}
  <1>0. \A s \in SUBSET q : IsFiniteSet(s) /\ Cardinality(s) \in Nat
    BY ScoresAreWhole, FS_Subset, FS_CardinalityType
  <1>7. 0 \in T
    <2> SUFFICES ASSUME NEW s \in SUBSET q, Cardinality(s) = 0 PROVE sum[s] \in Int
      OBVIOUS
    <2>1. s = {}
      BY <1>0, FS_EmptySet
    <2>2. QED
      BY <2>1, <1>5
  <1>8. ASSUME NEW m \in T PROVE m + 1 \in T
    <2> SUFFICES ASSUME NEW s \in SUBSET q, Cardinality(s) = m + 1 PROVE sum[s] \in Int
      OBVIOUS
    <2> DEFINE x == CHOOSE x \in s : TRUE
    <2>0. s # {} /\ m \in Nat
      BY FS_EmptySet
    <2>1. x \in s
      BY <2>0
    <2>2. sum[s] = R!AtomScore(x, k) + sum[s \ {x}]
      BY <1>5, <2>0
    <2> HIDE DEF x
    <2>3. Cardinality(s \ {x}) = m /\ s \ {x} \in SUBSET q
      BY <1>0, <2>0, <2>1, FS_RemoveElement
    <2>4. sum[s \ {x}] \in Int /\ R!AtomScore(x, k) \in Int
      BY <1>8, <2>1, <2>3, ScoresAreWhole
    <2>5. QED
      BY <2>2, <2>4
  <1>9. T = Nat
    <2> HIDE DEF T
    <2>1. T \in SUBSET Nat
      BY DEF T
    <2>2. QED
      BY <1>7, <1>8, <2>1, SetInduction
  <1>10. QED
    BY <1>0, <1>1, <1>9

LEMMA ScoreOfNothing == ASSUME NEW k \in Keys PROVE R!Score({}, k) = 0
  <1> DEFINE sum == CHOOSE g : g = [s \in SUBSET {} |-> IF s = {} THEN 0
                        ELSE LET x == CHOOSE x \in s : TRUE IN R!AtomScore(x, k) + g[s \ {x}]]
  <1>1. R!Score({}, k) = sum[{}]
    BY DEF R!Score, R!MapThenSumSet, R!MapThenFoldSet
  <1> DEFINE zero == [s \in SUBSET {} |-> 0]
  <1>2. zero = [s \in SUBSET {} |-> IF s = {} THEN 0
                        ELSE LET x == CHOOSE x \in s : TRUE IN R!AtomScore(x, k) + zero[s \ {x}]]
    BY SMT
  <1>3. sum = [s \in SUBSET {} |-> IF s = {} THEN 0
                        ELSE LET x == CHOOSE x \in s : TRUE IN R!AtomScore(x, k) + sum[s \ {x}]]
    <2> HIDE DEF zero
    <2> QED BY <1>2
  <1>4. QED
    <2> HIDE DEF sum
    <2> QED BY <1>1, <1>3

----------------------------------------------------------------------------
(* The rows search ranks, the order it ranks them by, and what it is given. *)
Rows(q, entries) == {n \in DOMAIN entries : R!Matches(q, entries[n])}
Order(q, entries, table, n) ==
    <<-R!Score(q, entries[n]), -R!Recency(table, entries[n]), Title[entries[n]], n>>
Before(q, entries, table) ==
    {p \in Rows(q, entries) \X Rows(q, entries) :
        R!Less(Order(q, entries, table, p[1]), Order(q, entries, table, p[2]))}
Rank(q, entries, table, n) == RankIn(Before(q, entries, table), Rows(q, entries), n)

IsTable(table) == DOMAIN table \subseteq Keys /\ \A k \in DOMAIN table : table[k] \in Nat

(* What search is given, for the lemmas below. *)
Asked(q, entries, table) == q \in SUBSET Atoms /\ entries \in Seq(Keys) /\ IsTable(table)

LEMMA OrderIsWhole ==
    ASSUME NEW q, NEW entries, NEW table, Asked(q, entries, table), NEW n \in DOMAIN entries
    PROVE  /\ entries[n] \in Keys /\ n \in Nat
           /\ R!Score(q, entries[n]) \in Int /\ R!Recency(table, entries[n]) \in Int
           /\ Title[entries[n]] \in Int
  <1>1. entries[n] \in Keys /\ n \in Nat
    BY DEF Asked
  <1>2. R!Score(q, entries[n]) \in Int
    BY <1>1, ScoreIsInt DEF Asked
  <1>3. R!Recency(table, entries[n]) \in Int
    BY DEF R!Recency, IsTable, Asked
  <1>4. QED
    BY <1>1, <1>2, <1>3, LauncherAssumption

LEMMA BeforeMeans ==
    ASSUME NEW q, NEW entries, NEW table, Asked(q, entries, table),
           NEW a \in Rows(q, entries), NEW b \in Rows(q, entries)
    PROVE  <<a, b>> \in Before(q, entries, table) <=>
              \/ R!Score(q, entries[a]) > R!Score(q, entries[b])
              \/ /\ R!Score(q, entries[a]) = R!Score(q, entries[b])
                 /\ \/ R!Recency(table, entries[a]) > R!Recency(table, entries[b])
                    \/ /\ R!Recency(table, entries[a]) = R!Recency(table, entries[b])
                       /\ \/ Title[entries[a]] < Title[entries[b]]
                          \/ Title[entries[a]] = Title[entries[b]] /\ a < b
  <1>1. a \in DOMAIN entries /\ b \in DOMAIN entries
    BY DEF Rows
  <1>2. /\ R!Score(q, entries[a]) \in Int /\ R!Recency(table, entries[a]) \in Int
        /\ Title[entries[a]] \in Int /\ a \in Int
        /\ R!Score(q, entries[b]) \in Int /\ R!Recency(table, entries[b]) \in Int
        /\ Title[entries[b]] \in Int /\ b \in Int
    BY <1>1, OrderIsWhole
  <1>3. <<a, b>> \in Before(q, entries, table) <=>
        R!Less(Order(q, entries, table, a), Order(q, entries, table, b))
    BY DEF Before
  <1> DEFINE sa == R!Score(q, entries[a])
             sb == R!Score(q, entries[b])
             ra == R!Recency(table, entries[a])
             rb == R!Recency(table, entries[b])
             ta == Title[entries[a]]
             tb == Title[entries[b]]
  <1>4. /\ Order(q, entries, table, a) = <<-sa, -ra, ta, a>>
        /\ Order(q, entries, table, b) = <<-sb, -rb, tb, b>>
    BY DEF Order
  <1>5. sa \in Int /\ sb \in Int /\ ra \in Int /\ rb \in Int /\ ta \in Int /\ tb \in Int
    BY <1>2
  <1> HIDE DEF sa, sb, ra, rb, ta, tb
  <1>6. R!Less(<<-sa, -ra, ta, a>>, <<-sb, -rb, tb, b>>) <=>
           \/ sa > sb
           \/ sa = sb /\ (ra > rb \/ (ra = rb /\ (ta < tb \/ (ta = tb /\ a < b))))
    <2> DEFINE left == <<-sa, -ra, ta, a>>
               right == <<-sb, -rb, tb, b>>
               At(c) == left[c] < right[c] /\ \A d \in 1..(c - 1) : left[d] = right[d]
    <2>1. DOMAIN left = 1..4 /\ \A c \in 1..4 : c = 1 \/ c = 2 \/ c = 3 \/ c = 4
      OBVIOUS
    <2>2. R!Less(left, right) <=> \E c \in 1..4 : At(c)
      BY <2>1, Zenon DEF R!Less
    <2>3. /\ At(1) <=> sa > sb
          /\ At(2) <=> sa = sb /\ ra > rb
          /\ At(3) <=> sa = sb /\ ra = rb /\ ta < tb
          /\ At(4) <=> sa = sb /\ ra = rb /\ ta = tb /\ a < b
      <3>1. 1..(1 - 1) = {} /\ 1..(2 - 1) = {1} /\ 1..(3 - 1) = {1, 2} /\ 1..(4 - 1) = {1, 2, 3}
        OBVIOUS
      <3>2. QED
        BY <1>2, <1>5, <3>1
    <2> HIDE DEF At, left, right
    <2>4. (\E c \in 1..4 : At(c)) <=> At(1) \/ At(2) \/ At(3) \/ At(4)
      <3>1. 1 \in 1..4 /\ 2 \in 1..4 /\ 3 \in 1..4 /\ 4 \in 1..4
        OBVIOUS
      <3>2. QED
        BY <2>1, <3>1, Zenon
    <2>5. QED
      BY <2>2, <2>3, <2>4 DEF left, right
  <1>7. <<a, b>> \in Before(q, entries, table) <=>
           \/ sa > sb
           \/ sa = sb /\ (ra > rb \/ (ra = rb /\ (ta < tb \/ (ta = tb /\ a < b))))
    BY <1>3, <1>4, <1>6, Zenon
  <1>8. QED
    BY <1>7, Zenon DEF sa, sb, ra, rb, ta, tb

LEMMA RowsAreOrdered ==
    ASSUME NEW q, NEW entries, NEW table, Asked(q, entries, table)
    PROVE  /\ Orders(Before(q, entries, table), Rows(q, entries))
           /\ IsFiniteSet(Rows(q, entries)) /\ Cardinality(Rows(q, entries)) \in Nat
  <1> DEFINE S == Rows(q, entries)
             ord == Before(q, entries, table)
             sc(n) == R!Score(q, entries[n])
             re(n) == R!Recency(table, entries[n])
             ti(n) == Title[entries[n]]
  <1>1. \A n \in S : sc(n) \in Int /\ re(n) \in Int /\ ti(n) \in Int /\ n \in Int
    BY OrderIsWhole DEF Rows
  <1>2. \A a, b \in S : <<a, b>> \in ord <=>
              \/ sc(a) > sc(b)
              \/ /\ sc(a) = sc(b)
                 /\ re(a) > re(b) \/ (re(a) = re(b) /\ (ti(a) < ti(b) \/ (ti(a) = ti(b) /\ a < b)))
    BY BeforeMeans
  <1>3. IsFiniteSet(S) /\ Cardinality(S) \in Nat
    <2>1. S \subseteq 1..Len(entries) /\ Len(entries) \in Nat
      BY DEF Rows, Asked
    <2>2. IsFiniteSet(1..Len(entries))
      BY <2>1, FS_Interval
    <2>3. QED
      BY <2>1, <2>2, FS_Subset, FS_CardinalityType
  <1> HIDE DEF S, ord, sc, re, ti
  <1>4. ASSUME NEW a \in S PROVE <<a, a>> \notin ord
    BY <1>1, <1>2
  <1>5. ASSUME NEW a \in S, NEW b \in S, NEW c \in S, <<a, b>> \in ord, <<b, c>> \in ord
        PROVE  <<a, c>> \in ord
    BY <1>1, <1>2, <1>5
  <1>6. ASSUME NEW a \in S, NEW b \in S, a # b PROVE <<a, b>> \in ord \/ <<b, a>> \in ord
    BY <1>1, <1>2, <1>6
  <1>7. Orders(ord, S)
    BY <1>4, <1>5, <1>6 DEF Orders
  <1>8. QED
    BY <1>3, <1>7 DEF S, ord

(* FiniteSets is one module, also as Results knows it. *)
LEMMA SameSize == ASSUME NEW S PROVE R!Cardinality(S) = Cardinality(S)
  BY Zenon DEF R!Cardinality, Cardinality

(* The rows of a search: row r is the match of rank r, as far as they go.   *)
LEMMA SearchRanks ==
    ASSUME NEW q, NEW entries, NEW table, Asked(q, entries, table), NEW most \in Nat,
           NEW found, found = R!Search(q, entries, entries, table, most)
    PROVE  /\ found \in Seq(Rows(q, entries))
           /\ Len(found) = IF Cardinality(Rows(q, entries)) < most THEN Cardinality(Rows(q, entries)) ELSE most
           /\ \A r \in DOMAIN found : found[r] \in Rows(q, entries) /\ Rank(q, entries, table, found[r]) = r
  <1> DEFINE S == Rows(q, entries)
             order == [n \in S |-> <<-R!Score(q, entries[n]), -R!Recency(table, entries[n]), Title[entries[n]], n>>]
             rank == [n \in S |-> R!Cardinality({m \in S : R!Less(order[m], order[n])}) + 1]
             pick(r) == CHOOSE n \in S : rank[n] = r
             size == IF R!Cardinality(S) < most THEN R!Cardinality(S) ELSE most
  <1>1. found = [r \in 1..size |-> pick(r)]
    BY DEF R!Search, Rows
  <1>2. Orders(Before(q, entries, table), S) /\ IsFiniteSet(S) /\ Cardinality(S) \in Nat
    BY RowsAreOrdered
  <1>3. \A n \in S : rank[n] = Rank(q, entries, table, n)
    <2> SUFFICES ASSUME NEW n \in S PROVE rank[n] = Rank(q, entries, table, n)
      OBVIOUS
    <2>1. {m \in S : R!Less(order[m], order[n])} = Below(Before(q, entries, table), S, n)
      BY DEF Below, Before, Order
    <2>2. rank[n] = Cardinality({m \in S : R!Less(order[m], order[n])}) + 1
      <3>1. rank[n] = R!Cardinality({m \in S : R!Less(order[m], order[n])}) + 1
        BY Zenon
      <3>2. QED
        BY <3>1, SameSize, Zenon
    <2> HIDE DEF order, rank
    <2>3. QED
      BY <2>1, <2>2, Zenon DEF Rank, RankIn, S
  <1> HIDE DEF S, order, rank
  <1>4. size \in Nat /\ \A r \in 1..size : r \in 1..Cardinality(S)
    BY <1>2, SameSize
  <1>5. ASSUME NEW r \in 1..size PROVE found[r] \in S /\ Rank(q, entries, table, found[r]) = r
    <2>1. \E n \in S : rank[n] = r
      <3>1. r \in 1..Cardinality(S)
        BY <1>4
      <3>2. \E n \in S : RankIn(Before(q, entries, table), S, n) = r
        BY <1>2, <3>1, EveryRankIsTaken
      <3>3. QED
        BY <1>3, <3>2 DEF Rank, S
    <2>2. found[r] = pick(r)
      <3> HIDE DEF pick
      <3> QED
      BY <1>1
    <2>3. found[r] \in S /\ rank[found[r]] = r
      BY <2>1, <2>2
    <2>4. QED
      BY <1>3, <2>3
  <1> HIDE DEF size, pick
  <1>6. DOMAIN found = 1..size /\ found \in [1..size -> S]
    BY <1>1, <1>5
  <1>7. found \in Seq(S) /\ Len(found) = size
    BY <1>4, <1>6
  <1>8. QED
    BY <1>5, <1>6, <1>7, SameSize DEF S, size

(* What search finds: matches, each once, the best of them and in order.    *)
AreMatches(q, entries, most, found) ==
    LET matches == Rows(q, entries)
        rows == {found[r] : r \in DOMAIN found}
    IN  /\ rows \subseteq matches
        /\ Cardinality(rows) = Len(found)
        /\ Len(found) <= most
        /\ Len(found) < most => rows = matches
        /\ \A n \in matches \ rows, m \in rows : R!Score(q, entries[n]) <= R!Score(q, entries[m])
        /\ \A r, s \in DOMAIN found : r < s => R!Score(q, entries[found[s]]) <= R!Score(q, entries[found[r]])

LEMMA SearchFindsMatches ==
    ASSUME NEW q, NEW entries, NEW table, Asked(q, entries, table), NEW most \in Nat,
           NEW found, found = R!Search(q, entries, entries, table, most)
    PROVE  AreMatches(q, entries, most, found)
  <1> DEFINE S == Rows(q, entries)
             rank(n) == Rank(q, entries, table, n)
             score(n) == R!Score(q, entries[n])
             rows == {found[r] : r \in DOMAIN found}
  <1>1. /\ found \in Seq(S)
        /\ Len(found) = IF Cardinality(S) < most THEN Cardinality(S) ELSE most
        /\ \A r \in DOMAIN found : found[r] \in S /\ rank(found[r]) = r
    BY SearchRanks
  <1>2. Orders(Before(q, entries, table), S) /\ IsFiniteSet(S) /\ Cardinality(S) \in Nat
    BY RowsAreOrdered
  <1>3. \A n \in S : rank(n) \in 1..Cardinality(S) /\ score(n) \in Int
    BY <1>2, RankBounds, OrderIsWhole DEF Rank, Rows
  <1>4. ASSUME NEW m \in S, NEW n \in S, rank(m) < rank(n) PROVE score(n) <= score(m)
    <2>1. <<m, n>> \in Before(q, entries, table)
      BY <1>2, <1>4, RankReflectsOrder DEF Rank
    <2>2. QED
      BY <1>3, <2>1, BeforeMeans
  <1>5. ASSUME NEW m \in S, NEW n \in S, rank(m) = rank(n) PROVE m = n
    BY <1>2, <1>5, RankReflectsOrder DEF Rank
  <1> HIDE DEF S, rank, score
  <1>6. Len(found) \in Nat /\ DOMAIN found = 1..Len(found) /\ rows \subseteq S
    BY <1>1
  <1>7. ASSUME NEW n \in S, rank(n) <= Len(found) PROVE n \in rows
    <2>1. rank(n) \in DOMAIN found
      BY <1>3, <1>6, <1>7
    <2>2. found[rank(n)] \in S /\ rank(found[rank(n)]) = rank(n)
      BY <1>1, <2>1
    <2>3. found[rank(n)] = n
      BY <1>5, <2>2
    <2>4. QED
      BY <2>1, <2>3
  <1>8. Cardinality(rows) = Len(found)
    <2>1. \A r, s \in DOMAIN found : found[r] = found[s] => r = s
      BY <1>1
    <2>2. found \in Bijection(1..Len(found), rows)
      <3>1. found \in [1..Len(found) -> rows]
        BY <1>1, <1>6
      <3> HIDE DEF rows
      <3>2. \A t \in rows : \E r \in 1..Len(found) : found[r] = t
        BY <1>6 DEF rows
      <3>3. QED
        BY <1>6, <2>1, <3>1, <3>2 DEF Bijection, Injection, Surjection, IsInjective
    <2> HIDE DEF rows
    <2>3. IsFiniteSet(1..Len(found)) /\ Cardinality(1..Len(found)) = Len(found)
      <3> DEFINE size == Len(found)
      <3>1. 1 \in Int /\ size \in Int /\ size \in Nat
        BY <1>6
      <3> HIDE DEF size
      <3>2. IsFiniteSet(1..size) /\ Cardinality(1..size) = IF 1 > size THEN 0 ELSE size - 1 + 1
        BY <3>1, FS_Interval
      <3>3. Cardinality(1..size) = size
        BY <3>1, <3>2
      <3>4. QED
        BY <3>2, <3>3 DEF size
    <2>4. ExistsBijection(1..Len(found), rows)
      BY <2>2 DEF ExistsBijection
    <2>5. QED
      BY <2>3, <2>4, FS_Bijection
  <1>9. Len(found) <= most /\ (Len(found) < most => rows = S)
    <2>1. Len(found) <= most /\ (Len(found) < most => Len(found) = Cardinality(S))
      BY <1>1, <1>2
    <2>2. ASSUME Len(found) < most, NEW n \in S PROVE n \in rows
      BY <1>3, <1>7, <2>1, <2>2
    <2>3. QED
      BY <1>6, <2>1, <2>2
  <1>10. ASSUME NEW n \in S \ rows, NEW m \in rows PROVE score(n) <= score(m)
    <2>1. rank(n) > Len(found)
      BY <1>3, <1>6, <1>7
    <2>2. m \in S /\ rank(m) <= Len(found) /\ rank(m) \in Nat
      BY <1>1, <1>3, <1>6
    <2>3. QED
      BY <1>3, <1>4, <1>6, <2>1, <2>2
  <1>11. ASSUME NEW r \in DOMAIN found, NEW s \in DOMAIN found, r < s
         PROVE  score(found[s]) <= score(found[r])
    BY <1>1, <1>4, <1>11
  <1>12. QED
    <2> HIDE DEF rows
    <2>1. /\ rows \subseteq S /\ Cardinality(rows) = Len(found)
          /\ Len(found) <= most /\ (Len(found) < most => rows = S)
          /\ \A n \in S \ rows, m \in rows : score(n) <= score(m)
          /\ \A r, s \in DOMAIN found : r < s => score(found[s]) <= score(found[r])
      BY <1>6, <1>8, <1>9, <1>10, <1>11
    <2>2. QED
      BY <2>1, Zenon DEF AreMatches, S, rows, score

(* The most recent use of a listed item comes first when nothing is asked.  *)
LEMMA LatestComesFirst ==
    ASSUME NEW entries, NEW table, Asked({}, entries, table), NEW most \in Nat \ {0},
           NEW found, found = R!Search({}, entries, entries, table, most),
           NEW key \in DOMAIN table, \A k \in DOMAIN table \ {key} : table[k] < table[key],
           NEW at \in DOMAIN entries, entries[at] = key
    PROVE  entries[found[1]] = key
  <1> DEFINE S == Rows({}, entries)
             top == found[1]
  <1>1. \A n \in DOMAIN entries : n \in S
    BY DEF Rows, R!Matches
  <1>2. /\ found \in Seq(S)
        /\ Len(found) = IF Cardinality(S) < most THEN Cardinality(S) ELSE most
        /\ \A r \in DOMAIN found : found[r] \in S /\ Rank({}, entries, table, found[r]) = r
    BY SearchRanks
  <1>3. Orders(Before({}, entries, table), S) /\ IsFiniteSet(S) /\ Cardinality(S) \in Nat
    BY RowsAreOrdered
  <1>4. at \in S /\ Cardinality(S) # 0
    BY <1>1, <1>3, FS_EmptySet
  <1>5. 1 \in DOMAIN found
    BY <1>2, <1>3, <1>4
  <1>6. top \in S /\ Rank({}, entries, table, top) = 1
    BY <1>2, <1>5
  <1>7. <<at, top>> \notin Before({}, entries, table)
    <2>1. SUFFICES ASSUME <<at, top>> \in Before({}, entries, table) PROVE FALSE
      OBVIOUS
    <2>2. Rank({}, entries, table, at) < Rank({}, entries, table, top)
      BY <1>3, <1>4, <1>6, <2>1, RankKeepsOrder DEF Rank
    <2>3. Rank({}, entries, table, at) \in 1..Cardinality(S)
      BY <1>3, <1>4, RankBounds DEF Rank
    <2>4. QED
      BY <1>3, <1>6, <2>2, <2>3
  <1>8. entries[at] \in Keys /\ entries[top] \in Keys
    BY <1>6, OrderIsWhole DEF Rows
  <1>9. R!Score({}, entries[at]) = R!Score({}, entries[top])
    BY <1>8, ScoreOfNothing
  <1>10. R!Recency(table, entries[at]) <= R!Recency(table, entries[top])
    <2>1. ~(R!Recency(table, entries[at]) > R!Recency(table, entries[top]))
      BY <1>4, <1>6, <1>7, <1>9, BeforeMeans
    <2>2. R!Recency(table, entries[at]) \in Int /\ R!Recency(table, entries[top]) \in Int
      BY <1>6, OrderIsWhole DEF Rows
    <2>3. QED
      BY <2>1, <2>2
  <1>11. QED
    BY <1>8, <1>10 DEF R!Recency, Asked, IsTable

----------------------------------------------------------------------------
(* What holds of the list: it is what search found when it last ran, and    *)
(* what it points into has not changed since (Listing).                     *)
Found == results \in Seq(Rows(query, items)) /\ AreMatches(query, items, max, results)

Data ==
    /\ items \in Seq(Keys) /\ index = items /\ IsTable(usage)
    /\ query \in SUBSET Atoms /\ max \in Nat \ {0}
    /\ pending \in Keys \cup {NoKey} /\ clock \in Nat

Pointed == selected \in DOMAIN results \/ (results = <<>> /\ selected = 1)

Listing == Data /\ Found /\ Pointed

(* The recent uses single out the item copied last. *)
Remembered ==
    last # NoKey =>
        /\ last \in R!Listed(items) /\ last \in DOMAIN usage
        /\ \A k \in DOMAIN usage \ {last} : usage[k] < usage[last]

(* A closed window lists what it would list now. *)
ClosedAfresh ==
    ~visible => query = {} /\ pending = NoKey /\ results = R!Search({}, items, items, usage, max)

ListFrame == <<items, index, usage, query, results, selected, max, pending, clock>>

LEMMA EvictKeeps ==
    ASSUME NEW table, IsTable(table)
    PROVE  /\ IsTable(R!Evict(table)) /\ DOMAIN R!Evict(table) \subseteq DOMAIN table
           /\ \A k \in DOMAIN R!Evict(table) : R!Evict(table)[k] = table[k]
           /\ \A key \in DOMAIN table :
                 (\A k \in DOMAIN table \ {key} : table[k] < table[key]) => key \in DOMAIN R!Evict(table)
  <1>1. R!Evict(table) = [key \in {k \in DOMAIN table :
            R!Cardinality({j \in DOMAIN table : R!Newer(table, j, k)}) < MaxRecords} |-> table[key]]
    BY Zenon DEF R!Evict
  <1>2. /\ DOMAIN R!Evict(table) \subseteq DOMAIN table
        /\ \A k \in DOMAIN R!Evict(table) : R!Evict(table)[k] = table[k]
    BY <1>1
  <1>3. IsTable(R!Evict(table))
    BY <1>2 DEF IsTable
  <1>4. ASSUME NEW key \in DOMAIN table, \A k \in DOMAIN table \ {key} : table[k] < table[key]
        PROVE  key \in DOMAIN R!Evict(table)
    <2>1. ASSUME NEW j \in DOMAIN table PROVE ~R!Newer(table, j, key)
      <3>1. table[j] \in Nat /\ table[key] \in Nat /\ j \in Int /\ key \in Int
        BY LauncherAssumption DEF IsTable
      <3>2. QED
        BY <1>4, <3>1 DEF R!Newer
    <2>2. {j \in DOMAIN table : R!Newer(table, j, key)} = {}
      BY <2>1, Zenon
    <2>3. R!Cardinality({j \in DOMAIN table : R!Newer(table, j, key)}) < MaxRecords
      <3>1. R!Cardinality({}) = 0
        BY SameSize, FS_EmptySet
      <3>2. 0 < MaxRecords
        BY LauncherAssumption
      <3>3. QED
        BY <2>2, <3>1, <3>2
    <2>4. QED
      BY <1>1, <2>3
  <1>5. QED
    BY <1>2, <1>3, <1>4

LEMMA RecomputeFinds ==
    ASSUME Data', R!Recompute
    PROVE  Found' /\ results' \in Seq(Nat) /\ results' = R!Search(query', items', items', usage', max')
  <1> DEFINE q == query'
             entries == items'
             table == usage'
             most == max'
             found == results'
  <1>1. Asked(q, entries, table) /\ most \in Nat /\ index' = items'
    BY DEF Data, Asked
  <1>2. found = R!Search(q, entries, entries, table, most)
    BY <1>1 DEF R!Recompute
  <1>3. found \in Seq(Rows(q, entries))
    <2> HIDE DEF q, entries, table, most, found
    <2> QED
    BY <1>1, <1>2, SearchRanks
  <1>4. AreMatches(q, entries, most, found)
    <2> HIDE DEF q, entries, table, most, found
    <2> QED
    BY <1>1, <1>2, SearchFindsMatches
  <1>5. \A n \in Rows(q, entries) : n \in Nat
    <2> HIDE DEF q, entries, table, most, found
    <2> QED
    BY <1>1, OrderIsWhole DEF Rows
  <1>6. found \in Seq(Nat)
    <2> HIDE DEF q, entries, table, most, found
    <2> QED
    BY <1>3, <1>5
  <1>7. QED
    BY <1>2, <1>3, <1>4, <1>6 DEF Found

(* A list that is not touched stays as it is. *)
LEMMA ListStays == Listing /\ UNCHANGED ListFrame => Listing'
  BY DEF Listing, Data, Found, Pointed, ListFrame

LEMMA ClampedIsARow ==
    ASSUME NEW position \in Nat \ {0}, results' \in Seq(Nat), selected' = R!Clamped(position)
    PROVE  Pointed'
  <1>1. CASE results' = <<>>
    BY <1>1 DEF R!Clamped, Pointed
  <1>2. CASE results' # <<>>
    <2>1. Len(results') \in Nat \ {0} /\ DOMAIN results' = 1..Len(results')
      BY <1>2
    <2>2. QED
      BY <1>2, <2>1 DEF R!Clamped, Pointed
  <1>3. QED
    BY <1>1, <1>2

LEMMA TopIsARow == ASSUME results' \in Seq(Nat), selected' = 1 PROVE Pointed'
  <1>1. CASE results' = <<>>
    BY <1>1 DEF Pointed
  <1>2. CASE results' # <<>>
    BY <1>2 DEF Pointed
  <1>3. QED
    BY <1>1, <1>2

----------------------------------------------------------------------------
(* What each step does to the list. *)
Edits ==
    \/ \E q \in SUBSET Atoms : R!QueryChanged(q)
    \/ \E n \in DOMAIN results : R!Select(n)
    \/ \E delta \in {-Page, -1, 1, Page} : R!MoveSelection(delta)
    \/ R!StartCopy

Arrives ==
    \/ \E listing \in Listings : R!DataLoaded(listing)
    \/ \E listing \in Listings, table \in Stored : R!CacheLoaded(listing, table)
    \/ R!ClearData
    \/ \E most \in Maxima : R!PrefsLoaded(most)
    \/ R!CopyFetched \/ R!CopyFailed
    \/ R!SecondPasses

LEMMA StepOfTheList ==
    [LauncherNext]_launcher => (Edits /\ shown /\ UNCHANGED surface) \/ (Arrives /\ UNCHANGED surface)
                                  \/ R!HideResults \/ UNCHANGED list
  <1>1. WindowStep => R!HideResults \/ UNCHANGED list
    BY Zenon DEF WindowStep, Kept, HideOnUnfocus
  <1>2. ListStep => Edits /\ shown /\ UNCHANGED surface
    BY Zenon DEF ListStep, Edits
  <1>3. DataStep => Arrives /\ UNCHANGED surface
    BY Zenon DEF DataStep, Arrives
  <1>4. UNCHANGED launcher => UNCHANGED list
    BY Zenon DEF launcher
  <1>5. QED
    BY <1>1, <1>2, <1>3, <1>4, Zenon DEF LauncherNext

(* The item the selection is on is one. *)
LEMMA SelectedIsAnItem == Listing => R!SelectedKey \in Keys \cup {NoKey}
  <1> SUFFICES ASSUME Listing PROVE R!SelectedKey \in Keys \cup {NoKey}
    OBVIOUS
  <1>1. CASE selected \in DOMAIN results
    <2>1. results[selected] \in Rows(query, items)
      BY <1>1 DEF Listing, Found
    <2>2. items[results[selected]] \in Keys
      BY <2>1 DEF Rows, Listing, Data
    <2>3. QED
      BY <1>1, <2>2 DEF R!SelectedKey
  <1>2. CASE selected \notin DOMAIN results
    BY <1>2 DEF R!SelectedKey
  <1>3. QED
    BY <1>1, <1>2

LEMMA EditKeepsListing == Listing /\ Edits => Listing'
  <1> SUFFICES ASSUME Listing, Edits PROVE Listing'
    OBVIOUS
  <1>1. CASE \E q \in SUBSET Atoms : R!QueryChanged(q)
    <2>1. PICK q \in SUBSET Atoms : R!QueryChanged(q)
      BY <1>1
    <2>2. Data' /\ R!Recompute /\ selected' = 1
      BY <2>1 DEF R!QueryChanged, Listing, Data, IsTable
    <2>3. QED
      BY <2>2, RecomputeFinds, TopIsARow DEF Listing
  <1>2. CASE \E n \in DOMAIN results : R!Select(n)
    <2>1. PICK n \in DOMAIN results : R!Select(n)
      BY <1>2
    <2>2. UNCHANGED <<items, index, usage, query, results, max, pending, clock>> /\ selected' \in DOMAIN results'
      BY <2>1 DEF R!Select
    <2>3. QED
      BY <2>2 DEF Listing, Data, Found, Pointed
  <1>3. CASE \E delta \in {-Page, -1, 1, Page} : R!MoveSelection(delta)
    <2>1. PICK delta \in {-Page, -1, 1, Page} : R!MoveSelection(delta)
      BY <1>3
    <2>2. UNCHANGED <<items, index, usage, query, results, max, pending, clock>>
      BY <2>1 DEF R!MoveSelection
    <2>3. results # <<>> /\ results \in Seq(Rows(query, items))
      BY <2>1 DEF R!MoveSelection, Listing, Found
    <2>4. Len(results) \in Nat \ {0} /\ DOMAIN results = 1..Len(results)
      BY <2>3
    <2>5. delta \in Int /\ selected \in Int
      <3>1. delta \in Int
        BY LauncherAssumption
      <3>2. QED
        BY <2>3, <2>4, <3>1 DEF Listing, Pointed
    <2>6. selected' \in DOMAIN results
      BY <2>1, <2>4, <2>5 DEF R!MoveSelection
    <2>7. QED
      BY <2>2, <2>6 DEF Listing, Data, Found, Pointed
  <1>4. CASE R!StartCopy
    <2>1. UNCHANGED <<items, index, usage, query, results, selected, max, clock>>
          /\ pending' \in Keys \cup {NoKey}
      BY <1>4, SelectedIsAnItem DEF R!StartCopy
    <2>2. QED
      BY <2>1 DEF Listing, Data, Found, Pointed
  <1>5. QED
    BY <1>1, <1>2, <1>3, <1>4 DEF Edits

LEMMA HideKeepsListing == Listing /\ R!HideResults => Listing'
  <1> SUFFICES ASSUME Listing, R!HideResults PROVE Listing'
    OBVIOUS
  <1>1. Data' /\ R!Recompute /\ selected' = 1
    BY DEF R!HideResults, Listing, Data, IsTable
  <1>2. QED
    BY <1>1, RecomputeFinds, TopIsARow DEF Listing

(* A list of items replaced, under a selection that is found again. *)
LEMMA ReplaceKeepsListing ==
    ASSUME Listing, NEW listing \in Listings, NEW table, IsTable(table),
           R!ReplaceItems(listing, table), UNCHANGED <<query, max, pending, clock>>
    PROVE  Listing'
  <1>1. listing \in Seq(Keys)
    BY LauncherAssumption
  <1>2. IsTable(usage')
    <2>1. usage' = [key \in DOMAIN table \cap {listing[n] : n \in DOMAIN listing} |-> table[key]]
      BY Zenon DEF R!ReplaceItems, R!Prune, R!Only
    <2>2. QED
      BY <2>1 DEF IsTable
  <1>3. Data'
    BY <1>1, <1>2 DEF R!ReplaceItems, Listing, Data, IsTable
  <1>4. Found' /\ results' \in Seq(Nat)
    BY <1>3, RecomputeFinds DEF R!ReplaceItems
  <1>5. Pointed'
    <2> DEFINE key == R!SelectedKey
    <2>1. R!Reselect(key)
      BY DEF R!ReplaceItems
    <2>2. CASE \E n \in DOMAIN results' : items'[results'[n]] = key
      <3>1. selected' = CHOOSE n \in DOMAIN results' : items'[results'[n]] = key
        BY <2>1, <2>2, Zenon DEF R!Reselect
      <3>2. selected' \in DOMAIN results'
        BY <2>2, <3>1, Zenon
      <3>3. QED
        BY <3>2 DEF Pointed
    <2>3. CASE ~\E n \in DOMAIN results' : items'[results'[n]] = key
      <3>1. selected' = 1
        BY <2>1, <2>3, Zenon DEF R!Reselect
      <3>2. QED
        BY <1>4, <3>1, TopIsARow
    <2>4. QED
      BY <2>2, <2>3
  <1>6. QED
    BY <1>3, <1>4, <1>5 DEF Listing

LEMMA ArrivalKeepsListing == Listing /\ Arrives => Listing'
  <1> SUFFICES ASSUME Listing, Arrives PROVE Listing'
    OBVIOUS
  <1>1. CASE \E listing \in Listings : R!DataLoaded(listing)
    <2>1. PICK listing \in Listings : R!DataLoaded(listing)
      BY <1>1
    <2>2. R!ReplaceItems(listing, usage) /\ UNCHANGED <<query, max, pending, clock>> /\ IsTable(usage)
      BY <2>1 DEF R!DataLoaded, Listing, Data
    <2>3. QED
      BY <2>2, ReplaceKeepsListing
  <1>2. CASE \E listing \in Listings, table \in Stored : R!CacheLoaded(listing, table)
    <2>1. PICK listing \in Listings, table \in Stored : R!CacheLoaded(listing, table)
      BY <1>2
    <2>2. IsTable(R!Evict(table))
      <3>1. IsTable(table)
        BY LauncherAssumption DEF IsTable
      <3>2. QED
        BY <3>1, EvictKeeps
    <2>3. R!ReplaceItems(listing, R!Evict(table)) /\ UNCHANGED <<query, max, pending, clock>>
      BY <2>1 DEF R!CacheLoaded
    <2>4. QED
      BY <2>2, <2>3, ReplaceKeepsListing
  <1>3. CASE R!ClearData
    <2>1. Data' /\ R!Recompute /\ selected' = 1
      BY <1>3 DEF R!ClearData, Listing, Data, IsTable, R!NoUsage
    <2>2. QED
      BY <2>1, RecomputeFinds, TopIsARow DEF Listing
  <1>4. CASE \E most \in Maxima : R!PrefsLoaded(most)
    <2>1. PICK most \in Maxima : R!PrefsLoaded(most)
      BY <1>4
    <2>2. Data' /\ R!Recompute /\ selected' = R!Clamped(selected)
      BY <2>1, LauncherAssumption DEF R!PrefsLoaded, Listing, Data, IsTable
    <2>3. selected \in Nat \ {0}
      BY DEF Listing, Pointed, Found
    <2>4. QED
      BY <2>2, <2>3, RecomputeFinds, ClampedIsARow DEF Listing
  <1>5. CASE R!CopyFetched
    <2>1. IsTable(usage')
      <3> DEFINE used == [k \in DOMAIN usage \cup {pending} |-> IF k = pending THEN clock ELSE usage[k]]
      <3>1. usage' = R!Evict(used)
        BY <1>5, Zenon DEF R!CopyFetched, R!Record
      <3>2. IsTable(used)
        BY <1>5 DEF R!CopyFetched, Listing, Data, IsTable
      <3> HIDE DEF used
      <3>3. IsTable(R!Evict(used))
        BY <3>2, EvictKeeps
      <3>4. QED
        BY <3>1, <3>3
    <2>2. UNCHANGED <<items, index, query, results, selected, max, clock>> /\ pending' = NoKey
      BY <1>5 DEF R!CopyFetched
    <2>3. QED
      BY <2>1, <2>2 DEF Listing, Data, Found, Pointed, IsTable
  <1>6. CASE R!CopyFailed \/ R!SecondPasses
    <2>1. UNCHANGED <<items, index, usage, query, results, selected, max>>
          /\ pending' \in {pending, NoKey} /\ clock' \in Nat
      BY <1>6 DEF R!CopyFailed, R!SecondPasses, Listing, Data
    <2>2. QED
      BY <2>1 DEF Listing, Data, Found, Pointed
  <1>7. QED
    BY <1>1, <1>2, <1>3, <1>4, <1>5, <1>6 DEF Arrives

LEMMA NextListing == Listing /\ [LauncherNext]_launcher => Listing'
  <1>1. Listing /\ UNCHANGED list => Listing'
    BY ListStays DEF list, ListFrame
  <1>2. QED
    BY <1>1, StepOfTheList, EditKeepsListing, HideKeepsListing, ArrivalKeepsListing, Zenon

----------------------------------------------------------------------------
LEMMA NextRemembered == Listing /\ Remembered /\ [LauncherNext]_launcher => Remembered'
  <1> SUFFICES ASSUME Listing, Remembered, [LauncherNext]_launcher, last' # NoKey
               PROVE  /\ last' \in R!Listed(items') /\ last' \in DOMAIN usage'
                      /\ \A k \in DOMAIN usage' \ {last'} : usage'[k] < usage'[last']
    BY Zenon DEF Remembered, R!Listed
  <1>1. CASE UNCHANGED <<items, usage, last>>
    BY <1>1 DEF Remembered, R!Listed
  <1>2. CASE \E listing \in Listings : R!DataLoaded(listing)
    <2>1. PICK listing \in Listings : R!DataLoaded(listing)
      BY <1>2
    <2>2. last' = last /\ last \in R!Listed(listing)
      BY <2>1 DEF R!DataLoaded, R!StillLast
    <2>3. /\ items' = listing
          /\ usage' = [key \in DOMAIN usage \cap R!Listed(listing) |-> usage[key]]
      BY <2>1, Zenon DEF R!DataLoaded, R!ReplaceItems, R!Prune, R!Only, R!Listed
    <2>4. QED
      <3> DEFINE kept == R!Listed(listing)
      <3>1. R!Listed(items') = kept
        BY <2>3
      <3> HIDE DEF kept
      <3>2. usage' = [key \in DOMAIN usage \cap kept |-> usage[key]] /\ last \in kept
        BY <2>2, <2>3, Zenon DEF kept
      <3>3. QED
        BY <2>2, <3>1, <3>2 DEF Remembered
  <1>3. CASE R!CopyFetched
    <2> DEFINE used == [k \in DOMAIN usage \cup {pending} |-> IF k = pending THEN clock ELSE usage[k]]
    <2>1. usage' = R!Evict(used)
      BY <1>3, Zenon DEF R!CopyFetched, R!Record
    <2>2. /\ last' = pending /\ pending \in R!Listed(items) /\ items' = items
          /\ \A k \in DOMAIN usage : usage[k] < clock
      BY <1>3 DEF R!CopyFetched
    <2>3. /\ IsTable(used) /\ pending \in DOMAIN used
          /\ \A k \in DOMAIN used \ {pending} : used[k] < used[pending]
      BY <1>3, <2>2 DEF R!CopyFetched, Listing, Data, IsTable
    <2> HIDE DEF used
    <2>4. /\ pending \in DOMAIN R!Evict(used) /\ DOMAIN R!Evict(used) \subseteq DOMAIN used
          /\ \A k \in DOMAIN R!Evict(used) : R!Evict(used)[k] = used[k]
      BY <2>3, EvictKeeps
    <2>5. R!Listed(items') = R!Listed(items)
      BY <2>2 DEF R!Listed
    <2>6. QED
      BY <2>1, <2>2, <2>3, <2>4, <2>5
  <1>4. CASE \/ \E listing \in Listings, table \in Stored : R!CacheLoaded(listing, table)
             \/ R!ClearData
    BY <1>4 DEF R!CacheLoaded, R!ClearData
  <1>5. CASE \/ Edits \/ R!HideResults \/ UNCHANGED list
             \/ \E most \in Maxima : R!PrefsLoaded(most)
             \/ R!CopyFailed \/ R!SecondPasses
    <2>1. UNCHANGED <<items, usage, last>>
      BY <1>5 DEF Edits, R!QueryChanged, R!Select, R!MoveSelection, R!StartCopy, R!HideResults, list,
                  R!PrefsLoaded, R!CopyFailed, R!SecondPasses
    <2>2. QED
      BY <1>1, <2>1
  <1>6. QED
    BY <1>2, <1>3, <1>4, <1>5, StepOfTheList, Zenon DEF Arrives

(* A window that is closed was, unless the list is new. *)
LEMMA OnlyHidingCloses == [LauncherNext]_launcher /\ ~R!HideResults /\ ~visible' => ~visible
  <1> SUFFICES ASSUME [LauncherNext]_launcher, ~R!HideResults, ~visible' PROVE ~visible
    OBVIOUS
  <1>1. CASE OnActivate /\ ~(visible /\ ~recent)
    BY <1>1, Zenon DEF OnActivate, Activate, window
  <1>2. CASE OnShow
    BY <1>2, Zenon DEF OnShow, ShowWindow, window
  <1>3. CASE OnFocused \/ DebounceEnds
    BY <1>3, Zenon DEF OnFocused, DebounceEnds
  <1>4. CASE Press \/ CommandShow \/ CommandHide \/ GainsFocus \/ LosesFocus
    BY <1>4, Zenon DEF Press, CommandShow, CommandHide, GainsFocus, LosesFocus, Request, window
  <1>5. CASE ListStep \/ DataStep \/ UNCHANGED launcher
    BY <1>5, Zenon DEF ListStep, DataStep, launcher, surface
  <1>6. QED
    BY <1>1, <1>2, <1>3, <1>4, <1>5, Zenon DEF LauncherNext, WindowStep, HideOnUnfocus

LEMMA NextClosedAfresh ==
    Window /\ Listing /\ Listing' /\ ClosedAfresh /\ [LauncherNext]_launcher => ClosedAfresh'
  <1> SUFFICES ASSUME Window, Listing, Listing', ClosedAfresh, [LauncherNext]_launcher, ~visible'
               PROVE  /\ query' = {} /\ pending' = NoKey
                      /\ results' = R!Search({}, items', items', usage', max')
    BY Zenon DEF ClosedAfresh
  <1>1. CASE R!HideResults
    <2>1. query' = {} /\ pending' = NoKey /\ R!Recompute
      BY <1>1 DEF R!HideResults
    <2>2. QED
      BY <2>1, RecomputeFinds DEF Listing
  <1>2. CASE ~R!HideResults /\ Arrives
    <2>1. ~visible /\ query = {} /\ pending = NoKey
      BY <1>2, OnlyHidingCloses, Zenon DEF ClosedAfresh
    <2>2. CASE \/ \E listing \in Listings : R!DataLoaded(listing)
               \/ \E listing \in Listings, table \in Stored : R!CacheLoaded(listing, table)
               \/ R!ClearData
               \/ \E most \in Maxima : R!PrefsLoaded(most)
      <3>1. query' = query /\ pending' = pending /\ R!Recompute
        BY <2>2, Zenon DEF R!DataLoaded, R!CacheLoaded, R!ReplaceItems, R!ClearData, R!PrefsLoaded
      <3>2. QED
        BY <2>1, <3>1, RecomputeFinds DEF Listing
    <2>3. CASE R!SecondPasses
      BY <2>1, <2>3 DEF R!SecondPasses, ClosedAfresh
    <2>4. ~R!CopyFetched /\ ~R!CopyFailed
      BY <2>1 DEF R!CopyFetched, R!CopyFailed
    <2>5. QED
      BY <1>2, <2>2, <2>3, <2>4, Zenon DEF Arrives
  <1>3. CASE ~R!HideResults /\ UNCHANGED list
    BY <1>3, OnlyHidingCloses DEF ClosedAfresh, list
  <1>4. ~(Edits /\ shown /\ UNCHANGED surface)
    BY Zenon DEF surface, Window, ReducerKnowsSurface, Types
  <1>5. QED
    BY <1>1, <1>2, <1>3, <1>4, StepOfTheList, Zenon

(* The steps of the list leave the window alone, so what is proved of the    *)
(* popup holds beside the list.                                             *)
LEMMA LauncherIsSurface == LauncherSpec => Spec
  <1>1. LauncherInit => Init
    BY DEF LauncherInit
  <1>2. [LauncherNext]_launcher => [Next]_vars
    <2>1. WindowStep => Next
      BY Zenon DEF WindowStep, HideOnUnfocus, Next
    <2>2. ListStep \/ DataStep \/ UNCHANGED launcher => UNCHANGED vars
      BY Zenon DEF ListStep, DataStep, launcher, surface, vars, window
    <2>3. QED
      BY <2>1, <2>2, Zenon DEF LauncherNext
  <1>3. QED
    BY <1>1, <1>2, PTL DEF LauncherSpec, Spec

(* recompute_results, wherever state.rs calls it: the list never lags behind *)
(* what it lists, and a closed window never behind the last use.            *)
THEOREM ListInvariant == LauncherSpec => [](Listing /\ Remembered /\ ClosedAfresh)
  <1>1. LauncherInit => Listing /\ Remembered /\ ClosedAfresh
    <2> SUFFICES ASSUME LauncherInit PROVE Listing /\ Remembered /\ ClosedAfresh
      OBVIOUS
    <2>1. /\ items = <<>> /\ index = <<>> /\ usage = R!NoUsage /\ query = {} /\ results = <<>>
          /\ selected = 1 /\ max \in Maxima /\ pending = NoKey /\ clock = 0 /\ last = NoKey
      BY Zenon DEF LauncherInit, R!Init
    <2>2. Data
      BY <2>1, LauncherAssumption DEF Data, IsTable, R!NoUsage
    <2> DEFINE none == R!Search({}, <<>>, <<>>, usage, max)
    <2>3. Asked({}, <<>>, usage) /\ max \in Nat
      BY <2>1, <2>2 DEF Asked, Data
    <2>4. Rows({}, <<>>) = {}
      BY DEF Rows
    <2>5. none \in Seq(Rows({}, <<>>)) /\ AreMatches({}, <<>>, max, none)
      BY <2>3, SearchRanks, SearchFindsMatches
    <2> HIDE DEF none
    <2>6. none = <<>>
      BY <2>4, <2>5
    <2>7. Found
      BY <2>1, <2>5, <2>6 DEF Found
    <2>8. QED
      BY <2>1, <2>2, <2>6, <2>7 DEF Listing, Pointed, Remembered, ClosedAfresh, none
  <1>2. Window /\ (Listing /\ Remembered /\ ClosedAfresh) /\ [LauncherNext]_launcher
           => (Listing /\ Remembered /\ ClosedAfresh)'
    BY NextListing, NextRemembered, NextClosedAfresh, Zenon
  <1>3. LauncherSpec => []Window
    BY WindowInvariant, LauncherIsSurface, PTL
  <1>4. QED
    BY <1>1, <1>2, <1>3, PTL DEF LauncherSpec

(* The rows are the matches of the query, the best and in order, and the    *)
(* selection is one of them, whatever arrives between two keys.             *)
THEOREM RowsAreTheMatches == LauncherSpec => []ResultsAreTheMatches
  <1>1. Listing => ResultsAreTheMatches
    <2> SUFFICES ASSUME Listing PROVE R!ResultsAreTheMatches
      BY DEF ResultsAreTheMatches
    <2>1. \A S : R!Cardinality(S) = Cardinality(S)
      BY SameSize
    <2>2. AreMatches(query, items, max, results) /\ Pointed
      BY DEF Listing, Found
    <2>3. QED
      BY <2>1, <2>2, Zenon DEF AreMatches, Pointed, Rows, R!ResultsAreTheMatches
  <1>2. QED
    BY <1>1, ListInvariant, PTL

(* A new listing takes the highlight off an item only with the item. *)
THEOREM SelectionStays == LauncherSpec => SelectionSurvivesListings
  <1>1. Listing /\ [LauncherNext]_launcher =>
           [R!Replaced /\ R!SelectedKey \in {items'[results'[n]] : n \in DOMAIN results'}
              => R!SelectedKey' = R!SelectedKey]_(R!results_)
    <2> SUFFICES ASSUME Listing, [LauncherNext]_launcher, R!Replaced,
                        R!SelectedKey \in {items'[results'[n]] : n \in DOMAIN results'}
                 PROVE  R!SelectedKey' = R!SelectedKey
      BY Zenon
    <2> DEFINE key == R!SelectedKey
    <2>1. PICK n \in DOMAIN results' : items'[results'[n]] = key
      OBVIOUS
    <2>2. ASSUME R!Reselect(key) PROVE R!SelectedKey' = key
      <3> HIDE DEF key
      <3>1. selected' = CHOOSE m \in DOMAIN results' : items'[results'[m]] = key
        BY <2>1, <2>2, Zenon DEF R!Reselect
      <3>2. selected' \in DOMAIN results' /\ items'[results'[selected']] = key
        BY <2>1, <3>1, Zenon
      <3>3. QED
        BY <3>2 DEF R!SelectedKey
    <2>3. CASE \/ \E listing \in Listings : R!DataLoaded(listing)
               \/ \E listing \in Listings, table \in Stored : R!CacheLoaded(listing, table)
      BY <2>2, <2>3, Zenon DEF R!DataLoaded, R!CacheLoaded, R!ReplaceItems
    <2>4. ~R!ClearData
      <3>1. SUFFICES ASSUME R!ClearData PROVE FALSE
        OBVIOUS
      <3>2. Listing' /\ items' = <<>>
        BY <3>1, NextListing DEF R!ClearData
      <3>3. results' \in Seq(Rows(query', <<>>)) /\ Rows(query', <<>>) = {}
        BY <3>2 DEF Listing, Found, Rows
      <3>4. QED
        BY <2>1, <3>3
    <2>5. ~(Edits \/ R!HideResults \/ UNCHANGED list \/ R!CopyFetched \/ R!CopyFailed \/ R!SecondPasses
              \/ \E most \in Maxima : R!PrefsLoaded(most))
      BY DEF R!Replaced, Edits, R!QueryChanged, R!Select, R!MoveSelection, R!StartCopy, R!HideResults, list,
             R!CopyFetched, R!CopyFailed, R!SecondPasses, R!PrefsLoaded
    <2>6. QED
      BY <2>3, <2>4, <2>5, StepOfTheList, Zenon DEF Arrives
  <1>2. QED
    BY <1>1, ListInvariant, PTL DEF LauncherSpec, SelectionSurvivesListings, R!SelectionSurvivesListings

(* The window opens on a fresh list, the item copied last on top. *)
THEOREM WindowOpensFresh == LauncherSpec => []OpensFresh
  <1>1. Listing /\ Remembered /\ ClosedAfresh => OpensFresh
    <2> SUFFICES ASSUME Listing, Remembered, ClosedAfresh, ~visible, last # NoKey
                 PROVE  items[results[1]] = last
      BY DEF OpensFresh, ClosedAfresh
    <2>1. /\ last \in R!Listed(items) /\ last \in DOMAIN usage
          /\ \A k \in DOMAIN usage \ {last} : usage[k] < usage[last]
      BY DEF Remembered
    <2>2. PICK at \in DOMAIN items : items[at] = last
      BY <2>1 DEF R!Listed
    <2>3. Asked({}, items, usage) /\ max \in Nat \ {0} /\ results = R!Search({}, items, items, usage, max)
      BY DEF Asked, Listing, Data, ClosedAfresh
    <2>4. QED
      BY <2>1, <2>2, <2>3, LatestComesFirst
  <1>2. QED
    BY <1>1, ListInvariant, PTL

----------------------------------------------------------------------------
(***************************************************************************)
(* Items.                                                                  *)
(***************************************************************************)
(* The slots of a layout: what is custom, what a website and what a code    *)
(* is told from its place.                                                 *)
Proper(slot) ==
    /\ slot.class = "custom" <=> slot.place \in CustomPlaces
    /\ slot.class = "websites" <=> slot.place = "urls"
    /\ slot.class = "code" <=> slot.place = "totp_uri"
Laid(s) == s \in Seq({s[i] : i \in DOMAIN s}) /\ \A i \in DOMAIN s : Proper(s[i])
Without(class, s) == \A i \in DOMAIN s : s[i].class # class

LEMMA SlotsAreLaid ==
    ASSUME NEW class, NEW Q, NEW names \in Seq(Q),
           \A q \in Q : Proper([class |-> class, place |-> q])
    PROVE  Laid(Slots(class, names)) /\ \A c : c # class => Without(c, Slots(class, names))
  <1> DEFINE s == Slots(class, names)
  <1>1. Len(names) \in Nat /\ DOMAIN names = 1..Len(names) /\ \A i \in 1..Len(names) : names[i] \in Q
    OBVIOUS
  <1>2. s = [i \in 1..Len(names) |-> [class |-> class, place |-> names[i]]]
    BY <1>1 DEF Slots
  <1>3. s \in [1..Len(names) -> {s[i] : i \in DOMAIN s}] /\ DOMAIN s = 1..Len(names)
    BY <1>2
  <1>4. s \in Seq({s[i] : i \in DOMAIN s})
    BY <1>1, <1>3, IsASeq
  <1>5. \A i \in DOMAIN s : Proper(s[i]) /\ s[i].class = class
    BY <1>1, <1>2
  <1>6. QED
    BY <1>4, <1>5 DEF Laid, Without

LEMMA ConcatIsLaid ==
    ASSUME NEW a, NEW b, Laid(a), Laid(b)
    PROVE  /\ Laid(a \o b)
           /\ \A c : Without(c, a) /\ Without(c, b) => Without(c, a \o b)
           /\ Len(a) \in Nat /\ DOMAIN a = 1..Len(a)
           /\ \A i \in DOMAIN (a \o b) : IF i <= Len(a) THEN (a \o b)[i] = a[i]
                                         ELSE i - Len(a) \in DOMAIN b /\ (a \o b)[i] = b[i - Len(a)]
  <1> DEFINE A == {a[i] : i \in DOMAIN a}
             B == {b[i] : i \in DOMAIN b}
             c == a \o b
             C == {c[i] : i \in DOMAIN c}
  <1>1. a \in Seq(A) /\ b \in Seq(B)
    BY DEF Laid
  <1>2. a \in Seq(A \cup B) /\ b \in Seq(A \cup B)
    BY <1>1, SeqMonotonic
  <1>3. /\ c \in Seq(A \cup B) /\ Len(c) = Len(a) + Len(b)
        /\ \A i \in 1..Len(a) : c[i] = a[i]
        /\ \A i \in 1..Len(b) : c[Len(a) + i] = b[i]
    <2> HIDE DEF A, B
    <2> QED
    BY <1>2, ConcatProperties
  <1>4. /\ Len(a) \in Nat /\ DOMAIN a = 1..Len(a) /\ Len(b) \in Nat /\ DOMAIN b = 1..Len(b)
        /\ Len(c) \in Nat /\ DOMAIN c = 1..Len(c)
    <2> HIDE DEF A, B, c
    <2> QED
    BY <1>1, <1>3, LenProperties
  <1> HIDE DEF A, B, c
  <1>5. \A i \in DOMAIN c : IF i <= Len(a) THEN i \in DOMAIN a /\ c[i] = a[i]
                            ELSE i - Len(a) \in DOMAIN b /\ c[i] = b[i - Len(a)]
    <2> SUFFICES ASSUME NEW i \in DOMAIN c, ~(i <= Len(a))
                 PROVE  i - Len(a) \in DOMAIN b /\ c[i] = b[i - Len(a)]
      BY <1>3, <1>4
    <2>1. i - Len(a) \in 1..Len(b) /\ Len(a) + (i - Len(a)) = i
      BY <1>3, <1>4
    <2>2. QED
      BY <1>3, <1>4, <2>1
  <1>6. c \in Seq(C)
    <2>1. c \in [1..Len(c) -> C]
      BY <1>3, <1>4
    <2>2. QED
      BY <1>4, <2>1, IsASeq
  <1>7. Laid(c)
    BY <1>5, <1>6 DEF Laid
  <1>8. \A k : Without(k, a) /\ Without(k, b) => Without(k, c)
    BY <1>5 DEF Without
  <1>9. QED
    BY <1>4, <1>5, <1>7, <1>8 DEF c

PlainPlaces ==
    {"username", "email", "password", "number", "cardholder_name", "expiration_date",
     "verification_number", "pin", "full_name", "phone_number", "first_name", "middle_name",
     "last_name", "birthdate", "gender", "organization", "street_address",
     "zip_or_postal_code", "city", "state_or_province", "country_or_region", "floor", "county",
     "social_security_number", "passport_number", "license_number", "website", "x_handle",
     "second_phone_number", "linkedin", "reddit", "facebook", "yahoo", "instagram", "company",
     "job_title", "personal_website", "work_phone_number", "work_email", "ssid",
     "private_key", "public_key", "note"}

LEMMA SlotGroups ==
    /\ Laid(LoginBody) /\ Without("custom", LoginBody)
    /\ \A s \in {CardBody, IdentityBody, WifiBody, SshBody, Sections, Extras, Note} :
           Laid(s) /\ Without("websites", s)
    /\ Without("custom", Note)
  <1> DEFINE plain(q) == q \notin CustomPlaces \cup {"urls", "totp_uri"}
             good(s) == Laid(s) /\ Without("websites", s)
             built(s) == good(s) /\ Without("custom", s)
  <1>1. ASSUME NEW class \in {"plain", "secret", "unstored"}, NEW Q, \A q \in Q : plain(q),
               NEW names \in Seq(Q)
        PROVE  built(Slots(class, names))
    <2>1. class # "custom" /\ class # "websites" /\ class # "code"
      OBVIOUS
    <2>2. \A q \in Q : Proper([class |-> class, place |-> q])
      BY <1>1, <2>1 DEF Proper
    <2>3. QED
      BY <2>1, <2>2, SlotsAreLaid
  <1>2. ASSUME NEW Q, Q \subseteq CustomPlaces, NEW names \in Seq(Q)
        PROVE  good(Slots("custom", names))
    <2>1. \A q \in CustomPlaces : q # "urls" /\ q # "totp_uri"
      BY DEF CustomPlaces
    <2>2. \A q \in Q : Proper([class |-> "custom", place |-> q])
      BY <1>2, <2>1 DEF Proper
    <2>3. QED
      BY <2>2, SlotsAreLaid
  <1>3. ASSUME NEW class, NEW q, Proper([class |-> class, place |-> q])
        PROVE  Laid(Slots(class, <<q>>)) /\ \A k : k # class => Without(k, Slots(class, <<q>>))
    <2> DEFINE Q == {q}
               names == <<q>>
    <2>1. names \in Seq(Q) /\ \A p \in Q : Proper([class |-> class, place |-> p])
      BY <1>3
    <2> HIDE DEF Q, names
    <2>2. Laid(Slots(class, names)) /\ \A k : k # class => Without(k, Slots(class, names))
      BY <2>1, SlotsAreLaid
    <2>3. QED
      BY <2>2 DEF names
  <1>4. /\ Laid(Slots("websites", <<"urls">>)) /\ Without("custom", Slots("websites", <<"urls">>))
        /\ Laid(Slots("code", <<"totp_uri">>)) /\ Without("custom", Slots("code", <<"totp_uri">>))
    <2>1. /\ Proper([class |-> "websites", place |-> "urls"])
          /\ Proper([class |-> "code", place |-> "totp_uri"])
      BY DEF Proper, CustomPlaces
    <2>2. QED
      BY <2>1, <1>3
  <1>5. /\ \A a, b : good(a) /\ good(b) => good(a \o b)
        /\ \A a, b : Laid(a) /\ Without("custom", a) /\ Laid(b) /\ Without("custom", b)
              => Laid(a \o b) /\ Without("custom", a \o b)
    BY ConcatIsLaid
  <1>6. \A q \in PlainPlaces : plain(q)
    BY DEF PlainPlaces, CustomPlaces
  <1>7. \A names \in Seq(PlainPlaces) :
            /\ built(Slots("plain", names)) /\ built(Slots("secret", names))
            /\ built(Slots("unstored", names))
    <2> HIDE DEF plain, built
    <2>1. QED
      BY <1>1, <1>6
  <1>8. \A names \in Seq(CustomPlaces) : good(Slots("custom", names))
    <2> HIDE DEF good
    <2>1. QED
      BY <1>2
  <1> HIDE DEF good
  <1>9. good(Note) /\ Without("custom", Note)
    <2>1. <<"note">> \in Seq(PlainPlaces)
      BY DEF PlainPlaces
    <2>2. QED
      BY <2>1, <1>7, Zenon DEF Note
  <1>10. good(Extras) /\ good(Sections)
    <2>1. <<"extra">> \in Seq(CustomPlaces) /\ <<"first", "second">> \in Seq(CustomPlaces)
      BY DEF CustomPlaces
    <2>2. QED
      BY <2>1, <1>8, Zenon DEF Extras, Sections
  <1>11. good(CardBody)
    <2>1. /\ <<"number">> \in Seq(PlainPlaces)
          /\ <<"cardholder_name", "expiration_date">> \in Seq(PlainPlaces)
          /\ <<"verification_number", "pin">> \in Seq(PlainPlaces)
      BY DEF PlainPlaces
    <2>2. QED
      BY <2>1, <1>5, <1>7, Zenon DEF CardBody
  <1>12. good(WifiBody) /\ good(SshBody)
    <2>1. /\ <<"password">> \in Seq(PlainPlaces) /\ <<"ssid">> \in Seq(PlainPlaces)
          /\ <<"private_key">> \in Seq(PlainPlaces) /\ <<"public_key">> \in Seq(PlainPlaces)
      BY DEF PlainPlaces
    <2>2. QED
      BY <2>1, <1>5, <1>7, Zenon DEF WifiBody, SshBody
  <1>13. good(IdentityBody)
    <2>1. /\ <<"full_name", "email">> \in Seq(PlainPlaces)
          /\ <<"phone_number", "first_name", "middle_name", "last_name", "birthdate", "gender">>
                 \in Seq(PlainPlaces)
          /\ <<"organization", "street_address", "zip_or_postal_code", "city",
               "state_or_province", "country_or_region", "floor", "county">> \in Seq(PlainPlaces)
      BY DEF PlainPlaces
    <2>2. /\ <<"social_security_number", "passport_number", "license_number">> \in Seq(PlainPlaces)
          /\ <<"website", "x_handle", "second_phone_number", "linkedin", "reddit",
               "facebook", "yahoo", "instagram">> \in Seq(PlainPlaces)
          /\ <<"company", "job_title", "personal_website", "work_phone_number", "work_email">>
                 \in Seq(PlainPlaces)
      BY DEF PlainPlaces
    <2>3. /\ <<"personal">> \in Seq(CustomPlaces) /\ <<"address">> \in Seq(CustomPlaces)
          /\ <<"contact">> \in Seq(CustomPlaces) /\ <<"work">> \in Seq(CustomPlaces)
      BY DEF CustomPlaces
    <2>4. QED
      BY <2>1, <2>2, <2>3, <1>5, <1>7, <1>8, Zenon DEF IdentityBody
  <1>14. Laid(LoginBody) /\ Without("custom", LoginBody)
    <2>1. <<"username", "email">> \in Seq(PlainPlaces) /\ <<"password">> \in Seq(PlainPlaces)
      BY DEF PlainPlaces
    <2>2. /\ Laid(Slots("plain", <<"username", "email">>)) /\ Without("custom", Slots("plain", <<"username", "email">>))
          /\ Laid(Slots("secret", <<"password">>)) /\ Without("custom", Slots("secret", <<"password">>))
      BY <2>1, <1>7, Zenon DEF good
    <2>3. QED
      BY <2>2, <1>4, <1>5, Zenon DEF LoginBody
  <1>15. QED
    BY <1>9, <1>10, <1>11, <1>12, <1>13, <1>14 DEF good

LEMMA LayoutIsLaid ==
    ASSUME NEW kind \in Kinds
    PROVE  Laid(Layout[kind]) /\ (kind # "Login" => Without("websites", Layout[kind]))
  <1> DEFINE good(s) == Laid(s) /\ Without("websites", s)
  <1>1. /\ \A a, b : good(a) /\ good(b) => good(a \o b)
        /\ \A a, b : Laid(a) /\ Laid(b) => Laid(a \o b)
    BY ConcatIsLaid
  <1>2. good(<<>>)
    BY DEF Laid, Without
  <1>3. Laid(LoginBody) /\ \A s \in {CardBody, IdentityBody, WifiBody, SshBody, Sections, Extras, Note} : good(s)
    BY SlotGroups
  <1> HIDE DEF good
  <1>4. IF kind = "Login" THEN Laid(Body(kind)) ELSE good(Body(kind))
    <2>1. \/ kind = "Login" /\ Body(kind) = LoginBody
          \/ kind # "Login" /\ \/ Body(kind) \in {CardBody, IdentityBody \o Sections, WifiBody \o Sections}
                               \/ Body(kind) \in {SshBody \o Sections, Sections, <<>>}
      BY DEF Body
    <2>2. QED
      BY <1>1, <1>2, <1>3, <2>1
  <1>5. Layout[kind] = IF kind = "Note" THEN Note \o Extras ELSE Body(kind) \o Extras \o Note
    BY DEF Layout
  <1>6. good(Extras) /\ good(Note) /\ Laid(Extras) /\ Laid(Note)
    BY <1>3 DEF good
  <1>7. CASE kind = "Login"
    BY <1>1, <1>4, <1>5, <1>6, <1>7
  <1>8. CASE kind # "Login"
    <2>1. good(Layout[kind])
      BY <1>1, <1>4, <1>5, <1>6, <1>8
    <2>2. QED
      BY <2>1 DEF good
  <1>9. QED
    BY <1>7, <1>8

(* A login's custom fields come after its websites. *)
LEMMA WebsitesComeFirst ==
    ASSUME "Login" \in Kinds, NEW i \in DOMAIN Layout["Login"], NEW j \in DOMAIN Layout["Login"],
           Layout["Login"][i].class = "websites", Layout["Login"][j].class = "custom"
    PROVE  i < j
  <1> DEFINE rest == LoginBody \o Extras
  <1>1. Layout["Login"] = rest \o Note
    BY DEF Layout, Body
  <1>2. /\ Laid(LoginBody) /\ Laid(Extras) /\ Laid(Note) /\ Without("custom", LoginBody)
        /\ Without("websites", Extras) /\ Without("websites", Note) /\ Without("custom", Note)
    BY SlotGroups
  <1>3. Laid(rest)
    BY <1>2, ConcatIsLaid
  <1>4. /\ Len(LoginBody) \in Nat /\ DOMAIN LoginBody = 1..Len(LoginBody)
        /\ \A k \in DOMAIN rest : IF k <= Len(LoginBody) THEN rest[k] = LoginBody[k]
                                  ELSE k - Len(LoginBody) \in DOMAIN Extras /\ rest[k] = Extras[k - Len(LoginBody)]
    BY <1>2, ConcatIsLaid
  <1> HIDE DEF rest
  <1>5. /\ Len(rest) \in Nat /\ DOMAIN rest = 1..Len(rest)
        /\ \A k \in DOMAIN (rest \o Note) :
               IF k <= Len(rest) THEN (rest \o Note)[k] = rest[k]
               ELSE k - Len(rest) \in DOMAIN Note /\ (rest \o Note)[k] = Note[k - Len(rest)]
    BY <1>2, <1>3, ConcatIsLaid
  <1>6. i \in Nat \ {0} /\ j \in Nat \ {0}
    <2>1. Laid(Layout["Login"])
      BY LayoutIsLaid
    <2>2. DOMAIN Layout["Login"] = 1..Len(Layout["Login"]) /\ Len(Layout["Login"]) \in Nat
      BY <2>1, LenProperties DEF Laid
    <2>3. QED
      BY <2>2
  <1>7. i <= Len(rest) /\ rest[i].class = "websites"
    BY <1>1, <1>2, <1>5 DEF Without
  <1>8. i <= Len(LoginBody)
    BY <1>2, <1>4, <1>5, <1>6, <1>7 DEF Without
  <1>9. j <= Len(rest) /\ rest[j].class = "custom"
    BY <1>1, <1>2, <1>5 DEF Without
  <1>10. ~(j <= Len(LoginBody))
    BY <1>2, <1>4, <1>5, <1>6, <1>9 DEF Without
  <1>11. QED
    BY <1>4, <1>6, <1>8, <1>10

----------------------------------------------------------------------------
(* An item as the user can make it. *)
ItemTypes ==
    item \in [kind : Kinds, members : SUBSET Members, websites : Nat, titles : Titlings,
              custom : [CustomPlaces -> Seq([name : Names, content : Contents])]]
Placed ==
    /\ item.websites > 0 => Holds("websites", "urls")
    /\ \A place \in CustomPlaces : item.custom[place] # <<>> => Holds("custom", place)
    /\ \A m \in item.members : HoldsMember(m)
Small == IsFiniteSet(item.members) /\ item.websites <= MaxEntries[item.kind]
Made == ItemTypes /\ Placed /\ Small

LEMMA HeldPlaces ==
    ASSUME ItemTypes, NEW class, NEW place, Holds(class, place)
    PROVE  /\ SlotOf(place) \in DOMAIN Layout[item.kind] /\ SlotOf(place) \in Nat
           /\ Layout[item.kind][SlotOf(place)].place = place
           /\ Proper(Layout[item.kind][SlotOf(place)])
           /\ Proper([class |-> class, place |-> place])
  <1> DEFINE layout == Layout[item.kind]
  <1>1. Laid(layout)
    BY LayoutIsLaid DEF ItemTypes
  <1>2. PICK i \in DOMAIN layout : layout[i] = [class |-> class, place |-> place]
    BY DEF Holds
  <1>3. layout[i].place = place
    BY <1>2
  <1>4. SlotOf(place) = CHOOSE k \in DOMAIN layout : layout[k].place = place
    BY DEF SlotOf
  <1>5. DOMAIN layout \subseteq Nat
    BY <1>1, LenProperties DEF Laid
  <1> HIDE DEF layout
  <1>6. SlotOf(place) \in DOMAIN layout /\ layout[SlotOf(place)].place = place
    BY <1>3, <1>4
  <1>7. QED
    BY <1>1, <1>2, <1>5, <1>6 DEF layout, Laid

LEMMA RawFacts ==
    ASSUME Made, NEW raw \in RawEntries
    PROVE  /\ raw = Raw(raw.place, raw.at) /\ raw.at \in Nat
           /\ SlotOf(raw.place) \in DOMAIN Layout[item.kind] /\ SlotOf(raw.place) \in Nat
           /\ Layout[item.kind][SlotOf(raw.place)].place = raw.place
           /\ Proper([class |-> ClassOf(raw), place |-> raw.place])
           /\ IsCustom(raw) => /\ Holds("custom", raw.place)
                               /\ raw.at \in DOMAIN item.custom[raw.place]
           /\ raw.place = "urls" => raw.at \in 1..item.websites /\ ~IsCustom(raw)
           /\ ~IsCustom(raw) /\ raw.place # "urls" => raw.place \in Members /\ raw.at = 0
  <1>1. /\ item.websites \in Nat /\ item.members \subseteq Members
        /\ \A p \in CustomPlaces : /\ DOMAIN item.custom[p] \subseteq Nat
                                   /\ item.custom[p] = <<>> => DOMAIN item.custom[p] = {}
    BY DEF Made, ItemTypes
  <1>2. CASE \E p \in CustomPlaces : \E i \in DOMAIN item.custom[p] : raw = Raw(p, i)
    <2>1. PICK p \in CustomPlaces : \E i \in DOMAIN item.custom[p] : raw = Raw(p, i)
      BY <1>2
    <2>2. PICK i \in DOMAIN item.custom[p] : raw = Raw(p, i)
      BY <2>1
    <2>3. raw.place = p /\ raw.at = i
      BY <2>2 DEF Raw
    <2>4. item.custom[p] # <<>>
      BY <1>1
    <2>5. Holds("custom", p)
      BY <2>4 DEF Made, Placed
    <2>6. p # "urls"
      BY DEF CustomPlaces
    <2>7. QED
      BY <1>1, <2>2, <2>3, <2>5, <2>6, HeldPlaces DEF Made, IsCustom, ClassOf, Proper
  <1>3. CASE \E i \in 1..item.websites : raw = Raw("urls", i)
    <2>1. PICK i \in 1..item.websites : raw = Raw("urls", i)
      BY <1>3
    <2>2. raw.place = "urls" /\ raw.at = i
      BY <2>1 DEF Raw
    <2>3. Holds("websites", "urls")
      BY <1>1 DEF Made, Placed
    <2>4. "urls" \notin CustomPlaces
      BY DEF CustomPlaces
    <2>5. QED
      BY <1>1, <2>1, <2>2, <2>3, <2>4, HeldPlaces DEF Made, IsCustom, ClassOf, Proper
  <1>4. CASE \E m \in item.members : raw = Raw(m, 0)
    <2>1. PICK m \in item.members : raw = Raw(m, 0)
      BY <1>4
    <2>2. raw.place = m /\ raw.at = 0
      BY <2>1 DEF Raw
    <2>3. PICK class \in {"plain", "secret", "unstored", "code"} : Holds(class, m)
      BY DEF Made, Placed, HoldsMember
    <2>4. Proper([class |-> class, place |-> m])
      BY <2>3, HeldPlaces DEF Made
    <2>5. m \notin CustomPlaces /\ m # "urls"
      BY <2>4 DEF Proper
    <2>6. QED
      BY <1>1, <2>1, <2>2, <2>3, <2>5, HeldPlaces DEF Made, IsCustom, ClassOf, Proper
  <1>5. QED
    BY <1>2, <1>3, <1>4, Zenon DEF RawEntries

(* fill's order of the entries is strict and total. *)
LEMMA EarlierIsAnOrder ==
    ASSUME Made
    PROVE  /\ \A a \in RawEntries : ~Earlier(a, a)
           /\ \A a, b, c \in RawEntries : Earlier(a, b) /\ Earlier(b, c) => Earlier(a, c)
           /\ \A a, b \in RawEntries : a # b => Earlier(a, b) \/ Earlier(b, a)
  <1>1. \A a \in RawEntries : a.at \in Nat /\ SlotOf(a.place) \in Nat
    BY RawFacts
  <1>2. \A a, b \in RawEntries : a.place # b.place => SlotOf(a.place) # SlotOf(b.place)
    BY RawFacts
  <1>3. \A a, b \in RawEntries : a.place = b.place /\ a.at = b.at => a = b
    BY RawFacts
  <1>4. \A a \in RawEntries : ~Earlier(a, a)
    BY <1>1 DEF Earlier
  <1>5. ASSUME NEW a \in RawEntries, NEW b \in RawEntries, NEW c \in RawEntries,
               Earlier(a, b), Earlier(b, c)
        PROVE  Earlier(a, c)
    BY <1>1, <1>5 DEF Earlier
  <1>6. ASSUME NEW a \in RawEntries, NEW b \in RawEntries, a # b
        PROVE  Earlier(a, b) \/ Earlier(b, a)
    BY <1>1, <1>2, <1>3, <1>6 DEF Earlier
  <1>7. QED
    BY <1>4, <1>5, <1>6

LEMMA ImageIsFinite ==
    ASSUME NEW S, IsFiniteSet(S), NEW f
    PROVE  IsFiniteSet({f[x] : x \in S})
  <1> DEFINE T == {f[x] : x \in S}
             g == [x \in S |-> f[x]]
  <1>1. g \in Surjection(S, T)
    BY DEF Surjection
  <1> HIDE DEF T, g
  <1>2. IsFiniteSet(T)
    BY <1>1, FS_Surjection
  <1>3. QED
    BY <1>2 DEF T

LEMMA RawEntriesAreFinite ==
    ASSUME Made
    PROVE  IsFiniteSet(RawEntries)
  <1>1. IsFiniteSet(CustomPlaces)
    <2>1. IsFiniteSet(1..7)
      BY FS_Interval, 1 \in Int, 7 \in Int
    <2> DEFINE places == <<"first", "second", "personal", "address", "contact", "work", "extra">>
    <2>2. IsFiniteSet({places[i] : i \in 1..7})
      BY <2>1, ImageIsFinite
    <2>3. CustomPlaces = {places[i] : i \in 1..7}
      BY DEF CustomPlaces
    <2>4. QED
      BY <2>2, <2>3
  <1>2. ASSUME NEW p \in CustomPlaces
        PROVE  IsFiniteSet({Raw(p, i) : i \in DOMAIN item.custom[p]})
    <2> DEFINE D == DOMAIN item.custom[p]
               f == [i \in D |-> Raw(p, i)]
    <2>1. \E n \in Nat : D = 1..n
      <3>1. item.custom[p] \in Seq([name : Names, content : Contents])
        BY DEF Made, ItemTypes
      <3>2. QED
        BY <3>1
    <2>2. IsFiniteSet(D)
      BY <2>1, FS_Interval
    <2>3. {Raw(p, i) : i \in D} = {f[i] : i \in D}
      OBVIOUS
    <2> HIDE DEF D, f
    <2>4. IsFiniteSet({Raw(p, i) : i \in D})
      BY <2>2, <2>3, ImageIsFinite
    <2>5. QED
      BY <2>4 DEF D
  <1>3. IsFiniteSet(UNION {{Raw(p, i) : i \in DOMAIN item.custom[p]} : p \in CustomPlaces})
    <2> DEFINE f == [p \in CustomPlaces |-> {Raw(p, i) : i \in DOMAIN item.custom[p]}]
    <2>1. {{Raw(p, i) : i \in DOMAIN item.custom[p]} : p \in CustomPlaces} = {f[p] : p \in CustomPlaces}
      OBVIOUS
    <2>2. \A T \in {f[p] : p \in CustomPlaces} : IsFiniteSet(T)
      BY <1>2
    <2> HIDE DEF f
    <2>3. IsFiniteSet({f[p] : p \in CustomPlaces})
      BY <1>1, ImageIsFinite
    <2>4. IsFiniteSet(UNION {f[p] : p \in CustomPlaces})
      BY <2>2, <2>3, FS_UNION
    <2>5. QED
      BY <2>1, <2>4
  <1>4. IsFiniteSet({Raw("urls", i) : i \in 1..item.websites})
    <2> DEFINE f == [i \in 1..item.websites |-> Raw("urls", i)]
    <2>1. IsFiniteSet(1..item.websites)
      BY FS_Interval DEF Made, ItemTypes
    <2>2. {Raw("urls", i) : i \in 1..item.websites} = {f[i] : i \in 1..item.websites}
      OBVIOUS
    <2> HIDE DEF f
    <2>3. QED
      BY <2>1, <2>2, ImageIsFinite
  <1>5. IsFiniteSet({Raw(place, 0) : place \in item.members})
    <2> DEFINE f == [place \in item.members |-> Raw(place, 0)]
    <2>1. IsFiniteSet(item.members)
      BY DEF Made, Small
    <2>2. {Raw(place, 0) : place \in item.members} = {f[place] : place \in item.members}
      OBVIOUS
    <2> HIDE DEF f
    <2>3. QED
      BY <2>1, <2>2, ImageIsFinite
  <1>6. QED
    BY <1>3, <1>4, <1>5, FS_Union DEF RawEntries

----------------------------------------------------------------------------
(* Entries told apart by what they were made of, and their order. *)
Entries(S) ==
    /\ IsFiniteSet(S)
    /\ \A e \in S : e.of \in RawEntries
    /\ \A a, b \in S : a.of = b.of => a = b
FillOrder(S) == {p \in S \X S : Earlier(p[1].of, p[2].of)}

LEMMA OrderOrders ==
    ASSUME Made, NEW S, Entries(S)
    PROVE  Orders(FillOrder(S), S)
  <1>1. \A a, b \in S : <<a, b>> \in FillOrder(S) <=> Earlier(a.of, b.of)
    BY DEF FillOrder
  <1>2. QED
    BY <1>1, EarlierIsAnOrder DEF Orders, Entries

(* InOrder lists each entry once. *)
LEMMA InOrderLists ==
    ASSUME Made, NEW S, Entries(S)
    PROVE  /\ InOrder(S) \in Seq(S)
           /\ \A e \in S : \E n \in DOMAIN InOrder(S) : InOrder(S)[n] = e
           /\ \A m, n \in DOMAIN InOrder(S) : InOrder(S)[m] = InOrder(S)[n] => m = n
  <1> DEFINE rank(e) == Cardinality({o \in S : Earlier(o.of, e.of)})
  <1>1. Cardinality(S) \in Nat
    BY FS_CardinalityType DEF Entries
  <1>2. \A e \in S : RankIn(FillOrder(S), S, e) = rank(e) + 1
    <2>1. \A e \in S : {o \in S : Earlier(o.of, e.of)} = Below(FillOrder(S), S, e)
      BY DEF FillOrder, Below
    <2>2. QED
      BY <2>1 DEF RankIn
  <1> HIDE DEF rank
  <1>3. \A e \in S : rank(e) \in Nat /\ rank(e) + 1 \in 1..Cardinality(S)
    <2>1. \A e \in S : Cardinality(Below(FillOrder(S), S, e)) \in Nat
      BY OrderOrders, RankBounds DEF Entries
    <2>2. \A e \in S : RankIn(FillOrder(S), S, e) \in 1..Cardinality(S)
      BY OrderOrders, RankBounds DEF Entries
    <2>3. \A e \in S : rank(e) = Cardinality(Below(FillOrder(S), S, e))
      BY DEF rank, FillOrder, Below
    <2>4. QED
      BY <1>2, <2>1, <2>2, <2>3
  <1>4. \A a, b \in S : rank(a) = rank(b) => a = b
    <2> SUFFICES ASSUME NEW a \in S, NEW b \in S, rank(a) = rank(b) PROVE a = b
      OBVIOUS
    <2>1. RankIn(FillOrder(S), S, a) = RankIn(FillOrder(S), S, b)
      BY <1>2
    <2>2. QED
      BY <2>1, OrderOrders, RankReflectsOrder DEF Entries
  <1>5. \A n \in 1..Cardinality(S) : \E e \in S : rank(e) = n - 1
    <2> SUFFICES ASSUME NEW n \in 1..Cardinality(S) PROVE \E e \in S : rank(e) = n - 1
      OBVIOUS
    <2>1. PICK e \in S : RankIn(FillOrder(S), S, e) = n
      BY OrderOrders, EveryRankIsTaken DEF Entries
    <2>2. QED
      BY <1>2, <1>3, <2>1
  <1>6. InOrder(S) = [n \in 1..Cardinality(S) |-> CHOOSE e \in S : rank(e) = n - 1]
    BY DEF InOrder, rank
  <1>7. \A n \in 1..Cardinality(S) : InOrder(S)[n] \in S /\ rank(InOrder(S)[n]) = n - 1
    BY <1>5, <1>6
  <1>8. DOMAIN InOrder(S) = 1..Cardinality(S)
    BY <1>6
  <1>9. InOrder(S) \in Seq(S)
    <2>1. InOrder(S) \in [1..Cardinality(S) -> S]
      BY <1>6, <1>7
    <2>2. QED
      BY <1>1, <2>1, IsASeq
  <1>10. \A e \in S : InOrder(S)[rank(e) + 1] = e
    BY <1>3, <1>4, <1>7
  <1>11. QED
    BY <1>3, <1>7, <1>8, <1>9, <1>10

----------------------------------------------------------------------------
(* What is listed. *)
LEMMA KeptAreEntries ==
    ASSUME Made
    PROVE  Entries(KeptFields) /\ Entries(KeptCodes)
  <1> DEFINE fields == {r \in RawEntries : IsField(r)}
             codes == {r \in RawEntries : IsCode(r)}
             F == [r \in fields |-> Field(r)]
             C == [r \in codes |-> Code(r)]
  <1>1. IsFiniteSet(fields) /\ IsFiniteSet(codes)
    BY RawEntriesAreFinite, FS_Subset
  <1>2. /\ {F[r] : r \in fields} = {Field(r) : r \in fields}
        /\ {C[r] : r \in codes} = {Code(r) : r \in codes}
    OBVIOUS
  <1>3. (\A r : Field(r).of = r) /\ \A r : Code(r).of = r
    BY DEF Field, Code
  <1>4. fields \subseteq RawEntries /\ codes \subseteq RawEntries
    OBVIOUS
  <1>5. /\ KeptFields \subseteq {Field(r) : r \in fields}
        /\ KeptCodes \subseteq {Code(r) : r \in codes}
    BY DEF KeptFields, KeptCodes, KeepLast
  <1> HIDE DEF fields, codes, F, C
  <1>6. IsFiniteSet({Field(r) : r \in fields}) /\ IsFiniteSet({Code(r) : r \in codes})
    <2>1. IsFiniteSet({F[r] : r \in fields}) /\ IsFiniteSet({C[r] : r \in codes})
      BY <1>1, ImageIsFinite
    <2>2. QED
      BY <1>2, <2>1
  <1>7. QED
    BY <1>3, <1>4, <1>5, <1>6, FS_Subset DEF Entries

LEMMA FieldsArePlain ==
    ASSUME Made, NEW raw \in RawEntries, IsField(raw)
    PROVE  ~IsCode(raw)
BY RawFacts DEF IsField, IsCode, Proper, Contents

LEMMA AddressIsTheName ==
    ASSUME NEW raw, raw.place # "urls"
    PROVE  FieldName(raw) = Address(raw)
BY DEF FieldName, Address, Qualified, BareName

(* What no other can be taken for shares its name with no later field: only *)
(* a website may have a name that is no address of it, and a custom field    *)
(* comes after it.                                                          *)
LEMMA AloneKeepsItsName ==
    ASSUME Made, NEW raw \in RawEntries, Alone(raw), NEW later \in RawEntries, Earlier(raw, later)
    PROVE  FieldName(later) # FieldName(raw)
  <1>1. raw # later
    BY EarlierIsAnOrder
  <1>2. FieldName(raw) = Address(raw)
    BY AddressIsTheName DEF Alone
  <1>3. CASE later.place # "urls"
    BY <1>1, <1>2, <1>3, AddressIsTheName DEF Alone, AnswersTo
  <1>4. CASE later.place = "urls"
    <2>1. /\ later.at \in 1..item.websites /\ ~IsCustom(later)
          /\ Layout[item.kind][SlotOf("urls")].class = "websites"
          /\ SlotOf("urls") \in DOMAIN Layout[item.kind]
      BY <1>4, RawFacts DEF ClassOf, Proper
    <2>2. item.kind = "Login"
      BY <2>1, LayoutIsLaid DEF Made, ItemTypes, Without
    <2>3. ~IsCustom(raw)
      <3> SUFFICES ASSUME IsCustom(raw) PROVE FALSE
        OBVIOUS
      <3>1. /\ Layout[item.kind][SlotOf(raw.place)].class = "custom"
            /\ SlotOf(raw.place) \in DOMAIN Layout[item.kind]
            /\ SlotOf(raw.place) \in Nat /\ SlotOf("urls") \in Nat
        BY <1>4, RawFacts DEF ClassOf, Proper, IsCustom
      <3>2. SlotOf("urls") < SlotOf(raw.place)
        BY <2>1, <2>2, <3>1, WebsitesComeFirst DEF Made, ItemTypes
      <3>3. QED
        BY <1>4, <3>1, <3>2 DEF Earlier, Alone
    <2>4. raw.place \in Members /\ FieldName(raw) = <<raw.place>>
      BY <2>3, RawFacts DEF Alone, FieldName
    <2>5. FieldName(later) = WebsiteName(later.at)
      BY <1>4, <2>1 DEF FieldName
    <2>6. later.at \in 1..MaxEntries[item.kind] /\ item.kind \in Kinds
      BY <2>1, ItemsAssumption DEF ItemsAssumption, Made, ItemTypes, Small
    <2>7. QED
      BY <2>4, <2>5, <2>6, ItemsAssumption DEF ItemsAssumption
  <1>5. QED
    BY <1>3, <1>4

LEMMA OfferedFields ==
    ASSUME Made, NEW raw \in RawEntries, ~IsCode(raw), Alone(raw), Readable(raw)
    PROVE  Field(raw) \in KeptFields
  <1>1. IsField(raw)
    BY RawFacts DEF IsField, IsCode, Readable, Proper
  <1>2. \A later \in RawEntries : Earlier(raw, later) => FieldName(later) # FieldName(raw)
    BY AloneKeepsItsName
  <1>3. \A r : Field(r).of = r /\ Field(r).name = FieldName(r)
    BY DEF Field
  <1>4. QED
    BY <1>1, <1>2, <1>3 DEF KeptFields, KeepLast

LEMMA OfferedCodes ==
    ASSUME Made, NEW raw \in RawEntries, IsCode(raw), AloneAmongCodes(raw)
    PROVE  Code(raw) \in KeptCodes
  <1>1. \A r : Code(r).of = r /\ Code(r).name = BareName(r)
    BY DEF Code
  <1>2. \A later \in RawEntries : Earlier(raw, later) => later # raw
    BY EarlierIsAnOrder
  <1>3. \A r \in RawEntries : IsCode(r) => BareName(r) \in CodeNames(r)
    BY DEF CodeNames, BareName, IsCode
  <1>4. \A later \in RawEntries : IsCode(later) /\ later # raw => BareName(later) # BareName(raw)
    BY <1>3 DEF AloneAmongCodes
  <1>5. QED
    BY <1>1, <1>2, <1>4 DEF KeptCodes, KeepLast

LEMMA OfferedInSummary ==
    ASSUME Made, held = Summary
    PROVE  ReadableIsOffered
  <1>1. held.fields = InOrder(KeptFields) /\ held.codes = InOrder(KeptCodes)
    BY DEF Summary
  <1>2. ASSUME NEW raw \in RawEntries, IsCode(raw), AloneAmongCodes(raw)
        PROVE  \E i \in DOMAIN held.codes : held.codes[i].of = raw
    <2>1. PICK i \in DOMAIN held.codes : held.codes[i] = Code(raw)
      BY <1>1, <1>2, OfferedCodes, KeptAreEntries, InOrderLists
    <2>2. QED
      BY <2>1 DEF Code
  <1>3. ASSUME NEW raw \in RawEntries, ~IsCode(raw), Alone(raw), Readable(raw)
        PROVE  \E i \in DOMAIN held.fields : held.fields[i].of = raw
    <2>1. PICK i \in DOMAIN held.fields : held.fields[i] = Field(raw)
      BY <1>1, <1>3, OfferedFields, KeptAreEntries, InOrderLists
    <2>2. QED
      BY <2>1 DEF Field
  <1>4. QED
    BY <1>2, <1>3 DEF ReadableIsOffered

----------------------------------------------------------------------------
(* What pass-cli answers for the name of what it can take for no other. *)
LEMMA ViewReachesTheField ==
    ASSUME NEW raw \in RawEntries, AloneInAnyCase(raw)
    PROVE  ItemView(FieldName(raw)) = raw
  <1> DEFINE name == FieldName(raw)
             named == {r \in RawEntries : Folded(name) \in AnswersFolded(r)}
  <1>1. name = Address(raw)
    BY AddressIsTheName DEF AloneInAnyCase
  <1>2. raw \in named
    BY <1>1 DEF AnswersFolded, AnswersTo
  <1>3. \A other \in RawEntries \ {raw} : Folded(name) \notin AnswersFolded(other)
    BY <1>1 DEF AloneInAnyCase
  <1>4. named = {raw}
    BY <1>2, <1>3
  <1>5. ItemView(name) = CHOOSE r \in named : \A other \in named \ {r} : ~Stronger(Strength(other), Strength(r))
    BY <1>2 DEF ItemView
  <1> HIDE DEF name, named
  <1>6. ItemView(name) \in named
    BY <1>4, <1>5
  <1>7. QED
    BY <1>4, <1>6 DEF name

LEMMA TotpReachesTheCode ==
    ASSUME Made, NEW raw \in RawEntries, IsCode(raw), AloneAmongCodes(raw),
           NEW own \in (SUBSET {<<"totp_uri">>, <<"totp">>}) \ {{}}
    PROVE  PickTotp(BareName(raw), own) = {raw}
  <1>1. \A r \in RawEntries : IsCode(r) => TotpKeys(r, own) \subseteq CodeNames(r)
    BY DEF TotpKeys, CodeNames, IsCode, IsCustom, CustomPlaces
  <1>2. \A name \in CodeNames(raw) : TotpUnder(name, own) \subseteq {raw}
    <2> SUFFICES ASSUME NEW name \in CodeNames(raw), NEW r \in TotpUnder(name, own) PROVE r = raw
      OBVIOUS
    <2>1. r \in RawEntries /\ IsCode(r) /\ name \in CodeNames(r)
      BY <1>1 DEF TotpUnder
    <2>2. QED
      BY <2>1 DEF AloneAmongCodes
  <1>3. CASE IsCustom(raw)
    <2>1. BareName(raw) \in CodeNames(raw) /\ BareName(raw) \in TotpKeys(raw, own)
      BY <1>3 DEF CodeNames, TotpKeys, IsCustom, CustomPlaces
    <2>2. TotpUnder(BareName(raw), own) = {raw}
      BY <1>2, <2>1 DEF TotpUnder
    <2>3. QED
      BY <2>2 DEF PickTotp
  <1>4. CASE ~IsCustom(raw)
    <2>1. /\ raw.place = "totp_uri" /\ BareName(raw) = <<"totp_uri">> /\ TotpKeys(raw, own) = own
          /\ CodeNames(raw) = {<<"totp_uri">>, <<"totp">>}
      BY <1>4 DEF IsCode, BareName, TotpKeys, CodeNames
    <2>2. <<"totp_uri">> \in own \/ <<"totp">> \in own
      OBVIOUS
    <2>3. \A name \in own : TotpUnder(name, own) = {raw}
      BY <1>2, <2>1 DEF TotpUnder
    <2>4. TotpUnder(<<"totp_uri">>, own) = {raw} \/ TotpUnder(<<"totp_uri">>, own) = {}
      BY <1>2, <2>1
    <2>5. TotpUnder(<<"totp_uri">>, own) = {} => TotpUnder(<<"totp">>, own) = {raw}
      BY <2>2, <2>3
    <2>6. QED
      BY <2>1, <2>4, <2>5 DEF PickTotp
  <1>5. QED
    BY <1>3, <1>4

----------------------------------------------------------------------------
(* The rows. *)
LEMMA FirstIsThere ==
    ASSUME NEW P, P \subseteq Nat
    PROVE  IF P = {} THEN First(P) = 0 ELSE First(P) \in P
  <1>1. CASE P = {}
    BY <1>1 DEF First
  <1>2. CASE P # {}
    <2>1. \E x \in P : \A y \in P : x <= y
      BY <1>2, LeastNumber
    <2>2. QED
      BY <1>2, <2>1 DEF First, Min
  <1>3. QED
    BY <1>1, <1>2

(* A list of copies whose fields, and whose codes, are all different. *)
Listable(s) ==
    /\ s.fields \in Seq(KeptFields) /\ s.codes \in Seq(KeptCodes)
    /\ \A i, j \in DOMAIN s.fields : s.fields[i] = s.fields[j] => i = j
    /\ \A i, j \in DOMAIN s.codes : s.codes[i] = s.codes[j] => i = j

SourceAt(s, i) ==
    IF i <= Len(s.fields) THEN FieldSource(s.fields[i]) ELSE CodeSource(s.codes[i - Len(s.fields)])
ShortcutAt(s, i) ==
    IF i <= Len(s.fields) THEN Bound(s, i)
    ELSE IF i = Len(s.fields) + 1 THEN "CopyTotp" ELSE "none"
Size(s) == Len(s.fields) + Len(s.codes)

LEMMA FieldIsNoBlank == \A f \in KeptFields : FieldSource(f) # NoSource
  <1> SUFFICES ASSUME NEW f \in KeptFields PROVE FieldSource(f) # NoSource
    OBVIOUS
  <1>1. PICK raw \in RawEntries : f = Field(raw)
    BY DEF KeptFields, KeepLast
  <1>2. "of" \in DOMAIN f
    BY <1>1 DEF Field
  <1>3. "of" \notin DOMAIN [name |-> <<>>]
    OBVIOUS
  <1>4. QED
    BY <1>2, <1>3 DEF FieldSource, NoSource

LEMMA SeqOfItsOwn ==
    ASSUME NEW X, NEW c \in Seq(X)
    PROVE  c \in Seq({c[i] : i \in DOMAIN c})
  <1>1. Len(c) \in Nat /\ DOMAIN c = 1..Len(c) /\ c \in [1..Len(c) -> X]
    BY LenProperties
  <1>2. c \in [1..Len(c) -> {c[i] : i \in DOMAIN c}]
    BY <1>1
  <1>3. QED
    BY <1>1, <1>2, IsASeq

LEMMA RowsAre ==
    ASSUME NEW s, Listable(s)
    PROVE  /\ Len(s.fields) \in Nat /\ Len(s.codes) \in Nat
           /\ DOMAIN s.fields = 1..Len(s.fields) /\ DOMAIN s.codes = 1..Len(s.codes)
           /\ DOMAIN RowsOf(s) = 1..Size(s) /\ Len(RowsOf(s)) = Size(s) /\ Size(s) \in Nat
           /\ RowsOf(s) \in Seq({RowsOf(s)[i] : i \in 1..Size(s)})
           /\ \A i \in 1..Size(s) : RowsOf(s)[i] = Row(SourceAt(s, i), ShortcutAt(s, i))
  <1> DEFINE a == [i \in DOMAIN s.fields |-> Row(FieldSource(s.fields[i]), Bound(s, i))]
             b == [i \in DOMAIN s.codes |->
                      Row(CodeSource(s.codes[i]), IF i = 1 THEN "CopyTotp" ELSE "none")]
             n == Len(s.fields)
             m == Len(s.codes)
             A == {a[i] : i \in 1..n}
             B == {b[i] : i \in 1..m}
  <1>1. n \in Nat /\ m \in Nat /\ DOMAIN s.fields = 1..n /\ DOMAIN s.codes = 1..m
    BY DEF Listable
  <1>2. RowsOf(s) = a \o b
    BY DEF RowsOf
  <1>3. a \in [1..n -> A \cup B] /\ b \in [1..m -> A \cup B]
    BY <1>1
  <1>4. /\ \A i \in 1..n : a[i] = Row(FieldSource(s.fields[i]), Bound(s, i))
        /\ \A i \in 1..m : b[i] = Row(CodeSource(s.codes[i]), IF i = 1 THEN "CopyTotp" ELSE "none")
    BY <1>1
  <1> HIDE DEF a, b, n, m, A, B
  <1>5. a \in Seq(A \cup B) /\ b \in Seq(A \cup B)
    BY <1>1, <1>3, IsASeq
  <1>6. Len(a) = n /\ Len(b) = m
    BY <1>1, <1>3, <1>5, LenProperties
  <1>7. /\ a \o b \in Seq(A \cup B) /\ Len(a \o b) = n + m
        /\ \A i \in 1..n : (a \o b)[i] = a[i]
        /\ \A i \in 1..m : (a \o b)[n + i] = b[i]
    <2>1. /\ a \o b \in Seq(A \cup B) /\ Len(a \o b) = Len(a) + Len(b)
          /\ \A i \in 1..Len(a) : (a \o b)[i] = a[i]
          /\ \A i \in 1..Len(b) : (a \o b)[Len(a) + i] = b[i]
      BY <1>5, ConcatProperties
    <2>2. QED
      BY <1>6, <2>1
  <1>8. DOMAIN (a \o b) = 1..(n + m) /\ n + m \in Nat
    BY <1>1, <1>7, LenProperties
  <1>9. ASSUME NEW i \in 1..(n + m)
        PROVE  (a \o b)[i] = Row(SourceAt(s, i), ShortcutAt(s, i))
    <2>1. CASE i <= n
      BY <1>1, <1>4, <1>7, <2>1 DEF SourceAt, ShortcutAt, n
    <2>2. CASE ~(i <= n)
      <3>1. i - n \in 1..m /\ n + (i - n) = i
        BY <1>1, <2>2
      <3>2. (a \o b)[i] = b[i - n]
        BY <1>7, <3>1
      <3>3. i = n + 1 <=> i - n = 1
        BY <1>1, <2>2
      <3>4. QED
        BY <1>4, <2>2, <3>1, <3>2, <3>3 DEF SourceAt, ShortcutAt, n
    <2>3. QED
      BY <2>1, <2>2
  <1>10. a \o b \in Seq({(a \o b)[i] : i \in 1..(n + m)})
    <2>1. a \o b \in Seq({(a \o b)[i] : i \in DOMAIN (a \o b)})
      BY <1>7, SeqOfItsOwn
    <2>2. QED
      BY <1>8, <2>1
  <1>11. QED
    <2>1. Size(s) = n + m
      BY DEF Size, n, m
    <2>2. /\ DOMAIN RowsOf(s) = 1..Size(s) /\ Len(RowsOf(s)) = Size(s) /\ Size(s) \in Nat
          /\ \A i \in 1..Size(s) : RowsOf(s)[i] = Row(SourceAt(s, i), ShortcutAt(s, i))
      BY <1>2, <1>7, <1>8, <1>9, <2>1
    <2>3. RowsOf(s) \in Seq({RowsOf(s)[i] : i \in 1..Size(s)})
      BY <1>2, <1>10, <2>1, Zenon
    <2>4. QED
      BY <1>1, <2>2, <2>3, Zenon DEF n, m

(* No two rows copy from the same place. *)
LEMMA SourcesDiffer ==
    ASSUME NEW s, Listable(s), NEW i \in 1..Size(s), NEW j \in 1..Size(s), SourceAt(s, i) = SourceAt(s, j)
    PROVE  i = j
  <1> DEFINE n == Len(s.fields)
             m == Len(s.codes)
  <1>1. n \in Nat /\ m \in Nat /\ DOMAIN s.fields = 1..n /\ DOMAIN s.codes = 1..m /\ Size(s) = n + m
    BY RowsAre DEF Size
  <1>2. \A f, c : FieldSource(f) # CodeSource(c)
    BY DEF FieldSource, CodeSource
  <1>3. /\ \A f, g : FieldSource(f) = FieldSource(g) => f = g
        /\ \A f, g : CodeSource(f) = CodeSource(g) => f = g
    BY DEF FieldSource, CodeSource
  <1> HIDE DEF n, m
  <1>4. CASE i <= n /\ j <= n
    BY <1>1, <1>3, <1>4 DEF SourceAt, Listable, n
  <1>5. CASE ~(i <= n) /\ ~(j <= n)
    <2>1. i - n \in 1..m /\ j - n \in 1..m
      BY <1>1, <1>5
    <2>2. s.codes[i - n] = s.codes[j - n]
      BY <1>3, <1>5 DEF SourceAt, n
    <2>3. i - n = j - n
      BY <1>1, <2>1, <2>2 DEF Listable
    <2>4. QED
      BY <1>1, <2>3
  <1>6. QED
    BY <1>2, <1>4, <1>5 DEF SourceAt, n

(* What the accessors copy from is a row, unless there is none. *)
LEMMA PositionsAre ==
    ASSUME NEW s, Listable(s)
    PROVE  /\ UsernameIndex(s) \in 0..Len(s.fields) /\ UrlIndex(s) \in 0..Len(s.fields)
           /\ PrimaryIndex(s) \in 0..Len(s.fields)
           /\ PrimaryIndex(s) = 0 => Len(s.fields) = 0
  <1> DEFINE n == Len(s.fields)
  <1>1. n \in Nat /\ DOMAIN s.fields = 1..n
    BY RowsAre
  <1> HIDE DEF n
  <1>2. \A P \in SUBSET (1..n) : First(P) \in 0..n /\ (First(P) = 0 => P = {})
    <2> SUFFICES ASSUME NEW P \in SUBSET (1..n) PROVE First(P) \in 0..n /\ (First(P) = 0 => P = {})
      OBVIOUS
    <2>1. P \subseteq Nat
      OBVIOUS
    <2>2. IF P = {} THEN First(P) = 0 ELSE First(P) \in P
      BY <2>1, FirstIsThere
    <2>3. n \in Nat
      BY <1>1
    <2>4. \A x \in P : x \in 0..n /\ x # 0
      BY <2>3
    <2>5. 0 \in 0..n
      BY <2>3
    <2>6. QED
      BY <2>2, <2>4, <2>5, Zenon
  <1>3. \A name : IndexOf(s, name) \in 0..n
    BY <1>1, <1>2 DEF IndexOf
  <1>4. First({i \in DOMAIN s.fields : s.fields[i].secret}) \in 0..n
    BY <1>1, <1>2
  <1>5. First(DOMAIN s.fields) \in 0..n /\ (First(DOMAIN s.fields) = 0 => n = 0)
    BY <1>1, <1>2
  <1>6. QED
    BY <1>3, <1>4, <1>5 DEF UsernameIndex, UrlIndex, PrimaryIndex, FirstNonZero, n

(* The accessors, as rows. *)
LEMMA ActionsAre ==
    ASSUME NEW s, Listable(s)
    PROVE  /\ UsernameIndex(s) # 0 => UsernameAction(s) = SourceAt(s, UsernameIndex(s))
           /\ UrlIndex(s) # 0 => UrlAction(s) = SourceAt(s, UrlIndex(s))
           /\ UsernameIndex(s) = 0 => UsernameAction(s) = NoSource
           /\ UrlIndex(s) = 0 => UrlAction(s) = NoSource
           /\ Len(s.codes) # 0 => TotpAction(s) = SourceAt(s, Len(s.fields) + 1)
           /\ Len(s.codes) = 0 => TotpAction(s) = NoSource
           /\ IF Size(s) = 0 THEN PrimaryAction(s) = NoSource
              ELSE /\ PrimaryAction(s) # NoSource
                   /\ \E p \in 1..Size(s) : PrimaryAction(s) = SourceAt(s, p)
  <1> DEFINE n == Len(s.fields)
             m == Len(s.codes)
  <1>1. n \in Nat /\ m \in Nat /\ DOMAIN s.fields = 1..n /\ DOMAIN s.codes = 1..m /\ Size(s) = n + m
    BY RowsAre DEF Size
  <1>2. /\ UsernameIndex(s) \in 0..n /\ UrlIndex(s) \in 0..n /\ PrimaryIndex(s) \in 0..n
        /\ PrimaryIndex(s) = 0 => n = 0
    BY PositionsAre
  <1>3. m = 0 <=> s.codes = <<>>
    BY DEF Listable
  <1>4. \A f \in KeptFields : FieldSource(f) # NoSource
    BY FieldIsNoBlank
  <1>5. \A c : CodeSource(c) # NoSource
    BY DEF CodeSource, NoSource
  <1>6. \A i \in 1..n : SourceAt(s, i) = FieldSource(s.fields[i]) /\ s.fields[i] \in KeptFields
    BY <1>1 DEF SourceAt, Listable
  <1>7. SourceAt(s, n + 1) = CodeSource(s.codes[1])
    BY <1>1 DEF SourceAt
  <1>8. /\ m # 0 => TotpAction(s) = SourceAt(s, n + 1)
        /\ m = 0 => TotpAction(s) = NoSource
    BY <1>3, <1>7 DEF TotpAction
  <1> HIDE DEF n, m
  <1>9. /\ UsernameIndex(s) # 0 => UsernameAction(s) = SourceAt(s, UsernameIndex(s))
        /\ UrlIndex(s) # 0 => UrlAction(s) = SourceAt(s, UrlIndex(s))
        /\ UsernameIndex(s) = 0 => UsernameAction(s) = NoSource
        /\ UrlIndex(s) = 0 => UrlAction(s) = NoSource
    BY <1>1, <1>2, <1>6 DEF UsernameAction, UrlAction, FieldAt
  <1>10. CASE PrimaryIndex(s) # 0
    <2>1. PrimaryAction(s) = SourceAt(s, PrimaryIndex(s)) /\ PrimaryIndex(s) \in 1..n
      BY <1>1, <1>2, <1>6, <1>10 DEF PrimaryAction
    <2>2. PrimaryAction(s) # NoSource
      BY <2>1, <1>4, <1>6
    <2>3. PrimaryIndex(s) \in 1..Size(s) /\ Size(s) # 0
      BY <1>1, <2>1
    <2>4. QED
      BY <1>8, <1>9, <2>1, <2>2, <2>3 DEF n, m
  <1>11. CASE PrimaryIndex(s) = 0
    <2>1. PrimaryAction(s) = TotpAction(s) /\ n = 0 /\ Size(s) = m
      BY <1>1, <1>2, <1>11 DEF PrimaryAction
    <2>2. m # 0 => PrimaryAction(s) # NoSource /\ 1 \in 1..Size(s) /\ PrimaryAction(s) = SourceAt(s, 1)
      BY <1>1, <1>5, <1>7, <1>8, <2>1
    <2>3. QED
      BY <1>8, <1>9, <2>1, <2>2 DEF n, m
  <1>12. QED
    BY <1>10, <1>11

LEMMA Joined ==
    ASSUME NEW X, NEW a \in Seq(X), NEW b \in Seq(X)
    PROVE  /\ a \o b \in Seq(X) /\ Len(a \o b) = Len(a) + Len(b)
           /\ \A i \in 1..(Len(a) + Len(b)) :
                  (a \o b)[i] = IF i <= Len(a) THEN a[i] ELSE b[i - Len(a)]
  <1>1. /\ a \o b \in Seq(X) /\ Len(a \o b) = Len(a) + Len(b)
        /\ \A i \in 1..Len(a) : (a \o b)[i] = a[i]
        /\ \A i \in 1..Len(b) : (a \o b)[Len(a) + i] = b[i]
    BY ConcatProperties
  <1>2. Len(a) \in Nat /\ Len(b) \in Nat
    BY LenProperties
  <1>3. ASSUME NEW i \in 1..(Len(a) + Len(b)), ~(i <= Len(a))
        PROVE  (a \o b)[i] = b[i - Len(a)]
    <2>1. i - Len(a) \in 1..Len(b) /\ Len(a) + (i - Len(a)) = i
      BY <1>2, <1>3
    <2>2. QED
      BY <1>1, <2>1
  <1>4. QED
    BY <1>1, <1>2, <1>3

(* The primary row, and the others in order. *)
LEMMA AllActionsAre ==
    ASSUME NEW s, Listable(s), Size(s) # 0
    PROVE  \E p \in 1..Size(s) :
              /\ PrimaryAction(s) = SourceAt(s, p)
              /\ DOMAIN AllActions(s) = 1..Size(s) /\ Len(AllActions(s)) = Size(s)
              /\ \A k \in 1..Size(s) :
                    AllActions(s)[k] =
                        IF k = 1 THEN Row(SourceAt(s, p), "CopyPrimary")
                        ELSE IF k <= p THEN Row(SourceAt(s, k - 1), ShortcutAt(s, k - 1))
                        ELSE Row(SourceAt(s, k), ShortcutAt(s, k))
  <1> DEFINE rows == RowsOf(s)
             S == {rows[i] : i \in 1..Size(s)}
             primary == PrimaryAction(s)
             at == CHOOSE i \in DOMAIN rows : rows[i].source = primary
             n == Size(s)
  <1>1. /\ DOMAIN rows = 1..n /\ Len(rows) = n /\ rows \in Seq(S) /\ n \in Nat
        /\ \A i \in 1..n : rows[i] = Row(SourceAt(s, i), ShortcutAt(s, i))
    <2>1. n \in Nat
      BY RowsAre, Zenon
    <2>2. /\ DOMAIN rows = 1..n /\ Len(rows) = n
          /\ \A i \in 1..n : rows[i] = Row(SourceAt(s, i), ShortcutAt(s, i))
      BY RowsAre
    <2>3. rows \in Seq(S)
      BY RowsAre, Zenon
    <2>4. QED
      BY <2>1, <2>2, <2>3, Zenon
  <1>2. PICK p \in 1..n : primary = SourceAt(s, p)
    BY ActionsAre
  <1>3. rows[p].source = primary
    BY <1>1, <1>2 DEF Row
  <1>4. at \in 1..n /\ rows[at].source = primary
    BY <1>1, <1>3
  <1>5. at = p
    BY <1>1, <1>2, <1>4, SourcesDiffer DEF Row
  <1>6. AllActions(s) = <<Row(primary, "CopyPrimary")>> \o (SubSeq(rows, 1, at - 1) \o SubSeq(rows, at + 1, Len(rows)))
    BY ActionsAre DEF AllActions, RemoveAt
  <1> DEFINE u == SubSeq(rows, 1, p - 1)
             v == SubSeq(rows, p + 1, n)
             first == <<Row(primary, "CopyPrimary")>>
             all == first \o (u \o v)
             T == S \cup {Row(primary, "CopyPrimary")}
  <1>7. AllActions(s) = all
    BY <1>1, <1>5, <1>6
  <1> HIDE DEF rows, S, primary, at, n
  <1>8. /\ u \in Seq(S) /\ Len(u) = p - 1 /\ \A i \in 1..(p - 1) : u[i] = rows[i]
        /\ v \in Seq(S) /\ Len(v) = n - p /\ \A i \in 1..(n - p) : v[i] = rows[p + i]
    <2>1. \A a \in 1..n + 1, b \in 0..n : a <= b + 1 =>
              /\ SubSeq(rows, a, b) \in Seq(S) /\ Len(SubSeq(rows, a, b)) = b - a + 1
              /\ \A i \in 1..(b - a + 1) : SubSeq(rows, a, b)[i] = rows[a + i - 1]
      BY <1>1, SubSeqProperties
    <2>2. QED
      BY <1>1, <2>1
  <1> HIDE DEF u, v
  <1>9. /\ u \o v \in Seq(S) /\ Len(u \o v) = n - 1
        /\ \A i \in 1..(n - 1) : (u \o v)[i] = IF i < p THEN rows[i] ELSE rows[i + 1]
    <2>1. /\ u \o v \in Seq(S) /\ Len(u \o v) = n - 1
          /\ \A i \in 1..(n - 1) : (u \o v)[i] = IF i <= p - 1 THEN u[i] ELSE v[i - (p - 1)]
      <3>1. /\ u \o v \in Seq(S) /\ Len(u \o v) = Len(u) + Len(v)
            /\ \A i \in 1..(Len(u) + Len(v)) : (u \o v)[i] = IF i <= Len(u) THEN u[i] ELSE v[i - Len(u)]
        BY <1>8, Joined
      <3>2. /\ Len(u) = p - 1 /\ Len(u) + Len(v) = n - 1
        BY <1>1, <1>8
      <3>3. QED
        BY <3>1, <3>2, Zenon
    <2>2. ASSUME NEW i \in 1..(n - 1) PROVE (u \o v)[i] = IF i < p THEN rows[i] ELSE rows[i + 1]
      <3>1. CASE i < p
        BY <1>1, <1>8, <2>1, <3>1
      <3>2. CASE ~(i < p)
        <4>1. i - (p - 1) \in 1..(n - p) /\ p + (i - (p - 1)) = i + 1
          BY <1>1, <3>2
        <4>2. QED
          BY <1>1, <1>8, <2>1, <3>2, <4>1
      <3>3. QED
        BY <3>1, <3>2
    <2>3. QED
      BY <2>1, <2>2
  <1> DEFINE rest == u \o v
  <1> HIDE DEF rest
  <1>10. /\ first \in Seq(T) /\ Len(first) = 1 /\ first[1] = Row(primary, "CopyPrimary")
         /\ rest \in Seq(T)
    BY <1>9 DEF rest
  <1> HIDE DEF first
  <1>11. /\ all \in Seq(T) /\ Len(all) = n
         /\ \A i \in 1..n : all[i] = IF i <= 1 THEN first[i] ELSE rest[i - 1]
    <2>1. Len(rest) = n - 1
      BY <1>9 DEF rest
    <2>2. /\ all \in Seq(T) /\ Len(all) = Len(first) + Len(rest)
          /\ \A i \in 1..(Len(first) + Len(rest)) :
                 all[i] = IF i <= Len(first) THEN first[i] ELSE rest[i - Len(first)]
      <3> HIDE DEF T
      <3>1. all = first \o rest
        BY DEF rest
      <3>2. /\ first \o rest \in Seq(T) /\ Len(first \o rest) = Len(first) + Len(rest)
            /\ \A i \in 1..(Len(first) + Len(rest)) :
                   (first \o rest)[i] = IF i <= Len(first) THEN first[i] ELSE rest[i - Len(first)]
        BY <1>10, Joined
      <3>3. QED
        BY <3>1, <3>2, Zenon
    <2>3. Len(first) + Len(rest) = n /\ Len(first) = 1
      BY <1>1, <1>10, <2>1
    <2>4. QED
      BY <2>2, <2>3, Zenon
  <1>12. DOMAIN all = 1..n
    BY <1>11, LenProperties
  <1>13. ASSUME NEW k \in 1..n
         PROVE  all[k] = IF k = 1 THEN Row(SourceAt(s, p), "CopyPrimary")
                         ELSE IF k <= p THEN Row(SourceAt(s, k - 1), ShortcutAt(s, k - 1))
                         ELSE Row(SourceAt(s, k), ShortcutAt(s, k))
    <2>1. CASE k = 1
      BY <1>2, <1>10, <1>11, <2>1
    <2>2. CASE k # 1
      <3>1. k - 1 \in 1..(n - 1) /\ (k - 1 < p <=> k <= p) /\ (k - 1) + 1 = k
        BY <1>1, <2>2
      <3>2. all[k] = IF k <= p THEN rows[k - 1] ELSE rows[k]
        <4>1. all[k] = rest[k - 1]
          BY <1>1, <1>11, <2>2
        <4>2. rest[k - 1] = IF k - 1 < p THEN rows[k - 1] ELSE rows[(k - 1) + 1]
          BY <1>9, <3>1 DEF rest
        <4>3. QED
          BY <3>1, <4>1, <4>2, Zenon
      <3>3. k - 1 \in 1..n
        BY <1>1, <3>1
      <3>4. QED
        BY <1>1, <2>2, <3>2, <3>3
    <2>3. QED
      BY <2>1, <2>2
  <1>14. QED
    BY <1>2, <1>7, <1>11, <1>12, <1>13 DEF n, primary

(* What a step that leaves the item leaves of what is read from it. *)
LEMMA SameItem ==
    ASSUME UNCHANGED item
    PROVE  /\ RawEntries' = RawEntries /\ Summary' = Summary
           /\ \A raw : /\ AloneInAnyCase(raw)' <=> AloneInAnyCase(raw)
                       /\ AloneAmongCodes(raw)' <=> AloneAmongCodes(raw)
                       /\ IsCode(raw)' <=> IsCode(raw)
                       /\ Readable(raw)' <=> Readable(raw)
  <1>1. RawEntries' = RawEntries
    BY DEF RawEntries
  <1>2. \A p : SlotOf(p)' = SlotOf(p)
    BY DEF SlotOf
  <1>3. \A raw : ClassOf(raw)' = ClassOf(raw)
    BY <1>2 DEF ClassOf
  <1>4. \A a, b : Earlier(a, b)' <=> Earlier(a, b)
    BY <1>2 DEF Earlier
  <1>5. /\ \A raw : CustomOf(raw)' = CustomOf(raw)
        /\ \A p : TitleOf(p)' = TitleOf(p)
    BY DEF CustomOf, TitleOf
  <1>6. \A raw : /\ FieldName(raw)' = FieldName(raw) /\ Address(raw)' = Address(raw)
                 /\ BareName(raw)' = BareName(raw)
    BY <1>5 DEF FieldName, Address, BareName
  <1>7. \A raw : /\ IsField(raw)' <=> IsField(raw)
                 /\ IsCode(raw)' <=> IsCode(raw)
                 /\ Readable(raw)' <=> Readable(raw)
    BY <1>3, <1>5 DEF IsField, IsCode, Readable
  <1>8. \A raw : Field(raw)' = Field(raw) /\ Code(raw)' = Code(raw)
    BY <1>3, <1>6 DEF Field, Code
  <1>9. KeptFields' = KeptFields /\ KeptCodes' = KeptCodes
    BY <1>1, <1>4, <1>7, <1>8 DEF KeptFields, KeptCodes, KeepLast
  <1>10. \A S : InOrder(S)' = InOrder(S)
    <2> SUFFICES ASSUME NEW S PROVE InOrder(S)' = InOrder(S)
      OBVIOUS
    <2> DEFINE rank(e) == Cardinality({o \in S : Earlier(o.of, e.of)})
    <2>1. \A e : rank(e)' = rank(e)
      BY <1>4
    <2>2. InOrder(S) = [n \in 1..Cardinality(S) |-> CHOOSE e \in S : rank(e) = n - 1]
      BY DEF InOrder
    <2>3. InOrder(S)' = [n \in 1..Cardinality(S) |-> CHOOSE e \in S : rank(e)' = n - 1]
      BY DEF InOrder
    <2> HIDE DEF rank
    <2>4. \A n : (CHOOSE e \in S : rank(e)' = n - 1) = (CHOOSE e \in S : rank(e) = n - 1)
      BY <2>1
    <2>5. QED
      BY <2>2, <2>3, <2>4
  <1>11. Summary' = Summary
    BY <1>9, <1>10 DEF Summary
  <1>12. \A raw : AloneInAnyCase(raw)' <=> AloneInAnyCase(raw)
    <2> SUFFICES ASSUME NEW raw PROVE AloneInAnyCase(raw)' <=> AloneInAnyCase(raw)
      OBVIOUS
    <2>1. \A r : AnswersTo(r)' = AnswersTo(r)
      BY <1>6 DEF AnswersTo
    <2>2. \A r : AnswersFolded(r)' = AnswersFolded(r)
      BY <2>1 DEF AnswersFolded
    <2>3. QED
      BY <1>1, <1>6, <2>2 DEF AloneInAnyCase
  <1>13. \A raw : AloneAmongCodes(raw)' <=> AloneAmongCodes(raw)
    BY <1>1, <1>6, <1>7 DEF AloneAmongCodes, CodeNames
  <1>14. QED
    BY <1>1, <1>7, <1>11, <1>12, <1>13

----------------------------------------------------------------------------
(* The shortcuts. *)
LEMMA ShortcutsPoint ==
    ASSUME NEW s, Listable(s), NEW i \in 1..Size(s)
    PROVE  /\ ShortcutAt(s, i) # "CopyPrimary"
           /\ ShortcutAt(s, i) = "CopyUsername" => SourceAt(s, i) = UsernameAction(s)
           /\ ShortcutAt(s, i) = "CopyUrl" => SourceAt(s, i) = UrlAction(s)
           /\ ShortcutAt(s, i) = "CopyTotp" => SourceAt(s, i) = TotpAction(s)
  <1> DEFINE n == Len(s.fields)
             m == Len(s.codes)
  <1>1. n \in Nat /\ m \in Nat /\ Size(s) = n + m
    BY RowsAre DEF Size
  <1> HIDE DEF n, m
  <1>2. CASE i <= n
    <2>1. ShortcutAt(s, i) = Bound(s, i) /\ i # 0
      BY <1>1, <1>2 DEF ShortcutAt, n
    <2>2. QED
      BY <2>1, ActionsAre DEF Bound
  <1>3. CASE ~(i <= n)
    <2>1. ShortcutAt(s, i) = IF i = n + 1 THEN "CopyTotp" ELSE "none"
      BY <1>3 DEF ShortcutAt, n
    <2>2. m # 0
      BY <1>1, <1>3
    <2>3. QED
      BY <2>1, <2>2, ActionsAre DEF n, m
  <1>4. QED
    BY <1>2, <1>3

LEMMA AccessorsHaveRows ==
    ASSUME NEW s, Listable(s),
           NEW source \in {UsernameAction(s), UrlAction(s), TotpAction(s)} \ {NoSource}
    PROVE  \E q \in 1..Size(s) : source = SourceAt(s, q) /\ ShortcutAt(s, q) # "none"
  <1> DEFINE n == Len(s.fields)
             m == Len(s.codes)
  <1>1. n \in Nat /\ m \in Nat /\ Size(s) = n + m
    BY RowsAre DEF Size
  <1>2. UsernameIndex(s) \in 0..n /\ UrlIndex(s) \in 0..n
    BY PositionsAre
  <1> HIDE DEF n, m
  <1>3. CASE source = UsernameAction(s)
    <2>1. UsernameIndex(s) \in 1..n /\ source = SourceAt(s, UsernameIndex(s))
      BY <1>1, <1>2, <1>3, ActionsAre
    <2>2. ShortcutAt(s, UsernameIndex(s)) = "CopyUsername"
      BY <2>1 DEF ShortcutAt, Bound, n
    <2>3. UsernameIndex(s) \in 1..Size(s)
      BY <1>1, <2>1
    <2>4. QED
      BY <2>1, <2>2, <2>3
  <1>4. CASE source = UrlAction(s)
    <2>1. UrlIndex(s) \in 1..n /\ source = SourceAt(s, UrlIndex(s))
      BY <1>1, <1>2, <1>4, ActionsAre
    <2>2. ShortcutAt(s, UrlIndex(s)) \in {"CopyUsername", "CopyUrl"}
      BY <2>1 DEF ShortcutAt, Bound, n
    <2>3. UrlIndex(s) \in 1..Size(s)
      BY <1>1, <2>1
    <2>4. QED
      BY <2>1, <2>2, <2>3
  <1>5. CASE source = TotpAction(s)
    <2>1. m # 0 /\ source = SourceAt(s, n + 1)
      BY <1>5, ActionsAre DEF n, m
    <2>2. n + 1 \in 1..Size(s) /\ ~(n + 1 <= n)
      BY <1>1, <2>1
    <2>3. ShortcutAt(s, n + 1) = "CopyTotp"
      BY <2>2 DEF ShortcutAt, n
    <2>4. QED
      BY <2>1, <2>2, <2>3
  <1>6. QED
    BY <1>3, <1>4, <1>5

LEMMA ListedShortcuts ==
    ASSUME Listable(held)
    PROVE  ShortcutsCopyTheirRow
  <1> DEFINE rows == AllActions(held)
             sources == {rows[i].source : i \in DOMAIN rows}
             n == Size(held)
  <1>0. n = Len(held.fields) + Len(held.codes)
    BY DEF Size
  <1>1. n \in Nat
    BY RowsAre
  <1>2. CASE n = 0
    <2>1. PrimaryAction(held) = NoSource
      BY <1>2, ActionsAre
    <2>2. rows = <<>>
      BY <2>1 DEF AllActions
    <2>3. Len(rows) = 0 /\ DOMAIN rows = {} /\ sources = {}
      BY <2>2
    <2>4. Cardinality(sources) = Len(rows) /\ Len(rows) = Len(held.fields) + Len(held.codes)
      BY <1>0, <1>2, <2>3, FS_EmptySet
    <2>5. \A source \in {UsernameAction(held), UrlAction(held), TotpAction(held)} : source = NoSource
      <3>1. \A source \in {UsernameAction(held), UrlAction(held), TotpAction(held)} \ {NoSource} : FALSE
        BY <1>1, <1>2, AccessorsHaveRows
      <3>2. QED
        BY <3>1
    <2> HIDE DEF rows
    <2>6. QED
      BY <2>3, <2>4, <2>5 DEF ShortcutsCopyTheirRow, rows
  <1>3. CASE n # 0
    <2> DEFINE at(p, k) == IF k = 1 THEN p ELSE IF k <= p THEN k - 1 ELSE k
    <2>1. PICK p \in 1..n :
              /\ PrimaryAction(held) = SourceAt(held, p)
              /\ DOMAIN rows = 1..n /\ Len(rows) = n
              /\ \A k \in 1..n :
                    rows[k] = IF k = 1 THEN Row(SourceAt(held, p), "CopyPrimary")
                              ELSE IF k <= p THEN Row(SourceAt(held, k - 1), ShortcutAt(held, k - 1))
                              ELSE Row(SourceAt(held, k), ShortcutAt(held, k))
      BY <1>3, AllActionsAre
    <2> HIDE DEF rows, n
    <2>2. \A k \in 1..n : /\ at(p, k) \in 1..n
                          /\ rows[k].source = SourceAt(held, at(p, k))
                          /\ rows[k].shortcut = IF k = 1 THEN "CopyPrimary" ELSE ShortcutAt(held, at(p, k))
      <3> SUFFICES ASSUME NEW k \in 1..n
                   PROVE  /\ at(p, k) \in 1..n
                          /\ rows[k].source = SourceAt(held, at(p, k))
                          /\ rows[k].shortcut = IF k = 1 THEN "CopyPrimary" ELSE ShortcutAt(held, at(p, k))
        OBVIOUS
      <3>1. CASE k = 1
        BY <1>1, <2>1, <3>1 DEF Row
      <3>2. CASE k # 1 /\ k <= p
        BY <1>1, <2>1, <3>2 DEF Row
      <3>3. CASE k # 1 /\ ~(k <= p)
        BY <1>1, <2>1, <3>3 DEF Row
      <3>4. QED
        BY <3>1, <3>2, <3>3
    <2>3. \A k, l \in 1..n : at(p, k) = at(p, l) => k = l
      BY <1>1
    <2>4. \A q \in 1..n : \E k \in 1..n : at(p, k) = q
      <3> SUFFICES ASSUME NEW q \in 1..n PROVE \E k \in 1..n : at(p, k) = q
        OBVIOUS
      <3>1. CASE q = p
        <4>1. at(p, 1) = q /\ 1 \in 1..n
          BY <1>1, <3>1
        <4>2. QED
          BY <4>1, Zenon
      <3>2. CASE q < p
        <4>1. at(p, q + 1) = q /\ q + 1 \in 1..n
          BY <1>1, <3>2
        <4>2. QED
          BY <4>1, Zenon
      <3>3. CASE q > p
        <4>1. at(p, q) = q
          BY <1>1, <3>3
        <4>2. QED
          BY <4>1, Zenon
      <3>4. QED
        BY <1>1, <3>1, <3>2, <3>3
    <2> HIDE DEF at
    <2>5. \A k, l \in 1..n : rows[k].source = rows[l].source => k = l
      BY <2>2, <2>3, SourcesDiffer DEF n
    <2>6. Cardinality(sources) = n
      <3> DEFINE f == [k \in 1..n |-> rows[k].source]
      <3>1. f \in Bijection(1..n, sources)
        BY <2>1, <2>5 DEF Bijection, Injection, Surjection, IsInjective
      <3>2. IsFiniteSet(1..n) /\ Cardinality(1..n) = n
        BY <1>1, FS_Interval
      <3> HIDE DEF f, sources
      <3>3. QED
        BY <3>1, <3>2, FS_Bijection DEF ExistsBijection
    <2>7. ASSUME NEW k \in DOMAIN rows
          PROVE  /\ rows[k].shortcut = "CopyPrimary" => rows[k].source = PrimaryAction(held)
                 /\ rows[k].shortcut = "CopyUsername" => rows[k].source = UsernameAction(held)
                 /\ rows[k].shortcut = "CopyUrl" => rows[k].source = UrlAction(held)
                 /\ rows[k].shortcut = "CopyTotp" => rows[k].source = TotpAction(held)
      <3>1. CASE k = 1
        BY <2>1, <2>2, <3>1 DEF Row
      <3>2. CASE k # 1
        BY <2>1, <2>2, <3>2, ShortcutsPoint DEF n
      <3>3. QED
        BY <3>1, <3>2
    <2>8. ASSUME NEW source \in {UsernameAction(held), UrlAction(held), TotpAction(held)} \ {NoSource}
          PROVE  \E k \in DOMAIN rows : rows[k].source = source /\ rows[k].shortcut # "none"
      <3>1. PICK q \in 1..n : source = SourceAt(held, q) /\ ShortcutAt(held, q) # "none"
        BY AccessorsHaveRows DEF n
      <3>2. PICK k \in 1..n : at(p, k) = q
        BY <2>4
      <3>3. QED
        BY <2>1, <2>2, <3>1, <3>2
    <2>9. Len(rows) = Len(held.fields) + Len(held.codes)
      BY <1>0, <2>1
    <2>10. QED
      BY <2>1, <2>6, <2>7, <2>8, <2>9 DEF ShortcutsCopyTheirRow, rows
  <1>4. QED
    BY <1>2, <1>3

----------------------------------------------------------------------------
(* The invariant: the item is one the user can make, and what the app has   *)
(* of it, once it is listed, is the summary of it as it is.                *)
Listed == held = Unlisted \/ held = Summary
ItemsInv == Made /\ Listed /\ (answer # NoAnswer => held # Unlisted) /\ CopyReachesItsOwn

LEMMA ListedIsListable ==
    ASSUME Made, Listed
    PROVE  Listable(held)
  <1>1. CASE held = Unlisted
    BY <1>1 DEF Unlisted, Listable
  <1>2. CASE held = Summary
    BY <1>2, KeptAreEntries, InOrderLists DEF Summary, Listable
  <1>3. QED
    BY <1>1, <1>2 DEF Listed

LEMMA WebsitesFit ==
    ASSUME Made
    PROVE  Cardinality(RawEntries) \in Nat /\ item.websites <= Cardinality(RawEntries)
  <1> DEFINE n == item.websites
             W == {Raw("urls", i) : i \in 1..n}
             f == [i \in 1..n |-> Raw("urls", i)]
  <1>1. n \in Nat
    BY DEF Made, ItemTypes
  <1>2. W \subseteq RawEntries /\ IsFiniteSet(RawEntries)
    BY RawEntriesAreFinite DEF RawEntries
  <1>3. \A i, j : Raw("urls", i) = Raw("urls", j) => i = j
    BY DEF Raw
  <1>4. f \in Bijection(1..n, W)
    BY <1>3 DEF Bijection, Injection, Surjection, IsInjective
  <1> HIDE DEF n, W, f
  <1>5. IsFiniteSet(1..n) /\ Cardinality(1..n) = n
    BY <1>1, FS_Interval
  <1>6. Cardinality(W) = n
    BY <1>4, <1>5, FS_Bijection DEF ExistsBijection
  <1>7. Cardinality(W) <= Cardinality(RawEntries) /\ Cardinality(RawEntries) \in Nat
    BY <1>2, FS_Subset, FS_CardinalityType
  <1>8. QED
    BY <1>6, <1>7 DEF n

LEMMA MadeInitially ==
    ASSUME ItemsInit
    PROVE  ItemsInv
  <1>1. item \in [kind : Kinds, members : {{}}, websites : {0}, titles : Titlings,
                  custom : {[place \in CustomPlaces |-> <<>>]}]
    BY DEF ItemsInit
  <1>2. /\ item.kind \in Kinds /\ item.members = {} /\ item.websites = 0
        /\ item.custom = [place \in CustomPlaces |-> <<>>]
    BY <1>1
  <1>3. ItemTypes
    <2>1. [place \in CustomPlaces |-> <<>>] \in
              [CustomPlaces -> Seq([name : Names, content : Contents])]
      OBVIOUS
    <2>2. item.custom \in [CustomPlaces -> Seq([name : Names, content : Contents])]
      BY <1>2, <2>1, Zenon
    <2>3. item = [kind |-> item.kind, members |-> item.members, websites |-> item.websites,
                  titles |-> item.titles, custom |-> item.custom]
      BY <1>1
    <2>4. item.titles \in Titlings /\ item.members \in SUBSET Members /\ item.websites \in Nat
      BY <1>1
    <2> HIDE DEF CustomPlaces
    <2>5. QED
      BY <1>2, <2>2, <2>3, <2>4 DEF ItemTypes
  <1>4. Placed
    BY <1>2 DEF Placed
  <1>5. Small
    BY <1>2, FS_EmptySet, ItemsAssumption DEF Small, ItemsAssumption
  <1>6. QED
    BY <1>3, <1>4, <1>5 DEF ItemsInit, ItemsInv, Made, Listed, CopyReachesItsOwn

(* An edit keeps the item one the user can make. *)
LEMMA EditKeepsHolds ==
    ASSUME item'.kind = item.kind
    PROVE  /\ \A class, place : Holds(class, place)' <=> Holds(class, place)
           /\ \A m : HoldsMember(m)' <=> HoldsMember(m)
BY DEF Holds, HoldsMember

LEMMA MadeByMember ==
    ASSUME Made, FillMember
    PROVE  Made'
  <1>1. PICK m \in Members \ item.members :
            HoldsMember(m) /\ item' = [item EXCEPT !.members = item.members \cup {m}]
    BY DEF FillMember, Edited
  <1>2. /\ item'.kind = item.kind /\ item'.members = item.members \cup {m}
        /\ item'.websites = item.websites /\ item'.custom = item.custom
    BY <1>1 DEF Made, ItemTypes
  <1>3. ItemTypes'
    BY <1>1 DEF Made, ItemTypes
  <1>4. Placed'
    BY <1>1, <1>2, EditKeepsHolds DEF Made, Placed
  <1>5. Small'
    BY <1>2, FS_AddElement DEF Made, Small
  <1>6. QED
    BY <1>3, <1>4, <1>5 DEF Made

LEMMA MadeByWebsite ==
    ASSUME Made, AddWebsite
    PROVE  Made'
  <1>1. /\ Room /\ Holds("websites", "urls")
        /\ item' = [item EXCEPT !.websites = item.websites + 1]
    BY DEF AddWebsite, Edited
  <1>2. /\ item'.kind = item.kind /\ item'.members = item.members
        /\ item'.websites = item.websites + 1 /\ item'.custom = item.custom
        /\ item.websites \in Nat /\ MaxEntries[item.kind] \in Nat
    BY <1>1, ItemsAssumption DEF Made, ItemTypes, ItemsAssumption
  <1>3. ItemTypes'
    <2>1. item.websites + 1 \in Nat
      BY <1>2
    <2>2. QED
      BY <1>1, <2>1 DEF Made, ItemTypes
  <1>4. Placed'
    BY <1>1, <1>2, EditKeepsHolds DEF Made, Placed
  <1>5. item.websites < MaxEntries[item.kind]
    BY <1>1, <1>2, WebsitesFit DEF Room
  <1>6. Small'
    BY <1>2, <1>5 DEF Made, Small
  <1>7. QED
    BY <1>3, <1>4, <1>6 DEF Made

LEMMA MadeByCustom ==
    ASSUME Made, AddCustom
    PROVE  Made'
  <1>1. PICK place \in CustomPlaces, name \in Names, content \in Contents :
            /\ Holds("custom", place)
            /\ item' = [item EXCEPT !.custom[place] =
                           Append(item.custom[place], [name |-> name, content |-> content])]
    BY DEF AddCustom, Edited
  <1> DEFINE field == [name |-> name, content |-> content]
             fields == Append(item.custom[place], field)
  <1>2. /\ item'.kind = item.kind /\ item'.members = item.members
        /\ item'.websites = item.websites
        /\ item'.custom = [item.custom EXCEPT ![place] = fields]
        /\ item.custom \in [CustomPlaces -> Seq([name : Names, content : Contents])]
    BY <1>1 DEF Made, ItemTypes
  <1>3. fields \in Seq([name : Names, content : Contents])
    BY <1>2, AppendProperties
  <1>4. ItemTypes'
    BY <1>1, <1>2, <1>3 DEF Made, ItemTypes
  <1>5. Placed'
    BY <1>1, <1>2, EditKeepsHolds DEF Made, Placed
  <1>6. Small'
    BY <1>2 DEF Made, Small
  <1>7. QED
    BY <1>4, <1>5, <1>6 DEF Made

(* A copy of a row of the item as it is reaches what pass-cli can take for   *)
(* no other.                                                                *)
LEMMA CopyReaches ==
    ASSUME Made, held = Summary, CopyRow
    PROVE  LET asked == answer'.asked
           IN  (IF IsCode(asked) THEN AloneAmongCodes(asked) ELSE AloneInAnyCase(asked))
                   => answer'.got = asked
  <1>1. PICK i \in DOMAIN AllActions(held) :
            LET source == AllActions(held)[i].source
                name == source.entry.name
            IN  answer' \in
                    [asked : {source.entry.of},
                     got : IF source.code
                           THEN UNION {PickTotp(name, own) :
                                    own \in (SUBSET {<<"totp_uri">>, <<"totp">>}) \ {{}}}
                           ELSE {ItemView(name)}]
    BY DEF CopyRow, Range
  <1> DEFINE source == AllActions(held)[i].source
  <1>2. Listable(held)
    BY ListedIsListable DEF Listed
  <1>3. Size(held) # 0
    <2> SUFFICES ASSUME Size(held) = 0 PROVE FALSE
      OBVIOUS
    <2>1. PrimaryAction(held) = NoSource
      BY <1>2, ActionsAre
    <2>2. AllActions(held) = <<>>
      BY <2>1 DEF AllActions
    <2>3. QED
      BY <2>2
  <1>4. \E q \in 1..Size(held) : source = SourceAt(held, q)
    <2>1. Size(held) \in Nat
      BY <1>2, RowsAre
    <2>2. PICK p \in 1..Size(held) :
              /\ DOMAIN AllActions(held) = 1..Size(held)
              /\ \A k \in 1..Size(held) :
                    AllActions(held)[k] =
                        IF k = 1 THEN Row(SourceAt(held, p), "CopyPrimary")
                        ELSE IF k <= p THEN Row(SourceAt(held, k - 1), ShortcutAt(held, k - 1))
                        ELSE Row(SourceAt(held, k), ShortcutAt(held, k))
      BY <1>2, <1>3, AllActionsAre
    <2>3. CASE i = 1
      BY <2>2, <2>3 DEF Row
    <2>4. CASE i # 1 /\ i <= p
      <3>1. i - 1 \in 1..Size(held)
        BY <2>1, <2>2, <2>4
      <3>2. QED
        BY <2>2, <2>4, <3>1 DEF Row
    <2>5. CASE i # 1 /\ ~(i <= p)
      BY <2>2, <2>5 DEF Row
    <2>6. QED
      BY <2>3, <2>4, <2>5
  <1>5. \/ \E f \in KeptFields : source = FieldSource(f)
        \/ \E c \in KeptCodes : source = CodeSource(c)
    <2>1. PICK q \in 1..Size(held) : source = SourceAt(held, q)
      BY <1>4
    <2> DEFINE n == Len(held.fields)
               m == Len(held.codes)
    <2>2. /\ n \in Nat /\ m \in Nat /\ Size(held) = n + m
          /\ DOMAIN held.fields = 1..n /\ DOMAIN held.codes = 1..m
      BY <1>2, RowsAre DEF Size
    <2>3. held.fields \in Seq(KeptFields) /\ held.codes \in Seq(KeptCodes)
      BY <1>2 DEF Listable
    <2>4. /\ \A k \in 1..n : held.fields[k] \in KeptFields
          /\ \A k \in 1..m : held.codes[k] \in KeptCodes
      BY <2>3, <2>2
    <2> HIDE DEF n, m, source
    <2>5. q \in 1..n \/ (~(q <= n) /\ q - n \in 1..m)
      BY <2>2
    <2>6. QED
      BY <2>1, <2>4, <2>5 DEF SourceAt, n
  <1> HIDE DEF source
  <1>6. /\ answer'.asked = source.entry.of
        /\ answer'.got \in IF source.code
                           THEN UNION {PickTotp(source.entry.name, own) :
                                    own \in (SUBSET {<<"totp_uri">>, <<"totp">>}) \ {{}}}
                           ELSE {ItemView(source.entry.name)}
    BY <1>1 DEF source
  <1>7. CASE \E f \in KeptFields : source = FieldSource(f)
    <2>1. PICK f \in KeptFields : source = FieldSource(f)
      BY <1>7
    <2>2. PICK raw \in RawEntries : IsField(raw) /\ f = Field(raw)
      BY DEF KeptFields, KeepLast
    <2>3. source.code = FALSE /\ source.entry.of = raw /\ source.entry.name = FieldName(raw)
      BY <2>1, <2>2 DEF FieldSource, Field
    <2>4. ~IsCode(raw)
      BY <2>2, FieldsArePlain
    <2>5. answer'.asked = raw /\ answer'.got = ItemView(FieldName(raw))
      BY <1>6, <2>3
    <2>6. QED
      BY <2>4, <2>5, ViewReachesTheField
  <1>8. CASE \E c \in KeptCodes : source = CodeSource(c)
    <2>1. PICK c \in KeptCodes : source = CodeSource(c)
      BY <1>8
    <2>2. PICK raw \in RawEntries : IsCode(raw) /\ c = Code(raw)
      BY DEF KeptCodes, KeepLast
    <2>3. source.code = TRUE /\ source.entry.of = raw /\ source.entry.name = BareName(raw)
      BY <2>1, <2>2 DEF CodeSource, Code
    <2>4. PICK own \in (SUBSET {<<"totp_uri">>, <<"totp">>}) \ {{}} :
              answer'.got \in PickTotp(BareName(raw), own)
      BY <1>6, <2>3
    <2>5. answer'.asked = raw
      BY <1>6, <2>3
    <2>6. AloneAmongCodes(raw) => answer'.got = raw
      BY <2>2, <2>4, TotpReachesTheCode
    <2>7. QED
      BY <2>2, <2>5, <2>6
  <1>9. QED
    BY <1>5, <1>7, <1>8

LEMMA ItemsStep ==
    ASSUME ItemsInv, [ItemsNext]_itemsVars
    PROVE  ItemsInv'
  <1>1. ASSUME UNCHANGED item
        PROVE  /\ Made' /\ Summary' = Summary /\ Unlisted' = Unlisted
               /\ \A raw : /\ AloneInAnyCase(raw)' <=> AloneInAnyCase(raw)
                           /\ AloneAmongCodes(raw)' <=> AloneAmongCodes(raw)
                           /\ IsCode(raw)' <=> IsCode(raw)
    <2>1. ItemTypes' /\ Small'
      BY <1>1 DEF ItemsInv, Made, ItemTypes, Small
    <2>2. Placed'
      BY <1>1, EditKeepsHolds DEF ItemsInv, Made, Placed
    <2>3. QED
      BY <1>1, <2>1, <2>2, SameItem DEF Made, Unlisted
  <1>2. CASE FillMember \/ AddWebsite \/ AddCustom
    <2>1. Made'
      BY <1>2, MadeByMember, MadeByWebsite, MadeByCustom DEF ItemsInv
    <2>2. held = Unlisted /\ held' = held /\ answer' = answer
      BY <1>2 DEF FillMember, AddWebsite, AddCustom, Edited
    <2>3. answer' = NoAnswer
      BY <2>2 DEF ItemsInv
    <2>4. QED
      BY <2>1, <2>2, <2>3 DEF ItemsInv, Listed, CopyReachesItsOwn, NoAnswer, Unlisted
  <1>3. CASE List
    <2>1. held' = Summary /\ answer' = NoAnswer /\ UNCHANGED item
      BY <1>3 DEF List
    <2>2. QED
      BY <1>1, <2>1 DEF ItemsInv, Listed, CopyReachesItsOwn, NoAnswer
  <1>4. CASE CopyRow
    <2>1. UNCHANGED <<item, held>>
      BY <1>4 DEF CopyRow
    <2>2. held # Unlisted
      <3> SUFFICES ASSUME held = Unlisted PROVE FALSE
        OBVIOUS
      <3>1. Len(held.fields) = 0 /\ Len(held.codes) = 0 /\ Listable(held)
        BY ListedIsListable DEF Unlisted, ItemsInv
      <3>2. Size(held) = 0
        BY <3>1 DEF Size
      <3>3. AllActions(held) = <<>>
        BY <3>1, <3>2, ActionsAre DEF AllActions
      <3>4. QED
        BY <1>4, <3>3 DEF CopyRow, Range
    <2>3. held = Summary
      BY <2>2 DEF ItemsInv, Listed
    <2>4. LET asked == answer'.asked
          IN  (IF IsCode(asked) THEN AloneAmongCodes(asked) ELSE AloneInAnyCase(asked))
                  => answer'.got = asked
      BY <1>4, <2>3, CopyReaches DEF ItemsInv
    <2>5. CopyReachesItsOwn'
      BY <1>1, <2>1, <2>4 DEF CopyReachesItsOwn
    <2>6. QED
      BY <1>1, <2>1, <2>2, <2>3, <2>5 DEF ItemsInv, Listed
  <1>5. CASE UNCHANGED itemsVars
    <2>1. UNCHANGED <<item, held, answer>>
      BY <1>5 DEF itemsVars
    <2>2. CopyReachesItsOwn'
      BY <1>1, <2>1 DEF CopyReachesItsOwn, NoAnswer, ItemsInv
    <2>3. QED
      BY <1>1, <2>1, <2>2 DEF ItemsInv, Listed, NoAnswer
  <1>6. QED
    BY <1>2, <1>3, <1>4, <1>5 DEF ItemsNext

(* The item the app lists is one the user can make, and its summary says    *)
(* what the item is.                                                       *)
THEOREM ItemsInvariant == ItemsSpec => []ItemsInv
  <1>1. QED
    BY MadeInitially, ItemsStep, PTL DEF ItemsSpec

(* Every field and code that could be told from the others has a row        *)
(* (parse.rs into_summary).                                                *)
THEOREM ReadableOffered == ItemsSpec => []ReadableIsOffered
  <1>1. ItemsInv => ReadableIsOffered
    BY OfferedInSummary DEF ItemsInv, Listed, ReadableIsOffered
  <1>2. QED
    BY <1>1, ItemsInvariant, PTL

(* The row of a field whose name no other bears in any case, or of a code   *)
(* whose name no other code bears, copies it, never another's value under   *)
(* its label (parse.rs qualified, pick_totp).                               *)
THEOREM CopyReached == ItemsSpec => []CopyReachesItsOwn
  <1>1. ItemsInv => CopyReachesItsOwn
    BY DEF ItemsInv
  <1>2. QED
    BY <1>1, ItemsInvariant, PTL

(* The row that shows a shortcut copies what the shortcut copies, and every *)
(* field and code has one row (core/actions.rs all_actions).               *)
THEOREM ShortcutsCopied == ItemsSpec => []ShortcutsCopyTheirRow
  <1>1. ItemsInv => ShortcutsCopyTheirRow
    BY ListedIsListable, ListedShortcuts DEF ItemsInv
  <1>2. QED
    BY <1>1, ItemsInvariant, PTL
=============================================================================
