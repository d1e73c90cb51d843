---------------------------- MODULE RunnerProofs ----------------------------
(***************************************************************************)
(* Theorems about Runner, for any calls, limit and timeout.                *)
(*                                                                         *)
(* RunInv ties the permits to the calls that hold one and the warm-up      *)
(* guard to the call that runs under it.  LineInv says who waits behind    *)
(* whom, and that what a call has waited and what those before it have     *)
(* still to run come to no more than its patience.                         *)
(***************************************************************************)
EXTENDS Runner, FiniteSetTheorems, TLAPS

CallStates == {"none", "permit", "warmup", "running"} \cup Ended

Types ==
    /\ call \in [Calls -> CallStates]
    /\ permits \in Nat /\ warm \in BOOLEAN /\ warmup \in Calls \cup {0}

(* The guard is nobody's, or that of a call whose process runs. *)
GuardIsUsed == warmup # 0 => warmup \in Running

RunInv == Types /\ PermitsAreConserved /\ GuardIsUsed /\ ColdRunsAlone

----------------------------------------------------------------------------
LEMMA CallsAreFinite == IsFiniteSet(Calls) /\ 0 \notin Calls /\ MAX_CONCURRENT \in Nat
BY RunnerAssumption, FS_Union DEF Calls

LEMMA HoldingIsFinite == IsFiniteSet(Holding) /\ Cardinality(Holding) \in Nat
BY CallsAreFinite, FS_Subset, FS_CardinalityType DEF Holding

(* Calls that end give back what they hold, and only that. *)
LEMMA EndKeeps ==
    ASSUME RunInv, NEW S \in SUBSET Calls, NEW how \in Ended, End(S, how),
           warm' \in BOOLEAN, warm => warm'
    PROVE  RunInv'
  <1>1. call' \in [Calls -> CallStates]
    BY DEF RunInv, Types, End, CallStates
  <1>2. Holding' = Holding \ S /\ Running' = Running \ S
    BY DEF End, Holding, Running, Ended
  <1>3. PermitsAreConserved' /\ permits' \in Nat
    <2>1. Cardinality(Holding \ S) = Cardinality(Holding) - Cardinality(Holding \cap S)
      BY HoldingIsFinite, FS_Difference
    <2>2. Cardinality(Holding \cap S) \in Nat /\ S \cap Holding = Holding \cap S
      <3>1. S \cap Holding = Holding \cap S
        OBVIOUS
      <3>2. IsFiniteSet(Holding \cap S)
        BY HoldingIsFinite, FS_Intersection
      <3>3. QED
        BY <3>1, <3>2, FS_CardinalityType
    <2>3. permits' = permits + Cardinality(Holding \cap S)
      BY <2>2 DEF End, PermitReturned
    <2>4. permits \in Nat /\ permits + Cardinality(Holding) = MAX_CONCURRENT
      BY DEF RunInv, Types, PermitsAreConserved
    <2>5. permits' + Cardinality(Holding') = MAX_CONCURRENT /\ permits' \in Nat
      BY <1>2, <2>1, <2>2, <2>3, <2>4, HoldingIsFinite, CallsAreFinite
    <2>6. QED
      BY <2>5 DEF PermitsAreConserved
  <1>4. warmup' = IF warmup \in S THEN 0 ELSE warmup
    BY DEF End, GuardReturned
  <1>5. GuardIsUsed' /\ ColdRunsAlone'
    BY <1>2, <1>4 DEF RunInv, GuardIsUsed, ColdRunsAlone
  <1>6. QED
    BY <1>1, <1>3, <1>4, <1>5 DEF RunInv, Types

LEMMA InitRun == Init => RunInv
  <1> SUFFICES ASSUME Init PROVE RunInv
    OBVIOUS
  <1>1. Holding = {} /\ Running = {}
    BY DEF Init, Holding, Running
  <1>2. PermitsAreConserved
    BY <1>1, FS_EmptySet, CallsAreFinite DEF Init, PermitsAreConserved
  <1>3. QED
    BY <1>1, <1>2, CallsAreFinite DEF Init, RunInv, Types, CallStates, GuardIsUsed, ColdRunsAlone

(* What changes neither the permits, the guard nor who holds them. *)
LEMMA SameHolders ==
    ASSUME RunInv, call' \in [Calls -> CallStates], Holding' = Holding, Running' = Running,
           UNCHANGED <<permits, warmup>>, warm' \in BOOLEAN, warm => warm'
    PROVE  RunInv'
BY DEF RunInv, Types, PermitsAreConserved, GuardIsUsed, ColdRunsAlone

LEMMA AskKeeps ==
    ASSUME RunInv, NEW S \in SUBSET Calls, Ask(S)
    PROVE  RunInv'
  <1>1. call' \in [Calls -> CallStates] /\ Holding' = Holding /\ Running' = Running
    BY DEF RunInv, Types, Ask, CallStates, Holding, Running
  <1>2. QED
    BY <1>1, SameHolders DEF Ask, RunInv, Types, locks

LEMMA TakePermitKeeps ==
    ASSUME RunInv, NEW c \in Calls, TakePermit(c)
    PROVE  RunInv'
  <1>1. \/ warm /\ call' = [call EXCEPT ![c] = "running"]
        \/ ~warm /\ call' = [call EXCEPT ![c] = "warmup"]
    BY DEF TakePermit
  <1>2. call' \in [Calls -> CallStates] /\ UNCHANGED <<warm, warmup>>
    BY <1>1 DEF RunInv, Types, TakePermit, CallStates
  <1>3. Holding' = Holding \cup {c} /\ c \notin Holding
    BY <1>1 DEF RunInv, Types, Holding, TakePermit
  <1>4. Running' = IF warm THEN Running \cup {c} ELSE Running
    BY <1>1 DEF RunInv, Types, Running, TakePermit
  <1>5. permits' \in Nat /\ PermitsAreConserved'
    <2>1. Cardinality(Holding') = Cardinality(Holding) + 1
      BY <1>3, HoldingIsFinite, FS_AddElement
    <2>2. permits \in Nat /\ permits > 0 /\ permits' = permits - 1
      BY DEF RunInv, Types, TakePermit
    <2>3. permits + Cardinality(Holding) = MAX_CONCURRENT
      BY DEF RunInv, PermitsAreConserved
    <2>4. permits' \in Nat /\ permits' + Cardinality(Holding') = MAX_CONCURRENT
      BY <2>1, <2>2, <2>3, HoldingIsFinite
    <2>5. QED
      BY <2>4 DEF PermitsAreConserved
  <1>6. GuardIsUsed' /\ ColdRunsAlone'
    BY <1>2, <1>4 DEF RunInv, GuardIsUsed, ColdRunsAlone
  <1>7. QED
    BY <1>2, <1>5, <1>6 DEF RunInv, Types

(* The guard is free, so that no call runs on a cold profile but this one. *)
LEMMA TakeWarmupKeeps ==
    ASSUME RunInv, NEW c \in Calls, TakeWarmup(c)
    PROVE  RunInv'
  <1>1. /\ call[c] = "warmup" /\ call' = [call EXCEPT ![c] = "running"]
        /\ warmup = 0 /\ warmup' = IF warm THEN 0 ELSE c
        /\ UNCHANGED <<permits, warm>>
    BY DEF TakeWarmup, GuardHeld
  <1>2. call' \in [Calls -> CallStates]
    BY <1>1 DEF RunInv, Types, CallStates
  <1>3. Holding' = Holding /\ Running' = Running \cup {c}
    BY <1>1 DEF RunInv, Types, Holding, Running
  <1>4. ~warm => Running = {}
    BY <1>1, CallsAreFinite DEF RunInv, ColdRunsAlone, Running
  <1>5. PermitsAreConserved'
    BY <1>1, <1>3 DEF RunInv, PermitsAreConserved
  <1>6. GuardIsUsed' /\ ColdRunsAlone'
    BY <1>1, <1>3, <1>4 DEF GuardIsUsed, ColdRunsAlone
  <1>7. QED
    BY <1>1, <1>2, <1>5, <1>6 DEF RunInv, Types

(* However a call ends, it ends with those that fall with it. *)
LEMMA EndsCalls ==
    ASSUME NEW c \in Calls, TimesOut(c) \/ IsCancelled(c) \/ Answers(c)
    PROVE  \E S \in SUBSET Calls, how \in Ended : End(S, how)
  <1>1. FallsWith(c) \in SUBSET Calls /\ {c} \in SUBSET Calls
    BY DEF FallsWith, Pending, Calls
  <1>2. {"ok", "failed", "timeout", "cancelled"} \subseteq Ended
    BY DEF Ended
  <1>3. CASE TimesOut(c)
    BY <1>1, <1>2, <1>3 DEF TimesOut
  <1>4. CASE IsCancelled(c)
    BY <1>1, <1>2, <1>4 DEF IsCancelled
  <1>5. CASE Succeeds(c)
    BY <1>1, <1>2, <1>5 DEF Succeeds
  <1>6. CASE Fails(c)
    BY <1>1, <1>2, <1>6 DEF Fails
  <1>7. CASE SpawnFails(c)
    BY <1>1, <1>2, <1>7 DEF SpawnFails
  <1>8. QED
    BY <1>3, <1>4, <1>5, <1>6, <1>7 DEF Answers

LEMMA EndsKeep ==
    ASSUME RunInv, NEW c \in Calls, TimesOut(c) \/ IsCancelled(c) \/ Answers(c)
    PROVE  RunInv'
  <1>1. warm' \in BOOLEAN /\ (warm => warm')
    BY DEF RunInv, Types, TimesOut, IsCancelled, Answers, Succeeds, Fails, SpawnFails
  <1>2. QED
    BY <1>1, EndsCalls, EndKeeps

LEMMA OthersKeep ==
    ASSUME RunInv, (\E c \in Calls : Cancel(c)) \/ StartLogin \/ EndLogin \/ SecondPasses
    PROVE  RunInv'
  <1>1. UNCHANGED <<call, permits, warmup>> /\ warm' \in BOOLEAN /\ (warm => warm')
    BY DEF RunInv, Types, Cancel, StartLogin, EndLogin, SecondPasses, locks
  <1>2. Holding' = Holding /\ Running' = Running
    BY <1>1 DEF Holding, Running
  <1>3. QED
    BY <1>1, <1>2, SameHolders DEF RunInv, Types

LEMMA NextRun == RunInv /\ [Next]_vars => RunInv'
  <1> SUFFICES ASSUME RunInv, [Next]_vars PROVE RunInv'
    OBVIOUS
  <1>1. CASE Ask(Listed) \/ \E c \in Single : Ask({c})
    BY <1>1, AskKeeps DEF Calls
  <1>2. CASE \E c \in Single : Cancel(c)
    BY <1>2, OthersKeep DEF Calls
  <1>3. ASSUME NEW c \in Calls, GoesOn(c) \/ Answers(c) PROVE RunInv'
    BY <1>3, TakePermitKeeps, TakeWarmupKeeps, EndsKeep DEF GoesOn
  <1>4. CASE StartLogin \/ EndLogin \/ SecondPasses
    BY <1>4, OthersKeep
  <1>5. CASE UNCHANGED vars
    <2>1. UNCHANGED <<call, permits, warm, warmup>>
      BY <1>5 DEF vars, locks
    <2>2. Holding' = Holding /\ Running' = Running
      BY <2>1 DEF Holding, Running
    <2>3. QED
      BY <2>1, <2>2, SameHolders DEF RunInv, Types
  <1>6. QED
    BY <1>1, <1>2, <1>3, <1>4, <1>5 DEF Next

----------------------------------------------------------------------------
(* Those that have still to end before a call is over, itself among them,   *)
(* and the seconds their processes may still take, each as a pair.          *)
Before(c) == (ahead[c] \cup {c}) \cap Pending
Work(c) == {p \in Calls \X (1..Timeout) : p[1] \in Before(c) /\ p[2] > ran[p[1]]}

LineTypes ==
    /\ ahead \in [Calls -> SUBSET Calls]
    /\ since \in [Calls -> Nat] /\ ran \in [Calls -> Nat]

(* No call is behind one that was not made; none waits before it is made.   *)
OnlyBehindMade ==
    \A c \in Calls :
        /\ call[c] = "none" => since[c] = 0
        /\ \A d \in ahead[c] : call[d] # "none"

(* Who waits is behind all that hold what it waits for. *)
BehindHolders == \A c \in Calls : call[c] = "permit" => Holding \subseteq ahead[c]
BehindGuard == \A c \in Calls : warmup # 0 /\ call[c] = "warmup" => warmup \in ahead[c]

InTime == \A c \in Pending : since[c] + Cardinality(Work(c)) <= Patience(c)

LineInv == LineTypes /\ OnlyBehindMade /\ BehindHolders /\ BehindGuard /\ InTime

----------------------------------------------------------------------------
LEMMA PatienceIsNat ==
    ASSUME LineTypes, NEW c \in Calls
    PROVE  /\ IsFiniteSet(ahead[c]) /\ Cardinality(ahead[c]) \in Nat
           /\ Patience(c) \in Nat
  <1>1. IsFiniteSet(ahead[c])
    BY CallsAreFinite, FS_Subset DEF LineTypes
  <1>2. Cardinality(ahead[c]) \in Nat
    BY <1>1, FS_CardinalityType
  <1>3. QED
    BY <1>1, <1>2, RunnerAssumption DEF Patience

LEMMA WorkIsFinite ==
    ASSUME NEW c
    PROVE  IsFiniteSet(Work(c)) /\ Cardinality(Work(c)) \in Nat
  <1>1. IsFiniteSet(1..Timeout)
    BY RunnerAssumption, FS_Interval
  <1>2. IsFiniteSet(Calls \X (1..Timeout))
    BY <1>1, CallsAreFinite, FS_Product
  <1>3. IsFiniteSet(Work(c))
    BY <1>2, FS_Subset DEF Work
  <1>4. QED
    BY <1>3, FS_CardinalityType

(* Less is left to do as calls end or go on. *)
LEMMA WorkShrinks ==
    ASSUME InTime, LineTypes, UNCHANGED clocks, Pending' \subseteq Pending
    PROVE  InTime'
  <1> SUFFICES ASSUME NEW c \in Pending'
               PROVE  since'[c] + Cardinality(Work(c))' <= Patience(c)'
    BY DEF InTime
  <1>1. c \in Pending /\ c \in Calls
    BY DEF Pending
  <1>2. Work(c)' \subseteq Work(c)
    BY DEF Work, Before, clocks
  <1>3. Cardinality(Work(c)') <= Cardinality(Work(c))
    BY <1>2, WorkIsFinite, FS_Subset
  <1>4. IsFiniteSet(Work(c)') /\ Cardinality(Work(c)') \in Nat
    BY <1>2, WorkIsFinite, FS_Subset, FS_CardinalityType
  <1>5. since'[c] = since[c] /\ Patience(c)' = Patience(c) /\ since[c] \in Nat
    BY <1>1 DEF clocks, Patience, LineTypes
  <1>6. QED
    BY <1>1, <1>3, <1>4, <1>5, WorkIsFinite, PatienceIsNat DEF InTime

(* Calls that end take no place in the line from those that are left. *)
LEMMA EndInLine ==
    ASSUME RunInv, LineInv, NEW S \in SUBSET Calls, NEW how \in Ended, End(S, how),
           UNCHANGED clocks
    PROVE  LineInv'
  <1>1. \A c \in Calls : call'[c] = IF c \in S THEN how ELSE call[c]
    BY DEF End
  <1>2. Pending' \subseteq Pending /\ Holding' \subseteq Holding
    BY <1>1 DEF Pending, Holding, Ended
  <1>3. LineTypes'
    BY DEF LineInv, LineTypes, clocks
  <1>4. OnlyBehindMade'
    BY <1>1 DEF LineInv, LineTypes, OnlyBehindMade, clocks, Ended
  <1>5. BehindHolders'
    BY <1>1, <1>2 DEF LineInv, BehindHolders, clocks, Ended
  <1>6. BehindGuard'
    BY <1>1 DEF LineInv, BehindGuard, clocks, Ended, End, GuardReturned
  <1>7. InTime'
    BY <1>2, WorkShrinks DEF LineInv
  <1>8. QED
    BY <1>3, <1>4, <1>5, <1>6, <1>7 DEF LineInv

(* A call that moves on in the line was the first of those it waited with, *)
(* and its work is the same.                                               *)
LEMMA MovesInLine ==
    ASSUME RunInv, LineInv, NEW c \in Calls, TakePermit(c) \/ TakeWarmup(c)
    PROVE  LineInv'
  <1>1. /\ call[c] \in {"permit", "warmup"} /\ call'[c] \in {"warmup", "running"}
        /\ \A d \in Calls \ {c} : call'[d] = call[d]
    BY DEF TakePermit, TakeWarmup, RunInv, Types
  <1>2. Pending' = Pending
    BY <1>1 DEF Pending
  <1>3. UNCHANGED clocks
    BY DEF TakePermit, TakeWarmup
  <1>4. LineTypes' /\ OnlyBehindMade'
    BY <1>1, <1>3 DEF LineInv, LineTypes, OnlyBehindMade, clocks
  <1>5. InTime'
    BY <1>2, <1>3, WorkShrinks DEF LineInv
  <1>6. BehindHolders'
    <2> SUFFICES ASSUME NEW d \in Calls, call'[d] = "permit", NEW h \in Holding'
                 PROVE  h \in ahead'[d]
      BY DEF BehindHolders
    <2>1. d # c /\ call[d] = "permit" /\ ahead'[d] = ahead[d]
      BY <1>1, <1>3 DEF clocks
    <2>2. CASE h # c
      BY <1>1, <2>1, <2>2 DEF Holding, LineInv, BehindHolders
    <2>3. CASE h = c /\ TakePermit(c)
      BY <2>1, <2>3 DEF TakePermit, FirstInLine
    <2>4. CASE h = c /\ TakeWarmup(c)
      BY <2>1, <2>4 DEF TakeWarmup, Holding, LineInv, BehindHolders
    <2>5. QED
      BY <2>2, <2>3, <2>4
  <1>7. BehindGuard'
    <2> SUFFICES ASSUME NEW d \in Calls, warmup' # 0, call'[d] = "warmup"
                 PROVE  warmup' \in ahead'[d]
      BY DEF BehindGuard
    <2>1. ahead'[d] = ahead[d]
      BY <1>3 DEF clocks
    <2>2. CASE TakePermit(c)
      <3>1. warmup' = warmup /\ warmup \in Holding
        BY <2>2 DEF TakePermit, RunInv, GuardIsUsed, Running, Holding
      <3>2. CASE d = c
        BY <2>1, <2>2, <3>1, <3>2 DEF TakePermit, LineInv, BehindHolders
      <3>3. CASE d # c
        BY <1>1, <2>1, <3>1, <3>3 DEF LineInv, BehindGuard
      <3>4. QED
        BY <3>2, <3>3
    <2>3. CASE TakeWarmup(c)
      BY <1>1, <2>1, <2>3 DEF TakeWarmup, GuardHeld, FirstInLine, RunInv, Types
    <2>4. QED
      BY <2>2, <2>3
  <1>8. QED
    BY <1>4, <1>5, <1>6, <1>7 DEF LineInv

(* A new call is behind all there are, and those are as many as its patience*)
(* allows for.                                                              *)
LEMMA AskInLine ==
    ASSUME RunInv, LineInv, NEW S \in SUBSET Calls, Ask(S)
    PROVE  LineInv'
  <1>1. /\ \A c \in S : call[c] = "none" /\ call'[c] = "permit"
                        /\ ahead'[c] = (Pending \cup S) \ {c}
        /\ \A c \in Calls \ S : call'[c] = call[c] /\ ahead'[c] = ahead[c]
        /\ UNCHANGED <<warmup, since, ran>>
    BY DEF Ask, locks
  <1>2. Pending' = Pending \cup S /\ Holding' = Holding
    BY <1>1 DEF Pending, Holding
  <1>3. LineTypes'
    <2>1. ahead' \in [Calls -> SUBSET Calls]
      BY DEF Ask, LineInv, LineTypes, Pending
    <2>2. QED
      BY <1>1, <2>1 DEF LineInv, LineTypes
  <1>4. OnlyBehindMade'
    <2> SUFFICES ASSUME NEW c \in Calls
                 PROVE  /\ call'[c] = "none" => since'[c] = 0
                        /\ \A d \in ahead'[c] : call'[d] # "none"
      BY DEF OnlyBehindMade
    <2>1. call'[c] = "none" => since'[c] = 0
      BY <1>1 DEF LineInv, OnlyBehindMade
    <2>2. ASSUME NEW d \in ahead'[c] PROVE call'[d] # "none"
      <3>1. CASE c \in S
        BY <1>1, <2>2, <3>1 DEF Pending
      <3>2. CASE c \notin S
        BY <1>1, <2>2, <3>2 DEF LineInv, OnlyBehindMade, LineTypes
      <3>3. QED
        BY <3>1, <3>2
    <2>3. QED
      BY <2>1, <2>2
  <1>5. BehindHolders'
    BY <1>1, <1>2 DEF LineInv, BehindHolders, Holding, Pending
  <1>6. BehindGuard'
    BY <1>1 DEF LineInv, BehindGuard
  <1>7. InTime'
    <2> SUFFICES ASSUME NEW c \in Pending'
                 PROVE  since'[c] + Cardinality(Work(c))' <= Patience(c)'
      BY DEF InTime
    <2>0. c \in Calls
      BY DEF Pending
    <2>1. CASE c \in S
      <3>1. IsFiniteSet(ahead'[c] \cup {c})
            /\ Cardinality(ahead'[c] \cup {c}) = Cardinality(ahead'[c]) + 1
            /\ Cardinality(ahead'[c]) \in Nat
        <4>1. IsFiniteSet(ahead'[c]) /\ c \notin ahead'[c]
          BY <1>1, <1>3, <2>0, <2>1, CallsAreFinite, FS_Subset DEF LineTypes
        <4>2. QED
          BY <4>1, FS_AddElement, FS_CardinalityType
      <3>2. IsFiniteSet(1..Timeout) /\ Cardinality(1..Timeout) = Timeout
        BY RunnerAssumption, FS_Interval
      <3>3. /\ IsFiniteSet((ahead'[c] \cup {c}) \X (1..Timeout))
            /\ Cardinality((ahead'[c] \cup {c}) \X (1..Timeout))
                  = (Cardinality(ahead'[c]) + 1) * Timeout
        BY <3>1, <3>2, FS_Product
      <3>4. Work(c)' \subseteq (ahead'[c] \cup {c}) \X (1..Timeout)
        BY DEF Work, Before
      <3>5. Cardinality(Work(c)') <= (Cardinality(ahead'[c]) + 1) * Timeout
            /\ Cardinality(Work(c)') \in Nat
        BY <3>3, <3>4, FS_Subset, FS_CardinalityType
      <3>6. since'[c] = 0
        BY <1>1, <2>0, <2>1 DEF LineInv, OnlyBehindMade
      <3>7. Patience(c)' = (Cardinality(ahead'[c]) + 1) * Timeout
        BY <3>1, RunnerAssumption DEF Patience
      <3>8. QED
        BY <3>5, <3>6, <3>7
    <2>2. CASE c \notin S
      <3>1. c \in Pending /\ ahead'[c] = ahead[c] /\ since'[c] = since[c] /\ ran' = ran
        BY <1>1, <1>2, <2>0, <2>2
      <3>2. ahead[c] \cap S = {}
        BY <1>1, <2>0 DEF LineInv, OnlyBehindMade
      <3>3. Before(c)' = Before(c)
        BY <1>2, <2>2, <3>1, <3>2 DEF Before
      <3>4. Work(c)' = Work(c)
        BY <3>1, <3>3 DEF Work
      <3>5. QED
        BY <3>1, <3>4 DEF LineInv, InTime, Patience
    <2>3. QED
      BY <2>1, <2>2
  <1>8. QED
    BY <1>3, <1>4, <1>5, <1>6, <1>7 DEF LineInv

(* While a second passes, a process runs that each call in line waits for:  *)
(* its own, that of a holder of a permit, or that of the guard.             *)
LEMMA SomeoneRuns ==
    ASSUME RunInv, LineInv, SecondPasses, NEW c \in Pending
    PROVE  \E d \in Before(c) : d \in Running
  <1> USE DEF LineInv
  <1>0. c \in Calls /\ call[c] \in {"permit", "warmup", "running"}
    BY DEF Pending
  <1>1. Running \subseteq Pending /\ Holding \subseteq Pending
    BY DEF Running, Holding, Pending
  <1>2. CASE call[c] = "running"
    BY <1>0, <1>2 DEF Before, Running
  <1>3. CASE call[c] = "warmup"
    <2>1. warmup # 0 /\ warmup \in Running
      BY <1>0, <1>3 DEF SecondPasses, RunInv, GuardIsUsed
    <2>2. warmup \in ahead[c]
      BY <1>0, <1>3, <2>1 DEF BehindGuard
    <2>3. QED
      BY <1>1, <2>1, <2>2 DEF Before
  <1>4. CASE call[c] = "permit"
    <2>1. permits = 0
      BY <1>0, <1>4 DEF SecondPasses
    <2>2. Holding # {}
      BY <2>1, RunnerAssumption, FS_EmptySet DEF RunInv, PermitsAreConserved
    <2>3. PICK h \in Holding : TRUE
      BY <2>2
    <2>4. \E d \in Holding : d \in Running
      <3>1. CASE call[h] = "running"
        BY <3>1 DEF Running, Holding
      <3>2. CASE call[h] = "warmup"
        <4>1. warmup # 0
          BY <3>2 DEF SecondPasses, Holding
        <4>2. warmup \in Running /\ warmup \in Holding
          BY <4>1 DEF RunInv, GuardIsUsed, Running, Holding
        <4>3. QED
          BY <4>2
      <3>3. QED
        BY <3>1, <3>2 DEF Holding
    <2>5. Holding \subseteq ahead[c]
      BY <1>0, <1>4 DEF BehindHolders
    <2>6. QED
      BY <1>1, <2>4, <2>5 DEF Before
  <1>5. QED
    BY <1>0, <1>2, <1>3, <1>4

(* So that as a second is waited, one of what is left to wait for goes.     *)
LEMMA SecondInLine ==
    ASSUME RunInv, LineInv, SecondPasses
    PROVE  LineInv'
  <1>1. UNCHANGED <<call, warmup, ahead>> /\ Pending' = Pending /\ Holding' = Holding
    BY DEF SecondPasses, locks, Pending, Holding
  <1>2. \A d \in Calls : /\ ran'[d] \in Nat /\ ran'[d] >= ran[d]
                         /\ d \in Running => ran[d] < Timeout /\ ran'[d] = ran[d] + 1
    <2> TAKE d \in Calls
    <2>1. ran[d] \in Nat /\ Timeout \in Nat
      BY RunnerAssumption DEF LineInv, LineTypes
    <2>2. d \in Running => ran[d] < Timeout
      BY <2>1 DEF SecondPasses, Due
    <2>3. ran'[d] = IF d \in Running /\ ran[d] <= Timeout THEN ran[d] + 1 ELSE ran[d]
      BY DEF SecondPasses
    <2>4. QED
      BY <2>1, <2>2, <2>3
  <1>3. \A c \in Calls : /\ since'[c] \in Nat
                         /\ c \in Pending => since'[c] <= since[c] + 1
                         /\ c \notin Pending => since'[c] = since[c]
    <2> TAKE c \in Calls
    <2>1. since'[c] = IF c \in Pending /\ since[c] <= Patience(c) THEN since[c] + 1 ELSE since[c]
      BY DEF SecondPasses
    <2>2. QED
      BY <2>1 DEF LineInv, LineTypes
  <1>4. LineTypes'
    BY <1>1, <1>2, <1>3 DEF LineInv, LineTypes, SecondPasses
  <1>5. OnlyBehindMade' /\ BehindHolders' /\ BehindGuard'
    <2>1. \A c \in Calls : call[c] = "none" => c \notin Pending
      BY DEF Pending
    <2>2. QED
      BY <1>1, <1>3, <2>1 DEF LineInv, OnlyBehindMade, BehindHolders, BehindGuard
  <1>6. InTime'
    <2> SUFFICES ASSUME NEW c \in Pending
                 PROVE  since'[c] + Cardinality(Work(c)') <= Patience(c)
      BY <1>1 DEF InTime, Patience
    <2>0. c \in Calls
      BY DEF Pending
    <2>1. PICK d \in Before(c) : d \in Running
      BY SomeoneRuns
    <2>2. d \in Calls /\ ran[d] \in Nat /\ ran[d] < Timeout /\ ran'[d] = ran[d] + 1
      BY <1>2, <2>1 DEF Running, LineInv, LineTypes
    <2> DEFINE pair == <<d, ran[d] + 1>>
    <2>3. pair \in Work(c)
      BY <2>1, <2>2, RunnerAssumption DEF Work
    <2>4. Work(c)' \subseteq Work(c) \ {pair}
      <3>1. Before(c)' = Before(c)
        BY <1>1 DEF Before
      <3> SUFFICES ASSUME NEW p \in Work(c)' PROVE p \in Work(c) /\ p # pair
        OBVIOUS
      <3>2. p \in Calls \X (1..Timeout) /\ p[1] \in Before(c) /\ p[2] > ran'[p[1]]
        BY <3>1 DEF Work
      <3>3. ran'[p[1]] >= ran[p[1]] /\ ran'[p[1]] \in Nat /\ ran[p[1]] \in Nat /\ p[2] \in Nat
        BY <1>2, <3>2, RunnerAssumption DEF LineInv, LineTypes
      <3>4. p[2] > ran[p[1]]
        BY <3>2, <3>3
      <3>5. p # pair
        BY <2>2, <3>2
      <3>6. QED
        BY <3>2, <3>4, <3>5 DEF Work
    <2>5. Cardinality(Work(c)') <= Cardinality(Work(c)) - 1 /\ Cardinality(Work(c)') \in Nat
      <3> HIDE DEF pair
      <3>1. IsFiniteSet(Work(c) \ {pair}) /\ Cardinality(Work(c) \ {pair}) = Cardinality(Work(c)) - 1
        BY <2>3, WorkIsFinite, FS_RemoveElement
      <3>2. IsFiniteSet(Work(c)') /\ Cardinality(Work(c)') <= Cardinality(Work(c) \ {pair})
        BY <2>4, <3>1, FS_Subset
      <3>3. QED
        BY <3>1, <3>2, FS_CardinalityType
    <2>6. since[c] + Cardinality(Work(c)) <= Patience(c) /\ since[c] \in Nat
      BY <2>0 DEF LineInv, InTime, LineTypes
    <2>7. since'[c] <= since[c] + 1 /\ since'[c] \in Nat
      BY <1>3, <2>0
    <2>8. Patience(c) \in Nat /\ Cardinality(Work(c)) \in Nat
      BY <2>0, PatienceIsNat, WorkIsFinite DEF LineInv
    <2>9. QED
      BY <2>5, <2>6, <2>7, <2>8
  <1>7. QED
    BY <1>4, <1>5, <1>6 DEF LineInv

LEMMA InitLine == Init => LineInv
  <1> SUFFICES ASSUME Init PROVE LineInv
    OBVIOUS
  <1>1. LineTypes /\ OnlyBehindMade /\ BehindHolders /\ BehindGuard
    BY DEF Init, LineTypes, OnlyBehindMade, BehindHolders, BehindGuard
  <1>2. Pending = {}
    BY DEF Init, Pending
  <1>3. QED
    BY <1>1, <1>2 DEF LineInv, InTime

LEMMA NextLine == RunInv /\ LineInv /\ [Next]_vars => LineInv'
  <1> SUFFICES ASSUME RunInv, LineInv, [Next]_vars PROVE LineInv'
    OBVIOUS
  <1>1. CASE Ask(Listed) \/ \E c \in Single : Ask({c})
    BY <1>1, AskInLine DEF Calls
  <1>2. ASSUME UNCHANGED <<call, warmup, clocks>> PROVE LineInv'
    <2>1. Pending' = Pending /\ Holding' = Holding
      BY <1>2 DEF Pending, Holding
    <2>2. InTime'
      BY <1>2, <2>1, WorkShrinks DEF LineInv
    <2>3. QED
      BY <1>2, <2>1, <2>2
         DEF LineInv, LineTypes, OnlyBehindMade, BehindHolders, BehindGuard, clocks
  <1>3. CASE (\E c \in Single : Cancel(c)) \/ StartLogin \/ EndLogin \/ UNCHANGED vars
    BY <1>2, <1>3 DEF Cancel, StartLogin, EndLogin, vars, locks
  <1>4. ASSUME NEW c \in Calls, GoesOn(c) \/ Answers(c) PROVE LineInv'
    <2>1. CASE TakePermit(c) \/ TakeWarmup(c)
      BY <2>1, MovesInLine
    <2>2. CASE TimesOut(c) \/ IsCancelled(c) \/ Answers(c)
      <3>1. \E S \in SUBSET Calls, how \in Ended : End(S, how)
        BY <2>2, EndsCalls
      <3>2. UNCHANGED clocks
        BY <2>2 DEF TimesOut, IsCancelled, Answers, Succeeds, Fails, SpawnFails
      <3>3. QED
        BY <3>1, <3>2, EndInLine
    <2>3. QED
      BY <1>4, <2>1, <2>2 DEF GoesOn
  <1>5. CASE SecondPasses
    BY <1>5, SecondInLine
  <1>6. QED
    BY <1>1, <1>3, <1>4, <1>5 DEF Next

(* The invariant the theorems below are read off. *)
THEOREM RunnerInvariant == Spec => []RunInv
  <1>1. QED
    BY InitRun, NextRun, PTL DEF Spec

(* No permit is lost with a call that was cancelled, timed out, failed or    *)
(* was dropped with its listing, wherever it was.                            *)
THEOREM PermitsConserved == Spec => []PermitsAreConserved
  <1>1. RunInv => PermitsAreConserved
    BY DEF RunInv
  <1>2. QED
    BY <1>1, RunnerInvariant, PTL

(* Until a pass-cli has come back they run one at a time. *)
THEOREM ColdAlone == Spec => []ColdRunsAlone
  <1>1. RunInv => ColdRunsAlone
    BY DEF RunInv
  <1>2. QED
    BY <1>1, RunnerInvariant, PTL

(* The calls' processes are never more than MAX_CONCURRENT: sign-in, which   *)
(* takes no permit, is the only one beside them.                             *)
THEOREM CallsWithinLimit == Spec => [](Cardinality(Running) <= MAX_CONCURRENT)
  <1>1. RunInv => Cardinality(Running) <= MAX_CONCURRENT
    <2> SUFFICES ASSUME RunInv PROVE Cardinality(Running) <= MAX_CONCURRENT
      OBVIOUS
    <2>1. Running \subseteq Holding
      BY DEF Running, Holding
    <2>2. Cardinality(Running) \in Nat /\ Cardinality(Running) <= Cardinality(Holding)
      BY <2>1, HoldingIsFinite, FS_Subset, FS_CardinalityType
    <2>3. permits \in Nat /\ permits + Cardinality(Holding) = MAX_CONCURRENT
      BY DEF RunInv, Types, PermitsAreConserved
    <2>4. QED
      BY <2>2, <2>3, HoldingIsFinite, CallsAreFinite
  <1>2. QED
    BY <1>1, RunnerInvariant, PTL

(* Nothing runs on for a listing that has failed: its calls are dropped      *)
(* with the one that failed, in the line or running.                         *)
THEOREM ListingFallsTogether == Spec => []ListingFallsWhole
  <1>1. Init => ListingFallsWhole
    BY DEF Init, ListingFallsWhole, Pending
  <1>2. RunInv /\ ListingFallsWhole /\ [Next]_vars => ListingFallsWhole'
    <2> SUFFICES ASSUME RunInv, ListingFallsWhole, [Next]_vars PROVE ListingFallsWhole'
      OBVIOUS
    <2>1. CASE Ask(Listed)
      BY <2>1 DEF Ask, ListingFallsWhole, Calls
    <2>2. ASSUME NEW c \in Single, Ask({c}) PROVE ListingFallsWhole'
      <3>1. \A d \in Listed : call'[d] = call[d]
        BY <2>2, RunnerAssumption DEF Ask, Calls
      <3>2. QED
        BY <3>1 DEF ListingFallsWhole, Pending
    <2>3. ASSUME NEW c \in Calls, TakePermit(c) \/ TakeWarmup(c) PROVE ListingFallsWhole'
      <3>1. Pending' = Pending /\ \A d \in Calls : call'[d] \in {"failed", "timeout"} => call'[d] = call[d]
        BY <2>3 DEF TakePermit, TakeWarmup, Pending, RunInv, Types
      <3>2. QED
        BY <3>1 DEF ListingFallsWhole, Calls
    <2>4. ASSUME NEW c \in Calls, NEW S \in {{c}, FallsWith(c)}, NEW how \in Ended, End(S, how),
                 how \in {"failed", "timeout"} => S = FallsWith(c)
          PROVE  ListingFallsWhole'
      <3>1. \A d \in Calls : call'[d] = IF d \in S THEN how ELSE call[d]
        BY <2>4 DEF End
      <3>2. Pending' = Pending \ S
        BY <2>4, <3>1 DEF Pending, Ended
      <3>3. S \cap Listed # {} => c \in Listed \/ how \notin {"failed", "timeout"}
        BY <2>4 DEF FallsWith
      <3>4. QED
        BY <2>4, <3>1, <3>2, <3>3 DEF ListingFallsWhole, FallsWith, Calls
    <2>5. ASSUME NEW c \in Calls, TimesOut(c) \/ IsCancelled(c) \/ Answers(c) PROVE ListingFallsWhole'
      BY <2>4, <2>5 DEF TimesOut, IsCancelled, Answers, Succeeds, Fails, SpawnFails, Ended
    <2>6. CASE UNCHANGED call
      BY <2>6 DEF ListingFallsWhole, Pending
    <2>7. CASE (\E c \in Single : Cancel(c)) \/ StartLogin \/ EndLogin \/ SecondPasses \/ UNCHANGED vars
      BY <2>6, <2>7 DEF Cancel, StartLogin, EndLogin, SecondPasses, vars
    <2>8. QED
      BY <2>1, <2>2, <2>3, <2>5, <2>7 DEF Next, GoesOn
  <1>3. QED
    BY <1>1, <1>2, RunnerInvariant, PTL DEF Spec

(* No call waits longer than those it found, those made with it and itself   *)
(* may run one after the other, warm or cold, whoever is cancelled, times    *)
(* out or fails before it: none is overtaken.                                *)
THEOREM WaitsInLine == Spec => []WaitsForThoseBefore
  <1>1. Spec => []LineInv
    BY InitLine, NextLine, RunnerInvariant, PTL DEF Spec
  <1>2. LineInv => WaitsForThoseBefore
    <2> SUFFICES ASSUME LineInv, NEW c \in Pending PROVE since[c] <= Patience(c)
      BY DEF WaitsForThoseBefore
    <2>1. c \in Calls
      BY DEF Pending
    <2>2. since[c] + Cardinality(Work(c)) <= Patience(c) /\ since[c] \in Nat
      BY <2>1 DEF LineInv, InTime, LineTypes
    <2>3. QED
      BY <2>1, <2>2, WorkIsFinite, PatienceIsNat DEF LineInv
  <1>3. QED
    BY <1>1, <1>2, PTL
=============================================================================
