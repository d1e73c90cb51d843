---------------------------- MODULE LoginProofs ----------------------------
(***************************************************************************)
(* Theorems about Login, for any number of sign-ins, lines and sizes of    *)
(* pipe and channel: the panel that stands in for the list is never a dead *)
(* end, and the lines of a pipe are told in turn, none of them skipped.    *)
(***************************************************************************)
EXTENDS Login, FiniteSetTheorems, SequenceTheorems, TLAPS

Phases == {"spawned", "reading", "waiting", "ended"}
Lines == Seq(Nat)

Live ==
    [phase : Phases, result : {"none", "ok", "failed", "timeout"},
     printed : [Pipes -> Nat], pipe : [Pipes -> Lines], open : [Pipes -> BOOLEAN],
     done : SUBSET Pipes, broken : SUBSET Pipes, sending : Seq([from : Pipes, nr : Nat]),
     channel : Seq([from : Pipes, nr : Nat]), taken : [Pipes -> Nat], told : [Pipes -> Lines]]

(* The sign-ins that have been asked for and not answered. *)
Under(s) == {i \in SignIns : s[i] # None}

LoginInv ==
    /\ signIn \in [SignIns -> {None} \cup Live]
    /\ inFlight = Cardinality(Under(signIn))
    /\ loginUrl \in BOOLEAN /\ (loginUrl => inFlight > 0)
    /\ probes \in Nat
    /\ session.state \in S!States \cup {"SignedIn"}
    /\ session.state = "Checking" => probes > 0
    /\ session.state = "LoggingIn" => inFlight > 0

----------------------------------------------------------------------------
(* A sign-in that is under way is not None. *)
LEMMA LiveIsNotNone == \A s \in Live : s # None /\ s.phase # "none"
  <1>1. \A s \in Live : s.phase # "none"
    BY DEF Live, Phases
  <1>2. None.phase = "none"
    BY DEF None
  <1>3. QED
    BY <1>1, <1>2

LEMMA UnderIsFinite == \A s : IsFiniteSet(Under(s)) /\ Cardinality(Under(s)) \in Nat
  <1> SUFFICES ASSUME NEW s PROVE IsFiniteSet(Under(s)) /\ Cardinality(Under(s)) \in Nat
    OBVIOUS
  <1>1. Under(s) \subseteq SignIns
    BY DEF Under
  <1>2. IsFiniteSet(Under(s))
    BY <1>1, LoginAssumption, FS_Subset
  <1>3. QED
    BY <1>2, FS_CardinalityType

(* A sign-in that moves on is neither a new one nor one less. *)
LEMMA MovesOn ==
    ASSUME LoginInv, NEW i \in SignIns, signIn[i] \in Live, NEW s \in Live,
           signIn' = [signIn EXCEPT ![i] = s]
    PROVE  /\ signIn' \in [SignIns -> {None} \cup Live]
           /\ Under(signIn') = Under(signIn)
  <1>1. signIn' \in [SignIns -> {None} \cup Live]
    BY DEF LoginInv
  <1>2. \A j \in SignIns : (signIn'[j] # None) <=> (signIn[j] # None)
    BY LiveIsNotNone DEF LoginInv
  <1>3. QED
    BY <1>1, <1>2 DEF Under

LEMMA BecomesKeeps ==
    ASSUME LoginInv, NEW i \in SignIns, signIn[i] \in Live, NEW s \in Live, Becomes(i, s)
    PROVE  LoginInv'
  <1>1. signIn' \in [SignIns -> {None} \cup Live] /\ Under(signIn') = Under(signIn)
    BY MovesOn DEF Becomes
  <1>2. UNCHANGED <<session, probes, inFlight, loginUrl>>
    BY DEF Becomes, sessionVars
  <1>3. QED
    BY <1>1, <1>2 DEF LoginInv

(* What a phase other than "none" says. *)
LEMMA PhaseMeansLive ==
    ASSUME LoginInv, NEW i \in SignIns, signIn[i].phase # "none"
    PROVE  signIn[i] \in Live
  <1>1. signIn[i] \in {None} \cup Live
    BY DEF LoginInv
  <1>2. signIn[i] # None
    BY DEF None
  <1>3. QED
    BY <1>1, <1>2

----------------------------------------------------------------------------
(* The steps of the process, the task and the timeout. *)

LEMMA ProcessStep ==
    ASSUME LoginInv, NEW i \in SignIns,
           \E p \in Pipes : Prints(i, p) \/ Closes(i, p)
    PROVE  LoginInv'
  <1> DEFINE s == signIn[i]
  <1>1. s \in Live
    BY PhaseMeansLive DEF Prints, Closes
  <1>2. CASE \E p \in Pipes : Prints(i, p)
    <2>1. PICK p \in Pipes : Prints(i, p)
      BY <1>2
    <2> DEFINE t == [s EXCEPT !.printed[p] = @ + 1, !.pipe[p] = Append(@, s.printed[p] + 1)]
    <2>2. s.printed[p] \in Nat /\ s.pipe[p] \in Seq(Nat)
      BY <1>1 DEF Live, Lines
    <2>3. s.printed[p] + 1 \in Nat /\ Append(s.pipe[p], s.printed[p] + 1) \in Seq(Nat)
      BY <2>2
    <2>4. t \in Live
      BY <1>1, <2>3 DEF Live, Lines
    <2>5. Becomes(i, t)
      BY <2>1 DEF Prints
    <2> HIDE DEF t
    <2>6. QED
      BY <1>1, <2>4, <2>5, BecomesKeeps
  <1>3. CASE \E p \in Pipes : Closes(i, p)
    <2>1. PICK p \in Pipes : Closes(i, p)
      BY <1>3
    <2> DEFINE t == [s EXCEPT !.open[p] = FALSE]
    <2>2. t \in Live
      BY <1>1 DEF Live
    <2>3. Becomes(i, t)
      BY <2>1 DEF Closes
    <2> HIDE DEF t
    <2>4. QED
      BY <1>1, <2>2, <2>3, BecomesKeeps
  <1>4. QED
    BY <1>2, <1>3

(* The end of a pipe, and the end of the whole. *)
LEMMA DoneIsLive == ASSUME NEW s \in Live, NEW p \in Pipes PROVE Done(s, p) \in Live
  <1> DEFINE done == s.done \cup {p}
             phase == IF AllDone(done) THEN "waiting" ELSE s.phase
  <1>1. done \in SUBSET Pipes /\ phase \in Phases
    BY DEF Live, Phases
  <1>2. Done(s, p) = [s EXCEPT !.done = done, !.phase = phase]
    BY DEF Done, Live
  <1> HIDE DEF done, phase
  <1>3. QED
    BY <1>1, <1>2 DEF Live

LEMMA OverIsLive ==
    ASSUME NEW s \in Live, NEW result \in {"ok", "failed", "timeout"} PROVE Over(s, result) \in Live
  <1>1. [p \in Pipes |-> <<>>] \in [Pipes -> Lines] /\ [p \in Pipes |-> FALSE] \in [Pipes -> BOOLEAN]
        /\ <<>> \in Seq([from : Pipes, nr : Nat]) /\ {} \in SUBSET Pipes
    BY DEF Lines
  <1>2. QED
    BY <1>1 DEF Live, Phases, Over

LEMMA AppStep ==
    ASSUME LoginInv, NEW i \in SignIns,
           AppMoves(i) \/ TimesOut(i) \/ \E status \in {"ok", "failed"} : ChildWaited(i, status)
    PROVE  LoginInv'
  <1> DEFINE s == signIn[i]
  <1>1. s \in Live
    BY PhaseMeansLive DEF AppMoves, TaskRuns, Spawns, SpawnFails, SendsLine, ReadsLine, ReadsEnd, ReadFails, ChildWaited,
       LineReady, EndReady, SendReady, TimesOut, OverAll, Reading, Waiting
  <1>2. CASE Spawns(i)
    <2> DEFINE t == [s EXCEPT !.phase = "reading"]
    <2>1. t \in Live /\ Becomes(i, t)
      BY <1>1, <1>2 DEF Live, Phases, Spawns
    <2> HIDE DEF t
    <2>2. QED
      BY <1>1, <2>1, BecomesKeeps
  <1>3. ASSUME NEW result \in {"ok", "failed", "timeout"}, Becomes(i, Over(s, result))
        PROVE  LoginInv'
    BY <1>1, <1>3, OverIsLive, BecomesKeeps
  <1>4. CASE SendsLine(i)
    <2> DEFINE t == [s EXCEPT !.sending = <<>>, !.channel = @ \o s.sending]
    <2> DEFINE lines == s.channel \o s.sending
               none == <<>>
    <2>1. lines \in Seq([from : Pipes, nr : Nat]) /\ none \in Seq([from : Pipes, nr : Nat])
      BY <1>1, ConcatProperties, EmptySeq DEF Live
    <2>2. t \in Live
      <3>1. t = [s EXCEPT !.sending = none, !.channel = lines]
        OBVIOUS
      <3> HIDE DEF t, lines, none
      <3>2. QED
        BY <1>1, <2>1, <3>1 DEF Live
    <2>3. Becomes(i, t)
      BY <1>4 DEF SendsLine
    <2> HIDE DEF t
    <2>4. QED
      BY <1>1, <2>2, <2>3, BecomesKeeps
  <1>5. CASE \E p \in Pipes : ReadsLine(i, p)
    <2>1. PICK p \in Pipes : ReadsLine(i, p)
      BY <1>5
    <2> DEFINE line == [from |-> p, nr |-> Head(s.pipe[p])]
               t == [s EXCEPT !.pipe[p] = Tail(@), !.taken[p] = @ + 1, !.sending = <<line>>]
    <2>2. s.pipe[p] \in Seq(Nat) /\ s.pipe[p] # <<>>
      BY <1>1, <2>1 DEF Live, Lines, ReadsLine, LineReady
    <2>3. Head(s.pipe[p]) \in Nat /\ Tail(s.pipe[p]) \in Seq(Nat) /\ s.taken[p] + 1 \in Nat
      BY <1>1, <2>2, HeadTailProperties DEF Live
    <2>4. <<line>> \in Seq([from : Pipes, nr : Nat])
      BY <2>3
    <2>5. Becomes(i, t)
      BY <2>1 DEF ReadsLine
    <2> HIDE DEF line
    <2>6. t \in Live
      BY <1>1, <2>3, <2>4 DEF Live, Lines
    <2> HIDE DEF t
    <2>7. QED
      BY <1>1, <2>5, <2>6, BecomesKeeps
  <1>6. CASE \E p \in Pipes : ReadsEnd(i, p)
    BY <1>1, <1>6, DoneIsLive, BecomesKeeps DEF ReadsEnd
  <1>7. CASE \E p \in Pipes : ReadFails(i, p)
    <2>1. PICK p \in Pipes : ReadFails(i, p)
      BY <1>7
    <2> DEFINE d == Done(s, p)
               t == [d EXCEPT !.broken = @ \cup {p}, !.pipe[p] = <<>>, !.open[p] = FALSE]
    <2>2. d \in Live /\ <<>> \in Seq(Nat)
      BY <1>1, DoneIsLive
    <2>3. Becomes(i, t)
      BY <2>1 DEF ReadFails
    <2> HIDE DEF d
    <2>4. t \in Live
      BY <2>2 DEF Live, Lines
    <2> HIDE DEF t
    <2>5. QED
      BY <1>1, <2>3, <2>4, BecomesKeeps
  <1>8. CASE SpawnFails(i) \/ TimesOut(i) \/ \E status \in {"ok", "failed"} : ChildWaited(i, status)
    BY <1>3, <1>8 DEF SpawnFails, TimesOut, ChildWaited
  <1>9. QED
    BY <1>2, <1>4, <1>5, <1>6, <1>7, <1>8 DEF AppMoves, TaskRuns

----------------------------------------------------------------------------
(* The steps of the stream, which the reducer sees. *)

LEMMA FreshIsLive == Fresh \in Live
  <1>1. [p \in Pipes |-> 0] \in [Pipes -> Nat] /\ [p \in Pipes |-> <<>>] \in [Pipes -> Lines]
        /\ [p \in Pipes |-> TRUE] \in [Pipes -> BOOLEAN] /\ {} \in SUBSET Pipes
        /\ <<>> \in Seq([from : Pipes, nr : Nat])
    BY DEF Lines
  <1>2. QED
    BY <1>1 DEF Fresh, Live, Phases

LEMMA StartLoginStep == ASSUME LoginInv, NEW i \in SignIns, StartLogin(i) PROVE LoginInv'
  <1>1. signIn' = [signIn EXCEPT ![i] = Fresh] /\ signIn[i] = None /\ loginUrl' = FALSE
    BY DEF StartLogin
  <1>2. session'.state = "LoggingIn" /\ inFlight' = inFlight + 1 /\ probes' = probes
    BY DEF StartLogin, S!StartLogin, S!In
  <1>3. signIn' \in [SignIns -> {None} \cup Live]
    BY <1>1, FreshIsLive DEF LoginInv
  <1>4. Under(signIn') = Under(signIn) \cup {i} /\ i \notin Under(signIn)
    <2>1. signIn'[i] # None
      BY <1>1, FreshIsLive, LiveIsNotNone DEF LoginInv
    <2>2. \A j \in SignIns \ {i} : signIn'[j] = signIn[j]
      BY <1>1 DEF LoginInv
    <2>3. QED
      BY <1>1, <2>1, <2>2 DEF Under
  <1>5. Cardinality(Under(signIn')) = Cardinality(Under(signIn)) + 1
    BY <1>4, UnderIsFinite, FS_AddElement
  <1>6. inFlight \in Nat
    BY UnderIsFinite DEF LoginInv
  <1>7. inFlight' = Cardinality(Under(signIn')) /\ inFlight' > 0
    BY <1>2, <1>5, <1>6 DEF LoginInv
  <1>8. loginUrl' \in BOOLEAN /\ (loginUrl' => inFlight' > 0)
    BY <1>1
  <1>9. probes' \in Nat
    BY <1>2 DEF LoginInv
  <1>10. QED
    BY <1>2, <1>3, <1>7, <1>8, <1>9 DEF LoginInv, S!States

LEMMA LoginLineStep ==
    ASSUME LoginInv, NEW i \in SignIns, \E link \in BOOLEAN : LoginLine(i, link) PROVE LoginInv'
  <1> DEFINE s == signIn[i]
  <1>1. PICK link \in BOOLEAN : LoginLine(i, link)
    OBVIOUS
  <1>2. s \in Live
    BY <1>1, PhaseMeansLive DEF LoginLine
  <1> DEFINE line == Head(s.channel)
             t == [s EXCEPT !.channel = Tail(@), !.told[line.from] = Append(@, line.nr)]
  <1>3. signIn' = [signIn EXCEPT ![i] = t] /\ loginUrl' = (loginUrl \/ link)
        /\ UNCHANGED <<session, probes, inFlight>>
    BY <1>1 DEF LoginLine, sessionVars
  <1>4. s.channel \in Seq([from : Pipes, nr : Nat]) /\ s.channel # <<>>
    BY <1>1, <1>2 DEF Live, LoginLine
  <1>5. line \in [from : Pipes, nr : Nat] /\ Tail(s.channel) \in Seq([from : Pipes, nr : Nat])
    BY <1>4, HeadTailProperties
  <1>6. t \in Live
    <2> HIDE DEF line
    <2>1. line.from \in Pipes /\ line.nr \in Nat
      BY <1>5
    <2>2. s.told[line.from] \in Seq(Nat)
      BY <1>2, <2>1 DEF Live, Lines
    <2>3. Append(s.told[line.from], line.nr) \in Seq(Nat)
      BY <2>1, <2>2
    <2>4. QED
      BY <1>2, <1>5, <2>1, <2>3 DEF Live, Lines
  <1>7. signIn' \in [SignIns -> {None} \cup Live] /\ Under(signIn') = Under(signIn)
    <2> HIDE DEF t
    <2>1. QED
      BY <1>2, <1>3, <1>6, MovesOn
  <1>8. inFlight > 0
    <2>1. i \in Under(signIn)
      BY <1>2, LiveIsNotNone DEF Under
    <2>2. Cardinality(Under(signIn)) # 0
      BY <2>1, UnderIsFinite, FS_EmptySet
    <2>3. QED
      BY <2>2, UnderIsFinite DEF LoginInv
  <1>9. QED
    BY <1>3, <1>7, <1>8 DEF LoginInv

LEMMA LoginFinishedStep == ASSUME LoginInv, NEW i \in SignIns, LoginFinished(i) PROVE LoginInv'
  <1>1. signIn' = [signIn EXCEPT ![i] = None] /\ signIn[i].phase = "ended" /\ loginUrl' = FALSE
    BY DEF LoginFinished, LinkCleared
  <1>2. signIn[i] # None
    BY <1>1 DEF None
  <1>3. signIn' \in [SignIns -> {None} \cup Live]
    BY <1>1 DEF LoginInv
  <1>4. Under(signIn') = Under(signIn) \ {i} /\ i \in Under(signIn)
    BY <1>1, <1>2 DEF Under, LoginInv
  <1>5. Cardinality(Under(signIn')) = Cardinality(Under(signIn)) - 1
    BY <1>4, UnderIsFinite, FS_RemoveElement
  <1> DEFINE ok == signIn[i].result = "ok"
  <1>6. /\ inFlight' = inFlight - 1
        /\ session' = S!In(IF ok THEN "Checking" ELSE "Error")
        /\ probes' = probes + (IF ok THEN 1 ELSE 0)
    BY DEF LoginFinished, S!LoginFinished
  <1>7. /\ session'.state = IF ok THEN "Checking" ELSE "Error"
        /\ probes' \in Nat /\ (ok => probes' > 0)
    BY <1>6 DEF S!In, LoginInv
  <1>8. QED
    BY <1>1, <1>3, <1>5, <1>6, <1>7 DEF LoginInv, S!States

----------------------------------------------------------------------------
(* Session's other steps leave the sign-ins alone. *)

LEMMA ElsewhereKeeps ==
    ASSUME LoginInv, UNCHANGED <<inFlight, loginUrl, signIn>>, probes' \in Nat,
           session'.state \in S!States \cup {"SignedIn"},
           session'.state = "Checking" => probes' > 0,
           session'.state = "LoggingIn" => session.state = "LoggingIn"
    PROVE  LoginInv'
BY DEF LoginInv

(* session_error leaves no session waiting that was not. *)
LEMMA SessionAfterError ==
    ASSUME LoginInv, NEW e \in S!Errors
    PROVE  /\ S!SessionAfter(e).state \in S!States \cup {"SignedIn"}
           /\ S!SessionAfter(e).state \in {"Checking", "LoggingIn"} => S!SessionAfter(e) = session
  <1>1. CASE e \in {"SignedOut", "Locked", "CliMissing"}
    BY <1>1 DEF S!SessionAfter, S!In, S!States
  <1>2. CASE e = "LocalData"
    BY <1>2 DEF S!SessionAfter, S!In, S!States
  <1>3. CASE e \in {"Unreachable", "Other"}
    BY <1>3 DEF S!SessionAfter, LoginInv
  <1>4. QED
    BY <1>1, <1>2, <1>3 DEF S!Errors

LEMMA ProbedStep == ASSUME LoginInv, Probed PROVE LoginInv'
  <1>1. UNCHANGED <<inFlight, loginUrl, signIn>> /\ S!ProbeAnswered
    BY DEF Probed
  <1>2. CASE \E a \in Accounts : S!SessionProbedOk(a)
    <2>1. session'.state = "SignedIn" /\ probes' \in Nat
      BY <1>2 DEF S!SessionProbedOk, S!SignedIn, LoginInv
    <2>2. QED
      BY <1>1, <2>1, ElsewhereKeeps
  <1>3. CASE \E e \in S!Errors : S!SessionProbedErr(e)
    <2>1. PICK e \in S!Errors : S!SessionProbedErr(e)
      BY <1>3
    <2>2. session' = S!Settled(e) /\ probes' \in Nat
      BY <2>1 DEF S!SessionProbedErr, LoginInv
    <2>3. CASE S!SessionAfter(e).state \in {"Checking", "Unknown"}
      <3>1. session'.state \in {"Unknown", "Error"}
        BY <2>2, <2>3 DEF S!Settled, S!In
      <3>2. QED
        BY <1>1, <2>2, <3>1, ElsewhereKeeps DEF S!States
    <2>4. CASE S!SessionAfter(e).state \notin {"Checking", "Unknown"}
      <3>1. session' = S!SessionAfter(e)
        BY <2>2, <2>4 DEF S!Settled
      <3>2. QED
        BY <1>1, <2>2, <2>4, <3>1, SessionAfterError, ElsewhereKeeps
    <2>5. QED
      BY <2>3, <2>4
  <1>4. QED
    BY <1>1, <1>2, <1>3 DEF S!ProbeAnswered

LEMMA ListedStep == ASSUME LoginInv, Listed PROVE LoginInv'
  <1>1. UNCHANGED <<inFlight, loginUrl, signIn>> /\ S!ListingAnswered
    BY DEF Listed
  <1>2. CASE S!DataLoaded
    <2>1. UNCHANGED <<session, probes>>
      BY <1>2 DEF S!DataLoaded
    <2>2. QED
      BY <1>1, <2>1, ElsewhereKeeps DEF LoginInv
  <1>3. CASE \E e \in S!Errors : S!RefreshFailed(e)
    <2>1. PICK e \in S!Errors : S!RefreshFailed(e)
      BY <1>3
    <2>2. session' = S!SessionAfter(e) /\ probes' = probes
      BY <2>1 DEF S!RefreshFailed
    <2>3. session'.state = "Checking" => probes' > 0
      BY <2>2, SessionAfterError DEF LoginInv
    <2>4. QED
      BY <1>1, <2>2, <2>3, SessionAfterError, ElsewhereKeeps DEF LoginInv
  <1>4. QED
    BY <1>1, <1>2, <1>3 DEF S!ListingAnswered

LEMMA ElsewhereStep == ASSUME LoginInv, Elsewhere PROVE LoginInv'
  <1>1. UNCHANGED <<inFlight, loginUrl, signIn>> /\ (S!LoadAnswered \/ S!Startup)
    BY DEF Elsewhere
  <1>2. CASE S!LoadAnswered
    <2>1. UNCHANGED <<session, probes>>
      BY <1>2 DEF S!LoadAnswered, S!ReadCache, S!CacheLoaded
    <2>2. QED
      BY <1>1, <2>1, ElsewhereKeeps DEF LoginInv
  <1>3. CASE S!Startup
    <2>1. /\ session' = IF session.state \in {"LoggingIn", "SignedIn"} THEN session ELSE S!In("Checking")
          /\ probes' = probes + 1
      BY <1>3 DEF S!Startup
    <2>2. session'.state \in {session.state, "Checking"} /\ probes' \in Nat /\ probes' > 0
      BY <2>1 DEF S!In, LoginInv
    <2>3. session'.state \in S!States \cup {"SignedIn"}
      BY <2>2 DEF LoginInv, S!States
    <2>4. QED
      BY <1>1, <2>2, <2>3, ElsewhereKeeps
  <1>4. QED
    BY <1>1, <1>2, <1>3

----------------------------------------------------------------------------
LEMMA InitLogin == Init => LoginInv
  <1> SUFFICES ASSUME Init PROVE LoginInv
    OBVIOUS
  <1>1. signIn \in [SignIns -> {None} \cup Live] /\ Under(signIn) = {}
    BY DEF Init, Under
  <1>2. inFlight = 0 /\ probes = 1 /\ session.state = "Checking" /\ loginUrl = FALSE
    BY DEF Init, S!Init, S!In
  <1>3. Cardinality(Under(signIn)) = 0
    BY <1>1, FS_EmptySet
  <1>4. loginUrl \in BOOLEAN /\ (loginUrl => inFlight > 0)
    BY <1>2
  <1>5. probes > 0 /\ probes \in Nat
    BY <1>2
  <1>6. QED
    BY <1>1, <1>2, <1>3, <1>4, <1>5 DEF LoginInv, S!States

LEMMA NextLogin == LoginInv /\ [Next]_vars => LoginInv'
  <1> SUFFICES ASSUME LoginInv, [Next]_vars PROVE LoginInv'
    OBVIOUS
  <1>1. ASSUME NEW i \in SignIns, StartLogin(i) PROVE LoginInv'
    BY <1>1, StartLoginStep
  <1>2. ASSUME NEW i \in SignIns, AppMoves(i) \/ TimesOut(i) \/ \E status \in {"ok", "failed"} : ChildWaited(i, status)
        PROVE  LoginInv'
    BY <1>2, AppStep
  <1>3. ASSUME NEW i \in SignIns, StreamMoves(i) PROVE LoginInv'
    BY <1>3, LoginFinishedStep, LoginLineStep DEF StreamMoves
  <1>4. ASSUME NEW i \in SignIns, \E p \in Pipes : Prints(i, p) \/ Closes(i, p) PROVE LoginInv'
    BY <1>4, ProcessStep
  <1>5. CASE Probed \/ Listed \/ Elsewhere
    BY <1>5, ProbedStep, ListedStep, ElsewhereStep
  <1>6. CASE UNCHANGED vars
    BY <1>6 DEF vars, sessionVars, LoginInv
  <1>7. QED
    BY <1>1, <1>2, <1>3, <1>4, <1>5, <1>6 DEF Next

(* What is told of a sign-in agrees with it, whatever its task is at. *)
THEOREM LoginInvariant == Spec => []LoginInv
  <1>1. Init => LoginInv
    BY InitLogin
  <1>2. LoginInv /\ [Next]_vars => LoginInv'
    BY NextLogin
  <1>3. QED
    BY <1>1, <1>2, PTL DEF Spec

LEMMA InvariantMakesPanelAlive == LoginInv => PanelIsAlive
  <1> SUFFICES ASSUME LoginInv PROVE PanelIsAlive
    OBVIOUS
  <1>1. probes \in Nat /\ inFlight \in Nat
    BY UnderIsFinite DEF LoginInv
  <1>2. ASSUME Panel, Offers = {} PROVE probes + inFlight > 0
    <2>1. ~S!CanStartLogin
      BY <1>2 DEF Offers
    <2>2. session.state \notin {"Locked", "CliMissing", "Error"}
      BY <1>2 DEF Offers
    <2>3. session.state \in {"Checking", "LoggingIn"}
      BY <1>2, <2>1, <2>2 DEF Panel, S!CanStartLogin
    <2>4. QED
      BY <1>1, <2>3 DEF LoginInv
  <1>3. QED
    BY <1>2 DEF PanelIsAlive, LoginInv

(* PanelIsAlive: where the panel has no button a probe or a sign-in is      *)
(* under way that will replace it, and a link on show is that of a sign-in  *)
(* that is (view/status.rs, Model::update).                                 *)
THEOREM PanelAlive == Spec => []PanelIsAlive
  <1>1. LoginInv => PanelIsAlive
    BY InvariantMakesPanelAlive
  <1>2. QED
    BY <1>1, LoginInvariant, PTL

----------------------------------------------------------------------------
(* The lines are told in turn.  Those of a pipe that the channel holds are  *)
(* in T, those after lo and up to hi, in their order.                       *)
Line == [from : Pipes, nr : Nat]

InOrder(T, p, lo, hi) ==
    /\ \A k \in 1..Len(T) : T[k].from = p => lo < T[k].nr /\ T[k].nr <= hi
    /\ \A n \in Nat : lo < n /\ n <= hi => \E k \in 1..Len(T) : T[k].from = p /\ T[k].nr = n
    /\ \A j, k \in 1..Len(T) : j < k /\ T[j].from = p /\ T[k].from = p => T[j].nr < T[k].nr

(* Told is 1, 2, 3, ...; a pipe holds consecutive numbers up to nr. *)
Counted(told) == \A n \in 1..Len(told) : told[n] = n
Numbered(pipe, nr) == \A n \in 1..Len(pipe) : pipe[n] = (nr - Len(pipe)) + n

(* What is told and what is in the channel are the first lines of the pipe, *)
(* and all that were taken but the one that waits to be sent.  Only the     *)
(* timeout drops one.                                                       *)
Coming(s, p) == IF s.sending = <<>> THEN 0 ELSE IF s.sending[1].from = p THEN 1 ELSE 0
Queued(s) ==
    \A p \in Pipes :
        /\ Counted(s.told[p])
        /\ \E hi \in Nat :
              /\ Len(s.told[p]) <= hi /\ InOrder(s.channel, p, Len(s.told[p]), hi)
              /\ s.result # "timeout" => s.taken[p] = hi + Coming(s, p)

(* The line that waits is the last one taken of its pipe. *)
Carried(s) ==
    \/ s.sending = <<>>
    \/ s.phase = "reading" /\ \E line \in Line : s.sending = <<line>> /\ line.nr = s.taken[line.from]

(* A pipe that can be read holds all that was printed and is not taken. *)
Piped(s) ==
    s.result # "timeout" =>
        \A p \in Pipes \ s.broken :
            /\ Len(s.pipe[p]) <= s.printed[p] /\ s.taken[p] = s.printed[p] - Len(s.pipe[p])
            /\ Numbered(s.pipe[p], s.printed[p])

(* What each phase has behind it. *)
Settled(s) ==
    /\ \A p \in s.done : s.pipe[p] = <<>> /\ ~s.open[p]
    /\ s.phase # "ended" => s.broken \subseteq s.done /\ s.result # "timeout"
    /\ s.phase = "waiting" => s.done = Pipes
    /\ s.phase \in {"spawned", "ended"} => \A p \in Pipes : s.pipe[p] = <<>>

Good(s) == Queued(s) /\ Carried(s) /\ Piped(s) /\ Settled(s)

LinesInv ==
    /\ LoginInv
    /\ \A i \in SignIns : signIn[i] # None => Good(signIn[i])

(* A line is put at the end of the channel. *)
LEMMA AppendInOrder ==
    ASSUME NEW T \in Seq(Line), NEW lo \in Nat, NEW hi \in Nat, NEW p \in Pipes, NEW line \in Line,
           InOrder(T, p, lo, hi), lo <= hi
    PROVE  IF line.from = p
           THEN line.nr = hi + 1 => InOrder(Append(T, line), p, lo, hi + 1)
           ELSE InOrder(Append(T, line), p, lo, hi)
  <1> DEFINE A == Append(T, line)
             n == Len(T)
  <1>1. n \in Nat /\ Len(A) = n + 1 /\ A[n + 1] = line /\ \A k \in 1..n : A[k] = T[k]
    OBVIOUS
  <1>2. \A k \in 1..n : T[k].from \in Pipes /\ T[k].nr \in Nat
    <2>1. \A k \in 1..n : T[k] \in Line
      BY ElementOfSeq
    <2>2. QED
      BY <2>1 DEF Line
  <1>3. line.nr \in Nat
    BY DEF Line
  <1> HIDE DEF A, n
  <1>4. \A k \in 1..Len(A) : (k \in 1..n /\ A[k] = T[k]) \/ (k = n + 1 /\ A[k] = line)
    BY <1>1
  <1>5. /\ \A k \in 1..n : T[k].from = p => lo < T[k].nr /\ T[k].nr <= hi
        /\ \A m \in Nat : lo < m /\ m <= hi => \E k \in 1..n : T[k].from = p /\ T[k].nr = m
        /\ \A j, k \in 1..n : j < k /\ T[j].from = p /\ T[k].from = p => T[j].nr < T[k].nr
    BY DEF InOrder, n
  <1>6. ASSUME line.from = p, line.nr = hi + 1 PROVE InOrder(A, p, lo, hi + 1)
    <2>1. \A k \in 1..Len(A) : A[k].from = p => lo < A[k].nr /\ A[k].nr <= hi + 1
      BY <1>2, <1>4, <1>5, <1>6
    <2>2. \A m \in Nat : lo < m /\ m <= hi + 1 => \E k \in 1..Len(A) : A[k].from = p /\ A[k].nr = m
      <3> SUFFICES ASSUME NEW m \in Nat, lo < m, m <= hi + 1
                   PROVE  \E k \in 1..Len(A) : A[k].from = p /\ A[k].nr = m
        OBVIOUS
      <3>1. CASE m = hi + 1
        BY <1>1, <1>6, <3>1
      <3>2. CASE m <= hi
        <4>1. PICK k \in 1..n : T[k].from = p /\ T[k].nr = m
          BY <1>5, <3>2
        <4>2. k \in 1..Len(A) /\ A[k] = T[k]
          BY <1>1
        <4>3. QED
          BY <4>1, <4>2
      <3>3. QED
        BY <3>1, <3>2
    <2>3. \A j, k \in 1..Len(A) : j < k /\ A[j].from = p /\ A[k].from = p => A[j].nr < A[k].nr
      <3> SUFFICES ASSUME NEW j \in 1..Len(A), NEW k \in 1..Len(A), j < k, A[j].from = p, A[k].from = p
                   PROVE  A[j].nr < A[k].nr
        OBVIOUS
      <3>1. j \in 1..n /\ A[j] = T[j]
        BY <1>1
      <3>2. CASE k \in 1..n /\ A[k] = T[k]
        BY <1>5, <3>1, <3>2
      <3>3. CASE k = n + 1 /\ A[k] = line
        BY <1>2, <1>5, <1>6, <3>1, <3>3
      <3>4. QED
        BY <1>4, <3>2, <3>3
    <2>4. QED
      BY <2>1, <2>2, <2>3 DEF InOrder
  <1>7. ASSUME line.from # p PROVE InOrder(A, p, lo, hi)
    <2>1. \A k \in 1..Len(A) : A[k].from = p => k \in 1..n /\ A[k] = T[k]
      BY <1>4, <1>7
    <2>2. \A k \in 1..n : k \in 1..Len(A) /\ A[k] = T[k]
      BY <1>1
    <2>3. \A m \in Nat : lo < m /\ m <= hi => \E k \in 1..Len(A) : A[k].from = p /\ A[k].nr = m
      <3> SUFFICES ASSUME NEW m \in Nat, lo < m, m <= hi
                   PROVE  \E k \in 1..Len(A) : A[k].from = p /\ A[k].nr = m
        OBVIOUS
      <3>1. PICK k \in 1..n : T[k].from = p /\ T[k].nr = m
        BY <1>5
      <3>2. QED
        BY <2>2, <3>1
    <2>4. QED
      BY <1>5, <2>1, <2>3 DEF InOrder
  <1>8. QED
    BY <1>6, <1>7 DEF A

(* The first line in transit is the next of its pipe. *)
LEMMA TailInOrder ==
    ASSUME NEW T \in Seq(Line), T # <<>>, NEW lo \in Nat, NEW hi \in Nat, NEW p \in Pipes,
           InOrder(T, p, lo, hi)
    PROVE  IF Head(T).from = p
           THEN Head(T).nr = lo + 1 /\ lo + 1 <= hi /\ InOrder(Tail(T), p, lo + 1, hi)
           ELSE InOrder(Tail(T), p, lo, hi)
  <1> DEFINE B == Tail(T)
             h == Head(T)
             n == Len(T)
  <1>1. n \in Nat \ {0} /\ h = T[1] /\ h \in Line /\ Len(B) = n - 1 /\ \A k \in 1..Len(B) : B[k] = T[k + 1]
    BY HeadTailProperties, EmptySeq
  <1>2. \A k \in 1..n : T[k].from \in Pipes /\ T[k].nr \in Nat
    <2>1. \A k \in 1..n : T[k] \in Line
      BY ElementOfSeq
    <2>2. QED
      BY <2>1 DEF Line
  <1>3. /\ \A k \in 1..n : T[k].from = p => lo < T[k].nr /\ T[k].nr <= hi
        /\ \A m \in Nat : lo < m /\ m <= hi => \E k \in 1..n : T[k].from = p /\ T[k].nr = m
        /\ \A j, k \in 1..n : j < k /\ T[j].from = p /\ T[k].from = p => T[j].nr < T[k].nr
    BY DEF InOrder
  <1> HIDE DEF B, h, n
  <1>4. \A k \in 1..Len(B) : k + 1 \in 1..n /\ B[k] = T[k + 1]
    BY <1>1
  <1>5. \A k \in 1..n : k = 1 \/ (k - 1 \in 1..Len(B) /\ B[k - 1] = T[k])
    BY <1>1
  <1>6. \A j, k \in 1..Len(B) : j < k /\ B[j].from = p /\ B[k].from = p => B[j].nr < B[k].nr
    <2> SUFFICES ASSUME NEW j \in 1..Len(B), NEW k \in 1..Len(B), j < k, B[j].from = p, B[k].from = p
                 PROVE  B[j].nr < B[k].nr
      OBVIOUS
    <2>1. j + 1 \in 1..n /\ k + 1 \in 1..n /\ j + 1 < k + 1 /\ B[j] = T[j + 1] /\ B[k] = T[k + 1]
      BY <1>1, <1>4
    <2>2. QED
      BY <1>3, <2>1
  <1>7. ASSUME h.from # p PROVE InOrder(B, p, lo, hi)
    <2>1. \A k \in 1..Len(B) : B[k].from = p => lo < B[k].nr /\ B[k].nr <= hi
      BY <1>3, <1>4
    <2>2. \A m \in Nat : lo < m /\ m <= hi => \E k \in 1..Len(B) : B[k].from = p /\ B[k].nr = m
      <3> SUFFICES ASSUME NEW m \in Nat, lo < m, m <= hi
                   PROVE  \E k \in 1..Len(B) : B[k].from = p /\ B[k].nr = m
        OBVIOUS
      <3>1. PICK k \in 1..n : T[k].from = p /\ T[k].nr = m
        BY <1>3
      <3>2. k # 1
        BY <1>1, <1>7, <3>1
      <3>3. QED
        BY <1>5, <3>1, <3>2
    <2>3. QED
      BY <1>6, <2>1, <2>2 DEF InOrder
  <1>8. ASSUME h.from = p PROVE h.nr = lo + 1 /\ lo + 1 <= hi /\ InOrder(B, p, lo + 1, hi)
    <2>1. 1 \in 1..n /\ T[1].from = p /\ lo < T[1].nr /\ T[1].nr <= hi /\ T[1].nr \in Nat
      BY <1>1, <1>2, <1>3, <1>8
    <2>2. \A k \in 1..Len(B) : B[k].from = p => T[1].nr < B[k].nr
      <3> SUFFICES ASSUME NEW k \in 1..Len(B), B[k].from = p PROVE T[1].nr < B[k].nr
        OBVIOUS
      <3>1. k + 1 \in 1..n /\ B[k] = T[k + 1] /\ 1 < k + 1
        BY <1>1, <1>4
      <3>2. QED
        BY <1>3, <2>1, <3>1
    <2>3. T[1].nr = lo + 1
      <3>1. PICK k \in 1..n : T[k].from = p /\ T[k].nr = lo + 1
        BY <1>3, <2>1
      <3>2. CASE k = 1
        BY <3>1, <3>2
      <3>3. CASE k # 1
        <4>1. T[1].nr < lo + 1
          BY <1>3, <2>1, <3>1, <3>3
        <4>2. QED
          BY <2>1, <4>1
      <3>4. QED
        BY <3>2, <3>3
    <2>4. \A k \in 1..Len(B) : B[k].from = p => lo + 1 < B[k].nr /\ B[k].nr <= hi
      BY <1>3, <1>4, <2>2, <2>3
    <2>5. \A m \in Nat : lo + 1 < m /\ m <= hi => \E k \in 1..Len(B) : B[k].from = p /\ B[k].nr = m
      <3> SUFFICES ASSUME NEW m \in Nat, lo + 1 < m, m <= hi
                   PROVE  \E k \in 1..Len(B) : B[k].from = p /\ B[k].nr = m
        OBVIOUS
      <3>1. PICK k \in 1..n : T[k].from = p /\ T[k].nr = m
        BY <1>3
      <3>2. k # 1
        BY <2>3, <3>1
      <3>3. QED
        BY <1>5, <3>1, <3>2
    <2>6. QED
      BY <1>1, <1>6, <2>1, <2>3, <2>4, <2>5 DEF InOrder
  <1>9. QED
    BY <1>7, <1>8 DEF B, h

LEMMA Shift == \A a, b \in Nat : /\ (a + 1) - (b + 1) = a - b
                                 /\ b > 0 => a - (b - 1) = (a - b) + 1
OBVIOUS

(* A line printed, and a line read. *)
LEMMA AppendNumbered ==
    ASSUME NEW old \in Seq(Nat), NEW nr \in Nat, Numbered(old, nr), NEW new, new = Append(old, nr + 1)
    PROVE  /\ Len(new) = Len(old) + 1 /\ (nr + 1) - Len(new) = nr - Len(old)
           /\ Numbered(new, nr + 1)
  <1> DEFINE L == Len(old)
  <1>1. /\ L \in Nat /\ Len(new) = L + 1 /\ new[L + 1] = nr + 1
        /\ \A n \in 1..L : new[n] = old[n]
    BY nr + 1 \in Nat
  <1>2. \A n \in 1..L : old[n] = (nr - L) + n
    BY DEF Numbered
  <1> HIDE DEF L
  <1>3. (nr + 1) - Len(new) = nr - L
    <2>1. L \in Nat /\ Len(new) = L + 1
      BY <1>1
    <2>2. (nr + 1) - (L + 1) = nr - L
      BY <2>1, Shift
    <2>3. QED
      BY <2>1, <2>2
  <1>4. ASSUME NEW n \in 1..Len(new) PROVE new[n] = (nr - L) + n
    <2>1. CASE n = L + 1
      BY <1>1, <2>1
    <2>2. CASE n \in 1..L
      BY <1>1, <1>2, <2>2
    <2>3. QED
      BY <1>1, <2>1, <2>2
  <1>5. QED
    BY <1>1, <1>3, <1>4 DEF L, Numbered

LEMMA TailNumbered ==
    ASSUME NEW old \in Seq(Nat), old # <<>>, NEW nr \in Nat, Numbered(old, nr), NEW new, new = Tail(old)
    PROVE  /\ Head(old) = (nr - Len(old)) + 1 /\ Head(old) \in Nat /\ Len(new) = Len(old) - 1
           /\ nr - Len(new) = (nr - Len(old)) + 1
           /\ Numbered(new, nr)
  <1> DEFINE L == Len(old)
  <1>1. /\ L \in Nat \ {0} /\ Len(new) = L - 1 /\ Head(old) = old[1] /\ Head(old) \in Nat
        /\ \A n \in 1..Len(new) : new[n] = old[n + 1]
    BY HeadTailProperties, EmptySeq
  <1>2. \A n \in 1..L : old[n] = (nr - L) + n
    BY DEF Numbered
  <1> HIDE DEF L
  <1>3. Head(old) = (nr - L) + 1 /\ nr - Len(new) = (nr - L) + 1
    BY <1>1, <1>2
  <1>4. ASSUME NEW n \in 1..Len(new) PROVE new[n] = (nr - Len(new)) + n
    <2>1. n + 1 \in 1..L
      BY <1>1
    <2>2. new[n] = (nr - L) + (n + 1)
      BY <1>1, <1>2, <2>1
    <2>3. QED
      BY <1>1, <2>2
  <1>5. QED
    BY <1>1, <1>3, <1>4 DEF L, Numbered

(* A line told. *)
LEMMA AppendCounted ==
    ASSUME NEW old \in Seq(Nat), Counted(old), NEW new, new = Append(old, Len(old) + 1)
    PROVE  Len(new) = Len(old) + 1 /\ Counted(new)
  <1> DEFINE L == Len(old)
  <1>1. /\ L \in Nat /\ Len(new) = L + 1 /\ new[L + 1] = L + 1
        /\ \A n \in 1..L : new[n] = old[n]
    BY Len(old) + 1 \in Nat
  <1>2. \A n \in 1..L : old[n] = n
    BY DEF Counted
  <1> HIDE DEF L
  <1>3. QED
    BY <1>1, <1>2 DEF L, Counted

(* The first line of the channel is the next one of its pipe. *)
LEMMA TellsNext ==
    ASSUME NEW T \in Seq(Line), T # <<>>, NEW p \in Pipes, NEW told \in Seq(Nat), Counted(told),
           NEW hi \in Nat, Len(told) <= hi, InOrder(T, p, Len(told), hi),
           NEW new, new = IF p = Head(T).from THEN Append(told, Head(T).nr) ELSE told
    PROVE  Counted(new) /\ Len(new) <= hi /\ InOrder(Tail(T), p, Len(new), hi)
  <1> DEFINE lo == Len(told)
  <1>1. lo \in Nat /\ lo <= hi /\ InOrder(T, p, lo, hi)
    OBVIOUS
  <1>2. CASE Head(T).from = p
    <2>1. Head(T).nr = lo + 1 /\ lo + 1 <= hi /\ InOrder(Tail(T), p, lo + 1, hi)
      <3> HIDE DEF lo
      <3>1. QED
        BY <1>1, <1>2, TailInOrder
    <2>2. Len(new) = lo + 1 /\ Counted(new)
      BY <1>2, <2>1, AppendCounted
    <2>3. QED
      BY <2>1, <2>2
  <1>3. CASE Head(T).from # p
    <2>1. InOrder(Tail(T), p, lo, hi)
      <3> HIDE DEF lo
      <3>1. QED
        BY <1>1, <1>3, TailInOrder
    <2>2. QED
      BY <1>3, <2>1
  <1>4. QED
    BY <1>2, <1>3

LEMMA LiveTypes ==
    ASSUME NEW s \in Live
    PROVE  /\ s.channel \in Seq(Line) /\ s.sending \in Seq(Line)
           /\ s.done \subseteq Pipes /\ s.broken \subseteq Pipes
           /\ s.told \in [Pipes -> Seq(Nat)] /\ s.pipe \in [Pipes -> Seq(Nat)]
           /\ s.printed \in [Pipes -> Nat] /\ s.taken \in [Pipes -> Nat] /\ s.open \in [Pipes -> BOOLEAN]
           /\ \A p \in Pipes :
                 /\ s.printed[p] \in Nat /\ s.taken[p] \in Nat
                 /\ s.pipe[p] \in Seq(Nat) /\ s.told[p] \in Seq(Nat)
                 /\ Len(s.pipe[p]) \in Nat /\ Len(s.told[p]) \in Nat
  <1>1. s.channel \in Seq(Line) /\ s.sending \in Seq(Line) /\ s.done \subseteq Pipes /\ s.broken \subseteq Pipes
    BY DEF Live, Line
  <1>2. /\ s.told \in [Pipes -> Seq(Nat)] /\ s.pipe \in [Pipes -> Seq(Nat)]
        /\ s.printed \in [Pipes -> Nat] /\ s.taken \in [Pipes -> Nat] /\ s.open \in [Pipes -> BOOLEAN]
    BY DEF Live, Lines
  <1>3. \A p \in Pipes : /\ s.printed[p] \in Nat /\ s.taken[p] \in Nat
                         /\ s.pipe[p] \in Seq(Nat) /\ s.told[p] \in Seq(Nat)
    BY <1>2
  <1>4. QED
    BY <1>1, <1>2, <1>3, LenProperties

LEMMA GoodBecomes ==
    ASSUME LinesInv, LoginInv', NEW i \in SignIns, NEW t, signIn' = [signIn EXCEPT ![i] = t],
           t # None => Good(t)
    PROVE  LinesInv'
  <1>1. \A j \in SignIns : signIn'[j] = IF j = i THEN t ELSE signIn[j]
    BY DEF LinesInv, LoginInv
  <1>2. QED
    BY <1>1 DEF LinesInv

LEMMA GoodNow ==
    ASSUME LinesInv, NEW i \in SignIns, signIn[i].phase # "none"
    PROVE  signIn[i] \in Live /\ Good(signIn[i])
  <1>1. signIn[i] \in Live
    BY PhaseMeansLive DEF LinesInv
  <1>2. QED
    BY <1>1, LiveIsNotNone DEF LinesInv

(* What has been told and what waits in the channel do not depend on the    *)
(* pipes.                                                                   *)
LEMMA SameQueue ==
    ASSUME NEW s, NEW t, Queued(s), t.told = s.told, t.channel = s.channel, t.sending = s.sending,
           t.taken = s.taken, s.result # "timeout"
    PROVE  Queued(t)
  <1>1. \A p \in Pipes : Coming(t, p) = Coming(s, p)
    BY DEF Coming
  <1>2. QED
    BY <1>1 DEF Queued

----------------------------------------------------------------------------
(* The process. *)
LEMMA ProcessLines ==
    ASSUME LinesInv, LoginInv', NEW i \in SignIns, NEW p \in Pipes, Prints(i, p) \/ Closes(i, p)
    PROVE  LinesInv'
  <1> DEFINE s == signIn[i]
  <1>1. s \in Live /\ Good(s) /\ s.phase \in {"reading", "waiting"} /\ s.open[p]
    BY GoodNow DEF Prints, Closes
  <1>2. s.result # "timeout" /\ p \notin s.done /\ p \notin s.broken
    BY <1>1 DEF Good, Settled
  <1>3. CASE Prints(i, p)
    <2> DEFINE old == s.pipe[p]
               nr == s.printed[p]
               t == [s EXCEPT !.printed[p] = @ + 1, !.pipe[p] = Append(@, s.printed[p] + 1)]
    <2>1. /\ t.told = s.told /\ t.channel = s.channel /\ t.sending = s.sending /\ t.taken = s.taken
          /\ t.printed = [s.printed EXCEPT ![p] = @ + 1]
          /\ t.pipe = [s.pipe EXCEPT ![p] = Append(@, s.printed[p] + 1)]
          /\ t.phase = s.phase /\ t.done = s.done /\ t.open = s.open
          /\ t.broken = s.broken /\ t.result = s.result
      BY <1>1 DEF Live
    <2>2. signIn' = [signIn EXCEPT ![i] = t]
      BY <1>3 DEF Prints, Becomes
    <2> HIDE DEF t
    <2>3. /\ t.printed[p] = nr + 1 /\ t.pipe[p] = Append(old, nr + 1)
          /\ \A q \in Pipes \ {p} : t.printed[q] = s.printed[q] /\ t.pipe[q] = s.pipe[q]
      <3>1. s.printed \in [Pipes -> Nat] /\ s.pipe \in [Pipes -> Seq(Nat)]
        BY <1>1, LiveTypes
      <3>2. QED
        BY <2>1, <3>1
    <2>4. /\ Len(old) <= nr /\ s.taken[p] = nr - Len(old) /\ Numbered(old, nr)
          /\ old \in Seq(Nat) /\ nr \in Nat /\ Len(old) \in Nat
      BY <1>1, <1>2, LiveTypes DEF Good, Piped
    <2>5. /\ Len(t.pipe[p]) <= t.printed[p] /\ t.taken[p] = t.printed[p] - Len(t.pipe[p])
          /\ Numbered(t.pipe[p], t.printed[p])
      <3> DEFINE new == t.pipe[p]
      <3>1. new = Append(old, nr + 1)
        BY <2>3
      <3> HIDE DEF old, nr, new
      <3>2. Len(new) = Len(old) + 1 /\ (nr + 1) - Len(new) = nr - Len(old) /\ Numbered(new, nr + 1)
        BY <2>4, <3>1, AppendNumbered
      <3>3. Len(new) <= nr + 1
        BY <2>4, <3>2
      <3>4. QED
        BY <2>1, <2>3, <2>4, <3>2, <3>3 DEF new
    <2>6. Piped(t)
      BY <1>1, <2>1, <2>3, <2>5 DEF Good, Piped
    <2>7. Queued(t) /\ Carried(t)
      BY <1>1, <1>2, <2>1, SameQueue DEF Good, Carried
    <2>8. Settled(t)
      BY <1>1, <1>2, <2>1, <2>3, LiveTypes DEF Good, Settled
    <2>9. QED
      BY <2>2, <2>6, <2>7, <2>8, GoodBecomes DEF Good
  <1>4. CASE Closes(i, p)
    <2> DEFINE t == [s EXCEPT !.open[p] = FALSE]
    <2>1. /\ t.told = s.told /\ t.channel = s.channel /\ t.sending = s.sending /\ t.taken = s.taken
          /\ t.printed = s.printed /\ t.pipe = s.pipe /\ t.phase = s.phase /\ t.done = s.done
          /\ t.open = [s.open EXCEPT ![p] = FALSE] /\ t.broken = s.broken /\ t.result = s.result
      BY <1>1 DEF Live
    <2>2. signIn' = [signIn EXCEPT ![i] = t]
      BY <1>4 DEF Closes, Becomes
    <2> HIDE DEF t
    <2>3. \A q \in s.done : ~t.open[q]
      BY <1>1, <2>1, LiveTypes DEF Good, Settled
    <2>4. Queued(t) /\ Carried(t) /\ Piped(t)
      BY <1>1, <1>2, <2>1, SameQueue DEF Good, Carried, Piped
    <2>5. Settled(t)
      BY <1>1, <1>2, <2>1, <2>3 DEF Good, Settled
    <2>6. QED
      BY <2>2, <2>4, <2>5, GoodBecomes DEF Good
  <1>5. QED
    BY <1>3, <1>4

----------------------------------------------------------------------------
(* The task. *)
LEMMA SpawnsLines == ASSUME LinesInv, LoginInv', NEW i \in SignIns, Spawns(i) PROVE LinesInv'
  <1> DEFINE s == signIn[i]
             t == [s EXCEPT !.phase = "reading"]
  <1>1. s \in Live /\ Good(s) /\ s.phase = "spawned"
    BY GoodNow DEF Spawns
  <1>2. /\ t.told = s.told /\ t.channel = s.channel /\ t.sending = s.sending /\ t.taken = s.taken
        /\ t.printed = s.printed /\ t.pipe = s.pipe /\ t.phase = "reading" /\ t.done = s.done
        /\ t.open = s.open /\ t.broken = s.broken /\ t.result = s.result
    BY <1>1 DEF Live
  <1>3. signIn' = [signIn EXCEPT ![i] = t]
    BY DEF Spawns, Becomes
  <1> HIDE DEF t
  <1>4. s.result # "timeout" /\ s.sending = <<>>
    BY <1>1 DEF Good, Settled, Carried
  <1>5. Queued(t) /\ Carried(t) /\ Piped(t) /\ Settled(t)
    BY <1>1, <1>2, <1>4, SameQueue DEF Good, Carried, Piped, Settled
  <1>6. QED
    BY <1>3, <1>5, GoodBecomes DEF Good

LEMMA SendsLines == ASSUME LinesInv, LoginInv', NEW i \in SignIns, SendsLine(i) PROVE LinesInv'
  <1> DEFINE s == signIn[i]
             none == <<>>
             lines == s.channel \o s.sending
             t == [s EXCEPT !.sending = <<>>, !.channel = @ \o s.sending]
  <1>1. s \in Live /\ Good(s) /\ s.phase = "reading" /\ s.sending # <<>>
    BY GoodNow DEF SendsLine, SendReady, Reading
  <1>2. /\ t.told = s.told /\ t.pipe = s.pipe /\ t.printed = s.printed /\ t.channel = lines
        /\ t.sending = none /\ t.taken = s.taken /\ t.done = s.done /\ t.open = s.open
        /\ t.phase = s.phase /\ t.broken = s.broken /\ t.result = s.result
    BY <1>1 DEF Live
  <1>3. signIn' = [signIn EXCEPT ![i] = t]
    BY DEF SendsLine, Becomes
  <1>4. PICK line \in Line : s.sending = <<line>> /\ line.nr = s.taken[line.from]
    BY <1>1 DEF Good, Carried
  <1>5. s.channel \in Seq(Line) /\ lines = Append(s.channel, line) /\ s.sending[1] = line /\ s.sending # none
    <2>1. s.channel \in Seq(Line)
      BY <1>1, LiveTypes
    <2>2. s.channel \o <<line>> = Append(s.channel, line)
      <3> DEFINE c == s.channel
      <3>1. c \in Seq(Line)
        BY <2>1
      <3> HIDE DEF c
      <3>2. c \o <<line>> = Append(c, line)
        BY <3>1
      <3>3. QED
        BY <3>2 DEF c
    <2>3. QED
      BY <1>1, <1>4, <2>1, <2>2
  <1> HIDE DEF t, lines, none
  <1>6. s.result # "timeout"
    BY <1>1 DEF Good, Settled
  <1>7. Queued(t)
    <2> SUFFICES ASSUME NEW p \in Pipes
                 PROVE  /\ Counted(t.told[p])
                        /\ \E hi \in Nat :
                              /\ Len(t.told[p]) <= hi /\ InOrder(t.channel, p, Len(t.told[p]), hi)
                              /\ t.result # "timeout" => t.taken[p] = hi + Coming(t, p)
      BY DEF Queued
    <2> DEFINE lo == Len(s.told[p])
    <2>1. Counted(s.told[p]) /\ lo \in Nat /\ s.taken[p] \in Nat
      BY <1>1, LiveTypes DEF Good, Queued
    <2>2. PICK hi \in Nat : lo <= hi /\ InOrder(s.channel, p, lo, hi) /\ s.taken[p] = hi + Coming(s, p)
      BY <1>1, <1>6 DEF Good, Queued
    <2>3. Coming(s, p) = (IF line.from = p THEN 1 ELSE 0) /\ Coming(t, p) = 0
      BY <1>2, <1>5 DEF Coming, none
    <2>4. t.told[p] = s.told[p] /\ t.taken[p] = s.taken[p] /\ t.channel = Append(s.channel, line)
      BY <1>2, <1>5
    <2> HIDE DEF lo
    <2>5. CASE line.from = p
      <3>1. line.nr = hi + 1 /\ s.taken[p] = hi + 1
        BY <1>4, <2>2, <2>3, <2>5
      <3>2. InOrder(Append(s.channel, line), p, lo, hi + 1)
        BY <1>5, <2>1, <2>2, <2>5, <3>1, AppendInOrder
      <3>3. hi + 1 \in Nat /\ lo <= hi + 1 /\ t.taken[p] = (hi + 1) + Coming(t, p)
        BY <2>1, <2>2, <2>3, <2>4, <3>1
      <3>4. QED
        BY <2>1, <2>4, <3>2, <3>3 DEF lo
    <2>6. CASE line.from # p
      <3>1. InOrder(Append(s.channel, line), p, lo, hi)
        BY <1>5, <2>1, <2>2, <2>6, AppendInOrder
      <3>2. t.taken[p] = hi + Coming(t, p)
        BY <2>2, <2>3, <2>4, <2>6
      <3>3. QED
        BY <2>1, <2>2, <2>4, <3>1, <3>2 DEF lo
    <2>7. QED
      BY <2>5, <2>6
  <1>8. Carried(t) /\ Piped(t) /\ Settled(t)
    BY <1>1, <1>2, <1>6 DEF Good, Carried, Piped, Settled, none
  <1>9. QED
    BY <1>3, <1>7, <1>8, GoodBecomes DEF Good

LEMMA ReadsLines ==
    ASSUME LinesInv, LoginInv', NEW i \in SignIns, NEW p \in Pipes, ReadsLine(i, p) PROVE LinesInv'
  <1> DEFINE s == signIn[i]
             line == [from |-> p, nr |-> Head(s.pipe[p])]
             one == <<line>>
             t == [s EXCEPT !.pipe[p] = Tail(@), !.taken[p] = @ + 1, !.sending = <<line>>]
             old == s.pipe[p]
             nr == s.printed[p]
  <1>1. /\ s \in Live /\ Good(s) /\ s.phase = "reading" /\ s.sending = <<>>
        /\ p \notin s.done /\ old # <<>>
    BY GoodNow DEF ReadsLine, LineReady, Reading
  <1>2. /\ t.told = s.told /\ t.channel = s.channel /\ t.printed = s.printed /\ t.sending = one
        /\ t.pipe = [s.pipe EXCEPT ![p] = Tail(@)] /\ t.taken = [s.taken EXCEPT ![p] = @ + 1]
        /\ t.done = s.done /\ t.open = s.open /\ t.phase = s.phase
        /\ t.broken = s.broken /\ t.result = s.result
    <2> HIDE DEF line
    <2>1. QED
      BY <1>1 DEF Live
  <1>3. signIn' = [signIn EXCEPT ![i] = t]
    BY DEF ReadsLine, Becomes
  <1> HIDE DEF t
  <1>4. s.result # "timeout" /\ p \notin s.broken
    BY <1>1 DEF Good, Settled
  <1>5. /\ t.pipe[p] = Tail(old) /\ t.taken[p] = s.taken[p] + 1
        /\ \A q \in Pipes \ {p} : t.pipe[q] = s.pipe[q] /\ t.taken[q] = s.taken[q]
    <2>1. s.taken \in [Pipes -> Nat] /\ s.pipe \in [Pipes -> Seq(Nat)]
      BY <1>1, LiveTypes
    <2>2. QED
      BY <1>2, <2>1
  <1>6. /\ Len(old) <= nr /\ s.taken[p] = nr - Len(old) /\ Numbered(old, nr)
        /\ old \in Seq(Nat) /\ nr \in Nat /\ Len(old) \in Nat
    BY <1>1, <1>4, LiveTypes DEF Good, Piped
  <1>7. /\ Head(old) = s.taken[p] + 1 /\ Head(old) \in Nat
        /\ Len(t.pipe[p]) <= nr /\ t.taken[p] = nr - Len(t.pipe[p]) /\ Numbered(t.pipe[p], nr)
    <2> DEFINE new == t.pipe[p]
    <2>1. new = Tail(old) /\ old # <<>>
      BY <1>1, <1>5
    <2> HIDE DEF old, nr, new
    <2>2. /\ Head(old) = (nr - Len(old)) + 1 /\ Head(old) \in Nat /\ Len(new) = Len(old) - 1
          /\ nr - Len(new) = (nr - Len(old)) + 1 /\ Numbered(new, nr)
      BY <1>6, <2>1, TailNumbered
    <2>3. Len(new) <= nr
      BY <1>6, <2>2
    <2>4. QED
      BY <1>5, <1>6, <2>2, <2>3 DEF new
  <1>8. Piped(t)
    BY <1>1, <1>2, <1>4, <1>5, <1>7 DEF Good, Piped
  <1>9. line \in Line /\ line.from = p /\ line.nr = t.taken[p]
    BY <1>5, <1>7 DEF Line
  <1>10. one[1] = line /\ one # <<>>
    OBVIOUS
  <1>11. Carried(t)
    <2>1. t.sending = <<line>>
      BY <1>2
    <2> HIDE DEF line
    <2>2. QED
      BY <1>1, <1>2, <1>9, <2>1 DEF Carried
  <1> HIDE DEF line, one
  <1>12. Queued(t)
    <2> SUFFICES ASSUME NEW q \in Pipes
                 PROVE  /\ Counted(t.told[q])
                        /\ \E hi \in Nat :
                              /\ Len(t.told[q]) <= hi /\ InOrder(t.channel, q, Len(t.told[q]), hi)
                              /\ t.result # "timeout" => t.taken[q] = hi + Coming(t, q)
      BY DEF Queued
    <2>1. Counted(s.told[q])
      BY <1>1 DEF Good, Queued
    <2>2. PICK hi \in Nat : /\ Len(s.told[q]) <= hi /\ InOrder(s.channel, q, Len(s.told[q]), hi)
                            /\ s.taken[q] = hi + Coming(s, q)
      BY <1>1, <1>4 DEF Good, Queued
    <2>3. Coming(s, q) = 0 /\ Coming(t, q) = IF q = p THEN 1 ELSE 0
      BY <1>1, <1>2, <1>9, <1>10 DEF Coming
    <2>4. t.taken[q] = hi + Coming(t, q)
      BY <1>5, <2>2, <2>3
    <2>5. QED
      BY <1>2, <2>1, <2>2, <2>4
  <1>13. Settled(t)
    BY <1>1, <1>2, <1>4, <1>5, LiveTypes DEF Good, Settled
  <1>14. QED
    BY <1>3, <1>8, <1>11, <1>12, <1>13, GoodBecomes DEF Good

(* A pipe that is not read again, whether it has ended or a read of it has  *)
(* failed.                                                                  *)
LEMMA EndsLines ==
    ASSUME LinesInv, LoginInv', NEW i \in SignIns, NEW p \in Pipes, ReadsEnd(i, p) \/ ReadFails(i, p)
    PROVE  LinesInv'
  <1> DEFINE s == signIn[i]
             d == Done(s, p)
             phase == IF AllDone(s.done \cup {p}) THEN "waiting" ELSE s.phase
  <1>1. s \in Live /\ Good(s) /\ s.phase = "reading" /\ s.sending = <<>>
    BY GoodNow DEF ReadsEnd, EndReady, ReadFails, Reading
  <1>2. /\ d.told = s.told /\ d.channel = s.channel /\ d.sending = s.sending /\ d.taken = s.taken
        /\ d.printed = s.printed /\ d.pipe = s.pipe /\ d.open = s.open /\ d.broken = s.broken
        /\ d.result = s.result /\ d.done = s.done \cup {p} /\ d.phase = phase
    BY <1>1 DEF Live, Done
  <1>3. d \in Live
    BY <1>1, DoneIsLive
  <1>4. phase \in {"reading", "waiting"} /\ (phase = "waiting" => s.done \cup {p} = Pipes)
        /\ s.result # "timeout"
    BY <1>1 DEF AllDone, Good, Settled
  <1> HIDE DEF d, phase
  <1>5. CASE ReadsEnd(i, p)
    <2>1. s.pipe[p] = <<>> /\ ~s.open[p] /\ signIn' = [signIn EXCEPT ![i] = d]
      BY <1>5 DEF ReadsEnd, EndReady, Becomes, d
    <2>2. Queued(d) /\ Carried(d) /\ Piped(d)
      BY <1>1, <1>2, <1>4, SameQueue DEF Good, Carried, Piped
    <2>3. Settled(d)
      BY <1>1, <1>2, <1>4, <2>1 DEF Good, Settled
    <2>4. QED
      BY <2>1, <2>2, <2>3, GoodBecomes DEF Good
  <1>6. CASE ReadFails(i, p)
    <2> DEFINE none == <<>>
               t == [d EXCEPT !.broken = @ \cup {p}, !.pipe[p] = none, !.open[p] = FALSE]
    <2>1. signIn' = [signIn EXCEPT ![i] = t]
      BY <1>6 DEF ReadFails, Becomes, d
    <2> HIDE DEF none
    <2>2. /\ t.told = s.told /\ t.channel = s.channel /\ t.sending = s.sending /\ t.taken = s.taken
          /\ t.printed = s.printed /\ t.pipe = [s.pipe EXCEPT ![p] = none]
          /\ t.open = [s.open EXCEPT ![p] = FALSE] /\ t.broken = s.broken \cup {p}
          /\ t.result = s.result /\ t.done = s.done \cup {p} /\ t.phase = phase
      BY <1>2, <1>3 DEF Live
    <2> HIDE DEF t
    <2>3. /\ t.pipe[p] = none /\ ~t.open[p]
          /\ \A q \in Pipes \ {p} : t.pipe[q] = s.pipe[q] /\ t.open[q] = s.open[q]
      BY <1>1, <2>2, LiveTypes
    <2>4. Queued(t) /\ Carried(t)
      BY <1>1, <1>4, <2>2, SameQueue DEF Good, Carried
    <2>5. Piped(t)
      BY <1>1, <2>2, <2>3 DEF Good, Piped
    <2>6. Settled(t)
      <3>1. \A q \in t.done : t.pipe[q] = none /\ ~t.open[q]
        BY <1>1, <2>2, <2>3, LiveTypes DEF Good, Settled, none
      <3>2. t.broken \subseteq t.done
        BY <1>1, <2>2 DEF Good, Settled
      <3>3. QED
        BY <1>4, <2>2, <3>1, <3>2 DEF Settled, none
    <2>7. QED
      BY <2>1, <2>4, <2>5, <2>6, GoodBecomes DEF Good
  <1>7. QED
    BY <1>5, <1>6

(* The task returns: with nothing left to read, or by the timeout. *)
LEMMA OverLines ==
    ASSUME LinesInv, LoginInv', NEW i \in SignIns,
           SpawnFails(i) \/ TimesOut(i) \/ \E status \in {"ok", "failed"} : ChildWaited(i, status)
    PROVE  LinesInv'
  <1> DEFINE s == signIn[i]
  <1>1. s \in Live /\ Good(s) /\ s.phase \in {"spawned", "reading", "waiting"}
    BY GoodNow DEF SpawnFails, TimesOut, OverAll, Reading, ChildWaited, Waiting
  <1>2. s.result # "timeout"
    BY <1>1 DEF Good, Settled
  <1>3. PICK result \in {"ok", "failed", "timeout"} :
            /\ signIn' = [signIn EXCEPT ![i] = Over(s, result)]
            /\ result # "timeout" => s.phase \in {"spawned", "waiting"}
    <2>1. CASE SpawnFails(i)
      BY <2>1 DEF SpawnFails, Becomes
    <2>2. CASE TimesOut(i)
      BY <2>2 DEF TimesOut, Becomes
    <2>3. CASE \E status \in {"ok", "failed"} : ChildWaited(i, status)
      BY <2>3 DEF ChildWaited, Becomes, Waiting
    <2>4. QED
      BY <2>1, <2>2, <2>3
  <1> DEFINE t == Over(s, result)
  <1>4. /\ t.told = s.told /\ t.channel = s.channel /\ t.taken = s.taken /\ t.printed = s.printed
        /\ t.broken = s.broken /\ t.result = result /\ t.phase = "ended" /\ t.done = {}
        /\ t.sending = <<>> /\ \A p \in Pipes : t.pipe[p] = <<>>
    BY <1>1 DEF Live, Over
  <1> HIDE DEF t
  <1>5. ASSUME result # "timeout" PROVE s.sending = <<>> /\ \A p \in Pipes : s.pipe[p] = <<>>
    <2>1. CASE s.phase = "spawned"
      BY <1>1, <2>1 DEF Good, Settled, Carried
    <2>2. CASE s.phase = "waiting"
      BY <1>1, <2>2 DEF Good, Settled, Carried
    <2>3. QED
      BY <1>3, <1>5, <2>1, <2>2
  <1>6. Queued(t)
    <2>1. \A p \in Pipes : result # "timeout" => Coming(t, p) = Coming(s, p)
      BY <1>4, <1>5 DEF Coming
    <2>2. QED
      BY <1>1, <1>2, <1>4, <2>1 DEF Good, Queued
  <1>7. Carried(t) /\ Settled(t)
    BY <1>4 DEF Carried, Settled
  <1>8. Piped(t)
    <2> SUFFICES ASSUME result # "timeout", NEW p \in Pipes \ s.broken
                 PROVE  /\ Len(t.pipe[p]) <= t.printed[p] /\ t.taken[p] = t.printed[p] - Len(t.pipe[p])
                        /\ Numbered(t.pipe[p], t.printed[p])
      BY <1>4 DEF Piped
    <2>1. t.pipe[p] = s.pipe[p]
      BY <1>4, <1>5
    <2>2. QED
      BY <1>1, <1>2, <1>4, <2>1 DEF Good, Piped
  <1>9. QED
    BY <1>3, <1>6, <1>7, <1>8, GoodBecomes DEF Good, t

----------------------------------------------------------------------------
(* The stream. *)
LEMMA StreamLines == ASSUME LinesInv, LoginInv', NEW i \in SignIns, StreamMoves(i) PROVE LinesInv'
  <1> DEFINE s == signIn[i]
  <1>1. CASE LoginFinished(i)
    <2>1. signIn' = [signIn EXCEPT ![i] = None]
      BY <1>1 DEF LoginFinished
    <2>2. QED
      BY <2>1, GoodBecomes
  <1>2. CASE \E link \in BOOLEAN : LoginLine(i, link)
    <2>1. PICK link \in BOOLEAN : LoginLine(i, link)
      BY <1>2
    <2>2. s \in Live /\ Good(s)
      BY <2>1, GoodNow DEF LoginLine
    <2> DEFINE line == Head(s.channel)
               t == [s EXCEPT !.channel = Tail(@), !.told[line.from] = Append(@, line.nr)]
    <2>3. /\ t.told = [s.told EXCEPT ![line.from] = Append(@, line.nr)]
          /\ t.channel = Tail(s.channel) /\ t.sending = s.sending /\ t.taken = s.taken
          /\ t.printed = s.printed /\ t.pipe = s.pipe /\ t.phase = s.phase /\ t.done = s.done
          /\ t.open = s.open /\ t.broken = s.broken /\ t.result = s.result
      <3> HIDE DEF line
      <3>1. QED
        BY <2>2 DEF Live
    <2>4. signIn' = [signIn EXCEPT ![i] = t] /\ s.channel # <<>>
      BY <2>1 DEF LoginLine
    <2> HIDE DEF t
    <2>5. s.channel \in Seq(Line) /\ s.told \in [Pipes -> Seq(Nat)]
      BY <2>2, LiveTypes
    <2>6. line \in Line /\ line = Head(s.channel)
      BY <2>4, <2>5, HeadTailProperties
    <2>7. line.from \in Pipes /\ line.nr \in Nat
      BY <2>6 DEF Line
    <2> HIDE DEF line
    <2>8. \A q \in Pipes : t.told[q] = IF q = line.from THEN Append(s.told[q], line.nr) ELSE s.told[q]
      BY <2>3, <2>5, <2>7
    <2>9. Queued(t)
      <3> SUFFICES ASSUME NEW q \in Pipes
                   PROVE  /\ Counted(t.told[q])
                          /\ \E hi \in Nat :
                                /\ Len(t.told[q]) <= hi /\ InOrder(t.channel, q, Len(t.told[q]), hi)
                                /\ t.result # "timeout" => t.taken[q] = hi + Coming(t, q)
        BY DEF Queued
      <3> DEFINE T == s.channel
                 told == s.told[q]
                 new == t.told[q]
      <3>1. Counted(told) /\ told \in Seq(Nat) /\ T \in Seq(Line) /\ T # <<>>
        BY <2>2, <2>4, <2>5 DEF Good, Queued
      <3>2. \E hi \in Nat : /\ Len(told) <= hi /\ InOrder(T, q, Len(told), hi)
                            /\ s.result # "timeout" => s.taken[q] = hi + Coming(s, q)
        BY <2>2 DEF Good, Queued
      <3>3. Coming(t, q) = Coming(s, q)
        BY <2>3 DEF Coming
      <3>4. new = IF q = line.from THEN Append(told, line.nr) ELSE told
        BY <2>8
      <3>5. line = Head(T)
        BY <2>6
      <3>6. t.channel = Tail(T) /\ t.result = s.result /\ t.taken = s.taken
        BY <2>3
      <3> HIDE DEF T, told, new
      <3>7. /\ Counted(new)
            /\ \E hi \in Nat : /\ Len(new) <= hi /\ InOrder(Tail(T), q, Len(new), hi)
                               /\ s.result # "timeout" => s.taken[q] = hi + Coming(s, q)
        <4> DEFINE late == s.result = "timeout"
                   taken(hi) == s.taken[q] = hi + Coming(s, q)
        <4>1. \E hi \in Nat : Len(told) <= hi /\ InOrder(T, q, Len(told), hi) /\ (~late => taken(hi))
          BY <3>2
        <4> HIDE DEF late, taken
        <4>2. /\ Counted(new)
              /\ \E hi \in Nat : Len(new) <= hi /\ InOrder(Tail(T), q, Len(new), hi) /\ (~late => taken(hi))
          BY <3>1, <3>4, <3>5, <4>1, TellsNext
        <4>3. QED
          BY <4>2 DEF late, taken
      <3>8. \E hi \in Nat : /\ Len(new) <= hi /\ InOrder(t.channel, q, Len(new), hi)
                            /\ t.result # "timeout" => t.taken[q] = hi + Coming(t, q)
        BY <3>3, <3>6, <3>7
      <3>9. t.told[q] = new
        BY DEF new
      <3>10. QED
        BY <3>7, <3>8, <3>9
    <2>10. Carried(t) /\ Piped(t) /\ Settled(t)
      BY <2>2, <2>3 DEF Good, Carried, Piped, Settled
    <2>11. QED
      BY <2>4, <2>9, <2>10, GoodBecomes DEF Good
  <1>3. QED
    BY <1>1, <1>2 DEF StreamMoves

LEMMA FreshIsGood == Good(Fresh)
  <1> DEFINE s == Fresh
             none == <<>>
  <1>1. /\ s.phase = "spawned" /\ s.sending = none /\ s.channel = none /\ s.done = {} /\ s.broken = {}
        /\ s.result = "none"
        /\ \A p \in Pipes : s.printed[p] = 0 /\ s.pipe[p] = none /\ s.told[p] = none /\ s.taken[p] = 0
    BY DEF Fresh
  <1>2. Len(none) = 0
    BY EmptySeq
  <1> HIDE DEF s, none
  <1>3. Counted(none) /\ Numbered(none, 0) /\ \A p \in Pipes : InOrder(none, p, 0, 0)
    BY <1>2 DEF Counted, Numbered, InOrder
  <1>4. 0 <= 0 /\ 0 - 0 = 0 /\ 0 + 0 = 0 /\ 0 \in Nat
    OBVIOUS
  <1>5. Queued(s)
    <2>1. \A p \in Pipes : Coming(s, p) = 0
      BY <1>1 DEF Coming, none
    <2>2. \A p \in Pipes : Len(s.told[p]) = 0
      BY <1>1, <1>2
    <2>3. QED
      BY <1>1, <1>3, <1>4, <2>1, <2>2 DEF Queued
  <1>6. Piped(s)
    <2>1. \A p \in Pipes : Len(s.pipe[p]) = 0
      BY <1>1, <1>2
    <2>2. QED
      BY <1>1, <1>3, <1>4, <2>1 DEF Piped
  <1>7. Carried(s) /\ Settled(s)
    BY <1>1 DEF Carried, Settled, none
  <1>8. QED
    BY <1>5, <1>6, <1>7 DEF Good, s

LEMMA InitLines == Init => LinesInv
  <1>1. Init => LoginInv
    BY InitLogin
  <1>2. Init => \A i \in SignIns : signIn[i] = None
    BY DEF Init
  <1>3. QED
    BY <1>1, <1>2 DEF LinesInv

LEMMA NextLines == LinesInv /\ [Next]_vars => LinesInv'
  <1> SUFFICES ASSUME LinesInv, [Next]_vars PROVE LinesInv'
    OBVIOUS
  <1>1. LoginInv /\ LoginInv'
    BY NextLogin DEF LinesInv
  <1>2. ASSUME NEW i \in SignIns, StartLogin(i) PROVE LinesInv'
    <2>1. signIn' = [signIn EXCEPT ![i] = Fresh]
      BY <1>2 DEF StartLogin
    <2>2. QED
      BY <1>1, <2>1, FreshIsGood, GoodBecomes
  <1>3. ASSUME NEW i \in SignIns, AppMoves(i) PROVE LinesInv'
    <2>1. CASE \E p \in Pipes : ReadsLine(i, p)
      BY <1>1, <2>1, ReadsLines
    <2>2. CASE \E p \in Pipes : ReadsEnd(i, p) \/ ReadFails(i, p)
      BY <1>1, <2>2, EndsLines
    <2>3. CASE Spawns(i) \/ SpawnFails(i) \/ SendsLine(i)
      BY <1>1, <2>3, SpawnsLines, OverLines, SendsLines
    <2>4. QED
      BY <1>3, <2>1, <2>2, <2>3 DEF AppMoves, TaskRuns
  <1>4. ASSUME NEW i \in SignIns, TimesOut(i) \/ \E status \in {"ok", "failed"} : ChildWaited(i, status)
        PROVE  LinesInv'
    BY <1>1, <1>4, OverLines
  <1>5. ASSUME NEW i \in SignIns, StreamMoves(i) PROVE LinesInv'
    BY <1>1, <1>5, StreamLines
  <1>6. ASSUME NEW i \in SignIns, \E p \in Pipes : Prints(i, p) \/ Closes(i, p) PROVE LinesInv'
    BY <1>1, <1>6, ProcessLines
  <1>7. CASE Probed \/ Listed \/ Elsewhere \/ UNCHANGED vars
    <2>1. signIn' = signIn
      BY <1>7 DEF Probed, Listed, Elsewhere, vars
    <2>2. QED
      BY <1>1, <2>1 DEF LinesInv
  <1>8. QED
    BY <1>2, <1>3, <1>4, <1>5, <1>6, <1>7 DEF Next

LEMMA InvariantTells == LinesInv => LinesAreTold
  <1> SUFFICES ASSUME LinesInv, NEW i \in SignIns, signIn[i] # None, NEW p \in Pipes
               PROVE  LET s == signIn[i]
                          told == Len(s.told[p])
                      IN  /\ FirstLines(s.told[p])
                          /\ s.phase = "ended" /\ s.channel = <<>> /\ s.result # "timeout" =>
                                 told = s.taken[p] /\ (p \notin s.broken => told = s.printed[p])
    BY DEF LinesAreTold, None
  <1> DEFINE s == signIn[i]
             told == Len(s.told[p])
             none == <<>>
  <1>1. s \in Live /\ Good(s)
    BY DEF LinesInv, LoginInv
  <1>2. s.told[p] \in Seq(Nat) /\ told \in Nat /\ s.taken[p] \in Nat /\ s.printed[p] \in Nat
    BY <1>1, LiveTypes
  <1>3. FirstLines(s.told[p])
    <2>1. Counted(s.told[p])
      BY <1>1 DEF Good, Queued
    <2>2. s.told[p] = [n \in 1..told |-> s.told[p][n]]
      BY <1>2
    <2>3. QED
      BY <2>1, <2>2 DEF Counted, FirstLines
  <1>4. ASSUME s.phase = "ended", s.channel = none, s.result # "timeout"
        PROVE  told = s.taken[p] /\ (p \notin s.broken => told = s.printed[p])
    <2>1. PICK hi \in Nat : told <= hi /\ InOrder(none, p, told, hi) /\ s.taken[p] = hi + Coming(s, p)
      BY <1>1, <1>4 DEF Good, Queued
    <2>2. Coming(s, p) = 0
      BY <1>1, <1>4 DEF Good, Carried, Coming
    <2>3. Len(none) = 0
      BY EmptySeq
    <2> HIDE DEF told, none
    <2>4. told = hi
      <3> SUFFICES ASSUME told < hi PROVE FALSE
        BY <1>2, <2>1
      <3>1. \E k \in 1..Len(none) : none[k].from = p /\ none[k].nr = hi
        BY <2>1 DEF InOrder
      <3>2. QED
        BY <2>3, <3>1
    <2>5. told = s.taken[p]
      BY <2>1, <2>2, <2>4
    <2>6. ASSUME p \notin s.broken PROVE s.taken[p] = s.printed[p]
      <3>1. s.pipe[p] = none /\ s.taken[p] = s.printed[p] - Len(s.pipe[p])
        BY <1>1, <1>4, <2>6 DEF Good, Piped, Settled, none
      <3>2. QED
        BY <1>2, <2>3, <3>1
    <2>7. QED
      BY <2>5, <2>6
  <1>5. QED
    BY <1>3, <1>4

(* LinesAreTold: of each pipe the reducer is told the first lines, in order *)
(* and with no gap; when a sign-in ends other than by its timeout it has    *)
(* been told of all that were printed, or, of a pipe with a line that could *)
(* not be read, of all before that one.  For any number of lines and any    *)
(* room in the pipes and in the channel.                                    *)
THEOREM LinesTold == Spec => []LinesAreTold
  <1>1. Init => LinesInv
    BY InitLines
  <1>2. LinesInv /\ [Next]_vars => LinesInv'
    BY NextLines
  <1>3. LinesInv => LinesAreTold
    BY InvariantTells
  <1>4. QED
    BY <1>1, <1>2, <1>3, PTL DEF Spec
=============================================================================
