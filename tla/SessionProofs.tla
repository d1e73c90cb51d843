--------------------------- MODULE SessionProofs ---------------------------
(***************************************************************************)
(* Theorems about Session, for any accounts and any number of calls in     *)
(* flight.  One inductive invariant, SessionInv, carries them all: what    *)
(* the flags say of the calls in flight, and whose data is held.           *)
(***************************************************************************)
EXTENDS Session, TLAPS

(* cached_at and fetched_at are the times their source names. *)
SourceNamesTheTime ==
    /\ data.fetched => data.source = "Memory" /\ ~data.cached
    /\ data.cached => data.source = "DiskCache" /\ dataAccount # NoAccount

SessionInv ==
    /\ TypeOK
    /\ RefreshingMatchesCalls
    /\ WaitingForAnAnswer
    /\ SignedInOwnsData
    /\ CachedItemsAreTheirs
    /\ SourceNamesTheTime
    /\ SignedInIsServed

----------------------------------------------------------------------------
(* The constructors of sessions build sessions. *)
LEMMA SessionConstructors ==
    /\ \A s \in States : In(s) \in Sessions /\ In(s).state = s /\ In(s).account = NoAccount
    /\ \A a \in Accounts : /\ SignedIn(a) \in Sessions
                           /\ SignedIn(a).state = "SignedIn" /\ SignedIn(a).account = a
BY DEF In, SignedIn, Sessions, States

(* A session is signed in with an account, or names none. *)
LEMMA SessionShape ==
    ASSUME NEW s \in Sessions
    PROVE  \/ s.state = "SignedIn" /\ s.account \in Accounts
           \/ s.state \in States /\ s.state # "SignedIn" /\ s.account = NoAccount
BY DEF In, SignedIn, Sessions, States

LEMMA ClearedType ==
    ASSUME NEW d \in DataStates
    PROVE  /\ Cleared(d) \in DataStates
           /\ Cleared(d).refreshing = d.refreshing
           /\ Cleared(d).fetched = FALSE /\ Cleared(d).cached = FALSE
BY DEF Cleared, EmptyData, DataStates, MaybeAccount

LEMMA LoadTypes ==
    /\ Idle \in Loads /\ Asked \in Loads
    /\ \A f \in MaybeAccount : Read(f) \in Loads
BY DEF Idle, Asked, Read, Loads, MaybeAccount

LEMMA EmptyDataType == EmptyData \in DataStates
BY DEF EmptyData, DataStates, MaybeAccount

LEMMA InitSession == Init => SessionInv
  <1> SUFFICES ASSUME Init PROVE SessionInv
    OBVIOUS
  <1>1. TypeOK
    <2>1. session \in Sessions
      BY SessionConstructors DEF Init, States
    <2>2. loads \in [LoadSlots -> Loads]
      BY LoadTypes DEF Init
    <2>3. dataAccount \in MaybeAccount /\ asker \in MaybeAccount
      BY DEF Init, MaybeAccount
    <2>4. QED
      BY <2>1, <2>2, <2>3, EmptyDataType DEF Init, TypeOK
  <1>2. RefreshingMatchesCalls /\ WaitingForAnAnswer /\ SignedInOwnsData /\ CachedItemsAreTheirs
        /\ SourceNamesTheTime /\ SignedInIsServed
    BY DEF Init, EmptyData, In, RefreshingMatchesCalls, WaitingForAnAnswer, SignedInOwnsData,
       CachedItemsAreTheirs, SourceNamesTheTime, SignedInIsServed, IsSignedIn
  <1>3. QED
    BY <1>1, <1>2 DEF SessionInv

----------------------------------------------------------------------------
(* Asking for a refresh keeps the flag and the calls in step.  It changes   *)
(* nothing of the data but the flag.                                        *)
LEMMA RequestRefreshFromLemma ==
    ASSUME NEW s \in Sessions, NEW d \in DataStates, asker \in MaybeAccount,
           refreshes = IF d.refreshing THEN 1 ELSE 0,
           RequestRefreshFrom(s, d)
    PROVE  /\ data' \in DataStates
           /\ refreshes' \in Nat /\ asker' \in MaybeAccount
           /\ RefreshingMatchesCalls'
           /\ s.state = "SignedIn" => data'.refreshing
           /\ d.refreshing => data'.refreshing
           /\ data'.itemsOf = d.itemsOf /\ data'.fetched = d.fetched
           /\ data'.cached = d.cached /\ data'.source = d.source /\ data'.stale = d.stale
  <1> DEFINE asks == ~d.refreshing /\ MayRefresh(s)
  <1>1. data' = [d EXCEPT !.refreshing = d.refreshing \/ asks]
    BY DEF RequestRefreshFrom
  <1>2. data'.refreshing = (d.refreshing \/ asks)
    BY <1>1 DEF DataStates
  <1>3. /\ data' \in DataStates
        /\ data'.itemsOf = d.itemsOf /\ data'.fetched = d.fetched
        /\ data'.cached = d.cached /\ data'.source = d.source /\ data'.stale = d.stale
    BY <1>1 DEF DataStates
  <1>4. refreshes' = refreshes + (IF asks THEN 1 ELSE 0)
    BY DEF RequestRefreshFrom
  <1>5. asker' \in MaybeAccount
    BY SessionShape DEF RequestRefreshFrom, MaybeAccount
  <1>6. /\ s.state = "SignedIn" => data'.refreshing
        /\ d.refreshing => data'.refreshing
    BY <1>2 DEF MayRefresh
  <1>7. refreshes' = IF data'.refreshing THEN 1 ELSE 0
    <2>1. CASE asks
      <3>1. data'.refreshing /\ ~d.refreshing
        BY <1>2, <2>1
      <3>2. refreshes' = 0 + 1
        BY <1>4, <2>1, <3>1
      <3>3. QED
        BY <3>1, <3>2
    <2>2. CASE ~asks
      <3>1. refreshes' = refreshes
        <4>1. refreshes \in Nat
          OBVIOUS
        <4>2. QED
          BY <1>4, <2>2, <4>1
      <3>2. data'.refreshing <=> d.refreshing
        BY <1>2, <2>2
      <3>3. QED
        BY <3>1, <3>2
    <2>3. QED
      BY <2>1, <2>2
  <1>8. QED
    BY <1>3, <1>5, <1>6, <1>7 DEF RefreshingMatchesCalls

(* What session_error leaves behind. *)
LEMMA SessionAfterLemma ==
    ASSUME TypeOK, NEW e \in Errors
    PROVE  /\ SessionAfter(e) \in Sessions
           /\ SessionAfter(e).state = "SignedIn" =>
                 SessionAfter(e) = session /\ e \in {"Unreachable", "Other"}
           /\ SessionAfter(e).state \in {"Checking", "LoggingIn"} => SessionAfter(e) = session
  <1>1. CASE e \in {"SignedOut", "Locked", "CliMissing"}
    BY <1>1, SessionConstructors DEF SessionAfter, States
  <1>2. CASE e = "LocalData"
    BY <1>2, SessionConstructors DEF SessionAfter, States
  <1>3. CASE e \in {"Unreachable", "Other"}
    BY <1>3 DEF SessionAfter, TypeOK
  <1>4. QED
    BY <1>1, <1>2, <1>3 DEF Errors

LEMMA ApplyErrorLemma ==
    ASSUME TypeOK, NEW e \in Errors, NEW d \in DataStates, ApplyError(e, d)
    PROVE  /\ data' \in DataStates /\ dataAccount' \in MaybeAccount /\ disk' \in MaybeAccount
           /\ data'.refreshing = d.refreshing
           /\ \/ e = "SignedOut" /\ ~data'.fetched /\ ~data'.cached
              \/ /\ e # "SignedOut" /\ dataAccount' = dataAccount
                 /\ data'.fetched = d.fetched /\ data'.cached = d.cached
                 /\ data'.source = d.source /\ data'.itemsOf = d.itemsOf
                 /\ d.stale => data'.stale
  <1>1. CASE e = "SignedOut"
    BY <1>1, ClearedType DEF ApplyError, TypeOK, MaybeAccount
  <1>2. CASE e \in {"Locked", "CliMissing", "LocalData"}
    BY <1>2 DEF ApplyError, TypeOK
  <1>3. CASE e \in {"Unreachable", "Other"}
    <2>1. data' = [d EXCEPT !.stale = TRUE, !.lastError = e]
      BY <1>3 DEF ApplyError
    <2>2. QED
      BY <1>3, <2>1 DEF ApplyError, TypeOK, DataStates
  <1>4. QED
    BY <1>1, <1>2, <1>3 DEF Errors

----------------------------------------------------------------------------
(* Each handler preserves the invariant. *)

LEMMA StartupStep == SessionInv /\ Startup => SessionInv'
  <1> SUFFICES ASSUME SessionInv, Startup PROVE SessionInv'
    OBVIOUS
  <1> USE DEF SessionInv
  <1>1. session' \in Sessions /\ (session'.state = "SignedIn" => session' = session)
        /\ (session'.state = "LoggingIn" => session' = session)
    BY SessionConstructors, SessionShape DEF Startup, TypeOK, States
  <1>2. loads' \in [LoadSlots -> Loads]
    BY LoadTypes DEF Startup, TypeOK
  <1>3. TypeOK'
    BY <1>1, <1>2 DEF Startup, TypeOK
  <1>4. UNCHANGED <<dataAccount, data, refreshes, logins>> /\ probes' > 0
    BY DEF Startup, TypeOK
  <1>5. QED
    BY <1>1, <1>3, <1>4 DEF RefreshingMatchesCalls, WaitingForAnAnswer, SignedInOwnsData,
       CachedItemsAreTheirs, SourceNamesTheTime, SignedInIsServed, IsSignedIn

LEMMA ProbedOkStep == SessionInv /\ (\E a \in Accounts : SessionProbedOk(a)) => SessionInv'
  <1> SUFFICES ASSUME SessionInv, NEW a \in Accounts, SessionProbedOk(a) PROVE SessionInv'
    OBVIOUS
  <1> USE DEF SessionInv
  <1> DEFINE d == IF Switching(a) THEN Cleared(data) ELSE data
  <1>1. session' = SignedIn(a) /\ SignedIn(a) \in Sessions
        /\ SignedIn(a).state = "SignedIn" /\ SignedIn(a).account = a
    BY SessionConstructors DEF SessionProbedOk
  <1>2. d \in DataStates /\ d.refreshing = data.refreshing
    BY ClearedType DEF TypeOK
  <1>3. RequestRefreshFrom(SignedIn(a), d)
    BY DEF SessionProbedOk
  <1>4. /\ data' \in DataStates
        /\ refreshes' \in Nat /\ asker' \in MaybeAccount
        /\ RefreshingMatchesCalls'
        /\ data'.refreshing
        /\ data'.itemsOf = d.itemsOf /\ data'.fetched = d.fetched
        /\ data'.cached = d.cached /\ data'.source = d.source
    <2> HIDE DEF d
    <2>1. asker \in MaybeAccount /\ refreshes = IF d.refreshing THEN 1 ELSE 0
      BY <1>2 DEF TypeOK, RefreshingMatchesCalls
    <2>2. QED
      BY <1>1, <1>2, <1>3, <2>1, RequestRefreshFromLemma
  <1>5. TypeOK'
    BY <1>1, <1>4 DEF SessionProbedOk, TypeOK, MaybeAccount
  <1>6. dataAccount' = a /\ dataAccount' # NoAccount
    BY SessionAssumption DEF SessionProbedOk
  <1>7. SignedInOwnsData' /\ WaitingForAnAnswer' /\ SignedInIsServed'
    BY <1>1, <1>4, <1>6 DEF SignedInOwnsData, WaitingForAnAnswer, SignedInIsServed, IsSignedIn
  <1>8. CachedItemsAreTheirs' /\ SourceNamesTheTime'
    <2>1. CASE Switching(a)
      <3>1. ~data'.cached /\ ~data'.fetched
        BY <1>4, <2>1, ClearedType DEF TypeOK
      <3>2. QED
        BY <3>1 DEF CachedItemsAreTheirs, SourceNamesTheTime
    <2>2. CASE ~Switching(a)
      <3>1. dataAccount \in {NoAccount, a}
        BY <2>2 DEF Switching, TypeOK, MaybeAccount
      <3>2. QED
        BY <1>1, <1>4, <1>6, <2>2, <3>1
           DEF CachedItemsAreTheirs, SourceNamesTheTime, IsSignedIn
    <2>3. QED
      BY <2>1, <2>2
  <1>9. QED
    BY <1>4, <1>5, <1>7, <1>8

(* An error applied to data d, the session ending as s: what is left to     *)
(* show is that a waiting session still waits for something.                *)
LEMMA ErrorStep ==
    ASSUME SessionInv, NEW e \in Errors, NEW d \in DataStates, ApplyError(e, d),
           d.fetched = data.fetched, d.cached = data.cached, d.source = data.source,
           d.itemsOf = data.itemsOf, data.stale => d.stale,
           \/ d.refreshing = data.refreshing \/ d.stale,
           session' \in Sessions,
           session'.state = "SignedIn" => session' = session /\ e \in {"Unreachable", "Other"}
    PROVE  /\ data' \in DataStates /\ dataAccount' \in MaybeAccount /\ disk' \in MaybeAccount
           /\ data'.refreshing = d.refreshing
           /\ SignedInOwnsData' /\ CachedItemsAreTheirs' /\ SourceNamesTheTime'
           /\ SignedInIsServed'
  <1> USE DEF SessionInv
  <1>1. /\ data' \in DataStates /\ dataAccount' \in MaybeAccount /\ disk' \in MaybeAccount
        /\ data'.refreshing = d.refreshing
        /\ \/ e = "SignedOut" /\ ~data'.fetched /\ ~data'.cached
           \/ /\ e # "SignedOut" /\ dataAccount' = dataAccount
              /\ data'.fetched = d.fetched /\ data'.cached = d.cached
              /\ data'.source = d.source /\ data'.itemsOf = d.itemsOf
              /\ d.stale => data'.stale
    BY ApplyErrorLemma
  <1>2. SignedInOwnsData'
    BY <1>1 DEF SignedInOwnsData, IsSignedIn
  <1>3. CachedItemsAreTheirs' /\ SourceNamesTheTime'
    BY <1>1 DEF CachedItemsAreTheirs, SourceNamesTheTime, IsSignedIn
  <1>4. SignedInIsServed'
    BY <1>1 DEF SignedInIsServed, IsSignedIn
  <1>5. QED
    BY <1>1, <1>2, <1>3, <1>4

LEMMA ProbedErrStep == SessionInv /\ (\E e \in Errors : SessionProbedErr(e)) => SessionInv'
  <1> SUFFICES ASSUME SessionInv, NEW e \in Errors, SessionProbedErr(e) PROVE SessionInv'
    OBVIOUS
  <1> USE DEF SessionInv
  <1>1. /\ SessionAfter(e) \in Sessions
        /\ SessionAfter(e).state = "SignedIn" =>
              SessionAfter(e) = session /\ e \in {"Unreachable", "Other"}
        /\ SessionAfter(e).state \in {"Checking", "LoggingIn"} => SessionAfter(e) = session
    BY SessionAfterLemma
  <1>2. /\ session' \in Sessions
        /\ session'.state = "SignedIn" => session' = session /\ e \in {"Unreachable", "Other"}
        /\ session'.state # "Checking"
        /\ session'.state = "LoggingIn" => session' = session
    <2>1. CASE SessionAfter(e).state \in {"Checking", "Unknown"}
      BY <2>1, SessionConstructors DEF SessionProbedErr, Settled, States
    <2>2. CASE SessionAfter(e).state \notin {"Checking", "Unknown"}
      BY <1>1, <2>2 DEF SessionProbedErr, Settled
    <2>3. QED
      BY <2>1, <2>2
  <1>3. /\ data' \in DataStates /\ dataAccount' \in MaybeAccount /\ disk' \in MaybeAccount
        /\ data'.refreshing = data.refreshing
        /\ SignedInOwnsData' /\ CachedItemsAreTheirs' /\ SourceNamesTheTime'
        /\ SignedInIsServed'
    BY <1>2, ErrorStep DEF SessionProbedErr, TypeOK
  <1>4. TypeOK'
    BY <1>2, <1>3 DEF SessionProbedErr, TypeOK
  <1>5. RefreshingMatchesCalls' /\ WaitingForAnAnswer'
    BY <1>2, <1>3 DEF SessionProbedErr, RefreshingMatchesCalls, WaitingForAnAnswer
  <1>6. QED
    BY <1>3, <1>4, <1>5

LEMMA DataLoadedStep == SessionInv /\ DataLoaded => SessionInv'
  <1> SUFFICES ASSUME SessionInv, DataLoaded PROVE SessionInv'
    OBVIOUS
  <1> USE DEF SessionInv
  <1>1. /\ data' \in DataStates
        /\ data'.fetched /\ ~data'.cached /\ data'.source = "Memory" /\ ~data'.refreshing
    BY EmptyDataType DEF DataLoaded, EmptyData, DataStates, TypeOK
  <1>2. refreshes = 1 /\ refreshes' = 0 /\ asker' = NoAccount
    BY DEF DataLoaded, RefreshAnswered, RefreshingMatchesCalls
  <1>3. IsSignedIn => session.account \in Accounts
    BY SessionShape DEF IsSignedIn, TypeOK
  <1>4. dataAccount' \in MaybeAccount /\ disk' \in MaybeAccount
    BY <1>3 DEF DataLoaded, Persist, HasSnapshot, IsSignedIn, TypeOK, MaybeAccount
  <1>5. TypeOK'
    BY <1>1, <1>2, <1>4 DEF DataLoaded, TypeOK, MaybeAccount
  <1>6. UNCHANGED <<session, probes, logins>> /\ (IsSignedIn => dataAccount' = session.account)
    BY DEF DataLoaded
  <1>7. QED
    BY <1>1, <1>2, <1>5, <1>6 DEF RefreshingMatchesCalls, WaitingForAnAnswer, SignedInOwnsData,
       CachedItemsAreTheirs, SourceNamesTheTime, SignedInIsServed, IsSignedIn

LEMMA RefreshFailedStep == SessionInv /\ (\E e \in Errors : RefreshFailed(e)) => SessionInv'
  <1> SUFFICES ASSUME SessionInv, NEW e \in Errors, RefreshFailed(e) PROVE SessionInv'
    OBVIOUS
  <1> USE DEF SessionInv
  <1> DEFINE d == Failed(data)
  <1>1. /\ d \in DataStates /\ ~d.refreshing /\ d.stale
        /\ d.fetched = data.fetched /\ d.cached = data.cached /\ d.source = data.source
        /\ d.itemsOf = data.itemsOf
    BY DEF TypeOK, DataStates, Failed
  <1>2. refreshes = 1 /\ refreshes' = 0 /\ asker' = NoAccount
    BY DEF RefreshFailed, RefreshAnswered, RefreshingMatchesCalls
  <1>3. /\ session' \in Sessions
        /\ session'.state = "SignedIn" => session' = session /\ e \in {"Unreachable", "Other"}
        /\ session'.state \in {"Checking", "LoggingIn"} => session' = session
    BY SessionAfterLemma DEF RefreshFailed
  <1>4. /\ data' \in DataStates /\ dataAccount' \in MaybeAccount /\ disk' \in MaybeAccount
        /\ data'.refreshing = d.refreshing
        /\ SignedInOwnsData' /\ CachedItemsAreTheirs' /\ SourceNamesTheTime'
        /\ SignedInIsServed'
    <2>1. ApplyError(e, d)
      BY DEF RefreshFailed
    <2> HIDE DEF d
    <2>2. QED
      BY <1>1, <1>3, <2>1, ErrorStep
  <1>5. TypeOK'
    BY <1>2, <1>3, <1>4 DEF RefreshFailed, TypeOK, MaybeAccount
  <1>6. RefreshingMatchesCalls' /\ WaitingForAnAnswer'
    BY <1>1, <1>2, <1>3, <1>4 DEF RefreshFailed, RefreshingMatchesCalls, WaitingForAnAnswer
  <1>7. QED
    BY <1>4, <1>5, <1>6

(* F5, a window opening and a copy whose item is gone all ask for a refresh. *)
LEMMA RequestRefreshStep ==
    SessionInv /\ RequestRefresh /\ pending' \in BOOLEAN => SessionInv'
  <1> SUFFICES ASSUME SessionInv, RequestRefresh, pending' \in BOOLEAN PROVE SessionInv'
    OBVIOUS
  <1> USE DEF SessionInv
  <1>1. /\ data' \in DataStates
        /\ refreshes' \in Nat /\ asker' \in MaybeAccount
        /\ RefreshingMatchesCalls'
        /\ data.refreshing => data'.refreshing
        /\ data'.itemsOf = data.itemsOf /\ data'.fetched = data.fetched
        /\ data'.cached = data.cached /\ data'.source = data.source /\ data'.stale = data.stale
    BY RequestRefreshFromLemma DEF RequestRefresh, TypeOK, RefreshingMatchesCalls
  <1>2. TypeOK'
    BY <1>1 DEF RequestRefresh, TypeOK
  <1>3. UNCHANGED <<session, dataAccount, probes, logins>>
    BY DEF RequestRefresh
  <1>4. QED
    BY <1>1, <1>2, <1>3 DEF WaitingForAnAnswer, SignedInOwnsData, CachedItemsAreTheirs,
       SourceNamesTheTime, SignedInIsServed, IsSignedIn

LEMMA CopyFailedStep == SessionInv /\ (\E e \in Errors : CopyFailed(e)) => SessionInv'
  <1> SUFFICES ASSUME SessionInv, NEW e \in Errors, CopyFailed(e) PROVE SessionInv'
    OBVIOUS
  <1> USE DEF SessionInv
  <1>1. /\ session' \in Sessions
        /\ session'.state = "SignedIn" => session' = session /\ e \in {"Unreachable", "Other"}
        /\ session'.state \in {"Checking", "LoggingIn"} => session' = session
    BY SessionAfterLemma DEF CopyFailed
  <1>2. /\ data' \in DataStates /\ dataAccount' \in MaybeAccount /\ disk' \in MaybeAccount
        /\ data'.refreshing = data.refreshing
        /\ SignedInOwnsData' /\ CachedItemsAreTheirs' /\ SourceNamesTheTime'
        /\ SignedInIsServed'
    BY <1>1, ErrorStep DEF CopyFailed, TypeOK
  <1>3. TypeOK'
    BY <1>1, <1>2 DEF CopyFailed, TypeOK
  <1>4. QED
    BY <1>1, <1>2, <1>3 DEF CopyFailed, RefreshingMatchesCalls, WaitingForAnAnswer

(* The handlers that leave the session and the data alone. *)
LEMMA QuietStep ==
    SessionInv /\ UNCHANGED <<session, dataAccount, data, probes, logins, refreshes, asker>>
    /\ disk' \in MaybeAccount /\ loads' \in [LoadSlots -> Loads] /\ pending' \in BOOLEAN
    => SessionInv'
BY DEF SessionInv, TypeOK, RefreshingMatchesCalls, WaitingForAnAnswer, SignedInOwnsData,
   CachedItemsAreTheirs, SourceNamesTheTime, SignedInIsServed, IsSignedIn

LEMMA CopyDoneStep == SessionInv /\ CopyDone => SessionInv'
  <1> SUFFICES ASSUME SessionInv, CopyDone PROVE SessionInv'
    OBVIOUS
  <1>1. session \in Sessions /\ disk \in MaybeAccount /\ loads \in [LoadSlots -> Loads]
    BY DEF SessionInv, TypeOK
  <1>2. disk' \in MaybeAccount
    BY <1>1, SessionShape DEF CopyDone, Persist, HasSnapshot, MaybeAccount
  <1>3. QED
    BY <1>1, <1>2, QuietStep DEF CopyDone

LEMMA LoginSteps == SessionInv /\ (StartLogin \/ \E ok \in BOOLEAN : LoginFinished(ok)) => SessionInv'
  <1> SUFFICES ASSUME SessionInv, StartLogin \/ \E ok \in BOOLEAN : LoginFinished(ok)
               PROVE  SessionInv'
    OBVIOUS
  <1> USE DEF SessionInv
  <1>1. UNCHANGED <<dataAccount, data, disk, refreshes, asker, loads, pending>>
    BY DEF StartLogin, LoginFinished
  <1>2. session' \in Sessions /\ session'.state # "SignedIn"
    BY SessionConstructors DEF StartLogin, LoginFinished, States
  <1>3. probes' \in Nat /\ logins' \in Nat
    BY DEF StartLogin, LoginFinished, TypeOK
  <1>4. WaitingForAnAnswer'
    <2>1. CASE StartLogin
      BY <2>1 DEF StartLogin, WaitingForAnAnswer, In, TypeOK
    <2>2. CASE \E ok \in BOOLEAN : LoginFinished(ok)
      BY <2>2 DEF LoginFinished, WaitingForAnAnswer, In, TypeOK
    <2>3. QED
      BY <2>1, <2>2
  <1>5. TypeOK'
    BY <1>1, <1>2, <1>3 DEF TypeOK
  <1>6. QED
    BY <1>1, <1>2, <1>4, <1>5 DEF RefreshingMatchesCalls, SignedInOwnsData,
       CachedItemsAreTheirs, SourceNamesTheTime, SignedInIsServed, IsSignedIn

LEMMA ReadCacheStep == SessionInv /\ (\E s \in LoadSlots : ReadCache(s)) => SessionInv'
  <1> SUFFICES ASSUME SessionInv, NEW s \in LoadSlots, ReadCache(s) PROVE SessionInv'
    OBVIOUS
  <1>1. disk \in MaybeAccount /\ loads \in [LoadSlots -> Loads] /\ pending \in BOOLEAN
    BY DEF SessionInv, TypeOK
  <1>2. loads' \in [LoadSlots -> Loads]
    BY <1>1, LoadTypes DEF ReadCache
  <1>3. QED
    BY <1>1, <1>2, QuietStep DEF ReadCache

LEMMA CacheLoadedStep == SessionInv /\ (\E s \in LoadSlots : CacheLoaded(s)) => SessionInv'
  <1> SUFFICES ASSUME SessionInv, NEW s \in LoadSlots, CacheLoaded(s) PROVE SessionInv'
    OBVIOUS
  <1> USE DEF SessionInv
  <1> DEFINE file == loads[s].file
             ignored == file = NoAccount \/ data.fetched
             foreign == Foreign(file)
  <1>1. loads' \in [LoadSlots -> Loads] /\ UNCHANGED <<session, probes, logins, refreshes, asker, pending>>
    BY LoadTypes DEF CacheLoaded, TypeOK
  <1>2. file \in MaybeAccount
    BY DEF TypeOK, Loads, MaybeAccount
  <1>3. CASE ignored \/ foreign
    <2>1. UNCHANGED <<dataAccount, data>> /\ disk' \in {disk, NoAccount}
      BY <1>3 DEF CacheLoaded
    <2>2. disk' \in MaybeAccount /\ pending' \in BOOLEAN
      BY <1>1, <2>1 DEF TypeOK, MaybeAccount
    <2>3. QED
      BY <1>1, <2>1, <2>2, QuietStep
  <1>4. CASE ~ignored /\ ~foreign
    <2>1. /\ data' = [data EXCEPT !.stale = TRUE, !.source = "DiskCache",
                                   !.cached = TRUE, !.itemsOf = file]
          /\ dataAccount' = file /\ disk' = disk
      BY <1>4 DEF CacheLoaded
    <2>2. /\ data' \in DataStates /\ data'.stale /\ data'.cached /\ data'.itemsOf = file
          /\ data'.source = "DiskCache" /\ data'.fetched = data.fetched
          /\ data'.refreshing = data.refreshing
      BY <1>2, <2>1 DEF TypeOK, DataStates
    <2>3. TypeOK'
      BY <1>1, <1>2, <2>1, <2>2 DEF TypeOK
    <2>4. IsSignedIn' => session'.account = file
      BY <1>1, <1>4 DEF IsSignedIn, Foreign
    <2>5. SignedInOwnsData' /\ CachedItemsAreTheirs' /\ SourceNamesTheTime' /\ SignedInIsServed'
      BY <1>4, <2>1, <2>2, <2>4 DEF SignedInOwnsData, CachedItemsAreTheirs, SourceNamesTheTime,
         SignedInIsServed
    <2>6. RefreshingMatchesCalls' /\ WaitingForAnAnswer'
      BY <1>1, <2>2 DEF RefreshingMatchesCalls, WaitingForAnAnswer
    <2>7. QED
      BY <2>3, <2>5, <2>6
  <1>5. QED
    BY <1>3, <1>4

LEMMA NextSession == SessionInv /\ [Next]_vars => SessionInv'
  <1> SUFFICES ASSUME SessionInv, [Next]_vars PROVE SessionInv'
    OBVIOUS
  <1>1. CASE UNCHANGED vars
    BY <1>1, QuietStep DEF vars, SessionInv, TypeOK
  <1>2. CASE ProbeAnswered
    BY <1>2, ProbedOkStep, ProbedErrStep DEF ProbeAnswered
  <1>3. CASE ListingAnswered
    BY <1>3, DataLoadedStep, RefreshFailedStep DEF ListingAnswered
  <1>4. CASE LoginAnswered
    BY <1>4, LoginSteps DEF LoginAnswered
  <1>5. CASE LoadAnswered
    BY <1>5, ReadCacheStep, CacheLoadedStep DEF LoadAnswered
  <1>6. CASE UserStep
    <2>1. CASE Startup
      BY <2>1, StartupStep
    <2>2. CASE StartLogin
      BY <2>2, LoginSteps
    <2>3. CASE RefreshRequested
      BY <2>3, RequestRefreshStep DEF RefreshRequested, SessionInv, TypeOK
    <2>4. CASE \E old \in BOOLEAN : Show(old)
      BY <1>1, <2>3, <2>4, RequestRefreshStep DEF Show, RefreshRequested, SessionInv, TypeOK
    <2>5. CASE StartCopy \/ CopyCancelled
      BY <2>5, QuietStep DEF StartCopy, CopyCancelled, SessionInv, TypeOK
    <2>6. CASE CopyNotFound
      BY <2>6, RequestRefreshStep DEF CopyNotFound
    <2>7. CASE \E e \in Errors : CopyFailed(e)
      BY <2>7, CopyFailedStep
    <2>8. CASE CopyDone
      BY <2>8, CopyDoneStep
    <2>9. QED
      BY <1>6, <2>1, <2>2, <2>3, <2>4, <2>5, <2>6, <2>7, <2>8 DEF UserStep
  <1>7. QED
    BY <1>1, <1>2, <1>3, <1>4, <1>5, <1>6 DEF Next

----------------------------------------------------------------------------
(* The invariant holds of every reachable state. *)
THEOREM SessionInvariant == Spec => []SessionInv
  <1>1. QED
    BY InitSession, NextSession, PTL DEF Spec

(* The session and the data always have their Rust types. *)
THEOREM SessionTypeCorrect == Spec => []TypeOK
  <1>1. SessionInv => TypeOK
    BY DEF SessionInv
  <1>2. QED
    BY <1>1, SessionInvariant, PTL

(* data-model.md's "a refresh task is in flight; only one at a time".       *)
(* data.refreshing is up exactly while one listing is in flight.            *)
THEOREM OneRefresh == Spec => []RefreshingMatchesCalls
  <1>1. SessionInv => RefreshingMatchesCalls
    BY DEF SessionInv
  <1>2. QED
    BY <1>1, SessionInvariant, PTL

(* A session that shows a spinner has a call in flight to end it. *)
THEOREM NoStrandedSpinner == Spec => []WaitingForAnAnswer
  <1>1. SessionInv => WaitingForAnAnswer
    BY DEF SessionInv
  <1>2. QED
    BY <1>1, SessionInvariant, PTL

(* Saved items are shown to the account they were saved for and no other,   *)
(* and data_account names the account signed in.                            *)
THEOREM NoForeignCache == Spec => [](CachedItemsAreTheirs /\ SignedInOwnsData)
  <1>1. SessionInv => CachedItemsAreTheirs /\ SignedInOwnsData
    BY DEF SessionInv
  <1>2. QED
    BY <1>1, SessionInvariant, PTL

(* Signed in, the list is fetched, being fetched, or marked stale. *)
THEOREM SignedInServed == Spec => []SignedInIsServed
  <1>1. SessionInv => SignedInIsServed
    BY DEF SessionInv
  <1>2. QED
    BY <1>1, SessionInvariant, PTL

(* What is loaded while signed in can always be saved. *)
THEOREM SnapshotAvailable == Spec => []LoadedHasSnapshot
  <1>1. SessionInv => LoadedHasSnapshot
    BY DEF SessionInv, TypeOK, DataStates, SourceNamesTheTime, LoadedHasSnapshot, HasSnapshot,
       IsSignedIn
  <1>2. QED
    BY <1>1, SessionInvariant, PTL
=============================================================================
