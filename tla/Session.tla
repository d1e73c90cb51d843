------------------------------ MODULE Session ------------------------------
(***************************************************************************)
(* The session half of the reducer (src/src/core/state.rs): which account  *)
(* is signed in, whose items are held, and the calls in flight whose       *)
(* answers change that - session probes, sign-ins, item listings and reads *)
(* of the on-disk cache.                                                   *)
(*                                                                         *)
(* Every answer is a message of its own, handled whole by one action, and  *)
(* answers of different calls arrive in any order.  What pass-cli answers  *)
(* is chosen freely: the user may sign in or out in a terminal at any      *)
(* time, so no answer is excluded by an earlier one.                       *)
(*                                                                         *)
(* Items are abstracted to the account they were listed for.  The cache    *)
(* file is abstracted to the account it names, and a save or a deletion    *)
(* takes effect with the handler that asks for it.                         *)
(***************************************************************************)
EXTENDS Naturals, FiniteSets

CONSTANTS
    Accounts,     \* the Proton accounts
    NoAccount,    \* Option::None for an account
    MaxCalls,     \* bound: probes and sign-ins in flight when the user starts another
    LoadSlots     \* bound: reads of the cache in flight

ASSUME SessionAssumption ==
    /\ NoAccount \notin Accounts
    /\ MaxCalls \in Nat

VARIABLES
    session,      \* Model.session
    dataAccount,  \* Model.data_account
    data,         \* Model.data, the items reduced to itemsOf
    disk,         \* the account named by the cache file, if there is a file
    probes,       \* ProbeSession effects not answered yet
    logins,       \* StartLogin effects not finished yet
    refreshes,    \* Refresh effects not answered yet
    asker,        \* the account signed in when the refresh in flight was asked for
    loads,        \* LoadCache effects: asked, or holding what they read
    pending       \* a copy waits for its fetch (view.pending is Some)

vars == <<session, dataAccount, data, disk, probes, logins, refreshes, asker, loads,
          pending>>

MaybeAccount == Accounts \cup {NoAccount}

----------------------------------------------------------------------------
(* SessionState: only SignedIn carries an account. *)

States == {"Unknown", "Checking", "SignedOut", "Locked", "CliMissing", "LoggingIn", "Error"}

In(s) == [state |-> s, account |-> NoAccount]
SignedIn(a) == [state |-> "SignedIn", account |-> a]

Sessions == {In(s) : s \in States} \cup {SignedIn(a) : a \in Accounts}

IsSignedIn == session.state = "SignedIn"

(* The PassErrors a call without a cancellation token can end in, by what   *)
(* the reducer does about them: Unreachable is Network and Timeout, Other   *)
(* is NotFound, FieldMissing, Parse and Cli.                                *)
Errors == {"SignedOut", "Locked", "CliMissing", "LocalData", "Unreachable", "Other"}

MayRefreshAsWas(s) == session.state \in {"Unknown", "SignedIn"}     \* mutant: not of s
MayRefresh(s) == s.state \in {"Unknown", "SignedIn"}

CanStartLogin == session.state \in {"SignedOut", "Error"}

----------------------------------------------------------------------------
(* DataState.  itemsOf is the account that was signed in when the listing   *)
(* on show was asked for, or the account the cache file names; NoAccount    *)
(* when nothing is loaded or the session named nobody at the time.          *)

DataStates ==
    [itemsOf : MaybeAccount, fetched : BOOLEAN, cached : BOOLEAN,
     source : {"Memory", "DiskCache"}, stale : BOOLEAN, refreshing : BOOLEAN,
     lastError : {"None", "Unreachable", "Other"}]

EmptyData ==
    [itemsOf |-> NoAccount, fetched |-> FALSE, cached |-> FALSE, source |-> "Memory",
     stale |-> FALSE, refreshing |-> FALSE, lastError |-> "None"]

(* Mutant: the flag of the refresh in flight is forgotten with the rest. *)
ClearedWhole(d) == EmptyData

(* clear_data: a refresh in flight stays in flight, the rest is forgotten. *)
Cleared(d) == [EmptyData EXCEPT !.refreshing = d.refreshing]

(* RefreshFailed, before what the error itself says. *)
Failed(d) == [d EXCEPT !.refreshing = FALSE, !.stale = TRUE]

(* cache_snapshot: there is something to save, and an account to save it under. *)
HasSnapshot(s, d) ==
    /\ s.state = "SignedIn"
    /\ IF d.source = "Memory" THEN d.fetched ELSE d.cached

Loads ==
    [phase : {"idle", "asked"}, file : {NoAccount}] \cup [phase : {"read"}, file : MaybeAccount]

Idle  == [phase |-> "idle", file |-> NoAccount]
Asked == [phase |-> "asked", file |-> NoAccount]
Read(f) == [phase |-> "read", file |-> f]

----------------------------------------------------------------------------
(* The pieces the handlers share. *)

(* request_refresh from session s and data d. *)
RequestRefreshFrom(s, d) ==
    LET asks == ~d.refreshing /\ MayRefresh(s)
    IN  /\ data' = [d EXCEPT !.refreshing = @ \/ asks]
        /\ refreshes' = refreshes + (IF asks THEN 1 ELSE 0)
        /\ asker' = IF asks THEN s.account ELSE asker

RequestRefresh ==
    /\ RequestRefreshFrom(session, data)
    /\ UNCHANGED <<session, dataAccount, disk, probes, logins, loads>>

(* session_error: the session it leaves, and what it does to the data d. *)
SessionAfter(e) ==
    CASE e \in {"SignedOut", "Locked", "CliMissing"} -> In(e)
      [] e = "LocalData" -> In("Error")
      [] OTHER -> session

(* A failed probe that says nothing about the session must not leave it     *)
(* checking.                                                                *)
SettledAsIs(e) == SessionAfter(e)     \* mutant: it does
Settled(e) ==
    IF SessionAfter(e).state \in {"Checking", "Unknown"}
    THEN In(IF e = "Unreachable" THEN "Unknown" ELSE "Error")
    ELSE SessionAfter(e)

ApplyError(e, d) ==
    /\ data' = CASE e = "SignedOut" -> Cleared(d)
                 [] e \in {"Locked", "CliMissing", "LocalData"} -> d
                 [] OTHER -> [d EXCEPT !.stale = TRUE, !.lastError = e]
    /\ dataAccount' = IF e = "SignedOut" THEN NoAccount ELSE dataAccount
    /\ disk' = IF e = "SignedOut" THEN NoAccount ELSE disk

(* Persist: the snapshot replaces the file.  Without one nothing is written. *)
Persist(s, d) == disk' = IF HasSnapshot(s, d) THEN s.account ELSE disk

----------------------------------------------------------------------------
(* The handlers of Model::update. *)

(* The application after init has dispatched Startup. *)
Init ==
    /\ session = In("Checking")
    /\ dataAccount = NoAccount
    /\ data = EmptyData
    /\ disk \in MaybeAccount
    /\ probes = 1 /\ logins = 0 /\ refreshes = 0
    /\ asker = NoAccount
    /\ \E s \in LoadSlots : loads = [t \in LoadSlots |-> IF t = s THEN Asked ELSE Idle]
    /\ pending = FALSE

(* Startup again: the user presses Try again. *)
Startup ==
    /\ probes + logins < MaxCalls
    /\ \E s \in LoadSlots :
          /\ loads[s] = Idle
          /\ loads' = [loads EXCEPT ![s] = Asked]
    /\ session' = IF session.state \in {"LoggingIn", "SignedIn"} THEN session ELSE In("Checking")
    /\ probes' = probes + 1
    /\ UNCHANGED <<dataAccount, data, disk, logins, refreshes, asker, pending>>

(* SessionProbed(Ok(a)): signed_in. *)
SwitchingSession(a) == IsSignedIn /\ session.account # a     \* mutant: only the session is asked
Switching(a) ==
    \/ IsSignedIn /\ session.account # a
    \/ dataAccount # NoAccount /\ dataAccount # a

SessionProbedOk(a) ==
    /\ probes > 0
    /\ probes' = probes - 1
    /\ session' = SignedIn(a)
    /\ dataAccount' = a
    /\ RequestRefreshFrom(SignedIn(a), IF Switching(a) THEN Cleared(data) ELSE data)
    /\ disk' = IF Switching(a) THEN NoAccount ELSE disk
    /\ UNCHANGED <<logins, loads, pending>>

(* SessionProbed(Err(e)). *)
SessionProbedErr(e) ==
    /\ probes > 0
    /\ probes' = probes - 1
    /\ ApplyError(e, data)
    /\ session' = Settled(e)
    /\ UNCHANGED <<logins, refreshes, asker, loads, pending>>

(* The answer to a Refresh effect. *)
RefreshAnsweredAgain == refreshes' = refreshes - 1 /\ asker' = NoAccount     \* mutant: asked or not
RefreshAnswered ==
    /\ refreshes > 0
    /\ refreshes' = refreshes - 1
    /\ asker' = NoAccount

DataLoaded ==
    /\ RefreshAnswered
    /\ data' = [EmptyData EXCEPT !.itemsOf = asker, !.fetched = TRUE]
    /\ dataAccount' = IF IsSignedIn THEN session.account ELSE dataAccount
    /\ Persist(session, data')
    /\ UNCHANGED <<session, probes, logins, loads, pending>>

RefreshFailed(e) ==
    /\ RefreshAnswered
    /\ ApplyError(e, Failed(data))
    /\ session' = SessionAfter(e)
    /\ UNCHANGED <<probes, logins, loads, pending>>

(* F5, or the refresh action over D-Bus. *)
RefreshRequested == RequestRefresh /\ UNCHANGED pending

(* show: a window opening refreshes data that is missing or old. *)
Show(old) ==
    IF (~data.fetched \/ old) /\ MayRefresh(session) THEN RefreshRequested ELSE UNCHANGED vars

(* start_copy: some item is there to copy from.  Cancelled, the copy says   *)
(* nothing about the session.                                               *)
StartCopy ==
    /\ data.fetched \/ data.cached
    /\ pending' = TRUE
    /\ UNCHANGED <<session, dataAccount, data, disk, probes, logins, refreshes, asker, loads>>

CopyCancelled ==
    /\ pending' = FALSE
    /\ UNCHANGED <<session, dataAccount, data, disk, probes, logins, refreshes, asker, loads>>

(* copy_fetched: a copy whose item is gone refreshes, one that failed may   *)
(* say something about the session, one that succeeded saves the usage.     *)
CopyNotFound ==
    /\ pending
    /\ pending' = FALSE
    /\ RequestRefresh

CopyFailed(e) ==
    /\ pending
    /\ pending' = FALSE
    /\ ApplyError(e, data)
    /\ session' = SessionAfter(e)
    /\ UNCHANGED <<probes, logins, refreshes, asker, loads>>

CopyDone ==
    /\ pending
    /\ pending' = FALSE
    /\ Persist(session, data)
    /\ UNCHANGED <<session, dataAccount, data, probes, logins, refreshes, asker, loads>>

StartLogin ==
    /\ CanStartLogin
    /\ probes + logins < MaxCalls
    /\ session' = In("LoggingIn")
    /\ logins' = logins + 1
    /\ UNCHANGED <<dataAccount, data, disk, probes, refreshes, asker, loads, pending>>

LoginFinished(ok) ==
    /\ logins > 0
    /\ logins' = logins - 1
    /\ session' = In(IF ok THEN "Checking" ELSE "Error")
    /\ probes' = probes + (IF ok THEN 1 ELSE 0)
    /\ UNCHANGED <<dataAccount, data, disk, refreshes, asker, loads, pending>>

(* CacheStore::load reads the file; its answer is delivered later. *)
ReadCache(s) ==
    /\ loads[s] = Asked
    /\ loads' = [loads EXCEPT ![s] = Read(disk)]
    /\ UNCHANGED <<session, dataAccount, data, disk, probes, logins, refreshes, asker, pending>>

Foreign(file) == IsSignedIn /\ session.account # file

CacheLoaded(s) ==
    LET file == loads[s].file
        ignored == file = NoAccount \/ data.fetched
    IN  /\ loads[s].phase = "read"
        /\ loads' = [loads EXCEPT ![s] = Idle]
        /\ \/ /\ ignored
              /\ UNCHANGED <<dataAccount, data, disk>>
           \/ /\ ~ignored /\ Foreign(file)
              /\ disk' = NoAccount
              /\ UNCHANGED <<dataAccount, data>>
           \/ /\ ~ignored /\ ~Foreign(file)
              /\ data' = [data EXCEPT !.stale = TRUE, !.source = "DiskCache",
                                      !.cached = TRUE, !.itemsOf = file]
              /\ dataAccount' = file
              /\ UNCHANGED disk
        /\ UNCHANGED <<session, probes, logins, refreshes, asker, pending>>

----------------------------------------------------------------------------
ProbeAnswered == (\E a \in Accounts : SessionProbedOk(a)) \/ (\E e \in Errors : SessionProbedErr(e))
ListingAnswered == DataLoaded \/ \E e \in Errors : RefreshFailed(e)
LoginAnswered == \E ok \in BOOLEAN : LoginFinished(ok)
LoadAnswered == \E s \in LoadSlots : ReadCache(s) \/ CacheLoaded(s)

UserStep ==
    \/ Startup
    \/ StartLogin
    \/ RefreshRequested
    \/ \E old \in BOOLEAN : Show(old)
    \/ StartCopy
    \/ CopyCancelled
    \/ CopyNotFound
    \/ \E e \in Errors : CopyFailed(e)
    \/ CopyDone

Next == ProbeAnswered \/ ListingAnswered \/ LoginAnswered \/ LoadAnswered \/ UserStep

(* Every call has a timeout (5 s for a probe, 20 s for each listing call,   *)
(* 300 s for a sign-in) and runs in a task of its own, so it is answered.   *)
Fairness ==
    /\ WF_vars(ProbeAnswered)
    /\ WF_vars(ListingAnswered)
    /\ WF_vars(LoginAnswered)

Spec == Init /\ [][Next]_vars /\ Fairness

----------------------------------------------------------------------------
(* Types: the session and the data are of their Rust types. *)
TypeOK ==
    /\ session \in Sessions
    /\ dataAccount \in MaybeAccount
    /\ data \in DataStates
    /\ disk \in MaybeAccount
    /\ probes \in Nat /\ logins \in Nat /\ refreshes \in Nat
    /\ asker \in MaybeAccount
    /\ loads \in [LoadSlots -> Loads]
    /\ pending \in BOOLEAN

(* data.refreshing says exactly whether a listing is in flight, and never   *)
(* more than one is: the flag survives clear_data, and every answer lowers  *)
(* it.  A flag left up would disable F5 for good, one lowered too early     *)
(* would start a second listing.                                            *)
RefreshingMatchesCalls == refreshes = IF data.refreshing THEN 1 ELSE 0

(* A session that says it is waiting is waiting for something: Checking for *)
(* a probe, LoggingIn for a pass-cli login.  Neither offers Try again or    *)
(* sign in, so without the call in flight the window would be stuck.        *)
WaitingForAnAnswer ==
    /\ session.state = "Checking" => probes > 0
    /\ session.state = "LoggingIn" => logins > 0

(* What the loaded data is called is what the session is called, however    *)
(* the session got there, so a switch is always noticed by signed_in.       *)
SignedInOwnsData == IsSignedIn => dataAccount = session.account

(* A cache file is shown only to the account it names: no path through      *)
(* Locked, Error or Checking, and no late answer, shows one account the     *)
(* saved items of another.                                                  *)
CachedItemsAreTheirs ==
    data.cached => /\ data.itemsOf = dataAccount
                   /\ IsSignedIn => data.itemsOf = session.account

(* Signed in, the list is never empty without a reason on screen: data was  *)
(* fetched, or is being fetched, or the stale line offers F5.               *)
SignedInIsServed == IsSignedIn => data.fetched \/ data.refreshing \/ data.stale

(* What is on show can be saved: source says which of the two refresh times *)
(* is there, so Persist after a copy never silently drops the snapshot.     *)
LoadedHasSnapshot ==
    /\ ~(data.fetched /\ data.cached)
    /\ (data.fetched \/ data.cached) /\ IsSignedIn => HasSnapshot(session, data)

(* The states that offer the user nothing to press do not last, and every   *)
(* listing ends, so F5 works again.                                         *)
WaitingEnds ==
    /\ \A s \in {"Checking", "LoggingIn"} : session.state = s ~> session.state # s
    /\ data.refreshing ~> ~data.refreshing

----------------------------------------------------------------------------
(* What the comments and documents say and the code does not keep up. *)

(* signed_in: the items of the previous account do not survive a switch.   *)
ListedItemsAreTheirs ==
    IsSignedIn /\ data.itemsOf # NoAccount => data.itemsOf = session.account

(* DataLoaded: whose items these are is kept rather than forgotten. *)
LoadedItemsHaveAnOwner == data.itemsOf # NoAccount => dataAccount # NoAccount

(* data-model.md: LoggingIn is left when the login exits. *)
OnlyLoginEndsLogin ==
    [][session.state = "LoggingIn" /\ session'.state # "LoggingIn" => logins' < logins]_vars

(* cache-format.md: a cache file of another account than the signed-in one *)
(* is deleted.  While the file is being read, or a listing is in flight     *)
(* that would replace it, that may be still to come.                        *)
ForeignCacheIsDeleted ==
    IsSignedIn /\ disk \notin {NoAccount, session.account} =>
        data.refreshing \/ \E s \in LoadSlots : loads[s] \in {Asked, Read(disk)}
=============================================================================
