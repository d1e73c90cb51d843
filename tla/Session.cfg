SPECIFICATION Spec
CONSTANTS
    NoAccount = NoAccount
    Accounts = {ada, bob}
    LoadSlots = {1}
    MaxCalls = 2
INVARIANTS
    TypeOK
    RefreshingMatchesCalls
    CachedItemsAreTheirs
    SignedInIsServed
PROPERTIES
    WaitingEnds
