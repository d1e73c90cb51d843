SPECIFICATION Spec
CONSTANTS
    Listed = {1, 2}
    Single = {3}
    MAX_CONCURRENT = 2
    Timeout = 1
INVARIANTS
    PermitsAreConserved
    ColdRunsAlone
    WaitsForThoseBefore
PROPERTIES
    CallsEnd
