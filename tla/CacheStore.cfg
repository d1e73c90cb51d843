SPECIFICATION Spec
CONSTANTS
    NoFile = NoFile
    MaxSaves = 3
    MaxLoads = 1
    MaxDeletes = 1
    MaxCrashes = 1
INVARIANTS
    PendingHasItsTask
    ClearedIsNotWritten
PROPERTIES
    ReadableStays
