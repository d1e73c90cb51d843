SPECIFICATION Spec
CONSTANTS
    NoOwner = NoOwner
    Other = Other
    Timeout = 2
    MaxCopies = 2
INVARIANTS SecretExpires HelpersAreWatched
PROPERTIES PlainValueStays CopiesSettle
