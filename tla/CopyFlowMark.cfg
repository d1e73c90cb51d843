SPECIFICATION CopySpec
CONSTANTS
    NoCopy = NoCopy
    Keys = {k1, k2}
    MaxCopies = 2
    MaxWindows = 2
    MaxNotices = 1
INVARIANT
    SecretsAreMarked
