SPECIFICATION ViewSpec
CONSTANTS
    k1 = k1
    user = user
    password = password
    code = code
    NoKey = NoKey
    Gone = Gone
    NoCopy = NoCopy
    Keys = {k1}
    Fields = {user, password}
    Secrets = {password}
    Codes = {code}
    Shapes <- MCShapes
    Listings <- MCListings
    Period = 1
    MaxFetches = 2
    MaxClock = 1
    MaxCopies = 1
    MaxWindows = 2
    MaxNotices = 1
INVARIANT
    ClosedWindowIsMasked
CHECK_DEADLOCK FALSE
