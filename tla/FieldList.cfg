SPECIFICATION Spec
CONSTANTS
    NoKey = NoKey
    Gone = Gone
    k1 = k1
    k2 = k2
    user = user
    password = password
    pin = pin
    code = code
    backup = backup
    Keys = {k1, k2}
    Fields = {user, password, pin}
    Secrets = {password, pin}
    Codes = {code, backup}
    Shapes <- MCShapes
    Listings <- MCListings
    Period = 1
    MaxFetches = 2
    MaxClock = 1
INVARIANTS
    ValueUnderItsLabel
    WaitingHasItsFetch
    CodeOfTheOpenItem
PROPERTIES
    MaskedStaysMasked
    CodeDoesNotBlink
    RevealSettles
