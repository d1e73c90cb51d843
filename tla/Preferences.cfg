CONSTANTS
    Chords <- Pressed
    DefaultChord <- Three
    Plus = "+"
    Minus = "-"
    Delete = "delete"
    ClearMin = 10
    ClearMax = 30
    Step = 10
    StoredChords <- AnyStored
    StoredClears = {20}
    MaxChanges = 2
SPECIFICATION FairSpec
INVARIANTS
    SettledIsStored
PROPERTIES
    KeymapIsKept
