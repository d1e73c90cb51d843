CONSTANTS
    Prompt = TRUE
    Keys = {1, 2, 3}
    Title <- MCTitle
    Atoms = {"w"}
    InTitle <- MCInTitle
    InOthers <- MCInOthers
    Listings <- MCListings
    Maxima = {2, 3}
    MaxRecords = 1
    Page = 2
    Stored <- MCStored
    NoKey = 0
    MaxClock = 1
SPECIFICATION LauncherSpec
INVARIANTS
    ReducerKnowsSurface
    PressCloses
    ResultsAreTheMatches
    OpensFresh
PROPERTIES
    SelectionSurvivesListings
