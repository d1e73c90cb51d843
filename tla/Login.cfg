SPECIFICATION Spec
CONSTANTS
    NoAccount = NoAccount
    Accounts = {ada}
    LoadSlots = {1}
    MaxCalls = 1
    SignIns = {1}
    MaxLines = 2
    PipeSize = 1
    ChannelSize = 1
INVARIANTS
    LinesAreTold
    PanelIsAlive
PROPERTIES
    SessionKept
