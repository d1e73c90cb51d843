CONSTANTS
    Kinds <- MCKinds
    Members <- MCMembers
    Names <- MCNames
    LowerCase <- MCLowerCase
    Titlings <- MCTitlings
    MaxEntries <- MCMaxEntries
SPECIFICATION ItemsSpec
INVARIANTS
    ReadableIsOffered
    CopyReachesItsOwn
    ShortcutsCopyTheirRow
