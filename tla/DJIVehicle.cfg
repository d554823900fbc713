SPECIFICATION FairSpec
CONSTANTS
    Models = {"M210", "M300"}
    M300 = "M300"
    Unknown = "UNKNOWN"
    Kinds <- MCKinds
    Supports <- MCSupports
    MaxLinks = 2
    None = None
INVARIANTS
    LinkedHasItsLinker
    CarefulIsSafe
PROPERTIES
    CallReturns
CHECK_DEADLOCK FALSE
