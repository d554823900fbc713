SPECIFICATION FairSpec
CONSTANTS
    vehicle = vehicle
    camera = camera
    Systems = {vehicle, camera}
    Autopilots = {vehicle}
    Methods <- MCMethods
    Via <- MCVia
    Kinds <- MCKinds
    Threaded = {"attitude"}
    MaxLinks = 2
    Retries = 1
    None = None
INVARIANTS
    LinkedIsReady
    CarefulIsSafe
PROPERTIES
    LinkReturns
CHECK_DEADLOCK FALSE
