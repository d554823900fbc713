SPECIFICATION LoopFairSpec
CONSTANTS
    Events = {e1, e2, e3}
    MaxPosts = 4
INVARIANTS
    FrontIsInUse
    NoLostWakeup
PROPERTIES
    ImplementsChannel
    PostedIsDispatched
    DestructorReturns
