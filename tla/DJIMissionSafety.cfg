SPECIFICATION Spec
CONSTANTS
    Tasks = {t1, t2}
    NoTask = NoTask
    Proxies = {x1}
    NoProxy = NoProxy
    Photos = 1
    Attempts = 2
    MaxQueue = 2
SYMMETRY Symmetry
INVARIANTS
    OrderlyIsSafe
    ActionsPostedOnce
    CompletedMeansSuccess
PROPERTIES
    ImplementsTask
