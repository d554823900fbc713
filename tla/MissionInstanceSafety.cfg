SPECIFICATION Spec
CONSTANTS
    MainTasks = {m1, m2}
    SubTasks = {s1, s2, s3}
    NoTask = NoTask
    EventThread = EventThread
    MaxPhotos = 1
    PhotoTaskSupported = TRUE
    SubStartRst = {"SUCCESS", "FAILED"}
SYMMETRY Symmetry
INVARIANTS
    EntryIsTheTaskAtWork
    StateMatchesEvents
    ClientKnowsTheState
PROPERTIES
    EntryNeverOverwritten
    ImplementsLifecycle
