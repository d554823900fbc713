SPECIFICATION FairSpec
CONSTANTS
    Files = {p1, p2}
    Tasks = {t1, t2}
    Link = Link
    Users = {u1}
    NoThread = NoThread
    NoFile = NoFile
    InitAttempts = 2
INVARIANTS
    PostedIsSaved
    NoPhotoForgotten
PROPERTIES
    AskedOnce
    AllAreServed
CHECK_DEADLOCK FALSE
