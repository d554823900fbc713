SPECIFICATION FairSpec
CONSTANTS
    MainTasks = {m1, m2}
    SubTasks = {s1, s2}
    NoTask = NoTask
    EventThread = EventThread
    MaxPhotos = 0
    PhotoTaskSupported = TRUE
    SubStartRst = {"SUCCESS"}
PROPERTIES
    FinishedWithSubtaskEnds
    StartMissionReturns
