SPECIFICATION Spec
CONSTANTS
    MainTasks = {m1}
    SubTasks = {s1, s2, s3}
    NoTask = NoTask
    EventThread = EventThread
    MaxPhotos = 2
    PhotoTaskSupported = TRUE
    SubStartRst = {"SUCCESS"}
SYMMETRY Symmetry
INVARIANT NoPhotoEventLeftOver
