SPECIFICATION FairSpec
CONSTANTS
    Tasks = {t1, t2}
    NoTask = NoTask
    Plans = {p1, p2}
INVARIANTS
    FinishedMeansLanded
    PatientClientIsSafe
PROPERTIES
    ImplementsTask
    MissionEnds
    PatientStartReturns
