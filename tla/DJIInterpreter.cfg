SPECIFICATION Spec
CONSTANTS
    Plans <- MCPlans
    MaxMissions = 2
INVARIANTS
    PausesEnd
    PhotosAtTheirWaypoint
    ConvertsThePlan
