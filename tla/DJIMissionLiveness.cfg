SPECIFICATION FairSpec
CONSTANTS
    Tasks = {t1, t2}
    NoTask = NoTask
    Proxies = {x1, x2}
    NoProxy = NoProxy
    Photos = 0
    Attempts = 1
    MaxQueue = 2
PROPERTIES
    MissionEnds
    OrderlyStartReturns
    CallbackReturns
