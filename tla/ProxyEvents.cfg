SPECIFICATION FairSpec
CONSTANTS
    n1 = n1
    n2 = n2
    Plugins = {pl}
    Proxies = {p1, p2}
    Nodes = {n1, n2}
    Parent <- MCParent
    Clients = {c1}
    Loop = Loop
    System = System
    MaxEvents = 2
    Events <- Jobs
    MaxPosts = 2
    None = None
INVARIANTS
    CarefulIsSafe
PROPERTIES
    PostedIsHandled
CHECK_DEADLOCK FALSE
