SPECIFICATION FairSpec
CONSTANTS
    n1 = n1
    n2 = n2
    r1 = r1
    r2 = r2
    r3 = r3
    NoNode = NoNode
    NoRequest = NoRequest
    Nodes = {n1, n2}
    Requests = {r1, r2}
    Kinds = {"conf", "learner", "step"}
    Capacity = 1
    Running = FALSE
    RoutePanics = TRUE
    MaxElections = 1
    MaxCrashes = 0
CHECK_DEADLOCK FALSE
PROPERTIES
    EveryCallReturns
