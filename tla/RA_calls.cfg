SPECIFICATION Spec
CONSTANTS
    n1 = n1
    n2 = n2
    r1 = r1
    r2 = r2
    r3 = r3
    NoNode = NoNode
    NoRequest = NoRequest
    Nodes = {n1, n2}
    Requests = {r1, r2}
    Kinds = {"set", "conf", "learner", "step"}
    Capacity = 1
    Running = TRUE
    RoutePanics = TRUE
    MaxElections = 2
    MaxCrashes = 1
CHECK_DEADLOCK FALSE
INVARIANTS
    TypeOK
    AppliedIsAnswered
    AnswerAtOneNodeIsForOwnEntry
