SPECIFICATION Spec
CONSTANTS
    MaxTerm = 2
    MaxLog = 2
    MaxCrashes = 0
    Mines <- MCFollows
    KvTerms = {}
    Snapshots = FALSE
CHECK_DEADLOCK FALSE
INVARIANTS
    HandledIsCommitted
