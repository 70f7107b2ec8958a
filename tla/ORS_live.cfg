SPECIFICATION FairSpec
CONSTANTS
    k1 = k1
    k2 = k2
    v1 = v1
    v2 = v2
    Absent = Absent
    Hole = Hole
    Keys = {k1, k2}
    Values = {v1}
    Commands <- MCTwoKeysDelete
    MaxLog = 3
    MaxVote = 0
    MaxCrashes = 1
    MaxFuzz = 1
    PowerLoss = FALSE
    InstallWhileBuilding = TRUE
CHECK_DEADLOCK FALSE
INVARIANTS
    AcknowledgedEntriesSurvive
    CaughtUpStateIsExact
PROPERTIES
    RestartCompletes
    CommittedIsApplied
