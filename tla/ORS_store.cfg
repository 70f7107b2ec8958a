SPECIFICATION Spec
CONSTANTS
    k1 = k1
    k2 = k2
    v1 = v1
    v2 = v2
    Absent = Absent
    Hole = Hole
    Keys = {k1}
    Values = {v1}
    Commands <- MCCommands
    MaxLog = 2
    MaxVote = 1
    MaxCrashes = 1
    MaxFuzz = 0
    PowerLoss = TRUE
    InstallWhileBuilding = FALSE
CHECK_DEADLOCK FALSE
INVARIANTS
    TypeOK
    EverySurvivorRebuilds
    AppliedIsRecoverable
    VoteIsNeverForgotten
    ServesCommittedState
    NeverFails
PROPERTIES
    ImplementsServedMap
