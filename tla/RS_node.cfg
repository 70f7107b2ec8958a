SPECIFICATION FairSpec
CONSTANTS
    MaxTerm = 2
    MaxLog = 2
    MaxCrashes = 1
    Mines <- MCFollowsOrLeadsFirst
    KvTerms = {2}
    Snapshots = TRUE
CHECK_DEADLOCK FALSE
INVARIANTS
    TypeOK
    NeverFails
    StoredLogIsALeaders
    AckedIsStored
    StoredLogIsTheCores
    StoredCommitIsCommitted
    HandledIsCommittedIfSound
    AppendFollowsStored
PROPERTIES
    CommittedIsHandled
