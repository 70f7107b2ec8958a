SPECIFICATION FairSpec
CONSTANTS
    Nodes = {1, 2, 3}
    Confs <- MCConfs
    HttpNode = 3
    MaxFaults = 1
    MaxLosses = 1
    MaxStops = 1
CHECK_DEADLOCK FALSE
INVARIANTS
    TypeOK
    OneCluster
PROPERTIES
    EveryNodeJoins
