SPECIFICATION FairSpec
CONSTANTS
    Keys = {1, 2, 3}
    Prefixes <- MCPrefixes
    v1 = v1
    v2 = v2
    Values = {v1, v2}
    Absent = Absent
    MaxWrites = 2
    MaxCrashes = 2
INVARIANTS
    TypeOK
    ScanIsOneMoment
PROPERTIES
    StartComesUp
