CONSTANTS
    w1 = w1
    w2 = w2
    r1 = r1
    Writer = {w1, w2}
    Reader = {r1}
    Maintenance = maintenance
    Free = free
    Absent = absent
    MaxWrites = 2
    MaxDeletes = 1
    MaxDrops = 1
    MaxFaults = 1
SPECIFICATION FairSpec
INVARIANTS TypeOK NothingReachableIsLost EveryCommitIsTold ReadsFailOnlyByDeletion
PROPERTIES ImplementsTenantLog WritesGetPacked
CHECK_DEADLOCK FALSE
