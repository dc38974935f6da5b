CONSTANTS
    w1 = w1
    w2 = w2
    r1 = r1
    Writer = {w1, w2}
    Reader = {r1}
    Maintenance = maintenance
    Free = free
    Absent = absent
    MaxWrites = 2
    MaxDeletes = 1
    MaxDrops = 1
    MaxFaults = 1
SPECIFICATION Spec
INVARIANT PruneNeedsNoGrace
CHECK_DEADLOCK FALSE
