CONSTANTS
    r1 = r1
    a = a
    b = b
    c = c
    d = d
    x = x
    None = none
    Commit <- Line
    Past <- LinePast
    Repo = {r1}
    Parallelism = 1
    DeletionGuard = TRUE
    GuardMinimum = 2
    Foreign <- NothingElsewhere
    UpstreamMay = {"commit"}
    FaultKinds = {"crash"}
    MaxChanges = 1
    MaxFaults = 1
    MaxFrames = 2
SPECIFICATION Spec
INVARIANT LocksAreNotFastForwards
