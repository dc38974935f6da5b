CONSTANTS
    r1 = r1
    a = a
    b = b
    c = c
    d = d
    x = x
    None = none
    Commit <- Tree
    Past <- TreePast
    Repo = {r1}
    Parallelism = 1
    DeletionGuard = TRUE
    GuardMinimum = 2
    Foreign <- NothingElsewhere
    UpstreamMay = {"commit", "delete", "restore"}
    FaultKinds = {"state", "omit", "pack", "ref", "remove", "stream", "crash", "swap", "operator"}
    MaxChanges = 2
    MaxFaults = 1
    MaxFrames = 2
SPECIFICATION FairSpec
PROPERTY Converges
