\* Three interchangeable repositories, two of them in sync at a time, one
\* change upstream and one fault, from any start.
CONSTANTS
    r1 = r1
    r2 = r2
    r3 = r3
    a = a
    b = b
    c = c
    d = d
    x = x
    None = none
    Commit <- Fork
    Past <- ForkPast
    Repo = {r1, r2, r3}
    Parallelism = 2
    DeletionGuard = TRUE
    GuardMinimum = 2
    Foreign <- NothingElsewhere
    UpstreamMay = {"commit", "delete", "restore"}
    FaultKinds = {"state", "omit", "pack", "ref", "remove", "stream", "crash"}
    MaxChanges = 1
    MaxFaults = 1
    MaxFrames = 2
SPECIFICATION Spec
SYMMETRY Symmetry
INVARIANTS TypeOK HeadIsWhole DeletionsAreJustified
PROPERTIES HistoryOnlyGrows GateOpensCaughtUp
