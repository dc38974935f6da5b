\* One repository, one caller and the periodic timer, under fairness.
CONSTANTS
    Repo = {r1}
    Client = {c1}
    Timer = timer
    Null = Null
    Free = Free
    Gone = Gone
    MaxWrites = 3
    MaxFaults = 2
SPECIFICATION FairSpec
INVARIANTS
    TypeOK
    CompleteIndexOmitsNothing
    NeverRolledBack
PROPERTIES
    CompleteListingsAreVouchedFor
    ForgetsOnlyWhatLeft
    RescanRepairs
CHECK_DEADLOCK FALSE
