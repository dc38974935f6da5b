\* Three writes, two replays and a loss: the queue always drains, and says
\* what the receiver then holds.
SPECIFICATION FairSpec
CONSTANTS
    Name = {1, 2}
    HiddenName = {2}
    Content = {a, b}
    NoBlob = NoBlob
    Paths <- MCPaths
    Orders <- MCOrders
    Attempts = 2
    Chunk = 1
    MaxCommits = 3
    MaxReplays = 2
    MaxLosses = 1
INVARIANTS
    TypeOK
    ReceiverHoldsHead
PROPERTIES
    QueueDrains
CHECK_DEADLOCK FALSE
