\* Five commits on top of the root commit: three names, one folder.
SPECIFICATION Spec
CONSTANTS
    Name = {1, 2, 3}
    HiddenName = {2}
    Content = {a, b}
    NoBlob = NoBlob
    Paths <- MCPaths
    Orders <- MCOrders
    Implicit = {1}
    MaxCommits = 6
SYMMETRY Interchangeable
VIEW MCView
INVARIANTS
    TypeOK
    EventsTellTheCommit
    DiskMirrorsHead
PROPERTIES
    OrdersNameToldFiles
    UpkeepKeepsOrder
    ReorderMovesOneEntry
    HistoryRestores
CHECK_DEADLOCK FALSE
