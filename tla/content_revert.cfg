\* A file is deleted, a folder takes its name, and its creation is reverted.
SPECIFICATION Spec
CONSTANTS
    Name = {1, 2, 3}
    HiddenName = {2}
    Content = {a, b}
    NoBlob = NoBlob
    Paths <- MCPaths
    Orders <- MCOrders
    Implicit = {1}
    MaxCommits = 5
SYMMETRY Interchangeable
INVARIANT RevertsAreToldWhole
CHECK_DEADLOCK FALSE
