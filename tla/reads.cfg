\* Three commits on top of the root commit: three levels, one hidden name.
SPECIFICATION Spec
CONSTANTS
    Name = {1, 2, 3}
    HiddenName = {2}
    Content = {a, b}
    NoBlob = NoBlob
    Paths <- MCPaths
    Orders <- MCOrders
    Implicit = {1}
    MaxCommits = 4
    Depths = {1, 2, 9}
    Needles <- MCNeedles
    PerPage = {1, 2}
    Lines <- MCLines
    MaxLines = 3
SYMMETRY Interchangeable
CONSTRAINT NoCheckout
INVARIANTS
    ListingsAgree
    DatedListingsShowTheWindow
    DatesAreTrue
    LogIsWhole
    SeekIsWindow
CHECK_DEADLOCK FALSE
