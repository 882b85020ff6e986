SPECIFICATION FairSpec
CONSTANTS
    p1 = p1
    p2 = p2
    p3 = p3
    p4 = p4
    None = None
    Publications = {p1, p2, p3, p4}
    Starts <- MCStarts
    MaxTrouble = 2
    HalRows = 2
    PageSize = 2
    MaxPages = 4
    SparqlRows = 3
    MaxSudoc = 2
INVARIANTS
    DeletionsAreTrue
    EachOnce
    StoredFollowsSource
    SudocLoadIsBounded
PROPERTIES
    RunEnds
CHECK_DEADLOCK FALSE
