\* A compiled or refused graph takes no more steps.
SPECIFICATION BuildSpec
CONSTANTS
    N = 3
    Names = {n1, n2, n3}
    MaxBuilders = 2
    Vectors <- AllVectors
SYMMETRY AnyName
CHECK_DEADLOCK FALSE
INVARIANTS
    EdgesMeant
    ReturnsTopology
    RefusesExactlyCycles
    NamesBlockedNodes
