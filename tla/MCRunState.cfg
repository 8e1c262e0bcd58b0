SPECIFICATION FairSpec
CONSTANTS
    N = 4
    Capacities = {1, 2}
    Topologies <- BackwardGraphs
INVARIANTS
    TypeOK
    CountersExact
    ReadyQueueExact
    RemainingExact
    DependenciesFirst
    FailurePropagated
    NoStall
PROPERTIES
    StatesMoveForward
    ImplementsDagRun
    Terminates
