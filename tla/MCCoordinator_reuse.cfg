SPECIFICATION RunSpec
CONSTANTS
    N = 3
    Capacities = {2}
    Topologies <- CompiledGraphs
    Async = {1}
    Cacheable = {0}
    Forced = {}
    MaxFaults = 0
CHECK_DEADLOCK FALSE
INVARIANT WorkConserving
