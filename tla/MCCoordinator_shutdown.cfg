\* Node 0 is a blocking callable, node 1 async; every storage call succeeds.
SPECIFICATION RunSpec
CONSTANTS
    N = 2
    Capacities = {2}
    Topologies <- CompiledGraphs
    Async = {1}
    Cacheable = {}
    Forced = {}
    MaxFaults = 0
CHECK_DEADLOCK FALSE
INVARIANT NoThreadReportedStopped
