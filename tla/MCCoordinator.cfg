\* Nodes 0 and 2 declare a cache key and may be reused when what they depend on
\* does; node 1 is async and declares none; node 2 is a blocking callable.
SPECIFICATION FairRunSpec
CONSTANTS
    N = 3
    Capacities = {1, 2}
    Topologies <- CompiledGraphs
    Async = {1}
    Cacheable = {0, 2}
    Forced = {}
    MaxFaults = 2
CHECK_DEADLOCK FALSE
INVARIANTS
    RunTypeOK
    SchedulerAgrees
    NoRunnableNodes
    InputsAvailable
    CapacityRespected
    LeaseCoversExecution
    HonestRecord
    EndedRecord
    IdlesOnlyAfterReuse
    UnknownMeansStarted
PROPERTIES
    EvidenceKept
    StopsAdmission
    RunEnds
