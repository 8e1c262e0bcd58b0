\* Runs that have ended, or were never begun, take no more steps.
SPECIFICATION ReuseSpec
CONSTANTS
    N = 2
    MaxRuns = 2
    NoKey = NoKey
    NoRun = NoRun
    Reruns = {{}, {0}}
    Plans <- ChangedPlans
CHECK_DEADLOCK FALSE
INVARIANTS
    OutputsFresh
    ReusedVouched
    NoSilentRepeat
    DoneIsNoted
