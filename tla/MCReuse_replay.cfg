SPECIFICATION ReuseSpec
CONSTANTS
    N = 2
    MaxRuns = 3
    NoKey = NoKey
    NoRun = NoRun
    Reruns = {{}}
    Plans <- EffectPlans
CHECK_DEADLOCK FALSE
INVARIANTS
    NeverReplayedUnasked
