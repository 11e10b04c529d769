CONSTANTS
    N = 2
    MaxFailures = 1
    Latencies = {10}
    NeverProbed = 99
    FailCap = 1
    Callers = {c1, c2}
    Strategies = {"latency", "roundRobin", "random", "adaptive"}
    RRWrap = 2
    Scores = {0, 2}
    SwitchMargin = 1
    FailureThreshold = 1
    None = None
SPECIFICATION Spec
SYMMETRY Symmetry
INVARIANT TypeOK
INVARIANT DeadSkipped
INVARIANT LowestLatency
INVARIANT ErrorOnlyIfRaced
PROPERTY CooldownAvoided
