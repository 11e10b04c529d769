CONSTANTS
    N = 2
    MaxFailures = 2
    Latencies = {10}
    NeverProbed = 99
    FailCap = 3
SPECIFICATION FairHealthSpec
INVARIANT HealthTypeOK
INVARIANT DeadIffFailing
PROPERTY WorkingSeenAlive
PROPERTY BrokenSeenDead
