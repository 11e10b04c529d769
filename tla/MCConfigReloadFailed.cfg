CONSTANTS
    t1 = t1
    t2 = t2
    u1 = u1
    u2 = u2
    Bad = Bad
    Garbage = Garbage
    None = None
    Tags <- MCTags
    Users <- MCUsers
    Files <- MCFiles
    StartFile <- MCStart
    NInbounds = 2
    Callers = {}
    MaxCalls = 0
    MaxEdits = 1
    FlakyBuilds = FALSE
SPECIFICATION Spec
INVARIANT FailedApplyKeeps
CHECK_DEADLOCK FALSE
