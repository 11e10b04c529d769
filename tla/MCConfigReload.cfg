CONSTANTS
    t1 = t1
    t2 = t2
    u1 = u1
    u2 = u2
    Bad = Bad
    Garbage = Garbage
    None = None
    Tags <- MCTags
    Users <- MCUsers
    Files <- MCFiles
    StartFile <- MCStart
    NInbounds = 2
    Callers = {c1, c2}
    MaxCalls = 3
    MaxEdits = 2
    FlakyBuilds = TRUE
SPECIFICATION Spec
INVARIANT TypeOK
INVARIANT OneInstance
INVARIANT InstanceKept
INVARIANT RevokedUsersGone
CHECK_DEADLOCK FALSE
SYMMETRY Symmetry
