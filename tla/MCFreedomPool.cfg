CONSTANTS
    Tasks = {c1, c2}
    Dests = {a1, a2}
    Pools = {p1, p2, p3}
    Slots = {s1, s2}
    MaxPerDest = 1
    MaxGlobalIdle = 2
    MaxDests = 1
    MinHotness = 1
    DebtBound = 1
    None = None
SPECIFICATION BoundedSpec
SYMMETRY Symmetry
INVARIANT TypeOK
INVARIANT InFlightExact
INVARIANT QueueBound
INVARIANT BudgetBound
INVARIANT BudgetExact
CHECK_DEADLOCK FALSE
