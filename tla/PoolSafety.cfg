CONSTANTS
    w1 = w1
    w2 = w2
    s1 = s1
    s2 = s2
    m = m
    t1 = t1
    t2 = t2
    t3 = t3
    NoTask = NoTask
    Task = {t1, t2, t3}
    Workers = {w1, w2}
    Submitters = {s1, s2}
    Waiters = {m}
    Pausers = {m}
    Cappers = {m}
    Monitors = {}
    Overlapping = {s1, s2}
    Caps = {0, 1}
    TaskPriority <- MCPriority
    Aging = TRUE
SPECIFICATION Spec
SYMMETRY Symmetry
INVARIANTS TypeOK TotalExact InFlightExact SubmissionClosed RunsAtMostOnce NothingDropped PauseBound NoLostWakeup OneOwner IInv
PROPERTIES WaitReturnsDrained CapacityRespected
CHECK_DEADLOCK FALSE
