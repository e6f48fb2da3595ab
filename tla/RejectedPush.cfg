CONSTANTS
    w1 = w1
    w2 = w2
    s1 = s1
    s2 = s2
    m = m
    t1 = t1
    t2 = t2
    t3 = t3
    NoTask = NoTask
    Task = {t1, t2}
    Workers = {w1}
    Submitters = {s1, s2}
    Waiters = {m}
    Pausers = {}
    Cappers = {m}
    Monitors = {}
    Overlapping = {}
    Caps = {1}
    TaskPriority <- OnePriority
    Aging = FALSE
SPECIFICATION FairSpec
PROPERTY WaitReturns
CHECK_DEADLOCK FALSE
