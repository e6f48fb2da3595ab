CONSTANTS
    w1 = w1
    w2 = w2
    s1 = s1
    s2 = s2
    m = m
    t1 = t1
    t2 = t2
    t3 = t3
    NoTask = NoTask
    Task = {t1, t2}
    Workers = {w1, w2}
    Submitters = {s1, s2}
    Waiters = {m}
    Pausers = {m}
    Cappers = {}
    Monitors = {}
    Overlapping = {}
    Caps = {0}
    TaskPriority <- OnePriority
    Aging = FALSE
SPECIFICATION FairSpec
PROPERTIES DestroyTerminates WaitReturns TasksRun
CHECK_DEADLOCK FALSE
