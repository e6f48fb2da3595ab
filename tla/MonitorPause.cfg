CONSTANTS
    w1 = w1
    w2 = w2
    s1 = s1
    s2 = s2
    m = m
    t1 = t1
    t2 = t2
    t3 = t3
    NoTask = NoTask
    Task = {t1}
    Workers = {w1}
    Submitters = {s1}
    Waiters = {}
    Pausers = {m}
    Cappers = {}
    Monitors = {m}
    Overlapping = {}
    Caps = {0}
    TaskPriority <- OnePriority
    Aging = FALSE
SPECIFICATION FairSpec
PROPERTY DestroyTerminates
CHECK_DEADLOCK FALSE
