CONSTANTS
    w1 = w1
    w2 = w2
    s1 = s1
    s2 = s2
    c1 = c1
    c2 = c2
    t1 = t1
    t2 = t2
    NoTask = NoTask
    Task = {t1, t2}
    Workers = {w1, w2}
    Submitters = {s1, s2}
    Waiters = {c1, c2}
    Overlaps = {{}, {s1}}
SPECIFICATION FairSpec
INVARIANTS TotalExact NoLostWakeup DrainExact IInv
PROPERTIES InitReturns TasksRun WaitReturns ShutdownReturns
CHECK_DEADLOCK FALSE
