SPECIFICATION Spec
CONSTANTS
    c1 = c1
    c2 = c2
    c3 = c3
    s1 = s1
    s2 = s2
    s3 = s3
    Conns = {c1}
    Subs = {s1}
    MonThreads = {m1, m2}
    NoThread = NoThread
    None = None
    Workers = 1
    MaxTasks = 1
    MaxSse = 2
    RingSize = 2
    Scenarios <- SilentScenarios
PROPERTY Exits
