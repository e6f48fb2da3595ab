SPECIFICATION Spec
CONSTANTS
    c1 = c1
    c2 = c2
    c3 = c3
    s1 = s1
    s2 = s2
    s3 = s3
    Conns = {c1, c2, c3}
    Subs = {s1, s2, s3}
    MonThreads = {m1, m2}
    NoThread = NoThread
    None = None
    Workers = 1
    MaxTasks = 1
    MaxSse = 2
    RingSize = 2
    Scenarios <- SafetyScenarios
INVARIANTS
    TypeOK
    ChangesAnnounced
    DescriptorsOwned
    RingExact
    OneReader
    PrintsDetached
    StopGoesOn
PROPERTIES
    FrameReachesAll
