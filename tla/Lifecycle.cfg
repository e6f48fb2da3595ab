SPECIFICATION Spec
CONSTANTS
    Owner = owner
    Callers = {owner, c1}
    NumWorkers = 2
    AgingThreads = {a1, a2}
    NoThread = NoThread
INVARIANTS
    JoinsValid
    NothingLeft
    OnePassPerPause
PROPERTIES
    CallsReturn
    AgingGoesOn
