SPECIFICATION LiveSpec
CONSTANTS
    MaxTasks = 2
    MaxRetryDepth = 1
    Keys = {ka, kb}
    Registered = {ka}
    Workers = {w1, w2}
    Callers = {c1, c2}
    Cancellers = {x1}
    NoKey = NoKey
    NoWorker = NoWorker
INVARIANTS ExclusiveWhileOwned
PROPERTIES VerdictStable EveryTaskEnds ImplementsSlots
