SPECIFICATION RetrySpec
CONSTANTS
    Callers = {job, retry}
    Replayer = retry
    Elsewhere = {other}
    Monitors = {m1, m2}
    MaxRetries = 2
    MaxTokens = 2
    MaxRows = 2
    MaxAuto = 2
    BatchLimit = 1
    MaxInputs = 3
    NoCaller = NoCaller
INVARIANTS SingleFlight QueueAlive
PROPERTIES CallEnds QueuedSettles
