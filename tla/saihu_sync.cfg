SPECIFICATION SyncSpec
CONSTANTS
    Runs = {r1, r2}
    Records = {x1, x2}
    MaxStarts = 4
    NoRun = NoRun
SYMMETRY Symmetry
INVARIANTS SuccessMirrors RunningIsLive
