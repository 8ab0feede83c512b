SPECIFICATION Spec
CONSTANTS
    FirstConfig <- MCFirstConfig
    Patches <- MCPatches
    MaxInputs = 3
    Procs = {all}
    SchedulerProcs = {all}
    ApiProcs = {all}
    Calls = {c1, c2}
    MaxObjects = 4
    NoObject = NoObject
    NoProc = NoProc
    Jobs = {j1, j2}
    Viewers = {v1}
    NoPayload = NoPayload
    Admins = {a1, a2}
INVARIANTS OutdatedIsMarked OneRunning
PROPERTIES ReloadIsEffective MarkIsCleared
