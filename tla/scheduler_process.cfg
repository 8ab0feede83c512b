SPECIFICATION Spec
CONSTANTS
    FirstConfig <- MCFirstConfig
    Patches <- MCPatches
    MaxInputs = 3
    Procs = {api, sched}
    SchedulerProcs = {sched}
    ApiProcs = {api}
    Calls = {c1, c2}
    MaxObjects = 4
    NoObject = NoObject
    NoProc = NoProc
    Jobs = {j1}
    Viewers = {v1}
    NoPayload = NoPayload
    Admins = {a1}
INVARIANT OnlySchedulerEnqueues
