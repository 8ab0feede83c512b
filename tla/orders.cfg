SPECIFICATION OrdersSpec
CONSTANTS
    Packages = {p1, p2}
    p1 = p1
    p2 = p2
    Items = {i1, i2}
    i1 = i1
    i2 = i2
    Members <- MCMembers
    OrderOf <- MCOrderOf
    Patches <- MCPatches
    FirstRaw <- MCFirstRaw
    Raws <- MCRaws
    Workbooks <- MCWorkbooks
    EuLists <- MCEuLists
    Editors = {e1}
    Admins = {a1, a2}
    BatchSize = 1
    NoRow = NoRow
    NoValue = NoValue
    MaxInputs = 3
INVARIANTS UnlockedMerged
PROPERTIES SyncKeepsEdits EditsKeepRefresh Converges
