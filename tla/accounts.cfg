SPECIFICATION AccountsSpec
CONSTANTS
    Requests = {q1, q2}
    Users = {u1, u2, u3}
    u1 = u1
    u2 = u2
    u3 = u3
    Roles = {r0, r1, r2}
    r0 = r0
    r1 = r1
    r2 = r2
    Super = r0
    Codes <- MCCodes
    ViewOf <- MCViewOf
    NoCode = NoCode
    Registries <- MCRegistries
    CodeSets <- MCCodeSets
    FirstUsers <- MCFirstUsers
    FirstPerms <- MCFirstPerms
    CacheSize = 1
    NoUser = NoUser
    Gone = Gone
    MaxInputs = 2
INVARIANTS CacheCurrent SuperadminKept PermissionsClosed
SYMMETRY Symmetry
