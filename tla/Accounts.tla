------------------------------ MODULE Accounts ------------------------------
(***************************************************************************)
(* Users, roles, permissions and the permission cache of the API process:  *)
(*   - every request resolves its user and permissions first (api/deps.py, *)
(*     core/permission_cache.py);                                          *)
(*   - the handlers that change users (api/auth_users.py, api/auth.py) and *)
(*     roles (api/auth_roles.py);                                          *)
(*   - the registry of permissions, written at the start of the process    *)
(*     (core/permission_sync.py).                                          *)
(*                                                                         *)
(* Requests overlap: a request is a transaction under READ COMMITTED whose *)
(* reads and writes are separate steps.  A password is nothing but the     *)
(* version its change adds to; failed logins are not modelled.             *)
(***************************************************************************)
EXTENDS Inputs, Sequences

CONSTANTS
    Requests,     \* requests under way at a time
    Users,        \* ids of sys_user
    Roles, Super, \* ids of role; the built-in role of superadmins
    Codes,        \* permission codes, all of them registered at first
    ViewOf,       \* the view code of a code's namespace when it depends on one
    NoCode,       \* ... and what stands for none
    Registries,   \* the sets of codes a release of the program may register
    CodeSets,     \* what an administrator may save as a role's permissions
    FirstUsers,   \* the tables of users to start from
    FirstPerms,   \* the permissions of each role at first
    CacheSize,    \* InMemoryPermissionCache maxsize
    NoUser, Gone  \* an id not used yet; one whose user was deleted

\* A row of sys_user, as far as it plays a part.
UserRow == [role : Roles, is_active : BOOLEAN, version : Nat]

(* The roles start with their views, the table of users with an active      *)
(* superadmin (seeded with the tables).  A view depends on nothing else,     *)
(* and a release that registers an action registers its view, too.          *)
ASSUME AccountsAssumption ==
    /\ Super \in Roles /\ CacheSize \in Nat
    /\ NoUser \notin UserRow /\ Gone \notin UserRow /\ NoUser # Gone
    /\ {"auth:view", "auth:manage"} \subseteq Codes
    /\ ViewOf \in [Codes -> Codes \cup {NoCode}] /\ NoCode \notin Codes
    /\ \A c \in Codes : ViewOf[c] # NoCode => ViewOf[ViewOf[c]] = NoCode
    /\ \A registry \in Registries :
          registry \subseteq Codes /\ \A c \in registry : ViewOf[c] \in registry \cup {NoCode}
    /\ \A first \in FirstUsers :
          /\ first \in [Users -> UserRow \cup {NoUser}]
          /\ \E u \in Users : first[u] # NoUser /\ first[u].role = Super /\ first[u].is_active
    /\ \A r \in DOMAIN FirstPerms :
          FirstPerms[r] \subseteq Codes /\ \A c \in FirstPerms[r] : ViewOf[c] \in FirstPerms[r] \cup {NoCode}

VARIABLES
    users,        \* sys_user: role, is_active and perm_version
    roles,        \* role: the ids not used yet, live, gone
    perms,        \* role_permission
    active,       \* the codes of permission that are active
    cache,        \* the entries of perm_cache, least recently used first
    token,        \* the version in the token each user holds
    request,      \* the requests
    joined,       \* history: users put into a role while it was being changed, and
                  \* those there are when another process changes the registry
    crossed       \* history: did two removals of superadmins overlap?

accountsVars == <<users, roles, perms, active, cache, token, request, joined, crossed, used>>

Vacant == [pc |-> "idle"]
Live(u) == users[u] # NoUser /\ users[u] # Gone
LiveRole(r) == roles[r] = "live"
RoleOf(u) == users[u].role
IsSuper(u) == Live(u) /\ RoleOf(u) = Super
Superadmins == {u \in Users : IsSuper(u) /\ users[u].is_active}

AccountsInit ==
    /\ users \in FirstUsers
    /\ roles = [r \in Roles |-> IF r \in DOMAIN FirstPerms THEN "live" ELSE "new"]
    /\ perms = [r \in Roles |-> IF r \in DOMAIN FirstPerms THEN FirstPerms[r] ELSE {}]
    /\ active = Codes
    /\ cache = <<>>
    /\ token = [u \in Users |-> 0]
    /\ request = [q \in Requests |-> Vacant]
    /\ joined = {} /\ crossed = FALSE /\ used = 0

-----------------------------------------------------------------------------
(* Who is asking, and what for: get_current_user, get_current_permissions. *)

CodesOf(r) == perms[r] \cap active

\* The operations, with the code each one requires.
UserOps ==
    [op : {"create_user", "update_user"}, target : Users, role : Roles, need : {"auth:manage"}]
    \cup [op : {"delete_user", "reset_password"}, target : Users, need : {"auth:manage"}]
    \cup [op : {"toggle_user_status"}, target : Users, is_active : BOOLEAN, need : {"auth:manage"}]
    \cup [op : {"change_own_password"}, need : {NoCode}]
RoleOps ==
    [op : {"create_role", "delete_role"}, role : Roles, need : {"auth:manage"}]
    \cup [op : {"update_role_permissions"}, role : Roles, codes : CodeSets, need : {"auth:manage"}]
ViewOp == [op |-> "view", need |-> "auth:view"]

\* The request goes on to its handler, or is refused; a view ends there.
Authorised(q, codes) ==
    request' = [request EXCEPT ![q] =
        IF @.o.op = "view" \/ (@.o.need # NoCode /\ @.o.need \notin codes)
        THEN Vacant ELSE [pc |-> "handler", by |-> @.by, o |-> @.o]]

\* The token carries the version of the row, the user is active.
Accepted(u) == Live(u) /\ users[u].is_active /\ token[u] = users[u].version

get_current_user(q, u, o) ==
    /\ request[q].pc = "idle"
    /\ Accepted(u)
    /\ request' = [request EXCEPT ![q] =
         IF o.need = NoCode \/ (IsSuper(u) /\ o # ViewOp) THEN [pc |-> "handler", by |-> u, o |-> o]
         ELSE IF IsSuper(u) THEN Vacant
         ELSE [pc |-> "lookup", by |-> u, o |-> o, role |-> RoleOf(u), version |-> users[u].version]]
    /\ UNCHANGED <<users, roles, perms, active, cache, token, joined, crossed>>

EntryOf(u) == {i \in DOMAIN cache : cache[i].user = u}

\* A user has one entry at most.
Others(u) ==
    IF EntryOf(u) = {} THEN cache
    ELSE LET i == CHOOSE i \in EntryOf(u) : TRUE
         IN  SubSeq(cache, 1, i - 1) \o SubSeq(cache, i + 1, Len(cache))

\* perm_cache.get: an entry of another version is a miss, a hit is moved to the end.
CacheGet(q) ==
    /\ request[q].pc = "lookup"
    /\ LET hit == {i \in EntryOf(request[q].by) : cache[i].version = request[q].version}
       IN  IF hit = {}
           THEN /\ request' = [request EXCEPT ![q] =
                     [pc |-> "query", by |-> @.by, o |-> @.o, role |-> @.role, version |-> @.version]]
                /\ UNCHANGED cache
           ELSE LET i == CHOOSE i \in hit : TRUE
                IN  cache' = Append(Others(request[q].by), cache[i]) /\ Authorised(q, cache[i].perms)
    /\ UNCHANGED <<users, roles, perms, active, token, joined, crossed, used>>

\* The role is the one read with the version, its permissions are those of now.
QueryPermissions(q) ==
    /\ request[q].pc = "query"
    /\ request' = [request EXCEPT ![q] =
         [pc |-> "set", by |-> @.by, o |-> @.o, version |-> @.version, perms |-> CodesOf(@.role)]]
    /\ UNCHANGED <<users, roles, perms, active, cache, token, joined, crossed, used>>

CacheSet(q) ==
    /\ request[q].pc = "set"
    /\ LET entry == [user |-> request[q].by, version |-> request[q].version, perms |-> request[q].perms]
           all == Append(Others(request[q].by), entry)
       IN  cache' = SubSeq(all, Len(all) - (IF Len(all) > CacheSize THEN CacheSize ELSE Len(all)) + 1, Len(all))
    /\ Authorised(q, request[q].perms)
    /\ UNCHANGED <<users, roles, perms, active, token, joined, crossed, used>>

\* Login reads the row and commits; the token carries the version it has read.
LoginRead(q, u) ==
    /\ request[q].pc = "idle"
    /\ Live(u) /\ users[u].is_active /\ token[u] # users[u].version
    /\ request' = [request EXCEPT ![q] = [pc |-> "login", by |-> u, version |-> users[u].version]]
    /\ UNCHANGED <<users, roles, perms, active, cache, token, joined, crossed, used>>

LoginIssue(q) ==
    /\ request[q].pc = "login"
    /\ token' = [token EXCEPT ![request[q].by] = request[q].version]
    /\ request' = [request EXCEPT ![q] = Vacant]
    /\ UNCHANGED <<users, roles, perms, active, cache, joined, crossed, used>>

-----------------------------------------------------------------------------
(* The handlers that change a user: first their reads and checks ... *)

\* As if disabled accounts counted as well.
CheckAnySuperadmin(u) == \E v \in Users \ {u} : IsSuper(v)

check_last_superadmin(u) == Superadmins \ {u} # {}

TargetOf(q) == IF request[q].o.op = "change_own_password" THEN request[q].by ELSE request[q].o.target

\* The user and the role are there, the name of a new user is not.
Effective(q) ==
    LET o == request[q].o
    IN  /\ IF o.op = "create_user" THEN users[TargetOf(q)] = NoUser ELSE Live(TargetOf(q))
        /\ o.op \in {"create_user", "update_user"} => LiveRole(o.role)

\* A superadmin would no longer be one, or not be able to log in.
Removes(o) ==
    \/ o.op = "delete_user"
    \/ o.op = "update_user" /\ o.role # Super
    \/ o.op = "toggle_user_status" /\ ~o.is_active

\* Not refused by the handler's reads; FALSE also where there is nothing to write.
Allowed(q) ==
    LET o == request[q].o
        t == TargetOf(q)
    IN  /\ Effective(q)
        /\ o.op = "update_user" => o.role # RoleOf(t)
        /\ Removes(o) /\ o.op # "update_user" => t # request[q].by
        /\ Removes(o) /\ IsSuper(t) => check_last_superadmin(t)

UserRead(q) ==
    /\ request[q].pc = "handler" /\ request[q].o \in UserOps
    /\ request' = [request EXCEPT ![q] =
         IF Allowed(q) THEN [pc |-> "write", by |-> @.by, o |-> @.o, late |-> FALSE] ELSE Vacant]
    /\ UNCHANGED <<users, roles, perms, active, cache, token, joined, crossed, used>>

\* ... then the write, which adds to the version whatever it has become.
Bumped(row) == [row EXCEPT !.version = @ + 1]

Written(o, row) ==
    IF o.op = "create_user" THEN [role |-> o.role, is_active |-> TRUE, version |-> 0]
    ELSE IF o.op = "delete_user" THEN Gone
    ELSE [role |-> IF o.op = "update_user" THEN o.role ELSE row.role,
          is_active |-> IF o.op = "toggle_user_status" THEN o.is_active ELSE row.is_active,
          version |-> row.version + 1]

\* The rows a change of permissions has updated and not committed yet.
Locked == UNION {request[q].bump : q \in {p \in Requests : request[p].pc = "bumped"}}

\* A change of the role's permissions, other than that of q, waits for its commit.
Changing(r, q) ==
    \E p \in Requests \ {q} : request[p].pc = "bumped" /\ request[p].o.role = r

\* A user that has left is not updated; a role that has left is a foreign-key error.
UserWrite(q) ==
    LET t == TargetOf(q)
        table == IF Effective(q) THEN [users EXCEPT ![t] = Written(request[q].o, @)] ELSE users
        lost == t \in Superadmins /\ ~(table[t] # Gone /\ table[t].role = Super /\ table[t].is_active)
        missed == table[t] # Gone /\ Changing(table[t].role, q)
    IN  /\ request[q].pc = "write"
        /\ t \notin Locked
        /\ users' = table
        /\ joined' = IF ~Effective(q) THEN joined
                     ELSE IF missed THEN joined \cup {t} ELSE joined \ {t}
        /\ crossed' = (crossed \/ (lost /\ request[q].late))
        /\ request' = [p \in Requests |->
             IF p = q THEN Vacant
             ELSE IF lost /\ request[p].pc = "write"
             THEN [pc |-> "write", by |-> request[p].by, o |-> request[p].o, late |-> TRUE] ELSE request[p]]
        /\ UNCHANGED <<roles, perms, active, cache, token, used>>

-----------------------------------------------------------------------------
(* The handlers that change a role. *)

create_role(q) ==
    /\ request[q].pc = "handler" /\ request[q].o.op = "create_role"
    /\ roles' = [roles EXCEPT ![request[q].o.role] = IF @ = "new" THEN "live" ELSE @]
    /\ request' = [request EXCEPT ![q] = Vacant]
    /\ UNCHANGED <<users, perms, active, cache, token, joined, crossed, used>>

UsersOf(r) == {u \in Users : Live(u) /\ RoleOf(u) = r}

DeleteRoleRead(q) ==
    /\ request[q].pc = "handler" /\ request[q].o.op = "delete_role"
    /\ LET r == request[q].o.role
       IN  request' = [request EXCEPT ![q] =
             IF LiveRole(r) /\ r # Super /\ UsersOf(r) = {}
             THEN [pc |-> "drop", by |-> @.by, o |-> @.o] ELSE Vacant]
    /\ UNCHANGED <<users, roles, perms, active, cache, token, joined, crossed, used>>

\* The rows of role_permission go with the role; a user that came in between
\* keeps it (ondelete RESTRICT), and so does a change of its permissions.
DeleteRole(q) ==
    LET r == request[q].o.role
    IN  /\ request[q].pc = "drop"
        /\ \A p \in Requests : request[p].pc = "bumped" => request[p].o.role # r
        /\ IF UsersOf(r) = {}
           THEN roles' = [roles EXCEPT ![r] = "gone"] /\ perms' = [perms EXCEPT ![r] = {}]
           ELSE UNCHANGED <<roles, perms>>
        /\ request' = [request EXCEPT ![q] = Vacant]
        /\ UNCHANGED <<users, active, cache, token, joined, crossed, used>>

\* core/permissions.py: an action brings the view of its namespace, if there is one.
expand_permission_dependencies(codes, available) ==
    codes \cup ({ViewOf[c] : c \in codes} \cap available)

\* update_role_permissions: what is there, and what to put in its place.
RolePermissionsRead(q) ==
    /\ request[q].pc = "handler" /\ request[q].o.op = "update_role_permissions"
    /\ LET r == request[q].o.role
           new == expand_permission_dependencies(request[q].o.codes, active)
       IN  request' = [request EXCEPT ![q] =
             IF LiveRole(r) /\ r # Super /\ new \subseteq active /\ new # CodesOf(r)
             THEN [pc |-> "delete", by |-> @.by, o |-> @.o, new |-> new] ELSE Vacant]
    /\ UNCHANGED <<users, roles, perms, active, cache, token, joined, crossed, used>>

\* The DELETE sees the rows that are committed when it starts.
RolePermissionsDelete(q) ==
    /\ request[q].pc = "delete"
    /\ request' = [request EXCEPT ![q] =
         [pc |-> "insert", by |-> @.by, o |-> @.o, new |-> @.new, del |-> perms[@.o.role]]]
    /\ UNCHANGED <<users, roles, perms, active, cache, token, joined, crossed, used>>

\* Two transactions on one row of role_permission: the second waits.
Waits(q) ==
    \E p \in Requests \ {q} :
        /\ request[p].pc = "bumped"
        /\ request[p].o.role = request[q].o.role
        /\ \/ request[p].del \cap request[q].del # {}
           \/ request[p].new \cap request[q].new # {}
           \/ request[p].bump # {}

\* A row that another change has put there is a duplicate key; a role that has
\* left is a foreign-key error.
InsertFails(q) ==
    LET r == request[q].o.role
    IN  \/ request[q].new \cap (perms[r] \ request[q].del) # {}
        \/ request[q].new # {} /\ ~LiveRole(r)

\* The rows are flushed, then the versions of the role's users are added to.
RolePermissionsInsert(q) ==
    /\ request[q].pc = "insert"
    /\ ~Waits(q)
    /\ request' = [request EXCEPT ![q] =
         IF InsertFails(q) THEN Vacant
         ELSE [pc |-> "bumped", by |-> @.by, o |-> @.o, new |-> @.new, del |-> @.del, bump |-> UsersOf(@.o.role)]]
    /\ UNCHANGED <<users, roles, perms, active, cache, token, joined, crossed, used>>

\* As if a DELETE went for the codes it saw, whoever has put them there since.
CommittedByCode(q) == [request EXCEPT ![q] = Vacant]

\* The requests after the commit of q: rows it has deleted are no longer there for
\* another DELETE, and the rows it has put in their place are not those that one saw.
Committed(q) ==
    [p \in Requests |->
        IF p = q THEN Vacant
        ELSE IF request[p].pc = "insert" /\ request[p].o.role = request[q].o.role
        THEN [pc |-> "insert", by |-> request[p].by, o |-> request[p].o, new |-> request[p].new,
              del |-> request[p].del \ request[q].del]
        ELSE request[p]]

\* As if only the permissions were saved, and no version added to.
CommitKeepsVersions(q) ==
    /\ request[q].pc = "bumped"
    /\ perms' = [perms EXCEPT ![request[q].o.role] = (@ \ request[q].del) \cup request[q].new]
    /\ joined' = joined \ request[q].bump
    /\ request' = Committed(q)
    /\ UNCHANGED <<users, roles, active, cache, token, crossed, used>>

RolePermissionsCommit(q) ==
    /\ request[q].pc = "bumped"
    /\ perms' = [perms EXCEPT ![request[q].o.role] = (@ \ request[q].del) \cup request[q].new]
    /\ users' = [u \in Users |-> IF u \in request[q].bump THEN Bumped(users[u]) ELSE users[u]]
    /\ joined' = IF Changing(request[q].o.role, q) THEN joined \cup request[q].bump
                 ELSE joined \ request[q].bump
    /\ request' = Committed(q)
    /\ UNCHANGED <<roles, active, cache, token, crossed, used>>

-----------------------------------------------------------------------------
(* A release: every process registers its codes when it starts. *)

\* The process that serves the requests starts again; its cache is empty.
sync_permissions(registry) ==
    /\ Input
    /\ active' = registry
    /\ cache' = <<>>
    /\ request' = [q \in Requests |-> Vacant]
    /\ joined' = {}
    /\ UNCHANGED <<users, roles, perms, token, crossed>>

\* The worker or the scheduler starts; this process keeps its cache and its requests.
SyncedElsewhere(registry) ==
    /\ Input
    /\ active' = registry
    /\ joined' = IF registry = active THEN joined ELSE Users
    /\ UNCHANGED <<users, roles, perms, cache, token, request, crossed>>

Request(q, u) ==
    \/ get_current_user(q, u, ViewOp) /\ UNCHANGED used
    \/ \E o \in UserOps \cup RoleOps : get_current_user(q, u, o) /\ Input

Handle(q) ==
    \/ CacheGet(q) \/ QueryPermissions(q) \/ CacheSet(q)
    \/ LoginIssue(q)
    \/ UserRead(q) \/ UserWrite(q)
    \/ create_role(q) \/ DeleteRoleRead(q) \/ DeleteRole(q)
    \/ RolePermissionsRead(q) \/ RolePermissionsDelete(q)
    \/ RolePermissionsInsert(q) \/ RolePermissionsCommit(q)

AccountsNext ==
    \/ \E q \in Requests : Handle(q)
    \/ \E q \in Requests, u \in Users : LoginRead(q, u) \/ Request(q, u)
    \/ \E registry \in Registries : sync_permissions(registry) \/ SyncedElsewhere(registry)

AccountsSpec == AccountsInit /\ [][AccountsNext]_accountsVars

-----------------------------------------------------------------------------

(* What the cache holds under a user's present version is what the database *)
(* grants: however requests, changes of roles and moves of users overlap.   *)
(* Two races are left out by name: a user put into a role whose change was  *)
(* not committed yet, and the start of another process with other codes,    *)
(* which adds to no version                                                 *)
(* (deps.py get_current_permissions, the perm_version of every change).     *)
CacheCurrent ==
    \A i \in DOMAIN cache :
        LET u == cache[i].user
        IN  (Live(u) /\ cache[i].version = users[u].version /\ u \notin joined)
                => cache[i].perms = CodesOf(RoleOf(u))

(* An active superadmin is left, unless a check was overtaken by another    *)
(* removal of a superadmin (auth_users.py _check_last_superadmin).          *)
SuperadminKept == Superadmins # {} \/ crossed

(* A role that may act may view: saved permissions are closed under the     *)
(* dependency, even when two changes of a role end up merged                *)
(* (auth_roles.py update_role_permissions, permissions.py).                 *)
PermissionsClosed ==
    \A r \in Roles : \A c \in perms[r] : ViewOf[c] # NoCode => ViewOf[c] \in perms[r]

=============================================================================
