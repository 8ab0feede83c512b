----------------------------- MODULE AccountsProofs --------------------------
(***************************************************************************)
(* Accounts for any number of users, roles, codes and overlapping          *)
(* requests: a superadmin is left, permissions stay closed under the       *)
(* dependency on views, the permission cache is current.                   *)
(***************************************************************************)
EXTENDS Accounts, TLAPS

\* Most steps are first-order reasoning; those that need arithmetic or
\* updates of functions and records cite SMT.
USE Zenon

Pc(q) == request[q].pc
Ops == UserOps \cup RoleOps

\* What a request carries, as far as it is under way.
RequestOK(x) ==
    /\ x.pc \in {"lookup", "query", "set", "handler", "write"} => x.by \in Users
    /\ x.pc \in {"lookup", "query", "set"} => x.o \in Ops \cup {ViewOp}
    /\ x.pc = "handler" => x.o \in Ops
    /\ x.pc = "write" => x.o \in UserOps /\ x.late \in BOOLEAN
    /\ x.pc \in {"delete", "insert", "bumped", "drop"} => x.o.role \in Roles

\* The rows a change of permissions has updated are the role's users: they are locked.
RowsOK(x) == x.pc = "bumped" => x.bump \subseteq UsersOf(x.o.role)

Typed ==
    /\ users = [u \in Users |-> users[u]]
    /\ \A u \in Users : users[u] \in UserRow \cup {NoUser, Gone}
    /\ request = [q \in Requests |-> request[q]]
    /\ \A q \in Requests : RequestOK(request[q]) /\ RowsOK(request[q])

\* The user a handler writes.
LEMMA TargetIsUser ==
    ASSUME Typed, NEW q \in Requests, Pc(q) = "write"
    PROVE  TargetOf(q) \in Users
  <1>1. request[q].o \in UserOps /\ request[q].by \in Users
    BY DEF Typed, RequestOK, Pc
  <1> QED
    BY <1>1 DEF TargetOf, UserOps

\* The operations, by their names.
LEMMA OpFields ==
    ASSUME NEW o \in UserOps
    PROVE  /\ o.op \in {"create_user", "update_user"} => o.role \in Roles
           /\ o.op = "toggle_user_status" => o.is_active \in BOOLEAN
           /\ o.op # "view"
  BY DEF UserOps

\* The row a write leaves behind.
LEMMA WrittenIsRow ==
    ASSUME Typed, NEW q \in Requests, Pc(q) = "write", Effective(q)
    PROVE  Written(request[q].o, users[TargetOf(q)]) \in UserRow \cup {Gone}
  <1> DEFINE o == request[q].o
             old == users[TargetOf(q)]
  <1>1. o \in UserOps /\ old \in UserRow \cup {NoUser, Gone}
    BY TargetIsUser DEF Typed, RequestOK, Pc
  <1>2. o.op # "create_user" => old.role \in Roles /\ old.is_active \in BOOLEAN /\ old.version \in Nat
    BY <1>1 DEF Effective, Live, UserRow
  <1> HIDE DEF o, old
  <1>3. Written(o, old) \in UserRow \cup {Gone}
    BY SMT, <1>1, <1>2, OpFields DEF Written, UserRow
  <1> QED
    BY <1>3 DEF o, old

\* One request goes on.
LEMMA OneRequest ==
    ASSUME Typed, NEW q \in Requests, NEW x, RequestOK(x), RowsOK(x),
           request' = [request EXCEPT ![q] = x],
           UNCHANGED users
    PROVE  Typed'
  BY DEF Typed, RowsOK, UsersOf, Live, RoleOf

\* The steps before a handler's work.
LEMMA ResolvingTyped ==
    ASSUME Typed, NEW q \in Requests,
           CacheGet(q) \/ QueryPermissions(q) \/ CacheSet(q) \/ LoginIssue(q)
    PROVE  Typed'
  <1> DEFINE old == request[q]
  <1>0. RequestOK(old) /\ RequestOK(Vacant) /\ RowsOK(Vacant)
    BY DEF Typed, RequestOK, RowsOK, Vacant
  <1>1. ASSUME old.pc \in {"lookup", "set"}, NEW codes, Authorised(q, codes), UNCHANGED users
        PROVE  Typed'
    <2> DEFINE x == IF old.o.op = "view" \/ (old.o.need # NoCode /\ old.o.need \notin codes)
                    THEN Vacant ELSE [pc |-> "handler", by |-> old.by, o |-> old.o]
    <2>1. RequestOK(x) /\ RowsOK(x)
      BY SMT, <1>0, <1>1 DEF RequestOK, RowsOK, ViewOp
    <2>2. request' = [request EXCEPT ![q] = x]
      BY <1>1 DEF Authorised
    <2> HIDE DEF x
    <2> QED
      BY <2>1, <2>2, <1>1, OneRequest
  <1>2. CASE CacheGet(q)
    <2> DEFINE x == [pc |-> "query", by |-> old.by, o |-> old.o, role |-> old.role, version |-> old.version]
    <2>1. CASE request' = [request EXCEPT ![q] = x]
      <3>1. RequestOK(x) /\ RowsOK(x)
        BY <1>0, <1>2 DEF RequestOK, RowsOK, CacheGet
      <3> HIDE DEF x
      <3> QED
        BY <3>1, <1>2, <2>1, OneRequest DEF CacheGet
    <2>2. CASE \E codes : Authorised(q, codes)
      BY <1>1, <1>2, <2>2 DEF CacheGet
    <2> QED
      BY <1>2, <2>1, <2>2 DEF CacheGet
  <1>3. CASE QueryPermissions(q)
    <2> DEFINE x == [pc |-> "set", by |-> old.by, o |-> old.o, version |-> old.version,
                     perms |-> CodesOf(old.role)]
    <2>1. RequestOK(x) /\ RowsOK(x)
      BY <1>0, <1>3 DEF RequestOK, RowsOK, QueryPermissions
    <2>2. request' = [request EXCEPT ![q] = x] /\ UNCHANGED users
      BY <1>3 DEF QueryPermissions
    <2> HIDE DEF x
    <2> QED
      BY <2>1, <2>2, OneRequest
  <1>4. CASE CacheSet(q)
    BY <1>1, <1>4 DEF CacheSet
  <1>5. CASE LoginIssue(q)
    BY <1>0, <1>5, OneRequest DEF LoginIssue
  <1> QED
    BY <1>2, <1>3, <1>4, <1>5

\* The handlers' steps but those that write users.
LEMMA HandlerTyped ==
    ASSUME Typed, NEW q \in Requests,
           \/ UserRead(q) \/ create_role(q) \/ DeleteRoleRead(q) \/ DeleteRole(q)
           \/ RolePermissionsRead(q) \/ RolePermissionsDelete(q) \/ RolePermissionsInsert(q)
    PROVE  Typed'
  <1> DEFINE old == request[q]
  <1>0. RequestOK(old) /\ RequestOK(Vacant) /\ RowsOK(Vacant)
    BY DEF Typed, RequestOK, RowsOK, Vacant
  <1>1. CASE create_role(q) \/ DeleteRole(q)
    BY <1>0, <1>1, OneRequest DEF create_role, DeleteRole
  <1>2. CASE UserRead(q)
    <2> DEFINE x == [pc |-> "write", by |-> old.by, o |-> old.o, late |-> FALSE]
    <2>1. RequestOK(x) /\ RowsOK(x)
      BY <1>0, <1>2 DEF RequestOK, RowsOK, UserRead
    <2>2. request' = [request EXCEPT ![q] = IF Allowed(q) THEN x ELSE Vacant] /\ UNCHANGED users
      BY <1>2 DEF UserRead
    <2> HIDE DEF x
    <2> QED
      BY <1>0, <2>1, <2>2, OneRequest
  <1>3. CASE DeleteRoleRead(q)
    <2> DEFINE x == [pc |-> "drop", by |-> old.by, o |-> old.o]
    <2>1. old.o.role \in Roles
      BY <1>0, <1>3 DEF RequestOK, DeleteRoleRead, Ops, UserOps, RoleOps
    <2>2. RequestOK(x) /\ RowsOK(x)
      BY <2>1 DEF RequestOK, RowsOK
    <2>3. (request' = [request EXCEPT ![q] = x] \/ request' = [request EXCEPT ![q] = Vacant]) /\ UNCHANGED users
      BY <1>3 DEF DeleteRoleRead
    <2> HIDE DEF x
    <2> QED
      BY <1>0, <2>2, <2>3, OneRequest
  <1>4. CASE RolePermissionsRead(q)
    <2> DEFINE x == [pc |-> "delete", by |-> old.by, o |-> old.o,
                     new |-> expand_permission_dependencies(old.o.codes, active)]
    <2>1. old.o.role \in Roles
      BY <1>0, <1>4 DEF RequestOK, RolePermissionsRead, Ops, UserOps, RoleOps
    <2>2. RequestOK(x) /\ RowsOK(x)
      BY <2>1 DEF RequestOK, RowsOK
    <2>3. (request' = [request EXCEPT ![q] = x] \/ request' = [request EXCEPT ![q] = Vacant]) /\ UNCHANGED users
      BY <1>4 DEF RolePermissionsRead
    <2> HIDE DEF x
    <2> QED
      BY <1>0, <2>2, <2>3, OneRequest
  <1>5. CASE RolePermissionsDelete(q)
    <2> DEFINE x == [pc |-> "insert", by |-> old.by, o |-> old.o, new |-> old.new, del |-> perms[old.o.role]]
    <2>1. RequestOK(x) /\ RowsOK(x)
      BY <1>0, <1>5 DEF RequestOK, RowsOK, RolePermissionsDelete
    <2>2. request' = [request EXCEPT ![q] = x] /\ UNCHANGED users
      BY <1>5 DEF RolePermissionsDelete
    <2> HIDE DEF x
    <2> QED
      BY <2>1, <2>2, OneRequest
  <1>6. CASE RolePermissionsInsert(q)
    <2> DEFINE x == [pc |-> "bumped", by |-> old.by, o |-> old.o, new |-> old.new, del |-> old.del,
                     bump |-> UsersOf(old.o.role)]
    <2>1. RequestOK(x) /\ RowsOK(x)
      BY <1>0, <1>6 DEF RequestOK, RowsOK, RolePermissionsInsert
    <2>2. (request' = [request EXCEPT ![q] = x] \/ request' = [request EXCEPT ![q] = Vacant]) /\ UNCHANGED users
      BY <1>6 DEF RolePermissionsInsert
    <2> HIDE DEF x
    <2> QED
      BY <1>0, <2>1, <2>2, OneRequest
  <1> QED
    BY <1>1, <1>2, <1>3, <1>4, <1>5, <1>6

\* What a write leaves in the table, and in the other requests.
Table(q) ==
    IF Effective(q) THEN [users EXCEPT ![TargetOf(q)] = Written(request[q].o, @)] ELSE users

\* A write leaves the rows of other users alone, and those that are locked.
LEMMA WriteRows ==
    ASSUME Typed, NEW q \in Requests, UserWrite(q)
    PROVE  /\ TargetOf(q) \in Users
           /\ users' = Table(q)
           /\ users' = [u \in Users |-> users'[u]]
           /\ \A u \in Users : users'[u] \in UserRow \cup {NoUser, Gone}
           /\ \A u \in Users \ {TargetOf(q)} : users'[u] = users[u]
           /\ Effective(q) => users'[TargetOf(q)] = Written(request[q].o, users[TargetOf(q)])
           /\ ~Effective(q) => users' = users
           /\ \A p \in Requests : Pc(p) = "bumped" => TargetOf(q) \notin request[p].bump
  <1>1. Pc(q) = "write" /\ TargetOf(q) \notin Locked /\ users' = Table(q)
    BY DEF UserWrite, Pc, Table
  <1>2. TargetOf(q) \in Users
    BY <1>1, TargetIsUser
  <1>3. Effective(q) => Written(request[q].o, users[TargetOf(q)]) \in UserRow \cup {Gone}
    BY <1>1, WrittenIsRow
  <1>4. \A p \in Requests : Pc(p) = "bumped" => TargetOf(q) \notin request[p].bump
    BY <1>1 DEF Locked, Pc
  <1> QED
    BY <1>1, <1>2, <1>3, <1>4 DEF Typed, Table

\* The commit of a request that writes a user keeps the types.
LEMMA UserWriteTyped ==
    ASSUME Typed, NEW q \in Requests, UserWrite(q)
    PROVE  Typed'
  <1>1. request' = [p \in Requests |-> request'[p]]
    BY DEF UserWrite
  <1>2. ASSUME NEW p \in Requests
        PROVE  (RequestOK(request[p]) /\ RowsOK(request[p]))'
    <2>0. RequestOK(request[p]) /\ RowsOK(request[p])
      BY DEF Typed
    <2>1. CASE request'[p] = Vacant
      BY SMT, <2>1 DEF RequestOK, RowsOK, Vacant
    <2>2. CASE request[p].pc = "write"
               /\ request'[p] = [pc |-> "write", by |-> request[p].by, o |-> request[p].o, late |-> TRUE]
      BY SMT, <2>0, <2>2 DEF RequestOK, RowsOK
    <2>3. CASE request'[p] = request[p]
      BY <2>0, <2>3, WriteRows DEF RowsOK, UsersOf, Live, RoleOf, Pc
    <2> QED
      BY <2>1, <2>2, <2>3 DEF UserWrite
  <1> QED
    BY <1>1, <1>2, WriteRows DEF Typed

\* The rows a commit adds to keep their role and whether they may log in.
LEMMA CommitRows ==
    ASSUME Typed, NEW q \in Requests, RolePermissionsCommit(q), NEW u \in Users
    PROVE  /\ users'[u] \in UserRow \cup {NoUser, Gone}
           /\ u \notin request[q].bump => users'[u] = users[u]
           /\ u \in request[q].bump =>
                /\ users[u] \in UserRow /\ users'[u] \in UserRow
                /\ users'[u].role = users[u].role
                /\ users'[u].is_active = users[u].is_active
                /\ users'[u].version = users[u].version + 1
  <1>1. users'[u] = IF u \in request[q].bump THEN Bumped(users[u]) ELSE users[u]
    BY DEF RolePermissionsCommit
  <1>2. u \in request[q].bump => users[u] \in UserRow
    BY DEF Typed, RowsOK, RolePermissionsCommit, UsersOf, Live
  <1>3. ASSUME NEW row \in UserRow
        PROVE  /\ Bumped(row) \in UserRow
               /\ Bumped(row).role = row.role
               /\ Bumped(row).is_active = row.is_active
               /\ Bumped(row).version = row.version + 1
    BY SMT, <1>3 DEF Bumped, UserRow
  <1> QED
    BY <1>1, <1>2, <1>3 DEF Typed

\* So does the commit of a change of permissions, with the versions it has bumped.
LEMMA CommitTyped ==
    ASSUME Typed, NEW q \in Requests, RolePermissionsCommit(q)
    PROVE  Typed'
  <1>1. users' = [u \in Users |-> users'[u]] /\ request' = [p \in Requests |-> request'[p]]
    BY DEF RolePermissionsCommit, Committed
  <1>2. ASSUME NEW p \in Requests
        PROVE  (RequestOK(request[p]) /\ RowsOK(request[p]))'
    <2>0. RequestOK(request[p]) /\ RowsOK(request[p])
      BY DEF Typed
    <2>1. CASE request'[p] = Vacant
      BY SMT, <2>1 DEF RequestOK, RowsOK, Vacant
    <2>2. CASE /\ request[p].pc = "insert"
               /\ request'[p] = [pc |-> "insert", by |-> request[p].by, o |-> request[p].o,
                                 new |-> request[p].new, del |-> request[p].del \ request[q].del]
      BY SMT, <2>0, <2>2 DEF RequestOK, RowsOK
    <2>3. CASE request'[p] = request[p]
      <3>1. ASSUME NEW r, NEW u \in UsersOf(r)
            PROVE  u \in UsersOf(r)'
        <4>1. u \in Users /\ users[u] \in UserRow /\ users[u].role = r
          BY <3>1 DEF UsersOf, Live, RoleOf, Typed
        <4>2. users'[u] \in UserRow /\ users'[u].role = r
          BY <4>1, CommitRows
        <4> QED
          BY <4>1, <4>2, AccountsAssumption DEF UsersOf, Live, RoleOf
      <3> QED
        BY <2>0, <2>3, <3>1 DEF RowsOK
    <2> QED
      BY <2>1, <2>2, <2>3 DEF RolePermissionsCommit, Committed
  <1> QED
    BY <1>1, <1>2, CommitRows DEF Typed

\* The start of a request, and of the process.
LEMMA StartTyped ==
    ASSUME Typed
    PROVE  /\ \A q \in Requests, u \in Users : LoginRead(q, u) \/ Request(q, u) => Typed'
           /\ \A registry \in Registries : sync_permissions(registry) \/ SyncedElsewhere(registry) => Typed'
  <1>0. RequestOK(Vacant) /\ RowsOK(Vacant)
    BY DEF RequestOK, RowsOK, Vacant
  <1>1. ASSUME NEW q \in Requests, NEW u \in Users, LoginRead(q, u)
        PROVE  Typed'
    <2> DEFINE x == [pc |-> "login", by |-> u, version |-> users[u].version]
    <2>1. RequestOK(x) /\ RowsOK(x)
      BY DEF RequestOK, RowsOK
    <2>2. request' = [request EXCEPT ![q] = x] /\ UNCHANGED users
      BY <1>1 DEF LoginRead
    <2> HIDE DEF x
    <2> QED
      BY <2>1, <2>2, OneRequest
  <1>2. ASSUME NEW q \in Requests, NEW u \in Users, NEW o \in Ops \cup {ViewOp}, get_current_user(q, u, o)
        PROVE  Typed'
    <2> DEFINE x == [pc |-> "handler", by |-> u, o |-> o]
               y == [pc |-> "lookup", by |-> u, o |-> o, role |-> RoleOf(u), version |-> users[u].version]
    <2>1. (o # ViewOp => RequestOK(x)) /\ RowsOK(x) /\ RequestOK(y) /\ RowsOK(y)
      BY DEF RequestOK, RowsOK
    <2>2. /\ \/ request' = [request EXCEPT ![q] = x] /\ (o.need = NoCode \/ o # ViewOp)
             \/ request' = [request EXCEPT ![q] = y]
             \/ request' = [request EXCEPT ![q] = Vacant]
          /\ UNCHANGED users
      BY <1>2 DEF get_current_user
    <2>3. o.need = NoCode => o # ViewOp
      BY SMT, AccountsAssumption DEF ViewOp
    <2> HIDE DEF x, y
    <2> QED
      BY <1>0, <2>1, <2>2, <2>3, OneRequest
  <1>3. ASSUME NEW registry \in Registries, sync_permissions(registry)
        PROVE  Typed'
    BY <1>0, <1>3 DEF Typed, sync_permissions, RowsOK, Vacant
  <1>4. ASSUME NEW registry \in Registries, SyncedElsewhere(registry)
        PROVE  Typed'
    BY <1>4 DEF Typed, SyncedElsewhere, RowsOK, UsersOf, Live, RoleOf
  <1> QED
    BY <1>1, <1>2, <1>3, <1>4 DEF Request, Ops

\* The tables and the requests are typed at first.
LEMMA TypedInit == AccountsInit => Typed
  BY SMT, AccountsAssumption DEF AccountsInit, Typed, RequestOK, RowsOK, Vacant

\* Every step keeps them typed.
LEMMA TypedStep == Typed /\ [AccountsNext]_accountsVars => Typed'
  <1> SUFFICES ASSUME Typed, [AccountsNext]_accountsVars
               PROVE  Typed'
    OBVIOUS
  <1>1. CASE UNCHANGED accountsVars
    BY <1>1 DEF Typed, RowsOK, UsersOf, Live, RoleOf, accountsVars
  <1>2. ASSUME NEW q \in Requests, Handle(q)
        PROVE  Typed'
    BY <1>2, ResolvingTyped, HandlerTyped, UserWriteTyped, CommitTyped DEF Handle
  <1> QED
    BY <1>1, <1>2, StartTyped DEF AccountsNext

\* Where a request has read what it is going to write.
Working == {"write", "delete", "insert", "bumped"}

\* The steps by which no request begins to write, or goes on with it.
LEMMA Quiet ==
    ASSUME Typed, NEW q \in Requests, NEW u,
           \/ CacheGet(q) \/ QueryPermissions(q) \/ CacheSet(q) \/ LoginIssue(q)
           \/ create_role(q) \/ DeleteRoleRead(q) \/ DeleteRole(q)
           \/ LoginRead(q, u) \/ Request(q, u)
    PROVE  /\ UNCHANGED <<users, crossed, joined>>
           /\ \A p \in Requests : Pc(p)' \in Working => request'[p] = request[p]
  <1>0. request = [p \in Requests |-> request[p]]
    BY DEF Typed
  <1> SUFFICES /\ UNCHANGED <<users, crossed, joined>>
               /\ request'[q].pc \notin Working
               /\ \A p \in Requests \ {q} : request'[p] = request[p]
    BY DEF Pc
  <1>1. ASSUME NEW codes, Authorised(q, codes)
        PROVE  /\ request'[q].pc \notin Working
               /\ \A p \in Requests \ {q} : request'[p] = request[p]
    BY <1>0, <1>1 DEF Authorised, Vacant, Working
  <1>2. CASE CacheGet(q)
    <2>1. CASE \E codes : Authorised(q, codes)
      BY <1>1, <1>2, <2>1 DEF CacheGet
    <2>2. CASE ~\E codes : Authorised(q, codes)
      <3>1. request' = [request EXCEPT ![q] =
                [pc |-> "query", by |-> @.by, o |-> @.o, role |-> @.role, version |-> @.version]]
        BY <1>2, <2>2 DEF CacheGet
      <3>2. request'[q].pc = "query" /\ \A p \in Requests \ {q} : request'[p] = request[p]
        BY <1>0, <3>1
      <3> QED
        BY <1>2, <3>2 DEF CacheGet, Working
    <2> QED
      BY <2>1, <2>2
  <1>3. CASE CacheSet(q)
    BY <1>1, <1>3 DEF CacheSet
  <1>4. CASE QueryPermissions(q)
    BY <1>0, <1>4 DEF QueryPermissions, Working
  <1>5. CASE LoginIssue(q)
    BY <1>0, <1>5 DEF LoginIssue, Vacant, Working
  <1>6. CASE create_role(q)
    BY <1>0, <1>6 DEF create_role, Vacant, Working
  <1>7. CASE DeleteRoleRead(q)
    BY <1>0, <1>7 DEF DeleteRoleRead, Vacant, Working
  <1>8. CASE DeleteRole(q)
    BY <1>0, <1>8 DEF DeleteRole, Vacant, Working
  <1>9. CASE LoginRead(q, u)
    BY <1>0, <1>9 DEF LoginRead, Vacant, Working
  <1>10. CASE Request(q, u)
    <2>1. PICK o : get_current_user(q, u, o)
      BY <1>10 DEF Request
    <2> QED
      BY <1>0, <2>1 DEF get_current_user, Vacant, Working
  <1> QED
    BY <1>2, <1>3, <1>4, <1>5, <1>6, <1>7, <1>8, <1>9, <1>10

\* After a start of the process nothing is under way.
LEMMA Restarted ==
    ASSUME NEW registry, sync_permissions(registry)
    PROVE  /\ UNCHANGED <<users, crossed, roles, perms>>
           /\ active' = registry /\ cache' = <<>>
           /\ \A q \in Requests : request'[q] = Vacant /\ Pc(q)' = "idle"
  BY DEF sync_permissions, Pc, Vacant

\* The start of another process changes the registry only.
LEMMA StartedElsewhere ==
    ASSUME NEW registry, SyncedElsewhere(registry)
    PROVE  /\ UNCHANGED <<users, crossed, roles, perms, cache, request>>
           /\ active' = registry
           /\ \/ active' = active /\ joined' = joined
              \/ joined' = Users
  BY DEF SyncedElsewhere

-----------------------------------------------------------------------------
(* A superadmin is left. *)

\* A request that has checked, and was not overtaken, leaves a superadmin.
LastChecked ==
    \A q \in Requests :
        Pc(q) = "write" /\ ~request[q].late /\ Removes(request[q].o)
            => Superadmins \ {TargetOf(q)} # {} \/ crossed

SuperInv == SuperadminKept /\ LastChecked

\* The steps that neither check nor write.
LEMMA SuperFrame ==
    ASSUME SuperInv, UNCHANGED <<users, crossed>>,
           \A p \in Requests : Pc(p)' = "write" => request'[p] = request[p]
    PROVE  SuperInv'
  <1>1. Superadmins' = Superadmins
    BY DEF Superadmins, IsSuper, Live, RoleOf
  <1>2. \A p \in Requests : Pc(p)' = "write" => Pc(p) = "write" /\ TargetOf(p)' = TargetOf(p)
    BY DEF Pc, TargetOf
  <1> QED
    BY <1>1, <1>2 DEF SuperInv, SuperadminKept, LastChecked

\* The check reads the table as it is.
LEMMA SuperRead ==
    ASSUME Typed, SuperInv, NEW q \in Requests, UserRead(q)
    PROVE  SuperInv'
  <1>0. Superadmins' = Superadmins /\ crossed' = crossed
    BY DEF Superadmins, IsSuper, Live, RoleOf, UserRead
  <1>1. \A p \in Requests \ {q} : request'[p] = request[p] /\ Pc(p)' = Pc(p) /\ TargetOf(p)' = TargetOf(p)
    BY DEF Typed, UserRead, Pc, TargetOf
  <1>2. ASSUME Pc(q)' = "write", Removes(request'[q].o)
        PROVE  Superadmins \ {TargetOf(q)'} # {} \/ crossed
    <2>1. Allowed(q) /\ request'[q].o = request[q].o /\ request'[q].by = request[q].by
      BY <1>2 DEF UserRead, Typed, Pc, Vacant
    <2>2. TargetOf(q)' = TargetOf(q)
      BY <2>1 DEF TargetOf
    <2>3. IsSuper(TargetOf(q)) => Superadmins \ {TargetOf(q)} # {}
      BY <1>2, <2>1 DEF Allowed, check_last_superadmin
    <2> QED
      BY <2>2, <2>3 DEF SuperInv, SuperadminKept, Superadmins
  <1> QED
    BY <1>0, <1>1, <1>2 DEF SuperInv, SuperadminKept, LastChecked

\* A write that takes a superadmin away removes.
LEMMA LostRemoves ==
    ASSUME Typed, NEW q \in Requests, UserWrite(q),
           TargetOf(q) \in Superadmins, TargetOf(q) \notin Superadmins'
    PROVE  Removes(request[q].o)
  <1> DEFINE t == TargetOf(q)
             o == request[q].o
             old == users[t]
  <1>1. t \in Users /\ old \in UserRow /\ old.role = Super /\ old.is_active
    BY DEF Superadmins, IsSuper, Live, RoleOf, Typed
  <1>2. Effective(q) /\ users'[t] = Written(o, old)
    BY WriteRows DEF Superadmins, IsSuper, Live, RoleOf
  <1>3. o \in UserOps /\ o.op # "create_user"
    BY <1>1, <1>2, AccountsAssumption DEF Effective, Typed, RequestOK, UserWrite
  <1>4. ~(Written(o, old) \in UserRow /\ Written(o, old).role = Super /\ Written(o, old).is_active = TRUE)
    BY <1>1, <1>2, AccountsAssumption DEF Superadmins, IsSuper, Live, RoleOf
  <1> HIDE DEF o, old, t
  <1>5. Removes(o)
    <2> SUFFICES ASSUME ~Removes(o)
                 PROVE  FALSE
      OBVIOUS
    <2> DEFINE role == IF o.op = "update_user" THEN o.role ELSE old.role
               is_active == IF o.op = "toggle_user_status" THEN o.is_active ELSE old.is_active
    <2>1. Written(o, old) = [role |-> role, is_active |-> is_active, version |-> old.version + 1]
      BY <1>3 DEF Written, Removes
    <2>2. role = Super
      BY <1>1 DEF Removes
    <2>3. is_active = TRUE
      <3>1. CASE o.op = "toggle_user_status"
        BY <1>3, <3>1, OpFields DEF Removes
      <3>2. CASE o.op # "toggle_user_status"
        BY <1>1, <3>2 DEF UserRow
      <3> QED
        BY <3>1, <3>2
    <2>4. Super \in Roles /\ old.version + 1 \in Nat
      BY SMT, <1>1, AccountsAssumption DEF UserRow
    <2> HIDE DEF role, is_active
    <2>5. Written(o, old) = [role |-> Super, is_active |-> TRUE, version |-> old.version + 1]
      BY <2>1, <2>2, <2>3
    <2>6. Written(o, old) \in UserRow
      BY SMT, <2>4, <2>5 DEF UserRow
    <2> QED
      BY SMT, <1>4, <2>5, <2>6
  <1> QED
    BY <1>5 DEF o

\* The others keep their superadmins; the requests that were overtaken know it.
LEMMA SuperWrite ==
    ASSUME Typed, SuperInv, NEW q \in Requests, UserWrite(q)
    PROVE  SuperInv'
  <1> DEFINE t == TargetOf(q)
             lost == t \in Superadmins /\ t \notin Superadmins'
  <1>1. Superadmins \ {t} = Superadmins' \ {t}
    BY WriteRows DEF Superadmins, IsSuper, Live, RoleOf
  <1>2. lost => users'[t] = Gone \/ ~(users'[t].role = Super /\ users'[t].is_active)
    <2> SUFFICES ASSUME lost
                 PROVE  users'[t] # NoUser
      BY WriteRows DEF Superadmins, IsSuper, Live, RoleOf
    <2>1. users[t] # NoUser /\ t \in Users
      BY DEF Superadmins, IsSuper, Live
    <2>2. Effective(q) => Written(request[q].o, users[t]) \in UserRow \cup {Gone}
      BY WrittenIsRow DEF UserWrite, Pc
    <2> QED
      BY SMT, <2>1, <2>2, WriteRows, AccountsAssumption
  <1>3. /\ crossed => crossed'
        /\ lost /\ request[q].late => crossed'
        /\ Pc(q) = "write" /\ Pc(q)' = "idle"
        /\ \A p \in Requests \ {q} : lost /\ Pc(p) = "write" => request'[p].late
        /\ \A p \in Requests \ {q} :
              Pc(p)' = "write" /\ ~request'[p].late => request'[p] = request[p]
    <2>1. lost => (t \in Superadmins /\ ~(Table(q)[t] # Gone /\ Table(q)[t].role = Super /\ Table(q)[t].is_active))
      BY <1>2, WriteRows
    <2> QED
      BY <2>1 DEF UserWrite, Table, Pc, Vacant
  <1>4. ASSUME NEW p \in Requests \ {q}, Pc(p)' = "write"
        PROVE  Pc(p) = "write" /\ TargetOf(p)' = TargetOf(p) /\ request'[p].o = request[p].o
    BY <1>4 DEF UserWrite, Pc, TargetOf, Vacant
  <1>5. CASE lost
    <2>1. SuperadminKept'
      BY <1>1, <1>3, <1>5, LostRemoves DEF SuperInv, SuperadminKept, LastChecked
    <2>2. LastChecked'
      BY <1>3, <1>4, <1>5 DEF LastChecked
    <2> QED
      BY <2>1, <2>2 DEF SuperInv
  <1>6. CASE ~lost
    <2>1. Superadmins \subseteq Superadmins'
      BY <1>1, <1>6
    <2>2. SuperadminKept'
      BY <1>3, <2>1 DEF SuperInv, SuperadminKept
    <2>3. ASSUME NEW p \in Requests, Pc(p)' = "write", ~request'[p].late, Removes(request'[p].o)
          PROVE  Superadmins' \ {TargetOf(p)'} # {} \/ crossed'
      <3>1. p # q
        BY <1>3, <2>3
      <3>2. request'[p] = request[p] /\ Pc(p) = "write" /\ TargetOf(p)' = TargetOf(p)
        BY <1>3, <1>4, <2>3, <3>1
      <3>3. Superadmins \ {TargetOf(p)} # {} \/ crossed
        BY <2>3, <3>2 DEF SuperInv, LastChecked
      <3> HIDE DEF lost, t
      <3> QED
        BY <1>3, <2>1, <3>2, <3>3
    <2> QED
      BY <2>2, <2>3 DEF SuperInv, LastChecked
  <1> QED
    BY <1>5, <1>6

\* A change of permissions bumps versions only: the superadmins stay the same.
LEMMA SuperCommit ==
    ASSUME Typed, SuperInv, NEW q \in Requests, RolePermissionsCommit(q)
    PROVE  SuperInv'
  <1>1. ASSUME NEW u \in Users
        PROVE  u \in Superadmins' <=> u \in Superadmins
    <2>1. CASE u \notin request[q].bump
      BY <2>1, CommitRows DEF Superadmins, IsSuper, Live, RoleOf
    <2>2. CASE u \in request[q].bump
      BY SMT, <2>2, CommitRows, AccountsAssumption DEF Superadmins, IsSuper, Live, RoleOf
    <2> QED
      BY <2>1, <2>2
  <1>2. Superadmins' = Superadmins /\ crossed' = crossed
    BY <1>1 DEF Superadmins, RolePermissionsCommit
  <1>3. \A p \in Requests : Pc(p)' = "write" =>
           Pc(p) = "write" /\ request'[p] = request[p] /\ TargetOf(p)' = TargetOf(p)
    BY DEF RolePermissionsCommit, Committed, Pc, Vacant, TargetOf
  <1> QED
    BY <1>2, <1>3 DEF SuperInv, SuperadminKept, LastChecked

\* Every step keeps a superadmin, and one besides the target of every checked write
\* that could take the last one away, unless two of them have crossed.
LEMMA SuperStep == Typed /\ SuperInv /\ [AccountsNext]_accountsVars => SuperInv'
  <1> SUFFICES ASSUME Typed, SuperInv, [AccountsNext]_accountsVars
               PROVE  SuperInv'
    OBVIOUS
  <1>1. CASE UNCHANGED accountsVars
    BY <1>1, SuperFrame DEF accountsVars, Pc
  <1>2. ASSUME NEW q \in Requests, NEW u,
               \/ CacheGet(q) \/ QueryPermissions(q) \/ CacheSet(q) \/ LoginIssue(q)
               \/ create_role(q) \/ DeleteRoleRead(q) \/ DeleteRole(q)
               \/ LoginRead(q, u) \/ Request(q, u)
        PROVE  SuperInv'
    BY <1>2, Quiet, SuperFrame DEF Working
  <1>3. ASSUME NEW q \in Requests,
               RolePermissionsRead(q) \/ RolePermissionsDelete(q) \/ RolePermissionsInsert(q)
        PROVE  SuperInv'
    <2>1. /\ UNCHANGED <<users, crossed>>
          /\ \A p \in Requests : Pc(p)' = "write" => request'[p] = request[p]
      <3>0. request = [p \in Requests |-> request[p]]
        BY DEF Typed
      <3>1. CASE RolePermissionsRead(q)
        BY <3>0, <3>1 DEF RolePermissionsRead, Vacant, Pc
      <3>2. CASE RolePermissionsDelete(q)
        BY <3>0, <3>2 DEF RolePermissionsDelete, Vacant, Pc
      <3>3. CASE RolePermissionsInsert(q)
        BY <3>0, <3>3 DEF RolePermissionsInsert, Vacant, Pc
      <3> QED
        BY <1>3, <3>1, <3>2, <3>3
    <2> QED
      BY <2>1, SuperFrame
  <1>4. ASSUME NEW registry, sync_permissions(registry)
        PROVE  SuperInv'
    BY <1>4, Restarted, SuperFrame
  <1>5. ASSUME NEW registry, SyncedElsewhere(registry)
        PROVE  SuperInv'
    BY <1>5, StartedElsewhere, SuperFrame
  <1> QED
    BY <1>1, <1>2, <1>3, <1>4, <1>5, SuperRead, SuperWrite, SuperCommit DEF AccountsNext, Handle

(* However many requests overlap, an active superadmin is left, unless the  *)
(* check of one removal was overtaken by another (auth_users.py             *)
(* _check_last_superadmin).                                                 *)
THEOREM SuperadminIsKept == AccountsSpec => []SuperadminKept
  <1>1. AccountsInit => SuperInv
    BY SMT, AccountsAssumption
       DEF AccountsInit, SuperInv, SuperadminKept, LastChecked, Superadmins, IsSuper, Live, RoleOf, Pc, Vacant
  <1> QED
    BY <1>1, TypedInit, TypedStep, SuperStep, PTL DEF AccountsSpec, SuperInv

-----------------------------------------------------------------------------
(* Permissions are saved with their views. *)

Closed(S) == \A c \in S : ViewOf[c] # NoCode => ViewOf[c] \in S

\* A change of a role's permissions: what it saves is closed, and so is what is
\* left by its DELETE; none of the rows it inserts is there.
ChangeOK(x) ==
    LET r == x.o.role
    IN  /\ x.pc \in {"delete", "insert", "bumped"} => Closed(x.new) /\ roles[r] # "new"
        /\ x.pc \in {"insert", "bumped"} =>
              Closed(perms[r] \ x.del) /\ (LiveRole(r) => x.del \subseteq perms[r])
        /\ x.pc = "bumped" =>
              x.new \cap (perms[r] \ x.del) = {} /\ (x.new # {} => LiveRole(r))

\* Two changes that wait for their commits have no row in common.
Apart(x, y) ==
    x.pc = "bumped" /\ y.pc = "bumped" /\ x.o.role = y.o.role
        => x.new \cap y.new = {} /\ x.del \cap y.del = {}

ClosedInv ==
    /\ active \subseteq Codes /\ Closed(active)
    /\ perms = [r \in Roles |-> perms[r]] /\ roles = [r \in Roles |-> roles[r]]
    /\ \A r \in Roles : Closed(perms[r])
    /\ \A q \in Requests : ChangeOK(request[q])
    /\ \A q, p \in Requests : q # p => Apart(request[q], request[p])

\* The steps that have nothing to do with the permissions of roles.
LEMMA ClosedFrame ==
    ASSUME ClosedInv, UNCHANGED <<active, perms, roles>>,
           \A p \in Requests : Pc(p)' \in {"delete", "insert", "bumped"} => request'[p] = request[p]
    PROVE  ClosedInv'
  <1>1. \A p \in Requests : ChangeOK(request[p])'
    BY DEF ClosedInv, ChangeOK, LiveRole, Pc
  <1>2. \A q, p \in Requests : q # p => Apart(request[q], request[p])'
    BY SMT DEF ClosedInv, Apart, Pc
  <1> QED
    BY <1>1, <1>2 DEF ClosedInv

\* One change goes on.
LEMMA ClosedOne ==
    ASSUME Typed, ClosedInv, NEW q \in Requests, NEW x, ChangeOK(x),
           \A p \in Requests \ {q} : Apart(x, request[p]),
           request' = [request EXCEPT ![q] = x],
           UNCHANGED <<active, perms, roles>>
    PROVE  ClosedInv'
  <1>1. request'[q] = x /\ \A p \in Requests \ {q} : request'[p] = request[p]
    BY DEF Typed
  <1>2. \A p \in Requests : ChangeOK(request[p])'
    <2>1. \A p \in Requests : ChangeOK(request'[p])
      BY <1>1 DEF ClosedInv
    <2> QED
      BY <2>1 DEF ChangeOK, LiveRole
  <1>3. \A p \in Requests \ {q} : Apart(request[p], x)
    BY DEF Apart
  <1>4. \A s, p \in Requests : s # p => Apart(request[s], request[p])'
    BY SMT, <1>1, <1>3 DEF ClosedInv
  <1> QED
    BY <1>2, <1>4 DEF ClosedInv

\* What update_role_permissions saves is closed, as the active codes are.
LEMMA ExpandedClosed ==
    ASSUME active \subseteq Codes, Closed(active), NEW codes,
           expand_permission_dependencies(codes, active) \subseteq active
    PROVE  Closed(expand_permission_dependencies(codes, active))
  BY SMT, AccountsAssumption DEF Closed, expand_permission_dependencies

\* The steps of a change of permissions before its commit keep permissions closed.
LEMMA ClosedChange ==
    ASSUME Typed, ClosedInv, NEW q \in Requests,
           RolePermissionsRead(q) \/ RolePermissionsDelete(q) \/ RolePermissionsInsert(q)
    PROVE  ClosedInv'
  <1> DEFINE old == request[q]
             r == old.o.role
  <1>0. /\ ChangeOK(old) /\ ChangeOK(Vacant)
        /\ \A p \in Requests \ {q} : Apart(Vacant, request[p])
    BY DEF ClosedInv, ChangeOK, Apart, Vacant
  <1>1. CASE RolePermissionsRead(q)
    <2> DEFINE new == expand_permission_dependencies(old.o.codes, active)
               x == [pc |-> "delete", by |-> old.by, o |-> old.o, new |-> new]
    <2>1. CASE request' = [request EXCEPT ![q] = Vacant]
      BY <1>0, <1>1, <2>1, ClosedOne DEF RolePermissionsRead
    <2>2. CASE LiveRole(r) /\ new \subseteq active /\ request' = [request EXCEPT ![q] = x]
      <3>1. Closed(new)
        BY <2>2, ExpandedClosed DEF ClosedInv
      <3> HIDE DEF new
      <3>2. ChangeOK(x) /\ \A p \in Requests \ {q} : Apart(x, request[p])
        BY <2>2, <3>1 DEF ChangeOK, Apart, LiveRole
      <3> HIDE DEF x
      <3> QED
        BY <1>1, <2>2, <3>2, ClosedOne DEF RolePermissionsRead
    <2> QED
      BY <1>1, <2>1, <2>2 DEF RolePermissionsRead
  <1>2. CASE RolePermissionsDelete(q)
    <2> DEFINE x == [pc |-> "insert", by |-> old.by, o |-> old.o, new |-> old.new, del |-> perms[r]]
    <2>1. ChangeOK(x) /\ \A p \in Requests \ {q} : Apart(x, request[p])
      BY <1>0, <1>2 DEF ChangeOK, Apart, Closed, RolePermissionsDelete
    <2>2. request' = [request EXCEPT ![q] = x] /\ UNCHANGED <<active, perms, roles>>
      BY <1>2 DEF RolePermissionsDelete
    <2> HIDE DEF x
    <2> QED
      BY <2>1, <2>2, ClosedOne
  <1>3. CASE RolePermissionsInsert(q)
    <2> DEFINE x == [pc |-> "bumped", by |-> old.by, o |-> old.o, new |-> old.new, del |-> old.del,
                     bump |-> UsersOf(r)]
    <2>1. CASE request' = [request EXCEPT ![q] = Vacant]
      BY <1>0, <1>3, <2>1, ClosedOne DEF RolePermissionsInsert
    <2>2. CASE ~InsertFails(q) /\ request' = [request EXCEPT ![q] = x]
      <3>1. ChangeOK(x)
        BY <1>0, <1>3, <2>2 DEF ChangeOK, InsertFails, RolePermissionsInsert
      <3>2. \A p \in Requests \ {q} : Apart(x, request[p])
        BY <1>3 DEF Apart, RolePermissionsInsert, Waits
      <3> HIDE DEF x
      <3> QED
        BY <1>3, <2>2, <3>1, <3>2, ClosedOne DEF RolePermissionsInsert
    <2> QED
      BY <1>3, <2>1, <2>2 DEF RolePermissionsInsert
  <1> QED
    BY <1>1, <1>2, <1>3

\* Creating or deleting a role keeps the permissions of all roles closed.
LEMMA ClosedRoles ==
    ASSUME Typed, ClosedInv, NEW q \in Requests, create_role(q) \/ DeleteRole(q)
    PROVE  ClosedInv'
  <1> DEFINE r == request[q].o.role
  <1>0. /\ UNCHANGED active
        /\ \A p \in Requests : Pc(p)' \in Working => request'[p] = request[p]
        /\ perms' = [s \in Roles |-> perms'[s]] /\ roles' = [s \in Roles |-> roles'[s]]
    BY Quiet DEF create_role, DeleteRole, ClosedInv
  <1>1. CASE create_role(q)
    <2>1. /\ perms' = perms
          /\ \A s \in Roles : roles[s] # "new" => roles'[s] = roles[s]
      BY <1>1 DEF create_role, ClosedInv
    <2>2. ASSUME NEW p \in Requests
          PROVE  ChangeOK(request[p])'
      <3>1. ChangeOK(request[p]) /\ RequestOK(request[p])
        BY DEF ClosedInv, Typed
      <3>2. CASE Pc(p)' \notin {"delete", "insert", "bumped"}
        BY <3>2 DEF ChangeOK, Pc
      <3>3. CASE request'[p] = request[p] /\ Pc(p) \in {"delete", "insert", "bumped"}
        <4>1. request[p].o.role \in Roles
          BY <3>1, <3>3 DEF RequestOK, Pc
        <4>2. roles[request[p].o.role] # "new"
          BY <3>1, <3>3 DEF ChangeOK, Pc
        <4>3. roles'[request[p].o.role] = roles[request[p].o.role]
          BY <2>1, <4>1, <4>2
        <4> QED
          BY <2>1, <3>1, <3>3, <4>3 DEF ChangeOK, LiveRole
      <3> QED
        BY <1>0, <3>2, <3>3 DEF Pc, Working
    <2>3. \A s, p \in Requests : s # p => Apart(request[s], request[p])'
      BY SMT, <1>0 DEF ClosedInv, Apart, Pc, Working
    <2> QED
      BY <1>0, <2>1, <2>2, <2>3 DEF ClosedInv
  <1>2. CASE DeleteRole(q)
    <2>1. /\ \A s \in Roles \ {r} : perms'[s] = perms[s] /\ roles'[s] = roles[s]
          /\ \/ perms' = perms /\ roles' = roles
             \/ r \in Roles => perms'[r] = {} /\ roles'[r] = "gone"
          /\ \A p \in Requests : Pc(p) = "bumped" => request[p].o.role # r
      BY <1>2 DEF DeleteRole, ClosedInv, Pc
    <2>2. ASSUME NEW p \in Requests
          PROVE  ChangeOK(request[p])'
      <3>1. ChangeOK(request[p]) /\ RequestOK(request[p])
        BY DEF ClosedInv, Typed
      <3>2. CASE Pc(p)' \notin Working
        BY <3>2 DEF ChangeOK, Working, Pc
      <3>3. CASE request'[p] = request[p]
        <4>1. CASE perms' = perms /\ roles' = roles
          BY <3>1, <3>3, <4>1 DEF ChangeOK, LiveRole
        <4>2. CASE request[p].o.role \in Roles \ {r}
          BY <2>1, <3>1, <3>3, <4>2 DEF ChangeOK, LiveRole
        <4>3. CASE Pc(p) # "bumped" /\ r \in Roles /\ perms'[r] = {} /\ roles'[r] = "gone" /\ request[p].o.role = r
          BY <3>1, <3>3, <4>3 DEF ChangeOK, LiveRole, Closed, Pc
        <4>4. CASE Pc(p) \notin {"delete", "insert", "bumped"}
          BY <3>3, <4>4 DEF ChangeOK, Pc
        <4> QED
          BY <2>1, <3>1, <4>1, <4>2, <4>3, <4>4 DEF RequestOK, Pc
      <3> QED
        BY <1>0, <3>2, <3>3
    <2>3. \A s, p \in Requests : s # p => Apart(request[s], request[p])'
      BY SMT, <1>0 DEF ClosedInv, Apart, Pc, Working
    <2>4. \A s \in Roles : Closed(perms[s])'
      BY <2>1 DEF ClosedInv, Closed
    <2> QED
      BY <1>0, <2>2, <2>3, <2>4 DEF ClosedInv
  <1> QED
    BY <1>1, <1>2

\* What a commit leaves is closed, and so is what it leaves of it for the others.
LEMMA ClosedCommit ==
    ASSUME Typed, ClosedInv, NEW q \in Requests, RolePermissionsCommit(q)
    PROVE  ClosedInv'
  <1> DEFINE x == request[q]
             r == x.o.role
  <1>0. /\ UNCHANGED <<active, roles>> /\ r \in Roles
        /\ perms' = [perms EXCEPT ![r] = (@ \ x.del) \cup x.new]
        /\ request' = Committed(q)
        /\ x.pc = "bumped"
    BY DEF RolePermissionsCommit, Typed, RequestOK
  <1>1. /\ perms'[r] = (perms[r] \ x.del) \cup x.new
        /\ \A s \in Roles \ {r} : perms'[s] = perms[s]
        /\ perms' = [s \in Roles |-> perms'[s]]
    BY <1>0 DEF ClosedInv
  <1>2. /\ Closed(x.new) /\ Closed(perms[r] \ x.del)
        /\ LiveRole(r) => x.del \subseteq perms[r]
        /\ x.new \cap (perms[r] \ x.del) = {}
        /\ x.new # {} => LiveRole(r)
    BY <1>0 DEF ClosedInv, ChangeOK
  <1>3. \A s \in Roles : Closed(perms[s])'
    BY <1>1, <1>2 DEF ClosedInv, Closed
  <1>4. ASSUME NEW p \in Requests
        PROVE  ChangeOK(request[p])'
    <2> DEFINE y == request[p]
    <2>0. ChangeOK(y) /\ RequestOK(y) /\ (p # q => Apart(x, y))
      BY DEF ClosedInv, Typed
    <2>1. CASE request'[p] = Vacant
      BY SMT, <2>1 DEF ChangeOK, Vacant
    <2>2. CASE p # q /\ y.pc = "insert" /\ y.o.role = r
      <3>1. request'[p] = [pc |-> "insert", by |-> y.by, o |-> y.o, new |-> y.new, del |-> y.del \ x.del]
        BY <1>0, <2>2 DEF Committed
      <3>2. Closed(y.new) /\ Closed(perms[r] \ y.del) /\ roles[r] # "new"
            /\ (LiveRole(r) => y.del \subseteq perms[r])
        BY <2>0, <2>2 DEF ChangeOK
      <3>3. perms'[r] \ (y.del \ x.del) = ((perms[r] \ x.del) \cap (perms[r] \ y.del)) \cup x.new
        BY <1>1, <1>2, <3>2
      <3>4. Closed(perms'[r] \ (y.del \ x.del))
        BY <1>2, <3>2, <3>3 DEF Closed
      <3>5. LiveRole(r) => y.del \ x.del \subseteq perms'[r]
        BY <1>1, <3>2
      <3>6. /\ request'[p].pc = "insert" /\ request'[p].o.role = r
            /\ request'[p].new = y.new /\ request'[p].del = y.del \ x.del
        BY SMT, <2>2, <3>1
      <3> HIDE DEF x, y, r
      <3> QED
        BY <1>0, <3>2, <3>4, <3>5, <3>6 DEF ChangeOK, LiveRole
    <2>3. CASE request'[p] = y /\ ~(y.pc \in {"insert", "bumped"} /\ y.o.role = r)
      BY <1>0, <1>1, <2>0, <2>3 DEF ChangeOK, RequestOK, LiveRole
    <2>4. CASE p # q /\ request'[p] = y /\ y.pc = "bumped" /\ y.o.role = r
      <3>1. /\ Closed(y.new) /\ Closed(perms[r] \ y.del) /\ roles[r] # "new"
            /\ LiveRole(r) => y.del \subseteq perms[r]
            /\ y.new \cap (perms[r] \ y.del) = {}
            /\ y.new # {} => LiveRole(r)
            /\ x.new \cap y.new = {} /\ x.del \cap y.del = {}
        BY <1>0, <2>0, <2>4 DEF ChangeOK, Apart
      <3>2. perms'[r] \ y.del = ((perms[r] \ x.del) \cap (perms[r] \ y.del)) \cup x.new
        BY <1>1, <1>2, <3>1
      <3>3. Closed(perms'[r] \ y.del)
        BY <1>2, <3>1, <3>2 DEF Closed
      <3>4. LiveRole(r) => y.del \subseteq perms'[r]
        BY <1>1, <3>1
      <3>5. y.new \cap (perms'[r] \ y.del) = {}
        BY <3>1, <3>2
      <3> QED
        BY <1>0, <2>4, <3>1, <3>3, <3>4, <3>5 DEF ChangeOK, LiveRole
    <2>5. request'[p] = IF p = q THEN Vacant
                        ELSE IF y.pc = "insert" /\ y.o.role = r
                        THEN [pc |-> "insert", by |-> y.by, o |-> y.o, new |-> y.new, del |-> y.del \ x.del]
                        ELSE y
      BY <1>0 DEF Committed
    <2> QED
      BY <2>1, <2>2, <2>3, <2>4, <2>5
  <1>5. \A s, p \in Requests : s # p => Apart(request[s], request[p])'
    BY <1>0 DEF ClosedInv, Apart, Committed, Vacant
  <1> QED
    BY <1>0, <1>1, <1>3, <1>4, <1>5 DEF ClosedInv

\* Every step keeps permissions closed.
LEMMA ClosedStep == Typed /\ ClosedInv /\ [AccountsNext]_accountsVars => ClosedInv'
  <1> SUFFICES ASSUME Typed, ClosedInv, [AccountsNext]_accountsVars
               PROVE  ClosedInv'
    OBVIOUS
  <1>1. CASE UNCHANGED accountsVars
    BY <1>1, ClosedFrame DEF accountsVars, Pc
  <1>2. ASSUME NEW q \in Requests, NEW u,
               \/ CacheGet(q) \/ QueryPermissions(q) \/ CacheSet(q) \/ LoginIssue(q)
               \/ DeleteRoleRead(q) \/ LoginRead(q, u) \/ Request(q, u)
        PROVE  ClosedInv'
    <2>1. UNCHANGED <<active, perms, roles>>
      BY <1>2 DEF CacheGet, QueryPermissions, CacheSet, LoginIssue, DeleteRoleRead, LoginRead, Request,
                  get_current_user
    <2> QED
      BY <1>2, <2>1, Quiet, ClosedFrame DEF Working
  <1>3. ASSUME NEW q \in Requests, UserRead(q) \/ UserWrite(q)
        PROVE  ClosedInv'
    <2>1. /\ UNCHANGED <<active, perms, roles>>
          /\ \A p \in Requests : Pc(p)' \in {"delete", "insert", "bumped"} => request'[p] = request[p]
      <3>1. CASE UserRead(q)
        BY <3>1 DEF UserRead, Vacant, Pc, Typed
      <3>2. CASE UserWrite(q)
        BY <3>2 DEF UserWrite, Vacant, Pc
      <3> QED
        BY <1>3, <3>1, <3>2
    <2> QED
      BY <2>1, ClosedFrame
  <1>4. ASSUME NEW registry \in Registries, sync_permissions(registry)
        PROVE  ClosedInv'
    <2>1. registry \subseteq Codes /\ Closed(registry)
      BY AccountsAssumption DEF Closed
    <2>r. \A q \in Requests : request'[q].pc = "idle"
      BY SMT, <1>4, Restarted DEF Vacant
    <2>2. \A q \in Requests : ChangeOK(request[q])'
      BY <2>r DEF ChangeOK
    <2>3. \A q, p \in Requests : Apart(request[q], request[p])'
      BY <2>r DEF Apart
    <2> QED
      BY SMT, <1>4, <2>1, <2>2, <2>3, Restarted DEF ClosedInv
  <1>5. ASSUME NEW registry \in Registries, SyncedElsewhere(registry)
        PROVE  ClosedInv'
    <2>1. registry \subseteq Codes /\ Closed(registry)
      BY AccountsAssumption DEF Closed
    <2>2. active' = registry /\ UNCHANGED <<roles, perms, request>>
      BY <1>5, StartedElsewhere
    <2> QED
      BY <2>1, <2>2 DEF ClosedInv, ChangeOK, Apart, LiveRole
  <1> QED
    BY <1>1, <1>2, <1>3, <1>4, <1>5, ClosedRoles, ClosedChange, ClosedCommit DEF AccountsNext, Handle

\* The permissions of the roles are closed at first.
LEMMA ClosedFirst == AccountsInit => ClosedInv
  <1> SUFFICES ASSUME AccountsInit
               PROVE  ClosedInv
    OBVIOUS
  <1>1. active \subseteq Codes /\ Closed(active)
    BY AccountsAssumption DEF AccountsInit, Closed
  <1>2. \A r \in Roles : Closed(perms[r])
    BY AccountsAssumption DEF AccountsInit, Closed
  <1>3. \A q \in Requests : ChangeOK(request[q])
    BY DEF AccountsInit, ChangeOK, Vacant
  <1>4. \A q, p \in Requests : Apart(request[q], request[p])
    BY DEF AccountsInit, Apart, Vacant
  <1> QED
    BY <1>1, <1>2, <1>3, <1>4 DEF AccountsInit, ClosedInv

(* However many changes of a role overlap, a role that may act may view     *)
(* (auth_roles.py update_role_permissions, permissions.py                   *)
(* expand_permission_dependencies).                                         *)
THEOREM PermissionsStayClosed == AccountsSpec => []PermissionsClosed
  <1>1. ClosedInv => PermissionsClosed
    BY DEF ClosedInv, PermissionsClosed, Closed
  <1> QED
    BY <1>1, TypedInit, TypedStep, ClosedFirst, ClosedStep, PTL DEF AccountsSpec

-----------------------------------------------------------------------------
(* The permission cache is current. *)

\* A version this user has had.
UpTo(u, v) == users[u] # NoUser /\ (Live(u) => v <= users[u].version)

\* The entries the cache may hold.
Entry == [user : Users, version : Nat, perms : SUBSET Codes]
Sound ==
    {e \in Entry :
        /\ UpTo(e.user, e.version)
        /\ Live(e.user) /\ e.version = users[e.user].version /\ e.user \notin joined
              => e.perms = CodesOf(RoleOf(e.user))}

\* A request that resolves its permissions has read role and version together.
ResolveOK(x) ==
    /\ x.pc \in {"lookup", "query"} =>
          /\ x.version \in Nat /\ UpTo(x.by, x.version)
          /\ Live(x.by) /\ x.version = users[x.by].version => x.role = RoleOf(x.by)
    /\ x.pc = "set" => [user |-> x.by, version |-> x.version, perms |-> x.perms] \in Sound

\* Whom a change of permissions does not bump was put into the role meanwhile.
CoversOK(x) == x.pc = "bumped" => UsersOf(x.o.role) \subseteq x.bump \cup joined

CacheInv ==
    /\ active \subseteq Codes
    /\ cache \in Seq(Sound)
    /\ \A q \in Requests : ResolveOK(request[q]) /\ CoversOK(request[q])

\* A row stays as it is, goes, or gets a later version.
Moved(u) ==
    \/ users[u] = NoUser
    \/ users'[u] = users[u]
    \/ users'[u] = Gone
    \/ /\ users[u] \in UserRow /\ users'[u] \in UserRow
       /\ users'[u].version > users[u].version

\* What was sound stays so when rows move and the others keep their permissions.
LEMMA SoundKept ==
    ASSUME Typed, \A u \in Users : Moved(u),
           \A u \in Users : Live(u) /\ users'[u] = users[u] /\ u \notin joined'
               => u \notin joined /\ CodesOf(RoleOf(u))' = CodesOf(RoleOf(u))
    PROVE  /\ Sound \subseteq Sound'
           /\ \A u \in Users, v \in Nat : UpTo(u, v) => UpTo(u, v)'
           /\ \A u \in Users, v \in Nat : \A r :
                 /\ UpTo(u, v)
                 /\ Live(u) /\ v = users[u].version => r = RoleOf(u)
                 => (Live(u) /\ v = users[u].version => r = RoleOf(u))'
  <1>1. ASSUME NEW u \in Users, NEW v \in Nat, UpTo(u, v)
        PROVE  /\ UpTo(u, v)'
               /\ Live(u)' /\ v = users'[u].version => Live(u) /\ users'[u] = users[u]
    <2>1. Moved(u) /\ users[u] # NoUser
      BY <1>1 DEF UpTo
    <2>2. CASE users'[u] = users[u]
      BY <1>1, <2>2 DEF UpTo, Live
    <2>3. CASE users'[u] = Gone
      BY <2>3, AccountsAssumption DEF UpTo, Live
    <2>4. CASE users[u] \in UserRow /\ users'[u] \in UserRow /\ users'[u].version > users[u].version
      <3>1. Live(u) /\ users'[u] # NoUser
        BY <2>4, AccountsAssumption DEF Live
      <3>2. users[u].version \in Nat /\ users'[u].version \in Nat
        BY <2>4 DEF UserRow
      <3>3. v <= users[u].version
        BY <1>1, <3>1 DEF UpTo
      <3>4. v <= users'[u].version /\ v # users'[u].version
        <4>1. \A a, b, c \in Nat : a <= b /\ c > b => a <= c /\ a # c
          BY SMT
        <4> QED
          BY <2>4, <3>2, <3>3, <4>1
      <3> QED
        BY <3>1, <3>4 DEF UpTo
    <2> QED
      BY <2>1, <2>2, <2>3, <2>4 DEF Moved
  <1>2. ASSUME NEW e \in Sound
        PROVE  e \in Sound'
    <2>1. e \in Entry /\ e.user \in Users /\ e.version \in Nat /\ UpTo(e.user, e.version)
      BY DEF Sound, Entry
    <2> QED
      BY <1>1, <2>1 DEF Sound, Entry
  <1>3. \A u \in Users : users'[u] = users[u] => RoleOf(u)' = RoleOf(u)
    BY DEF RoleOf
  <1> QED
    BY <1>1, <1>2, <1>3

\* Sequences over a set are sequences over a larger one.
LEMMA SeqMonotone ==
    ASSUME NEW S, NEW T, S \subseteq T, NEW s \in Seq(S)
    PROVE  s \in Seq(T)
  BY SMT

\* The requests that resolve permissions, over a step that leaves them alone.
LEMMA ResolveKept ==
    ASSUME Typed, CacheInv, \A u \in Users : Moved(u),
           \A u \in Users : Live(u) /\ users'[u] = users[u] /\ u \notin joined'
               => u \notin joined /\ CodesOf(RoleOf(u))' = CodesOf(RoleOf(u)),
           NEW p \in Requests, request'[p] = request[p]
    PROVE  ResolveOK(request[p])'
  <1> DEFINE x == request[p]
  <1>1. ResolveOK(x) /\ RequestOK(x)
    BY DEF CacheInv, Typed
  <1>2. CASE x.pc = "set"
    BY <1>1, <1>2, SoundKept DEF ResolveOK
  <1>3. CASE x.pc \in {"lookup", "query"}
    <2>1. x.by \in Users /\ x.version \in Nat /\ UpTo(x.by, x.version)
      BY <1>1, <1>3 DEF ResolveOK, RequestOK
    <2>2. Live(x.by) /\ x.version = users[x.by].version => x.role = RoleOf(x.by)
      BY <1>1, <1>3 DEF ResolveOK
    <2> QED
      BY <1>3, <2>1, <2>2, SoundKept DEF ResolveOK
  <1>4. CASE x.pc \notin {"lookup", "query", "set"}
    BY <1>4 DEF ResolveOK
  <1> QED
    BY <1>2, <1>3, <1>4

\* One request goes on, the tables stay.
LEMMA CacheOne ==
    ASSUME Typed, CacheInv, NEW q \in Requests, NEW x, ResolveOK(x), CoversOK(x),
           request' = [request EXCEPT ![q] = x], cache' \in Seq(Sound),
           UNCHANGED <<users, perms, active, joined>>
    PROVE  CacheInv'
  <1>1. Sound' = Sound
    BY DEF Sound, Entry, UpTo, Live, RoleOf, CodesOf
  <1>2. \A p \in Requests : ResolveOK(request'[p]) /\ CoversOK(request'[p])
    BY DEF CacheInv, Typed
  <1>3. \A p \in Requests : ResolveOK(request[p])'
    BY <1>1, <1>2 DEF ResolveOK, UpTo, Live, RoleOf
  <1>4. \A p \in Requests : CoversOK(request[p])'
    BY <1>2 DEF CoversOK, UsersOf, Live, RoleOf
  <1> QED
    BY <1>1, <1>3, <1>4 DEF CacheInv

\* The entries but a user's own.
LEMMA OthersSound ==
    ASSUME CacheInv, NEW u
    PROVE  Others(u) \in Seq(Sound)
  <1>1. CASE EntryOf(u) = {}
    BY <1>1 DEF Others, CacheInv
  <1>2. CASE EntryOf(u) # {}
    <2>1. PICK i \in EntryOf(u) : Others(u) = SubSeq(cache, 1, i - 1) \o SubSeq(cache, i + 1, Len(cache))
      BY <1>2 DEF Others
    <2>2. cache \in Seq(Sound) /\ i \in 1 .. Len(cache)
      BY SMT, <2>1 DEF CacheInv, EntryOf
    <2>3. SubSeq(cache, 1, i - 1) \in Seq(Sound) /\ SubSeq(cache, i + 1, Len(cache)) \in Seq(Sound)
      BY SMT, <2>2
    <2> QED
      BY SMT, <2>1, <2>3
  <1> QED
    BY <1>1, <1>2

\* Resolving the permissions of a caller, from the cache or by the query, keeps
\* the entries of the cache sound.
LEMMA CacheResolve ==
    ASSUME Typed, CacheInv, NEW q \in Requests, CacheGet(q) \/ QueryPermissions(q) \/ CacheSet(q)
    PROVE  CacheInv'
  <1> DEFINE old == request[q]
  <1>0. RequestOK(old) /\ ResolveOK(old) /\ ResolveOK(Vacant) /\ CoversOK(Vacant)
    BY DEF CacheInv, Typed, ResolveOK, CoversOK, Vacant
  <1>1. ASSUME NEW codes, Authorised(q, codes), cache' \in Seq(Sound), UNCHANGED <<users, perms, active, joined>>
        PROVE  CacheInv'
    <2> DEFINE x == [pc |-> "handler", by |-> old.by, o |-> old.o]
    <2>1. request' = [request EXCEPT ![q] = x] \/ request' = [request EXCEPT ![q] = Vacant]
      BY <1>1 DEF Authorised
    <2>2. ResolveOK(x) /\ CoversOK(x)
      BY DEF ResolveOK, CoversOK
    <2> HIDE DEF x
    <2> QED
      BY <1>0, <1>1, <2>1, <2>2, CacheOne
  <1>2. CASE CacheGet(q)
    <2> DEFINE x == [pc |-> "query", by |-> old.by, o |-> old.o, role |-> old.role, version |-> old.version]
    <2>1. CASE request' = [request EXCEPT ![q] = x] /\ UNCHANGED cache
      <3>1. ResolveOK(x) /\ CoversOK(x)
        BY <1>0, <1>2 DEF ResolveOK, CoversOK, CacheGet
      <3>2. cache' \in Seq(Sound)
        BY <2>1 DEF CacheInv
      <3> HIDE DEF x
      <3> QED
        BY <1>2, <2>1, <3>1, <3>2, CacheOne DEF CacheGet
    <2>2. CASE \E i \in DOMAIN cache :
                  cache' = Append(Others(old.by), cache[i]) /\ Authorised(q, cache[i].perms)
      <3>1. PICK i \in DOMAIN cache :
                  cache' = Append(Others(old.by), cache[i]) /\ Authorised(q, cache[i].perms)
        BY <2>2
      <3>2. cache[i] \in Sound /\ Others(old.by) \in Seq(Sound)
        BY SMT, <3>1, OthersSound DEF CacheInv
      <3>3. cache' \in Seq(Sound)
        BY SMT, <3>1, <3>2
      <3> QED
        BY <1>1, <1>2, <3>1, <3>3 DEF CacheGet
    <2>3. ASSUME EntryOf(old.by) # {}
          PROVE  EntryOf(old.by) \subseteq DOMAIN cache
      BY DEF EntryOf
    <2> QED
      BY <1>2, <2>1, <2>2, <2>3 DEF CacheGet
  <1>3. CASE QueryPermissions(q)
    <2> DEFINE set == CodesOf(old.role)
               x == [pc |-> "set", by |-> old.by, o |-> old.o, version |-> old.version, perms |-> set]
    <2>1. /\ old.by \in Users /\ old.version \in Nat /\ UpTo(old.by, old.version)
          /\ Live(old.by) /\ old.version = users[old.by].version => old.role = RoleOf(old.by)
      BY <1>0, <1>3 DEF ResolveOK, RequestOK, QueryPermissions
    <2>2. set \in SUBSET Codes
      BY DEF CacheInv, CodesOf
    <2>3. [user |-> old.by, version |-> old.version, perms |-> set] \in Sound
      BY <2>1, <2>2 DEF Sound, Entry
    <2>4. ResolveOK(x) /\ CoversOK(x)
      BY <2>3 DEF ResolveOK, CoversOK
    <2>5. /\ request' = [request EXCEPT ![q] = x] /\ cache' \in Seq(Sound)
          /\ UNCHANGED <<users, perms, active, joined>>
      BY <1>3 DEF QueryPermissions, CacheInv
    <2> HIDE DEF x
    <2> QED
      BY <2>4, <2>5, CacheOne
  <1>4. CASE CacheSet(q)
    <2> DEFINE entry == [user |-> old.by, version |-> old.version, perms |-> old.perms]
               all == Append(Others(old.by), entry)
    <2>1. entry \in Sound
      BY <1>0, <1>4 DEF ResolveOK, CacheSet
    <2> HIDE DEF entry
    <2>2. all \in Seq(Sound) /\ Len(all) \in Nat
      BY SMT, <2>1, OthersSound
    <2>3. cache' = SubSeq(all, Len(all) - (IF Len(all) > CacheSize THEN CacheSize ELSE Len(all)) + 1, Len(all))
      BY <1>4 DEF CacheSet, entry
    <2> HIDE DEF all
    <2> DEFINE kept == IF Len(all) > CacheSize THEN CacheSize ELSE Len(all)
    <2>4. kept \in 0 .. Len(all)
      <3> DEFINE n == Len(all)
      <3>1. n \in Nat /\ CacheSize \in Nat
        BY <2>2, AccountsAssumption
      <3> HIDE DEF n
      <3>2. (IF n > CacheSize THEN CacheSize ELSE n) \in 0 .. n
        BY SMT, <3>1
      <3> QED
        BY <3>2 DEF n
    <2> HIDE DEF kept
    <2>5. cache' \in Seq(Sound)
      <3>1. cache' = SubSeq(all, Len(all) - kept + 1, Len(all)) /\ Len(all) - kept + 1 \in 1 .. Len(all) + 1
        BY SMT, <2>2, <2>3, <2>4 DEF kept
      <3> QED
        BY SMT, <2>2, <3>1
    <2> QED
      BY <1>1, <1>4, <2>5 DEF CacheSet
  <1> QED
    BY <1>2, <1>3, <1>4

\* The beginning of a request, and the handlers' steps that only read.
LEMMA CacheRead ==
    ASSUME Typed, CacheInv, NEW q \in Requests, NEW u,
           \/ LoginRead(q, u) \/ (u \in Users /\ Request(q, u)) \/ LoginIssue(q) \/ UserRead(q)
           \/ create_role(q) \/ DeleteRoleRead(q)
           \/ RolePermissionsRead(q) \/ RolePermissionsDelete(q) \/ RolePermissionsInsert(q)
    PROVE  CacheInv'
  <1>1. /\ cache' \in Seq(Sound) /\ UNCHANGED <<users, perms, active, joined>>
        /\ request' = [request EXCEPT ![q] = request'[q]]
    BY DEF CacheInv, Typed, LoginRead, Request, get_current_user, LoginIssue, UserRead, create_role,
           DeleteRoleRead, RolePermissionsRead, RolePermissionsDelete, RolePermissionsInsert
  <1>2. CASE u \in Users /\ Request(q, u)
    <2>1. PICK o : get_current_user(q, u, o)
      BY <1>2 DEF Request
    <2> DEFINE x == [pc |-> "lookup", by |-> u, o |-> o, role |-> RoleOf(u), version |-> users[u].version]
    <2>2. users[u] \in UserRow /\ users[u] # NoUser
      BY <1>2, <2>1 DEF get_current_user, Accepted, Live, Typed
    <2>3. ResolveOK(x) /\ CoversOK(x)
      <3>1. x.pc = "lookup" /\ x.by = u /\ x.role = RoleOf(u) /\ x.version = users[u].version
        OBVIOUS
      <3> HIDE DEF x
      <3>2. users[u].version \in Nat
        BY <2>2 DEF UserRow
      <3>3. UpTo(u, users[u].version)
        <4>1. \A n \in Nat : n <= n
          BY SMT
        <4> QED
          BY <2>2, <3>2, <4>1, Zenon DEF UpTo
      <3>4. ResolveOK(x)
        BY <1>2, <3>1, <3>2, <3>3 DEF ResolveOK
      <3>5. CoversOK(x)
        BY <3>1 DEF CoversOK
      <3> QED
        BY <3>4, <3>5
    <2>4. request'[q] = x \/ request'[q].pc \in {"handler", "idle"}
      BY <2>1 DEF get_current_user, Vacant, Typed
    <2>5. request'[q].pc \in {"handler", "idle"} => ResolveOK(request'[q]) /\ CoversOK(request'[q])
      BY DEF ResolveOK, CoversOK
    <2> HIDE DEF x
    <2>6. ResolveOK(request'[q]) /\ CoversOK(request'[q])
      BY <2>3, <2>4, <2>5
    <2> QED
      BY <1>1, <2>6, CacheOne
  <1>3. CASE RolePermissionsInsert(q)
    <2>1. request'[q].pc \in {"bumped", "idle"}
          /\ (request'[q].pc = "bumped" => request'[q].bump = UsersOf(request'[q].o.role))
      BY <1>3 DEF RolePermissionsInsert, Vacant, Typed
    <2>2. ResolveOK(request'[q]) /\ CoversOK(request'[q])
      BY <2>1 DEF ResolveOK, CoversOK
    <2> QED
      BY <1>1, <2>2, CacheOne
  <1>4. CASE ~(u \in Users /\ Request(q, u)) /\ ~RolePermissionsInsert(q)
    <2>1. request'[q].pc \in {"idle", "login", "write", "drop", "delete", "insert"}
      <3>1. CASE LoginRead(q, u) \/ LoginIssue(q)
        <4>1. CASE LoginRead(q, u)
          BY <4>1 DEF LoginRead, Vacant, Typed
        <4>2. CASE LoginIssue(q)
          BY <4>2 DEF LoginIssue, Vacant, Typed
        <4> QED
          BY <3>1, <4>1, <4>2
      <3>2. CASE UserRead(q)
        BY <3>2 DEF UserRead, Vacant, Typed
      <3>3. CASE create_role(q) \/ DeleteRoleRead(q)
        <4>1. CASE create_role(q)
          BY <4>1 DEF create_role, Vacant, Typed
        <4>2. CASE DeleteRoleRead(q)
          BY <4>2 DEF DeleteRoleRead, Vacant, Typed
        <4> QED
          BY <3>3, <4>1, <4>2
      <3>4. CASE RolePermissionsRead(q)
        BY <3>4 DEF RolePermissionsRead, Vacant, Typed
      <3>5. CASE RolePermissionsDelete(q)
        BY <3>5 DEF RolePermissionsDelete, Vacant, Typed
      <3> QED
        BY <1>4, <3>1, <3>2, <3>3, <3>4, <3>5
    <2>2. ResolveOK(request'[q]) /\ CoversOK(request'[q])
      BY <2>1 DEF ResolveOK, CoversOK
    <2> QED
      BY <1>1, <2>2, CacheOne
  <1> QED
    BY <1>2, <1>3, <1>4

\* A role that goes has no users.
LEMMA CacheDrop ==
    ASSUME Typed, ClosedInv, CacheInv, NEW q \in Requests, DeleteRole(q)
    PROVE  CacheInv'
  <1>1. /\ UNCHANGED <<users, active, cache, joined>>
        /\ request' = [request EXCEPT ![q] = Vacant]
        /\ \A u \in Users : Live(u) => perms'[RoleOf(u)] = perms[RoleOf(u)]
    <2>1. \A u \in Users : Live(u) => RoleOf(u) \in Roles
      BY DEF Typed, Live, RoleOf, UserRow
    <2> DEFINE r == request[q].o.role
    <2>2. /\ UNCHANGED <<users, active, cache, joined>>
          /\ request' = [request EXCEPT ![q] = Vacant]
          /\ perms' = perms \/ (UsersOf(r) = {} /\ perms' = [perms EXCEPT ![r] = {}])
      BY DEF DeleteRole
    <2> HIDE DEF r
    <2>3. ASSUME NEW u \in Users, Live(u)
          PROVE  perms'[RoleOf(u)] = perms[RoleOf(u)]
      <3>1. UsersOf(r) = {} => RoleOf(u) # r
        BY <2>3 DEF UsersOf
      <3>2. RoleOf(u) \in Roles /\ perms = [x \in Roles |-> perms[x]]
        BY <2>1, <2>3 DEF ClosedInv
      <3> QED
        BY <2>2, <3>1, <3>2
    <2> QED
      BY <2>2, <2>3
  <1>2. \A u \in Users : Moved(u)
    BY <1>1 DEF Moved
  <1>3. \A u \in Users : Live(u) => CodesOf(RoleOf(u))' = CodesOf(RoleOf(u))
    BY <1>1 DEF CodesOf, RoleOf
  <1>4. cache' \in Seq(Sound')
    BY <1>1, <1>2, <1>3, SoundKept, SeqMonotone DEF CacheInv
  <1>5. ASSUME NEW p \in Requests
        PROVE  ResolveOK(request[p])' /\ CoversOK(request[p])'
    <2>1. CASE request'[p] = Vacant
      <3>1. request'[p].pc = "idle"
        BY SMT, <2>1 DEF Vacant
      <3>2. ResolveOK(request[p])'
        BY <3>1 DEF ResolveOK
      <3>3. CoversOK(request[p])'
        BY <3>1 DEF CoversOK
      <3> QED
        BY <3>2, <3>3
    <2>2. CASE request'[p] = request[p]
      <3>1. ResolveOK(request[p])'
        BY <1>1, <1>2, <1>3, <2>2, ResolveKept
      <3>2. CoversOK(request[p])'
        BY <1>1, <2>2 DEF CacheInv, CoversOK, UsersOf, Live, RoleOf
      <3> QED
        BY <3>1, <3>2
    <2> QED
      BY <1>1, <2>1, <2>2 DEF Typed
  <1> QED
    BY <1>1, <1>4, <1>5 DEF CacheInv

\* A write of a user, with its bump of the version, keeps them sound.
LEMMA CacheWrite ==
    ASSUME Typed, CacheInv, NEW q \in Requests, UserWrite(q)
    PROVE  CacheInv'
  <1> DEFINE t == TargetOf(q)
  <1>1. /\ UNCHANGED <<perms, active, cache>>
        /\ Pc(q) = "write" /\ request'[q] = Vacant
        /\ \A p \in Requests : Pc(p)' # "write" => request'[p] = Vacant \/ request'[p] = request[p]
    BY DEF UserWrite, Pc, Vacant
  <1>2. /\ \A u \in Users \ {t} : users'[u] = users[u] /\ (u \in joined' <=> u \in joined)
        /\ ~Effective(q) => users' = users /\ joined' = joined
    BY WriteRows DEF UserWrite
  <1>3. ASSUME Effective(q)
        PROVE  users[t] = NoUser \/ users'[t] = Gone
               \/ (users[t] \in UserRow /\ users'[t] \in UserRow /\ users'[t].version > users[t].version)
    <2> DEFINE o == request[q].o
               old == users[t]
    <2>1. users'[t] = Written(o, old) /\ users'[t] \in UserRow \cup {NoUser, Gone} /\ old \in UserRow \cup {NoUser, Gone}
      BY <1>3, WriteRows DEF Typed
    <2>2. CASE o.op = "create_user"
      BY <1>3, <2>2 DEF Effective
    <2>3. CASE o.op # "create_user"
      <3>1. old \in UserRow /\ old.version \in Nat
        BY <1>3, <2>1, <2>3 DEF Effective, Live, UserRow
      <3>2. Written(o, old) = Gone \/ Written(o, old).version = old.version + 1
        BY <2>3 DEF Written
      <3>3. Written(o, old) \in UserRow \cup {Gone}
        BY <1>1, <1>3, WrittenIsRow
      <3>4. users'[t] = Gone \/ (users'[t] \in UserRow /\ users'[t].version = users[t].version + 1)
        BY <2>1, <3>2, <3>3
      <3>5. users[t] \in UserRow /\ users[t].version + 1 > users[t].version
        BY SMT, <3>1
      <3> HIDE DEF o, old
      <3> QED
        BY <3>4, <3>5
    <2> QED
      BY <2>2, <2>3
  <1>4. \A u \in Users : Moved(u)
    BY <1>2, <1>3 DEF Moved
  <1>5. \A u \in Users : Live(u) /\ users'[u] = users[u] /\ u \notin joined'
            => u \notin joined /\ CodesOf(RoleOf(u))' = CodesOf(RoleOf(u))
    <2> SUFFICES ASSUME NEW u \in Users, Live(u), users'[u] = users[u], u \notin joined'
                 PROVE  u \notin joined /\ CodesOf(RoleOf(u))' = CodesOf(RoleOf(u))
      OBVIOUS
    <2>1. u \notin joined
      <3>1. CASE u # t \/ ~Effective(q)
        BY <1>2, <3>1
      <3>2. CASE u = t /\ Effective(q)
        <4>1. users[u] # NoUser /\ users'[u] # Gone
          BY DEF Live
        <4>2. users[u] \in UserRow /\ users[u].version > users[u].version
          BY <1>3, <3>2, <4>1
        <4>3. users[u].version \in Nat
          BY <4>2 DEF UserRow
        <4> QED
          BY SMT, <4>2, <4>3
      <3> QED
        BY <3>1, <3>2
    <2> QED
      BY <1>1, <2>1 DEF CodesOf, RoleOf
  <1>6. cache' \in Seq(Sound')
    BY <1>1, <1>4, <1>5, SoundKept, SeqMonotone DEF CacheInv
  <1>7. ASSUME NEW p \in Requests
        PROVE  ResolveOK(request[p])'
    <2>1. CASE Pc(p)' \in {"write", "idle"}
      BY <2>1 DEF ResolveOK, Pc
    <2>2. CASE request'[p] = request[p]
      BY <1>4, <1>5, <2>2, ResolveKept
    <2> QED
      BY SMT, <1>1, <2>1, <2>2 DEF Pc, Vacant
  <1>8. ASSUME NEW p \in Requests
        PROVE  CoversOK(request[p])'
    <2> SUFFICES ASSUME Pc(p)' = "bumped", NEW u \in UsersOf(request[p].o.role)'
                 PROVE  u \in request'[p].bump \cup joined'
      BY DEF CoversOK, Pc
    <2>1. request'[p] = request[p] /\ Pc(p) = "bumped" /\ p # q
      <3>1. request'[p] = Vacant \/ request'[p] = request[p]
        BY <1>1
      <3>2. request'[p] # Vacant /\ p # q
        BY SMT, <1>1 DEF Pc, Vacant
      <3> QED
        BY <3>1, <3>2 DEF Pc
    <2>2. CASE users'[u] = users[u] /\ (u \in joined' <=> u \in joined)
      BY <2>1, <2>2 DEF CacheInv, CoversOK, UsersOf, Live, RoleOf, Pc
    <2>3. CASE u = t /\ Effective(q)
      <3>1. users'[t] # Gone /\ users'[t].role = request[p].o.role
        BY <2>1, <2>3 DEF UsersOf, Live, RoleOf
      <3>2. Changing(users'[t].role, q)
        BY <2>1, <3>1 DEF Changing, Pc
      <3>3. t \in joined'
        BY <2>3, <3>1, <3>2, WriteRows DEF UserWrite, Table
      <3> QED
        BY <2>3, <3>3
    <2> QED
      BY <1>2, <2>2, <2>3 DEF UsersOf
  <1> QED
    BY <1>1, <1>6, <1>7, <1>8 DEF CacheInv

\* Whom a commit does not bump has joined; the versions of the others are added to.
LEMMA CacheCommit ==
    ASSUME Typed, ClosedInv, CacheInv, NEW q \in Requests, RolePermissionsCommit(q)
    PROVE  CacheInv'
  <1> DEFINE x == request[q]
             r == x.o.role
  <1>1. /\ UNCHANGED <<active, cache>> /\ x.pc = "bumped" /\ r \in Roles
        /\ perms' = [perms EXCEPT ![r] = (@ \ x.del) \cup x.new]
        /\ joined' = IF Changing(r, q) THEN joined \cup x.bump ELSE joined \ x.bump
        /\ request' = Committed(q)
        /\ x.bump \subseteq UsersOf(r)
        /\ UsersOf(r) \subseteq x.bump \cup joined
    BY DEF RolePermissionsCommit, Typed, RequestOK, RowsOK, CacheInv, CoversOK
  <1>2. \A u \in Users : Moved(u)
    <2> TAKE u \in Users
    <2>1. CASE u \notin x.bump
      <3>1. users'[u] = users[u]
        BY <2>1, CommitRows
      <3> QED
        BY <3>1 DEF Moved
    <2>2. CASE u \in x.bump
      <3>1. users[u] \in UserRow /\ users'[u] \in UserRow /\ users'[u].version = users[u].version + 1
        BY <2>2, CommitRows
      <3>2. users[u].version \in Nat
        BY <3>1 DEF UserRow
      <3> QED
        BY SMT, <3>1, <3>2 DEF Moved
    <2> QED
      BY <2>1, <2>2
  <1>3. ASSUME NEW u \in Users, Live(u), users'[u] = users[u], u \notin joined'
        PROVE  u \notin joined /\ CodesOf(RoleOf(u))' = CodesOf(RoleOf(u))
    <2>1. u \notin x.bump
      <3> SUFFICES ASSUME u \in x.bump
                   PROVE  FALSE
        OBVIOUS
      <3>1. users[u] \in UserRow /\ users'[u].version = users[u].version + 1
        BY CommitRows
      <3>2. users[u].version \in Nat
        BY <3>1 DEF UserRow
      <3> QED
        BY SMT, <1>3, <3>1, <3>2
    <2>2. u \notin joined /\ u \notin UsersOf(r)
      BY <1>1, <1>3, <2>1
    <2>3. RoleOf(u) # r /\ RoleOf(u) \in Roles /\ RoleOf(u)' = RoleOf(u)
      BY <1>3, <2>2 DEF UsersOf, Typed, Live, RoleOf, UserRow
    <2>4. perms'[RoleOf(u)] = perms[RoleOf(u)]
      BY <1>1, <2>3 DEF ClosedInv
    <2> QED
      BY <1>1, <2>2, <2>3, <2>4 DEF CodesOf
  <1>4. cache' \in Seq(Sound')
    BY <1>1, <1>2, <1>3, SoundKept, SeqMonotone DEF CacheInv
  <1>5. ASSUME NEW p \in Requests
        PROVE  ResolveOK(request[p])'
    <2>1. CASE request'[p].pc \in {"insert", "idle"}
      BY <2>1 DEF ResolveOK
    <2>2. CASE request'[p] = request[p]
      BY <1>2, <1>3, <2>2, ResolveKept
    <2> QED
      BY <1>1, <2>1, <2>2 DEF Committed, Vacant
  <1>6. ASSUME NEW p \in Requests
        PROVE  CoversOK(request[p])'
    <2> SUFFICES ASSUME request'[p].pc = "bumped", NEW u \in UsersOf(request[p].o.role)'
                 PROVE  u \in request'[p].bump \cup joined'
      BY DEF CoversOK
    <2>1. request'[p] = request[p] /\ p # q
      BY <1>1 DEF Committed, Vacant
    <2>2. u \in UsersOf(request[p].o.role)
      <3>1. u \in Users /\ users'[u] \in UserRow /\ users'[u].role = request[p].o.role
        BY <2>1, CommitRows DEF UsersOf, Live, RoleOf
      <3>2. users[u] \in UserRow /\ users[u].role = request[p].o.role
        BY <3>1, CommitRows
      <3> QED
        BY <3>1, <3>2, AccountsAssumption DEF UsersOf, Live, RoleOf
    <2>3. u \in request[p].bump \cup joined
      BY <2>1, <2>2 DEF CacheInv, CoversOK
    <2>4. CASE request[p].o.role = r
      <3>1. Changing(r, q)
        BY <2>1, <2>4 DEF Changing
      <3> QED
        BY <1>1, <2>1, <2>3, <3>1
    <2>5. CASE request[p].o.role # r
      <3>1. u \notin x.bump
        BY <1>1, <2>2, <2>5 DEF UsersOf
      <3> QED
        BY <1>1, <2>1, <2>3, <3>1
    <2> QED
      BY <2>4, <2>5
  <1> QED
    BY <1>1, <1>4, <1>5, <1>6 DEF CacheInv

\* Every step keeps them sound.
LEMMA CacheStep ==
    Typed /\ ClosedInv /\ CacheInv /\ [AccountsNext]_accountsVars => CacheInv'
  <1> SUFFICES ASSUME Typed, ClosedInv, CacheInv, [AccountsNext]_accountsVars
               PROVE  CacheInv'
    OBVIOUS
  <1>1. CASE UNCHANGED accountsVars
    <2>1. Sound' = Sound
      BY <1>1 DEF Sound, Entry, UpTo, Live, RoleOf, CodesOf, accountsVars
    <2>2. ASSUME NEW p \in Requests
          PROVE  ResolveOK(request[p])' /\ CoversOK(request[p])'
      <3>1. ResolveOK(request[p]) /\ CoversOK(request[p])
        BY DEF CacheInv
      <3>2. ResolveOK(request[p])'
        BY <1>1, <2>1, <3>1 DEF ResolveOK, UpTo, Live, RoleOf, accountsVars
      <3>3. CoversOK(request[p])'
        BY <1>1, <3>1 DEF CoversOK, UsersOf, Live, RoleOf, accountsVars
      <3> QED
        BY <3>2, <3>3
    <2> QED
      BY <1>1, <2>1, <2>2 DEF CacheInv, accountsVars
  <1>2. ASSUME NEW registry \in Registries, sync_permissions(registry)
        PROVE  CacheInv'
    <2>1. registry \subseteq Codes
      BY AccountsAssumption
    <2>2. ASSUME NEW p \in Requests
          PROVE  ResolveOK(request[p])' /\ CoversOK(request[p])'
      <3>1. request'[p] = Vacant
        BY <1>2, Restarted
      <3>2. request'[p].pc = "idle"
        BY SMT, <3>1 DEF Vacant
      <3>3. ResolveOK(request[p])'
        BY <3>2 DEF ResolveOK
      <3>4. CoversOK(request[p])'
        BY <3>2 DEF CoversOK
      <3> QED
        BY <3>3, <3>4
    <2>3. active' \subseteq Codes /\ cache' \in Seq(Sound)'
      <3>1. \A S : <<>> \in Seq(S)
        BY SMT
      <3>2. active' = registry /\ cache' = <<>>
        BY <1>2, Restarted
      <3> QED
        BY <2>1, <3>1, <3>2
    <2> QED
      BY <2>2, <2>3 DEF CacheInv
  <1>3. ASSUME NEW q \in Requests, Handle(q)
        PROVE  CacheInv'
    <2>1. CASE \/ LoginIssue(q) \/ UserRead(q) \/ create_role(q) \/ DeleteRoleRead(q)
               \/ RolePermissionsRead(q) \/ RolePermissionsDelete(q) \/ RolePermissionsInsert(q)
      BY <2>1, CacheRead
    <2> QED
      BY <1>3, <2>1, CacheResolve, CacheDrop, CacheWrite, CacheCommit DEF Handle
  <1>4. ASSUME NEW registry \in Registries, SyncedElsewhere(registry)
        PROVE  CacheInv'
    <2>1. /\ active' \subseteq Codes /\ UNCHANGED <<users, perms, cache, request>>
          /\ \/ active' = active /\ joined' = joined
             \/ joined' = Users
      BY <1>4, StartedElsewhere, AccountsAssumption
    <2>2. ASSUME NEW u \in Users, u \notin joined'
          PROVE  u \notin joined /\ CodesOf(RoleOf(u))' = CodesOf(RoleOf(u))
      BY <2>1, <2>2 DEF CodesOf, RoleOf
    <2>3. \A u \in Users : Moved(u)
      BY <2>1 DEF Moved
    <2>4. Sound \subseteq Sound'
      BY <2>2, <2>3, SoundKept
    <2>5. cache' \in Seq(Sound)'
      BY <2>1, <2>4, SeqMonotone DEF CacheInv
    <2>6. ASSUME NEW p \in Requests
          PROVE  ResolveOK(request[p])' /\ CoversOK(request[p])'
      <3>1. ResolveOK(request[p])'
        BY <2>1, <2>2, <2>3, ResolveKept
      <3>2. CoversOK(request[p])'
        <4>1. CoversOK(request[p]) /\ UsersOf(request[p].o.role)' = UsersOf(request[p].o.role)
          BY <2>1 DEF CacheInv, UsersOf, Live, RoleOf
        <4>2. UsersOf(request[p].o.role) \subseteq Users
          BY DEF UsersOf
        <4> QED
          BY <2>1, <4>1, <4>2 DEF CoversOK
      <3> QED
        BY <3>1, <3>2
    <2> QED
      BY <2>1, <2>5, <2>6 DEF CacheInv
  <1> QED
    BY <1>1, <1>2, <1>3, <1>4, CacheRead DEF AccountsNext

(* However many requests overlap, what the cache holds under a user's       *)
(* present version is what the database grants, save for a user put into a  *)
(* role whose change was not committed yet, and until a version is added to *)
(* when another process has registered other codes (deps.py,                *)
(* permission_cache.py, permission_sync.py).                                *)
THEOREM CacheIsCurrent == AccountsSpec => []CacheCurrent
  <1>1. ASSUME AccountsInit
        PROVE  CacheInv
    <2>1. \A q \in Requests : request[q].pc = "idle"
      BY <1>1 DEF AccountsInit, Vacant
    <2>2. \A q \in Requests : ResolveOK(request[q]) /\ CoversOK(request[q])
      BY <2>1 DEF ResolveOK, CoversOK
    <2>3. active \subseteq Codes /\ cache = <<>>
      BY <1>1 DEF AccountsInit
    <2> QED
      BY SMT, <2>2, <2>3 DEF CacheInv
  <1>2. ASSUME CacheInv
        PROVE  CacheCurrent
    <2>1. \A i \in DOMAIN cache : cache[i] \in Sound
      BY SMT, <1>2 DEF CacheInv
    <2> QED
      BY <2>1 DEF CacheCurrent, Sound
  <1> QED
    BY <1>1, <1>2, TypedInit, TypedStep, ClosedFirst, ClosedStep, CacheStep, PTL DEF AccountsSpec

=============================================================================
