----------------------------- MODULE MCAccounts -----------------------------
(* Two requests at a time; two accounts of superadmins, one of a role. *)
EXTENDS Accounts, TLC

CONSTANTS u1, u2, u3, r0, r1, r2

Symmetry == Permutations(Requests)

MCCodes == {"auth:view", "auth:manage", "sync:view"}
MCViewOf == [c \in MCCodes |-> IF c = "auth:manage" THEN "auth:view" ELSE NoCode]
\* Every registry with an action has its view, like permissions.py.
MCRegistries == {MCCodes \ {"sync:view"}, {"auth:view", "sync:view"}}
MCCodeSets == {{"auth:manage"}, {"sync:view"}}

Row(r, on) == [role |-> r, is_active |-> on, version |-> 0]
\* The second superadmin is active or not; or there is one, and a free id.
MCFirstUsers ==
    {u1 :> Row(r0, TRUE) @@ u2 :> Row(r0, on) @@ u3 :> Row(r1, TRUE) : on \in BOOLEAN}
    \cup {u1 :> Row(r0, TRUE) @@ u2 :> NoUser @@ u3 :> Row(r1, TRUE)}
MCFirstPerms == r0 :> {} @@ r1 :> {"auth:view", "sync:view"}

=============================================================================
