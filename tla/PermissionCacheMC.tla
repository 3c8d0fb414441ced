--------------------------- MODULE PermissionCacheMC ---------------------------
(* Small instances of PermissionCache. *)
EXTENDS PermissionCache, TLC

CONSTANTS u1, u2, r1, r2, q1, q2, k1, k2, a1, a2

OneUser == {u1}
TwoUsers == {u1, u2}
OneRole == {r1}
OnePermission == {q1}
TwoPermissions == {q1, q2}
OneCheck == {k1}
TwoChecks == {k1, k2}
OneAdmin == {a1}
TwoAdmins == {a1, a2}

UserOps == {"assign", "unassign"}

Symmetry == Permutations(Users) \cup Permutations(Roles) \cup Permutations(Permissions)
              \cup Permutations(Checks) \cup Permutations(Admins)
=============================================================================
