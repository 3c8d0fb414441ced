SPECIFICATION Spec
CONSTANTS
    u1 = u1
    u2 = u2
    r1 = r1
    r2 = r2
    q1 = q1
    q2 = q2
    k1 = k1
    k2 = k2
    a1 = a1
    a2 = a2
    Users <- OneUser
    Roles <- OneRole
    Permissions <- TwoPermissions
    Checks <- TwoChecks
    Admins <- TwoAdmins
    Ops <- AllOps
    CacheFails = TRUE
SYMMETRY Symmetry
INVARIANTS StaleExplained UpdateExact
