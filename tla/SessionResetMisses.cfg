SPECIFICATION Spec
CONSTANTS
    u1 = u1
    s1 = s1
    s2 = s2
    p1 = p1
    p2 = p2
    Nobody = Nobody
    Users <- OneUser
    Sessions <- TwoSessions
    Procs <- TwoProcs
    Ops <- ResetOps
    MayFail = FALSE
    Aging = FALSE
INVARIANTS ResetTerminatesAll
