SPECIFICATION Spec
CONSTANTS
    u1 = u1
    u2 = u2
    w1 = w1
    w2 = w2
    t1 = t1
    t2 = t2
    p1 = p1
    p2 = p2
    p3 = p3
    None = None
    Users <- OneUser
    Passwords <- TwoPasswords
    Tokens <- OneToken
    Procs <- TwoProcs
    MaxAttempts = 3
    Ops <- ResetOps
SYMMETRY Symmetry
PROPERTIES PasswordSticks
