SPECIFICATION MCSpec
CONSTANTS
    c1 = c1
    c2 = c2
    c3 = c3
    w1 = w1
    w2 = w2
    l1 = l1
    l2 = l2
    l3 = l3
    k1 = k1
    k2 = k2
    n1 = n1
    n2 = n2
    n3 = n3
    n4 = n4
    q1 = q1
    Calls <- ThreeCalls
    FailureThreshold = 3
    SuccessThreshold = 2
    Callers <- TwoCallers
    MaxAttempts = 4
    InitialDelay = 4
    MaxDelay = 10
    Multiplier = 2
    Errors <- TwoErrors
    RetryableErrors <- OneRetryable
    Nothing = Nothing
    Lockers <- ThreeLockers
    MaxTries = 2
    Free = Free
    Orphan = Orphan
    Requests <- OneRequest
    Keys <- TwoKeys
    Counters <- OneCounter
    NoKey = NoKey
    MaxFallbackSize = 1
    MaxVersion = 2
    Jobs <- OneJob
    MaxStalled = 1
    MaxCrashes = 1
    Users <- OneUser
    Roles <- OneRole
    Permissions <- TwoPermissions
    Checks <- OneCheck
    Admins <- OneAdmin
    Ops <- AllOps
    CacheFails = TRUE
INVARIANTS 
    RetryContract  JobsAccountedFor
PROPERTIES 
    SwitchesOnStreaks LockProtects EverythingEnds HealsItself
