SPECIFICATION MCSpec
CONSTANTS
    Parts = {"sessions"}
    u1 = u1
    u2 = u2
    s1 = s1
    s2 = s2
    s3 = s3
    x1 = x1
    y1 = y1
    y2 = y2
    admin = admin
    Nobody = Nobody
    Users <- TwoUsers
    Sessions <- TwoSessions
    Procs <- TwoRequests
    Ops <- NoTouchOps
    MayFail = TRUE
    Aging = FALSE
    Owners <- TwoUsers
    Machines <- OneIdle
    DeviceIds <- TwoIds
    DeviceRequests <- TwoRequests
    NoDevice = NoDevice
    UnusedDays = 1
    MaxDay = 2
    Hooks <- OneIdle
    Editors <- TwoIds
    Publishers <- OneIdle
    NoHook = NoHook
    MaxSecret = 1
    MaxDeliveries = 1
    ProfileRequests <- TwoIds
    NoProfile = NoProfile
    MaxVersion = 3
    Agents <- OneIdle
    Locations <- OneIdle
    NoLocation = NoLocation
    Addresses <- OneIdle
    TrustIds <- TwoIds
    Logins <- TwoRequests
    MaxLimit = 2
    AskedLimits <- LimitsAroundTheMaximum
    MaxEntries = 4
    GuardRequests <- OneIdle
    Rights <- ThreeRights
    Admin = admin
    MaxGrants = 2
SYMMETRY SessionSymmetry
INVARIANTS IndexOwnership AnsweredMeansEnded
PROPERTIES NoForeignTermination LifecycleSpec
