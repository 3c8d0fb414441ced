SPECIFICATION MCSpec
CONSTANTS
    Parts = {"sessions", "devices", "webhooks", "profile", "trust", "pages", "guards"}
    u1 = u1
    u2 = u2
    s1 = s1
    s2 = s2
    s3 = s3
    x1 = x1
    y1 = y1
    y2 = y2
    admin = admin
    Nobody = Nobody
    Users <- TwoUsers
    Sessions <- ThreeSessions
    Procs <- OneProc
    Ops <- AllOps
    MayFail = FALSE
    Aging = TRUE
    Owners <- TwoUsers
    Machines <- OneRecord
    DeviceIds <- TwoIds
    DeviceRequests <- TwoRequests
    NoDevice = NoDevice
    UnusedDays = 1
    MaxDay = 2
    Hooks <- OneRecord
    Editors <- TwoIds
    Publishers <- OneProc
    NoHook = NoHook
    MaxSecret = 1
    MaxDeliveries = 1
    ProfileRequests <- TwoIds
    NoProfile = NoProfile
    MaxVersion = 3
    Agents <- OneProc
    Locations <- OneRecord
    NoLocation = NoLocation
    Addresses <- OneRecord
    TrustIds <- TwoIds
    Logins <- TwoRequests
    MaxLimit = 2
    AskedLimits <- LimitsAroundTheMaximum
    MaxEntries = 4
    GuardRequests <- OneProc
    Rights <- ThreeRights
    Admin = admin
    MaxGrants = 2
SYMMETRY Symmetry
INVARIANTS 
    OwnersObeyed  
    PagesComplete  EverythingTraced
PROPERTIES 
    StoreInOrder  DevicesKept
CHECK_DEADLOCK FALSE
