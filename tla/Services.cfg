SPECIFICATION MCSpec
CONSTANTS
    u1 = u1
    u2 = u2
    s1 = s1
    s2 = s2
    s3 = s3
    s4 = s4
    x1 = x1
    x2 = x2
    x3 = x3
    notifications = notifications
    Users <- TwoUsers
    Sockets <- FourSockets
    Sessions <- ThreeSessions
    Channels <- OneChannel
    Notifications = notifications
    UserOf <- Owner
    SessionOf <- Session
    Handlers <- TwoUsers
    Notifier = u1
    MaxHandlers = 3
    Managers <- TwoSockets
    Cooldown = 2
    MaxAlertTime = 4
    Subjects <- OneUser
    Seeders <- TwoUsers
    Creators <- OneSession
    PermIds <- ThreeIds
    RoleIds <- TwoSessions
    Unset = Unset
    LoginSessions <- OneSession
    Unstored = Unstored
    Refreshes <- TwoSockets
    NoToken = NoToken
    AccessLife = 1
    RefreshLife = 2
    MailLife = 1
    SessionLife = 2
    MaxTokenTime = 7
    Places <- TwoSockets
    Devices <- TwoSessions
    NoPlace = NoPlace
    MaxAttempts = 3
    Pauses <- ShortAndLong
    MonthStarts <- Months
    WeekLength = 2
    MaxLogged = 2
SYMMETRY SameSession
INVARIANTS 
    SocketsServed HandlersServed WorkersAsPromised AlertsCooled
      ReportsAddUp
PROPERTIES 
    ScoresMoveRight
CHECK_DEADLOCK FALSE
