SPECIFICATION Spec
CONSTANTS
    u1 = u1
    u2 = u2
    s1 = s1
    s2 = s2
    s3 = s3
    s4 = s4
    x1 = x1
    x2 = x2
    x3 = x3
    notifications = notifications
    alerts = alerts
    Users <- TwoUsers
    Sockets <- FourSockets
    Sessions <- ThreeSessions
    Channels <- OneChannel
    Notifications = notifications
    UserOf <- Owner
    SessionOf <- Session
INVARIANTS UserReached
