SPECIFICATION TokenSpec
CONSTANTS
    LoginSessions = {login}
    Unstored = unstored
    Refreshes = {r1}
    NoToken = NoToken
    AccessLife = 1
    RefreshLife = 2
    MailLife = 1
    SessionLife = 2
    MaxTokenTime = 5
PROPERTIES
    RevokedIsRejected
CHECK_DEADLOCK FALSE
