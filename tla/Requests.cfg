SPECIFICATION MCSpec
CONSTANTS
    a1 = a1
    a2 = a2
    x1 = x1
    x2 = x2
    y1 = y1
    y2 = y2
    z1 = z1
    z2 = z2
    t1 = t1
    t2 = t2
    n1 = n1
    n2 = n2
    Slots <- TwoActors
    Endpoints <- LoginOnly
    Limiters <- Nowhere
    MaxRequests <- Limits
    Window = 3
    MaxTime = 4
    Requests <- TwoActors
    Keys <- OneKey
    Counters <- OneCounter
    NoKey = NoKey
    MaxFallbackSize = 1
    MaxVersion = 2
    MfaRequests <- TwoActors
    Challenges <- TwoX
    BackupCodes <- TwoY
    CodesPerSetup = 1
    NoChallenge = NoChallenge
    StoresMfa = TRUE
    Callbacks <- TwoActors
    States <- OneCounter
    Profiles <- TwoX
    Emails <- TwoY
    UserIds <- TwoZ
    AccountIds <- TwoT
    Nil = Nil
SYMMETRY Interchangeable
INVARIANTS 
      ChallengeOnce DuplicatesNeedOverlap AnswersAreSound
 
    
