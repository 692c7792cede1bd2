SPECIFICATION Spec
CONSTANTS
    u1 = u1  u2 = u2  k1 = k1
    r1 = r1  r2 = r2  r3 = r3
    p1 = p1  p2 = p2
    Users <- OneUser
    Quota <- TightQuota
    Sizes <- SmallSizes
    Keys  <- NoKeys
    Ids   <- TwoIds
    Procs <- TwoProcs
    NoKey = NoKey  NoId = NoId  NoUser = NoUser
    MaxFaults  = 0
    MaxCrashes = 0
PROPERTIES
    CommitsOnce
