SPECIFICATION CarefulSpec
CONSTANTS
    k1 = k1  k2 = k2
    w1 = w1  w2 = w2
    p1 = p1  p2 = p2
    Keys      <- TwoKeys
    Passwords <- TwoPasswords
    Kinds     <- ThreeKinds
    Procs     <- TwoProcs
    NoKey = NoKey  NoWrap = NoWrap  NoPassword = NoPassword
    MaxFaults   = 1
    MaxRestarts = 1
SYMMETRY Interchangeable
INVARIANTS
    TypeOK
    NoKeyIsLost
    KeyFitsAccount
PROPERTIES
    EncryptsUnderSavedKey
