SPECIFICATION CarefulSpec
CONSTANTS
    Handlers = {h1, h2}
    Secrets = {s1, s2, s3}
    OldSecret = s1
    MaxTokens = 3
    MaxLogins = 2
    MaxStores = 3
    MaxRequests = 5
    MaxRestarts = 1
    None = None
SYMMETRY Interchangeable
INVARIANTS
    TypeOK
    SecondFactorUsable
    SessionSurvives
PROPERTIES
    OneEntryPerLogin
\* Once MaxRequests were made, nobody asks and the server waits.
CHECK_DEADLOCK FALSE
