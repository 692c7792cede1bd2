SPECIFICATION FairSpec
CONSTANTS
    Users = {u}
    Kinds = {"tgbot", "insta"}
    Handlers = {h1}
    None = None
    MaxFaults = 2
INVARIANTS
    TypeOK
    RowsAreTrue
PROPERTY ExpiredIsSwitchedOff
CHECK_DEADLOCK FALSE
