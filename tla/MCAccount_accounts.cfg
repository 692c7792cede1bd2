SPECIFICATION OneTabSpec
CONSTANTS
    Users = {u1, u2, u3}
    Mails = {m1, m2}
    Clients = {c1, c2}
    Handlers = {h1, h2}
    Passwords = {p1, p2}
    Garbage = Garbage
    OldUser = u1  OldMail = m1  OldPass = p1
    MaxKeys = 4
    MaxRestarts = 1
    None = None
SYMMETRY Interchangeable
INVARIANTS
    TypeOK
    OneAccountPerMail
    PasswordIsLatest
    FinalizeNotForgotten
