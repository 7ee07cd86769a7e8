SPECIFICATION Spec
CONSTANTS
    b = b
    ann = ann
    anna = anna
    bob = bob
    Client = {a}
    Login <- MCLogin
    EmptyLogin = EmptyLogin
    Own <- MCOwn
    Password = {p, q}
    Cookie = {c, d}
    NoEntry = NoEntry
CHECK_DEADLOCK FALSE
INVARIANTS
    TypeOK
    IdentityKept
    PasswordKnown
    SessionHeld
