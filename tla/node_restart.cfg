SPECIFICATION RestartSpec
CONSTANTS
    b = b
    ann = ann
    anna = anna
    bob = bob
    Client = {a, b}
    Login <- MCLogin
    EmptyLogin = EmptyLogin
    Own <- MCOwn
    Password = {p}
    Cookie = {c}
    NoEntry = NoEntry
CHECK_DEADLOCK FALSE
INVARIANTS
    IdentityKept
