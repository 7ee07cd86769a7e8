SPECIFICATION Spec
CONSTANTS
    Cookie = {c1, c2, c3}
    Login = {alice, bob}
    NoEntry = NoEntry
    EmptyLogin = EmptyLogin
    Thread = {d1}
    RefresheRate = 1
    Ttl = 2
    MaxTime = 4
INVARIANTS
    TypeOK
    TimedHaveLogin
PROPERTIES
    ImplementsSessions
