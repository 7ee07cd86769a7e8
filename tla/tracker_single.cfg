SPECIFICATION Spec
CONSTANTS
    Login = {alice, bob}
    EmptyLogin = EmptyLogin
    NoEntry = NoEntry
    Cookie = {c1, c2}
    Password = {p1, p2}
    Name = {chess}
    Address = {a1}
    Csr = {BadCsr}
    BadCsr = BadCsr
    MayFail = TRUE
    Worker = {w1}
    Request <- Messages
    NoRequest = NoRequest
    Types <- CoreTypes
    Offered <- Mixed
INVARIANTS
    TypeOK
    ServersAuthorised
    ListsOnlyPermitted
PROPERTIES
    CredentialsChecked
