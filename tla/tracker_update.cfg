SPECIFICATION Spec
CONSTANTS
    Login = {alice}
    EmptyLogin = EmptyLogin
    NoEntry = NoEntry
    Cookie = {c1}
    Password = {p1}
    Name = {chess}
    Address = {a1, a2}
    Csr = {k1, BadCsr}
    BadCsr = BadCsr
    MayFail = FALSE
    Worker = {w1}
    Request <- Messages
    NoRequest = NoRequest
    Types <- AllTypes
    Offered <- OnlyClosed
INVARIANTS
    UpdateIsRecorded
