SPECIFICATION FairSpec
CONSTANTS
    Login = {alice, EmptyLogin}
    EmptyLogin = EmptyLogin
    NoEntry = NoEntry
    Cookie = {c1}
    Password = {p1}
    Name = {chess}
    Address = {a1}
    Csr = {k1, BadCsr}
    BadCsr = BadCsr
    MayFail = FALSE
    Worker = {w1, w2}
    Request <- Messages
    NoRequest = NoRequest
    Types = {"REGISTER", "LOGIN", "REMOVE_USER", "CREATE_NETWORK", "DELETE_NETWORK", "UPDATE_SERVER", "SIGN_KEY"}
    Offered <- OnlyClosed
INVARIANTS
    RefIntegrity
PROPERTIES
    Answered
