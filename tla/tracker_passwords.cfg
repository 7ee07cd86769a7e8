SPECIFICATION HSpec
CONSTANTS
    Login = {alice, bob}
    EmptyLogin = EmptyLogin
    NoEntry = NoEntry
    Cookie = {c1, c2}
    Password = {p1, p2}
    Name = {chess}
    Address = {a1}
    Csr = {BadCsr}
    BadCsr = BadCsr
    MayFail = FALSE
    Worker = {w1, w2}
    Request <- Messages
    NoRequest = NoRequest
    Types = {"REGISTER", "LOGIN", "CHANGE_PASSWORD", "UNREGISTER", "REMOVE_USER"}
    Offered <- OnlyClosed
PROPERTIES
    CredentialsSanctioned
SYMMETRY Threads
