SPECIFICATION HSpec
CONSTANTS
    Login = {alice, bob}
    EmptyLogin = EmptyLogin
    NoEntry = NoEntry
    Cookie = {c1, c2}
    Password = {p1}
    Name = {chess}
    Address = {a1}
    Csr = {BadCsr}
    BadCsr = BadCsr
    MayFail = FALSE
    Worker = {w1, w2}
    Request <- Messages
    NoRequest = NoRequest
    Types = {"REGISTER", "LOGIN", "UNREGISTER", "CREATE_NETWORK", "DELETE_NETWORK", "UPDATE_SERVER", "LIST_SERVERS"}
    Offered <- Mixed
INVARIANTS
    RefIntegrity
PROPERTIES
    OnlyOwnerDeletes
    ImplementsDirectory
    ServersSanctioned
    ListsSanctioned
SYMMETRY Threads
