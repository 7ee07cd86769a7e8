------------------------------ MODULE Tracker ------------------------------
(***************************************************************************)
(* tracker/qmake_project/requesthandler.cpp on the thread pool of          *)
(* server.cpp: a worker takes a parsed ClientMessage from a connection,    *)
(* runs one handler on it and hands back a NodeMessage.  The handlers      *)
(* share the session controler (the table of Sessions, which               *)
(* SessionControler implements) and the database (PsqlConnector).  Each    *)
(* call to one of them is one step, so the calls of two workers            *)
(* interleave; nothing holds a lock or a transaction from one call to the  *)
(* next.                                                                   *)
(*                                                                         *)
(* main.cpp never starts the session daemon: a session ends with logout or *)
(* with the process.                                                       *)
(***************************************************************************)
EXTENDS PsqlConnector, Sessions, FiniteSets

CONSTANTS
    Worker,          \* the threads of Server::run
    Request,         \* the messages clients send
    NoRequest

RequestType ==
    {"REGISTER", "UNREGISTER", "LOGIN", "LOGOUT", "LIST_NETWORKS",
     "LIST_MY_NETWORKS", "LIST_SERVERS", "CREATE_NETWORK", "DELETE_NETWORK",
     "INVITE_USER", "REMOVE_USER", "USER_INFO", "UPDATE_SERVER",
     "STOP_SERVER", "SIGN_KEY", "CHANGE_PASSWORD"}

(* One record for all messages; a handler reads the fields of its own.     *)
(* addr joins the address of the connection's peer and the port of the     *)
(* message.                                                                *)
ClientMessage ==
    [type : RequestType, cookie : Cookie, user : Login, network : Name,
     pass : Password, newPass : Password, rights : Rights, csr : Csr,
     addr : Address]

ASSUME TrackerAssumption ==
    /\ Request \subseteq ClientMessage
    /\ NoRequest \notin ClientMessage

StatusCode ==
    {"OK", "INTERNAL_SERVER_ERROR", "BAD_REQUEST", "NO_PRIVILAGES",
     "NO_SUCH_USER", "NO_SUCH_NETWORK", "NOT_LOGGED", "BAD_CREDENTIALS",
     "ALREADY_EXISTS"}

VARIABLES
    worker    \* worker[w]: what the stack of thread w holds

vars == <<worker, dbVars, sessionsVars>>

(***************************************************************************)
(* step is the number of the handler's next call, 0 once the reply is      *)
(* made; login what getLogin returned; answer the content of the reply.    *)
(***************************************************************************)
Idle == [req |-> NoRequest, step |-> 0, login |-> NoEntry,
         status |-> "OK", answer |-> {}]

WorkerState ==
    [req : Request \cup {NoRequest}, step : 0..5,
     login : Login \cup {NoEntry}, status : StatusCode,
     answer : SUBSET (Name \cup Address \cup {<<>>, <<"BEGIN">>})]

(* Every status that reaches a client is a code of the protocol, and the   *)
(* tables and the session table hold what their types say.                 *)
TypeOK ==
    /\ worker \in [Worker -> WorkerState]
    /\ DbTypeOK
    /\ SessionsTypeOK

Init ==
    /\ worker = [w \in Worker |-> Idle]
    /\ DbInit
    /\ SessionsInit

-----------------------------------------------------------------------------
(* The handler of worker w's message is about to make its k-th call.       *)
At(w, type, k) ==
    /\ worker[w].req # NoRequest
    /\ worker[w].req.type = type
    /\ worker[w].step = k

Return(w, status) ==
    worker' = [worker EXCEPT ![w].step = 0, ![w].status = status]

ReturnList(w, answer) ==
    worker' = [worker EXCEPT ![w].step = 0, ![w].status = "OK",
                             ![w].answer = answer]

GoOn(w) == worker' = [worker EXCEPT ![w].step = @ + 1]

UnlessRetry(w, ok, status) ==
    \/ ok /\ GoOn(w)
    \/ ~ok /\ UNCHANGED worker

(* if(!check) return errorMesage(status);                                  *)
Unless(w, ok, status) ==
    \/ ok /\ GoOn(w)
    \/ ~ok /\ Return(w, status)

StatusRaw(r, notFound) == r

(* The switch over a DB_Response.  The handlers differ in what they make   *)
(* of NOT_FOUND.                                                           *)
Status(r, notFound) ==
    CASE r = "OK" -> "OK"
      [] r = "NOT_FOUND" -> notFound
      [] r = "NOT_PERMITED" -> "NO_PRIVILAGES"
      [] r = "NOT_UNIQUE" -> "ALREADY_EXISTS"
      [] r = "INTERNAL_ERROR" -> "INTERNAL_SERVER_ERROR"

(* Botan's bcrypt, and the CA: "" for a request it cannot decode.          *)
getPasswordHash(p) == [bcrypt |-> p]

CheckBcryptOrNone(p, stored) == \A h \in stored : h = getPasswordHash(p)

check_bcrypt(p, stored) == \E h \in stored : h = getPasswordHash(p)

signCertyficate(k) == IF k = BadCsr THEN <<>> ELSE <<"BEGIN", k>>

-----------------------------------------------------------------------------
(* Bound: a LOGIN is taken only while there is a cookie to answer it with. *)
CookieLeft ==
    LET logins == {w \in Worker : /\ worker[w].req # NoRequest
                                  /\ worker[w].req.type = "LOGIN"}
    IN  Cardinality(logins) < Cardinality(Cookie \ issued)

(* A connection has read and parsed a message.  Without the sub-message of *)
(* its type (or a field the handler asks for) it is answered at once.      *)
Receive(w, m) ==
    /\ worker[w].req = NoRequest
    /\ m.type = "LOGIN" => CookieLeft
    /\ worker' = [worker EXCEPT ![w] = [Idle EXCEPT !.req = m, !.step = 1]]
    /\ UNCHANGED <<dbVars, sessionsVars>>

ReceiveEmpty(w, m) ==
    /\ worker[w].req = NoRequest
    /\ worker' = [worker EXCEPT ![w] =
                    [Idle EXCEPT !.req = m,
                                 !.status = IF m.type = "SIGN_KEY"
                                            THEN "INTERNAL_SERVER_ERROR"
                                            ELSE "BAD_REQUEST"]]
    /\ UNCHANGED <<dbVars, sessionsVars>>

(* The reply is written, or the peer is gone: the connection is dropped.   *)
Reply(w) ==
    /\ worker[w].req # NoRequest
    /\ worker[w].step = 0
    /\ worker' = [worker EXCEPT ![w] = Idle]
    /\ UNCHANGED <<dbVars, sessionsVars>>

(* The first call of every handler that wants a session.                   *)
getLogin(w) ==
    /\ worker[w].req # NoRequest
    /\ worker[w].step = 1
    /\ worker[w].req.type \notin {"REGISTER", "LOGIN", "LOGOUT"}
    /\ LET l == sessions[worker[w].req.cookie]
       IN  \/ /\ l \in {NoEntry, EmptyLogin}
              /\ Return(w, "NOT_LOGGED")
           \/ /\ l \notin {NoEntry, EmptyLogin}
              /\ worker' = [worker EXCEPT ![w].step = 2, ![w].login = l]
    /\ UNCHANGED <<dbVars, sessionsVars>>

-----------------------------------------------------------------------------
(* The handlers, from their first call after getLogin.  req and login stay *)
(* what they were when the message came and when getLogin returned.        *)
handleRegister(w) ==
    LET q == worker[w].req
    IN  /\ At(w, "REGISTER", 1)
        /\ \E r \in DB_Response :
              /\ createUser(q.user, getPasswordHash(q.pass), r)
              /\ Return(w, IF r = "OK" /\ signCertyficate(q.csr) = <<>>
                           THEN "BAD_REQUEST"
                           ELSE Status(r, "NO_SUCH_USER"))
        /\ UNCHANGED sessionsVars

(* The sessions of the removed account stay open.                          *)
handleUnregister(w) ==
    /\ At(w, "UNREGISTER", 2)
    /\ \E r \in DB_Response :
          /\ removeUser(worker[w].login, r)
          /\ Return(w, Status(r, "NO_SUCH_USER"))
    /\ UNCHANGED sessionsVars

handleLogin(w) ==
    LET q == worker[w].req
    IN  \/ /\ At(w, "LOGIN", 1)
           /\ \E stored \in getPassHash(q.user) :
                 Unless(w, check_bcrypt(q.pass, stored), "BAD_CREDENTIALS")
           /\ UNCHANGED <<dbVars, sessionsVars>>
        \/ /\ At(w, "LOGIN", 2)
           /\ \E c \in Cookie : OpenSession(c, q.user)
           /\ Return(w, "OK")
           /\ UNCHANGED dbVars

handleLogout(w) ==
    LET c == worker[w].req.cookie
    IN  /\ At(w, "LOGOUT", 1)
        /\ CloseSessions({c})
        /\ Return(w, IF sessions[c] = NoEntry THEN "NOT_LOGGED" ELSE "OK")
        /\ UNCHANGED dbVars

handleList_networks(w) ==
    /\ At(w, "LIST_NETWORKS", 2)
    /\ \E L \in getAllNetworks(worker[w].login) : ReturnList(w, L)
    /\ UNCHANGED <<dbVars, sessionsVars>>

handleList_my_networks(w) ==
    /\ At(w, "LIST_MY_NETWORKS", 2)
    /\ \E L \in getUserNetworks(worker[w].login) : ReturnList(w, L)
    /\ UNCHANGED <<dbVars, sessionsVars>>

handleList_servers(w) ==
    LET n == worker[w].req.network
    IN  /\ \/ /\ At(w, "LIST_SERVERS", 2)
              /\ \E b \in networkExists(n) : Unless(w, b, "NO_SUCH_NETWORK")
           \/ /\ At(w, "LIST_SERVERS", 3)
              /\ \E b \in canSeeNetwork(n, worker[w].login) :
                    Unless(w, b, "NO_PRIVILAGES")
           \/ /\ At(w, "LIST_SERVERS", 4)
              /\ \E L \in getServers(n) : ReturnList(w, L)
        /\ UNCHANGED <<dbVars, sessionsVars>>

(* The response of createInvitation is dropped.                            *)
handleCreate_network(w) ==
    LET q == worker[w].req
        l == worker[w].login
    IN  /\ \/ /\ At(w, "CREATE_NETWORK", 2)
              /\ \E r \in DB_Response :
                    /\ createNetwork(q.network, l, q.rights, r)
                    /\ Unless(w, r = "OK", Status(r, "NO_SUCH_USER"))
           \/ /\ At(w, "CREATE_NETWORK", 3)
              /\ \E r \in DB_Response : createInvitation(l, q.network, r)
              /\ Return(w, "OK")
        /\ UNCHANGED sessionsVars

handleDelete_network(w) ==
    LET n == worker[w].req.network
    IN  /\ \/ /\ At(w, "DELETE_NETWORK", 2)
              /\ \E b \in networkExists(n) : Unless(w, b, "NO_SUCH_NETWORK")
              /\ UNCHANGED dbVars
           \/ /\ At(w, "DELETE_NETWORK", 3)
              /\ \E r \in DB_Response :
                    /\ deleteNetwork(worker[w].login, n, r)
                    /\ Return(w, Status(r, "NO_SUCH_NETWORK"))
        /\ UNCHANGED sessionsVars

(* Whoever is logged in may invite.                                        *)
handleInvite_user(w) ==
    LET q == worker[w].req
    IN  /\ \/ /\ At(w, "INVITE_USER", 2)
              /\ \E b \in networkExists(q.network) :
                    Unless(w, b, "NO_SUCH_NETWORK")
              /\ UNCHANGED dbVars
           \/ /\ At(w, "INVITE_USER", 3)
              /\ \E b \in userExists(q.user) : Unless(w, b, "NO_SUCH_USER")
              /\ UNCHANGED dbVars
           \/ /\ At(w, "INVITE_USER", 4)
              /\ \E r \in DB_Response :
                    /\ createInvitation(q.user, q.network, r)
                    /\ Return(w, Status(r, "NO_SUCH_NETWORK"))
        /\ UNCHANGED sessionsVars

(* The user and the network of the message are not read: the account of    *)
(* the session goes, then the session.                                     *)
handleRemove_user(w) ==
    \/ /\ At(w, "REMOVE_USER", 2)
       /\ \E r \in DB_Response :
             /\ removeUser(worker[w].login, r)
             /\ worker' = [worker EXCEPT ![w].step = 3,
                                         ![w].status = Status(r, "NO_SUCH_USER")]
       /\ UNCHANGED sessionsVars
    \/ /\ At(w, "REMOVE_USER", 3)
       /\ CloseSessions({worker[w].req.cookie})
       /\ Return(w, worker[w].status)
       /\ UNCHANGED dbVars

handleUser_info(w) ==
    LET q == worker[w].req
    IN  /\ \/ /\ At(w, "USER_INFO", 2)
              /\ \E b \in userExists(q.user) : Unless(w, b, "NO_SUCH_USER")
           \/ /\ At(w, "USER_INFO", 3)
              /\ \E b \in networkExists(q.network) :
                    Unless(w, b, "NO_SUCH_NETWORK")
           \/ /\ At(w, "USER_INFO", 4)
              /\ \E key \in getUserInfo(q.user, q.network) : ReturnList(w, key)
        /\ UNCHANGED <<dbVars, sessionsVars>>

handleUpdate_server(w) ==
    LET q == worker[w].req
        l == worker[w].login
    IN  /\ \/ /\ At(w, "UPDATE_SERVER", 2)
              /\ \E b \in networkExists(q.network) :
                    Unless(w, b, "NO_SUCH_NETWORK")
              /\ UNCHANGED dbVars
           \/ /\ At(w, "UPDATE_SERVER", 3)
              /\ \E b \in canAddServer(l, q.network) :
                    Unless(w, b, "NO_PRIVILAGES")
              /\ UNCHANGED dbVars
           \/ /\ At(w, "UPDATE_SERVER", 4)
              /\ \E r \in DB_Response :
                    /\ updateServer(l, q.network, q.addr, r)
                    /\ Unless(w, r = "NOT_FOUND", Status(r, "NO_SUCH_USER"))
           \/ /\ At(w, "UPDATE_SERVER", 5)
              /\ \E r \in DB_Response :
                    /\ insertServer(l, q.network, q.addr, r)
                    /\ Return(w, Status(r, "NO_SUCH_USER"))
        /\ UNCHANGED sessionsVars

handleStop_server(w) ==
    LET n == worker[w].req.network
    IN  /\ \/ /\ At(w, "STOP_SERVER", 2)
              /\ \E b \in networkExists(n) : Unless(w, b, "NO_SUCH_NETWORK")
              /\ UNCHANGED dbVars
           \/ /\ At(w, "STOP_SERVER", 3)
              /\ \E r \in DB_Response :
                    /\ deleteServer(worker[w].login, n, r)
                    /\ Return(w, Status(r, "BAD_REQUEST"))
        /\ UNCHANGED sessionsVars

(* The row is stored before the certificate is looked at.                  *)
handleSign_key(w) ==
    LET q == worker[w].req
        signedCert == signCertyficate(q.csr)
    IN  /\ At(w, "SIGN_KEY", 2)
        /\ \E r \in DB_Response :
              /\ addKey(worker[w].login, q.network, signedCert, r)
              /\ Return(w, IF signedCert = <<>> THEN "BAD_REQUEST"
                           ELSE Status(r, "NO_SUCH_USER"))
        /\ UNCHANGED sessionsVars

handleChange_password(w) ==
    LET q == worker[w].req
        l == worker[w].login
    IN  /\ \/ /\ At(w, "CHANGE_PASSWORD", 2)
              /\ \E stored \in getPassHash(l) :
                    Unless(w, check_bcrypt(q.pass, stored), "BAD_CREDENTIALS")
              /\ UNCHANGED dbVars
           \/ /\ At(w, "CHANGE_PASSWORD", 3)
              /\ \E r \in DB_Response :
                    /\ changeUserPassword(l, getPasswordHash(q.newPass), r)
                    /\ Return(w, Status(r, "NO_SUCH_USER"))
        /\ UNCHANGED sessionsVars

-----------------------------------------------------------------------------
(* w's next call goes to the connector and not to the session controler.   *)
AtDb(w) ==
    /\ worker[w].req # NoRequest
    /\ worker[w].step > 0
    /\ worker[w].step = 1 => worker[w].req.type \in {"REGISTER", "LOGIN"}
    /\ worker[w].step = 2 => worker[w].req.type # "LOGIN"
    /\ worker[w].step = 3 => worker[w].req.type # "REMOVE_USER"

(***************************************************************************)
(* Two workers inside the connector at once: the second pqxx::work on the  *)
(* one connection throws pqxx::usage_error, which is no pqxx::failure, so  *)
(* that it leaves io_service::run and ends the process.  The open          *)
(* transaction is rolled back by the server; the tracker is started again. *)
(* As every overlap ends here, two connector calls of one process never    *)
(* interleave, and one call can be one step.                               *)
(***************************************************************************)
Overlap(v, w) ==
    /\ v # w
    /\ AtDb(v)
    /\ AtDb(w)
    /\ worker' = [t \in Worker |-> Idle]
    /\ ResetSessions
    /\ UNCHANGED dbVars

Handle(w) ==
    \/ getLogin(w)
    \/ handleRegister(w) \/ handleUnregister(w)
    \/ handleLogin(w) \/ handleLogout(w)
    \/ handleList_networks(w) \/ handleList_my_networks(w)
    \/ handleList_servers(w)
    \/ handleCreate_network(w) \/ handleDelete_network(w)
    \/ handleInvite_user(w) \/ handleRemove_user(w) \/ handleUser_info(w)
    \/ handleUpdate_server(w) \/ handleStop_server(w)
    \/ handleSign_key(w) \/ handleChange_password(w)

Next ==
    \/ \E w \in Worker, m \in Request : Receive(w, m) \/ ReceiveEmpty(w, m)
    \/ \E w \in Worker : Handle(w) \/ Reply(w)
    \/ \E v, w \in Worker : Overlap(v, w)

Spec == Init /\ [][Next]_vars

(* A thread of the pool runs what it has begun; nobody has to send.        *)
FairSpec == Spec /\ \A w \in Worker : WF_vars(Handle(w) \/ Reply(w))

-----------------------------------------------------------------------------
AskedToDelete(w, n) ==
    /\ worker[w].req # NoRequest
    /\ worker[w].login = n.owner
    /\ \/ worker[w].req.type \in {"UNREGISTER", "REMOVE_USER"}
       \/ /\ worker[w].req.type = "DELETE_NETWORK"
          /\ worker[w].req.network = n.name

DeletionsAsked ==
    \A n \in networks : n \notin networks' =>
        \E w \in Worker : worker'[w] # worker[w] /\ AskedToDelete(w, n)

(***************************************************************************)
(* A network goes only because its owner asked: by DELETE_NETWORK of that  *)
(* name, or by removing the owner's account.  networkExists is an earlier  *)
(* transaction, so the network may have been deleted and founded again by  *)
(* somebody else in the meantime.                                          *)
(***************************************************************************)
OnlyOwnerDeletes == [][DeletionsAsked]_vars

(***************************************************************************)
(* Only those who may serve a network are listed under it.  canAddServer   *)
(* and the INSERT are two transactions: this needs a network's name to     *)
(* mean the same network at both.                                          *)
(***************************************************************************)
ServersAuthorised == \A s \in servers : mayServe(s.user, s.network)

(***************************************************************************)
(* A list of servers is sent only to somebody who may see the network when *)
(* the list is made, and so no failed query opens a private network.       *)
(***************************************************************************)
ListsOnlyPermitted ==
    \A w \in Worker :
        /\ worker[w].req # NoRequest
        /\ worker[w].req.type = "LIST_SERVERS"
        /\ worker[w].step = 0
        /\ worker[w].answer # {}
        => maySee(worker[w].login, worker[w].req.network)

KnowsPassword(w, l) ==
    /\ worker[w].req # NoRequest
    /\ [login |-> l, password |-> getPasswordHash(worker[w].req.pass)] \in users

CredentialsGiven ==
    /\ \A c \in Cookie :
          sessions[c] = NoEntry /\ sessions'[c] # NoEntry =>
             \E w \in Worker : /\ worker'[w] # worker[w]
                               /\ KnowsPassword(w, sessions'[c])
    /\ \A u \in users, v \in users' :
          u.login = v.login /\ u # v =>
             \E w \in Worker : /\ worker'[w] # worker[w]
                               /\ worker[w].login = u.login
                               /\ KnowsPassword(w, u.login)

(***************************************************************************)
(* A session is opened, and a password replaced, only in the name of       *)
(* someone who gave the password that is stored at that very step.         *)
(***************************************************************************)
CredentialsChecked == [][CredentialsGiven]_vars

(* Every request is answered, or lost with the process: no handler waits   *)
(* for another one.                                                        *)
Answered ==
    \A w \in Worker : worker[w].req # NoRequest ~> worker[w].req = NoRequest

-----------------------------------------------------------------------------
(* A documented promise that the code does not keep.                        *)

(* A worker that has finished a request of this type with this status.     *)
Replied(w, type, status) == At(w, type, 0) /\ worker[w].status = status

(***************************************************************************)
(* sp2p_protocol.proto: UPDATE_SERVER "Update information about running    *)
(* server".  Once the reply says OK, the server is listed at the address   *)
(* it was updated to.                                                      *)
(***************************************************************************)
UpdateIsRecorded ==
    \A w \in Worker : Replied(w, "UPDATE_SERVER", "OK") =>
        [user |-> worker[w].login, network |-> worker[w].req.network,
         addr |-> worker[w].req.addr] \in servers

=============================================================================
