--------------------------- MODULE Tracker_proofs ---------------------------
(***************************************************************************)
(* The tracker for any number of workers, users, networks and messages:    *)
(* type correctness, the integrity of the tables, who may delete a         *)
(* network, and the refinement of Directory.                               *)
(***************************************************************************)
EXTENDS Tracker, PsqlConnector_proofs

(***************************************************************************)
(* A worker that is past getLogin holds a login.  Without this the         *)
(* arguments of the connector's calls would not be known to be logins.     *)
(***************************************************************************)
LoginKnown ==
    \A w \in Worker :
        /\ worker[w].req # NoRequest
        /\ worker[w].step >= 2
        /\ worker[w].req.type # "LOGIN"
        => worker[w].login \in Login

WorkersOK == worker \in [Worker -> WorkerState] /\ LoginKnown

IInv ==
    /\ WorkersOK
    /\ DbTypeOK
    /\ SessionsTypeOK
    /\ RefIntegrity

-----------------------------------------------------------------------------
(* The fields of the message in a worker's hands.                          *)
LEMMA MessageType ==
  ASSUME WorkersOK, NEW w \in Worker, worker[w].req # NoRequest
  PROVE  /\ worker[w].req \in Request
         /\ worker[w].req.type \in RequestType
         /\ worker[w].req.cookie \in Cookie
         /\ worker[w].req.user \in Login
         /\ worker[w].req.network \in Name
         /\ worker[w].req.pass \in Password
         /\ worker[w].req.newPass \in Password
         /\ worker[w].req.rights \in Rights
         /\ worker[w].req.csr \in Csr
         /\ worker[w].req.addr \in Address
  <1>1. worker[w].req \in Request
    BY DEF WorkersOK, WorkerState
  <1>2. worker[w].req \in ClientMessage
    BY <1>1, TrackerAssumption
  <1> QED
    BY <1>1, <1>2 DEF ClientMessage

(* The switch over a DB_Response always ends in a status of the protocol.  *)
LEMMA StatusType ==
  ASSUME NEW r \in DB_Response, NEW s \in StatusCode
  PROVE  Status(r, s) \in StatusCode
  BY DEF DB_Response, StatusCode, Status

(* A worker whose handler has made its reply needs no login any more.      *)
LEMMA LeaveOK ==
  ASSUME WorkersOK, NEW w \in Worker, NEW new \in WorkerState, new.step = 0,
         worker' = [worker EXCEPT ![w] = new]
  PROVE  WorkersOK'
  BY DEF WorkersOK, LoginKnown

(* Every way in which a handler leaves its worker behind.                  *)
LEMMA ReturnOK ==
  ASSUME WorkersOK, NEW w \in Worker, NEW s \in StatusCode, Return(w, s)
  PROVE  WorkersOK'
  <1> DEFINE new == [worker[w] EXCEPT !.step = 0, !.status = s]
  <1>1. worker' = [worker EXCEPT ![w] = new]
    BY DEF Return, WorkersOK
  <1>2. worker[w] \in WorkerState /\ 0 \in 0..5
    BY DEF WorkersOK
  <1>3. new \in WorkerState /\ new.step = 0
    BY <1>2 DEF WorkerState
  <1> QED
    BY <1>1, <1>3, LeaveOK

(* A handler that answers with a list.                                     *)
LEMMA ReturnListOK ==
  ASSUME WorkersOK, NEW w \in Worker,
         NEW a \in SUBSET (Name \cup Address \cup {<<>>, <<"BEGIN">>}),
         ReturnList(w, a)
  PROVE  WorkersOK'
  <1> DEFINE new == [worker[w] EXCEPT !.step = 0, !.status = "OK", !.answer = a]
  <1>1. worker' = [worker EXCEPT ![w] = new]
    BY DEF ReturnList, WorkersOK
  <1>2. worker[w] \in WorkerState /\ 0 \in 0..5 /\ "OK" \in StatusCode
    BY DEF WorkersOK, StatusCode
  <1>3. new \in WorkerState /\ new.step = 0
    BY <1>2 DEF WorkerState
  <1> QED
    BY <1>1, <1>3, LeaveOK

(* A handler that goes on to its next call.                                *)
LEMMA GoOnOK ==
  ASSUME WorkersOK, NEW w \in Worker, worker[w].step \in 1..4,
         worker[w].req.type # "LOGIN" => worker[w].login \in Login,
         GoOn(w)
  PROVE  WorkersOK'
  BY DEF WorkersOK, LoginKnown, WorkerState, GoOn

(* A handler that goes on or answers with an error.                        *)
LEMMA UnlessOK ==
  ASSUME WorkersOK, NEW w \in Worker, worker[w].step \in 1..4,
         worker[w].req.type # "LOGIN" => worker[w].login \in Login,
         NEW ok \in BOOLEAN, NEW s \in StatusCode,
         Unless(w, ok, s)
  PROVE  WorkersOK'
  BY ReturnOK, GoOnOK DEF Unless

-----------------------------------------------------------------------------
(* A step that leaves the tables alone is a step of the connector.         *)
LEMMA DbQuiet == UNCHANGED dbVars => DbStep
  BY DEF DbStep

(* A step that leaves the session table alone keeps its type.              *)
LEMMA SessionsQuiet == SessionsTypeOK /\ UNCHANGED sessionsVars => SessionsTypeOK'
  BY DEF SessionsTypeOK, sessionsVars

(* What the read methods of the connector can answer.                      *)
LEMMA CheckType == ASSUME NEW b \in BOOLEAN PROVE Check(b) \subseteq BOOLEAN
  BY DEF Check

(* A list method answers with part of what it queried.                     *)
LEMMA ListType ==
  ASSUME NEW S, NEW T \in SUBSET S PROVE List(T) \subseteq SUBSET S
  BY DEF List

(* What the connector answers about a user.                                *)
LEMMA UserAnswers ==
  ASSUME DbTypeOK, NEW l
  PROVE  /\ userExists(l) \subseteq BOOLEAN
         /\ getAllNetworks(l) \subseteq SUBSET Name
         /\ getUserNetworks(l) \subseteq SUBSET Name
  <1>1. userExists(l) \subseteq BOOLEAN
    BY CheckType DEF userExists, isUserRow
  <1>2. getAllNetworks(l) \subseteq SUBSET Name
    <2> DEFINE T == {m.name : m \in {k \in networks :
                                        \/ k.rights.visible
                                        \/ k.owner = l
                                        \/ hasRow(invitations, l, k.name)}}
    <2>1. T \subseteq Name
      BY DEF DbTypeOK
    <2> HIDE DEF T
    <2>2. List(T) \subseteq SUBSET Name
      BY <2>1, ListType
    <2> QED
      BY <2>2 DEF getAllNetworks, T
  <1>3. getUserNetworks(l) \subseteq SUBSET Name
    <2>1. OwnedBy(l) \subseteq Name
      BY DEF DbTypeOK, OwnedBy
    <2> QED
      BY <2>1, ListType DEF getUserNetworks
  <1> QED
    BY <1>1, <1>2, <1>3

(* What the connector answers about a network.                             *)
LEMMA NetworkAnswers ==
  ASSUME DbTypeOK, NEW n
  PROVE  /\ networkExists(n) \subseteq BOOLEAN
         /\ getServers(n) \subseteq SUBSET Address
  <1>1. networkExists(n) \subseteq BOOLEAN
    BY CheckType DEF networkExists, isNetworkRow
  <1>2. getServers(n) \subseteq SUBSET Address
    <2> DEFINE T == {s.addr : s \in {t \in servers : t.network = n}}
    <2>1. T \subseteq Address
      BY DEF DbTypeOK
    <2> HIDE DEF T
    <2>2. List(T) \subseteq SUBSET Address
      BY <2>1, ListType
    <2> QED
      BY <2>2 DEF getServers, T
  <1> QED
    BY <1>1, <1>2

(* What the connector answers about a user in a network.                   *)
LEMMA MemberAnswers ==
  ASSUME DbTypeOK, NEW l, NEW n
  PROVE  /\ canSeeNetwork(n, l) \subseteq BOOLEAN
         /\ canAddServer(l, n) \subseteq BOOLEAN
         /\ getUserInfo(l, n) \subseteq SUBSET {<<>>, <<"BEGIN">>}
  <1>1. canSeeNetwork(n, l) \subseteq BOOLEAN
    BY CheckType DEF canSeeNetwork, maySee
  <1>2. canAddServer(l, n) \subseteq BOOLEAN
    BY CheckType DEF canAddServer, mayServe
  <1>3. getUserInfo(l, n) \subseteq SUBSET {<<>>, <<"BEGIN">>}
    <2> DEFINE keys == {k \in publicKey : k.user = l /\ k.network = n}
               T == {toString(k.key) : k \in keys}
    <2>1. \A k \in Words : toString(k) \in {<<>>, <<"BEGIN">>}
      BY DEF Words, toString
    <2>2. T \subseteq {<<>>, <<"BEGIN">>}
      BY <2>1 DEF DbTypeOK
    <2> HIDE DEF T
    <2>3. List(T) \subseteq SUBSET {<<>>, <<"BEGIN">>}
      BY <2>2, ListType
    <2> QED
      BY <2>3 DEF getUserInfo, T
  <1> QED
    BY <1>1, <1>2, <1>3

(* A check of the connector between getLogin and the last call.            *)
LEMMA CheckStep ==
  ASSUME WorkersOK, SessionsTypeOK, NEW w \in Worker,
         worker[w].step \in 1..4,
         worker[w].req.type # "LOGIN" => worker[w].login \in Login,
         NEW B \in SUBSET BOOLEAN, NEW s \in StatusCode,
         \E b \in B : Unless(w, b, s),
         UNCHANGED <<dbVars, sessionsVars>>
  PROVE  WorkersOK' /\ DbStep /\ SessionsTypeOK'
  <1>1. PICK b \in BOOLEAN : Unless(w, b, s)
    OBVIOUS
  <1>2. WorkersOK'
    BY <1>1, UnlessOK
  <1> QED
    BY <1>2, DbQuiet, SessionsQuiet

-----------------------------------------------------------------------------
(***************************************************************************)
(* Each call of a handler is one statement of the connector, with          *)
(* arguments of the right kind, or leaves the tables alone.                *)
(***************************************************************************)
LEMMA HandleStep ==
  ASSUME WorkersOK, DbTypeOK, SessionsTypeOK, NEW w \in Worker, Handle(w)
  PROVE  WorkersOK' /\ DbStep /\ SessionsTypeOK'
  <1> DEFINE q == worker[w].req
             l == worker[w].login
             Post == WorkersOK' /\ DbStep /\ SessionsTypeOK'
  <1> USE DEF At
  <1>req. q # NoRequest
    BY DEF Handle, getLogin, handleRegister, handleUnregister, handleLogin,
           handleLogout, handleList_networks, handleList_my_networks,
           handleList_servers, handleCreate_network, handleDelete_network,
           handleInvite_user, handleRemove_user, handleUser_info,
           handleUpdate_server, handleStop_server, handleSign_key,
           handleChange_password
  <1>msg. /\ q.cookie \in Cookie /\ q.user \in Login /\ q.network \in Name
          /\ q.pass \in Password /\ q.newPass \in Password
          /\ q.rights \in Rights /\ q.csr \in Csr /\ q.addr \in Address
    BY <1>req, MessageType
  <1>login. worker[w].step \in 2..5 /\ q.type # "LOGIN" => l \in Login
    BY <1>req DEF WorkersOK, LoginKnown
  <1>codes. {"OK", "INTERNAL_SERVER_ERROR", "BAD_REQUEST", "NO_PRIVILAGES",
             "NO_SUCH_USER", "NO_SUCH_NETWORK", "NOT_LOGGED",
             "BAD_CREDENTIALS", "ALREADY_EXISTS"} \subseteq StatusCode
    BY DEF StatusCode
  <1>hash. \A p \in Password : getPasswordHash(p) \in Hash
    BY DEF getPasswordHash, Hash
  <1>0. CASE getLogin(w)
    <2>1. CASE Return(w, "NOT_LOGGED")
      BY <1>0, <2>1, <1>codes, ReturnOK, DbQuiet, SessionsQuiet DEF getLogin
    <2>2. CASE /\ sessions[q.cookie] \notin {NoEntry, EmptyLogin}
               /\ worker' = [worker EXCEPT ![w].step = 2,
                                           ![w].login = sessions[q.cookie]]
      <3> DEFINE new == [worker[w] EXCEPT !.step = 2, !.login = sessions[q.cookie]]
      <3>1. worker' = [worker EXCEPT ![w] = new]
        BY <2>2 DEF WorkersOK
      <3>2. sessions[q.cookie] \in Login
        BY <2>2, <1>msg DEF SessionsTypeOK
      <3>3. worker[w] \in WorkerState /\ 2 \in 0..5
        BY DEF WorkersOK
      <3>4. new \in WorkerState /\ new.login \in Login
        BY <3>2, <3>3 DEF WorkerState
      <3>5. WorkersOK'
        BY <3>1, <3>4 DEF WorkersOK, LoginKnown
      <3> QED
        BY <1>0, <3>5, DbQuiet, SessionsQuiet DEF getLogin
    <2> QED
      BY <1>0, <2>1, <2>2 DEF getLogin
  <1>1. CASE handleRegister(w)
    <2>1. PICK r \in DB_Response :
             /\ createUser(q.user, getPasswordHash(q.pass), r)
             /\ Return(w, IF r = "OK" /\ signCertyficate(q.csr) = <<>>
                          THEN "BAD_REQUEST"
                          ELSE Status(r, "NO_SUCH_USER"))
      BY <1>1 DEF handleRegister
    <2>2. DbStep
      BY <2>1, <1>msg, <1>hash DEF DbStep
    <2>3. Status(r, "NO_SUCH_USER") \in StatusCode
      BY <1>codes, StatusType
    <2>4. WorkersOK'
      BY <2>1, <2>3, <1>codes, ReturnOK
    <2> QED
      BY <1>1, <2>2, <2>4, SessionsQuiet DEF handleRegister
  <1>2. CASE handleUnregister(w)
    <2>1. PICK r \in DB_Response :
             removeUser(l, r) /\ Return(w, Status(r, "NO_SUCH_USER"))
      BY <1>2 DEF handleUnregister
    <2>2. l \in Login
      BY <1>2, <1>login DEF handleUnregister
    <2>3. DbStep
      BY <2>1, <2>2 DEF DbStep
    <2>4. WorkersOK'
      BY <2>1, <1>codes, StatusType, ReturnOK
    <2> QED
      BY <1>2, <2>3, <2>4, SessionsQuiet DEF handleUnregister
  <1>3. CASE handleLogin(w)
    <2>1. CASE /\ At(w, "LOGIN", 1)
               /\ \E stored \in getPassHash(q.user) :
                     Unless(w, check_bcrypt(q.pass, stored), "BAD_CREDENTIALS")
               /\ UNCHANGED <<dbVars, sessionsVars>>
      <3>1. \A stored : check_bcrypt(q.pass, stored) \in BOOLEAN
        BY DEF check_bcrypt
      <3>2. WorkersOK'
        BY <2>1, <3>1, <1>codes, UnlessOK
      <3> QED
        BY <2>1, <3>2, DbQuiet, SessionsQuiet
    <2>2. CASE /\ At(w, "LOGIN", 2)
               /\ \E c \in Cookie : OpenSession(c, q.user)
               /\ Return(w, "OK")
               /\ UNCHANGED dbVars
      <3>1. SessionsTypeOK'
        BY <2>2, <1>msg DEF SessionsTypeOK, OpenSession
      <3> QED
        BY <2>2, <3>1, <1>codes, ReturnOK, DbQuiet
    <2> QED
      BY <1>3, <2>1, <2>2 DEF handleLogin
  <1>4. CASE handleLogout(w)
    <2>1. SessionsTypeOK'
      BY <1>4 DEF handleLogout, CloseSessions, SessionsTypeOK
    <2> QED
      BY <1>4, <2>1, <1>codes, ReturnOK, DbQuiet DEF handleLogout
  <1>5. CASE handleList_networks(w)
    <2>1. PICK L \in getAllNetworks(l) : ReturnList(w, L)
      BY <1>5 DEF handleList_networks
    <2>2. L \in SUBSET Name
      BY UserAnswers
    <2>3. WorkersOK'
      BY <2>1, <2>2, ReturnListOK
    <2> QED
      BY <1>5, <2>3, DbQuiet, SessionsQuiet DEF handleList_networks
  <1>6. CASE handleList_my_networks(w)
    <2>1. PICK L \in getUserNetworks(l) : ReturnList(w, L)
      BY <1>6 DEF handleList_my_networks
    <2>2. L \in SUBSET Name
      BY UserAnswers
    <2>3. WorkersOK'
      BY <2>1, <2>2, ReturnListOK
    <2> QED
      BY <1>6, <2>3, DbQuiet, SessionsQuiet DEF handleList_my_networks
  <1>7. CASE handleList_servers(w)
    <2>1. worker[w].step \in 2..4 /\ q.type = "LIST_SERVERS"
      BY <1>7 DEF handleList_servers
    <2>2. l \in Login
      BY <2>1, <1>login
    <2>3. CASE \E b \in networkExists(q.network) : Unless(w, b, "NO_SUCH_NETWORK")
      <3>1. networkExists(q.network) \in SUBSET BOOLEAN
        BY NetworkAnswers
      <3>2. worker[w].step \in 1..4 /\ "NO_SUCH_NETWORK" \in StatusCode
        BY <2>1, <2>3, <1>codes
      <3>3. UNCHANGED <<dbVars, sessionsVars>>
        BY <2>1, <2>3, <1>7 DEF handleList_servers
      <3> QED
        BY <2>2, <2>3, <3>1, <3>2, <3>3, CheckStep
    <2>4. CASE \E b \in canSeeNetwork(q.network, l) : Unless(w, b, "NO_PRIVILAGES")
      <3>1. canSeeNetwork(q.network, l) \in SUBSET BOOLEAN
        BY MemberAnswers
      <3>2. worker[w].step \in 1..4 /\ "NO_PRIVILAGES" \in StatusCode
        BY <2>1, <2>4, <1>codes
      <3>3. UNCHANGED <<dbVars, sessionsVars>>
        BY <2>1, <2>4, <1>7 DEF handleList_servers
      <3> QED
        BY <2>2, <2>4, <3>1, <3>2, <3>3, CheckStep
    <2>5. CASE \E L \in getServers(q.network) : ReturnList(w, L)
      <3>1. PICK L \in getServers(q.network) : ReturnList(w, L)
        BY <2>5
      <3>2. L \in SUBSET Address
        BY NetworkAnswers
      <3>3. WorkersOK'
        BY <3>1, <3>2, ReturnListOK
      <3> QED
        BY <1>7, <3>3, DbQuiet, SessionsQuiet DEF handleList_servers
    <2> QED
      BY <1>7, <2>3, <2>4, <2>5 DEF handleList_servers
  <1>8. CASE handleCreate_network(w)
    <2>1. /\ worker[w].step \in 2..3 /\ q.type = "CREATE_NETWORK"
          /\ UNCHANGED sessionsVars
      BY <1>8 DEF handleCreate_network
    <2>2. l \in Login
      BY <2>1, <1>login
    <2>3. CASE \E r \in DB_Response :
                  /\ createNetwork(q.network, l, q.rights, r)
                  /\ Unless(w, r = "OK", Status(r, "NO_SUCH_USER"))
      <3>1. PICK r \in DB_Response :
               /\ createNetwork(q.network, l, q.rights, r)
               /\ Unless(w, r = "OK", Status(r, "NO_SUCH_USER"))
        BY <2>3
      <3> DEFINE ok == r = "OK"
      <3>2. DbStep
        BY <2>2, <3>1, <1>msg DEF DbStep
      <3>3. Status(r, "NO_SUCH_USER") \in StatusCode /\ ok \in BOOLEAN
        BY <1>codes, StatusType
      <3>4. Unless(w, ok, Status(r, "NO_SUCH_USER"))
        BY <3>1
      <3>5. worker[w].step \in 1..4
        BY <2>1, <2>2
      <3> HIDE DEF ok
      <3>6. WorkersOK'
        BY <2>2, <3>3, <3>4, <3>5, UnlessOK
      <3> QED
        BY <2>1, <3>2, <3>6, SessionsQuiet
    <2>4. CASE /\ \E r \in DB_Response : createInvitation(l, q.network, r)
               /\ Return(w, "OK")
      <3>1. DbStep
        BY <2>2, <2>4, <1>msg DEF DbStep
      <3> QED
        BY <2>1, <2>4, <3>1, <1>codes, ReturnOK, SessionsQuiet
    <2> QED
      BY <1>8, <2>3, <2>4 DEF handleCreate_network
  <1>9. CASE handleDelete_network(w)
    <2>1. /\ worker[w].step \in 2..3 /\ q.type = "DELETE_NETWORK"
          /\ UNCHANGED sessionsVars
      BY <1>9 DEF handleDelete_network
    <2>2. l \in Login
      BY <2>1, <1>login
    <2>3. CASE /\ \E b \in networkExists(q.network) : Unless(w, b, "NO_SUCH_NETWORK")
               /\ UNCHANGED dbVars
      <3>1. networkExists(q.network) \in SUBSET BOOLEAN
        BY NetworkAnswers
      <3>2. worker[w].step \in 1..4 /\ "NO_SUCH_NETWORK" \in StatusCode
        BY <2>1, <2>3, <1>codes
      <3>3. UNCHANGED <<dbVars, sessionsVars>>
        BY <2>1, <2>3
      <3> QED
        BY <2>2, <2>3, <3>1, <3>2, <3>3, CheckStep
    <2>4. CASE \E r \in DB_Response :
                  deleteNetwork(l, q.network, r) /\ Return(w, Status(r, "NO_SUCH_NETWORK"))
      <3>1. PICK r \in DB_Response :
               deleteNetwork(l, q.network, r) /\ Return(w, Status(r, "NO_SUCH_NETWORK"))
        BY <2>4
      <3>2. DbStep
        BY <2>2, <3>1, <1>msg, <1>hash DEF DbStep
      <3>3. WorkersOK'
        BY <3>1, <1>codes, StatusType, ReturnOK
      <3> QED
        BY <2>1, <3>2, <3>3, SessionsQuiet
    <2> QED
      BY <1>9, <2>3, <2>4 DEF handleDelete_network
  <1>10. CASE handleInvite_user(w)
    <2>1. /\ worker[w].step \in 2..4 /\ q.type = "INVITE_USER"
          /\ UNCHANGED sessionsVars
      BY <1>10 DEF handleInvite_user
    <2>2. l \in Login
      BY <2>1, <1>login
    <2>3. CASE /\ \E b \in networkExists(q.network) : Unless(w, b, "NO_SUCH_NETWORK")
               /\ UNCHANGED dbVars
      <3>1. networkExists(q.network) \in SUBSET BOOLEAN
        BY NetworkAnswers
      <3>2. worker[w].step \in 1..4 /\ "NO_SUCH_NETWORK" \in StatusCode
        BY <2>1, <2>3, <1>codes
      <3>3. UNCHANGED <<dbVars, sessionsVars>>
        BY <2>1, <2>3
      <3> QED
        BY <2>2, <2>3, <3>1, <3>2, <3>3, CheckStep
    <2>4. CASE /\ \E b \in userExists(q.user) : Unless(w, b, "NO_SUCH_USER")
               /\ UNCHANGED dbVars
      <3>1. userExists(q.user) \in SUBSET BOOLEAN
        BY UserAnswers
      <3>2. worker[w].step \in 1..4 /\ "NO_SUCH_USER" \in StatusCode
        BY <2>1, <2>4, <1>codes
      <3>3. UNCHANGED <<dbVars, sessionsVars>>
        BY <2>1, <2>4
      <3> QED
        BY <2>2, <2>4, <3>1, <3>2, <3>3, CheckStep
    <2>5. CASE \E r \in DB_Response :
                  createInvitation(q.user, q.network, r) /\ Return(w, Status(r, "NO_SUCH_NETWORK"))
      <3>1. PICK r \in DB_Response :
               createInvitation(q.user, q.network, r) /\ Return(w, Status(r, "NO_SUCH_NETWORK"))
        BY <2>5
      <3>2. DbStep
        BY <2>2, <3>1, <1>msg, <1>hash DEF DbStep
      <3>3. WorkersOK'
        BY <3>1, <1>codes, StatusType, ReturnOK
      <3> QED
        BY <2>1, <3>2, <3>3, SessionsQuiet
    <2> QED
      BY <1>10, <2>3, <2>4, <2>5 DEF handleInvite_user
  <1>11. CASE handleRemove_user(w)
    <2>1. CASE /\ At(w, "REMOVE_USER", 2)
               /\ \E r \in DB_Response :
                     /\ removeUser(l, r)
                     /\ worker' = [worker EXCEPT ![w].step = 3,
                                     ![w].status = Status(r, "NO_SUCH_USER")]
               /\ UNCHANGED sessionsVars
      <3>1. PICK r \in DB_Response :
               /\ removeUser(l, r)
               /\ worker' = [worker EXCEPT ![w].step = 3,
                               ![w].status = Status(r, "NO_SUCH_USER")]
        BY <2>1
      <3>2. l \in Login
        BY <2>1, <1>login
      <3>3. DbStep
        BY <3>1, <3>2 DEF DbStep
      <3> DEFINE new == [worker[w] EXCEPT !.step = 3,
                                          !.status = Status(r, "NO_SUCH_USER")]
      <3>4. worker' = [worker EXCEPT ![w] = new]
        BY <3>1 DEF WorkersOK
      <3>5. /\ worker[w] \in WorkerState /\ 3 \in 0..5
            /\ Status(r, "NO_SUCH_USER") \in StatusCode
        BY <1>codes, StatusType DEF WorkersOK
      <3>6. new \in WorkerState /\ new.login \in Login
        BY <3>2, <3>5 DEF WorkerState
      <3>7. WorkersOK'
        BY <3>4, <3>6 DEF WorkersOK, LoginKnown
      <3> QED
        BY <2>1, <3>3, <3>7, SessionsQuiet
    <2>2. CASE /\ At(w, "REMOVE_USER", 3)
               /\ CloseSessions({q.cookie})
               /\ Return(w, worker[w].status)
               /\ UNCHANGED dbVars
      <3>1. SessionsTypeOK'
        BY <2>2 DEF CloseSessions, SessionsTypeOK
      <3>2. worker[w].status \in StatusCode
        BY DEF WorkersOK, WorkerState
      <3> QED
        BY <2>2, <3>1, <3>2, ReturnOK, DbQuiet
    <2> QED
      BY <1>11, <2>1, <2>2 DEF handleRemove_user
  <1>12. CASE handleUser_info(w)
    <2>1. /\ worker[w].step \in 2..4 /\ q.type = "USER_INFO"
          /\ UNCHANGED sessionsVars
      BY <1>12 DEF handleUser_info
    <2>2. l \in Login
      BY <2>1, <1>login
    <2>3. CASE \E b \in userExists(q.user) : Unless(w, b, "NO_SUCH_USER")
      <3>1. userExists(q.user) \in SUBSET BOOLEAN
        BY UserAnswers
      <3>2. worker[w].step \in 1..4 /\ "NO_SUCH_USER" \in StatusCode
        BY <2>1, <2>3, <1>codes
      <3>3. UNCHANGED <<dbVars, sessionsVars>>
        BY <2>1, <2>3, <1>12 DEF handleUser_info
      <3> QED
        BY <2>2, <2>3, <3>1, <3>2, <3>3, CheckStep
    <2>4. CASE \E b \in networkExists(q.network) : Unless(w, b, "NO_SUCH_NETWORK")
      <3>1. networkExists(q.network) \in SUBSET BOOLEAN
        BY NetworkAnswers
      <3>2. worker[w].step \in 1..4 /\ "NO_SUCH_NETWORK" \in StatusCode
        BY <2>1, <2>4, <1>codes
      <3>3. UNCHANGED <<dbVars, sessionsVars>>
        BY <2>1, <2>4, <1>12 DEF handleUser_info
      <3> QED
        BY <2>2, <2>4, <3>1, <3>2, <3>3, CheckStep
    <2>5. CASE \E key \in getUserInfo(q.user, q.network) : ReturnList(w, key)
      <3>1. PICK key \in getUserInfo(q.user, q.network) : ReturnList(w, key)
        BY <2>5
      <3>2. key \in SUBSET {<<>>, <<"BEGIN">>}
        BY MemberAnswers
      <3>3. WorkersOK'
        BY <3>1, <3>2, ReturnListOK
      <3> QED
        BY <1>12, <3>3, DbQuiet, SessionsQuiet DEF handleUser_info
    <2> QED
      BY <1>12, <2>3, <2>4, <2>5 DEF handleUser_info
  <1>13. CASE handleUpdate_server(w)
    <2>1. /\ worker[w].step \in 2..5 /\ q.type = "UPDATE_SERVER"
          /\ UNCHANGED sessionsVars
      BY <1>13 DEF handleUpdate_server
    <2>2. l \in Login
      BY <2>1, <1>login
    <2>3. CASE /\ worker[w].step = 2
               /\ \E b \in networkExists(q.network) : Unless(w, b, "NO_SUCH_NETWORK")
               /\ UNCHANGED dbVars
      <3>1. networkExists(q.network) \in SUBSET BOOLEAN
        BY NetworkAnswers
      <3>2. worker[w].step \in 1..4 /\ "NO_SUCH_NETWORK" \in StatusCode
        BY <2>1, <2>3, <1>codes
      <3>3. UNCHANGED <<dbVars, sessionsVars>>
        BY <2>1, <2>3
      <3> QED
        BY <2>2, <2>3, <3>1, <3>2, <3>3, CheckStep
    <2>4. CASE /\ worker[w].step = 3
               /\ \E b \in canAddServer(l, q.network) : Unless(w, b, "NO_PRIVILAGES")
               /\ UNCHANGED dbVars
      <3>1. canAddServer(l, q.network) \in SUBSET BOOLEAN
        BY MemberAnswers
      <3>2. worker[w].step \in 1..4 /\ "NO_PRIVILAGES" \in StatusCode
        BY <2>1, <2>4, <1>codes
      <3>3. UNCHANGED <<dbVars, sessionsVars>>
        BY <2>1, <2>4
      <3> QED
        BY <2>2, <2>4, <3>1, <3>2, <3>3, CheckStep
    <2>5. CASE /\ worker[w].step = 4
               /\ \E r \in DB_Response :
                     /\ updateServer(l, q.network, q.addr, r)
                     /\ Unless(w, r = "NOT_FOUND", Status(r, "NO_SUCH_USER"))
      <3>1. PICK r \in DB_Response :
               /\ updateServer(l, q.network, q.addr, r)
               /\ Unless(w, r = "NOT_FOUND", Status(r, "NO_SUCH_USER"))
        BY <2>5
      <3> DEFINE ok == r = "NOT_FOUND"
      <3>2. DbStep
        BY <3>1, DbQuiet DEF updateServer
      <3>3. /\ Status(r, "NO_SUCH_USER") \in StatusCode
            /\ ok \in BOOLEAN
        BY <1>codes, StatusType
      <3>4. Unless(w, ok, Status(r, "NO_SUCH_USER"))
        BY <3>1
      <3>5. worker[w].step \in 1..4
        BY <2>1, <2>2, <2>5
      <3> HIDE DEF ok
      <3>6. WorkersOK'
        BY <2>2, <3>3, <3>4, <3>5, UnlessOK
      <3> QED
        BY <2>1, <3>2, <3>6, SessionsQuiet
    <2>6. CASE \E r \in DB_Response :
                  insertServer(l, q.network, q.addr, r) /\ Return(w, Status(r, "NO_SUCH_USER"))
      <3>1. PICK r \in DB_Response :
               insertServer(l, q.network, q.addr, r) /\ Return(w, Status(r, "NO_SUCH_USER"))
        BY <2>6
      <3>2. DbStep
        BY <2>2, <3>1, <1>msg, <1>hash DEF DbStep
      <3>3. WorkersOK'
        BY <3>1, <1>codes, StatusType, ReturnOK
      <3> QED
        BY <2>1, <3>2, <3>3, SessionsQuiet
    <2> QED
      BY <1>13, <2>3, <2>4, <2>5, <2>6 DEF handleUpdate_server
  <1>14. CASE handleStop_server(w)
    <2>1. /\ worker[w].step \in 2..3 /\ q.type = "STOP_SERVER"
          /\ UNCHANGED sessionsVars
      BY <1>14 DEF handleStop_server
    <2>2. l \in Login
      BY <2>1, <1>login
    <2>3. CASE /\ \E b \in networkExists(q.network) : Unless(w, b, "NO_SUCH_NETWORK")
               /\ UNCHANGED dbVars
      <3>1. networkExists(q.network) \in SUBSET BOOLEAN
        BY NetworkAnswers
      <3>2. worker[w].step \in 1..4 /\ "NO_SUCH_NETWORK" \in StatusCode
        BY <2>1, <2>3, <1>codes
      <3>3. UNCHANGED <<dbVars, sessionsVars>>
        BY <2>1, <2>3
      <3> QED
        BY <2>2, <2>3, <3>1, <3>2, <3>3, CheckStep
    <2>4. CASE \E r \in DB_Response :
                  deleteServer(l, q.network, r) /\ Return(w, Status(r, "BAD_REQUEST"))
      <3>1. PICK r \in DB_Response :
               deleteServer(l, q.network, r) /\ Return(w, Status(r, "BAD_REQUEST"))
        BY <2>4
      <3>2. DbStep
        BY <2>2, <3>1, <1>msg, <1>hash DEF DbStep
      <3>3. WorkersOK'
        BY <3>1, <1>codes, StatusType, ReturnOK
      <3> QED
        BY <2>1, <3>2, <3>3, SessionsQuiet
    <2> QED
      BY <1>14, <2>3, <2>4 DEF handleStop_server
  <1>15. CASE handleSign_key(w)
    <2>1. /\ worker[w].step \in 2..2 /\ q.type = "SIGN_KEY"
          /\ UNCHANGED sessionsVars
      BY <1>15 DEF handleSign_key
    <2>2. l \in Login
      BY <2>1, <1>login
    <2> DEFINE cert == signCertyficate(q.csr)
    <2>3. PICK r \in DB_Response :
             /\ addKey(l, q.network, cert, r)
             /\ Return(w, IF cert = <<>> THEN "BAD_REQUEST"
                          ELSE Status(r, "NO_SUCH_USER"))
      BY <1>15 DEF handleSign_key
    <2>4. cert \in Words
      BY <1>msg DEF signCertyficate, Words
    <2> HIDE DEF cert
    <2>5. DbStep
      BY <2>2, <2>3, <2>4, <1>msg DEF DbStep
    <2>6. Status(r, "NO_SUCH_USER") \in StatusCode
      BY <1>codes, StatusType
    <2>7. WorkersOK'
      BY <2>3, <2>6, <1>codes, ReturnOK
    <2> QED
      BY <2>1, <2>5, <2>7, SessionsQuiet
  <1>16. CASE handleChange_password(w)
    <2>1. /\ worker[w].step \in 2..3 /\ q.type = "CHANGE_PASSWORD"
          /\ UNCHANGED sessionsVars
      BY <1>16 DEF handleChange_password
    <2>2. l \in Login
      BY <2>1, <1>login
    <2>3. CASE /\ \E stored \in getPassHash(l) :
                     Unless(w, check_bcrypt(q.pass, stored), "BAD_CREDENTIALS")
               /\ UNCHANGED dbVars
      <3>1. \A stored : check_bcrypt(q.pass, stored) \in BOOLEAN
        BY DEF check_bcrypt
      <3>2. WorkersOK'
        BY <2>1, <2>2, <2>3, <3>1, <1>codes, UnlessOK
      <3> QED
        BY <2>1, <2>3, <3>2, DbQuiet, SessionsQuiet
    <2>4. CASE \E r \in DB_Response :
                  changeUserPassword(l, getPasswordHash(q.newPass), r) /\ Return(w, Status(r, "NO_SUCH_USER"))
      <3>1. PICK r \in DB_Response :
               changeUserPassword(l, getPasswordHash(q.newPass), r) /\ Return(w, Status(r, "NO_SUCH_USER"))
        BY <2>4
      <3>2. DbStep
        BY <2>2, <3>1, <1>msg, <1>hash DEF DbStep
      <3>3. WorkersOK'
        BY <3>1, <1>codes, StatusType, ReturnOK
      <3> QED
        BY <2>1, <3>2, <3>3, SessionsQuiet
    <2> QED
      BY <1>16, <2>3, <2>4 DEF handleChange_password
  <1> QED
    BY <1>0, <1>1, <1>2, <1>3, <1>4, <1>5, <1>6, <1>7, <1>8,
       <1>9, <1>10, <1>11, <1>12, <1>13, <1>14, <1>15, <1>16
       DEF Handle

(* The same for every step of the tracker.                                 *)
LEMMA NextStep ==
  ASSUME WorkersOK, DbTypeOK, SessionsTypeOK, [Next]_vars
  PROVE  WorkersOK' /\ DbStep /\ SessionsTypeOK'
  <1> DEFINE Post == WorkersOK' /\ DbStep /\ SessionsTypeOK'
  <1>idle. /\ NoEntry \in Login \cup {NoEntry}
           /\ {"OK", "BAD_REQUEST", "INTERNAL_SERVER_ERROR"} \subseteq StatusCode
           /\ Idle \in WorkerState /\ Idle.step = 0
           /\ Idle.req = NoRequest
    BY DEF StatusCode, Idle, WorkerState
  <1>1. ASSUME NEW w \in Worker, NEW m \in Request, Receive(w, m) PROVE Post
    <2> DEFINE new == [Idle EXCEPT !.req = m, !.step = 1]
    <2>0. 1 \in 0..5 /\ m \in Request \cup {NoRequest}
      OBVIOUS
    <2>1. new \in WorkerState /\ new.step = 1
      BY <1>idle, <2>0 DEF WorkerState
    <2>2. worker' = [worker EXCEPT ![w] = new]
      BY <1>1 DEF Receive
    <2> HIDE DEF new
    <2>3. WorkersOK'
      BY <2>1, <2>2 DEF WorkersOK, LoginKnown
    <2> QED
      BY <1>1, <2>3, DbQuiet, SessionsQuiet DEF Receive
  <1>2. ASSUME NEW w \in Worker, NEW m \in Request, ReceiveEmpty(w, m)
        PROVE  Post
    <2> DEFINE s == IF m.type = "SIGN_KEY" THEN "INTERNAL_SERVER_ERROR"
                    ELSE "BAD_REQUEST"
               new == [Idle EXCEPT !.req = m, !.status = s]
    <2>1. s \in StatusCode
      BY <1>idle
    <2>2. worker' = [worker EXCEPT ![w] = new]
      BY <1>2 DEF ReceiveEmpty
    <2> HIDE DEF s
    <2>3. new \in WorkerState /\ new.step = 0
      BY <1>idle, <2>1 DEF Idle, WorkerState
    <2>4. WorkersOK'
      BY <2>2, <2>3, LeaveOK
    <2> QED
      BY <1>2, <2>4, DbQuiet, SessionsQuiet DEF ReceiveEmpty
  <1>3. ASSUME NEW w \in Worker, Handle(w) PROVE Post
    BY <1>3, HandleStep
  <1>4. ASSUME NEW w \in Worker, Reply(w) PROVE Post
    <2>1. WorkersOK'
      BY <1>4, <1>idle, LeaveOK DEF Reply
    <2> QED
      BY <1>4, <2>1, DbQuiet, SessionsQuiet DEF Reply
  <1>5. ASSUME NEW v \in Worker, NEW w \in Worker, Overlap(v, w) PROVE Post
    <2>1. WorkersOK'
      BY <1>5, <1>idle DEF Overlap, WorkersOK, LoginKnown
    <2>2. SessionsTypeOK'
      BY <1>5 DEF Overlap, ResetSessions, SessionsTypeOK
    <2> QED
      BY <1>5, <2>1, <2>2, DbQuiet DEF Overlap
  <1>6. CASE UNCHANGED vars
    <2>1. WorkersOK'
      BY <1>6 DEF vars, WorkersOK, LoginKnown
    <2>2. UNCHANGED dbVars /\ UNCHANGED sessionsVars
      BY <1>6 DEF vars
    <2> QED
      BY <2>1, <2>2, DbQuiet, SessionsQuiet
  <1> QED
    BY <1>1, <1>2, <1>3, <1>4, <1>5, <1>6 DEF Next

-----------------------------------------------------------------------------
(* The empty database and the idle pool satisfy the invariant.             *)
LEMMA InitInv == Init => IInv
  <1> SUFFICES ASSUME Init PROVE IInv
    OBVIOUS
  <1>1. Idle \in WorkerState /\ Idle.step = 0
    BY DEF Idle, WorkerState, StatusCode
  <1>2. WorkersOK
    BY <1>1 DEF Init, WorkersOK, LoginKnown
  <1>3. DbTypeOK /\ RefIntegrity
    BY DEF Init, DbInit, DbTypeOK, RefIntegrity, UniqueRows, RefersToLive
  <1>4. SessionsTypeOK
    BY DEF Init, SessionsInit, SessionsTypeOK
  <1> QED
    BY <1>2, <1>3, <1>4 DEF IInv

(* Every step of the tracker preserves the invariant.                      *)
LEMMA StepInv == IInv /\ [Next]_vars => IInv'
  BY NextStep, DbStepType, DbStepIntegrity DEF IInv

(* The invariant holds in every reachable state of the tracker.            *)
LEMMA AlwaysIInv == Spec => []IInv
  BY InitInv, StepInv, PTL DEF Spec

(* The workers, the tables and the sessions keep their types.              *)
THEOREM TypeCorrect == Spec => []TypeOK
  <1>1. IInv => TypeOK
    BY DEF IInv, WorkersOK, TypeOK
  <1> QED
    BY <1>1, AlwaysIInv, PTL

(***************************************************************************)
(* The tables stay whole under any interleaving of any number of workers,  *)
(* with failing statements and with the process ending in between.         *)
(***************************************************************************)
THEOREM IntegrityHolds == Spec => []RefIntegrity
  <1>1. IInv => RefIntegrity
    BY DEF IInv
  <1> QED
    BY <1>1, AlwaysIInv, PTL

(***************************************************************************)
(* The tracker implements the directory it promises.                       *)
(***************************************************************************)
THEOREM DirectoryImplemented == Spec => ImplementsDirectory
  <1>1. Init => Dir!DirectoryInit
    BY DEF Init, DbInit, Dir!DirectoryInit
  <1>2. IInv /\ [Next]_vars => [Dir!DirectoryNext]_(Dir!directoryVars)
    BY NextStep, DbStepDirectory DEF IInv
  <1> QED
    BY <1>1, <1>2, AlwaysIInv, PTL
       DEF Spec, ImplementsDirectory, Dir!DirectorySpec

-----------------------------------------------------------------------------
(* The only statements that take a network away.                           *)
LEMMA RemovedWithOwner ==
  ASSUME NEW l, NEW r, removeUser(l, r), NEW n \in networks, n \notin networks'
  PROVE  n.owner = l
  BY DEF removeUser, Rejected, dbVars

(* deleteNetwork takes away only the named network, and only its owner's.  *)
LEMMA DeletedByOwner ==
  ASSUME NEW l, NEW name, NEW r, deleteNetwork(l, name, r),
         NEW n \in networks, n \notin networks'
  PROVE  n.owner = l /\ n.name = name
  BY DEF deleteNetwork, Rejected, dbVars

(***************************************************************************)
(* A handler that takes a network away was asked to, by its owner.  The    *)
(* authority is checked in the DELETE itself, so that what happened since  *)
(* getLogin and networkExists does not matter.                             *)
(***************************************************************************)
LEMMA OwnerStep ==
  ASSUME WorkersOK, NEW w \in Worker, Handle(w),
         NEW n \in networks, n \notin networks'
  PROVE  worker'[w] # worker[w] /\ AskedToDelete(w, n)
  <1> USE DEF At
  <1>0. networks' # networks
    OBVIOUS
  <1>1. CASE handleUnregister(w)
    <2>1. n.owner = worker[w].login
      BY <1>1, RemovedWithOwner DEF handleUnregister
    <2>2. worker[w].step = 2 /\ worker'[w].step = 0
      BY <1>1 DEF handleUnregister, Return, WorkersOK, WorkerState
    <2> QED
      BY <1>1, <2>1, <2>2 DEF handleUnregister, AskedToDelete
  <1>2. CASE handleRemove_user(w)
    <2>1. At(w, "REMOVE_USER", 2)
      BY <1>0, <1>2 DEF handleRemove_user, dbVars
    <2>2. n.owner = worker[w].login
      BY <1>2, <2>1, RemovedWithOwner DEF handleRemove_user
    <2>3. worker[w].step = 2 /\ worker'[w].step = 3
      BY <1>2, <2>1 DEF handleRemove_user, WorkersOK, WorkerState
    <2> QED
      BY <2>1, <2>2, <2>3 DEF AskedToDelete
  <1>3. CASE handleDelete_network(w)
    <2>1. At(w, "DELETE_NETWORK", 3)
      BY <1>0, <1>3 DEF handleDelete_network, dbVars
    <2>2. n.owner = worker[w].login /\ n.name = worker[w].req.network
      BY <1>3, <2>1, DeletedByOwner DEF handleDelete_network
    <2>3. worker[w].step = 3 /\ worker'[w].step = 0
      BY <1>3, <2>1 DEF handleDelete_network, Return, WorkersOK, WorkerState
    <2> QED
      BY <2>1, <2>2, <2>3 DEF AskedToDelete
  <1>4. CASE handleCreate_network(w)
    BY <1>4 DEF handleCreate_network, createNetwork, createInvitation, Rejected,
                dbVars
  <1>5. CASE handleRegister(w)
    BY <1>5 DEF handleRegister, createUser, Rejected, dbVars
  <1>6. CASE handleInvite_user(w)
    BY <1>6 DEF handleInvite_user, createInvitation, Rejected, dbVars
  <1>7. CASE handleUpdate_server(w)
    BY <1>7 DEF handleUpdate_server, updateServer, insertServer, Rejected, dbVars
  <1>8. CASE handleStop_server(w)
    BY <1>8 DEF handleStop_server, deleteServer, Rejected, dbVars
  <1>9. CASE handleSign_key(w)
    BY <1>9 DEF handleSign_key, addKey, Rejected, dbVars
  <1>10. CASE handleChange_password(w)
    BY <1>10 DEF handleChange_password, changeUserPassword, Rejected, dbVars
  <1>11. CASE \/ getLogin(w) \/ handleLogin(w) \/ handleLogout(w)
              \/ handleList_networks(w) \/ handleList_my_networks(w)
              \/ handleList_servers(w) \/ handleUser_info(w)
    BY <1>0, <1>11
       DEF getLogin, handleLogin, handleLogout, handleList_networks,
           handleList_my_networks, handleList_servers, handleUser_info, dbVars
  <1> QED
    BY <1>1, <1>2, <1>3, <1>4, <1>5, <1>6, <1>7, <1>8, <1>9, <1>10, <1>11
       DEF Handle

(* Whatever the step, a network that goes was asked to.                    *)
LEMMA StepAsked == IInv /\ [Next]_vars => DeletionsAsked
  <1> SUFFICES ASSUME IInv, [Next]_vars, NEW n \in networks, n \notin networks'
               PROVE  \E w \in Worker : worker'[w] # worker[w] /\ AskedToDelete(w, n)
    BY DEF DeletionsAsked
  <1>1. PICK w \in Worker : Handle(w)
    BY DEF Next, Receive, ReceiveEmpty, Reply, Overlap, vars, dbVars
  <1>2. worker'[w] # worker[w] /\ AskedToDelete(w, n)
    BY <1>1, OwnerStep DEF IInv
  <1> QED
    BY <1>2

(***************************************************************************)
(* For any number of workers, a network goes only because its owner asked. *)
(***************************************************************************)
THEOREM OwnersDecide == Spec => OnlyOwnerDeletes
  <1>1. IInv /\ [Next]_vars => [DeletionsAsked]_vars
    BY StepAsked
  <1> QED
    BY <1>1, AlwaysIInv, PTL DEF Spec, OnlyOwnerDeletes

=============================================================================
