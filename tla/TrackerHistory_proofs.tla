----------------------- MODULE TrackerHistory_proofs -----------------------
(***************************************************************************)
(* Rights and passwords, which a handler of the tracker checks in one      *)
(* transaction and relies on in a later one, for any number of workers and *)
(* with networks and accounts that come and go in between.                 *)
(*                                                                         *)
(* The invariant says of each worker that has passed its check, and not    *)
(* yet made the call the check is for, that what it checked still holds or *)
(* was withdrawn by the one who may.  A step of another worker preserves   *)
(* it because a row that a right rests on goes only when its owner asks.   *)
(***************************************************************************)
EXTENDS TrackerHistory, Tracker_proofs

(* The handler of w is past its check and before, or at, the call that the *)
(* check was made for.                                                     *)
Relies(w) ==
    \/ At(w, "UPDATE_SERVER", 4) \/ At(w, "UPDATE_SERVER", 5)
    \/ At(w, "LIST_SERVERS", 4)
    \/ At(w, "LOGIN", 2)
    \/ At(w, "CHANGE_PASSWORD", 3)

Checked == \A w \in Worker : Relies(w) => Sanctioned(w)

HInv == IInv /\ Checked

(* A step with its history is a step of the tracker, and is recorded.      *)
LEMMA RecordedStep == HNext <=> Next /\ Record
  BY DEF HNext, Next

-----------------------------------------------------------------------------
(* What a handler's call does to the workers: the others stay where they   *)
(* are, and the message stays.                                             *)
Moves(w) ==
    /\ \A v \in Worker : v # w => worker'[v] = worker[v]
    /\ worker'[w].req = worker[w].req

(* A handler that goes on.                                                 *)
LEMMA GoOnMoves ==
  ASSUME WorkersOK, NEW w \in Worker, GoOn(w)
  PROVE  /\ Moves(w)
         /\ worker'[w].step = worker[w].step + 1
         /\ worker'[w].login = worker[w].login
  BY DEF WorkersOK, WorkerState, GoOn, Moves

(* A handler that answers with a status.                                   *)
LEMMA ReturnMoves ==
  ASSUME WorkersOK, NEW w \in Worker, NEW s, Return(w, s)
  PROVE  /\ Moves(w)
         /\ worker'[w].step = 0
         /\ worker'[w].login = worker[w].login
         /\ worker'[w].answer = worker[w].answer
  BY DEF WorkersOK, WorkerState, Return, Moves

(* A handler that answers with a list.                                     *)
LEMMA ReturnListMoves ==
  ASSUME WorkersOK, NEW w \in Worker, NEW a, ReturnList(w, a)
  PROVE  /\ Moves(w)
         /\ worker'[w].step = 0
         /\ worker'[w].login = worker[w].login
         /\ worker'[w].answer = a
  BY DEF WorkersOK, WorkerState, ReturnList, Moves

(* A handler that goes on if a check says so, and answers otherwise.       *)
LEMMA UnlessMoves ==
  ASSUME WorkersOK, NEW w \in Worker, NEW ok, NEW s, Unless(w, ok, s)
  PROVE  /\ Moves(w)
         /\ worker'[w].login = worker[w].login
         /\ worker'[w].answer = worker[w].answer
         /\ worker'[w].step = 0 \/ (ok /\ worker'[w].step = worker[w].step + 1)
  <1>1. CASE ok /\ GoOn(w)
    <2>1. worker'[w].answer = worker[w].answer
      BY <1>1 DEF WorkersOK, WorkerState, GoOn
    <2> QED
      BY <1>1, <2>1, GoOnMoves
  <1>2. CASE Return(w, s)
    BY <1>2, ReturnMoves
  <1> QED
    BY <1>1, <1>2 DEF Unless

(* Every call of a handler moves one worker.                               *)
LEMMA HandleMoves ==
  ASSUME WorkersOK, NEW w \in Worker, Handle(w)
  PROVE  Moves(w)
  <1> USE ReturnMoves, ReturnListMoves, UnlessMoves
  <1>1. CASE getLogin(w)
    <2>1. CASE Return(w, "NOT_LOGGED")
      BY <2>1
    <2>2. CASE worker' = [worker EXCEPT ![w].step = 2,
                                        ![w].login = sessions[worker[w].req.cookie]]
      BY <2>2 DEF WorkersOK, WorkerState, Moves
    <2> QED
      BY <1>1, <2>1, <2>2 DEF getLogin
  <1>2. CASE handleRemove_user(w)
    <2>1. CASE \E r \in DB_Response :
                  worker' = [worker EXCEPT ![w].step = 3,
                                           ![w].status = Status(r, "NO_SUCH_USER")]
      BY <2>1 DEF WorkersOK, WorkerState, Moves
    <2>2. CASE Return(w, worker[w].status)
      BY <2>2
    <2> QED
      BY <1>2, <2>1, <2>2 DEF handleRemove_user
  <1>3. CASE handleRegister(w)
    BY <1>3 DEF handleRegister
  <1>4. CASE handleUnregister(w)
    BY <1>4 DEF handleUnregister
  <1>5. CASE handleLogin(w)
    BY <1>5 DEF handleLogin
  <1>6. CASE handleLogout(w)
    BY <1>6 DEF handleLogout
  <1>7. CASE handleList_networks(w)
    BY <1>7 DEF handleList_networks
  <1>8. CASE handleList_my_networks(w)
    BY <1>8 DEF handleList_my_networks
  <1>9. CASE handleList_servers(w)
    BY <1>9 DEF handleList_servers
  <1>10. CASE handleCreate_network(w)
    BY <1>10 DEF handleCreate_network
  <1>11. CASE handleDelete_network(w)
    BY <1>11 DEF handleDelete_network
  <1>12. CASE handleInvite_user(w)
    BY <1>12 DEF handleInvite_user
  <1>13. CASE handleUser_info(w)
    BY <1>13 DEF handleUser_info
  <1>14. CASE handleUpdate_server(w)
    BY <1>14 DEF handleUpdate_server
  <1>15. CASE handleStop_server(w)
    BY <1>15 DEF handleStop_server
  <1>16. CASE handleSign_key(w)
    BY <1>16 DEF handleSign_key
  <1>17. CASE handleChange_password(w)
    BY <1>17 DEF handleChange_password
  <1> QED
    BY <1>1, <1>2, <1>3, <1>4, <1>5, <1>6, <1>7, <1>8, <1>9, <1>10, <1>11,
       <1>12, <1>13, <1>14, <1>15, <1>16, <1>17 DEF Handle

(* A handler runs only for a message that has not been answered.           *)
LEMMA HandleActive ==
  ASSUME NEW w \in Worker, Handle(w)
  PROVE  worker[w].req # NoRequest /\ worker[w].step # 0
  <1> DEFINE active == worker[w].req # NoRequest /\ worker[w].step # 0
  <1>1. getLogin(w) => active
    BY DEF getLogin, At
  <1>2. handleRegister(w) => active
    BY DEF handleRegister, At
  <1>3. handleUnregister(w) => active
    BY DEF handleUnregister, At
  <1>4. handleLogin(w) => active
    BY DEF handleLogin, At
  <1>5. handleLogout(w) => active
    BY DEF handleLogout, At
  <1>6. handleList_networks(w) => active
    BY DEF handleList_networks, At
  <1>7. handleList_my_networks(w) => active
    BY DEF handleList_my_networks, At
  <1>8. handleList_servers(w) => active
    BY DEF handleList_servers, At
  <1>9. handleCreate_network(w) => active
    BY DEF handleCreate_network, At
  <1>10. handleDelete_network(w) => active
    BY DEF handleDelete_network, At
  <1>11. handleInvite_user(w) => active
    BY DEF handleInvite_user, At
  <1>12. handleRemove_user(w) => active
    BY DEF handleRemove_user, At
  <1>13. handleUser_info(w) => active
    BY DEF handleUser_info, At
  <1>14. handleUpdate_server(w) => active
    BY DEF handleUpdate_server, At
  <1>15. handleStop_server(w) => active
    BY DEF handleStop_server, At
  <1>16. handleSign_key(w) => active
    BY DEF handleSign_key, At
  <1>17. handleChange_password(w) => active
    BY DEF handleChange_password, At
  <1> QED
    BY <1>1, <1>2, <1>3, <1>4, <1>5, <1>6, <1>7, <1>8, <1>9, <1>10,
       <1>11, <1>12, <1>13, <1>14, <1>15, <1>16, <1>17 DEF Handle

(* Which calls a message of a type can lead to.                            *)
LEMMA HandlerOf ==
  ASSUME NEW w \in Worker, Handle(w)
  PROVE  /\ worker[w].req.type = "UPDATE_SERVER" => getLogin(w) \/ handleUpdate_server(w)
         /\ worker[w].req.type = "LIST_SERVERS" => getLogin(w) \/ handleList_servers(w)
         /\ worker[w].req.type = "LOGIN" => handleLogin(w)
         /\ worker[w].req.type = "CHANGE_PASSWORD" => getLogin(w) \/ handleChange_password(w)
  <1> DEFINE type == worker[w].req.type
  <1>0. getLogin(w) => type # "LOGIN"
    BY DEF getLogin
  <1>1. handleRegister(w) => type = "REGISTER"
    BY DEF handleRegister, At
  <1>2. handleUnregister(w) => type = "UNREGISTER"
    BY DEF handleUnregister, At
  <1>3. handleLogin(w) => type = "LOGIN"
    BY DEF handleLogin, At
  <1>4. handleLogout(w) => type = "LOGOUT"
    BY DEF handleLogout, At
  <1>5. handleList_networks(w) => type = "LIST_NETWORKS"
    BY DEF handleList_networks, At
  <1>6. handleList_my_networks(w) => type = "LIST_MY_NETWORKS"
    BY DEF handleList_my_networks, At
  <1>7. handleList_servers(w) => type = "LIST_SERVERS"
    BY DEF handleList_servers, At
  <1>8. handleCreate_network(w) => type = "CREATE_NETWORK"
    BY DEF handleCreate_network, At
  <1>9. handleDelete_network(w) => type = "DELETE_NETWORK"
    BY DEF handleDelete_network, At
  <1>10. handleInvite_user(w) => type = "INVITE_USER"
    BY DEF handleInvite_user, At
  <1>11. handleRemove_user(w) => type = "REMOVE_USER"
    BY DEF handleRemove_user, At
  <1>12. handleUser_info(w) => type = "USER_INFO"
    BY DEF handleUser_info, At
  <1>13. handleUpdate_server(w) => type = "UPDATE_SERVER"
    BY DEF handleUpdate_server, At
  <1>14. handleStop_server(w) => type = "STOP_SERVER"
    BY DEF handleStop_server, At
  <1>15. handleSign_key(w) => type = "SIGN_KEY"
    BY DEF handleSign_key, At
  <1>16. handleChange_password(w) => type = "CHANGE_PASSWORD"
    BY DEF handleChange_password, At
  <1> HIDE DEF type
  <1>17. /\ type = "UPDATE_SERVER" => getLogin(w) \/ handleUpdate_server(w)
         /\ type = "LIST_SERVERS" => getLogin(w) \/ handleList_servers(w)
         /\ type = "LOGIN" => handleLogin(w)
         /\ type = "CHANGE_PASSWORD" => getLogin(w) \/ handleChange_password(w)
    BY <1>0, <1>1, <1>2, <1>3, <1>4, <1>5, <1>6, <1>7, <1>8, <1>9, <1>10,
       <1>11, <1>12, <1>13, <1>14, <1>15, <1>16 DEF Handle
  <1> QED
    BY <1>17 DEF type

(* getLogin goes to the second call, or answers with no list.              *)
LEMMA GetLoginMoves ==
  ASSUME WorkersOK, NEW w \in Worker, getLogin(w)
  PROVE  /\ worker'[w].step \in {0, 2}
         /\ worker'[w].answer = worker[w].answer
         /\ UNCHANGED dbVars
  <1>1. UNCHANGED dbVars
    BY DEF getLogin
  <1>2. CASE Return(w, "NOT_LOGGED")
    BY <1>1, <1>2, ReturnMoves
  <1>3. CASE worker' = [worker EXCEPT ![w].step = 2,
                                      ![w].login = sessions[worker[w].req.cookie]]
    BY <1>1, <1>3 DEF WorkersOK, WorkerState
  <1> QED
    BY <1>2, <1>3 DEF getLogin

(* A check of the connector that says yes is right: failures say no.       *)
LEMMA CheckSound ==
  ASSUME NEW b \in BOOLEAN, NEW c \in Check(b), c
  PROVE  b
  BY DEF Check

-----------------------------------------------------------------------------
(* What the checks find out.                                               *)

(* bcrypt says yes only to the password that is stored, and a query that   *)
(* fails stores none.                                                      *)
LEMMA PasswordSound ==
  ASSUME NEW w \in Worker, worker[w].req # NoRequest, DbTypeOK,
         NEW l, NEW stored \in getPassHash(l), check_bcrypt(worker[w].req.pass, stored)
  PROVE  KnowsPassword(w, l)
  <1> DEFINE h == getPasswordHash(worker[w].req.pass)
  <1>1. h \in stored
    BY DEF check_bcrypt
  <1>2. stored = {u.password : u \in {v \in users : v.login = l}} \/ stored = {}
    BY DEF getPassHash
  <1>3. PICK u \in users : u.login = l /\ u.password = h
    BY <1>1, <1>2
  <1>4. u = [login |-> l, password |-> h]
    BY <1>3 DEF DbTypeOK
  <1> QED
    BY <1>3, <1>4 DEF KnowsPassword

(* A login that getLogin returned is one.                                  *)
LEMMA LoginHeld ==
  ASSUME WorkersOK, NEW w \in Worker, worker[w].req # NoRequest,
         worker[w].step >= 2, worker[w].req.type # "LOGIN"
  PROVE  worker[w].login \in Login
  BY DEF WorkersOK, LoginKnown

(* What the moving worker of UPDATE_SERVER has checked.                    *)
LEMMA ServeStep ==
  ASSUME HInv, NEW w \in Worker, Handle(w),
         worker[w].req.type = "UPDATE_SERVER", worker'[w].step \in {4, 5}
  PROVE  Sanctioned(w) /\ worker'[w].login = worker[w].login
  <1>1. WorkersOK /\ worker[w].req # NoRequest
    BY HandleActive DEF HInv, IInv
  <1>2. ~getLogin(w)
    BY <1>1, GetLoginMoves
  <1>3. handleUpdate_server(w)
    BY <1>2, HandlerOf
  <1> DEFINE l == worker[w].login
             n == worker[w].req.network
  <1>4. CASE /\ At(w, "UPDATE_SERVER", 2)
             /\ \E b \in networkExists(n) : Unless(w, b, "NO_SUCH_NETWORK")
    <2>1. worker'[w].step \in {0, 3}
      BY <1>1, <1>4, UnlessMoves DEF At
    <2> QED
      BY <2>1
  <1>5. CASE /\ At(w, "UPDATE_SERVER", 3)
             /\ \E b \in canAddServer(l, n) : Unless(w, b, "NO_PRIVILAGES")
    <2>1. PICK b \in canAddServer(l, n) : Unless(w, b, "NO_PRIVILAGES")
      BY <1>5
    <2>2. worker'[w].login = l /\ (worker'[w].step = 0 \/ b)
      BY <1>1, <2>1, UnlessMoves
    <2>3. b /\ worker'[w].login = l
      BY <2>2
    <2>4. mayServe(l, n) \in BOOLEAN
      BY DEF mayServe
    <2>5. mayServe(l, n)
      BY <2>1, <2>3, <2>4, CheckSound DEF canAddServer
    <2>6. l \in Login
      BY <1>1, <1>5, LoginHeld DEF At
    <2> QED
      BY <1>1, <2>3, <2>5, <2>6 DEF Sanctioned, Entitled, Serving
  <1>6. CASE /\ At(w, "UPDATE_SERVER", 4)
             /\ \E r \in DB_Response : Unless(w, r = "NOT_FOUND", Status(r, "NO_SUCH_USER"))
    <2>1. worker'[w].login = l
      BY <1>1, <1>6, UnlessMoves
    <2> QED
      BY <1>6, <2>1 DEF HInv, Checked, Relies
  <1>7. CASE /\ At(w, "UPDATE_SERVER", 5)
             /\ \E r \in DB_Response : Return(w, Status(r, "NO_SUCH_USER"))
    <2>1. worker'[w].step = 0
      BY <1>1, <1>7, ReturnMoves
    <2> QED
      BY <2>1
  <1> QED
    BY <1>3, <1>4, <1>5, <1>6, <1>7 DEF handleUpdate_server

(* What the moving worker of LIST_SERVERS has checked before it asks for   *)
(* the list.                                                               *)
LEMMA SeeStep ==
  ASSUME HInv, NEW w \in Worker, Handle(w),
         worker[w].req.type = "LIST_SERVERS", worker'[w].step = 4
  PROVE  Sanctioned(w) /\ worker'[w].login = worker[w].login
  <1>1. WorkersOK /\ worker[w].req # NoRequest
    BY HandleActive DEF HInv, IInv
  <1>2. ~getLogin(w)
    BY <1>1, GetLoginMoves
  <1>3. handleList_servers(w)
    BY <1>2, HandlerOf
  <1> DEFINE l == worker[w].login
             n == worker[w].req.network
  <1>4. CASE /\ At(w, "LIST_SERVERS", 2)
             /\ \E b \in networkExists(n) : Unless(w, b, "NO_SUCH_NETWORK")
    <2>1. worker'[w].step \in {0, 3}
      BY <1>1, <1>4, UnlessMoves DEF At
    <2> QED
      BY <2>1
  <1>5. CASE /\ At(w, "LIST_SERVERS", 3)
             /\ \E b \in canSeeNetwork(n, l) : Unless(w, b, "NO_PRIVILAGES")
    <2>1. PICK b \in canSeeNetwork(n, l) : Unless(w, b, "NO_PRIVILAGES")
      BY <1>5
    <2>2. worker'[w].login = l /\ (worker'[w].step = 0 \/ b)
      BY <1>1, <2>1, UnlessMoves
    <2>3. b /\ worker'[w].login = l
      BY <2>2
    <2>4. maySee(l, n) \in BOOLEAN
      BY DEF maySee
    <2>5. maySee(l, n)
      BY <2>1, <2>3, <2>4, CheckSound DEF canSeeNetwork
    <2>6. l \in Login
      BY <1>1, <1>5, LoginHeld DEF At
    <2> QED
      BY <1>1, <2>3, <2>5, <2>6 DEF Sanctioned, Entitled, Serving
  <1>6. CASE \E L \in getServers(n) : ReturnList(w, L)
    <2>1. worker'[w].step = 0
      BY <1>1, <1>6, ReturnListMoves
    <2> QED
      BY <2>1
  <1> QED
    BY <1>3, <1>4, <1>5, <1>6 DEF handleList_servers

(* What the moving worker of LOGIN has checked before it opens a session.  *)
LEMMA LoginStep ==
  ASSUME HInv, NEW w \in Worker, Handle(w),
         worker[w].req.type = "LOGIN", worker'[w].step = 2
  PROVE  Sanctioned(w) /\ worker'[w].login = worker[w].login
  <1>1. WorkersOK /\ DbTypeOK /\ worker[w].req # NoRequest
    BY HandleActive DEF HInv, IInv
  <1>2. handleLogin(w)
    BY HandlerOf
  <1>3. ~Return(w, "OK")
    BY <1>1, ReturnMoves
  <1>4. PICK stored \in getPassHash(worker[w].req.user) :
          Unless(w, check_bcrypt(worker[w].req.pass, stored), "BAD_CREDENTIALS")
    BY <1>2, <1>3 DEF handleLogin
  <1>5. check_bcrypt(worker[w].req.pass, stored) /\ worker'[w].login = worker[w].login
    BY <1>1, <1>4, UnlessMoves
  <1>6. KnowsPassword(w, worker[w].req.user)
    BY <1>1, <1>5, PasswordSound
  <1> QED
    BY <1>1, <1>5, <1>6 DEF Sanctioned, Entitled, Serving

(* What the moving worker of CHANGE_PASSWORD has checked before it writes. *)
LEMMA PasswordStep ==
  ASSUME HInv, NEW w \in Worker, Handle(w),
         worker[w].req.type = "CHANGE_PASSWORD", worker'[w].step = 3
  PROVE  Sanctioned(w) /\ worker'[w].login = worker[w].login
  <1>1. WorkersOK /\ DbTypeOK /\ worker[w].req # NoRequest
    BY HandleActive DEF HInv, IInv
  <1>2. ~getLogin(w)
    BY <1>1, GetLoginMoves
  <1>3. handleChange_password(w)
    BY <1>2, HandlerOf
  <1>4. ~\E s : Return(w, s)
    BY <1>1, ReturnMoves
  <1>5. PICK stored \in getPassHash(worker[w].login) :
          Unless(w, check_bcrypt(worker[w].req.pass, stored), "BAD_CREDENTIALS")
    BY <1>3, <1>4 DEF handleChange_password
  <1>6. check_bcrypt(worker[w].req.pass, stored) /\ worker'[w].login = worker[w].login
    BY <1>1, <1>5, UnlessMoves
  <1>7. KnowsPassword(w, worker[w].login)
    BY <1>1, <1>6, PasswordSound
  <1> QED
    BY <1>1, <1>6, <1>7 DEF Sanctioned, Entitled, Serving

(* A handler that comes to rely on its check has made it.                  *)
LEMMA RelyStep ==
  ASSUME HInv, NEW w \in Worker, Handle(w), Relies(w)'
  PROVE  Sanctioned(w) /\ worker'[w].login = worker[w].login
  <1>1. worker'[w].req = worker[w].req
    BY HandleMoves DEF HInv, IInv, Moves
  <1>2. \/ worker[w].req.type = "UPDATE_SERVER" /\ worker'[w].step \in {4, 5}
        \/ worker[w].req.type = "LIST_SERVERS" /\ worker'[w].step = 4
        \/ worker[w].req.type = "LOGIN" /\ worker'[w].step = 2
        \/ worker[w].req.type = "CHANGE_PASSWORD" /\ worker'[w].step = 3
    BY <1>1 DEF Relies, At
  <1> QED
    BY <1>2, ServeStep, SeeStep, LoginStep, PasswordStep

-----------------------------------------------------------------------------
(* Who takes rows away and who brings them.                                *)

(* A row of users goes with the account of the worker's login, or with the *)
(* password that the last call of handleChange_password replaces.          *)
LEMMA UserGone ==
  ASSUME WorkersOK, NEW w \in Worker, Handle(w), NEW u \in users, u \notin users'
  PROVE  /\ worker'[w] # worker[w]
         /\ u.login = worker[w].login
         /\ \/ Serving(w, "UNREGISTER") \/ Serving(w, "REMOVE_USER")
            \/ At(w, "CHANGE_PASSWORD", 3)
  <1>0. users' # users
    OBVIOUS
  <1>1. CASE handleUnregister(w)
    <2>1. PICK r \in DB_Response : removeUser(worker[w].login, r) /\
                                   Return(w, Status(r, "NO_SUCH_USER"))
      BY <1>1 DEF handleUnregister
    <2>2. u.login = worker[w].login
      BY <2>1 DEF removeUser, Rejected, dbVars
    <2>3. worker'[w].step = 0
      BY <2>1, ReturnMoves
    <2>4. At(w, "UNREGISTER", 2)
      BY <1>1 DEF handleUnregister
    <2> QED
      BY <2>2, <2>3, <2>4 DEF At, Serving
  <1>2. CASE handleRemove_user(w)
    <2>1. At(w, "REMOVE_USER", 2)
      BY <1>0, <1>2 DEF handleRemove_user, dbVars
    <2>2. PICK r \in DB_Response :
            /\ removeUser(worker[w].login, r)
            /\ worker' = [worker EXCEPT ![w].step = 3,
                                        ![w].status = Status(r, "NO_SUCH_USER")]
      BY <1>0, <1>2 DEF handleRemove_user, dbVars
    <2>3. u.login = worker[w].login
      BY <2>2 DEF removeUser, Rejected, dbVars
    <2>4. worker'[w].step = 3
      BY <2>2 DEF WorkersOK, WorkerState
    <2> QED
      BY <2>1, <2>3, <2>4 DEF At, Serving
  <1>3. CASE handleChange_password(w)
    <2>1. At(w, "CHANGE_PASSWORD", 3)
      BY <1>0, <1>3 DEF handleChange_password, dbVars
    <2>2. PICK r \in DB_Response :
            /\ changeUserPassword(worker[w].login, getPasswordHash(worker[w].req.newPass), r)
            /\ Return(w, Status(r, "NO_SUCH_USER"))
      BY <1>3, <2>1 DEF handleChange_password, At
    <2>3. users' = {IF x.login = worker[w].login
                    THEN [login |-> worker[w].login,
                          password |-> getPasswordHash(worker[w].req.newPass)]
                    ELSE x : x \in users}
      BY <1>0, <2>2 DEF changeUserPassword, Rejected, dbVars
    <2>4. u.login = worker[w].login
      BY <2>3
    <2>5. worker'[w].step = 0
      BY <2>2, ReturnMoves
    <2> QED
      BY <2>1, <2>4, <2>5 DEF At
  <1>4. CASE handleRegister(w)
    BY <1>4 DEF handleRegister, createUser, Rejected, dbVars
  <1>5. CASE handleCreate_network(w)
    BY <1>0, <1>5 DEF handleCreate_network, createNetwork, createInvitation,
                      Rejected, dbVars
  <1>6. CASE handleDelete_network(w)
    BY <1>0, <1>6 DEF handleDelete_network, deleteNetwork, Rejected, dbVars
  <1>7. CASE handleInvite_user(w)
    BY <1>0, <1>7 DEF handleInvite_user, createInvitation, Rejected, dbVars
  <1>8. CASE handleUpdate_server(w)
    BY <1>0, <1>8 DEF handleUpdate_server, updateServer, insertServer, Rejected, dbVars
  <1>9. CASE handleStop_server(w)
    BY <1>0, <1>9 DEF handleStop_server, deleteServer, Rejected, dbVars
  <1>10. CASE handleSign_key(w)
    BY <1>0, <1>10 DEF handleSign_key, addKey, Rejected, dbVars
  <1>11. CASE \/ getLogin(w) \/ handleLogin(w) \/ handleLogout(w)
              \/ handleList_networks(w) \/ handleList_my_networks(w)
              \/ handleList_servers(w) \/ handleUser_info(w)
    BY <1>0, <1>11
       DEF getLogin, handleLogin, handleLogout, handleList_networks,
           handleList_my_networks, handleList_servers, handleUser_info, dbVars
  <1> QED
    BY <1>1, <1>2, <1>3, <1>4, <1>5, <1>6, <1>7, <1>8, <1>9, <1>10, <1>11
       DEF Handle

(* Only the last call of handleUpdate_server lists a server, for the       *)
(* worker's login under the network of its message.                        *)
LEMMA InsertedBy ==
  ASSUME NEW w \in Worker, Handle(w), NEW s \in servers', s \notin servers
  PROVE  /\ At(w, "UPDATE_SERVER", 5)
         /\ s.user = worker[w].login /\ s.network = worker[w].req.network
  <1>0. servers' # servers
    OBVIOUS
  <1>1. CASE handleUpdate_server(w)
    <2>1. At(w, "UPDATE_SERVER", 5)
      BY <1>0, <1>1 DEF handleUpdate_server, updateServer, dbVars
    <2>2. PICK r \in DB_Response :
            insertServer(worker[w].login, worker[w].req.network, worker[w].req.addr, r)
      BY <1>0, <1>1, <2>1 DEF handleUpdate_server, At
    <2>3. servers' = servers \cup {[user |-> worker[w].login,
                                    network |-> worker[w].req.network,
                                    addr |-> worker[w].req.addr]}
      BY <1>0, <2>2 DEF insertServer, Rejected, dbVars
    <2> QED
      BY <2>1, <2>3
  <1>2. CASE handleUnregister(w)
    BY <1>2 DEF handleUnregister, removeUser, Without, Rejected, dbVars
  <1>3. CASE handleRemove_user(w)
    BY <1>3 DEF handleRemove_user, removeUser, Without, Rejected, dbVars
  <1>4. CASE handleDelete_network(w)
    BY <1>4 DEF handleDelete_network, deleteNetwork, Rejected, dbVars
  <1>5. CASE handleStop_server(w)
    BY <1>5 DEF handleStop_server, deleteServer, Rejected, dbVars
  <1>6. CASE handleRegister(w)
    BY <1>0, <1>6 DEF handleRegister, createUser, Rejected, dbVars
  <1>7. CASE handleCreate_network(w)
    BY <1>0, <1>7 DEF handleCreate_network, createNetwork, createInvitation,
                      Rejected, dbVars
  <1>8. CASE handleInvite_user(w)
    BY <1>0, <1>8 DEF handleInvite_user, createInvitation, Rejected, dbVars
  <1>9. CASE handleSign_key(w)
    BY <1>0, <1>9 DEF handleSign_key, addKey, Rejected, dbVars
  <1>10. CASE handleChange_password(w)
    BY <1>0, <1>10 DEF handleChange_password, changeUserPassword, Rejected, dbVars
  <1>11. CASE \/ getLogin(w) \/ handleLogin(w) \/ handleLogout(w)
              \/ handleList_networks(w) \/ handleList_my_networks(w)
              \/ handleList_servers(w) \/ handleUser_info(w)
    BY <1>0, <1>11
       DEF getLogin, handleLogin, handleLogout, handleList_networks,
           handleList_my_networks, handleList_servers, handleUser_info, dbVars
  <1> QED
    BY <1>1, <1>2, <1>3, <1>4, <1>5, <1>6, <1>7, <1>8, <1>9, <1>10, <1>11
       DEF Handle

(* Only the last call of handleLogin opens a session, for the user of the  *)
(* message.                                                                *)
LEMMA OpenedBy ==
  ASSUME WorkersOK, SessionsTypeOK, NEW w \in Worker, Handle(w), NEW c \in Cookie,
         sessions[c] = NoEntry, sessions'[c] # NoEntry
  PROVE  /\ At(w, "LOGIN", 2) /\ worker'[w].step = 0
         /\ sessions'[c] = worker[w].req.user
  <1>0. sessions' # sessions
    OBVIOUS
  <1>1. CASE handleLogin(w)
    <2>1. At(w, "LOGIN", 2) /\ Return(w, "OK")
      BY <1>0, <1>1 DEF handleLogin, sessionsVars
    <2>2. PICK d \in Cookie : OpenSession(d, worker[w].req.user)
      BY <1>0, <1>1 DEF handleLogin, sessionsVars
    <2>3. sessions'[c] = worker[w].req.user
      BY <2>2 DEF OpenSession, SessionsTypeOK
    <2> QED
      BY <2>1, <2>3, ReturnMoves
  <1>2. CASE handleLogout(w)
    BY <1>2 DEF handleLogout, CloseSessions
  <1>3. CASE handleRemove_user(w)
    BY <1>0, <1>3 DEF handleRemove_user, CloseSessions, sessionsVars
  <1>4. CASE \/ getLogin(w) \/ handleRegister(w) \/ handleUnregister(w)
             \/ handleList_networks(w) \/ handleList_my_networks(w)
             \/ handleList_servers(w) \/ handleCreate_network(w)
             \/ handleDelete_network(w) \/ handleInvite_user(w)
    BY <1>0, <1>4
       DEF getLogin, handleRegister, handleUnregister, handleList_networks,
           handleList_my_networks, handleList_servers, handleCreate_network,
           handleDelete_network, handleInvite_user, sessionsVars
  <1>5. CASE \/ handleUser_info(w) \/ handleUpdate_server(w) \/ handleStop_server(w)
             \/ handleSign_key(w) \/ handleChange_password(w)
    BY <1>0, <1>5
       DEF handleUser_info, handleUpdate_server, handleStop_server, handleSign_key,
           handleChange_password, sessionsVars
  <1> QED
    BY <1>1, <1>2, <1>3, <1>4, <1>5 DEF Handle

(* Only the last call of handleChange_password replaces a password, that   *)
(* of the worker's login.                                                  *)
LEMMA ReplacedBy ==
  ASSUME WorkersOK, UniqueRows, NEW w \in Worker, Handle(w),
         NEW u \in users, NEW v \in users', u.login = v.login, u # v
  PROVE  /\ At(w, "CHANGE_PASSWORD", 3) /\ worker'[w].step = 0
         /\ u.login = worker[w].login
  <1>0. v \notin users
    BY DEF UniqueRows
  <1>1. CASE handleChange_password(w)
    <2>1. At(w, "CHANGE_PASSWORD", 3)
      BY <1>0, <1>1 DEF handleChange_password, dbVars
    <2>2. PICK r \in DB_Response :
            /\ changeUserPassword(worker[w].login, getPasswordHash(worker[w].req.newPass), r)
            /\ Return(w, Status(r, "NO_SUCH_USER"))
      BY <1>1, <2>1 DEF handleChange_password, At
    <2>3. users' = {IF x.login = worker[w].login
                    THEN [login |-> worker[w].login,
                          password |-> getPasswordHash(worker[w].req.newPass)]
                    ELSE x : x \in users}
      BY <1>0, <2>2 DEF changeUserPassword, Rejected, dbVars
    <2>4. v.login = worker[w].login
      BY <1>0, <2>3
    <2> QED
      BY <2>1, <2>2, <2>4, ReturnMoves
  <1>2. CASE handleRegister(w)
    BY <1>0, <1>2 DEF handleRegister, createUser, isUserRow, Rejected, dbVars
  <1>3. CASE handleUnregister(w)
    BY <1>0, <1>3 DEF handleUnregister, removeUser, Rejected, dbVars
  <1>4. CASE handleRemove_user(w)
    BY <1>0, <1>4 DEF handleRemove_user, removeUser, Rejected, dbVars
  <1>5. CASE handleCreate_network(w)
    BY <1>0, <1>5 DEF handleCreate_network, createNetwork, createInvitation,
                      Rejected, dbVars
  <1>6. CASE handleDelete_network(w)
    BY <1>0, <1>6 DEF handleDelete_network, deleteNetwork, Rejected, dbVars
  <1>7. CASE handleInvite_user(w)
    BY <1>0, <1>7 DEF handleInvite_user, createInvitation, Rejected, dbVars
  <1>8. CASE handleUpdate_server(w)
    BY <1>0, <1>8 DEF handleUpdate_server, updateServer, insertServer, Rejected, dbVars
  <1>9. CASE handleStop_server(w)
    BY <1>0, <1>9 DEF handleStop_server, deleteServer, Rejected, dbVars
  <1>10. CASE handleSign_key(w)
    BY <1>0, <1>10 DEF handleSign_key, addKey, Rejected, dbVars
  <1>11. CASE \/ getLogin(w) \/ handleLogin(w) \/ handleLogout(w)
              \/ handleList_networks(w) \/ handleList_my_networks(w)
              \/ handleList_servers(w) \/ handleUser_info(w)
    BY <1>0, <1>11
       DEF getLogin, handleLogin, handleLogout, handleList_networks,
           handleList_my_networks, handleList_servers, handleUser_info, dbVars
  <1> QED
    BY <1>1, <1>2, <1>3, <1>4, <1>5, <1>6, <1>7, <1>8, <1>9, <1>10, <1>11
       DEF Handle

(* The last call of handleUpdate_server makes the reply.                   *)
LEMMA UpdateEnds ==
  ASSUME WorkersOK, NEW w \in Worker, Handle(w), At(w, "UPDATE_SERVER", 5)
  PROVE  worker'[w] # worker[w]
  <1>1. ~getLogin(w)
    BY DEF getLogin, At
  <1>2. handleUpdate_server(w)
    BY <1>1, HandlerOf DEF At
  <1>3. PICK s : Return(w, s)
    BY <1>2 DEF handleUpdate_server, At
  <1>4. worker'[w].step = 0
    BY <1>3, ReturnMoves
  <1> QED
    BY <1>4 DEF At

(* Only the last call of handleList_servers puts something into the answer *)
(* to LIST_SERVERS.                                                        *)
LEMMA ListedBy ==
  ASSUME WorkersOK, NEW w \in Worker, Handle(w), worker[w].req.type = "LIST_SERVERS",
         worker'[w].answer # worker[w].answer
  PROVE  At(w, "LIST_SERVERS", 4)
  <1>1. ~getLogin(w)
    BY GetLoginMoves
  <1>2. handleList_servers(w)
    BY <1>1, HandlerOf
  <1>3. ~\E b, s : Unless(w, b, s)
    BY UnlessMoves
  <1> QED
    BY <1>2, <1>3 DEF handleList_servers

-----------------------------------------------------------------------------
(* The invariant.                                                          *)

(***************************************************************************)
(* While a request is handled, what sanctions it is not lost: a network    *)
(* goes only when its owner asks, a row of users only when its user does,  *)
(* and both are remembered.                                                *)
(***************************************************************************)
LEMMA SanctionStays ==
  ASSUME HInv, HNext, NEW v \in Worker, Sanctioned(v),
         worker[v].req # NoRequest,
         worker'[v].req = worker[v].req, worker'[v].login = worker[v].login
  PROVE  Sanctioned(v)'
  <1>0. [Next]_vars /\ IInv
    BY RecordedStep DEF HInv
  <1>1. CASE v \in withdrawn
    BY <1>1, RecordedStep DEF Record, Sanctioned
  <1>2. ASSUME Entitled(v), NetworkWithdrawn(v) \/ PasswordWithdrawn(v)
        PROVE  Sanctioned(v)'
    BY <1>2, RecordedStep DEF Record, Sanctioned
  <1>3. ASSUME Entitled(v), Serving(v, "UPDATE_SERVER") \/ Serving(v, "LIST_SERVERS"),
               NEW m \in networks, m.name = worker[v].req.network, m \notin networks'
        PROVE  Sanctioned(v)'
    <2>1. PICK w \in Worker : worker'[w] # worker[w] /\ AskedToDelete(w, m)
      BY <1>0, <1>3, StepAsked DEF DeletionsAsked
    <2>2. NetworkWithdrawn(v)
      BY <1>3, <2>1 DEF NetworkWithdrawn
    <2> QED
      BY <1>2, <1>3, <2>2
  <1>4. ASSUME Entitled(v), NEW u \in users, u \notin users',
               \/ Serving(v, "LOGIN") /\ u.login = worker[v].req.user
               \/ Serving(v, "CHANGE_PASSWORD") /\ u.login = worker[v].login
        PROVE  Sanctioned(v)'
    <2>1. PICK w \in Worker : Handle(w)
      BY <1>4, RecordedStep DEF Next, Receive, ReceiveEmpty, Reply, Overlap, dbVars
    <2>2. /\ worker'[w] # worker[w]
          /\ u.login = worker[w].login
          /\ \/ Serving(w, "UNREGISTER") \/ Serving(w, "REMOVE_USER")
             \/ At(w, "CHANGE_PASSWORD", 3)
      BY <1>0, <1>4, <2>1, UserGone DEF IInv
    <2>3. At(w, "CHANGE_PASSWORD", 3) => Serving(w, "CHANGE_PASSWORD") /\ Sanctioned(w)
      BY DEF HInv, Checked, Relies, At, Serving
    <2>4. AskedToChange(w, u)
      BY <2>2, <2>3 DEF AskedToChange
    <2>5. PasswordWithdrawn(v)
      BY <1>4, <2>2, <2>4 DEF PasswordWithdrawn
    <2> QED
      BY <1>2, <1>4, <2>5
  <1> DEFINE q == worker[v].req
             l == worker[v].login
  <1>5. CASE Serving(v, "UPDATE_SERVER") /\ l \in Login /\ mayServe(l, q.network)
    <2>1. PICK m \in networks : m.name = q.network /\ (m.rights.participable \/ m.owner = l)
      BY <1>5 DEF mayServe
    <2>2. CASE m \in networks'
      <3>1. mayServe(l, q.network)'
        BY <2>1, <2>2 DEF mayServe
      <3>2. Serving(v, "UPDATE_SERVER")' /\ l' \in Login
        BY <1>5 DEF Serving
      <3> QED
        BY <3>1, <3>2 DEF Sanctioned, Entitled
    <2>3. CASE m \notin networks'
      <3>1. Entitled(v)
        BY <1>5 DEF Entitled
      <3> QED
        BY <1>3, <1>5, <2>1, <2>3, <3>1
    <2> QED
      BY <2>2, <2>3
  <1>6. CASE Serving(v, "LIST_SERVERS") /\ l \in Login /\ maySee(l, q.network)
    <2>1. PICK m \in networks : m.name = q.network /\ (m.rights.public \/ m.owner = l)
      BY <1>6 DEF maySee
    <2>2. CASE m \in networks'
      <3>1. maySee(l, q.network)'
        BY <2>1, <2>2 DEF maySee
      <3>2. Serving(v, "LIST_SERVERS")' /\ l' \in Login
        BY <1>6 DEF Serving
      <3> QED
        BY <3>1, <3>2 DEF Sanctioned, Entitled
    <2>3. CASE m \notin networks'
      <3>1. Entitled(v)
        BY <1>6 DEF Entitled
      <3> QED
        BY <1>3, <1>6, <2>1, <2>3, <3>1
    <2> QED
      BY <2>2, <2>3
  <1>7. CASE Serving(v, "LOGIN") /\ KnowsPassword(v, q.user)
    <2> DEFINE u == [login |-> q.user, password |-> getPasswordHash(q.pass)]
    <2>1. u \in users /\ u.login = q.user
      BY <1>7 DEF KnowsPassword
    <2>2. CASE u \in users'
      <3>1. KnowsPassword(v, q.user)' /\ Serving(v, "LOGIN")'
        BY <1>7, <2>2 DEF KnowsPassword, Serving
      <3> QED
        BY <3>1 DEF Sanctioned, Entitled
    <2>3. CASE u \notin users'
      <3>1. Entitled(v)
        BY <1>7 DEF Entitled
      <3> HIDE DEF u
      <3> QED
        BY <1>4, <1>7, <2>1, <2>3, <3>1
    <2> QED
      BY <2>2, <2>3
  <1>8. CASE Serving(v, "CHANGE_PASSWORD") /\ KnowsPassword(v, l)
    <2> DEFINE u == [login |-> l, password |-> getPasswordHash(q.pass)]
    <2>1. u \in users /\ u.login = l
      BY <1>8 DEF KnowsPassword
    <2>2. CASE u \in users'
      <3>1. KnowsPassword(v, l)' /\ Serving(v, "CHANGE_PASSWORD")'
        BY <1>8, <2>2 DEF KnowsPassword, Serving
      <3> QED
        BY <3>1 DEF Sanctioned, Entitled
    <2>3. CASE u \notin users'
      <3>1. Entitled(v)
        BY <1>8 DEF Entitled
      <3> HIDE DEF u
      <3> QED
        BY <1>4, <1>8, <2>1, <2>3, <3>1
    <2> QED
      BY <2>2, <2>3
  <1> QED
    BY <1>1, <1>5, <1>6, <1>7, <1>8 DEF Sanctioned, Entitled

(* Taking, answering and dropping messages brings nobody past a check.     *)
LEMMA QuietStep ==
  ASSUME WorkersOK,
         \/ \E w \in Worker, m \in Request : Receive(w, m) \/ ReceiveEmpty(w, m)
         \/ \E w \in Worker : Reply(w)
         \/ \E v, w \in Worker : Overlap(v, w),
         NEW t \in Worker, Relies(t)'
  PROVE  worker'[t] = worker[t]
  <1>1. worker'[t].req # NoRequest /\ worker'[t].step \notin {0, 1}
    BY DEF Relies, At
  <1>2. ASSUME NEW w \in Worker, NEW m \in Request, Receive(w, m)
        PROVE  worker'[t] = worker[t]
    <2> DEFINE new == [Idle EXCEPT !.req = m, !.step = 1]
    <2>1. new.step = 1
      BY DEF Idle
    <2>2. worker' = [worker EXCEPT ![w] = new]
      BY <1>2 DEF Receive
    <2> HIDE DEF new
    <2> QED
      BY <1>1, <2>1, <2>2 DEF WorkersOK
  <1>3. ASSUME NEW w \in Worker, NEW m \in Request, ReceiveEmpty(w, m)
        PROVE  worker'[t] = worker[t]
    <2> DEFINE s == IF m.type = "SIGN_KEY" THEN "INTERNAL_SERVER_ERROR" ELSE "BAD_REQUEST"
               new == [Idle EXCEPT !.req = m, !.status = s]
    <2>1. new.step = 0
      BY DEF Idle
    <2>2. worker' = [worker EXCEPT ![w] = new]
      BY <1>3 DEF ReceiveEmpty
    <2> HIDE DEF new
    <2> QED
      BY <1>1, <2>1, <2>2 DEF WorkersOK
  <1>4. ASSUME NEW w \in Worker, Reply(w) PROVE worker'[t] = worker[t]
    BY <1>1, <1>4 DEF Reply, Idle, WorkersOK
  <1>5. ASSUME NEW v \in Worker, NEW w \in Worker, Overlap(v, w)
        PROVE  worker'[t] = worker[t]
    BY <1>1, <1>5 DEF Overlap, Idle
  <1> QED
    BY <1>2, <1>3, <1>4, <1>5

(* Every worker past its check is sanctioned, in every reachable state.    *)
LEMMA HInvariant == HSpec => []HInv
  <1>1. HInit => HInv
    <2> SUFFICES ASSUME HInit PROVE HInv
      OBVIOUS
    <2>1. \A w \in Worker : worker[w].req = NoRequest
      BY DEF HInit, Init, Idle
    <2>2. IInv
      BY InitInv DEF HInit
    <2> QED
      BY <2>1, <2>2 DEF HInv, Checked, Relies, At
  <1>2. HInv /\ [HNext]_hvars => HInv'
    <2> SUFFICES ASSUME HInv, [HNext]_hvars PROVE HInv'
      OBVIOUS
    <2>0. WorkersOK /\ IInv
      BY DEF HInv, IInv
    <2>1. [Next]_vars
      BY RecordedStep DEF hvars
    <2>2. IInv'
      BY <2>0, <2>1, StepInv
    <2>3. CASE UNCHANGED hvars
      <3>1. UNCHANGED <<worker, users, networks, withdrawn>>
        BY <2>3 DEF hvars, vars, dbVars
      <3>2. Checked'
        BY <3>1 DEF HInv, Checked, Relies, At, Sanctioned, Entitled, Serving,
                    mayServe, maySee, KnowsPassword
      <3> QED
        BY <2>2, <3>2 DEF HInv
    <2>4. CASE HNext
      <3> SUFFICES ASSUME NEW t \in Worker, Relies(t)' PROVE Sanctioned(t)'
        BY <2>2 DEF HInv, Checked
      <3>1. worker'[t].req # NoRequest
        BY DEF Relies, At
      <3>2. ASSUME worker'[t] = worker[t] PROVE Sanctioned(t)'
        <4>1. Relies(t)
          BY <3>2 DEF Relies, At
        <4>2. Sanctioned(t)
          BY <4>1 DEF HInv, Checked
        <4> QED
          BY <2>4, <3>1, <3>2, <4>2, SanctionStays
      <3>3. ASSUME NEW w \in Worker, Handle(w) PROVE Sanctioned(t)'
        <4>1. CASE t = w
          <5>1. Sanctioned(t) /\ worker'[t].login = worker[t].login
            BY <3>3, <4>1, RelyStep
          <5>2. worker'[t].req = worker[t].req
            BY <2>0, <3>3, <4>1, HandleMoves DEF Moves
          <5> QED
            BY <2>4, <3>1, <5>1, <5>2, SanctionStays
        <4>2. CASE t # w
          BY <2>0, <3>2, <3>3, <4>2, HandleMoves DEF Moves
        <4> QED
          BY <4>1, <4>2
      <3>4. Next
        BY <2>4, RecordedStep
      <3>5. \/ \E w \in Worker : Handle(w)
            \/ \E w \in Worker, m \in Request : Receive(w, m) \/ ReceiveEmpty(w, m)
            \/ \E w \in Worker : Reply(w)
            \/ \E v, w \in Worker : Overlap(v, w)
        BY <3>4 DEF Next
      <3> QED
        BY <2>0, <3>2, <3>3, <3>5, QuietStep
    <2> QED
      BY <2>3, <2>4
  <1> QED
    BY <1>1, <1>2, PTL DEF HSpec

(* A step that changes the tables, a session or a list is a handler's.     *)
LEMMA Effects ==
  ASSUME WorkersOK, [HNext]_hvars
  PROVE  \/ \E w \in Worker : Handle(w)
         \/ /\ UNCHANGED dbVars
            /\ \A c \in Cookie : sessions'[c] \in {sessions[c], NoEntry}
            /\ \A w \in Worker : worker'[w].answer \in {{}, worker[w].answer}
  <1> DEFINE Quiet == /\ UNCHANGED dbVars
                      /\ \A c \in Cookie : sessions'[c] \in {sessions[c], NoEntry}
                      /\ \A w \in Worker : worker'[w].answer \in {{}, worker[w].answer}
  <1>1. ASSUME NEW w \in Worker, NEW m \in Request, Receive(w, m) PROVE Quiet
    <2> DEFINE new == [Idle EXCEPT !.req = m, !.step = 1]
    <2>1. new.answer = {}
      BY DEF Idle
    <2>2. worker' = [worker EXCEPT ![w] = new]
      BY <1>1 DEF Receive
    <2>3. UNCHANGED dbVars /\ sessions' = sessions
      BY <1>1 DEF Receive, sessionsVars
    <2> HIDE DEF new
    <2> QED
      BY <2>1, <2>2, <2>3 DEF WorkersOK
  <1>2. ASSUME NEW w \in Worker, NEW m \in Request, ReceiveEmpty(w, m) PROVE Quiet
    <2> DEFINE s == IF m.type = "SIGN_KEY" THEN "INTERNAL_SERVER_ERROR" ELSE "BAD_REQUEST"
               new == [Idle EXCEPT !.req = m, !.status = s]
    <2>1. new.answer = {}
      BY DEF Idle
    <2>2. worker' = [worker EXCEPT ![w] = new]
      BY <1>2 DEF ReceiveEmpty
    <2>3. UNCHANGED dbVars /\ sessions' = sessions
      BY <1>2 DEF ReceiveEmpty, sessionsVars
    <2> HIDE DEF new
    <2> QED
      BY <2>1, <2>2, <2>3 DEF WorkersOK
  <1>3. ASSUME NEW w \in Worker, Reply(w) PROVE Quiet
    BY <1>3 DEF Reply, Idle, WorkersOK, sessionsVars
  <1>4. ASSUME NEW v \in Worker, NEW w \in Worker, Overlap(v, w) PROVE Quiet
    BY <1>4 DEF Overlap, Idle, ResetSessions
  <1>5. CASE UNCHANGED hvars
    BY <1>5 DEF hvars, vars, sessionsVars
  <1> QED
    BY <1>1, <1>2, <1>3, <1>4, <1>5, RecordedStep DEF Next

-----------------------------------------------------------------------------
(***************************************************************************)
(* For any number of workers, users and networks, whichever statements     *)
(* fail and whatever is deleted meanwhile: a server is listed only for     *)
(* somebody who may serve the network, or might until its owner withdrew   *)
(* the network during the request.                                         *)
(***************************************************************************)
THEOREM ServeRight == HSpec => ServersSanctioned
  <1>1. ASSUME HInv, [HNext]_hvars PROVE ServersGranted
    <2>0. WorkersOK
      BY <1>1 DEF HInv, IInv
    <2> SUFFICES ASSUME NEW s \in servers', s \notin servers
                 PROVE  \E w \in Worker : /\ worker'[w] # worker[w]
                                          /\ Serving(w, "UPDATE_SERVER")
                                          /\ s.user = worker[w].login
                                          /\ s.network = worker[w].req.network
                                          /\ Sanctioned(w)
      BY DEF ServersGranted
    <2>1. PICK w \in Worker : Handle(w)
      BY <1>1, <2>0, Effects DEF dbVars
    <2>2. /\ At(w, "UPDATE_SERVER", 5)
          /\ s.user = worker[w].login /\ s.network = worker[w].req.network
      BY <2>1, InsertedBy
    <2>3. Sanctioned(w)
      BY <1>1, <2>2 DEF HInv, Checked, Relies
    <2>4. worker'[w] # worker[w]
      BY <2>0, <2>1, <2>2, UpdateEnds
    <2> QED
      BY <2>2, <2>3, <2>4 DEF At, Serving
  <1>2. HInv /\ [HNext]_hvars => [ServersGranted]_hvars
    BY <1>1
  <1> QED
    BY <1>2, HInvariant, PTL DEF HSpec, ServersSanctioned

(***************************************************************************)
(* Under the same conditions, servers are listed only to somebody who may  *)
(* see the network, or might until its owner withdrew it during the        *)
(* request.                                                                *)
(***************************************************************************)
THEOREM SeeRight == HSpec => ListsSanctioned
  <1>1. ASSUME HInv, [HNext]_hvars PROVE ListsGranted
    <2>0. WorkersOK
      BY <1>1 DEF HInv, IInv
    <2> SUFFICES ASSUME NEW w \in Worker, Serving(w, "LIST_SERVERS"),
                        worker'[w].answer \notin {{}, worker[w].answer}
                 PROVE  Sanctioned(w)
      BY DEF ListsGranted
    <2>1. PICK v \in Worker : Handle(v)
      BY <1>1, <2>0, Effects
    <2>2. v = w
      BY <2>0, <2>1, HandleMoves DEF Moves
    <2>3. At(w, "LIST_SERVERS", 4)
      BY <2>0, <2>1, <2>2, ListedBy DEF Serving
    <2> QED
      BY <1>1, <2>3 DEF HInv, Checked, Relies
  <1>2. HInv /\ [HNext]_hvars => [ListsGranted]_hvars
    BY <1>1
  <1> QED
    BY <1>2, HInvariant, PTL DEF HSpec, ListsSanctioned

(***************************************************************************)
(* Under the same conditions, a session is opened and a password replaced  *)
(* only for somebody who gave the stored password, or one that was stored  *)
(* until the user removed the account or changed the password during the   *)
(* request: a query that fails compares with no password at all.           *)
(***************************************************************************)
THEOREM PasswordRight == HSpec => CredentialsSanctioned
  <1>1. ASSUME HInv, [HNext]_hvars PROVE CredentialsHeld
    <2>0. WorkersOK /\ SessionsTypeOK /\ UniqueRows
      BY <1>1 DEF HInv, IInv, RefIntegrity
    <2>1. CASE /\ UNCHANGED dbVars
               /\ \A c \in Cookie : sessions'[c] \in {sessions[c], NoEntry}
      BY <2>0, <2>1 DEF CredentialsHeld, UniqueRows, dbVars
    <2>2. ASSUME NEW w \in Worker, Handle(w) PROVE CredentialsHeld
      <3>1. ASSUME NEW c \in Cookie, sessions[c] = NoEntry, sessions'[c] # NoEntry
            PROVE  /\ worker'[w] # worker[w] /\ Serving(w, "LOGIN")
                   /\ worker[w].req.user = sessions'[c] /\ Sanctioned(w)
        <4>1. /\ At(w, "LOGIN", 2) /\ worker'[w].step = 0
              /\ sessions'[c] = worker[w].req.user
          BY <2>0, <2>2, <3>1, OpenedBy
        <4>2. Sanctioned(w)
          BY <1>1, <4>1 DEF HInv, Checked, Relies
        <4> QED
          BY <4>1, <4>2 DEF At, Serving
      <3>2. ASSUME NEW u \in users, NEW v \in users', u.login = v.login, u # v
            PROVE  /\ worker'[w] # worker[w] /\ Serving(w, "CHANGE_PASSWORD")
                   /\ worker[w].login = u.login /\ Sanctioned(w)
        <4>1. /\ At(w, "CHANGE_PASSWORD", 3) /\ worker'[w].step = 0
              /\ u.login = worker[w].login
          BY <2>0, <2>2, <3>2, ReplacedBy
        <4>2. Sanctioned(w)
          BY <1>1, <4>1 DEF HInv, Checked, Relies
        <4> QED
          BY <4>1, <4>2 DEF At, Serving
      <3> QED
        BY <3>1, <3>2 DEF CredentialsHeld
    <2> QED
      BY <1>1, <2>0, <2>1, <2>2, Effects
  <1>2. HInv /\ [HNext]_hvars => [CredentialsHeld]_hvars
    BY <1>1
  <1> QED
    BY <1>2, HInvariant, PTL DEF HSpec, CredentialsSanctioned

=============================================================================
