----------------------------- MODULE Node_proofs -----------------------------
(***************************************************************************)
(* The accounts of the client programs for any number of programs, user    *)
(* names, passwords and cookies: a Node acts in nobody else's name, knows  *)
(* the password of its account as far as it can, and is logged in when it  *)
(* believes so.                                                            *)
(***************************************************************************)
EXTENDS Node, TLAPS

(* A cookie that was handed out and, as long as it is live, names u.       *)
Held(c, u) == c \in issued /\ sessions[c] \in {NoEntry, u}

(* A request of program n: in the name of one of its own users, with a     *)
(* cookie of that user if it has one.                                      *)
Carries(r, n) ==
    r # NoCall =>
        /\ r.type \in RequestTypes
        /\ r.user \in Own[n]
        /\ r.type \in {"LOGIN", "REGISTER"} => r.password \in Password
        /\ r.type = "CHANGE_PASSWORD" => r.new \in Password
        /\ r.cookie # NoEntry => Held(r.cookie, r.user)

(***************************************************************************)
(* The call in progress belongs to the user the Node still has.  An answer *)
(* that was not yet handled is as good as new: the session it opened is    *)
(* live and out of the reach of a late logOut, and the account has the     *)
(* password that the Node is about to hold, unless an earlier change that  *)
(* it was told had failed has been executed since.                         *)
(***************************************************************************)
InProgress(n) ==
    call[n] # NoCall =>
        /\ call[n].user = user[n]
        /\ call[n].type = "LOGIN" => call[n].password = password[n]
        /\ call[n].type = "LOGOUT" => call[n].status \in {"none", "OK", "NOT_LOGGED"}
        /\ call[n].type = "LOGIN" /\ call[n].status = "OK" =>
              /\ call[n].cookie \in issued
              /\ sessions[call[n].cookie] = user[n]
              /\ call[n].cookie # late[n].cookie
              /\ accounts[user[n]] # NoEntry
              /\ accounts[user[n]] \in {password[n]} \cup tried[user[n]]
        /\ call[n].type = "CHANGE_PASSWORD" /\ call[n].status = "OK" =>
              accounts[user[n]] \in {call[n].new} \cup tried[user[n]]

(* The password of a change that was executed and not yet handled.         *)
Unhandled(n) ==
    IF call[n].type = "CHANGE_PASSWORD" /\ call[n].status # "none" THEN {call[n].new} ELSE {}

(* What a Node that believes itself logged in can rely on.                 *)
LoggedIn(n) ==
    is_logged[n] =>
        /\ Held(cookie[n], user[n])
        /\ late[n].type = "LOGOUT" /\ late[n].cookie = cookie[n] => leaving[n]
        /\ call[n].type # "LOGOUT" /\ ~leaving[n] => sessions[cookie[n]] = user[n]
        /\ accounts[user[n]] # NoEntry
        /\ accounts[user[n]] \in {password[n]} \cup tried[user[n]] \cup Unhandled(n)

ClientInv(n) == Carries(call[n], n) /\ Carries(late[n], n) /\ InProgress(n) /\ LoggedIn(n)

IInv ==
    /\ TypeOK
    /\ user \in [Client -> Login]
    /\ \A n \in Client : ClientInv(n)

-----------------------------------------------------------------------------
(* Requests and users.                                                     *)

(* The fields of a request.                                                *)
LEMMA RequestFields ==
  ASSUME NEW r \in Request
  PROVE  /\ r.type \in RequestTypes \cup {"none"}
         /\ r.user \in Login \cup {NoEntry}
         /\ r.password \in Password \cup {NoEntry}
         /\ r.new \in Password \cup {NoEntry}
         /\ r.cookie \in Cookie \cup {NoEntry}
         /\ r.status \in Status
  BY DEF Request

(* The fields of the call that is none.                                    *)
LEMMA NoCallFields ==
  /\ NoCall \in Request
  /\ NoCall.type = "none" /\ NoCall.status = "none" /\ NoCall.cookie = NoEntry
  BY DEF NoCall, Request, RequestTypes, Status

(* A program's users are logins, and nobody else's.                        *)
LEMMA OwnUsers ==
  /\ \A n \in Client : Own[n] \subseteq Login
  /\ \A n \in Client : NoEntry \notin Own[n]
  /\ \A m, n \in Client : m # n => \A u \in Own[m] : u \notin Own[n]
  BY NodeAssumption, SessionsAssumption

-----------------------------------------------------------------------------
(* The tracker.                                                            *)

(* The types of the tracker's state.                                       *)
TrackerTypes == accounts \in [Login -> Password \cup {NoEntry}] /\ SessionsTypeOK

(* No session changes its user, and only its own logOut ends one.          *)
SessionsKept(r) ==
    \A x \in issued : /\ x \in issued'
                      /\ sessions'[x] \in {NoEntry, sessions[x]}
                      /\ r.type # "LOGOUT" \/ x # r.cookie => sessions'[x] = sessions[x]

(* Only the account of the request's user changes: it is made, or it gets  *)
(* the new password of a change.                                           *)
AccountsKept(r) ==
    /\ \A l \in Login \ {r.user} : accounts'[l] = accounts[l]
    /\ accounts[r.user] # NoEntry =>
          /\ accounts'[r.user] # NoEntry
          /\ \/ accounts'[r.user] = accounts[r.user]
             \/ r.type = "CHANGE_PASSWORD" /\ accounts'[r.user] = r.new

(* What the answer to a request tells.                                     *)
Answers(r, status, c) ==
    /\ r.type = "LOGIN" =>
          \/ /\ status = "OK" /\ c \in Cookie /\ c \notin issued /\ c \in issued'
             /\ sessions'[c] = r.user
             /\ accounts'[r.user] = r.password
          \/ status # "OK" /\ c = NoEntry
    /\ r.type # "LOGIN" => c \in {r.cookie, NoEntry}
    /\ r.type = "LOGOUT" => status \in {"OK", "NOT_LOGGED"}
    /\ r.type = "CHANGE_PASSWORD" /\ status = "OK" => accounts'[r.user] = r.new

(* The effect of any request of a program's own, executed in time or late. *)
LEMMA HandleEffect ==
  ASSUME TrackerTypes, NEW n \in Client, NEW r \in Request, r # NoCall, Carries(r, n),
         NEW status \in Status, NEW c \in Cookie \cup {NoEntry}, Handle(r, status, c)
  PROVE  TrackerTypes' /\ SessionsKept(r) /\ AccountsKept(r) /\ Answers(r, status, c)
  <1>a. r.user \in Own[n] /\ r.user \in Login
    BY OwnUsers DEF Carries
  <1>b. /\ sessions \in [Cookie -> Login \cup {NoEntry}] /\ issued \in SUBSET Cookie
        /\ accounts \in [Login -> Password \cup {NoEntry}]
    BY DEF TrackerTypes, SessionsTypeOK
  <1>c. NoEntry \notin Cookie /\ NoEntry \notin Password /\ NoEntry \notin Login
    BY NodeAssumption, SessionsAssumption
  <1> USE <1>a, <1>b, <1>c
  <1>1. CASE r.type = "LOGIN" /\ handleLogin(r, status, c)
    <2>1. CASE /\ accounts[r.user] = r.password
               /\ c \in Cookie /\ OpenSession(c, r.user)
               /\ status = "OK"
               /\ UNCHANGED accounts
      <3>1. /\ c \notin issued /\ issued' = issued \cup {c}
            /\ sessions' = [sessions EXCEPT ![c] = r.user]
        BY <2>1 DEF OpenSession
      <3>2. TrackerTypes'
        BY <2>1, <3>1 DEF TrackerTypes, SessionsTypeOK
      <3>3. SessionsKept(r)
        BY <3>1 DEF SessionsKept
      <3>4. AccountsKept(r) /\ Answers(r, status, c)
        BY <1>1, <2>1, <3>1 DEF AccountsKept, Answers
      <3> QED
        BY <3>2, <3>3, <3>4
    <2>2. CASE /\ c = NoEntry
               /\ status \in {"BAD_CREDENTIALS", "INTERNAL_SERVER_ERROR"}
               /\ UNCHANGED <<accounts, sessionsVars>>
      BY <1>1, <2>2
      DEF TrackerTypes, SessionsTypeOK, SessionsKept, AccountsKept, Answers, sessionsVars
    <2> QED
      BY <1>1, <2>1, <2>2 DEF handleLogin
  <1>2. CASE r.type = "LOGOUT" /\ handleLogout(r, status, c)
    <2>1. /\ c = r.cookie /\ status \in {"OK", "NOT_LOGGED"}
          /\ sessions' = [x \in Cookie |-> IF x \in {r.cookie} THEN NoEntry ELSE sessions[x]]
          /\ UNCHANGED <<issued, accounts>>
      BY <1>2 DEF handleLogout, CloseSessions
    <2>2. TrackerTypes'
      BY <2>1 DEF TrackerTypes, SessionsTypeOK
    <2>3. SessionsKept(r) /\ AccountsKept(r) /\ Answers(r, status, c)
      BY <1>2, <2>1 DEF SessionsKept, AccountsKept, Answers
    <2> QED
      BY <2>2, <2>3
  <1>3. CASE r.type = "REGISTER" /\ handleRegister(r, status, c)
    <2>1. /\ c = NoEntry /\ UNCHANGED sessionsVars
          /\ \/ UNCHANGED accounts
             \/ /\ accounts[r.user] = NoEntry
                /\ accounts' = [accounts EXCEPT ![r.user] = r.password]
      BY <1>3 DEF handleRegister
    <2>2. r.password \in Password
      BY <1>3 DEF Carries
    <2>3. TrackerTypes'
      BY <2>1, <2>2 DEF TrackerTypes, SessionsTypeOK, sessionsVars
    <2>4. SessionsKept(r) /\ AccountsKept(r) /\ Answers(r, status, c)
      BY <1>3, <2>1 DEF SessionsKept, AccountsKept, Answers, sessionsVars
    <2> QED
      BY <2>3, <2>4
  <1>4. CASE r.type = "CHANGE_PASSWORD" /\ handleChange_password(r, status, c)
    <2>1. /\ c = r.cookie /\ UNCHANGED sessionsVars
          /\ \/ /\ UNCHANGED accounts /\ status # "OK"
             \/ /\ r.cookie # NoEntry /\ sessions[r.cookie] # NoEntry
                /\ accounts' = [accounts EXCEPT ![sessions[r.cookie]] = r.new]
      BY <1>4 DEF handleChange_password, Live
    <2>2. r.new \in Password
      BY <1>4 DEF Carries
    <2>3. r.cookie # NoEntry /\ sessions[r.cookie] # NoEntry => sessions[r.cookie] = r.user
      BY DEF Carries, Held
    <2>4. \/ UNCHANGED accounts /\ status # "OK"
          \/ accounts' = [accounts EXCEPT ![r.user] = r.new]
      BY <2>1, <2>3
    <2>5. TrackerTypes'
      BY <2>1, <2>2, <2>4 DEF TrackerTypes, SessionsTypeOK, sessionsVars
    <2>6. SessionsKept(r) /\ AccountsKept(r) /\ Answers(r, status, c)
      BY <1>4, <2>1, <2>2, <2>4 DEF SessionsKept, AccountsKept, Answers, sessionsVars
    <2> QED
      BY <2>5, <2>6
  <1>5. CASE r.type = "ASK" /\ handleOther(r, status, c)
    BY <1>5 DEF handleOther, TrackerTypes, SessionsTypeOK, SessionsKept, AccountsKept, Answers,
                sessionsVars
  <1> QED
    BY <1>1, <1>2, <1>3, <1>4, <1>5 DEF Handle

-----------------------------------------------------------------------------
(* One program's step.                                                     *)

NodeTypes ==
    /\ user \in [Client -> Login] /\ \A n \in Client : user[n] \in Own[n]
    /\ password \in [Client -> Password]
    /\ is_registered \in [Client -> BOOLEAN]
    /\ is_logged \in [Client -> BOOLEAN]
    /\ cookie \in [Client -> Cookie \cup {NoEntry}]
    /\ leaving \in [Client -> BOOLEAN]

CallTypes ==
    /\ call \in [Client -> Request]
    /\ late \in [Client -> Request]
    /\ tried \in [Login -> SUBSET Password]

(* The parts make up the types.                                            *)
LEMMA TypeParts ==
  TypeOK /\ user \in [Client -> Login] <=> NodeTypes /\ CallTypes /\ TrackerTypes
  BY DEF TypeOK, NodeTypes, CallTypes, TrackerTypes

(* A step that leaves the other programs, their accounts and their live    *)
(* sessions alone.                                                         *)
Alone(n) ==
    \A m \in Client \ {n} :
        /\ user'[m] = user[m] /\ password'[m] = password[m]
        /\ is_logged'[m] = is_logged[m] /\ cookie'[m] = cookie[m] /\ leaving'[m] = leaving[m]
        /\ call'[m] = call[m] /\ late'[m] = late[m]
        /\ \A u \in Own[m] : accounts'[u] = accounts[u] /\ tried'[u] = tried[u]
        /\ \A x \in issued : /\ x \in issued'
                             /\ sessions'[x] \in {NoEntry, sessions[x]}
                             /\ sessions[x] \in Own[m] => sessions'[x] = sessions[x]

(* Such a step keeps what the other programs rely on.                      *)
LEMMA Bystanders ==
  ASSUME NodeTypes, NEW n \in Client, Alone(n), NEW m \in Client \ {n}, ClientInv(m)
  PROVE  ClientInv(m)'
  <1>1. user[m] \in Own[m]
    BY DEF NodeTypes
  <1>2. \A x, u : Held(x, u) => x \in issued' /\ sessions'[x] \in {NoEntry, u}
    BY DEF Held, Alone
  <1>3. Carries(call[m], m)' /\ Carries(late[m], m)'
    BY <1>2 DEF ClientInv, Carries, Alone, Held
  <1>4. InProgress(m)'
    BY <1>1 DEF ClientInv, InProgress, Alone
  <1>5. LoggedIn(m)'
    <2>1. \A x \in issued : sessions[x] = user[m] => sessions'[x] = user[m]
      BY <1>1 DEF Alone
    <2>2. Unhandled(m)' = Unhandled(m)
      BY DEF Alone, Unhandled
    <2>3. Held(cookie[m], user[m]) => Held(cookie[m], user[m])'
      BY <1>2 DEF Held, Alone
    <2> QED
      BY <1>1, <2>1, <2>2, <2>3 DEF ClientInv, LoggedIn, Alone, Held
  <1> QED
    BY <1>3, <1>4, <1>5 DEF ClientInv

(* What is left to show of a step of program n.                            *)
LEMMA OneClient ==
  ASSUME IInv, NEW n \in Client, Alone(n), NodeTypes', CallTypes', TrackerTypes',
         ClientInv(n)'
  PROVE  IInv'
  <1>1. NodeTypes
    BY TypeParts DEF IInv
  <1>2. ASSUME NEW m \in Client \ {n} PROVE ClientInv(m)'
    BY <1>1, <1>2, Bystanders DEF IInv
  <1>3. (TypeOK /\ user \in [Client -> Login])'
    BY TypeParts, PTL
  <1> QED
    BY <1>2, <1>3 DEF IInv

(* A method sends its request.                                             *)
LEMMA Sending ==
  ASSUME IInv, NEW n \in Client, NEW r \in Request, Send(n, r),
         r.type \in RequestTypes, r.status = "none", r.user = user[n],
         r.type \in {"LOGIN", "REGISTER", "CHANGE_PASSWORD"} => r.password = password[n],
         r.type = "CHANGE_PASSWORD" => r.new \in Password,
         r.cookie # NoEntry => is_logged[n] /\ r.cookie = cookie[n]
  PROVE  IInv'
  <1>1. NodeTypes /\ CallTypes /\ TrackerTypes
    BY TypeParts DEF IInv
  <1>2. /\ call[n] = NoCall /\ call'[n] = r
        /\ call' \in [Client -> Request]
        /\ \A m \in Client \ {n} : call'[m] = call[m]
    BY <1>1 DEF Send, CallTypes
  <1>3. /\ UNCHANGED <<user, password, is_registered, is_logged, cookie, late, accounts>>
        /\ UNCHANGED <<tried, leaving, sessions, issued>>
    BY DEF Send, nodeVars, historyVars, sessionsVars
  <1>4. NodeTypes' /\ CallTypes' /\ TrackerTypes'
    BY <1>1, <1>2, <1>3 DEF NodeTypes, CallTypes, TrackerTypes, SessionsTypeOK
  <1>5. Alone(n)
    BY <1>2, <1>3 DEF Alone
  <1>6. ClientInv(n) /\ user[n] \in Own[n] /\ password[n] \in Password
    BY <1>1 DEF IInv, NodeTypes
  <1>7. Carries(call[n], n)' /\ Carries(late[n], n)'
    BY <1>2, <1>3, <1>6 DEF ClientInv, Carries, LoggedIn, Held
  <1>8. InProgress(n)'
    BY <1>2, <1>3 DEF InProgress
  <1>9. LoggedIn(n)'
    BY <1>2, <1>3, <1>6, NoCallFields DEF ClientInv, LoggedIn, Held, Unhandled
  <1> QED
    BY <1>4, <1>5, <1>7, <1>8, <1>9, OneClient DEF ClientInv

(* A request that beforeMessage lets through.                              *)
LEMMA SendingWithCookie ==
  ASSUME IInv, NEW n \in Client, NEW type \in {"LOGOUT", "ASK"}, SendWithCookie(n, type)
  PROVE  IInv'
  <1> DEFINE r == [NoCall EXCEPT !.type = type, !.user = user[n], !.cookie = cookie[n]]
  <1>1. NodeTypes
    BY TypeParts DEF IInv
  <1>2. user[n] \in Login /\ cookie[n] \in Cookie \cup {NoEntry}
    BY <1>1 DEF NodeTypes
  <1>3. /\ r \in Request /\ r.type = type /\ r.status = "none" /\ r.user = user[n]
        /\ r.cookie = cookie[n]
    BY <1>2 DEF NoCall, Request, RequestTypes, Status
  <1>4. is_logged[n] /\ Send(n, r)
    BY DEF SendWithCookie
  <1> HIDE DEF r
  <1> QED
    BY <1>3, <1>4, Sending DEF RequestTypes

(* The requests of logIn and registerUser.                                 *)
LEMMA SendingPassword ==
  ASSUME IInv, NEW n \in Client, NEW type \in {"LOGIN", "REGISTER"},
         Send(n, [NoCall EXCEPT !.type = type, !.user = user[n], !.password = password[n]])
  PROVE  IInv'
  <1> DEFINE r == [NoCall EXCEPT !.type = type, !.user = user[n], !.password = password[n]]
  <1>1. NodeTypes
    BY TypeParts DEF IInv
  <1>2. user[n] \in Login /\ password[n] \in Password
    BY <1>1 DEF NodeTypes
  <1>3. /\ r \in Request /\ r.type = type /\ r.status = "none" /\ r.user = user[n]
        /\ r.password = password[n] /\ r.cookie = NoEntry
    BY <1>2 DEF NoCall, Request, RequestTypes, Status
  <1>4. Send(n, r)
    OBVIOUS
  <1> HIDE DEF r
  <1> QED
    BY <1>3, <1>4, Sending DEF RequestTypes

(* The request of changePassword.                                          *)
LEMMA SendingChange ==
  ASSUME IInv, NEW n \in Client, NEW p \in Password, is_logged[n],
         Send(n, [NoCall EXCEPT !.type = "CHANGE_PASSWORD", !.user = user[n],
                                !.password = password[n], !.new = p, !.cookie = cookie[n]])
  PROVE  IInv'
  <1> DEFINE r == [NoCall EXCEPT !.type = "CHANGE_PASSWORD", !.user = user[n],
                                 !.password = password[n], !.new = p, !.cookie = cookie[n]]
  <1>1. NodeTypes
    BY TypeParts DEF IInv
  <1>2. user[n] \in Login /\ password[n] \in Password /\ cookie[n] \in Cookie \cup {NoEntry}
    BY <1>1 DEF NodeTypes
  <1>3. /\ r \in Request /\ r.type = "CHANGE_PASSWORD" /\ r.status = "none"
        /\ r.user = user[n] /\ r.password = password[n] /\ r.new = p /\ r.cookie = cookie[n]
    BY <1>2 DEF NoCall, Request, RequestTypes, Status
  <1>4. Send(n, r)
    OBVIOUS
  <1> HIDE DEF r
  <1> QED
    BY <1>3, <1>4, Sending DEF RequestTypes

(***************************************************************************)
(* A method returns, or fails: the call is gone, the tracker is not        *)
(* involved, and the histories change for this program only.               *)
(***************************************************************************)
LEMMA Returning ==
  ASSUME IInv, NEW n \in Client, NodeTypes', late' \in [Client -> Request],
         call' = [call EXCEPT ![n] = NoCall],
         tried' \in [Login -> SUBSET Password],
         \A u \in Login \ {user[n]} : tried'[u] = tried[u],
         \A m \in Client \ {n} :
             /\ password'[m] = password[m] /\ is_logged'[m] = is_logged[m]
             /\ cookie'[m] = cookie[m] /\ leaving'[m] = leaving[m] /\ late'[m] = late[m],
         UNCHANGED <<user, accounts, sessions, issued>>,
         late'[n] = late[n] \/ late'[n] = call[n],
         LoggedIn(n)'
  PROVE  IInv'
  <1>1. NodeTypes /\ CallTypes /\ TrackerTypes
    BY TypeParts DEF IInv
  <1>2. CallTypes' /\ TrackerTypes' /\ call'[n] = NoCall
    BY <1>1, NoCallFields DEF CallTypes, TrackerTypes, SessionsTypeOK
  <1>3. Alone(n)
    <2>1. \A m \in Client \ {n} : user[n] \notin Own[m] /\ Own[m] \subseteq Login
      BY <1>1, OwnUsers DEF NodeTypes
    <2>2. \A m \in Client \ {n} : call'[m] = call[m]
      BY <1>1 DEF CallTypes
    <2> QED
      BY <2>1, <2>2 DEF Alone
  <1>4. Carries(late[n], n)'
    BY DEF IInv, ClientInv, Carries, Held
  <1>5. Carries(call[n], n)' /\ InProgress(n)'
    BY <1>2 DEF Carries, InProgress
  <1> QED
    BY <1>2, <1>3, <1>4, <1>5, OneClient DEF ClientInv

(* The answer of logIn.                                                    *)
LEMMA LogInReturns ==
  ASSUME IInv, NEW n \in Client, Returns(n, "LOGIN"), UNCHANGED <<password, tried>>,
         \/ /\ call[n].status = "OK"
            /\ cookie' = [cookie EXCEPT ![n] = call[n].cookie]
            /\ is_logged' = [is_logged EXCEPT ![n] = TRUE]
            /\ is_registered' = [is_registered EXCEPT ![n] = TRUE]
            /\ leaving' = [leaving EXCEPT ![n] = FALSE]
         \/ /\ call[n].status # "OK"
            /\ UNCHANGED <<cookie, is_logged, is_registered, leaving>>
  PROVE  IInv'
  <1>1. NodeTypes /\ CallTypes
    BY TypeParts DEF IInv
  <1>2. /\ call[n] \in Request /\ call[n].type = "LOGIN"
        /\ call' = [call EXCEPT ![n] = NoCall] /\ call'[n] = NoCall
        /\ UNCHANGED <<user, late, accounts, sessions, issued, password, tried>>
    BY <1>1 DEF Returns, CallTypes, sessionsVars
  <1>3. NodeTypes'
    BY <1>1, <1>2, RequestFields DEF NodeTypes
  <1>4. call[n] # NoCall /\ InProgress(n) /\ LoggedIn(n)
    BY <1>2, NoCallFields DEF IInv, ClientInv
  <1>5. LoggedIn(n)'
    <2>1. CASE call[n].status = "OK"
      <3>1. is_logged'[n] = TRUE /\ cookie'[n] = call[n].cookie /\ leaving'[n] = FALSE
        BY <2>1, <1>1 DEF NodeTypes
      <3> QED
        BY <2>1, <3>1, <1>2, <1>4 DEF InProgress, LoggedIn, Held
    <2>2. CASE call[n].status # "OK"
      <3>1. UNCHANGED <<cookie, is_logged, leaving>>
        BY <2>2
      <3> QED
        BY <3>1, <1>2, <1>4, NoCallFields DEF LoggedIn, Held, Unhandled
    <2> QED
      BY <2>1, <2>2
  <1>6. \A m \in Client \ {n} :
          /\ password'[m] = password[m] /\ is_logged'[m] = is_logged[m]
          /\ cookie'[m] = cookie[m] /\ leaving'[m] = leaving[m] /\ late'[m] = late[m]
    BY <1>1, <1>2 DEF NodeTypes
  <1> QED
    BY <1>1, <1>2, <1>3, <1>5, <1>6, Returning DEF CallTypes

(* The answer of logOut.                                                   *)
LEMMA LogOutReturns ==
  ASSUME IInv, NEW n \in Client, Returns(n, "LOGOUT"),
         is_logged' = [is_logged EXCEPT ![n] = @ /\ call[n].status \notin {"OK", "NOT_LOGGED"}],
         cookie' = [cookie EXCEPT ![n] = IF call[n].status = "OK" THEN NoEntry ELSE @],
         UNCHANGED <<password, is_registered, historyVars>>
  PROVE  IInv'
  <1>1. NodeTypes /\ CallTypes
    BY TypeParts DEF IInv
  <1>2. /\ call[n] \in Request /\ call[n].type = "LOGOUT" /\ call[n].status # "none"
        /\ call' = [call EXCEPT ![n] = NoCall]
        /\ UNCHANGED <<user, late, accounts, sessions, issued, password, is_registered>>
        /\ UNCHANGED <<tried, leaving>>
    BY <1>1 DEF Returns, CallTypes, sessionsVars, historyVars
  <1>3. NodeTypes'
    BY <1>1, <1>2 DEF NodeTypes
  <1>4. call[n].status \in {"OK", "NOT_LOGGED"}
    BY <1>2, NoCallFields DEF IInv, ClientInv, InProgress
  <1>5. LoggedIn(n)'
    BY <1>1, <1>4 DEF LoggedIn, NodeTypes
  <1>6. \A m \in Client \ {n} :
          /\ password'[m] = password[m] /\ is_logged'[m] = is_logged[m]
          /\ cookie'[m] = cookie[m] /\ leaving'[m] = leaving[m] /\ late'[m] = late[m]
    BY <1>1, <1>2 DEF NodeTypes
  <1> QED
    BY <1>1, <1>2, <1>3, <1>5, <1>6, Returning DEF CallTypes

(* The answer of a method that changes nothing but is_logged and           *)
(* is_registered.                                                          *)
LEMMA OthersReturn ==
  ASSUME IInv, NEW n \in Client, NEW type \in {"REGISTER", "ASK"}, Returns(n, type),
         is_registered' \in [Client -> BOOLEAN],
         NoticeNotLogged(n), UNCHANGED <<password, cookie, historyVars>>
  PROVE  IInv'
  <1>1. NodeTypes /\ CallTypes
    BY TypeParts DEF IInv
  <1>2. /\ call[n] \in Request /\ call[n].type = type
        /\ call' = [call EXCEPT ![n] = NoCall] /\ call'[n] = NoCall
        /\ UNCHANGED <<user, late, accounts, sessions, issued, password, cookie>>
        /\ UNCHANGED <<tried, leaving>>
    BY <1>1 DEF Returns, CallTypes, sessionsVars, historyVars
  <1>3. /\ is_logged' \in [Client -> BOOLEAN]
        /\ is_logged'[n] => is_logged[n]
        /\ \A m \in Client \ {n} : is_logged'[m] = is_logged[m]
    BY <1>1 DEF NodeTypes, NoticeNotLogged
  <1>4. NodeTypes'
    BY <1>1, <1>2, <1>3 DEF NodeTypes
  <1>5. LoggedIn(n)'
    BY <1>2, <1>3, NoCallFields DEF IInv, ClientInv, LoggedIn, Held, Unhandled
  <1> QED
    BY <1>1, <1>2, <1>3, <1>4, <1>5, Returning DEF CallTypes

(* The history of a changePassword that did not succeed.                   *)
LEMMA Blamed ==
  ASSUME IInv, NEW n \in Client, call[n] # NoCall, Blame(n)
  PROVE  /\ tried' \in [Login -> SUBSET Password]
         /\ \A u \in Login \ {user[n]} : tried'[u] = tried[u]
         /\ tried[user[n]] \subseteq tried'[user[n]]
         /\ call[n].type = "CHANGE_PASSWORD" => call[n].new \in tried'[user[n]]
         /\ leaving' \in [Client -> BOOLEAN]
         /\ \A m \in Client \ {n} : leaving'[m] = leaving[m]
         /\ leaving'[n] = (leaving[n] \/ call[n].type = "LOGOUT")
  <1>1. NodeTypes /\ CallTypes
    BY TypeParts DEF IInv
  <1>2. /\ call[n].user = user[n] /\ user[n] \in Login
        /\ call[n].type = "CHANGE_PASSWORD" => call[n].new \in Password
    BY <1>1 DEF IInv, ClientInv, InProgress, Carries, NodeTypes
  <1>3. \E S \in SUBSET Password :
          /\ tried' = [tried EXCEPT ![user[n]] = S]
          /\ tried[user[n]] \subseteq S
          /\ call[n].type = "CHANGE_PASSWORD" => call[n].new \in S
    <2>1. tried[user[n]] \in SUBSET Password
      BY <1>1, <1>2 DEF CallTypes
    <2>2. CASE call[n].type = "CHANGE_PASSWORD"
      <3>1. tried' = [tried EXCEPT ![user[n]] = tried[user[n]] \cup {call[n].new}]
        BY <2>2, <1>2 DEF Blame
      <3>2. tried[user[n]] \cup {call[n].new} \in SUBSET Password
        BY <1>2, <2>1, <2>2
      <3> QED
        BY <3>1, <3>2
    <2>3. CASE call[n].type # "CHANGE_PASSWORD"
      <3>1. tried' = [tried EXCEPT ![user[n]] = tried[user[n]]]
        BY <2>3, <1>2 DEF Blame
      <3> QED
        BY <2>1, <2>3, <3>1
    <2> QED
      BY <2>2, <2>3
  <1>4. leaving' = [leaving EXCEPT ![n] = @ \/ call[n].type = "LOGOUT"]
    BY DEF Blame
  <1>5. /\ leaving' \in [Client -> BOOLEAN]
        /\ \A m \in Client \ {n} : leaving'[m] = leaving[m]
        /\ leaving'[n] = (leaving[n] \/ call[n].type = "LOGOUT")
    BY <1>1, <1>4 DEF NodeTypes
  <1>6. /\ tried' \in [Login -> SUBSET Password]
        /\ \A u \in Login \ {user[n]} : tried'[u] = tried[u]
        /\ tried[user[n]] \subseteq tried'[user[n]]
        /\ call[n].type = "CHANGE_PASSWORD" => call[n].new \in tried'[user[n]]
    BY <1>1, <1>2, <1>3 DEF CallTypes
  <1> QED
    BY <1>5, <1>6

(* The answer of changePassword.                                           *)
LEMMA ChangeReturns ==
  ASSUME IInv, NEW n \in Client, Returns(n, "CHANGE_PASSWORD"),
         \/ /\ call[n].status = "OK"
            /\ password' = [password EXCEPT ![n] = call[n].new]
            /\ UNCHANGED historyVars
         \/ /\ call[n].status # "OK"
            /\ Blame(n)
            /\ UNCHANGED password,
         NoticeNotLogged(n), UNCHANGED <<cookie, is_registered>>
  PROVE  IInv'
  <1>1. NodeTypes /\ CallTypes
    BY TypeParts DEF IInv
  <1>2. /\ call[n] \in Request /\ call[n].type = "CHANGE_PASSWORD" /\ call[n].status # "none"
        /\ call' = [call EXCEPT ![n] = NoCall] /\ call'[n] = NoCall
        /\ UNCHANGED <<user, late, accounts, sessions, issued, cookie, is_registered>>
    BY <1>1 DEF Returns, CallTypes, sessionsVars
  <1>3. /\ is_logged' \in [Client -> BOOLEAN]
        /\ is_logged'[n] => is_logged[n]
        /\ \A m \in Client \ {n} : is_logged'[m] = is_logged[m]
    BY <1>1 DEF NodeTypes, NoticeNotLogged
  <1>4. call[n] # NoCall /\ InProgress(n) /\ LoggedIn(n) /\ call[n].new \in Password
    BY <1>2, NoCallFields DEF IInv, ClientInv, Carries
  <1>5. CASE /\ call[n].status = "OK"
             /\ password' = [password EXCEPT ![n] = call[n].new]
             /\ UNCHANGED historyVars
    <2>1. UNCHANGED <<tried, leaving>> /\ password'[n] = call[n].new
      BY <1>1, <1>5 DEF historyVars, NodeTypes
    <2>2. NodeTypes'
      BY <1>1, <1>2, <1>3, <1>4, <1>5, <2>1 DEF NodeTypes
    <2>3. LoggedIn(n)'
      BY <1>2, <1>3, <1>4, <1>5, <2>1, NoCallFields DEF LoggedIn, InProgress, Held, Unhandled
    <2>4. \A m \in Client \ {n} : password'[m] = password[m]
      BY <1>1, <1>5 DEF NodeTypes
    <2> QED
      BY <1>1, <1>2, <1>3, <2>1, <2>2, <2>3, <2>4, Returning DEF CallTypes
  <1>6. CASE Blame(n) /\ UNCHANGED password
    <2>1. /\ tried' \in [Login -> SUBSET Password]
          /\ \A u \in Login \ {user[n]} : tried'[u] = tried[u]
          /\ tried[user[n]] \subseteq tried'[user[n]]
          /\ call[n].new \in tried'[user[n]]
          /\ leaving' \in [Client -> BOOLEAN]
          /\ \A m \in Client \ {n} : leaving'[m] = leaving[m]
          /\ leaving[n] => leaving'[n]
      BY <1>2, <1>4, <1>6, Blamed
    <2>2. NodeTypes'
      BY <1>1, <1>2, <1>3, <1>6, <2>1 DEF NodeTypes
    <2>3. LoggedIn(n)'
      BY <1>2, <1>3, <1>4, <1>6, <2>1, NoCallFields DEF LoggedIn, Held, Unhandled
    <2> QED
      BY <1>1, <1>2, <1>3, <1>6, <2>1, <2>2, <2>3, Returning DEF CallTypes
  <1> QED
    BY <1>5, <1>6

(* A call fails, and its request may be executed later.                    *)
LEMMA CallFails ==
  ASSUME IInv, NEW n \in Client, callFails(n)
  PROVE  IInv'
  <1>1. NodeTypes /\ CallTypes
    BY TypeParts DEF IInv
  <1>2. /\ call[n] \in Request /\ call[n] # NoCall
        /\ call' = [call EXCEPT ![n] = NoCall] /\ call'[n] = NoCall
        /\ late' = late \/ late' = [late EXCEPT ![n] = call[n]]
        /\ UNCHANGED <<user, password, is_registered, is_logged, cookie, accounts>>
        /\ UNCHANGED <<sessions, issued>>
        /\ Blame(n)
    BY <1>1 DEF callFails, CallTypes, sessionsVars, nodeVars
  <1>3. /\ tried' \in [Login -> SUBSET Password]
        /\ \A u \in Login \ {user[n]} : tried'[u] = tried[u]
        /\ tried[user[n]] \subseteq tried'[user[n]]
        /\ call[n].type = "CHANGE_PASSWORD" => call[n].new \in tried'[user[n]]
        /\ leaving' \in [Client -> BOOLEAN]
        /\ \A m \in Client \ {n} : leaving'[m] = leaving[m]
        /\ leaving[n] \/ call[n].type = "LOGOUT" => leaving'[n]
    BY <1>2, Blamed
  <1>4. /\ late' \in [Client -> Request]
        /\ late'[n] = late[n] \/ late'[n] = call[n]
        /\ \A m \in Client \ {n} : late'[m] = late[m]
    BY <1>1, <1>2 DEF CallTypes
  <1>5. NodeTypes'
    BY <1>1, <1>2, <1>3 DEF NodeTypes
  <1>6. LoggedIn(n)'
    BY <1>2, <1>3, <1>4, NoCallFields DEF IInv, ClientInv, LoggedIn, Held, Unhandled
  <1> QED
    BY <1>2, <1>3, <1>4, <1>5, <1>6, Returning

(* setUser forgets the session.                                            *)
LEMMA SetUser ==
  ASSUME IInv, NEW n \in Client, setUser(n)
  PROVE  IInv'
  <1>1. NodeTypes /\ CallTypes /\ TrackerTypes
    BY TypeParts DEF IInv
  <1>2. /\ call[n] = NoCall
        /\ UNCHANGED <<call, late, accounts, tried, sessions, issued>>
    BY DEF setUser, sessionsVars
  <1>3. PICK u \in Own[n] : user' = [user EXCEPT ![n] = u]
    BY DEF setUser
  <1>4. PICK p \in Password : password' = [password EXCEPT ![n] = p]
    BY DEF setUser
  <1>5. PICK b \in BOOLEAN : is_registered' = [is_registered EXCEPT ![n] = b]
    BY DEF setUser
  <1>6. /\ is_logged' = [is_logged EXCEPT ![n] = FALSE]
        /\ cookie' = [cookie EXCEPT ![n] = NoEntry]
        /\ leaving' = [leaving EXCEPT ![n] = FALSE]
    BY DEF setUser
  <1>7. u \in Login
    BY OwnUsers
  <1>8. NodeTypes'
    <2>1. user' \in [Client -> Login] /\ \A m \in Client : user'[m] \in Own[m]
      BY <1>1, <1>3, <1>7 DEF NodeTypes
    <2>2. password' \in [Client -> Password] /\ cookie' \in [Client -> Cookie \cup {NoEntry}]
      BY <1>1, <1>4, <1>6 DEF NodeTypes
    <2>3. /\ is_registered' \in [Client -> BOOLEAN] /\ is_logged' \in [Client -> BOOLEAN]
          /\ leaving' \in [Client -> BOOLEAN]
      BY <1>1, <1>5, <1>6 DEF NodeTypes
    <2> QED
      BY <2>1, <2>2, <2>3 DEF NodeTypes
  <1>9. CallTypes' /\ TrackerTypes'
    BY <1>1, <1>2 DEF CallTypes, TrackerTypes, SessionsTypeOK
  <1>10. Alone(n)
    BY <1>1, <1>2, <1>3, <1>4, <1>6 DEF Alone, NodeTypes
  <1>11. Carries(call[n], n)' /\ Carries(late[n], n)'
    BY <1>2 DEF IInv, ClientInv, Carries, Held
  <1>12. InProgress(n)' /\ LoggedIn(n)'
    BY <1>1, <1>2, <1>6 DEF InProgress, LoggedIn, NodeTypes
  <1> QED
    BY <1>8, <1>9, <1>10, <1>11, <1>12, OneClient DEF ClientInv

(* Executing a program's request touches no other program.                 *)
LEMMA TrackerAlone ==
  ASSUME NEW n \in Client, NEW r \in Request, r # NoCall, Carries(r, n), TrackerTypes,
         SessionsKept(r), AccountsKept(r),
         \A u \in Login \ {r.user} : tried'[u] = tried[u],
         UNCHANGED <<user, password, is_logged, cookie, leaving>>,
         \A m \in Client \ {n} : call'[m] = call[m] /\ late'[m] = late[m]
  PROVE  Alone(n)
  <1> SUFFICES ASSUME NEW m \in Client \ {n}
               PROVE  /\ \A u \in Own[m] : accounts'[u] = accounts[u] /\ tried'[u] = tried[u]
                      /\ \A x \in issued : /\ x \in issued'
                                           /\ sessions'[x] \in {NoEntry, sessions[x]}
                                           /\ sessions[x] \in Own[m] => sessions'[x] = sessions[x]
    BY DEF Alone
  <1>1. r.user \notin Own[m] /\ Own[m] \subseteq Login /\ NoEntry \notin Own[m]
    BY OwnUsers DEF Carries
  <1>2. \A u \in Own[m] : accounts'[u] = accounts[u] /\ tried'[u] = tried[u]
    BY <1>1 DEF AccountsKept
  <1>3. ASSUME NEW x \in issued, sessions[x] \in Own[m] PROVE sessions'[x] = sessions[x]
    <2>1. x # NoEntry
      BY <1>3, NodeAssumption DEF TrackerTypes, SessionsTypeOK
    <2>2. x # r.cookie
      BY <1>1, <1>3, <2>1 DEF Carries, Held
    <2> QED
      BY <2>2 DEF SessionsKept
  <1> QED
    BY <1>2, <1>3 DEF SessionsKept

(* Cookies stay held, whatever is executed.                                *)
LEMMA HeldKept ==
  ASSUME NEW r, SessionsKept(r), NEW x, NEW u, Held(x, u)
  PROVE  x \in issued' /\ sessions'[x] \in {NoEntry, u}
  BY DEF Held, SessionsKept

(* The tracker executes a request while its call is waiting.               *)
LEMMA Executing ==
  ASSUME IInv, NEW n \in Client, Execute(n)
  PROVE  IInv'
  <1> DEFINE r == call[n]
  <1>1. NodeTypes /\ CallTypes /\ TrackerTypes
    BY TypeParts DEF IInv
  <1>2. r \in Request /\ r # NoCall /\ r.status = "none" /\ user[n] \in Login
        /\ password[n] \in Password
    BY <1>1 DEF Execute, CallTypes, NodeTypes
  <1>3. Carries(r, n) /\ Carries(late[n], n) /\ InProgress(n) /\ LoggedIn(n)
    BY DEF IInv, ClientInv
  <1>4. r.user = user[n] /\ r.type \in RequestTypes
    BY <1>2, <1>3 DEF InProgress, Carries
  <1>5. PICK status \in Status \ {"none"}, c \in Cookie \cup {NoEntry} :
          /\ Handle(r, status, c)
          /\ call' = [call EXCEPT ![n].status = status, ![n].cookie = c]
          /\ tried' = [tried EXCEPT ![r.user] =
                          IF status = "OK" /\ r.type \in {"LOGIN", "CHANGE_PASSWORD"}
                          THEN {} ELSE @]
    BY DEF Execute
  <1>6. /\ UNCHANGED <<user, password, is_registered, is_logged, cookie, late, leaving>>
    BY DEF Execute, nodeVars
  <1>7. TrackerTypes' /\ SessionsKept(r) /\ AccountsKept(r) /\ Answers(r, status, c)
    BY <1>1, <1>2, <1>3, <1>5, HandleEffect
  <1>8. /\ call'[n].type = r.type /\ call'[n].user = r.user /\ call'[n].password = r.password
        /\ call'[n].new = r.new /\ call'[n].status = status /\ call'[n].cookie = c
        /\ call' \in [Client -> Request]
        /\ \A m \in Client \ {n} : call'[m] = call[m]
    BY <1>1, <1>2, <1>5 DEF CallTypes, Request
  <1>9. call'[n] # NoCall
    BY <1>4, <1>8, NoCallFields DEF RequestTypes
  <1>10. /\ tried' \in [Login -> SUBSET Password]
         /\ \A u \in Login \ {r.user} : tried'[u] = tried[u]
         /\ status # "OK" \/ r.type \notin {"LOGIN", "CHANGE_PASSWORD"}
               => tried'[user[n]] = tried[user[n]]
    <2>1. \E S \in SUBSET Password :
             /\ tried' = [tried EXCEPT ![user[n]] = S]
             /\ status # "OK" \/ r.type \notin {"LOGIN", "CHANGE_PASSWORD"} => S = tried[user[n]]
      <3>1. tried[user[n]] \in SUBSET Password
        BY <1>1, <1>2 DEF CallTypes
      <3>2. CASE status = "OK" /\ r.type \in {"LOGIN", "CHANGE_PASSWORD"}
        <4>1. tried' = [tried EXCEPT ![user[n]] = {}]
          BY <1>4, <1>5, <3>2
        <4>2. {} \in SUBSET Password
          OBVIOUS
        <4> WITNESS {} \in SUBSET Password
        <4> QED
          BY <4>1, <3>2
      <3>3. CASE ~(status = "OK" /\ r.type \in {"LOGIN", "CHANGE_PASSWORD"})
        <4>1. tried' = [tried EXCEPT ![user[n]] = tried[user[n]]]
          BY <1>4, <1>5, <3>3
        <4> QED
          BY <4>1, <3>1
      <3> QED
        BY <3>2, <3>3
    <2> QED
      BY <2>1, <1>1, <1>2, <1>4 DEF CallTypes
  <1>11. NodeTypes' /\ CallTypes'
    BY <1>1, <1>6, <1>8, <1>10 DEF NodeTypes, CallTypes
  <1> HIDE DEF r
  <1>12. Alone(n)
    BY <1>1, <1>2, <1>3, <1>6, <1>7, <1>8, <1>10, TrackerAlone
  <1>13. Carries(late[n], n)'
    BY <1>3, <1>6, <1>7, HeldKept DEF Carries, Held
  <1>14. Carries(call[n], n)'
    <2>1. c # NoEntry => c \in issued' /\ sessions'[c] \in {NoEntry, r.user}
      <3>1. CASE r.type = "LOGIN"
        BY <1>7, <3>1 DEF Answers
      <3>2. CASE r.type # "LOGIN"
        <4>1. c \in {r.cookie, NoEntry}
          BY <1>7, <3>2 DEF Answers
        <4>2. r.cookie # NoEntry => Held(r.cookie, r.user)
          BY <1>2, <1>3 DEF Carries
        <4>3. r.cookie # NoEntry => r.cookie \in issued' /\ sessions'[r.cookie] \in {NoEntry, r.user}
          BY <1>7, <4>2, HeldKept
        <4> QED
          BY <4>1, <4>3
      <3> QED
        BY <3>1, <3>2
    <2> QED
      BY <1>2, <1>3, <1>8, <2>1 DEF Carries, Held
  <1>15. InProgress(n)'
    <2>1. ASSUME r.type = "LOGIN", status = "OK"
          PROVE  /\ c \in issued' /\ sessions'[c] = user[n] /\ c # late[n].cookie
                 /\ accounts'[user[n]] # NoEntry /\ accounts'[user[n]] = password[n]
      <3>1. /\ c \in Cookie /\ c \notin issued /\ c \in issued' /\ sessions'[c] = user[n]
            /\ accounts'[user[n]] = r.password
        BY <1>4, <1>7, <2>1 DEF Answers
      <3>2. c # late[n].cookie
        <4>1. late[n].cookie # NoEntry => late[n].cookie \in issued
          BY <1>3, NoCallFields DEF Carries, Held
        <4> QED
          BY <4>1, <3>1, NodeAssumption
      <3>3. r.password = password[n]
        BY <1>2, <1>3, <2>1 DEF InProgress, r
      <3> QED
        BY <1>2, <3>1, <3>2, <3>3, NodeAssumption
    <2>2. r.type = "LOGIN" => r.password = password[n]
      BY <1>2, <1>3 DEF InProgress, r
    <2>3. r.type = "LOGOUT" => status \in {"OK", "NOT_LOGGED"}
      BY <1>7 DEF Answers
    <2>4. r.type = "CHANGE_PASSWORD" /\ status = "OK" => accounts'[user[n]] = r.new
      BY <1>4, <1>7 DEF Answers
    <2> QED
      BY <2>1, <2>2, <2>3, <2>4, <1>4, <1>6, <1>8 DEF InProgress
  <1>16. LoggedIn(n)'
    <2> SUFFICES ASSUME is_logged[n]
                 PROVE  /\ Held(cookie[n], user[n])'
                        /\ r.type # "LOGOUT" /\ ~leaving[n] => sessions'[cookie[n]] = user[n]
                        /\ accounts'[user[n]] # NoEntry
                        /\ accounts'[user[n]] \in {password[n]} \cup tried'[user[n]]
                                                \cup Unhandled(n)'
      BY <1>3, <1>6, <1>8 DEF LoggedIn
    <2>1. /\ Held(cookie[n], user[n])
          /\ r.type # "LOGOUT" /\ ~leaving[n] => sessions[cookie[n]] = user[n]
          /\ accounts[user[n]] # NoEntry
          /\ accounts[user[n]] \in {password[n]} \cup tried[user[n]]
      BY <1>2, <1>3 DEF LoggedIn, Unhandled, r
    <2>2. Held(cookie[n], user[n])'
      BY <2>1, <1>6, <1>7, HeldKept DEF Held
    <2>3. r.type # "LOGOUT" /\ ~leaving[n] => sessions'[cookie[n]] = user[n]
      BY <2>1, <1>7 DEF Held, SessionsKept
    <2>4. /\ accounts'[user[n]] # NoEntry
          /\ \/ accounts'[user[n]] = accounts[user[n]]
             \/ r.type = "CHANGE_PASSWORD" /\ accounts'[user[n]] = r.new
      BY <2>1, <1>4, <1>7 DEF AccountsKept
    <2>5. r.type = "CHANGE_PASSWORD" => Unhandled(n)' = {r.new}
      BY <1>5, <1>8 DEF Unhandled
    <2>6. r.type = "LOGIN" /\ status = "OK" => accounts'[user[n]] = password[n]
      BY <1>2, <1>3, <1>4, <1>7 DEF Answers, InProgress, r
    <2>7. r.type = "CHANGE_PASSWORD" /\ status = "OK" => accounts'[user[n]] = r.new
      BY <1>4, <1>7 DEF Answers
    <2>8. accounts'[user[n]] \in {password[n]} \cup tried'[user[n]] \cup Unhandled(n)'
      BY <1>10, <2>1, <2>4, <2>5, <2>6, <2>7
    <2> QED
      BY <2>2, <2>3, <2>4, <2>8
  <1> QED
    BY <1>7, <1>11, <1>12, <1>13, <1>14, <1>15, <1>16, OneClient DEF ClientInv

(* The tracker executes a request whose call has failed, or it never does. *)
LEMMA ExecutingLate ==
  ASSUME IInv, NEW n \in Client, ExecuteLate(n)
  PROVE  IInv'
  <1> DEFINE r == late[n]
  <1>1. NodeTypes /\ CallTypes /\ TrackerTypes
    BY TypeParts DEF IInv
  <1>2. r \in Request /\ r # NoCall /\ user[n] \in Login
    BY <1>1 DEF ExecuteLate, CallTypes, NodeTypes
  <1>3. Carries(call[n], n) /\ Carries(r, n) /\ InProgress(n) /\ LoggedIn(n)
    BY DEF IInv, ClientInv
  <1>4. /\ late' = [late EXCEPT ![n] = NoCall]
        /\ tried' = [tried EXCEPT ![r.user] =
                        IF r.type = "CHANGE_PASSWORD" THEN @ \cup {r.new} ELSE @]
        /\ UNCHANGED <<user, password, is_registered, is_logged, cookie, call, leaving>>
    BY DEF ExecuteLate, nodeVars
  <1>5. TrackerTypes' /\ SessionsKept(r) /\ AccountsKept(r)
    <2>1. ASSUME NEW status \in Status \ {"none"}, NEW c \in Cookie \cup {NoEntry},
                 Handle(r, status, c)
          PROVE  TrackerTypes' /\ SessionsKept(r) /\ AccountsKept(r)
      BY <1>1, <1>2, <1>3, <2>1, HandleEffect
    <2>2. CASE UNCHANGED <<accounts, sessionsVars>>
      BY <1>1, <2>2 DEF TrackerTypes, SessionsTypeOK, SessionsKept, AccountsKept, sessionsVars
    <2> QED
      BY <2>1, <2>2 DEF ExecuteLate
  <1>6. /\ late' \in [Client -> Request] /\ late'[n] = NoCall
        /\ \A m \in Client \ {n} : late'[m] = late[m]
    BY <1>1, <1>4, NoCallFields DEF CallTypes
  <1>7. /\ tried' \in [Login -> SUBSET Password]
        /\ \A u \in Login \ {r.user} : tried'[u] = tried[u]
        /\ tried[user[n]] \subseteq tried'[user[n]]
        /\ r.type = "CHANGE_PASSWORD" => r.new \in tried'[r.user]
    <2>1. r.user \in Login /\ (r.type = "CHANGE_PASSWORD" => r.new \in Password)
      BY <1>2, <1>3, OwnUsers DEF Carries
    <2>2. \E S \in SUBSET Password :
            /\ tried' = [tried EXCEPT ![r.user] = S]
            /\ tried[r.user] \subseteq S
            /\ r.type = "CHANGE_PASSWORD" => r.new \in S
      <3>1. tried[r.user] \in SUBSET Password
        BY <1>1, <2>1 DEF CallTypes
      <3>2. CASE r.type = "CHANGE_PASSWORD"
        <4>1. tried' = [tried EXCEPT ![r.user] = tried[r.user] \cup {r.new}]
          BY <1>4, <3>2
        <4>2. tried[r.user] \cup {r.new} \in SUBSET Password
          BY <2>1, <3>1, <3>2
        <4> QED
          BY <4>1, <4>2
      <3>3. CASE r.type # "CHANGE_PASSWORD"
        <4>1. tried' = [tried EXCEPT ![r.user] = tried[r.user]]
          BY <1>4, <3>3
        <4> QED
          BY <3>1, <3>3, <4>1
      <3> QED
        BY <3>2, <3>3
    <2> QED
      BY <1>1, <1>2, <2>1, <2>2 DEF CallTypes
  <1>8. NodeTypes' /\ CallTypes'
    BY <1>1, <1>4, <1>6, <1>7 DEF NodeTypes, CallTypes
  <1> HIDE DEF r
  <1>9. Alone(n)
    BY <1>1, <1>2, <1>3, <1>4, <1>5, <1>6, <1>7, TrackerAlone
  <1>10. Carries(late[n], n)'
    BY <1>6 DEF Carries
  <1>11. Carries(call[n], n)'
    BY <1>3, <1>4, <1>5, HeldKept DEF Carries, Held
  <1>12. ASSUME accounts[user[n]] # NoEntry
         PROVE  /\ accounts'[user[n]] # NoEntry
                /\ accounts'[user[n]] = accounts[user[n]] \/ accounts'[user[n]] \in tried'[user[n]]
    <2>1. CASE user[n] = r.user
      BY <1>5, <1>7, <1>12, <2>1 DEF AccountsKept
    <2>2. CASE user[n] # r.user
      BY <1>2, <1>5, <1>12, <2>2 DEF AccountsKept
    <2> QED
      BY <2>1, <2>2
  <1>13. InProgress(n)'
    <2>1. ASSUME call[n] # NoCall, call[n].type = "LOGIN", call[n].status = "OK"
          PROVE  /\ call[n].cookie \in issued' /\ sessions'[call[n].cookie] = user[n]
                 /\ call[n].cookie # NoEntry
                 /\ accounts'[user[n]] # NoEntry
                 /\ accounts'[user[n]] \in {password[n]} \cup tried'[user[n]]
      <3>1. /\ call[n].cookie \in issued /\ sessions[call[n].cookie] = user[n]
            /\ call[n].cookie # r.cookie /\ accounts[user[n]] # NoEntry
            /\ accounts[user[n]] \in {password[n]} \cup tried[user[n]]
        BY <1>3, <2>1 DEF InProgress, r
      <3>2. call[n].cookie # NoEntry
        BY <1>1, <3>1, NodeAssumption DEF TrackerTypes, SessionsTypeOK
      <3> QED
        BY <1>5, <1>7, <1>12, <3>1, <3>2 DEF SessionsKept
    <2>2. ASSUME call[n] # NoCall, call[n].type = "CHANGE_PASSWORD", call[n].status = "OK"
          PROVE  accounts'[user[n]] \in {call[n].new} \cup tried'[user[n]]
      <3>1. accounts[user[n]] \in {call[n].new} \cup tried[user[n]]
        BY <1>3, <2>2 DEF InProgress
      <3>2. call[n].new \in Password /\ tried[user[n]] \subseteq Password
        BY <1>1, <1>2, <1>3, <2>2 DEF Carries, CallTypes
      <3>3. accounts[user[n]] # NoEntry
        BY <3>1, <3>2, NodeAssumption
      <3> QED
        BY <1>7, <1>12, <3>1, <3>3
    <2> QED
      BY <1>3, <1>4, <1>6, <2>1, <2>2, NoCallFields DEF InProgress
  <1>14. LoggedIn(n)'
    <2> SUFFICES ASSUME is_logged[n]
                 PROVE  /\ Held(cookie[n], user[n])'
                        /\ call[n].type # "LOGOUT" /\ ~leaving[n] => sessions'[cookie[n]] = user[n]
                        /\ accounts'[user[n]] # NoEntry
                        /\ accounts'[user[n]] \in {password[n]} \cup tried'[user[n]]
                                                \cup Unhandled(n)
      BY <1>4, <1>6, NoCallFields DEF LoggedIn, Unhandled
    <2>1. /\ Held(cookie[n], user[n])
          /\ r.type = "LOGOUT" /\ r.cookie = cookie[n] => leaving[n]
          /\ call[n].type # "LOGOUT" /\ ~leaving[n] => sessions[cookie[n]] = user[n]
          /\ accounts[user[n]] # NoEntry
          /\ accounts[user[n]] \in {password[n]} \cup tried[user[n]] \cup Unhandled(n)
      BY <1>3 DEF LoggedIn, r
    <2>2. Held(cookie[n], user[n])'
      BY <2>1, <1>4, <1>5, HeldKept DEF Held
    <2>3. call[n].type # "LOGOUT" /\ ~leaving[n] => sessions'[cookie[n]] = user[n]
      BY <2>1, <1>5 DEF Held, SessionsKept
    <2> QED
      BY <1>7, <1>12, <2>1, <2>2, <2>3
  <1> QED
    BY <1>5, <1>8, <1>9, <1>10, <1>11, <1>13, <1>14, OneClient DEF ClientInv

-----------------------------------------------------------------------------

(* The programs' first states: nobody is logged in, nothing is on its way. *)
LEMMA InitInv == Init => IInv
  <1> SUFFICES ASSUME Init PROVE IInv
    OBVIOUS
  <1>1. NodeTypes
    BY DEF Init, NodeTypes
  <1>2. CallTypes /\ TrackerTypes
    BY NoCallFields DEF Init, CallTypes, TrackerTypes, SessionsInit, SessionsTypeOK
  <1>3. \A n \in Client : ClientInv(n)
    BY DEF Init, ClientInv, Carries, InProgress, LoggedIn
  <1> QED
    BY <1>1, <1>2, <1>3, TypeParts DEF IInv

(* IInv is inductive.                                                      *)
LEMMA StepInv == IInv /\ [Next]_vars => IInv'
  <1> SUFFICES ASSUME IInv, [Next]_vars PROVE IInv'
    OBVIOUS
  <1>a. NodeTypes
    BY TypeParts DEF IInv
  <1>1. ASSUME NEW n \in Client, logIn(n) PROVE IInv'
    BY <1>1, SendingPassword, LogInReturns DEF logIn
  <1>2. ASSUME NEW n \in Client, logOut(n) PROVE IInv'
    BY <1>2, SendingWithCookie, LogOutReturns DEF logOut
  <1>3. ASSUME NEW n \in Client, registerUser(n) PROVE IInv'
    <2>1. CASE Returns(n, "REGISTER") /\ NoticeNotLogged(n)
               /\ UNCHANGED <<password, cookie, historyVars>>
               /\ (UNCHANGED is_registered
                      \/ is_registered' = [is_registered EXCEPT ![n] = TRUE])
      <3>1. is_registered' \in [Client -> BOOLEAN]
        BY <1>a, <2>1 DEF NodeTypes
      <3> QED
        BY <2>1, <3>1, OthersReturn
    <2> QED
      BY <1>3, <2>1, SendingPassword DEF registerUser
  <1>4. ASSUME NEW n \in Client, changePassword(n) PROVE IInv'
    BY <1>4, SendingChange, ChangeReturns DEF changePassword
  <1>5. ASSUME NEW n \in Client, Ask(n) PROVE IInv'
    <2>1. CASE Returns(n, "ASK") /\ NoticeNotLogged(n)
               /\ UNCHANGED <<password, cookie, is_registered, historyVars>>
      <3>1. is_registered' \in [Client -> BOOLEAN]
        BY <1>a, <2>1 DEF NodeTypes
      <3> QED
        BY <2>1, <3>1, OthersReturn
    <2> QED
      BY <1>5, <2>1, SendingWithCookie DEF Ask
  <1>6. CASE UNCHANGED vars
    BY <1>6 DEF vars, nodeVars, historyVars, sessionsVars, IInv, TypeOK, SessionsTypeOK,
                ClientInv, Carries, Held, InProgress, LoggedIn, Unhandled
  <1>7. ASSUME NEW n \in Client, Methods(n) PROVE IInv'
    BY <1>1, <1>2, <1>3, <1>4, <1>5, <1>7, SetUser
    DEF Methods, signKey, getUserInfo, inviteUser, getNetworksList, getMyNetworks,
        getServersList, registerNetwork, deleteNetwork, updateServer, stopServer
  <1> QED
    BY <1>6, <1>7, CallFails, Executing, ExecutingLate DEF Next

(* Every reachable state satisfies the invariant.                          *)
LEMMA AlwaysIInv == Spec => []IInv
  BY InitInv, StepInv, PTL DEF Spec

(* Type correctness; among others, a Node's user is always one of its own. *)
THEOREM TypeCorrect == Spec => []TypeOK
  <1>1. IInv => TypeOK
    BY DEF IInv
  <1> QED
    BY <1>1, AlwaysIInv, PTL

(***************************************************************************)
(* For any number of programs, accounts and cookies, and whatever answers  *)
(* are lost and requests are executed late: a live cookie that a Node or   *)
(* one of its requests holds names the user the Node had when it got it.   *)
(***************************************************************************)
THEOREM IdentityHolds == Spec => []IdentityKept
  <1>1. IInv => IdentityKept
    <2> SUFFICES ASSUME IInv PROVE IdentityKept
      OBVIOUS
    <2>1. NoEntry \notin issued
      BY NodeAssumption DEF IInv, TypeOK, SessionsTypeOK
    <2>2. \A n \in Client : is_logged[n] =>
             cookie[n] # NoEntry /\ sessions[cookie[n]] \in {NoEntry, user[n]}
      BY <2>1 DEF IInv, ClientInv, LoggedIn, Held
    <2>3. \A n \in Client : \A r \in {call[n], late[n]} :
             r.cookie # NoEntry => sessions[r.cookie] \in {NoEntry, r.user}
      BY NoCallFields DEF IInv, ClientInv, Carries, Held
    <2> QED
      BY <2>2, <2>3 DEF IdentityKept, Pending
  <1> QED
    BY <1>1, AlwaysIInv, PTL

(***************************************************************************)
(* A Node that is logged in has an account, and the account's password is  *)
(* the Node's, or one of a changePassword that it was told had failed, or  *)
(* of one that is under way.                                               *)
(***************************************************************************)
THEOREM PasswordHolds == Spec => []PasswordKnown
  <1>1. IInv => PasswordKnown
    BY DEF IInv, ClientInv, LoggedIn, Unhandled, PasswordKnown
  <1> QED
    BY <1>1, AlwaysIInv, PTL

(***************************************************************************)
(* A Node that believes itself logged in is, as long as the tracker's      *)
(* process lives and none of the Node's logOut calls is under way or has   *)
(* failed: no request that arrives late, its own or another program's,     *)
(* ends its session.                                                       *)
(***************************************************************************)
THEOREM SessionHolds == Spec => []SessionHeld
  <1>1. IInv => SessionHeld
    BY DEF IInv, ClientInv, LoggedIn, SessionHeld
  <1> QED
    BY <1>1, AlwaysIInv, PTL

=============================================================================
