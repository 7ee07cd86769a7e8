-------------------------------- MODULE Node --------------------------------
(***************************************************************************)
(* The accounts of several client programs at one tracker: what each Node  *)
(* object remembers (user, password, cookie, whether it is registered and  *)
(* logged in) next to what the tracker remembers (accounts and sessions).  *)
(* The certificates a Node collects are left out: they bind nothing.       *)
(*                                                                         *)
(* A method sends its request, the tracker executes it, the answer is      *)
(* handled: three steps, and other programs go on in between.  The call is *)
(* that of RemoteCall: it may fail before or after the request was         *)
(* executed, and a request whose call has failed may be executed later.    *)
(* The tracker's handlers are taken as one step each, which is no loss     *)
(* here because every program has accounts of its own (Own); their inner   *)
(* steps are in Tracker.                                                   *)
(***************************************************************************)
EXTENDS Sessions

CONSTANTS
    Client,      \* the Node objects of the programs
    Password,
    Own          \* Own[n]: the user names the user of program n goes by

ASSUME NodeAssumption ==
    /\ NoEntry \notin Password \cup Cookie
    /\ Own \in [Client -> (SUBSET Login) \ {{}}]
    /\ \A m, n \in Client : m # n => Own[m] \cap Own[n] = {}

VARIABLES
    user,          \* my_user.username of each Node
    password,      \* my_user.password
    is_registered, \* my_user.is_registered
    is_logged,     \* node_connection.is_logged
    cookie,        \* node_connection.cookie, NoEntry for the empty string
    call,          \* the call in progress and the answer, once there is one
    late,          \* a request whose call has failed, but which may yet be executed
    accounts,      \* the tracker's accounts and their passwords
    tried,         \* history: the passwords of failed changePassword calls for each
                   \* login since the tracker last accepted the password of its Node
    leaving        \* history: a logOut with the Node's cookie has failed

nodeVars == <<user, password, is_registered, is_logged, cookie>>
historyVars == <<tried, leaving>>
vars == <<nodeVars, call, late, accounts, historyVars, sessionsVars>>

RequestTypes == {"LOGIN", "LOGOUT", "REGISTER", "CHANGE_PASSWORD", "ASK"}

Status == {"none", "OK", "INTERNAL_SERVER_ERROR", "REFUSED", "NOT_LOGGED",
           "BAD_CREDENTIALS", "ALREADY_EXISTS"}

Request == [type : RequestTypes \cup {"none"}, user : Login \cup {NoEntry},
            password : Password \cup {NoEntry}, new : Password \cup {NoEntry},
            cookie : Cookie \cup {NoEntry}, status : Status]

NoCall == [type |-> "none", user |-> NoEntry, password |-> NoEntry, new |-> NoEntry,
           cookie |-> NoEntry, status |-> "none"]

TypeOK ==
    /\ \A n \in Client : user[n] \in Own[n]
    /\ password \in [Client -> Password]
    /\ is_registered \in [Client -> BOOLEAN]
    /\ is_logged \in [Client -> BOOLEAN]
    /\ cookie \in [Client -> Cookie \cup {NoEntry}]
    /\ call \in [Client -> Request]
    /\ late \in [Client -> Request]
    /\ accounts \in [Login -> Password \cup {NoEntry}]
    /\ tried \in [Login -> SUBSET Password]
    /\ leaving \in [Client -> BOOLEAN]
    /\ SessionsTypeOK

Init ==
    /\ user \in {f \in [Client -> Login] : \A n \in Client : f[n] \in Own[n]}
    /\ password \in [Client -> Password]
    /\ is_registered \in [Client -> BOOLEAN]
    /\ is_logged = [n \in Client |-> FALSE]
    /\ cookie = [n \in Client |-> NoEntry]
    /\ call = [n \in Client |-> NoCall]
    /\ late = [n \in Client |-> NoCall]
    /\ accounts = [l \in Login |-> NoEntry]
    /\ tried = [l \in Login |-> {}]
    /\ leaving = [n \in Client |-> FALSE]
    /\ SessionsInit

-----------------------------------------------------------------------------
(* The tracker: the effect of a request, its status and, for LOGIN, cookie. *)

Live(c) == c # NoEntry /\ sessions[c] # NoEntry

(* Mutant: the cookie may be empty.                                        *)
HandleLoginEmpty(r, status, c) ==
    /\ accounts[r.user] = r.password
    /\ OpenSession(c, r.user)
    /\ status = "OK"
    /\ UNCHANGED accounts

handleLogin(r, status, c) ==
    \/ /\ accounts[r.user] = r.password
       /\ c \in Cookie /\ OpenSession(c, r.user)
       /\ status = "OK"
       /\ UNCHANGED accounts
    \/ /\ accounts[r.user] # r.password \/ status = "INTERNAL_SERVER_ERROR"
       /\ c = NoEntry
       /\ status \in {"BAD_CREDENTIALS", "INTERNAL_SERVER_ERROR"}
       /\ UNCHANGED <<accounts, sessionsVars>>

handleLogout(r, status, c) ==
    /\ c = r.cookie
    /\ status = IF Live(r.cookie) THEN "OK" ELSE "NOT_LOGGED"
    /\ CloseSessions({r.cookie})
    /\ UNCHANGED accounts

(* An error may be reported for an account that was made (commit in doubt). *)
handleRegister(r, status, c) ==
    /\ c = NoEntry
    /\ \/ /\ accounts[r.user] = NoEntry
          /\ status \in {"OK", "INTERNAL_SERVER_ERROR"}
          /\ accounts' = [accounts EXCEPT ![r.user] = r.password]
       \/ /\ status \in {"ALREADY_EXISTS", "INTERNAL_SERVER_ERROR"}
          /\ accounts[r.user] # NoEntry \/ status # "ALREADY_EXISTS"
          /\ UNCHANGED accounts
    /\ UNCHANGED sessionsVars

(* The account is the one the cookie names.                                *)
handleChange_password(r, status, c) ==
    /\ c = r.cookie
    /\ \/ /\ Live(r.cookie) /\ accounts[sessions[r.cookie]] = r.password
          /\ status \in {"OK", "INTERNAL_SERVER_ERROR"}
          /\ accounts' = [accounts EXCEPT ![sessions[r.cookie]] = r.new]
       \/ /\ \/ ~Live(r.cookie) /\ status = "NOT_LOGGED"
             \/ /\ Live(r.cookie) /\ accounts[sessions[r.cookie]] # r.password
                /\ status = "BAD_CREDENTIALS"
             \/ Live(r.cookie) /\ status = "INTERNAL_SERVER_ERROR"
          /\ UNCHANGED accounts
    /\ UNCHANGED sessionsVars

(* SIGN_KEY and the requests about users, networks and servers.            *)
handleOther(r, status, c) ==
    /\ c = r.cookie
    /\ \/ Live(r.cookie) /\ status \in {"OK", "REFUSED"}
       \/ ~Live(r.cookie) /\ status = "NOT_LOGGED"
    /\ UNCHANGED <<accounts, sessionsVars>>

Handle(r, status, c) ==
    \/ r.type = "LOGIN" /\ handleLogin(r, status, c)
    \/ r.type = "LOGOUT" /\ handleLogout(r, status, c)
    \/ r.type = "REGISTER" /\ handleRegister(r, status, c)
    \/ r.type = "CHANGE_PASSWORD" /\ handleChange_password(r, status, c)
    \/ r.type = "ASK" /\ handleOther(r, status, c)

(* A request is executed while its call is waiting ...                     *)
Execute(n) ==
    /\ call[n] # NoCall /\ call[n].status = "none"
    /\ \E status \in Status \ {"none"}, c \in Cookie \cup {NoEntry} :
          /\ Handle(call[n], status, c)
          /\ call' = [call EXCEPT ![n].status = status, ![n].cookie = c]
          /\ tried' = [tried EXCEPT ![call[n].user] =
                          IF status = "OK" /\ call[n].type \in {"LOGIN", "CHANGE_PASSWORD"}
                          THEN {} ELSE @]
    /\ UNCHANGED <<nodeVars, late, leaving>>

(* ... or after it has failed, or never.                                   *)
ExecuteLate(n) ==
    /\ late[n] # NoCall
    /\ \/ \E status \in Status \ {"none"}, c \in Cookie \cup {NoEntry} :
             Handle(late[n], status, c)
       \/ UNCHANGED <<accounts, sessionsVars>>
    /\ late' = [late EXCEPT ![n] = NoCall]
    /\ tried' = [tried EXCEPT ![late[n].user] =
                    IF late[n].type = "CHANGE_PASSWORD" THEN @ \cup {late[n].new} ELSE @]
    /\ UNCHANGED <<nodeVars, call, leaving>>

-----------------------------------------------------------------------------
(* The Node methods.                                                       *)

(* The request that message_factory builds out of the Node's state.        *)
Send(n, request) ==
    /\ call[n] = NoCall
    /\ call' = [call EXCEPT ![n] = request]
    /\ UNCHANGED <<nodeVars, late, accounts, historyVars, sessionsVars>>

(* beforeMessage lets only a Node through that is logged in.               *)
SendWithCookie(n, type) ==
    /\ is_logged[n]
    /\ Send(n, [NoCall EXCEPT !.type = type, !.user = user[n], !.cookie = cookie[n]])

Returns(n, type) ==
    /\ call[n].type = type /\ call[n].status # "none"
    /\ call' = [call EXCEPT ![n] = NoCall]
    /\ UNCHANGED <<user, late, accounts, sessionsVars>>

(* What every method does with NOT_LOGGED.                                 *)
NoticeNotLogged(n) ==
    is_logged' = [is_logged EXCEPT ![n] = @ /\ call[n].status # "NOT_LOGGED"]

(* The history of a call that ends without its OK.                         *)
Blame(n) ==
    /\ tried' = [tried EXCEPT ![call[n].user] =
                    IF call[n].type = "CHANGE_PASSWORD" THEN @ \cup {call[n].new} ELSE @]
    /\ leaving' = [leaving EXCEPT ![n] = @ \/ call[n].type = "LOGOUT"]

(***************************************************************************)
(* SEND_ERROR or NO_CONNECTION: an answer is lost, or a request that was   *)
(* not executed may still be.  One such request of a program is            *)
(* remembered, and none of type ASK, which would change nothing here.      *)
(***************************************************************************)
callFails(n) ==
    /\ call[n] # NoCall
    /\ call' = [call EXCEPT ![n] = NoCall]
    /\ \/ UNCHANGED late
       \/ /\ call[n].status = "none" /\ call[n].type # "ASK" /\ late[n] = NoCall
          /\ late' = [late EXCEPT ![n] = call[n]]
    /\ Blame(n)
    /\ UNCHANGED <<nodeVars, accounts, sessionsVars>>

logIn(n) ==
    \/ /\ ~is_logged[n]
       /\ Send(n, [NoCall EXCEPT !.type = "LOGIN", !.user = user[n], !.password = password[n]])
    \/ /\ Returns(n, "LOGIN")
       /\ \/ /\ call[n].status = "OK"
             /\ cookie' = [cookie EXCEPT ![n] = call[n].cookie]
             /\ is_logged' = [is_logged EXCEPT ![n] = TRUE]
             /\ is_registered' = [is_registered EXCEPT ![n] = TRUE]
             /\ leaving' = [leaving EXCEPT ![n] = FALSE]
          \/ /\ call[n].status # "OK"
             /\ UNCHANGED <<cookie, is_logged, is_registered, leaving>>
       /\ UNCHANGED <<password, tried>>

(* Mutant: only NOT_LOGGED ends the session of the Node.                   *)
LogOutStaysLogged(n) ==
    \/ SendWithCookie(n, "LOGOUT")
    \/ /\ Returns(n, "LOGOUT")
       /\ NoticeNotLogged(n)
       /\ UNCHANGED <<password, cookie, is_registered, historyVars>>

(* OK and NOT_LOGGED both end the session; only OK forgets the cookie.     *)
logOut(n) ==
    \/ SendWithCookie(n, "LOGOUT")
    \/ /\ Returns(n, "LOGOUT")
       /\ is_logged' = [is_logged EXCEPT ![n] = @ /\ call[n].status \notin {"OK", "NOT_LOGGED"}]
       /\ cookie' = [cookie EXCEPT ![n] = IF call[n].status = "OK" THEN NoEntry ELSE @]
       /\ UNCHANGED <<password, is_registered, historyVars>>

registerUser(n) ==
    \/ /\ ~is_registered[n]
       /\ Send(n, [NoCall EXCEPT !.type = "REGISTER", !.user = user[n], !.password = password[n]])
    \/ /\ Returns(n, "REGISTER")
       /\ \/ /\ call[n].status = "OK"
             /\ is_registered' = [is_registered EXCEPT ![n] = TRUE]
          \/ /\ call[n].status # "OK"
             /\ UNCHANGED is_registered
       /\ NoticeNotLogged(n)
       /\ UNCHANGED <<password, cookie, historyVars>>

(* Mutant: the new password is kept whatever the answer was.               *)
ChangePasswordAnyway(n) ==
    \/ /\ is_logged[n]
       /\ \E p \in Password :
             Send(n, [NoCall EXCEPT !.type = "CHANGE_PASSWORD", !.user = user[n],
                                    !.password = password[n], !.new = p, !.cookie = cookie[n]])
    \/ /\ Returns(n, "CHANGE_PASSWORD")
       /\ password' = [password EXCEPT ![n] = call[n].new]
       /\ NoticeNotLogged(n)
       /\ UNCHANGED <<cookie, is_registered, historyVars>>

changePassword(n) ==
    \/ /\ is_logged[n]
       /\ \E p \in Password :
             Send(n, [NoCall EXCEPT !.type = "CHANGE_PASSWORD", !.user = user[n],
                                    !.password = password[n], !.new = p, !.cookie = cookie[n]])
    \/ /\ Returns(n, "CHANGE_PASSWORD")
       /\ \/ /\ call[n].status = "OK"
             /\ password' = [password EXCEPT ![n] = call[n].new]
             /\ UNCHANGED historyVars
          \/ /\ call[n].status # "OK"
             /\ Blame(n)
             /\ UNCHANGED password
       /\ NoticeNotLogged(n)
       /\ UNCHANGED <<cookie, is_registered>>

(* A method that leaves nothing behind in the Node but NOT_LOGGED.         *)
Ask(n) ==
    \/ SendWithCookie(n, "ASK")
    \/ /\ Returns(n, "ASK")
       /\ NoticeNotLogged(n)
       /\ UNCHANGED <<password, cookie, is_registered, historyVars>>

signKey(n) == Ask(n)

getUserInfo(n) == Ask(n)

inviteUser(n) == Ask(n)

getNetworksList(n) == Ask(n)

getMyNetworks(n) == Ask(n)

getServersList(n) == Ask(n)

registerNetwork(n) == Ask(n)

deleteNetwork(n) == Ask(n)

updateServer(n) == Ask(n)

stopServer(n) == Ask(n)

(* Mutant: a user with the same password keeps the session.                *)
SetUserStaysLogged(n) ==
    /\ call[n] = NoCall
    /\ user' \in {[user EXCEPT ![n] = u] : u \in Own[n]}
    /\ password' \in {[password EXCEPT ![n] = p] : p \in Password}
    /\ is_registered' \in {[is_registered EXCEPT ![n] = r] : r \in BOOLEAN}
    /\ is_logged' = [is_logged EXCEPT ![n] = @ /\ password' = password]
    /\ UNCHANGED <<cookie, call, late, accounts, historyVars, sessionsVars>>

(***************************************************************************)
(* setUser, which throws while the connection is open and else forgets.    *)
(* Nobody checks is_registered of the new user: it is what the option of   *)
(* the console's setU says, and false without it.                          *)
(***************************************************************************)
setUser(n) ==
    /\ call[n] = NoCall
    /\ user' \in {[user EXCEPT ![n] = u] : u \in Own[n]}
    /\ password' \in {[password EXCEPT ![n] = p] : p \in Password}
    /\ is_registered' \in {[is_registered EXCEPT ![n] = r] : r \in BOOLEAN}
    /\ is_logged' = [is_logged EXCEPT ![n] = FALSE]
    /\ cookie' = [cookie EXCEPT ![n] = NoEntry]
    /\ leaving' = [leaving EXCEPT ![n] = FALSE]
    /\ UNCHANGED <<call, late, accounts, tried, sessionsVars>>

Methods(n) ==
    \/ logIn(n) \/ logOut(n) \/ registerUser(n) \/ changePassword(n) \/ signKey(n)
    \/ getUserInfo(n) \/ inviteUser(n) \/ getNetworksList(n) \/ getMyNetworks(n)
    \/ getServersList(n) \/ registerNetwork(n) \/ deleteNetwork(n) \/ updateServer(n)
    \/ stopServer(n) \/ setUser(n)

Next == \E n \in Client : Methods(n) \/ callFails(n) \/ Execute(n) \/ ExecuteLate(n)

Spec == Init /\ [][Next]_vars

(***************************************************************************)
(* The tracker's process ends and is started again: the sessions are gone, *)
(* and getRandomString begins once more with the same cookies.             *)
(***************************************************************************)
Restart ==
    /\ \A n \in Client : call[n] = NoCall /\ late[n] = NoCall
    /\ ResetSessions
    /\ UNCHANGED <<nodeVars, call, late, accounts, historyVars>>

RestartSpec == Init /\ [][Next \/ Restart]_vars

-----------------------------------------------------------------------------

(* The requests that are on their way or may yet arrive.                   *)
Pending == {r \in {call[n] : n \in Client} \cup {late[n] : n \in Client} : r.cookie # NoEntry}

(***************************************************************************)
(* Nothing a program does is done in another's name: a live cookie that a  *)
(* Node or one of its requests holds names the user the Node had when it   *)
(* got it, through lost answers, late executions and changes of user.      *)
(***************************************************************************)
IdentityKept ==
    /\ \A n \in Client :
          is_logged[n] => cookie[n] # NoEntry /\ sessions[cookie[n]] \in {NoEntry, user[n]}
    /\ \A r \in Pending : sessions[r.cookie] \in {NoEntry, r.user}

(***************************************************************************)
(* A Node that is logged in has an account, whose password is the one the  *)
(* Node holds or one of a changePassword call that it was told had failed  *)
(* or that is still under way (such a call may have been, or may yet be,   *)
(* executed).                                                              *)
(***************************************************************************)
PasswordKnown ==
    \A n \in Client : is_logged[n] =>
        /\ accounts[user[n]] # NoEntry
        /\ accounts[user[n]] \in {password[n]} \cup tried[user[n]]
              \cup {r.new : r \in {call[n], late[n]}}

(***************************************************************************)
(* A Node that believes itself logged in is, unless one of its logOut      *)
(* calls is under way or has failed.                                       *)
(***************************************************************************)
SessionHeld ==
    \A n \in Client :
        is_logged[n] /\ call[n].type # "LOGOUT" /\ ~leaving[n]
        => sessions[cookie[n]] = user[n]

=============================================================================
