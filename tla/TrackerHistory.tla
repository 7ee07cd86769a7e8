--------------------------- MODULE TrackerHistory ---------------------------
(***************************************************************************)
(* What the tracker promises about rights and passwords when its checks go *)
(* stale.  handleUpdate_server, handleList_servers, handleLogin and        *)
(* handleChange_password ask the database for a right or a password in one *)
(* transaction and rely on the answer in a later one.  In between another  *)
(* worker may delete the network or change the account, so that what was   *)
(* checked need not hold any more.  A history variable, which the tracker  *)
(* does not read, remembers whose check was overtaken in this way and by   *)
(* whom.                                                                   *)
(***************************************************************************)
EXTENDS Tracker

VARIABLES
    withdrawn    \* the workers that were entitled since their request came,
                 \* until the one who may took that back

hvars == <<vars, withdrawn>>

Serving(w, type) ==
    /\ worker[w].req # NoRequest
    /\ worker[w].req.type = type

(* What the handler of w's request checks holds in this state.             *)
Entitled(w) ==
    LET q == worker[w].req
        l == worker[w].login
    IN  \/ Serving(w, "UPDATE_SERVER") /\ l \in Login /\ mayServe(l, q.network)
        \/ Serving(w, "LIST_SERVERS") /\ l \in Login /\ maySee(l, q.network)
        \/ Serving(w, "LOGIN") /\ KnowsPassword(w, q.user)
        \/ Serving(w, "CHANGE_PASSWORD") /\ KnowsPassword(w, l)

Sanctioned(w) == Entitled(w) \/ w \in withdrawn

(* The requests that may take a row of users away: to remove the account   *)
(* of the session, or to change its password with the old one at hand.     *)
AskedToChange(w, u) ==
    /\ worker[w].login = u.login
    /\ \/ Serving(w, "UNREGISTER") \/ Serving(w, "REMOVE_USER")
       \/ Serving(w, "CHANGE_PASSWORD") /\ Sanctioned(w)

(* What w's request relies on is taken away in this step, the network by   *)
(* its owner or the password by its user.                                  *)
NetworkWithdrawn(w) ==
    /\ Serving(w, "UPDATE_SERVER") \/ Serving(w, "LIST_SERVERS")
    /\ \E n \in networks \ networks', v \in Worker :
          /\ n.name = worker[w].req.network
          /\ worker'[v] # worker[v]
          /\ AskedToDelete(v, n)

PasswordWithdrawn(w) ==
    \E u \in users \ users', v \in Worker :
        /\ \/ Serving(w, "LOGIN") /\ u.login = worker[w].req.user
           \/ Serving(w, "CHANGE_PASSWORD") /\ u.login = worker[w].login
        /\ worker'[v] # worker[v]
        /\ AskedToChange(v, u)

Record ==
    withdrawn' =
        {w \in Worker :
            /\ worker'[w].req = worker[w].req
            /\ \/ w \in withdrawn
               \/ /\ Entitled(w)
                  /\ NetworkWithdrawn(w) \/ PasswordWithdrawn(w)}

HInit == Init /\ withdrawn = {}

(* Next with Record beside each step.                                      *)
HNext ==
    \/ \E w \in Worker, m \in Request :
          (Receive(w, m) \/ ReceiveEmpty(w, m)) /\ Record
    \/ \E w \in Worker : (Handle(w) \/ Reply(w)) /\ Record
    \/ \E v, w \in Worker : Overlap(v, w) /\ Record

HSpec == HInit /\ [][HNext]_hvars

-----------------------------------------------------------------------------
ServersGranted ==
    \A s \in servers' \ servers :
        \E w \in Worker :
            /\ worker'[w] # worker[w]
            /\ Serving(w, "UPDATE_SERVER")
            /\ s.user = worker[w].login
            /\ s.network = worker[w].req.network
            /\ Sanctioned(w)

(***************************************************************************)
(* handleUpdate_server: a server is listed only for somebody who may serve *)
(* the network at that step, or who might while the request was handled    *)
(* and until the network's owner deleted it.  Any number of workers, and   *)
(* networks that are deleted and founded again with other rights between   *)
(* canAddServer and the INSERT, included.                                  *)
(***************************************************************************)
ServersSanctioned == [][ServersGranted]_hvars

ListsGranted ==
    \A w \in Worker :
        /\ Serving(w, "LIST_SERVERS")
        /\ worker'[w].answer \notin {{}, worker[w].answer}
        => Sanctioned(w)

(***************************************************************************)
(* handleList_servers: servers are listed only to somebody who may see the *)
(* network at that step, or who might while the request was handled and    *)
(* until the network's owner deleted it; nobody but the owner can bring    *)
(* about that canSeeNetwork is out of date when getServers runs.           *)
(***************************************************************************)
ListsSanctioned == [][ListsGranted]_hvars

CredentialsHeld ==
    /\ \A c \in Cookie :
          sessions[c] = NoEntry /\ sessions'[c] # NoEntry =>
             \E w \in Worker : /\ worker'[w] # worker[w]
                               /\ Serving(w, "LOGIN")
                               /\ worker[w].req.user = sessions'[c]
                               /\ Sanctioned(w)
    /\ \A u \in users, v \in users' :
          u.login = v.login /\ u # v =>
             \E w \in Worker : /\ worker'[w] # worker[w]
                               /\ Serving(w, "CHANGE_PASSWORD")
                               /\ worker[w].login = u.login
                               /\ Sanctioned(w)

(***************************************************************************)
(* handleLogin, handleChange_password: a session is opened and a password  *)
(* replaced only for somebody who gave the stored password, or one that    *)
(* was stored while the request was handled and until a session of that    *)
(* same user removed the account or, with the old password, changed it.    *)
(***************************************************************************)
CredentialsSanctioned == [][CredentialsHeld]_hvars

=============================================================================
