----------------------------- MODULE MCTracker -----------------------------
(***************************************************************************)
(* Tracker on a few users, networks and workers.  A field that a handler   *)
(* does not read has one value, so that requests which no handler tells    *)
(* apart are not counted twice.                                            *)
(***************************************************************************)
EXTENDS Tracker

CONSTANTS
    Types,          \* the requests clients send in this run
    Offered         \* the rights networks are created with in this run

(* Anybody may look but only the owner serves; and the other way round.    *)
ReadOnly == [public |-> TRUE, visible |-> TRUE, participable |-> FALSE]

ServeOnly == [public |-> FALSE, visible |-> TRUE, participable |-> TRUE]

Closed == [public |-> FALSE, visible |-> FALSE, participable |-> FALSE]

Some(S) == CHOOSE x \in S : TRUE

Fields ==
    [REGISTER |-> {"user", "pass", "csr"}, UNREGISTER |-> {"cookie"},
     LOGIN |-> {"user", "pass"}, LOGOUT |-> {"cookie"},
     LIST_NETWORKS |-> {"cookie"}, LIST_MY_NETWORKS |-> {"cookie"},
     LIST_SERVERS |-> {"cookie", "network"},
     CREATE_NETWORK |-> {"cookie", "network", "rights"},
     DELETE_NETWORK |-> {"cookie", "network"},
     INVITE_USER |-> {"cookie", "network", "user"},
     REMOVE_USER |-> {"cookie"},
     USER_INFO |-> {"cookie", "network", "user"},
     UPDATE_SERVER |-> {"cookie", "network", "addr"},
     STOP_SERVER |-> {"cookie", "network"},
     SIGN_KEY |-> {"cookie", "network", "csr"},
     CHANGE_PASSWORD |-> {"cookie", "pass", "newPass"}]

Unread ==
    [cookie |-> Some(Cookie), user |-> Some(Login), network |-> Some(Name),
     pass |-> Some(Password), newPass |-> Some(Password),
     rights |-> Some(Offered), csr |-> Some(Csr), addr |-> Some(Address)]

Messages ==
    {m \in ClientMessage :
        /\ m.type \in Types
        /\ m.rights \in Offered
        /\ \A f \in DOMAIN Unread \ Fields[m.type] : m[f] = Unread[f]}

AllTypes == RequestType

(* What sessions, passwords, networks and servers depend on.               *)
CoreTypes == RequestType \ {"SIGN_KEY"}

OnlyClosed == {Closed}

Mixed == {ReadOnly, ServeOnly}
=============================================================================
