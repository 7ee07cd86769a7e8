------------------------------ MODULE Sessions ------------------------------
(***************************************************************************)
(* What the tracker's request handlers rely on when they talk to the       *)
(* session controler: a table from live cookies to logins.  A cookie is    *)
(* handed out once, names one login for as long as it is live, and never   *)
(* comes back after it was closed.                                         *)
(*                                                                         *)
(* SessionControler.tla shows that the two maps of the C++ class implement *)
(* this table; Tracker.tla composes the table with the database and the    *)
(* request handlers.                                                       *)
(***************************************************************************)

EXTENDS Logins

CONSTANTS
    Cookie,      \* the strings getRandomString(COOKIE_LEN) can return
    NoEntry      \* a cookie that has no entry in a map

ASSUME SessionsAssumption == NoEntry \notin Login

VARIABLES
    sessions,    \* sessions[c]: the login cookie c stands for, or NoEntry
    issued       \* the cookies drawn since the process started

sessionsVars == <<sessions, issued>>

(* A live cookie stands for one login.                                     *)
SessionsTypeOK ==
    /\ sessions \in [Cookie -> Login \cup {NoEntry}]
    /\ issued \in SUBSET Cookie

SessionsInit ==
    /\ sessions = [c \in Cookie |-> NoEntry]
    /\ issued = {}

(***************************************************************************)
(* AbstractSessionControler::login.  The 15 characters are drawn from 62,  *)
(* so a cookie is taken to differ from all the others of this process.     *)
(***************************************************************************)
OpenSession(c, l) ==
    /\ c \notin issued
    /\ issued' = issued \cup {c}
    /\ sessions' = [sessions EXCEPT ![c] = l]

(* logout, and every way in which the controler drops entries.             *)
CloseSessions(C) ==
    /\ sessions' = [c \in Cookie |-> IF c \in C THEN NoEntry ELSE sessions[c]]
    /\ UNCHANGED issued

(***************************************************************************)
(* A new process starts with empty maps.  rand() is never seeded, so the   *)
(* new process may draw the cookies of the old one again.                  *)
(***************************************************************************)
ResetSessions ==
    /\ sessions' = [c \in Cookie |-> NoEntry]
    /\ issued' = {}

SessionsNext ==
    \/ \E c \in Cookie, l \in Login : OpenSession(c, l)
    \/ \E C \in SUBSET Cookie : CloseSessions(C)
    \/ ResetSessions

SessionsSpec == SessionsInit /\ [][SessionsNext]_sessionsVars

=============================================================================
