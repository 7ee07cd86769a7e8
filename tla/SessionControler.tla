-------------------------- MODULE SessionControler --------------------------
(***************************************************************************)
(* tracker/qmake_project/sessioncontroler.cpp: two maps under one mutex.   *)
(* Every method holds the mutex from its first to its last line, so every  *)
(* method is one action.  The maps are modelled as functions on Cookie     *)
(* whose value is NoEntry where the map has no key.                        *)
(*                                                                         *)
(* startDaemon starts a detached thread that no member refers to: the      *)
(* member `daemon' stays an empty boost::thread, so stopDaemon interrupts  *)
(* nothing and only clears the flag.                                       *)
(***************************************************************************)
EXTENDS Naturals, Logins

CONSTANTS
    Cookie, NoEntry,
    Thread,           \* daemon threads that may be started
    RefresheRate,     \* a daemon sleeps this long between two cleanings
    Ttl,              \* the ttl given to startDaemon
    MaxTime           \* bound on the clock

ASSUME ControlerAssumption ==
    /\ NoEntry \notin Login
    /\ NoEntry \notin Nat
    /\ RefresheRate \in Nat /\ Ttl \in Nat /\ MaxTime \in Nat

VARIABLES
    cookieToLogin,
    cookieToTime,
    issued,           \* the cookies drawn since the process started
    now,              \* utils::currTimeInMS()
    wakeAt,           \* wakeAt[d]: when daemon thread d ends its sleep
    isDaemonRunning

vars == <<cookieToLogin, cookieToTime, issued, now, wakeAt, isDaemonRunning>>

(* The maps hold what their types say; a wake-up time is never negative.   *)
TypeOK ==
    /\ cookieToLogin \in [Cookie -> Login \cup {NoEntry}]
    /\ cookieToTime \in [Cookie -> Nat \cup {NoEntry}]
    /\ issued \in SUBSET Cookie
    /\ now \in Nat
    /\ wakeAt \in [Thread -> Nat \cup {NoEntry}]
    /\ isDaemonRunning \in BOOLEAN

(* The constructor leaves isDaemonRunning uninitialised.                   *)
Init ==
    /\ cookieToLogin = [c \in Cookie |-> NoEntry]
    /\ cookieToTime = [c \in Cookie |-> NoEntry]
    /\ issued = {}
    /\ now = 0
    /\ wakeAt = [d \in Thread |-> NoEntry]
    /\ isDaemonRunning \in BOOLEAN

-----------------------------------------------------------------------------
(* isLogged and getLogin decide by cookieToTime, and getLogin reads        *)
(* cookieToLogin.at(cookie), which throws if there is no entry.            *)
isLogged(c) == cookieToTime[c] # NoEntry

getLogin(c) == IF isLogged(c) THEN cookieToLogin[c] ELSE NoEntry

login(c, l) ==
    /\ c \notin issued
    /\ issued' = issued \cup {c}
    /\ cookieToLogin' = [cookieToLogin EXCEPT ![c] = l]
    /\ cookieToTime' = [cookieToTime EXCEPT ![c] = now]
    /\ UNCHANGED <<now, wakeAt, isDaemonRunning>>

LogoutKeepsTime(c) ==
    /\ isLogged(c)
    /\ cookieToLogin' = [cookieToLogin EXCEPT ![c] = NoEntry]
    /\ UNCHANGED <<cookieToTime, issued, now, wakeAt, isDaemonRunning>>

logout(c) ==
    /\ isLogged(c)
    /\ cookieToLogin' = [cookieToLogin EXCEPT ![c] = NoEntry]
    /\ cookieToTime' = [cookieToTime EXCEPT ![c] = NoEntry]
    /\ UNCHANGED <<issued, now, wakeAt, isDaemonRunning>>

RefreshAny(c) ==
    /\ cookieToTime' = [cookieToTime EXCEPT ![c] = now]
    /\ UNCHANGED <<cookieToLogin, issued, now, wakeAt, isDaemonRunning>>

refresh(c) ==
    /\ isLogged(c)
    /\ cookieToTime' = [cookieToTime EXCEPT ![c] = now]
    /\ UNCHANGED <<cookieToLogin, issued, now, wakeAt, isDaemonRunning>>

cleanAll ==
    /\ cookieToLogin' = [c \in Cookie |-> NoEntry]
    /\ cookieToTime' = [c \in Cookie |-> NoEntry]
    /\ UNCHANGED <<issued, now, wakeAt, isDaemonRunning>>

-----------------------------------------------------------------------------
StartDaemonAtOnce(d) ==
    /\ wakeAt[d] = NoEntry
    /\ wakeAt' = [wakeAt EXCEPT ![d] = now - RefresheRate]
    /\ isDaemonRunning' = TRUE
    /\ UNCHANGED <<cookieToLogin, cookieToTime, issued, now>>

startDaemon(d) ==
    /\ wakeAt[d] = NoEntry
    /\ wakeAt' = [wakeAt EXCEPT ![d] = now + RefresheRate]
    /\ isDaemonRunning' = TRUE
    /\ UNCHANGED <<cookieToLogin, cookieToTime, issued, now>>

stopDaemon ==
    /\ isDaemonRunning' = FALSE
    /\ UNCHANGED <<cookieToLogin, cookieToTime, issued, now, wakeAt>>

(***************************************************************************)
(* cleanSome(now - Ttl) erases entries whose time is greater than its      *)
(* argument.  After the first erase the loop reads the erased element and  *)
(* increments its iterator, which is undefined: the build may go on to any *)
(* of the other elements or miss them, and may or may not find the key of  *)
(* an erased element in cookieToLogin.                                     *)
(***************************************************************************)
Selected == {c \in Cookie : isLogged(c) /\ cookieToTime[c] + Ttl > now}

cleanSome ==
    \E E \in SUBSET Selected : \E L \in SUBSET E :
        /\ Selected # {} => E # {}
        /\ cookieToTime' = [c \in Cookie |->
                              IF c \in E THEN NoEntry ELSE cookieToTime[c]]
        /\ cookieToLogin' = [c \in Cookie |->
                              IF c \in L THEN NoEntry ELSE cookieToLogin[c]]

(* One round of daemonFunction: the sleep is over, clean, sleep again.     *)
daemonFunction(d) ==
    /\ wakeAt[d] # NoEntry
    /\ wakeAt[d] <= now
    /\ cleanSome
    /\ wakeAt' = [wakeAt EXCEPT ![d] = now + RefresheRate]
    /\ UNCHANGED <<issued, now, isDaemonRunning>>

(* The undefined behaviour of cleanSome may also end the process; it is    *)
(* started again with empty maps and no daemon.                            *)
CleanSomeCrashes(d) ==
    /\ wakeAt[d] # NoEntry
    /\ wakeAt[d] <= now
    /\ Selected # {}
    /\ cookieToLogin' = [c \in Cookie |-> NoEntry]
    /\ cookieToTime' = [c \in Cookie |-> NoEntry]
    /\ issued' = {}
    /\ wakeAt' = [t \in Thread |-> NoEntry]
    /\ isDaemonRunning' \in BOOLEAN
    /\ UNCHANGED now

Tick ==
    /\ now < MaxTime
    /\ now' = now + 1
    /\ UNCHANGED <<cookieToLogin, cookieToTime, issued, wakeAt, isDaemonRunning>>

Next ==
    \/ \E c \in Cookie, l \in Login : login(c, l)
    \/ \E c \in Cookie : logout(c) \/ refresh(c)
    \/ cleanAll
    \/ \E d \in Thread : startDaemon(d) \/ daemonFunction(d) \/ CleanSomeCrashes(d)
    \/ stopDaemon
    \/ Tick

Spec == Init /\ [][Next]_vars

-----------------------------------------------------------------------------
(***************************************************************************)
(* Every cookie with a time has a login.  logout erases both iterators     *)
(* after looking only at cookieToTime, and getLogin calls at() after       *)
(* looking only at cookieToTime: both are defined only if this holds, and  *)
(* it must survive the undefined loop of cleanSome.                        *)
(***************************************************************************)
TimedHaveLogin ==
    \A c \in Cookie : cookieToTime[c] # NoEntry => cookieToLogin[c] # NoEntry

Table == INSTANCE Sessions WITH sessions <- [c \in Cookie |-> getLogin(c)]

(***************************************************************************)
(* The two maps implement the table of Sessions: entries that cleanSome    *)
(* left in cookieToLogin are not visible, and a closed cookie never works  *)
(* again, whatever the daemon leaves behind.                               *)
(***************************************************************************)
ImplementsSessions == Table!SessionsSpec

=============================================================================
