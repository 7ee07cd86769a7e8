----------------------- MODULE SessionControler_proofs -----------------------
(***************************************************************************)
(* The session controler keeps its two maps consistent and implements the  *)
(* table of Sessions, for every set of cookies, logins and daemon threads, *)
(* every ttl and refresh rate and every length of the run.                 *)
(***************************************************************************)
EXTENDS SessionControler, TLAPS

(***************************************************************************)
(* What the implementation needs besides its types: an entry of either map *)
(* has been issued, and a cookie with a time has a login.                  *)
(***************************************************************************)
IInv ==
    /\ TypeOK
    /\ TimedHaveLogin
    /\ \A c \in Cookie : cookieToTime[c] # NoEntry => c \in issued

(* The constructor's state satisfies the invariant.                        *)
LEMMA InitInv == Init => IInv
  BY DEF Init, IInv, TypeOK, TimedHaveLogin

(***************************************************************************)
(* Every method and every daemon round, with whatever the undefined loop   *)
(* of cleanSome does, preserves the invariant.                             *)
(***************************************************************************)
LEMMA StepInv == IInv /\ [Next]_vars => IInv'
  <1> SUFFICES ASSUME IInv, [Next]_vars PROVE IInv'
    OBVIOUS
  <1> USE ControlerAssumption DEF IInv, TypeOK, TimedHaveLogin
  <1>1. ASSUME NEW c \in Cookie, NEW l \in Login, login(c, l) PROVE IInv'
    BY <1>1 DEF login
  <1>2. ASSUME NEW c \in Cookie, logout(c) PROVE IInv'
    BY <1>2 DEF logout
  <1>3. ASSUME NEW c \in Cookie, refresh(c) PROVE IInv'
    BY <1>3 DEF refresh, isLogged
  <1>4. CASE cleanAll
    BY <1>4 DEF cleanAll
  <1>5. ASSUME NEW d \in Thread, startDaemon(d) PROVE IInv'
    BY <1>5 DEF startDaemon
  <1>6. ASSUME NEW d \in Thread, daemonFunction(d) PROVE IInv'
    <2>1. PICK E \in SUBSET Selected, L \in SUBSET Selected :
             /\ L \subseteq E
             /\ cookieToTime' = [c \in Cookie |->
                                  IF c \in E THEN NoEntry ELSE cookieToTime[c]]
             /\ cookieToLogin' = [c \in Cookie |->
                                  IF c \in L THEN NoEntry ELSE cookieToLogin[c]]
      BY <1>6 DEF daemonFunction, cleanSome
    <2>2. /\ wakeAt' \in [Thread -> Nat \cup {NoEntry}]
          /\ UNCHANGED <<issued, now, isDaemonRunning>>
      BY <1>6 DEF daemonFunction
    <2> QED
      BY <2>1, <2>2
  <1>7. ASSUME NEW d \in Thread, CleanSomeCrashes(d) PROVE IInv'
    BY <1>7 DEF CleanSomeCrashes
  <1>8. CASE stopDaemon
    BY <1>8 DEF stopDaemon
  <1>9. CASE Tick
    BY <1>9 DEF Tick
  <1>10. CASE UNCHANGED vars
    BY <1>10 DEF vars
  <1> QED
    BY <1>1, <1>2, <1>3, <1>4, <1>5, <1>6, <1>7, <1>8, <1>9, <1>10 DEF Next

(* The invariant holds in every reachable state of the controler.          *)
LEMMA AlwaysIInv == Spec => []IInv
  BY InitInv, StepInv, PTL DEF Spec

(* The variables of the controler keep their types.                        *)
THEOREM TypeCorrect == Spec => []TypeOK
  <1>1. IInv => TypeOK
    BY DEF IInv
  <1> QED
    BY <1>1, AlwaysIInv, PTL

(***************************************************************************)
(* No method can reach cookieToLogin.at() or erase(end()) for a cookie     *)
(* that has a time: the maps never get out of step in the harmful          *)
(* direction, even though cleanSome may leave logins behind.               *)
(***************************************************************************)
THEOREM MapsInStep == Spec => []TimedHaveLogin
  <1>1. IInv => TimedHaveLogin
    BY DEF IInv
  <1> QED
    BY <1>1, AlwaysIInv, PTL

-----------------------------------------------------------------------------
(* The empty maps are the empty table.                                     *)
LEMMA RefinesInit == Init => Table!SessionsInit
  BY DEF Init, Table!SessionsInit, getLogin, isLogged

(* Closing the cookies in C, seen through getLogin.                        *)
LEMMA Closing ==
  ASSUME IInv,
         NEW C \in SUBSET Cookie,
         \A c \in C : cookieToTime'[c] = NoEntry,
         \A c \in Cookie \ C : /\ cookieToTime'[c] = cookieToTime[c]
                               /\ cookieToLogin'[c] = cookieToLogin[c],
         UNCHANGED issued
  PROVE  Table!SessionsNext
  <1>1. Table!CloseSessions(C)
    BY DEF Table!CloseSessions, getLogin, isLogged
  <1> QED
    BY <1>1 DEF Table!SessionsNext

(***************************************************************************)
(* Every step of the two maps is a step of the table or leaves it alone.   *)
(***************************************************************************)
LEMMA RefinesStep == IInv /\ [Next]_vars => [Table!SessionsNext]_(Table!sessionsVars)
  <1> SUFFICES ASSUME IInv, [Next]_vars
               PROVE  Table!SessionsNext \/ UNCHANGED Table!sessionsVars
    OBVIOUS
  <1> USE ControlerAssumption DEF IInv, TypeOK, TimedHaveLogin
  <1>1. ASSUME NEW c \in Cookie, NEW l \in Login, login(c, l)
        PROVE  Table!SessionsNext
    <2>1. Table!OpenSession(c, l)
      BY <1>1 DEF login, Table!OpenSession, getLogin, isLogged
    <2> QED
      BY <2>1 DEF Table!SessionsNext
  <1>2. ASSUME NEW c \in Cookie, logout(c) PROVE Table!SessionsNext
    <2> DEFINE C == {c}
    <2>1. /\ C \in SUBSET Cookie
          /\ \A e \in C : cookieToTime'[e] = NoEntry
          /\ \A e \in Cookie \ C : /\ cookieToTime'[e] = cookieToTime[e]
                                   /\ cookieToLogin'[e] = cookieToLogin[e]
          /\ UNCHANGED issued
      BY <1>2 DEF logout
    <2> HIDE DEF C
    <2> QED
      BY <2>1, Closing
  <1>3. ASSUME NEW c \in Cookie, refresh(c) PROVE UNCHANGED Table!sessionsVars
    BY <1>3 DEF refresh, Table!sessionsVars, getLogin, isLogged
  <1>4. ASSUME cleanAll PROVE Table!SessionsNext
    <2>1. /\ \A e \in Cookie : cookieToTime'[e] = NoEntry
          /\ UNCHANGED issued
      BY <1>4 DEF cleanAll
    <2> QED
      BY <2>1, Closing
  <1>5. ASSUME NEW d \in Thread, startDaemon(d)
        PROVE  UNCHANGED Table!sessionsVars
    BY <1>5 DEF startDaemon, Table!sessionsVars, getLogin, isLogged
  <1>6. ASSUME NEW d \in Thread, daemonFunction(d) PROVE Table!SessionsNext
    <2>1. PICK E \in SUBSET Selected, L \in SUBSET Selected :
             /\ L \subseteq E
             /\ cookieToTime' = [c \in Cookie |->
                                  IF c \in E THEN NoEntry ELSE cookieToTime[c]]
             /\ cookieToLogin' = [c \in Cookie |->
                                  IF c \in L THEN NoEntry ELSE cookieToLogin[c]]
      BY <1>6 DEF daemonFunction, cleanSome
    <2>2. E \in SUBSET Cookie /\ UNCHANGED issued
      BY <1>6 DEF daemonFunction, Selected
    <2>3. /\ \A e \in E : cookieToTime'[e] = NoEntry
          /\ \A e \in Cookie \ E : /\ cookieToTime'[e] = cookieToTime[e]
                                   /\ cookieToLogin'[e] = cookieToLogin[e]
      BY <2>1, <2>2
    <2> QED
      BY <2>2, <2>3, Closing
  <1>7. ASSUME NEW d \in Thread, CleanSomeCrashes(d) PROVE Table!SessionsNext
    <2>1. Table!ResetSessions
      BY <1>7 DEF CleanSomeCrashes, Table!ResetSessions, getLogin, isLogged
    <2> QED
      BY <2>1 DEF Table!SessionsNext
  <1>8. ASSUME stopDaemon PROVE UNCHANGED Table!sessionsVars
    BY <1>8 DEF stopDaemon, Table!sessionsVars, getLogin, isLogged
  <1>9. ASSUME Tick PROVE UNCHANGED Table!sessionsVars
    BY <1>9 DEF Tick, Table!sessionsVars, getLogin, isLogged
  <1>10. ASSUME UNCHANGED vars PROVE UNCHANGED Table!sessionsVars
    BY <1>10 DEF vars, Table!sessionsVars, getLogin, isLogged
  <1> QED
    BY <1>1, <1>2, <1>3, <1>4, <1>5, <1>6, <1>7, <1>8, <1>9, <1>10 DEF Next

(***************************************************************************)
(* The controler implements the table the request handlers rely on: a      *)
(* closed session is never reachable again through a leftover entry.       *)
(***************************************************************************)
THEOREM Refinement == Spec => ImplementsSessions
  BY AlwaysIInv, RefinesInit, RefinesStep, PTL
     DEF Spec, ImplementsSessions, Table!SessionsSpec

=============================================================================
