----------------------------- MODULE RemoteCall -----------------------------
(***************************************************************************)
(* What a call of the client's Node class promises: its request is         *)
(* executed at most once, and an answer that the call returns is the       *)
(* answer to that very request.  A call that reports an error promises     *)
(* nothing: its request may have been executed, may be executed later, or  *)
(* never.  NodeConnection shows that the connection, its strands and its   *)
(* deadline timer implement this; Node builds the client's account on it.  *)
(***************************************************************************)
EXTENDS Naturals

CONSTANT MaxCalls       \* bound: the calls an application makes

VARIABLES
    begun,      \* the number of calls begun, which is the latest one's name
    busy,       \* the latest call has not returned
    executed,   \* executed[i]: how often the tracker has executed call i
    outcome     \* what the latest call to return has reported

callVars == <<begun, busy, executed, outcome>>

CallInit ==
    /\ begun = 0
    /\ busy = FALSE
    /\ executed = [i \in 1 .. MaxCalls |-> 0]
    /\ outcome = "none"

BeginCall ==
    /\ ~busy
    /\ begun < MaxCalls
    /\ begun' = begun + 1
    /\ busy' = TRUE
    /\ UNCHANGED <<executed, outcome>>

ExecuteCall(i) ==
    /\ executed[i] = 0
    /\ executed' = [executed EXCEPT ![i] = 1]
    /\ UNCHANGED <<begun, busy, outcome>>

AnswerCall ==
    /\ busy
    /\ executed[begun] = 1
    /\ busy' = FALSE
    /\ outcome' = "answered"
    /\ UNCHANGED <<begun, executed>>

FailCall ==
    /\ busy
    /\ busy' = FALSE
    /\ outcome' = "failed"
    /\ UNCHANGED <<begun, executed>>

CallNext ==
    \/ BeginCall
    \/ \E i \in 1 .. begun : ExecuteCall(i)
    \/ AnswerCall
    \/ FailCall

CallSpec == CallInit /\ [][CallNext]_callVars

=============================================================================
