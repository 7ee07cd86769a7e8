------------------------ MODULE NodeConnection_proofs ------------------------
(***************************************************************************)
(* The connection of a client's Node for any number of calls and threads:  *)
(* type correctness, the deadline that every connection in use has, and    *)
(* the refinement of RemoteCall.                                           *)
(***************************************************************************)
EXTENDS NodeConnection, SequenceTheorems, TLAPS

Lambda == {"send", "handleSendError", "stop", "gracefulStop"}

NoSend(s) == \A i \in 1 .. Len(s) : s[i] # "send"

OneSend(s) == \A i, j \in 1 .. Len(s) : s[i] = "send" /\ s[j] = "send" => i = j

(***************************************************************************)
(* One operation is outstanding for the call that waits, and none          *)
(* otherwise: its send lambda in the strand of the connection it was given *)
(* (con), or the read that follows it.                                     *)
(***************************************************************************)
OneOperation ==
    \A c \in Con :
        /\ reading[c] \/ ~NoSend(strand[c]) => pc = "waiting" /\ promise = Unset /\ c = con
        /\ reading[c] => NoSend(strand[c])
        /\ OneSend(strand[c])

(* The latest call has begun and its request was not yet written.          *)
Unsent == pc \in {"connecting", "ready"} \/ \E c \in Con : ~NoSend(strand[c])

(***************************************************************************)
(* Where the requests and answers are: a request on its way was never      *)
(* executed and is on one connection only, an answer on its way was        *)
(* executed once, and nothing of a call exists before it has sent.         *)
(***************************************************************************)
RequestsOnce ==
    /\ \A c \in Con : up[c] # Null => up[c] <= call /\ executed[up[c]] = 0
    /\ \A c \in Con : down[c] # Null => down[c] <= call /\ executed[down[c]] = 1
    /\ \A c, d \in Con : up[c] = up[d] /\ up[c] # Null => c = d
    /\ \A i \in Con : i > call => executed[i] = 0
    /\ Unsent /\ call \in Con =>
          /\ executed[call] = 0
          /\ \A c \in Con : up[c] # call /\ down[c] # call

(***************************************************************************)
(* A connection that can still be written to has nothing on its way but    *)
(* what belongs to the read in progress, and that is of the latest call.   *)
(***************************************************************************)
OwnAnswers ==
    /\ \A c \in Con : reading[c] => /\ sock[c] # "new"
                                    /\ up[c] \in {Null, call} /\ down[c] \in {Null, call}
    /\ \A c \in Con : up[c] # Null => peer[c]
    /\ \A c \in Con : ~reading[c] /\ sock[c] \in {"new", "open"} => up[c] = Null /\ down[c] = Null
    /\ promise \in 1 .. MaxCalls => promise = call /\ executed[call] = 1
    /\ pc # "waiting" => promise = Unset

IInv ==
    /\ TypeOK
    /\ DeadlineArmed
    /\ pc # "crashed" => OneOperation /\ RequestsOnce /\ OwnAnswers

-----------------------------------------------------------------------------
(* Sequences of lambdas.                                                   *)

(* What is posted at the end of a strand.                                  *)
LEMMA Posted ==
  ASSUME NEW s \in Seq(Lambda), NEW x \in Lambda
  PROVE  /\ Append(s, x) \in Seq(Lambda)
         /\ x # "send" /\ NoSend(s) => NoSend(Append(s, x))
         /\ x # "send" /\ OneSend(s) => OneSend(Append(s, x))
         /\ x # "send" /\ ~NoSend(s) => ~NoSend(Append(s, x))
         /\ x = "send" /\ NoSend(s) => OneSend(Append(s, x)) /\ ~NoSend(Append(s, x))
  BY DEF NoSend, OneSend

(* What is left of a strand whose first lambda has run.                    *)
LEMMA Run ==
  ASSUME NEW s \in Seq(Lambda), s # <<>>
  PROVE  /\ Head(s) \in Lambda
         /\ Tail(s) \in Seq(Lambda)
         /\ NoSend(s) => NoSend(Tail(s))
         /\ OneSend(s) => OneSend(Tail(s))
         /\ Head(s) = "send" => ~NoSend(s)
         /\ Head(s) = "send" /\ OneSend(s) => NoSend(Tail(s))
         /\ Head(s) # "send" /\ ~NoSend(s) => ~NoSend(Tail(s))
  BY DEF NoSend, OneSend

(* A write that has failed goes on in the place of its send.               *)
LEMMA GoesOn ==
  ASSUME NEW s \in Seq(Lambda), s # <<>>, NoSend(Tail(s))
  PROVE  /\ <<"handleSendError">> \o Tail(s) \in Seq(Lambda)
         /\ NoSend(<<"handleSendError">> \o Tail(s))
  BY DEF NoSend, Lambda

(* A strand without a send has at most one.                                *)
LEMMA NoneIsOne == ASSUME NEW s, NoSend(s) PROVE OneSend(s)
  BY DEF NoSend, OneSend

-----------------------------------------------------------------------------
(* Types.                                                                  *)

Task == {"resetDeadlineTimer", "stopDeadlineTimer"}

(* The conjuncts of TypeOK, by who owns the variables.                     *)
AppTypes ==
    /\ pc \in {"idle", "connecting", "ready", "waiting", "crashed"}
    /\ outcome \in {"none", "answered", "failed", "foreign"}
    /\ promise \in {Unset, SendException} \cup (1 .. MaxCalls)

PointerTypes ==
    /\ call \in 0 .. MaxCalls
    /\ made \in 0 .. call
    /\ con \in 0 .. made
    /\ connection \in 0 .. made
    /\ connections \in SUBSET (1 .. made)

ConTypes ==
    /\ active \in [Con -> BOOLEAN]
    /\ sock \in [Con -> {"new", "open", "shut", "closed"}]
    /\ reading \in [Con -> BOOLEAN]

StrandTypes == strand \in [Con -> Seq(Lambda)] /\ tasks \in Seq(Task)

NetTypes ==
    /\ up \in [Con -> 0 .. MaxCalls]
    /\ down \in [Con -> 0 .. MaxCalls]
    /\ peer \in [Con -> BOOLEAN]
    /\ executed \in [Con -> Nat]

TimerTypes ==
    /\ timer \in BOOLEAN
    /\ fired \in Nat
    /\ closing \in 0 .. IoThreads

(* The parts make up TypeOK.                                               *)
LEMMA TypeParts ==
  TypeOK <=> /\ AppTypes /\ PointerTypes /\ ConTypes
             /\ StrandTypes /\ NetTypes /\ TimerTypes
  BY DEF TypeOK, AppTypes, PointerTypes, ConTypes, StrandTypes, NetTypes, TimerTypes,
         Lambda, Task

(* The numbers of connections and calls.                                   *)
LEMMA Numbers ==
  ASSUME PointerTypes
  PROVE  /\ call \in Nat /\ call <= MaxCalls
         /\ made \in Nat /\ made <= call
         /\ connection # Null => connection \in Con
         /\ con # Null => con \in Con
         /\ call # 0 => call \in Con
  BY ConnectionAssumption DEF PointerTypes, Con, Null

(* The strand of the NodeConnection.                                       *)
LEMMA TasksType ==
  ASSUME NEW s \in Seq(Task), NEW x \in Task
  PROVE  /\ Append(s, x) \in Seq(Task)
         /\ s # <<>> => Tail(s) \in Seq(Task) /\ Head(s) \in Task
  OBVIOUS

(* The constructor's state satisfies the invariant.                        *)
LEMMA InitInv == Init => IInv
  <1> SUFFICES ASSUME Init PROVE IInv
    OBVIOUS
  <1> USE ConnectionAssumption DEF Init, Null, Unset, Con
  <1>1. TypeOK
    <2>1. AppTypes
      BY DEF AppTypes
    <2>4. PointerTypes
      BY DEF PointerTypes
    <2>5. TimerTypes
      <3>1. timer \in BOOLEAN
        OBVIOUS
      <3> QED
        BY <3>1 DEF TimerTypes
    <2>2. ConTypes /\ NetTypes
      BY DEF ConTypes, NetTypes
    <2>3. StrandTypes
      BY DEF StrandTypes
    <2> QED
      BY <2>1, <2>2, <2>3, <2>4, <2>5, TypeParts
  <1>2. DeadlineArmed
    BY DEF DeadlineArmed, isActive
  <1>3. \A c \in Con : NoSend(strand[c]) /\ OneSend(strand[c])
    BY DEF NoSend, OneSend
  <1>4. OneOperation /\ RequestsOnce /\ OwnAnswers
    BY <1>3 DEF OneOperation, RequestsOnce, OwnAnswers, Unsent
  <1> QED
    BY <1>1, <1>2, <1>4 DEF IInv

(* Every step of every thread preserves the types.                         *)
LEMMA TypeStep == TypeOK /\ [Next]_vars => TypeOK'
  <1> SUFFICES ASSUME TypeOK, [Next]_vars PROVE TypeOK'
    OBVIOUS
  <1>a. AppTypes /\ PointerTypes /\ ConTypes /\ StrandTypes /\ NetTypes /\ TimerTypes
    BY TypeParts
  <1>b. SUFFICES /\ AppTypes' /\ PointerTypes' /\ ConTypes'
                 /\ StrandTypes' /\ NetTypes' /\ TimerTypes'
    BY TypeParts, PTL
  <1> USE ConnectionAssumption, <1>a, Numbers
      DEF Null, Unset, SendException, appVars, conVars, netVars, timerVars,
          AppTypes, PointerTypes, ConTypes, StrandTypes, NetTypes, TimerTypes
  <1>1. CASE beforeMessage
    <2>1. AppTypes'
      BY <1>1 DEF beforeMessage, Post, isActive, Task, Con
    <2>2. PointerTypes'
      <3>1. /\ call' = call + 1 /\ call < MaxCalls
            /\ \/ made' = made /\ connection' = connection
               \/ made' = made + 1 /\ connection' = made + 1
            /\ UNCHANGED <<con, connections>>
        BY <1>1 DEF beforeMessage
      <3> QED
        BY <3>1
    <2>3. ConTypes'
      BY <1>1 DEF beforeMessage, Post, isActive, Task, Con
    <2>4. StrandTypes'
      BY <1>1, TasksType DEF beforeMessage, Post, isActive, Task, Con
    <2> QED
      BY <1>1, <2>1, <2>2, <2>3, <2>4 DEF beforeMessage
  <1>2. CASE connect
    <2>1. AppTypes'
      BY <1>2 DEF connect, CancelWait, Con
    <2>2. PointerTypes'
      BY <1>2 DEF connect, CancelWait, Con
    <2>3. ConTypes'
      BY <1>2 DEF connect, CancelWait, Con
    <2>4. NetTypes'
      BY <1>2 DEF connect, CancelWait, Con
    <2>5. TimerTypes'
      BY <1>2 DEF connect, CancelWait, Con
    <2> QED
      BY <1>2, <2>1, <2>2, <2>3, <2>4, <2>5 DEF connect
  <1>3. CASE connectFails
    <2>1. AppTypes'
      BY <1>3 DEF connectFails, Return
    <2>2. PointerTypes'
      BY <1>3 DEF connectFails, Return
    <2> QED
      BY <1>3, <2>1, <2>2 DEF connectFails
  <1>4. CASE sendRequest
    <2>1. AppTypes'
      BY <1>4 DEF sendRequest, PostTo, Lambda
    <2>2. PointerTypes'
      BY <1>4 DEF sendRequest, PostTo, Lambda
    <2>3. StrandTypes'
      BY <1>4, Posted DEF sendRequest, PostTo, Lambda
    <2> QED
      BY <1>4, <2>1, <2>2, <2>3 DEF sendRequest
  <1>5. CASE noPrivateKey
    <2>1. AppTypes'
      BY <1>5 DEF noPrivateKey, Return
    <2>2. PointerTypes'
      BY <1>5 DEF noPrivateKey, Return
    <2> QED
      BY <1>5, <2>1, <2>2 DEF noPrivateKey
  <1>6. CASE crash
    <2>1. AppTypes'
      BY <1>6 DEF crash
    <2> QED
      BY <1>6, <2>1 DEF crash
  <1>7. CASE getResponse
    <2>1. AppTypes'
      BY <1>7 DEF getResponse, Return, Post, Task
    <2>2. PointerTypes'
      BY <1>7 DEF getResponse, Return, Post, Task
    <2>3. StrandTypes'
      BY <1>7, TasksType DEF getResponse, Return, Post, Task
    <2> QED
      BY <1>7, <2>1, <2>2, <2>3 DEF getResponse
  <1>8. ASSUME NEW c \in Con, send(c)
        PROVE  AppTypes' /\ PointerTypes' /\ ConTypes' /\ StrandTypes' /\ NetTypes' /\ TimerTypes'
    <2>1. AppTypes'
      BY <1>8 DEF send, Dequeue
    <2>2. ConTypes'
      BY <1>8 DEF send, Dequeue
    <2>3. StrandTypes'
      <3>1. /\ strand[c] \in Seq(Lambda) /\ strand[c] # <<>>
            /\ Tail(strand[c]) \in Seq(Lambda)
            /\ <<"handleSendError">> \o Tail(strand[c]) \in Seq(Lambda)
        BY <1>8, Run DEF send, Lambda
      <3>2. /\ strand' = [strand EXCEPT ![c] = Tail(@)]
               \/ strand' = [strand EXCEPT ![c] = <<"handleSendError">> \o Tail(@)]
            /\ UNCHANGED tasks
        BY <1>8 DEF send, Dequeue
      <3> QED
        BY <3>1, <3>2
    <2>4. NetTypes'
      <3>1. /\ up' = up \/ up' = [up EXCEPT ![c] = call]
            /\ UNCHANGED <<down, peer, executed>>
        BY <1>8 DEF send
      <3> QED
        BY <3>1
    <2> QED
      BY <1>8, <2>1, <2>2, <2>3, <2>4 DEF send
  <1>9. ASSUME NEW c \in Con, handleSendError(c)
        PROVE  AppTypes' /\ PointerTypes' /\ ConTypes' /\ StrandTypes' /\ NetTypes' /\ TimerTypes'
    <2>1. StrandTypes'
      BY <1>9, Run, Posted DEF handleSendError, Lambda
    <2> QED
      BY <1>9, <2>1 DEF handleSendError
  <1>10. ASSUME NEW c \in Con, stop(c)
        PROVE  AppTypes' /\ PointerTypes' /\ ConTypes' /\ StrandTypes' /\ NetTypes' /\ TimerTypes'
    <2>1. ConTypes'
      BY <1>10 DEF stop, Dequeue
    <2>2. StrandTypes'
      BY <1>10, Run DEF stop, Dequeue
    <2> QED
      BY <1>10, <2>1, <2>2 DEF stop
  <1>11. ASSUME NEW c \in Con, readMessage(c)
        PROVE  AppTypes' /\ PointerTypes' /\ ConTypes' /\ StrandTypes' /\ NetTypes' /\ TimerTypes'
    <2>1. AppTypes'
      BY <1>11 DEF readMessage, PostTo, Lambda
    <2>2. ConTypes'
      BY <1>11 DEF readMessage, PostTo, Lambda
    <2>3. StrandTypes'
      <3>1. Append(strand[c], "stop") \in Seq(Lambda)
        BY Posted DEF Lambda
      <3>2. /\ strand' = strand \/ strand' = [strand EXCEPT ![c] = Append(@, "stop")]
            /\ UNCHANGED tasks
        BY <1>11 DEF readMessage, PostTo
      <3> QED
        BY <3>1, <3>2
    <2>4. NetTypes'
      BY <1>11 DEF readMessage, PostTo, Lambda
    <2> QED
      BY <1>11, <2>1, <2>2, <2>3, <2>4 DEF readMessage
  <1>12. CASE closeConnection
    <2>1. PointerTypes'
      BY <1>12 DEF closeConnection, isActive, PostTo, Post, ThreadFree, Lambda, Task
    <2>2. StrandTypes'
      <3>1. \/ UNCHANGED <<strand, tasks>>
            \/ /\ connection \in Con
               /\ strand' = [strand EXCEPT ![connection] = Append(@, "gracefulStop")]
               /\ tasks' = Append(tasks, "stopDeadlineTimer")
        BY <1>12 DEF closeConnection, isActive, PostTo, Post
      <3>2. /\ \A c \in Con : Append(strand[c], "gracefulStop") \in Seq(Lambda)
            /\ Append(tasks, "stopDeadlineTimer") \in Seq(Task)
        BY Posted, TasksType DEF Lambda, Task
      <3> QED
        BY <3>1, <3>2
    <2>3. TimerTypes'
      <3>1. /\ fired > 0 /\ fired' = fired - 1
            /\ closing' = closing \/ (closing < IoThreads /\ closing' = closing + 1)
            /\ timer' = timer
        BY <1>12 DEF closeConnection, ThreadFree
      <3> QED
        BY <3>1
    <2> QED
      BY <1>12, <2>1, <2>2, <2>3 DEF closeConnection
  <1>13. CASE resetConnection
    <2>1. PointerTypes'
      BY <1>13 DEF resetConnection
    <2>2. TimerTypes'
      BY <1>13 DEF resetConnection
    <2> QED
      BY <1>13, <2>1, <2>2 DEF resetConnection
  <1>14. CASE runTask
    <2>1. StrandTypes'
      BY <1>14, TasksType DEF runTask, CancelWait
    <2>2. TimerTypes'
      BY <1>14 DEF runTask, CancelWait
    <2> QED
      BY <1>14, <2>1, <2>2 DEF runTask
  <1>15. CASE expire
    <2>1. TimerTypes'
      <3>1. timer' \in BOOLEAN
        BY <1>15 DEF expire
      <3>2. fired' = fired + 1 /\ closing' = closing
        BY <1>15 DEF expire
      <3> QED
        BY <3>1, <3>2
    <2> QED
      BY <1>15, <2>1 DEF expire
  <1>16. ASSUME NEW c \in Con, trackerAnswers(c)
        PROVE  AppTypes' /\ PointerTypes' /\ ConTypes' /\ StrandTypes' /\ NetTypes' /\ TimerTypes'
    <2>1. NetTypes'
      <3>1. /\ up[c] \in Con
            /\ executed' = [executed EXCEPT ![up[c]] = @ + 1]
            /\ down' = [down EXCEPT ![c] = up[c]]
            /\ up' = [up EXCEPT ![c] = Null]
            /\ peer' = [peer EXCEPT ![c] = FALSE]
        BY <1>16 DEF trackerAnswers, Con
      <3>2. executed' \in [Con -> Nat]
        BY <3>1
      <3> QED
        BY <3>1, <3>2
    <2> QED
      BY <1>16, <2>1 DEF trackerAnswers
  <1>17. ASSUME NEW c \in Con, connectionLost(c)
        PROVE  AppTypes' /\ PointerTypes' /\ ConTypes' /\ StrandTypes' /\ NetTypes' /\ TimerTypes'
    <2>1. NetTypes'
      BY <1>17 DEF connectionLost
    <2> QED
      BY <1>17, <2>1 DEF connectionLost
  <1>18. CASE UNCHANGED vars
    BY <1>18 DEF vars
  <1> QED
    BY <1>1, <1>2, <1>3, <1>4, <1>5, <1>6, <1>7, <1>8, <1>9, <1>10, <1>11, <1>12, <1>13,
       <1>14, <1>15, <1>16, <1>17, <1>18 DEF Next, App, Io, Network

-----------------------------------------------------------------------------
(* The deadline.                                                           *)

(* Every step keeps a deadline ahead of a connection in use.               *)
LEMMA DeadlineStep == TypeOK /\ DeadlineArmed /\ [Next]_vars => DeadlineArmed'
  <1> SUFFICES ASSUME TypeOK, DeadlineArmed, [Next]_vars, (isActive)',
                      pc' \notin {"connecting", "crashed"}
               PROVE  timer' \/ fired' > 0 \/ closing' > 0
    BY DEF DeadlineArmed
  <1>a. AppTypes /\ PointerTypes /\ ConTypes /\ TimerTypes
    BY TypeParts
  <1> USE <1>a, Numbers, ConnectionAssumption
      DEF DeadlineArmed, isActive, TimerTypes, ConTypes, appVars, conVars, netVars, timerVars
  <1>1. CASE beforeMessage
    BY <1>1 DEF beforeMessage
  <1>2. CASE connect
    BY <1>2 DEF connect
  <1>3. CASE connectFails
    BY <1>3 DEF connectFails
  <1>4. CASE sendRequest
    BY <1>4 DEF sendRequest
  <1>5. CASE noPrivateKey
    BY <1>5 DEF noPrivateKey
  <1>6. CASE crash
    BY <1>6 DEF crash
  <1>7. CASE getResponse
    BY <1>7 DEF getResponse
  <1>8. ASSUME NEW c \in Con, send(c) \/ handleSendError(c) \/ readMessage(c)
        PROVE  timer' \/ fired' > 0 \/ closing' > 0
    BY <1>8 DEF send, handleSendError, readMessage
  <1>9. ASSUME NEW c \in Con, stop(c)
        PROVE  timer' \/ fired' > 0 \/ closing' > 0
    BY <1>9 DEF stop
  <1>10. CASE closeConnection
    BY <1>10 DEF closeConnection
  <1>11. CASE resetConnection
    BY <1>11 DEF resetConnection
  <1>12. CASE runTask
    BY <1>12 DEF runTask, CancelWait
  <1>13. CASE expire
    BY <1>13 DEF expire
  <1>14. ASSUME NEW c \in Con, trackerAnswers(c) \/ connectionLost(c)
         PROVE  timer' \/ fired' > 0 \/ closing' > 0
    BY <1>14 DEF trackerAnswers, connectionLost
  <1>15. CASE UNCHANGED vars
    BY <1>15 DEF vars
  <1> QED
    BY <1>1, <1>2, <1>3, <1>4, <1>5, <1>6, <1>7, <1>8, <1>9, <1>10, <1>11, <1>12, <1>13,
       <1>14, <1>15 DEF Next, App, Io, Network

-----------------------------------------------------------------------------
(* The call in progress.                                                   *)

Protocol == OneOperation /\ RequestsOnce /\ OwnAnswers

(* A step that posts no send and runs none.                                *)
SendsKept ==
    \A c \in Con : /\ NoSend(strand'[c]) <=> NoSend(strand[c])
                   /\ OneSend(strand'[c])

(* Such a step, if it leaves the call and its messages alone.              *)
LEMMA Quiet ==
  ASSUME Protocol, SendsKept,
         UNCHANGED <<pc, promise, con, reading, call, up, down, peer, executed, sock>>
  PROVE  Protocol'
  BY DEF Protocol, SendsKept, OneOperation, RequestsOnce, OwnAnswers, Unsent

(* Nothing of a call is left when it is not waiting or has its result.     *)
LEMMA NothingLeft ==
  ASSUME OneOperation, pc # "waiting" \/ promise # Unset
  PROVE  \A c \in Con : ~reading[c] /\ NoSend(strand[c]) /\ OneSend(strand[c])
  BY NoneIsOne DEF OneOperation

(* Posting anything but a send keeps the sends.                            *)
LEMMA PostKeeps ==
  ASSUME TypeOK, OneOperation, NEW c \in Con, NEW x \in Lambda \ {"send"},
         strand' = [strand EXCEPT ![c] = Append(@, x)]
  PROVE  SendsKept
  <1>1. strand \in [Con -> Seq(Lambda)]
    BY TypeParts DEF StrandTypes
  <1>2. /\ NoSend(Append(strand[c], x)) <=> NoSend(strand[c])
        /\ OneSend(Append(strand[c], x))
    BY <1>1, Posted DEF OneOperation
  <1> QED
    BY <1>1, <1>2 DEF SendsKept, OneOperation

(* Every step of a living process keeps its call in order.                 *)
LEMMA ProtocolStep ==
  ASSUME TypeOK, Protocol, Next, pc' # "crashed"
  PROVE  Protocol'
  <1>a. AppTypes /\ PointerTypes /\ ConTypes /\ StrandTypes /\ NetTypes
    BY TypeParts
  <1>b. strand \in [Con -> Seq(Lambda)]
    BY <1>a DEF StrandTypes
  <1>c. UNCHANGED strand => SendsKept
    BY DEF SendsKept, Protocol, OneOperation
  <1> USE ConnectionAssumption, Numbers, <1>a
      DEF Null, Unset, SendException, appVars, conVars, netVars, timerVars
  <1>1. CASE beforeMessage
    <2>1. \A c \in Con : ~reading[c] /\ NoSend(strand[c]) /\ OneSend(strand[c])
      BY <1>1, NothingLeft DEF beforeMessage, Protocol
    <2>2. /\ pc = "idle" /\ pc' \in {"ready", "connecting"} /\ call' = call + 1
          /\ call' \in Con
          /\ UNCHANGED <<promise, con, reading, strand, up, down, peer, executed, sock>>
      BY <1>1 DEF beforeMessage, Con
    <2>3. OneOperation'
      BY <2>1, <2>2 DEF OneOperation
    <2>4. RequestsOnce'
      <3>1. \A c \in Con : up[c] \in Nat /\ down[c] \in Nat
        BY DEF NetTypes
      <3>2. \A c \in Con : /\ up[c] # Null => up[c] <= call
                           /\ down[c] # Null => down[c] <= call
        BY DEF Protocol, RequestsOnce
      <3>3. executed[call'] = 0
        BY <2>2 DEF Protocol, RequestsOnce
      <3>4. \A c \in Con : /\ up[c] # call' /\ down[c] # call'
                           /\ up[c] # Null => up[c] <= call'
                           /\ down[c] # Null => down[c] <= call'
        BY <2>2, <3>1, <3>2
      <3>5. \A i \in Con : i > call' => i > call
        BY <2>2 DEF Con
      <3> QED
        BY <2>2, <3>3, <3>4, <3>5 DEF Protocol, RequestsOnce
    <2>5. OwnAnswers'
      BY <2>1, <2>2 DEF Protocol, OwnAnswers
    <2> QED
      BY <2>3, <2>4, <2>5 DEF Protocol
  <1>2. CASE connect
    <2>1. \A c \in Con : ~reading[c] /\ NoSend(strand[c]) /\ OneSend(strand[c])
      BY <1>2, NothingLeft DEF connect, Protocol
    <2>2. /\ pc = "connecting" /\ pc' = "ready" /\ connection \in Con
          /\ sock' = [sock EXCEPT ![connection] = IF @ = "new" THEN "open" ELSE @]
          /\ peer' = [peer EXCEPT ![connection] = TRUE]
          /\ UNCHANGED <<promise, con, reading, strand, up, down, executed, call>>
      BY <1>2 DEF connect
    <2>3. OneOperation'
      BY <2>1, <2>2 DEF OneOperation
    <2>4. RequestsOnce'
      BY <2>1, <2>2 DEF Protocol, RequestsOnce, Unsent
    <2>5. OwnAnswers'
      BY <2>1, <2>2 DEF Protocol, OwnAnswers, ConTypes, NetTypes
    <2> QED
      BY <2>3, <2>4, <2>5 DEF Protocol
  <1>3. CASE connectFails \/ noPrivateKey \/ getResponse
    <2>1. \A c \in Con : ~reading[c] /\ NoSend(strand[c]) /\ OneSend(strand[c])
      BY <1>3, NothingLeft DEF connectFails, noPrivateKey, getResponse, Protocol
    <2>2. /\ pc' = "idle" /\ promise' = Unset /\ con' = Null
          /\ UNCHANGED <<reading, strand, up, down, peer, executed, call, sock>>
      BY <1>3 DEF connectFails, noPrivateKey, getResponse, Return
    <2>3. OneOperation'
      BY <2>1, <2>2 DEF OneOperation
    <2>4. RequestsOnce'
      BY <2>1, <2>2 DEF Protocol, RequestsOnce, Unsent
    <2>5. OwnAnswers'
      BY <2>1, <2>2 DEF Protocol, OwnAnswers
    <2> QED
      BY <2>3, <2>4, <2>5 DEF Protocol
  <1>4. CASE sendRequest
    <2>1. \A c \in Con : ~reading[c] /\ NoSend(strand[c]) /\ OneSend(strand[c])
      BY <1>4, NothingLeft DEF sendRequest, Protocol
    <2>2. /\ pc = "ready" /\ pc' = "waiting" /\ connection \in Con /\ con' = connection
          /\ strand' = [strand EXCEPT ![connection] = Append(@, "send")]
          /\ UNCHANGED <<promise, reading, up, down, peer, executed, call, sock>>
      BY <1>4 DEF sendRequest, PostTo
    <2>3. OneSend(strand'[connection])
      BY <2>1, <2>2, <1>b, Posted DEF Lambda
    <2>4. \A c \in Con \ {connection} : strand'[c] = strand[c]
      BY <2>2, <1>b
    <2>5. promise = Unset
      BY <2>2 DEF Protocol, OwnAnswers
    <2>6. OneOperation'
      BY <2>1, <2>2, <2>3, <2>4, <2>5 DEF OneOperation
    <2>7. RequestsOnce'
      BY <2>2 DEF Protocol, RequestsOnce, Unsent
    <2>8. OwnAnswers'
      BY <2>1, <2>2, <2>5 DEF Protocol, OwnAnswers
    <2> QED
      BY <2>6, <2>7, <2>8 DEF Protocol
  <1>5. ASSUME NEW c \in Con, send(c) PROVE Protocol'
    <2>1. strand[c] \in Seq(Lambda) /\ strand[c] # <<>> /\ Head(strand[c]) = "send"
      BY <1>5, <1>b DEF send
    <2>2. ~NoSend(strand[c]) /\ OneSend(strand[c]) /\ NoSend(Tail(strand[c]))
      BY <2>1, Run DEF Protocol, OneOperation
    <2>3. pc = "waiting" /\ promise = Unset /\ c = con /\ ~reading[c]
      BY <2>2 DEF Protocol, OneOperation
    <2>4. \A d \in Con \ {c} : ~reading[d] /\ NoSend(strand[d]) /\ OneSend(strand[d])
      BY <2>3 DEF Protocol, OneOperation
    <2>5. call \in Con
      BY <2>3 DEF Con, PointerTypes
    <2>6. /\ executed[call] = 0
          /\ \A d \in Con : up[d] # call /\ down[d] # call
      BY <2>2, <2>5 DEF Protocol, RequestsOnce, Unsent
    <2>7. /\ NoSend(strand'[c]) /\ OneSend(strand'[c])
          /\ \A d \in Con \ {c} : strand'[d] = strand[d]
      <3>1. \/ strand' = [strand EXCEPT ![c] = Tail(@)]
            \/ strand' = [strand EXCEPT ![c] = <<"handleSendError">> \o Tail(@)]
        BY <1>5 DEF send, Dequeue
      <3> QED
        BY <3>1, <2>1, <2>2, <1>b, GoesOn, NoneIsOne
    <2>8. UNCHANGED <<pc, call, con, sock, down, peer, executed>>
      BY <1>5 DEF send
    <2>9. CASE /\ sock[c] = "open"
               /\ up' = [up EXCEPT ![c] = IF peer[c] THEN call ELSE @]
               /\ reading' = [reading EXCEPT ![c] = TRUE]
               /\ UNCHANGED promise
      <3>1. up[c] = Null /\ down[c] = Null
        BY <2>3, <2>9 DEF Protocol, OwnAnswers
      <3>2. OneOperation'
        BY <2>3, <2>4, <2>7, <2>8, <2>9 DEF OneOperation, ConTypes
      <3>3. RequestsOnce'
        BY <2>4, <2>5, <2>6, <2>7, <2>8, <2>9, <2>3, <3>1
        DEF Protocol, RequestsOnce, Unsent, NetTypes
      <3>4. OwnAnswers'
        BY <2>3, <2>4, <2>8, <2>9, <3>1 DEF Protocol, OwnAnswers, ConTypes, NetTypes
      <3> QED
        BY <3>2, <3>3, <3>4 DEF Protocol
    <2>10. CASE promise' = SendException /\ UNCHANGED <<up, reading>>
      <3>2. OneOperation'
        BY <2>3, <2>4, <2>7, <2>8, <2>10 DEF OneOperation
      <3>3. RequestsOnce'
        BY <2>3, <2>4, <2>7, <2>8, <2>10 DEF Protocol, RequestsOnce, Unsent
      <3>4. OwnAnswers'
        BY <2>3, <2>8, <2>10 DEF Protocol, OwnAnswers
      <3> QED
        BY <3>2, <3>3, <3>4 DEF Protocol
    <2> QED
      BY <1>5, <2>9, <2>10 DEF send
  <1>6. ASSUME NEW c \in Con, handleSendError(c) PROVE Protocol'
    <2>1. strand[c] \in Seq(Lambda) /\ strand[c] # <<>> /\ Head(strand[c]) # "send"
      BY <1>6, <1>b DEF handleSendError
    <2>2. /\ Tail(strand[c]) \in Seq(Lambda)
          /\ NoSend(Tail(strand[c])) <=> NoSend(strand[c])
          /\ OneSend(Tail(strand[c]))
      BY <2>1, Run DEF Protocol, OneOperation
    <2>3. /\ NoSend(Append(Tail(strand[c]), "stop")) <=> NoSend(strand[c])
          /\ OneSend(Append(Tail(strand[c]), "stop"))
      BY <2>2, Posted DEF Lambda
    <2>4. strand' = [strand EXCEPT ![c] = Append(Tail(@), "stop")]
      BY <1>6 DEF handleSendError
    <2>5. SendsKept
      BY <2>3, <2>4, <1>b DEF SendsKept, Protocol, OneOperation
    <2> QED
      BY <1>6, <2>5, Quiet DEF handleSendError
  <1>7. ASSUME NEW c \in Con, stop(c) PROVE Protocol'
    <2>1. strand[c] \in Seq(Lambda) /\ strand[c] # <<>> /\ Head(strand[c]) # "send"
      BY <1>7, <1>b DEF stop
    <2>2. /\ NoSend(Tail(strand[c])) <=> NoSend(strand[c])
          /\ OneSend(Tail(strand[c]))
      BY <2>1, Run DEF Protocol, OneOperation
    <2>3. strand' = [strand EXCEPT ![c] = Tail(@)]
      BY <1>7 DEF stop, Dequeue
    <2>4. SendsKept
      BY <2>2, <2>3, <1>b DEF SendsKept, Protocol, OneOperation
    <2>5. UNCHANGED <<pc, promise, con, reading, call, up, down, peer, executed>>
      BY <1>7 DEF stop
    <2>6. \A d \in Con : /\ sock'[d] \in {"new", "open"} => sock'[d] = sock[d]
                         /\ sock'[d] = "new" => sock[d] = "new"
      <3>1. \/ sock' = sock
            \/ \E s \in {sock[c], "closed", "shut"} : sock' = [sock EXCEPT ![c] = s]
        BY <1>7 DEF stop
      <3> QED
        BY <3>1 DEF ConTypes
    <2>7. OneOperation' /\ RequestsOnce'
      BY <2>4, <2>5 DEF Protocol, SendsKept, OneOperation, RequestsOnce, Unsent
    <2>8. OwnAnswers'
      BY <2>5, <2>6 DEF Protocol, OwnAnswers
    <2> QED
      BY <2>7, <2>8 DEF Protocol
  <1>8. ASSUME NEW c \in Con, readMessage(c) PROVE Protocol'
    <2>1. reading[c] /\ reading' = [reading EXCEPT ![c] = FALSE]
      BY <1>8 DEF readMessage
    <2>2. pc = "waiting" /\ promise = Unset /\ c = con /\ NoSend(strand[c])
      BY <2>1 DEF Protocol, OneOperation
    <2>3. \A d \in Con \ {c} : ~reading[d] /\ NoSend(strand[d]) /\ OneSend(strand[d])
      BY <2>2 DEF Protocol, OneOperation
    <2>4. UNCHANGED <<pc, call, con, sock, up, peer, executed>>
      BY <1>8 DEF readMessage
    <2>5. call \in Con
      BY <2>2 DEF Con, PointerTypes
    <2>6. /\ sock[c] # "new" /\ up[c] \in {Null, call} /\ down[c] \in {Null, call}
          /\ up[c] # Null => peer[c]
      BY <2>1 DEF Protocol, OwnAnswers
    <2>7. \A d \in Con : NoSend(strand'[d]) /\ OneSend(strand'[d])
      <3>1. SendsKept
        <4>1. UNCHANGED strand \/ strand' = [strand EXCEPT ![c] = Append(@, "stop")]
          BY <1>8 DEF readMessage, PostTo
        <4> QED
          BY <4>1, <1>c, PostKeeps DEF Protocol, Lambda
      <3> QED
        BY <3>1, <2>2, <2>3 DEF SendsKept
    <2>8. \A d \in Con : ~reading'[d]
      BY <2>1, <2>3 DEF ConTypes
    <2>9. OneOperation'
      BY <2>7, <2>8 DEF OneOperation
    <2>10. CASE /\ down[c] # Null /\ promise' = down[c]
                /\ down' = [down EXCEPT ![c] = Null]
      <3>1. down[c] = call /\ executed[call] = 1 /\ promise' = call
        BY <2>6, <2>10 DEF Protocol, RequestsOnce
      <3>2. up[c] = Null
        BY <2>6, <3>1, <2>5 DEF Protocol, RequestsOnce
      <3>3. RequestsOnce'
        BY <2>2, <2>4, <2>7, <2>10 DEF Protocol, RequestsOnce, Unsent, NetTypes
      <3>4. OwnAnswers'
        BY <2>2, <2>4, <2>8, <2>10, <2>3, <3>1, <3>2 DEF Protocol, OwnAnswers, NetTypes
      <3> QED
        BY <2>9, <3>3, <3>4 DEF Protocol
    <2>11. CASE /\ sock[c] # "open" \/ (~peer[c] /\ down[c] = Null)
                /\ promise' = SendException
                /\ UNCHANGED down
      <3>3. RequestsOnce'
        BY <2>2, <2>4, <2>7, <2>11 DEF Protocol, RequestsOnce, Unsent
      <3>4. OwnAnswers'
        BY <2>2, <2>4, <2>6, <2>8, <2>11, <2>3 DEF Protocol, OwnAnswers
      <3> QED
        BY <2>9, <3>3, <3>4 DEF Protocol
    <2> QED
      BY <1>8, <2>10, <2>11 DEF readMessage
  <1>9. CASE closeConnection
    <2>1. \/ UNCHANGED strand
          \/ /\ connection \in Con
             /\ strand' = [strand EXCEPT ![connection] = Append(@, "gracefulStop")]
      BY <1>9 DEF closeConnection, isActive, PostTo
    <2>2. SendsKept
      BY <2>1, <1>c, PostKeeps DEF Protocol, Lambda
    <2> QED
      BY <1>9, <2>2, Quiet DEF closeConnection
  <1>10. CASE resetConnection \/ runTask \/ expire
    BY <1>10, <1>c, Quiet DEF resetConnection, runTask, expire
  <1>11. CASE crash
    BY <1>11 DEF crash
  <1>12. ASSUME NEW c \in Con, trackerAnswers(c) PROVE Protocol'
    <2>1. /\ peer[c] /\ up[c] # Null /\ up[c] \in Con
          /\ executed' = [executed EXCEPT ![up[c]] = @ + 1]
          /\ down' = [down EXCEPT ![c] = up[c]]
          /\ up' = [up EXCEPT ![c] = Null]
          /\ peer' = [peer EXCEPT ![c] = FALSE]
          /\ UNCHANGED <<pc, promise, con, reading, call, strand, sock>>
      BY <1>12 DEF trackerAnswers, NetTypes, Con
    <2>2. executed[up[c]] = 0 /\ up[c] <= call
      BY <2>1 DEF Protocol, RequestsOnce
    <2>3. /\ executed'[up[c]] = 1
          /\ \A i \in Con : i # up[c] => executed'[i] = executed[i]
      BY <2>1, <2>2 DEF NetTypes
    <2>4. \A d \in Con : d # c => up[d] # up[c] /\ up'[d] = up[d] /\ down'[d] = down[d]
      BY <2>1 DEF Protocol, RequestsOnce, NetTypes
    <2>5. up'[c] = Null /\ down'[c] = up[c]
      BY <2>1 DEF NetTypes
    <2>6. \A d \in Con : down[d] # Null => down[d] # up[c]
      BY <2>1, <2>2 DEF Protocol, RequestsOnce
    <2>7. Unsent /\ call \in Con => up[c] # call
      BY DEF Protocol, RequestsOnce
    <2>8. Unsent' <=> Unsent
      BY <2>1 DEF Unsent
    <2>9. OneOperation'
      BY <2>1 DEF Protocol, OneOperation
    <2>10. RequestsOnce'
      <3>1. /\ \A d \in Con : up'[d] # Null => up'[d] <= call' /\ executed'[up'[d]] = 0
            /\ \A d \in Con : down'[d] # Null => down'[d] <= call' /\ executed'[down'[d]] = 1
            /\ \A d, e \in Con : up'[d] = up'[e] /\ up'[d] # Null => d = e
        <4>1. \A d \in Con : /\ up[d] # Null => up[d] \in Con
                             /\ down[d] # Null => down[d] \in Con
          BY DEF NetTypes, Con
        <4> QED
          BY <4>1, <2>1, <2>2, <2>3, <2>4, <2>5, <2>6 DEF Protocol, RequestsOnce
      <3>2. \A i \in Con : i > call' => executed'[i] = 0
        BY <2>1, <2>2, <2>3 DEF Protocol, RequestsOnce, NetTypes, Con
      <3>3. Unsent' /\ call' \in Con =>
              /\ executed'[call'] = 0
              /\ \A d \in Con : up'[d] # call' /\ down'[d] # call'
        BY <2>1, <2>3, <2>4, <2>5, <2>7, <2>8 DEF Protocol, RequestsOnce, Con
      <3> QED
        BY <3>1, <3>2, <3>3 DEF RequestsOnce
    <2>11. OwnAnswers'
      <3>1. /\ reading[c] => up[c] = call
            /\ ~reading[c] => sock[c] \notin {"new", "open"}
            /\ promise \in 1 .. MaxCalls => up[c] # promise
        BY <2>1, <2>2 DEF Protocol, OwnAnswers
      <3> QED
        BY <2>1, <2>2, <2>3, <2>4, <2>5, <3>1 DEF Protocol, OwnAnswers, NetTypes
    <2> QED
      BY <2>9, <2>10, <2>11 DEF Protocol
  <1>13. ASSUME NEW c \in Con, connectionLost(c) PROVE Protocol'
    <2>1. /\ up' = [up EXCEPT ![c] = Null]
          /\ down' = [down EXCEPT ![c] = Null]
          /\ peer' = [peer EXCEPT ![c] = FALSE]
          /\ UNCHANGED <<pc, promise, con, reading, call, strand, sock, executed>>
      BY <1>13 DEF connectionLost
    <2>2. OneOperation'
      BY <2>1 DEF Protocol, OneOperation
    <2>3. RequestsOnce'
      <3>1. \A d \in Con : up'[d] \in {Null, up[d]} /\ down'[d] \in {Null, down[d]}
        BY <2>1 DEF NetTypes
      <3>2. Unsent' <=> Unsent
        BY <2>1 DEF Unsent
      <3> QED
        BY <2>1, <3>1, <3>2 DEF Protocol, RequestsOnce, Con
    <2>4. OwnAnswers'
      BY <2>1 DEF Protocol, OwnAnswers, NetTypes
    <2> QED
      BY <2>2, <2>3, <2>4 DEF Protocol
  <1> QED
    BY <1>1, <1>2, <1>3, <1>4, <1>5, <1>6, <1>7, <1>8, <1>9, <1>10, <1>11, <1>12, <1>13
    DEF Next, App, Io, Network

(* A step that changes nothing keeps the call in order.                    *)
LEMMA ProtocolStutter == Protocol /\ UNCHANGED vars => Protocol'
  BY DEF Protocol, OneOperation, RequestsOnce, OwnAnswers, Unsent, vars, appVars, conVars,
         netVars

(* IInv is inductive.                                                      *)
LEMMA StepInv == IInv /\ [Next]_vars => IInv'
  <1> SUFFICES ASSUME IInv, [Next]_vars PROVE IInv'
    OBVIOUS
  <1>1. TypeOK' /\ DeadlineArmed'
    BY TypeStep, DeadlineStep DEF IInv
  <1>2. ASSUME pc' # "crashed" PROVE Protocol'
    <2>1. CASE Next
      BY <2>1, <1>2, ProtocolStep DEF IInv, Next, Protocol
    <2>2. CASE UNCHANGED vars
      BY <2>2, <1>2, ProtocolStutter DEF IInv, Protocol, vars, appVars
    <2> QED
      BY <2>1, <2>2
  <1> QED
    BY <1>1, <1>2 DEF IInv, Protocol

(* Every reachable state satisfies the invariant.                          *)
LEMMA AlwaysIInv == Spec => []IInv
  BY InitInv, StepInv, PTL DEF Spec

(***************************************************************************)
(* Type correctness: among others, the pointers of the Node and of the     *)
(* call refer to connections that were made, and no more handlers of       *)
(* closeConnection run than there are threads.                             *)
(***************************************************************************)
THEOREM TypeCorrect == Spec => []TypeOK
  <1>1. IInv => TypeOK
    BY DEF IInv
  <1> QED
    BY <1>1, AlwaysIInv, PTL

(***************************************************************************)
(* Whatever resets, cancellations and closeConnection handlers overtake    *)
(* each other, on any number of threads: a connection the Node holds for   *)
(* active has a wait outstanding on its deadline timer, or a handler that  *)
(* is going to close it.                                                   *)
(***************************************************************************)
THEOREM DeadlineHolds == Spec => []DeadlineArmed
  <1>1. IInv => DeadlineArmed
    BY DEF IInv
  <1> QED
    BY <1>1, AlwaysIInv, PTL

-----------------------------------------------------------------------------
(* The refinement of RemoteCall.                                           *)

(* Before the first call nothing was begun or executed.                    *)
LEMMA CallStart == Init => AbstractCall!CallInit
  BY DEF Init, AbstractCall!CallInit, Con

(* Every step is a step of the remote call, or of none of its variables.   *)
LEMMA CallStep ==
  IInv /\ [Next]_vars => [AbstractCall!CallNext]_(AbstractCall!callVars)
  <1> SUFFICES ASSUME IInv, [Next]_vars
               PROVE  AbstractCall!CallNext \/ UNCHANGED AbstractCall!callVars
    OBVIOUS
  <1>a. AppTypes /\ PointerTypes /\ NetTypes
    BY TypeParts DEF IInv
  <1> USE DEF appVars, conVars, netVars, timerVars, AbstractCall!callVars
  <1>1. CASE beforeMessage
    <2>1. pc = "idle" /\ call < MaxCalls /\ call' = call + 1
          /\ pc' \in {"ready", "connecting"} /\ UNCHANGED <<executed, outcome>>
      BY <1>1 DEF beforeMessage
    <2>2. AbstractCall!BeginCall
      BY <2>1 DEF AbstractCall!BeginCall
    <2> QED
      BY <2>2 DEF AbstractCall!CallNext
  <1>2. CASE connect \/ sendRequest
    BY <1>2 DEF connect, sendRequest
  <1>3. CASE connectFails \/ noPrivateKey
    <2>1. AbstractCall!FailCall
      BY <1>3 DEF connectFails, noPrivateKey, Return, AbstractCall!FailCall
    <2> QED
      BY <2>1 DEF AbstractCall!CallNext
  <1>4. CASE crash /\ pc # "crashed"
    <2>1. pc' = "crashed" /\ outcome' = (IF pc = "idle" THEN outcome ELSE "failed")
          /\ UNCHANGED <<call, executed>>
      BY <1>4 DEF crash
    <2>2. CASE pc = "idle"
      BY <2>1, <2>2
    <2>3. CASE pc # "idle"
      <3>1. AbstractCall!FailCall
        BY <1>4, <2>1, <2>3 DEF AbstractCall!FailCall
      <3> QED
        BY <3>1 DEF AbstractCall!CallNext
    <2> QED
      BY <2>2, <2>3
  <1>5. CASE getResponse
    <2>1. pc = "waiting" /\ pc' = "idle" /\ UNCHANGED <<call, executed>>
      BY <1>5 DEF getResponse, Return
    <2>2. CASE promise = SendException
      <3>1. outcome' = "failed"
        BY <1>5, <2>2 DEF getResponse, Return, SendException
      <3>2. AbstractCall!FailCall
        BY <2>1, <3>1 DEF AbstractCall!FailCall
      <3> QED
        BY <3>2 DEF AbstractCall!CallNext
    <2>3. CASE promise \in 1 .. MaxCalls
      <3>1. promise = call /\ executed[call] = 1
        BY <2>1, <2>3 DEF IInv, OwnAnswers
      <3>2. outcome' = "answered"
        BY <1>5, <2>3, <3>1, ConnectionAssumption DEF getResponse, Return, SendException
      <3>3. AbstractCall!AnswerCall
        BY <2>1, <3>1, <3>2 DEF AbstractCall!AnswerCall
      <3> QED
        BY <3>3 DEF AbstractCall!CallNext
    <2> QED
      BY <1>5, <2>2, <2>3 DEF getResponse
  <1>6. ASSUME NEW c \in Con,
               send(c) \/ handleSendError(c) \/ stop(c) \/ readMessage(c) \/ connectionLost(c)
        PROVE  UNCHANGED AbstractCall!callVars
    BY <1>6 DEF send, handleSendError, stop, readMessage, connectionLost
  <1>7. CASE closeConnection \/ resetConnection \/ runTask \/ expire
    BY <1>7 DEF closeConnection, resetConnection, runTask, expire
  <1>8. ASSUME NEW c \in Con, trackerAnswers(c), pc # "crashed"
        PROVE  AbstractCall!CallNext
    <2>1. up[c] # Null /\ executed' = [executed EXCEPT ![up[c]] = @ + 1]
          /\ UNCHANGED <<pc, call, outcome>>
      BY <1>8 DEF trackerAnswers
    <2>2. up[c] <= call /\ executed[up[c]] = 0 /\ up[c] \in 1 .. call
      BY <1>8, <2>1, <1>a, ConnectionAssumption
      DEF IInv, RequestsOnce, NetTypes, PointerTypes, Null
    <2>3. AbstractCall!ExecuteCall(up[c])
      BY <2>1, <2>2 DEF AbstractCall!ExecuteCall
    <2> QED
      BY <2>2, <2>3 DEF AbstractCall!CallNext
  <1>9. CASE UNCHANGED vars
    BY <1>9 DEF vars
  <1> QED
    BY <1>1, <1>2, <1>3, <1>4, <1>5, <1>6, <1>7, <1>8, <1>9 DEF Next, App, Io, Network

(***************************************************************************)
(* A call of a Node implements the remote call, for any number of calls    *)
(* and io_service threads: whatever the deadline timer, a stale            *)
(* closeConnection, the tracker and the network do to the connection under *)
(* it, its request is executed at most once and an answer it returns is    *)
(* the answer to this request, not to an earlier one.                      *)
(***************************************************************************)
THEOREM RemoteCallImplemented == Spec => ImplementsRemoteCall
  <1>1. IInv /\ [Next]_vars => [AbstractCall!CallNext]_(AbstractCall!callVars)
    BY CallStep
  <1> QED
    BY <1>1, CallStart, AlwaysIInv, PTL DEF Spec, ImplementsRemoteCall, AbstractCall!CallSpec

=============================================================================
