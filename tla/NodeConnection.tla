--------------------------- MODULE NodeConnection ---------------------------
(***************************************************************************)
(* One Node of the client library as its connection sees it.  The          *)
(* application's thread makes one call at a time and blocks on a future;   *)
(* the threads of the io_service run what was posted to the strand of the  *)
(* NodeConnection (tasks), to the strand of each Connection, the           *)
(* completions of reads, and the handler of the deadline timer.  That      *)
(* handler, closeConnection, is bound without the error code and to no     *)
(* strand: it runs when the 20 seconds are over and also whenever the wait *)
(* is cancelled, next to everything else.                                  *)
(*                                                                         *)
(* The tracker is its side of each connection: it reads one request,       *)
(* executes it, answers and shuts the connection down, or is lost.         *)
(*                                                                         *)
(* NodeConnection::disconnect is no action: its first statement asks the   *)
(* member socket, which nothing ever opens, for its remote endpoint, and   *)
(* throws (logging::init lets every severity through, so the argument of   *)
(* the log line is evaluated).                                             *)
(***************************************************************************)
EXTENDS Integers, Sequences

CONSTANTS
    MaxCalls,    \* bound: the calls the application makes
    IoThreads    \* threads that run the io_service

ASSUME ConnectionAssumption == MaxCalls \in Nat /\ IoThreads \in Nat \ {0}

Con == 1 .. MaxCalls    \* a call makes at most one connection

Null == 0

Unset == 0              \* a promise without a value; a call is its value

SendException == -1

VARIABLES
    pc,          \* where the application's thread is
    call,        \* the name of the latest call
    outcome,     \* what the latest call to return has reported
    con,         \* the local copy of the pointer in the Node method
    connection,  \* NodeConnection::connection
    made,        \* the number of Connection objects made
    active,      \* is_active of each Connection
    sock,        \* its socket
    strand,      \* the lambdas posted to its strand
    reading,     \* an async_read_some is outstanding on it
    up,          \* the call whose request is on its way to the tracker
    down,        \* the call whose answer is on its way to the client
    peer,        \* the tracker still has its side open
    promise,     \* the promise of the call that is waiting
    connections, \* ConnectionManager::connections
    timer,       \* an async_wait is outstanding on the deadline timer
    fired,       \* closeConnection handlers that are ready to run
    closing,     \* closeConnection handlers about to reset the pointer
    tasks,       \* the lambdas posted to the strand of the NodeConnection
    executed     \* how often the tracker has executed each call

appVars == <<pc, call, outcome, con, promise>>
conVars == <<made, active, sock, strand, reading>>
netVars == <<up, down, peer, executed>>
timerVars == <<timer, fired, closing, tasks>>
vars == <<appVars, connection, connections, conVars, netVars, timerVars>>

TypeOK ==
    /\ pc \in {"idle", "connecting", "ready", "waiting", "crashed"}
    /\ call \in 0 .. MaxCalls
    /\ made \in 0 .. call
    /\ outcome \in {"none", "answered", "failed", "foreign"}
    /\ con \in 0 .. made
    /\ connection \in 0 .. made
    /\ connections \in SUBSET (1 .. made)
    /\ promise \in {Unset, SendException} \cup (1 .. MaxCalls)
    /\ active \in [Con -> BOOLEAN]
    /\ sock \in [Con -> {"new", "open", "shut", "closed"}]
    /\ strand \in [Con -> Seq({"send", "handleSendError", "stop", "gracefulStop"})]
    /\ reading \in [Con -> BOOLEAN]
    /\ up \in [Con -> 0 .. MaxCalls]
    /\ down \in [Con -> 0 .. MaxCalls]
    /\ peer \in [Con -> BOOLEAN]
    /\ timer \in BOOLEAN
    /\ fired \in Nat
    /\ closing \in 0 .. IoThreads
    /\ tasks \in Seq({"resetDeadlineTimer", "stopDeadlineTimer"})
    /\ executed \in [Con -> Nat]

Init ==
    /\ pc = "idle" /\ call = 0 /\ outcome = "none" /\ con = Null
    /\ connection = Null /\ made = 0 /\ connections = {}
    /\ promise = Unset
    /\ active = [c \in Con |-> FALSE]
    /\ sock = [c \in Con |-> "new"]
    /\ strand = [c \in Con |-> <<>>]
    /\ reading = [c \in Con |-> FALSE]
    /\ up = [c \in Con |-> Null]
    /\ down = [c \in Con |-> Null]
    /\ peer = [c \in Con |-> FALSE]
    /\ timer = FALSE /\ fired = 0 /\ closing = 0 /\ tasks = <<>>
    /\ executed = [i \in Con |-> 0]

isActive == connection # Null /\ active[connection]

(* Mutant: the handler looks at the error code of a cancelled wait.        *)
CancelWaitSilently == UNCHANGED fired

(***************************************************************************)
(* deadline_timer: a new expiry time, or cancel(), completes the wait that *)
(* is outstanding, and its handler takes no notice of the reason.          *)
(***************************************************************************)
CancelWait == fired' = IF timer THEN fired + 1 ELSE fired

Post(task) == tasks' = Append(tasks, task)

PostTo(c, lambda) == strand' = [strand EXCEPT ![c] = Append(@, lambda)]

(* A thread of the pool is free to run a handler.                          *)
ThreadFree == closing < IoThreads

-----------------------------------------------------------------------------
(* The application's thread.                                               *)

(***************************************************************************)
(* The beginning of every call: beforeMessage, or its copy in logIn and    *)
(* registerUser.  A Connection is active from its constructor on.          *)
(***************************************************************************)
beforeMessage ==
    /\ pc = "idle" /\ call < MaxCalls
    /\ call' = call + 1
    /\ \/ /\ isActive
          /\ Post("resetDeadlineTimer")
          /\ pc' = "ready"
          /\ UNCHANGED <<connection, conVars>>
       \/ /\ ~isActive
          /\ made' = made + 1
          /\ connection' = made + 1
          /\ active' = [active EXCEPT ![made + 1] = TRUE]
          /\ pc' = "connecting"
          /\ UNCHANGED <<sock, strand, reading, tasks>>
    /\ UNCHANGED <<outcome, con, promise, connections, netVars, timer, fired, closing>>

(* Mutant: the manager is given whatever the pointer holds.                *)
ConnectUnseen ==
    /\ pc = "connecting"
    /\ connections' = connections \cup {connection}
    /\ CancelWait
    /\ timer' = TRUE
    /\ pc' = "ready"
    /\ UNCHANGED <<call, outcome, con, promise, connection, made, active, sock, strand,
                   reading, netVars, closing, tasks>>

(***************************************************************************)
(* NodeConnection::connect after the TCP and TLS handshakes, unless a      *)
(* stale closeConnection has reset the pointer meanwhile.                  *)
(***************************************************************************)
connect ==
    /\ pc = "connecting" /\ connection # Null
    /\ connections' = connections \cup {connection}
    /\ sock' = [sock EXCEPT ![connection] = IF @ = "new" THEN "open" ELSE @]
    /\ peer' = [peer EXCEPT ![connection] = TRUE]
    /\ CancelWait
    /\ timer' = TRUE
    /\ pc' = "ready"
    /\ UNCHANGED <<call, outcome, con, promise, connection, made, active, strand,
                   reading, up, down, executed, closing, tasks>>

Return(result) ==
    /\ pc' = "idle"
    /\ outcome' = result
    /\ con' = Null
    /\ promise' = Unset
    /\ UNCHANGED call

(* The tracker cannot be reached: connect throws NO_CONNECTION.            *)
connectFails ==
    /\ pc = "connecting"
    /\ connection' = Null
    /\ Return("failed")
    /\ UNCHANGED <<connections, conVars, netVars, timerVars>>

(* getConnection() and sendRequest on the copy of the pointer.             *)
sendRequest ==
    /\ pc = "ready" /\ connection # Null
    /\ con' = connection
    /\ PostTo(connection, "send")
    /\ pc' = "waiting"
    /\ UNCHANGED <<call, outcome, promise, connection, connections, made, active, sock,
                   reading, netVars, timerVars>>

(* registerUser and signKey without a private key return after connecting. *)
noPrivateKey ==
    /\ pc = "ready"
    /\ Return("failed")
    /\ UNCHANGED <<connection, connections, conVars, netVars, timerVars>>

(***************************************************************************)
(* What keeps a Connection object alive; the lambdas of stop and           *)
(* gracefulStop hold a bare this and do not.                               *)
(***************************************************************************)
Owned(c) ==
    \/ c \in connections \cup {connection, con}
    \/ reading[c]
    \/ strand[c] # <<>> /\ Head(strand[c]) = "handleSendError"

(***************************************************************************)
(* Two closeConnections at once: one thread erases from the set while the  *)
(* other does, or resets the pointer the other has just looked at.         *)
(***************************************************************************)
ClosesMeet ==
    /\ isActive
    /\ fired > 0 /\ fired + closing > 1
    /\ ThreadFree /\ IoThreads > 1

(***************************************************************************)
(* A null pointer is called, the set of connections is changed by two      *)
(* threads at once, or a lambda runs on an object that is gone: undefined, *)
(* and taken to end the process if it does any harm.                       *)
(***************************************************************************)
crash ==
    /\ \/ pc \in {"connecting", "ready"} /\ connection = Null
       \/ pc = "connecting" /\ closing > 0
       \/ ClosesMeet
       \/ \E c \in Con : strand[c] # <<>> /\ ~Owned(c)
    /\ pc' = "crashed"
    /\ outcome' = IF pc = "idle" THEN outcome ELSE "failed"
    /\ UNCHANGED <<call, con, promise, connection, connections, conVars, netVars, timerVars>>

(* Mutant: the exception of the future is swallowed.                       *)
GetResponseAny ==
    /\ pc = "waiting" /\ promise # Unset
    /\ Return("answered")
    /\ Post("resetDeadlineTimer")
    /\ UNCHANGED <<connection, connections, conVars, netVars, timer, fired, closing>>

(* The future is ready: an answer resets the deadline, SendException not.  *)
getResponse ==
    /\ pc = "waiting"
    /\ \/ /\ promise = SendException
          /\ Return("failed")
          /\ UNCHANGED tasks
       \/ /\ promise \in 1 .. MaxCalls
          /\ Return(IF promise = call THEN "answered" ELSE "foreign")
          /\ Post("resetDeadlineTimer")
    /\ UNCHANGED <<connection, connections, conVars, netVars, timer, fired, closing>>

-----------------------------------------------------------------------------
(* The threads of the io_service.                                          *)

Dequeue(c) == strand' = [strand EXCEPT ![c] = Tail(@)]

(***************************************************************************)
(* Connection::send: the write succeeds as long as this side is open, also *)
(* when the tracker has shut its own down, and is followed by readMessage; *)
(* otherwise sendHandler sets the exception, and the same handler goes on  *)
(* to handleSendError.                                                     *)
(***************************************************************************)
send(c) ==
    /\ ThreadFree
    /\ strand[c] # <<>> /\ Head(strand[c]) = "send"
    /\ \/ /\ sock[c] = "open"
          /\ up' = [up EXCEPT ![c] = IF peer[c] THEN call ELSE @]
          /\ reading' = [reading EXCEPT ![c] = TRUE]
          /\ Dequeue(c)
          /\ UNCHANGED promise
       \/ /\ sock[c] # "open" \/ ~peer[c]
          /\ promise' = SendException
          /\ strand' = [strand EXCEPT ![c] = <<"handleSendError">> \o Tail(@)]
          /\ UNCHANGED <<up, reading>>
    /\ UNCHANGED <<pc, call, outcome, con, connection, connections, made, active, sock,
                   down, peer, executed, timerVars>>

handleSendError(c) ==
    /\ ThreadFree
    /\ strand[c] # <<>> /\ Head(strand[c]) = "handleSendError"
    /\ strand' = [strand EXCEPT ![c] = Append(Tail(@), "stop")]
    /\ UNCHANGED <<appVars, connection, connections, made, active, sock, reading, netVars,
                   timerVars>>

(***************************************************************************)
(* The lambda that Connection::stop or gracefulStop posted does nothing if *)
(* the socket is not open.  A connection that is being made has opened its *)
(* socket or not yet; if it has, the shutdown fails and is_active goes.    *)
(***************************************************************************)
stop(c) ==
    /\ ThreadFree
    /\ strand[c] # <<>> /\ Head(strand[c]) \in {"stop", "gracefulStop"}
    /\ \/ /\ sock[c] # "closed"
          /\ sock' = [sock EXCEPT ![c] = IF Head(strand[c]) = "stop" THEN "closed"
                                         ELSE IF @ = "open" THEN "shut" ELSE @]
          /\ active' = [active EXCEPT ![c] = FALSE]
       \/ /\ sock[c] \in {"new", "closed"}
          /\ UNCHANGED <<sock, active>>
    /\ Dequeue(c)
    /\ UNCHANGED <<appVars, connection, connections, made, reading, netVars, timerVars>>

(***************************************************************************)
(* The read of readMessage completes: with the answer, or with an error    *)
(* when this side was stopped or the tracker's is gone; handleReadError    *)
(* stops the connection before the promise is set.  What arrived before a  *)
(* shutdown may still be read or not.                                      *)
(***************************************************************************)
readMessage(c) ==
    /\ ThreadFree
    /\ reading[c]
    /\ reading' = [reading EXCEPT ![c] = FALSE]
    /\ \/ /\ down[c] # Null /\ sock[c] # "closed"
          /\ promise' = down[c]
          /\ down' = [down EXCEPT ![c] = Null]
          /\ UNCHANGED strand
       \/ /\ sock[c] # "open" \/ (~peer[c] /\ down[c] = Null)
          /\ promise' = SendException
          /\ PostTo(c, "stop")
          /\ UNCHANGED down
    /\ UNCHANGED <<pc, call, outcome, con, connection, connections, made, active, sock,
                   up, peer, executed, timerVars>>

(* 20 seconds are over.                                                    *)
expire ==
    /\ timer
    /\ timer' = FALSE
    /\ fired' = fired + 1
    /\ UNCHANGED <<appVars, connection, connections, conVars, netVars, closing, tasks>>

(* Mutant: a connection in use is given another 20 seconds.                *)
CloseIdleConnection ==
    /\ ThreadFree
    /\ fired > 0
    /\ fired' = fired - 1
    /\ IF isActive /\ pc = "idle"
       THEN /\ PostTo(connection, "gracefulStop")
            /\ connections' = connections \ {connection}
            /\ Post("stopDeadlineTimer")
            /\ closing' = closing + 1
            /\ UNCHANGED timer
       ELSE /\ timer' = TRUE
            /\ UNCHANGED <<strand, connections, tasks, closing>>
    /\ UNCHANGED <<appVars, connection, made, active, sock, reading, netVars>>

(* closeConnection up to its last statement ...                            *)
closeConnection ==
    /\ ThreadFree
    /\ fired > 0
    /\ fired' = fired - 1
    /\ IF isActive
       THEN /\ PostTo(connection, "gracefulStop")
            /\ connections' = connections \ {connection}
            /\ Post("stopDeadlineTimer")
            /\ closing' = closing + 1
       ELSE UNCHANGED <<strand, connections, tasks, closing>>
    /\ UNCHANGED <<appVars, connection, made, active, sock, reading, netVars, timer>>

(* ... and connection.reset(), whatever the pointer points to by now.      *)
resetConnection ==
    /\ closing > 0
    /\ closing' = closing - 1
    /\ connection' = Null
    /\ UNCHANGED <<appVars, connections, conVars, netVars, timer, fired, tasks>>

(* The lambdas of resetDeadlineTimer and stopDeadlineTimer.                *)
runTask ==
    /\ ThreadFree
    /\ tasks # <<>>
    /\ CancelWait
    /\ timer' = (Head(tasks) = "resetDeadlineTimer")
    /\ tasks' = Tail(tasks)
    /\ UNCHANGED <<appVars, connection, connections, conVars, netVars, closing>>

-----------------------------------------------------------------------------
(* The other side.                                                         *)

(* The tracker reads the request, executes it, answers and shuts down.     *)
trackerAnswers(c) ==
    /\ peer[c] /\ up[c] # Null
    /\ executed' = [executed EXCEPT ![up[c]] = @ + 1]
    /\ down' = [down EXCEPT ![c] = up[c]]
    /\ up' = [up EXCEPT ![c] = Null]
    /\ peer' = [peer EXCEPT ![c] = FALSE]
    /\ UNCHANGED <<appVars, connection, connections, conVars, timerVars>>

(* The connection breaks, or the tracker drops it; its answer may be lost. *)
connectionLost(c) ==
    /\ peer[c] \/ down[c] # Null
    /\ peer' = [peer EXCEPT ![c] = FALSE]
    /\ up' = [up EXCEPT ![c] = Null]
    /\ down' = [down EXCEPT ![c] = Null]
    /\ UNCHANGED <<appVars, connection, connections, conVars, executed, timerVars>>

App == beforeMessage \/ connect \/ connectFails \/ sendRequest \/ noPrivateKey \/ crash
       \/ getResponse

Io ==
    \/ \E c \in Con : send(c) \/ handleSendError(c) \/ stop(c) \/ readMessage(c)
    \/ closeConnection \/ resetConnection \/ runTask

Network == \E c \in Con : trackerAnswers(c) \/ connectionLost(c)

Next == pc # "crashed" /\ (App \/ Io \/ expire \/ Network)

Spec == Init /\ [][Next]_vars

(***************************************************************************)
(* The threads of the io_service keep running, the deadline comes and a    *)
(* thread whose future is ready goes on.  Nothing is assumed of the        *)
(* tracker, the network and what the application does next.                *)
(***************************************************************************)
FairSpec ==
    /\ Spec
    /\ WF_vars(getResponse)
    /\ WF_vars(pc # "crashed" /\ expire)
    /\ WF_vars(pc # "crashed" /\ closeConnection)
    /\ WF_vars(pc # "crashed" /\ resetConnection)
    /\ WF_vars(pc # "crashed" /\ runTask)
    /\ \A c \in Con : WF_vars(pc # "crashed" /\ (send(c) \/ handleSendError(c) \/ stop(c)))
    /\ \A c \in Con : WF_vars(pc # "crashed" /\ readMessage(c))

(* The behaviours in which no deadline passes.                             *)
PromptNext == pc # "crashed" /\ (App \/ Io \/ Network)

PromptSpec == Init /\ [][PromptNext]_vars

-----------------------------------------------------------------------------

(***************************************************************************)
(* A connection the Node holds for active is never left without a          *)
(* deadline: a wait is outstanding, or a closeConnection is on its way,    *)
(* whatever resets and cancellations have overtaken each other on the      *)
(* timer.  This is all that ever ends a call the tracker does not answer.  *)
(***************************************************************************)
DeadlineArmed ==
    isActive /\ pc \notin {"connecting", "crashed"} => timer \/ fired > 0 \/ closing > 0

(***************************************************************************)
(* A call whose connection is the one the Node holds ends, or the Node     *)
(* lets go of that connection, although the tracker may never answer       *)
(* (future.get() in the Node methods has no limit of its own).             *)
(***************************************************************************)
WaitingEnds ==
    (pc = "waiting" /\ connection = con) ~> (pc # "waiting" \/ connection # con)

(***************************************************************************)
(* A call of a Node is a remote call: executed at most once, and answered  *)
(* with its own answer, whatever closes the connection under it.           *)
(***************************************************************************)
AbstractCall == INSTANCE RemoteCall WITH
    begun <- call,
    busy <- pc \notin {"idle", "crashed"}

ImplementsRemoteCall == AbstractCall!CallSpec

(***************************************************************************)
(* "Resets timer whose purpose is to destroy idle connections": as long as *)
(* no deadline passes, closeConnection closes no connection under a call.  *)
(***************************************************************************)
ClosesOnlyIdle ==
    [][closing' > closing => pc = "idle"]_vars

=============================================================================
