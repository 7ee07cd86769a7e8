# sp2p: specifications of the tracker and its clients

sp2p is a small peer-to-peer directory. A **tracker** (called Node by the
clients) keeps accounts, networks and the servers that are running in each
network; the client library **sercli** talks to trackers and remembers them on
disk; **node_client** is a console on top of it. The tracker is where threads,
sessions, a database and failures meet; the client has a thread pool, a deadline
timer and calls whose answers get lost, and a file it has to start from again.

Paths below are relative to `src/`.

## The parts of the system

| part | state | operations | meets others through |
|---|---|---|---|
| session controler (`tracker/qmake_project/sessioncontroler.cpp`) | `cookieToLogin`, `cookieToTime`, daemon flag and threads | login, logout, getLogin, refresh, cleanAll, cleanSome, daemon | called by every handler, one mutex |
| database connector (`tracker/qmake_project/db/psqlconnector.cpp`, `database/db_init.sql`) | five tables with unique columns, not-null foreign keys and cascades | one method per statement | one `pqxx::connection` shared by all threads, no lock |
| request handlers (`tracker/qmake_project/requesthandler.cpp`) | none of their own; the stack of the thread | one handler for each of 16 request types | calls of the two parts above |
| connection, parser, server (`connection.cpp`, `requestparser.cpp`, `server.cpp`) | buffer, declared length, thread pool | accept, handshake, read, write | asio callbacks |
| client connection (`sercli/src/nodeconnection.cpp`, `connection.cpp`, `connection_manager.cpp`) | socket, cookie, deadline timer, set of connections | connect, send, close, reset timer | strands, timer callbacks |
| client parser (`sercli/src/parser.cpp`) | bytes kept, declared length | parse, reset | called by the connection |
| client node (`sercli/src/node.cpp`) | cookie, user, node data | one method per request | requests to a tracker |
| manager and networks (`sercli/src/manager.cpp`, `network.cpp`, `data.cpp`) | nodes, networks with weak references to nodes, a file | create, remove, saveState, loadState | owns nodes, writes the file |
| console (`node_client/src`) | stack of contexts | commands | calls the library |

What is hard in the tracker: every handler is a sequence of separate
transactions with nothing held in between, so checks may be stale when the
write comes; sessions outlive the accounts they name; all threads share one
database connection; a commit may be in doubt; the process may end anywhere and
keeps only its tables; and the session daemon runs a loop that is undefined
after its first erase. What is hard in the client: the handler of the deadline
timer runs outside every strand and also when the wait is cancelled; a call
that failed may have been executed, or may yet be; nodes are shared by the
manager's map and the console and known to networks by weak pointers; the file
of saved data is truncated before it is written. What makes the parts correct:

- session controler: a cookie names one login while it is live and never comes
  back; no method ever works on a missing entry;
- connector: no row outlives what it refers to, logins and names are unique;
- handlers: authority and credentials fail closed, a network goes only by its
  owner's wish, every request is answered;
- parsers: however the stream is cut, what is executed or taken for an answer
  is one whole message, and what fits the buffer is answered;
- client connection: a call is executed at most once and answered with its own
  answer; a connection in use always has a deadline ahead of it;
- client node: what it remembers of user, password and session is what the
  tracker remembers, up to the calls it was told had failed;
- manager and console: networks refer to the manager's own nodes, a saved state
  comes back as it was, a program that was left tidy starts again.

## Modules

| module | what it is |
|---|---|
| `Logins` | the user names shared by sessions and tables; `EmptyLogin` is the name `""`, which `getLogin` uses for "not logged in" |
| `Sessions` | abstract table of live cookies |
| `SessionControler` | the C++ class: two maps, the clock, daemon threads |
| `Directory` | abstract directory: accounts, owners of networks, listed servers |
| `PsqlConnector` | the tables and one operator per connector method |
| `Tracker` | the worker threads and the handlers over `PsqlConnector` and `Sessions` |
| `TrackerHistory` | `Tracker` with a history variable: whose check was overtaken, and by whom |
| `Framing` | one connection as a stream of bytes: the tracker's `Connection` and `RequestParser`, the client's reader and `NodeResponseParser` |
| `RemoteCall` | abstract call of a client: executed at most once, answered with its own answer, or failed |
| `NodeConnection` | the client's connection: application thread, strands, deadline timer, thread pool |
| `Node` | the user, password, cookie and flags of Node objects against the tracker's accounts and sessions |
| `Manager` | the console, the manager's maps, shared and weak pointers, the data file and the key files |
| `MCSessionControler`, `MCTracker`, `MCTrackerHistory`, `MCFraming`, `MCNodeConnection`, `MCNode`, `MCManager` | instances for TLC |
| `SessionControler_proofs`, `PsqlConnector_proofs`, `Tracker_proofs`, `TrackerHistory_proofs`, `Framing_proofs`, `NodeConnection_proofs`, `Node_proofs`, `Manager_proofs` | theorems |

**SessionControler.** Each method holds the mutex throughout, so it is one
action. A map is a function on cookies with `NoEntry` where there is no key.
`cleanSome` erases an element and then uses the iterator: from there on the C++
is undefined, so the action erases any non-empty subset of the selected entries
from `cookieToTime` and any subset of those from `cookieToLogin`, and
`CleanSomeCrashes` ends the process instead. `stopDaemon` interrupts an empty
thread object: the daemon goes on. A cookie is fresh within one process (15
characters out of 62); `rand()` is not seeded, so a new process may draw the
same ones again.

**PsqlConnector.** A table is a set of rows; a foreign key holds the unique
login or name of its row. A method that writes is an action with its
`DB_Response` as parameter; a method that reads is the set of values it may
return. With `MayFail` a statement may throw (nothing written, `INTERNAL_ERROR`)
and a commit may be in doubt (written, `INTERNAL_ERROR`). A sub-select that
finds nothing is a null in a not-null column and so an error. `updateServer` is
two transactions and two operators: the first returns before its commit when it
finds the row, so it changes nothing. `toString` is modelled by what it does:
it keeps the first word. Login and network names are taken to be without
blanks; e-mail, protocol name and ttl are columns no executed query filters on.

**Tracker.** `worker[w]` is what the stack of a thread holds: the message, the
number of the handler's next call, the login that `getLogin` returned, the
status and the content of the reply. Each call of a handler to the session
controler or the connector is one step; the calls of two workers interleave.
`Receive` is a message that a connection has parsed, `ReceiveEmpty` one without
the sub-message of its type or with a missing field the handler asks for (and
an unparsable one), `Reply` the write (or a peer that is gone). `Overlap`: if
two workers are inside the connector at once, the second `pqxx::work` throws
`pqxx::usage_error`, which nobody catches; the process ends, the open
transaction is rolled back, and the tracker is started again with its tables
and without its sessions. This is also why one connector call can be one step:
two of them never interleave inside.
`main.cpp` never starts the session daemon, so `Tracker` uses the table of
`Sessions` with login, logout and restart only.

**TrackerHistory.** `canAddServer`, `canSeeNetwork` and the comparison of a
password are a transaction older than what they permit, and the handlers do not
look again. What was checked may be gone by then: a network deleted and founded
again with other rights, a password changed, an account removed and registered
anew. The code then acts on the old answer. `withdrawn` is the set of workers to
whom this happened: what their request relies on held, and was taken away during
the request by the one who may, the owner of the network or the user of the
account. `Entitled(w)` is what the handler of `w`'s request checks, read in the
present state, and `Sanctioned(w)` is `Entitled(w)` or `w` withdrawn. The
variable is set by `Record` beside each step of `Tracker` and read by none.

**Framing.** The bytes of a message are counted, not kept. `send` and
`async_write` deliver the next TLS record, a read takes what is left of a record
and at most one buffer. `parse` is the set of values `RequestParser::parse` may
return: it keeps `len` and forgets the bytes of a chunk it finds too short, so
for the middle of a body protobuf may say anything. `handle_read` is the whole
callback, called with 0 bytes by the handshake. `readMessage` is the client's
callback with its parser, which keeps its bytes. Answers are taken to be well
formed and shorter than 2^31 bytes, declared lengths other than 2^32 - 1, which
the tracker's parser would read as its "no length yet".

**NodeConnection.** `pc` is where the application's thread is inside a call;
`strand[c]` and `tasks` are the lambdas posted to the two kinds of strand;
`fired` counts `closeConnection` handlers that are ready, `closing` those that
are past their check and about to reset the pointer. `CancelWait` is what asio
does on a new expiry time: the old wait completes and its handler runs.
A null pointer, two threads in the set of connections, two `closeConnection`s at
once, or a lambda on an object nobody owns is undefined: `crash` may end the process there, or the step does no
harm. The tracker's side of a connection executes one request and shuts down, or
is lost. `RemoteCall` is what `Node` relies on; `ImplementsRemoteCall` shows it.

**Node.** A method is three steps: it sends, the tracker executes (`Execute`), it
handles the answer. `callFails` is `SEND_ERROR` or `NO_CONNECTION` at any moment;
an unexecuted request then may stay on its way (`late`) and be executed when the
Node has long gone on, perhaps as another user. The tracker's handlers are one step
here because each program uses its own accounts. The ten methods that change
nothing in the Node but `is_logged` share `Ask`. Two history variables say what
a failed call may have done: `tried` (passwords) and `leaving` (a log-out).
`setUser` takes either value of `is_registered`: it is an option of the console's
command, false when it is not given.
`Restart` is used by `node_restart` alone.

**Manager.** `node` and `network` are the objects, by identity; `nodes_map`,
`networks_map`, `current_node` and `current_network` hold them. `Release`, at the end
of every action that drops a pointer, destroys what nobody holds and expires the weak
pointers to it. Commands run one after another; `save` and `saved` are two steps,
because the sink's constructor empties the file and its destructor writes it, and
`kill` may come in between. The loop does not catch what `loadState` and
`disconnect` throw: those cases are `Ends`. `dirty` and `stray` are history: something
changed since the last save or load; a command left an association or a key
file without its node or network.

## Runs

| run | shows |
|---|---|
| `sessions` | 3 cookies, 2 logins, clock 0..4 with ttl 2: sessions are younger, exactly as old and older than the limit at a wake-up, two live and one closed at the same time. `TimedHaveLogin`, `ImplementsSessions` |
| `tracker_single` | one worker, failing statements, 2 users, 2 passwords, one network with either of two mixed rights. `ServersAuthorised`, `ListsOnlyPermitted`, `CredentialsChecked` |
| `tracker_pool` | two workers, two users, one network name that both found with mixed rights, delete, serve and list while accounts come and go, also between a check and what it permits. `RefIntegrity`, `OnlyOwnerDeletes`, `ImplementsDirectory`; a right that is used was there during the request, and only the network's owner ended it: `ServersSanctioned`, `ListsSanctioned` |
| `tracker_passwords` | two workers, two users, two passwords: log in, change the password and remove the account at once. A password that is accepted was the stored one during the request, and only its user ended that. `CredentialsSanctioned` |
| `tracker_live` | two workers under fairness, keys and servers, and a user called `""` who may log in but is never recognised. `RefIntegrity`, `Answered` |
| `tracker_update` | violation: OK for an update that is rolled back |
| `framing` | bodies and answers of 1 to 24 bytes over a buffer of 6 and records of 12, wrong lengths and malformed bodies, the connection lost at any moment. `ExecutedWhole`, `AnswerWhole`, `ShortRequestAnswered` |
| `node_connection` | two calls, two threads of the pool, deadlines at any moment, a tracker that may be silent. `DeadlineArmed`, `ImplementsRemoteCall`, `WaitingEnds` |
| `node_idle` | violation: with no deadline passing, the reset of the timer closes the connection under a call |
| `node` | one program with two accounts, two passwords, two cookies, failing calls and late executions. `IdentityKept`, `PasswordKnown`, `SessionHeld` |
| `node_restart` | violation: two programs; after a restart of the tracker a cookie one of them holds is given to the other |
| `manager` | one node name and one network name with two objects each, two values of saved data. `AssociationsLive`, `SavedOrDirty`, `CleanExitRestarts` |

Bounds. Two workers give every race between the transactions of two requests
(more workers, and failing statements under concurrency, are covered by the
proofs of the properties that are proved); two users give an owner and
somebody else; one network name makes every request collide. Two cookies let
both users be logged in, or one user twice; a `LOGIN` is taken only while a
cookie is left (`CookieLeft`). Fields that a handler does not read have one
value (`MCTracker!Fields`), which merges requests no handler can tell apart.
`tracker_pool` and `tracker_passwords` use the symmetry of the worker threads:
no handler and no property names one. They check safety only.
`MaxTime` bounds the clock of the session controler; deadlock cannot occur at the
bound because sessions can always be cleaned.

`Framing` keeps the code's proportions (a record is two buffers) and scales the
sizes so that messages end on, before and after every boundary; the header has
its four bytes. In `NodeConnection` the second call meets everything a first one
may have left behind: an open or half-closed connection, timer handlers, tasks.
Two threads let a stale `closeConnection` run between two steps of another
handler. `Node` remembers one late request per program. Its run has
one program; with two programs and one password the same invariants hold (6.4
million states). `Manager` has one object
more than names on each side, so that the console can hold a removed or
replaced object beside the manager's new one of the same name; with two node
names and one value of data the same properties hold as well (1.5 million states).
Deadlock is not checked where the system may stop: an exchange that is over
(`framing`), the bound on calls (`node_connection`, `node_idle`), and cookies
used up (`node`, `node_restart`).

Rights and passwords are stated twice. `ServersAuthorised`, `ListsOnlyPermitted`
and `CredentialsChecked` say that the check is still true when it is used; with
one worker this holds whichever statements fail (`tracker_single`), with several
it does not, since the code does not check again. `ServersSanctioned`,
`ListsSanctioned` and `CredentialsSanctioned` say what is left for any number of
workers: nobody gets what he was not entitled to at some moment of his request,
and nobody but the owner of the network or the user of the account can have ended
the entitlement since. In `tracker_pool` and `tracker_passwords` each of the four
stale uses happens: a server listed, a list made, a session opened and a password
replaced on an answer that is no longer true.

Fairness. `FairSpec` is weak fairness of each worker's handler and reply: a
thread of the pool runs what it has begun, handlers neither wait nor retry, and
nothing takes a handler's enabling away except the end of the process. Clients
need not send anything. No fairness is assumed for statements to succeed.
In `NodeConnection` the threads of the `io_service` run what is ready, the
deadline comes, and a thread whose future is ready goes on; nothing is assumed of
the tracker, the network or the application. In `Framing` both sides keep running
and TCP delivers what was written; the connection may be lost at any time.

## Proofs

For any sets of workers, requests, users, names, cookies and passwords, and with
or without failures:

- `SessionControler_proofs`: `TypeCorrect`, `MapsInStep` (`TimedHaveLogin`) and
  `Refinement` (`ImplementsSessions`). The inductive invariant is `TypeOK`,
  `TimedHaveLogin` and "every cookie with a time was issued"; the last part is
  what makes a fresh cookie free in the abstract table.
- `PsqlConnector_proofs`: lemmas about one statement (`DbStep`): it keeps the
  types, it keeps `RefIntegrity` (the null of the sub-select and the cascade are
  the whole argument), and it is one step of `Directory` or none.
- `Tracker_proofs`: `TypeCorrect`, `IntegrityHolds` (`RefIntegrity`),
  `DirectoryImplemented` (`ImplementsDirectory`), `OwnersDecide`
  (`OnlyOwnerDeletes`). The invariant `IInv` has the types, `RefIntegrity`, and
  `LoginKnown`: a worker that is past `getLogin` in a handler holds a login. The
  last part is needed because a handler passes its login to the connector long
  after it read it. Each step of each handler is shown to be one `DbStep`
  (`HandleStep`), and the theorems about the tables follow from the connector's
  lemmas. `OwnersDecide` needs no invariant: the owner is tested in the DELETE
  itself.

- `TrackerHistory_proofs`: `ServeRight` (`ServersSanctioned`), `SeeRight`
  (`ListsSanctioned`) and `PasswordRight` (`CredentialsSanctioned`), for any number
  of workers and with deletions. The invariant is `IInv` with `Checked`: a worker
  that relies on a check (`Relies`: it is past the check and not yet past the call
  the check was made for) is `Sanctioned`. Once true, that stays so until the
  request ends (`SanctionStays`): rights never change while a network is there, a
  password changes only by `changeUserPassword`, and the rows are taken away only
  by statements whose own condition names the owner or the user, so that the step
  which ends an entitlement is the step that records it.
- `Framing_proofs`: `TypeCorrect`, `ExecutedHolds` (`ExecutedWhole`), `AnswerHolds`
  (`AnswerWhole`) for every size of message, with a buffer longer than a header and
  a record no shorter than a buffer. `ExecutedWhole` is not inductive alone:
  `Chunks` adds that data arrives in whole records or to the end of the message, so
  that the first chunk holds the header, and that a chunk the tracker has forgotten
  was longer than the header. What is left of the body is then always shorter than
  the length kept, and the parser waits. `Counted` is the same for the client: it
  has read header and body exactly as far as `sb` and `message_size` say.
- `NodeConnection_proofs`: `TypeCorrect`, `DeadlineHolds` (`DeadlineArmed`) and
  `RemoteCallImplemented` (`ImplementsRemoteCall`) for any number of calls and
  threads. The invariant says where the one outstanding operation of a call is
  (`OneOperation`: in the strand of its connection, or reading), that a request on
  its way was not executed and an answer on its way was executed once
  (`RequestsOnce`), and that a connection which can still be written to carries
  nothing of an earlier call (`OwnAnswers`). The last part is why a late answer is
  never taken for that of the next call.
- `Node_proofs`: `TypeCorrect`, `IdentityHolds` (`IdentityKept`), `PasswordHolds`
  (`PasswordKnown`) and `SessionHolds` (`SessionHeld`) for any number of programs
  with accounts of their own. The properties speak of Nodes that are logged in; the
  invariant has to follow the requests too: whose user, cookie and password a call
  in progress or a late request carries (`Carries`, `InProgress`), and that the
  session an unhandled LOGIN has opened is out of reach of a late LOGOUT. Under
  `Restart` none of this holds, see `node_restart`.
- `Manager_proofs`: `TypeCorrect` (no pointer of the manager or the console
  dangles), `AssociationsHold` (`AssociationsLive`), `SavedHolds` (`SavedOrDirty`) and
  `RestartHolds` (`CleanExitRestarts`) for any names and objects. The invariant adds
  that key files go by names in memory unless something is stray (`KeysFound`),
  that the file matches the memory also before there is a file (`FileMatches`), and
  which states of file, memory and program belong together (`Phases`):
  `CleanExitRestarts` is about a program that has ended, and what it needs has to be
  true before the end.

Every inductive invariant was an invariant of a TLC run before it was proved.

Assumptions: `NoEntry` is no login, time, password or cookie; `BadCsr` is a signing
request; requests are messages and `NoRequest` is none; programs have disjoint,
non-empty sets of users; there is at least one thread of the `io_service`; the buffer
is longer than a header and a record at least as long as the buffer; `Null` and
`Expired` are no objects, names or data (and `Null` is no record, function or set of
names that takes its place in a field), names are finitely many and there are more
objects than names, so that a new one can always be made.

Only model-checked: the liveness properties (`Answered`, `WaitingEnds`,
`ShortRequestAnswered`), because the prover has no rules for fairness, and what the
three runs that expect a violation show; and `ServersAuthorised`,
`ListsOnlyPermitted` and `CredentialsChecked`, which are true of one worker only.
Every other property of a passing run is a theorem.

## Where the code differs from what it says

Three runs show a difference: an update that is answered OK and rolled back
(`tracker_update`), a timer that closes the connection it is meant to keep
(`node_idle`), cookies that come back after a restart (`node_restart`). Others were met while
modelling, are in the model as the code has them, and are listed as findings
without a run: `cleanSome` closes young sessions instead of old ones; STOP_SERVER
is answered BAD_REQUEST after the server was removed; USER_INFO returns the first
word of a key; a request longer than the tracker's buffer is never answered;
`disconnect` always throws; a state saved after the removal of an associated
node cannot be loaded; `isActive` is about the connection, not the login;
`seconds_to_update` is in milliseconds; and four promises of the protocol file
that the handlers read differently.

## Not modelled

- tracker: the uncalled connector methods (`removeUser(int)`, `isUser`,
  `deleteInvitation`, `cleanServers`) and the SQL function `clean`; the
  construction of protobuf replies; start-up of TLS, logging and configuration;
  `sp2psession.cpp` and `tracker/src`, which no build file lists;
- client: `asyncConnect` and `asyncUpdateServer` (templates nothing
  instantiates), `setNewDescription` and the `Server` template (no caller); the
  keys and certificates a Node holds in memory; data files under other names
  (`save` and `load` with a file name); the cipher of the data file and the key
  generation of Botan; the parsing of command lines, the printing commands and
  the switching of contexts in the console;
- generated code: the two copies of `sp2p_protocol.pb.cc` and `.pb.h` are 37,000
  of the 48,000 lines of C++ in the repository. They are protoc's output, without a
  decision of this program, so the part of all lines that the models cover stays
  small although most of the hand-written logic is covered.

## Plan

1. Done: session controler, connector, handlers on a pool; their proofs.
2. Done: framing, client connection, client node, manager and console.
3. Done: proofs of every safety property of the tracker, of the framing and of
   the client.
4. Possible next: a composition of `Node` and `RemoteCall` that replaces the
   assumption about failed calls in `Node` by the proved refinement.
