--------------------------- MODULE PsqlConnector ---------------------------
(***************************************************************************)
(* tracker/qmake_project/db/psqlconnector.cpp over the tables of           *)
(* database/db_init.sql.  A table is a set of rows; a foreign key holds    *)
(* the (unique) login or name of the row it refers to instead of its       *)
(* serial id, since every statement looks the id up by login or name.      *)
(*                                                                         *)
(* A method that writes is an action over the tables with its DB_Response  *)
(* r as a parameter; a method that reads is the set of values it may       *)
(* return.  Each is one transaction on the one pqxx::connection the        *)
(* process has.  Columns that no query filters on (e-mail, protocol name,  *)
(* ttl) are left out.                                                      *)
(***************************************************************************)
EXTENDS Naturals, Sequences, Logins

CONSTANTS
    Password, Name,
    Address,        \* the ip and port under which a server is listed
    Csr, BadCsr,    \* signing requests; BadCsr is one Botan cannot decode
    MayFail         \* whether a statement may throw pqxx::failure

ASSUME ConnectorAssumption ==
    /\ BadCsr \in Csr
    /\ MayFail \in BOOLEAN

VARIABLES users, networks, servers, invitations, publicKey

dbVars == <<users, networks, servers, invitations, publicKey>>

DB_Response == {"OK", "NOT_FOUND", "NOT_UNIQUE", "NOT_PERMITED", "INTERNAL_ERROR"}

Rights == [public : BOOLEAN, visible : BOOLEAN, participable : BOOLEAN]

(* A string as the words it is made of: a PEM text has several.            *)
Words == {<<>>} \cup {<<"BEGIN", k>> : k \in Csr}

(* The rows of each table have the columns of db_init.sql.                 *)
DbTypeOK ==
    /\ users \subseteq [login : Login, password : [bcrypt : Password]]
    /\ networks \subseteq [name : Name, owner : Login, rights : Rights]
    /\ servers \subseteq [user : Login, network : Name, addr : Address]
    /\ invitations \subseteq [user : Login, network : Name]
    /\ publicKey \subseteq [user : Login, network : Name, key : Words]

DbInit ==
    /\ users = {} /\ networks = {} /\ servers = {}
    /\ invitations = {} /\ publicKey = {}

-----------------------------------------------------------------------------
isUserRow(l) == \E u \in users : u.login = l

isNetworkRow(n) == \E m \in networks : m.name = n

(* unique(user_id, network_id), as in servers, invitations and publicKey.  *)
hasRow(table, l, n) == \E s \in table : s.user = l /\ s.network = n

(***************************************************************************)
(* A statement that throws leaves the tables as they were, unless it is    *)
(* the commit that throws (pqxx::in_doubt_error is a pqxx::failure): the   *)
(* caller is told INTERNAL_ERROR and the rows are written all the same.    *)
(***************************************************************************)
Failed == IF MayFail THEN {"INTERNAL_ERROR"} ELSE {}

Committed == {"OK"} \cup Failed

Rejected(r) == r \in Failed /\ UNCHANGED dbVars

createUser(l, hash, r) ==
    \/ /\ isUserRow(l) /\ r = "NOT_UNIQUE"
       /\ UNCHANGED dbVars
    \/ /\ ~isUserRow(l) /\ r \in Committed
       /\ users' = users \cup {[login |-> l, password |-> hash]}
       /\ UNCHANGED <<networks, servers, invitations, publicKey>>
    \/ Rejected(r)

(* Deleting a user cascades to the rows that refer to it and, through its  *)
(* networks, to the rows that refer to those.                              *)
OwnedBy(l) == {m.name : m \in {k \in networks : k.owner = l}}

WithoutCascade(table, l) == table

Without(table, l) ==
    {s \in table : s.user # l /\ s.network \notin OwnedBy(l)}

removeUser(l, r) ==
    \/ /\ r \in Committed
       /\ users' = {u \in users : u.login # l}
       /\ networks' = {m \in networks : m.owner # l}
       /\ servers' = Without(servers, l)
       /\ invitations' = Without(invitations, l)
       /\ publicKey' = Without(publicKey, l)
    \/ Rejected(r)

ChangeEveryPassword(l, hash, r) ==
    \/ /\ r \in Committed
       /\ users' = {[login |-> u.login, password |-> hash] : u \in users}
       /\ UNCHANGED <<networks, servers, invitations, publicKey>>
    \/ Rejected(r)

(* An UPDATE that finds no row is no error.                                *)
changeUserPassword(l, hash, r) ==
    \/ /\ r \in Committed
       /\ users' = {IF u.login = l THEN [login |-> l, password |-> hash] ELSE u
                      : u \in users}
       /\ UNCHANGED <<networks, servers, invitations, publicKey>>
    \/ Rejected(r)

(* The hash of the password, or nothing if there is no such user.          *)
getPassHash(l) ==
    LET stored == {u.password : u \in {v \in users : v.login = l}}
    IN  {stored} \cup (IF MayFail THEN {{}} ELSE {})

(* An unknown user or network is a null in a column declared not null.     *)
addKey(l, n, key, r) ==
    \/ /\ hasRow(publicKey, l, n) /\ r = "NOT_FOUND"
       /\ UNCHANGED dbVars
    \/ /\ ~(isUserRow(l) /\ isNetworkRow(n)) /\ r = "INTERNAL_ERROR"
       /\ UNCHANGED dbVars
    \/ /\ isUserRow(l) /\ isNetworkRow(n) /\ ~hasRow(publicKey, l, n)
       /\ r \in Committed
       /\ publicKey' = publicKey \cup {[user |-> l, network |-> n, key |-> key]}
       /\ UNCHANGED <<users, networks, servers, invitations>>
    \/ Rejected(r)

createInvitation(l, n, r) ==
    \/ /\ hasRow(invitations, l, n) /\ r = "NOT_UNIQUE"
       /\ UNCHANGED dbVars
    \/ /\ ~(isUserRow(l) /\ isNetworkRow(n)) /\ r = "INTERNAL_ERROR"
       /\ UNCHANGED dbVars
    \/ /\ isUserRow(l) /\ isNetworkRow(n) /\ ~hasRow(invitations, l, n)
       /\ r \in Committed
       /\ invitations' = invitations \cup {[user |-> l, network |-> n]}
       /\ UNCHANGED <<users, networks, servers, publicKey>>
    \/ Rejected(r)

CreateNetworkUnowned(n, l, rights, r) ==
    \/ /\ isNetworkRow(n) /\ r = "NOT_UNIQUE"
       /\ UNCHANGED dbVars
    \/ /\ ~isNetworkRow(n) /\ r \in Committed
       /\ networks' = networks \cup {[name |-> n, owner |-> l, rights |-> rights]}
       /\ UNCHANGED <<users, servers, invitations, publicKey>>
    \/ Rejected(r)

CreateNetworkOverwrites(n, l, rights, r) ==
    \/ /\ ~isUserRow(l) /\ r = "INTERNAL_ERROR"
       /\ UNCHANGED dbVars
    \/ /\ isUserRow(l) /\ r \in Committed
       /\ networks' = {m \in networks : m.name # n}
                        \cup {[name |-> n, owner |-> l, rights |-> rights]}
       /\ UNCHANGED <<users, servers, invitations, publicKey>>
    \/ Rejected(r)

createNetwork(n, l, rights, r) ==
    \/ /\ isUserRow(l) /\ isNetworkRow(n) /\ r = "NOT_UNIQUE"
       /\ UNCHANGED dbVars
    \/ /\ ~isUserRow(l) /\ r = "INTERNAL_ERROR"
       /\ UNCHANGED dbVars
    \/ /\ isUserRow(l) /\ ~isNetworkRow(n) /\ r \in Committed
       /\ networks' = networks \cup {[name |-> n, owner |-> l, rights |-> rights]}
       /\ UNCHANGED <<users, servers, invitations, publicKey>>
    \/ Rejected(r)

DeleteAnyNetwork(l, n, r) ==
    \/ /\ r \in Committed
       /\ networks' = {m \in networks : m.name # n}
       /\ servers' = {s \in servers : s.network # n}
       /\ invitations' = {i \in invitations : i.network # n}
       /\ publicKey' = {k \in publicKey : k.network # n}
       /\ UNCHANGED users
    \/ Rejected(r)

(* The cascade takes the rows of the network out of the other tables.      *)
deleteNetwork(l, n, r) ==
    LET owned == {m \in networks : m.name = n /\ m.owner = l}
    IN  \/ /\ owned = {} /\ r = "NOT_PERMITED"
           /\ UNCHANGED dbVars
        \/ /\ owned # {} /\ r \in Committed
           /\ networks' = networks \ owned
           /\ servers' = {s \in servers : s.network # n}
           /\ invitations' = {i \in invitations : i.network # n}
           /\ publicKey' = {k \in publicKey : k.network # n}
           /\ UNCHANGED users
        \/ Rejected(r)

(***************************************************************************)
(* The first transaction of updateServer: an UPDATE that finds the row     *)
(* returns OK before the commit, so that the destructor rolls it back.     *)
(* Otherwise r is "NOT_FOUND" here and insertServer is the second          *)
(* transaction; another worker may get in between.                         *)
(***************************************************************************)
updateServer(l, n, addr, r) ==
    /\ \/ r = (IF hasRow(servers, l, n) THEN "OK" ELSE "NOT_FOUND")
       \/ r \in Failed
    /\ UNCHANGED dbVars

InsertServerUnchecked(l, n, addr, r) ==
    \/ /\ hasRow(servers, l, n) /\ r = "NOT_FOUND"
       /\ UNCHANGED dbVars
    \/ /\ ~hasRow(servers, l, n) /\ r \in Committed
       /\ servers' = servers \cup {[user |-> l, network |-> n, addr |-> addr]}
       /\ UNCHANGED <<users, networks, invitations, publicKey>>
    \/ Rejected(r)

insertServer(l, n, addr, r) ==
    \/ /\ hasRow(servers, l, n) /\ r = "NOT_FOUND"
       /\ UNCHANGED dbVars
    \/ /\ ~(isUserRow(l) /\ isNetworkRow(n)) /\ r = "INTERNAL_ERROR"
       /\ UNCHANGED dbVars
    \/ /\ isUserRow(l) /\ isNetworkRow(n) /\ ~hasRow(servers, l, n)
       /\ r \in Committed
       /\ servers' = servers \cup {[user |-> l, network |-> n, addr |-> addr]}
       /\ UNCHANGED <<users, networks, invitations, publicKey>>
    \/ Rejected(r)

(* res.size() counts the rows a DELETE returns: there are none.            *)
deleteServer(l, n, r) ==
    \/ /\ r \in {"NOT_FOUND"} \cup Failed
       /\ servers' = {s \in servers : ~(s.user = l /\ s.network = n)}
       /\ UNCHANGED <<users, networks, invitations, publicKey>>
    \/ Rejected(r)

-----------------------------------------------------------------------------
(* The checks: a failure counts as no.                                     *)
Check(b) == {b} \cup (IF MayFail THEN {FALSE} ELSE {})

userExists(l) == Check(isUserRow(l))

networkExists(n) == Check(isNetworkRow(n))

maySee(l, n) ==
    \E m \in networks : m.name = n /\ (m.rights.public \/ m.owner = l)

mayServe(l, n) ==
    \E m \in networks : m.name = n /\ (m.rights.participable \/ m.owner = l)

CanSeeListed(n, l) ==
    Check(\E m \in networks : m.name = n /\ (m.rights.visible \/ m.owner = l))

canSeeNetwork(n, l) == Check(maySee(l, n))

CanAddToPublic(l, n) == Check(maySee(l, n))

canAddServer(l, n) == Check(mayServe(l, n))

(* The lists: a failure gives the empty list.                              *)
List(S) == {S} \cup (IF MayFail THEN {{}} ELSE {})

getAllNetworks(l) ==
    List({m.name : m \in {k \in networks : \/ k.rights.visible
                                           \/ k.owner = l
                                           \/ hasRow(invitations, l, k.name)}})

getUserNetworks(l) == List(OwnedBy(l))

getServers(n) == List({s.addr : s \in {t \in servers : t.network = n}})

(* utils::toString reads the field with operator>>, up to the first blank. *)
toString(words) == IF words = <<>> THEN <<>> ELSE <<words[1]>>

getUserInfo(l, n) ==
    LET keys == {k \in publicKey : k.user = l /\ k.network = n}
    IN  List({toString(k.key) : k \in keys})

-----------------------------------------------------------------------------
(* The columns login and name are declared unique.                        *)
UniqueRows ==
    /\ \A u, v \in users : u.login = v.login => u = v
    /\ \A m, n \in networks : m.name = n.name => m = n

RefersToLive(table) ==
    \A s \in table : isUserRow(s.user) /\ isNetworkRow(s.network)

(***************************************************************************)
(* No row outlives what it refers to, and the unique columns are unique.   *)
(* A handler checks networkExists or userExists in one transaction and     *)
(* writes in another, and a session outlives its account: what keeps the   *)
(* tables whole is only the null of the sub-select and the cascade.        *)
(***************************************************************************)
RefIntegrity ==
    /\ UniqueRows
    /\ \A n \in networks : isUserRow(n.owner)
    /\ RefersToLive(servers)
    /\ RefersToLive(invitations)
    /\ RefersToLive(publicKey)

Dir == INSTANCE Directory WITH
           accounts <- {u.login : u \in users},
           owners <- {<<m.name, m.owner>> : m \in networks},
           listed <- {<<s.network, s.user>> : s \in servers}

(***************************************************************************)
(* The tables, seen as a directory, change only as Directory says: an      *)
(* account, a network or a server never appears without what it depends    *)
(* on, and never half disappears, whatever the workers do to each other,   *)
(* whichever statement fails and whenever the process ends.                *)
(***************************************************************************)
ImplementsDirectory == Dir!DirectorySpec

=============================================================================
