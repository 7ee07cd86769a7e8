------------------------ MODULE PsqlConnector_proofs ------------------------
(***************************************************************************)
(* What every statement of the connector does to the tables, for any sets  *)
(* of users, networks and addresses and with or without failures: it keeps *)
(* the types, it keeps RefIntegrity, and seen as a directory it takes one  *)
(* step of Directory.  The workers, whatever they do, only take such       *)
(* steps: Tracker_proofs adds that.                                        *)
(***************************************************************************)
EXTENDS PsqlConnector, TLAPS

Hash == [bcrypt : Password]

(* One call of any writing method of the connector, or no change.          *)
DbStep ==
    \/ \E l \in Login, h \in Hash, r \in DB_Response : createUser(l, h, r)
    \/ \E l \in Login, r \in DB_Response : removeUser(l, r)
    \/ \E l \in Login, h \in Hash, r \in DB_Response :
          changeUserPassword(l, h, r)
    \/ \E l \in Login, n \in Name, k \in Words, r \in DB_Response :
          addKey(l, n, k, r)
    \/ \E l \in Login, n \in Name, r \in DB_Response : createInvitation(l, n, r)
    \/ \E l \in Login, n \in Name, x \in Rights, r \in DB_Response :
          createNetwork(n, l, x, r)
    \/ \E l \in Login, n \in Name, r \in DB_Response : deleteNetwork(l, n, r)
    \/ \E l \in Login, n \in Name, a \in Address, r \in DB_Response :
          insertServer(l, n, a, r)
    \/ \E l \in Login, n \in Name, r \in DB_Response : deleteServer(l, n, r)
    \/ UNCHANGED dbVars

-----------------------------------------------------------------------------
(* The tables keep their types.                                            *)
LEMMA DbStepType == DbTypeOK /\ DbStep => DbTypeOK'
  <1> SUFFICES ASSUME DbTypeOK, DbStep PROVE DbTypeOK'
    OBVIOUS
  <1> USE DEF DbTypeOK, Hash, Rejected
  <1>0. ASSUME UNCHANGED dbVars PROVE DbTypeOK'
    BY <1>0 DEF dbVars
  <1>1. ASSUME NEW l \in Login, NEW h \in Hash, NEW r, createUser(l, h, r)
        PROVE  DbTypeOK'
    BY <1>0, <1>1 DEF createUser
  <1>2. ASSUME NEW l \in Login, NEW r, removeUser(l, r) PROVE DbTypeOK'
    BY <1>0, <1>2 DEF removeUser, Without
  <1>3. ASSUME NEW l \in Login, NEW h \in Hash, NEW r,
               changeUserPassword(l, h, r)
        PROVE  DbTypeOK'
    BY <1>0, <1>3 DEF changeUserPassword
  <1>4. ASSUME NEW l \in Login, NEW n \in Name, NEW k \in Words, NEW r,
               addKey(l, n, k, r)
        PROVE  DbTypeOK'
    BY <1>0, <1>4 DEF addKey
  <1>5. ASSUME NEW l \in Login, NEW n \in Name, NEW r,
               createInvitation(l, n, r)
        PROVE  DbTypeOK'
    BY <1>0, <1>5 DEF createInvitation
  <1>6. ASSUME NEW l \in Login, NEW n \in Name, NEW x \in Rights, NEW r,
               createNetwork(n, l, x, r)
        PROVE  DbTypeOK'
    BY <1>0, <1>6 DEF createNetwork
  <1>7. ASSUME NEW l \in Login, NEW n \in Name, NEW r, deleteNetwork(l, n, r)
        PROVE  DbTypeOK'
    BY <1>0, <1>7 DEF deleteNetwork
  <1>8. ASSUME NEW l \in Login, NEW n \in Name, NEW a \in Address, NEW r,
               insertServer(l, n, a, r)
        PROVE  DbTypeOK'
    BY <1>0, <1>8 DEF insertServer
  <1>9. ASSUME NEW l \in Login, NEW n \in Name, NEW r, deleteServer(l, n, r)
        PROVE  DbTypeOK'
    BY <1>0, <1>9 DEF deleteServer
  <1> QED
    BY <1>0, <1>1, <1>2, <1>3, <1>4, <1>5, <1>6, <1>7, <1>8, <1>9 DEF DbStep

-----------------------------------------------------------------------------
(***************************************************************************)
(* Referential integrity is inductive on its own: an INSERT whose          *)
(* sub-select finds nothing is refused, and a DELETE takes the rows that   *)
(* refer to the deleted one along.                                         *)
(***************************************************************************)
LEMMA DbStepIntegrity == DbTypeOK /\ RefIntegrity /\ DbStep => RefIntegrity'
  <1> SUFFICES ASSUME DbTypeOK, RefIntegrity, DbStep PROVE RefIntegrity'
    OBVIOUS
  <1> USE DEF RefIntegrity, UniqueRows, RefersToLive, isUserRow, isNetworkRow,
              Rejected
  <1>0. ASSUME UNCHANGED dbVars PROVE RefIntegrity'
    BY <1>0 DEF dbVars
  <1>1. ASSUME NEW l \in Login, NEW h \in Hash, NEW r, createUser(l, h, r)
        PROVE  RefIntegrity'
    BY <1>0, <1>1 DEF createUser
  <1>2. ASSUME NEW l \in Login, NEW r, removeUser(l, r) PROVE RefIntegrity'
    BY <1>0, <1>2 DEF removeUser, Without, OwnedBy
  <1>3. ASSUME NEW l \in Login, NEW h \in Hash, NEW r,
               changeUserPassword(l, h, r)
        PROVE  RefIntegrity'
    <2> DEFINE New(u) == IF u.login = l THEN [login |-> l, password |-> h] ELSE u
    <2>1. CASE UNCHANGED dbVars
      BY <1>0, <2>1
    <2>2. CASE /\ users' = {New(u) : u \in users}
               /\ UNCHANGED <<networks, servers, invitations, publicKey>>
      <3>1. \A u \in users : New(u).login = u.login
        OBVIOUS
      <3> HIDE DEF New
      <3>2. \A u, v \in users' : u.login = v.login => u = v
        BY <2>2, <3>1
      <3>3. \A x : isUserRow(x) => isUserRow(x)'
        BY <2>2, <3>1
      <3> QED
        BY <2>2, <3>2, <3>3
    <2> QED
      BY <1>3, <2>1, <2>2 DEF changeUserPassword
  <1>4. ASSUME NEW l \in Login, NEW n \in Name, NEW k \in Words, NEW r,
               addKey(l, n, k, r)
        PROVE  RefIntegrity'
    BY <1>0, <1>4 DEF addKey
  <1>5. ASSUME NEW l \in Login, NEW n \in Name, NEW r,
               createInvitation(l, n, r)
        PROVE  RefIntegrity'
    BY <1>0, <1>5 DEF createInvitation
  <1>6. ASSUME NEW l \in Login, NEW n \in Name, NEW x \in Rights, NEW r,
               createNetwork(n, l, x, r)
        PROVE  RefIntegrity'
    BY <1>0, <1>6 DEF createNetwork
  <1>7. ASSUME NEW l \in Login, NEW n \in Name, NEW r, deleteNetwork(l, n, r)
        PROVE  RefIntegrity'
    BY <1>0, <1>7 DEF deleteNetwork
  <1>8. ASSUME NEW l \in Login, NEW n \in Name, NEW a \in Address, NEW r,
               insertServer(l, n, a, r)
        PROVE  RefIntegrity'
    BY <1>0, <1>8 DEF insertServer
  <1>9. ASSUME NEW l \in Login, NEW n \in Name, NEW r, deleteServer(l, n, r)
        PROVE  RefIntegrity'
    BY <1>0, <1>9 DEF deleteServer
  <1> QED
    BY <1>0, <1>1, <1>2, <1>3, <1>4, <1>5, <1>6, <1>7, <1>8, <1>9 DEF DbStep

-----------------------------------------------------------------------------
(* The tables as Directory sees them.                                      *)
Accounts == {u.login : u \in users}

Owners == {<<m.name, m.owner>> : m \in networks}

Listed == {<<s.network, s.user>> : s \in servers}

(***************************************************************************)
(* Each statement is one step of the directory, or invisible in it.        *)
(***************************************************************************)
LEMMA DbStepDirectory ==
  DbTypeOK /\ RefIntegrity /\ DbStep =>
      [Dir!DirectoryNext]_(Dir!directoryVars)
  <1> SUFFICES ASSUME DbTypeOK, RefIntegrity, DbStep
               PROVE  \/ Dir!DirectoryNext
                      \/ UNCHANGED <<Accounts, Owners, Listed>>
    BY DEF Dir!directoryVars, Accounts, Owners, Listed
  <1> DEFINE Goal == \/ Dir!DirectoryNext
                     \/ UNCHANGED <<Accounts, Owners, Listed>>
  <1>0. ASSUME UNCHANGED dbVars PROVE Goal
    BY <1>0 DEF dbVars, Accounts, Owners, Listed
  <1>1. ASSUME NEW l \in Login, NEW h \in Hash, NEW r, createUser(l, h, r)
        PROVE  Goal
    <2>1. CASE /\ ~isUserRow(l)
               /\ users' = users \cup {[login |-> l, password |-> h]}
               /\ UNCHANGED <<networks, servers>>
      <3> DEFINE row == [login |-> l, password |-> h]
      <3>0. users' = users \cup {row} /\ row.login = l
        BY <2>1
      <3> HIDE DEF row
      <3>1. l \notin Accounts /\ Accounts' = Accounts \cup {l}
        BY <2>1, <3>0 DEF Accounts, isUserRow
      <3>2. UNCHANGED <<Owners, Listed>>
        BY <2>1 DEF Owners, Listed
      <3>3. Dir!AddAccount(l)
        BY <3>1, <3>2 DEF Dir!AddAccount, Accounts, Owners, Listed
      <3> QED
        BY <3>3 DEF Dir!DirectoryNext
    <2> QED
      BY <1>0, <1>1, <2>1 DEF createUser, Rejected
  <1>2. ASSUME NEW l \in Login, NEW r, removeUser(l, r) PROVE Goal
    <2>1. CASE /\ users' = {u \in users : u.login # l}
               /\ networks' = {m \in networks : m.owner # l}
               /\ servers' = Without(servers, l)
      <3>1. Accounts' = Accounts \ {l}
        BY <2>1 DEF Accounts
      <3>2. Owners' = {o \in Owners : o[2] # l}
        BY <2>1 DEF Owners
      <3>3. \A n : n \in OwnedBy(l) <=> <<n, l>> \in Owners
        BY DEF OwnedBy, Owners
      <3>4. Listed' = {s \in Listed : s[2] # l /\ <<s[1], l>> \notin Owners}
        BY <2>1, <3>3 DEF Listed, Without
      <3>5. Dir!DropAccount(l)
        BY <3>1, <3>2, <3>4 DEF Dir!DropAccount, Accounts, Owners, Listed
      <3> QED
        BY <3>5 DEF Dir!DirectoryNext
    <2> QED
      BY <1>0, <1>2, <2>1 DEF removeUser, Rejected
  <1>3. ASSUME NEW l \in Login, NEW h \in Hash, NEW r,
               changeUserPassword(l, h, r)
        PROVE  Goal
    <2> DEFINE New(u) == IF u.login = l THEN [login |-> l, password |-> h] ELSE u
    <2>1. CASE /\ users' = {New(u) : u \in users}
               /\ UNCHANGED <<networks, servers>>
      <3>1. \A u \in users : New(u).login = u.login
        OBVIOUS
      <3> HIDE DEF New
      <3>2. Accounts' = Accounts
        BY <2>1, <3>1 DEF Accounts
      <3> QED
        BY <2>1, <3>2 DEF Owners, Listed
    <2> QED
      BY <1>0, <1>3, <2>1 DEF changeUserPassword, Rejected
  <1>4. ASSUME NEW l \in Login, NEW n \in Name, NEW k \in Words, NEW r,
               addKey(l, n, k, r)
        PROVE  Goal
    BY <1>0, <1>4 DEF addKey, Rejected, Accounts, Owners, Listed
  <1>5. ASSUME NEW l \in Login, NEW n \in Name, NEW r,
               createInvitation(l, n, r)
        PROVE  Goal
    BY <1>0, <1>5 DEF createInvitation, Rejected, Accounts, Owners, Listed
  <1>6. ASSUME NEW l \in Login, NEW n \in Name, NEW x \in Rights, NEW r,
               createNetwork(n, l, x, r)
        PROVE  Goal
    <2>1. CASE /\ isUserRow(l) /\ ~isNetworkRow(n)
               /\ networks' = networks \cup
                                 {[name |-> n, owner |-> l, rights |-> x]}
               /\ UNCHANGED <<users, servers>>
      <3> DEFINE row == [name |-> n, owner |-> l, rights |-> x]
      <3>0. networks' = networks \cup {row} /\ row.name = n /\ row.owner = l
        BY <2>1
      <3> HIDE DEF row
      <3>1. /\ l \in Accounts
            /\ \A o \in Owners : o[1] # n
            /\ Owners' = Owners \cup {<<n, l>>}
        BY <2>1, <3>0 DEF Accounts, Owners, isUserRow, isNetworkRow
      <3>2. UNCHANGED <<Accounts, Listed>>
        BY <2>1 DEF Accounts, Listed
      <3>3. Dir!AddNetwork(n, l)
        BY <3>1, <3>2
           DEF Dir!AddNetwork, Dir!Exists, Accounts, Owners, Listed
      <3> QED
        BY <3>3 DEF Dir!DirectoryNext
    <2> QED
      BY <1>0, <1>6, <2>1 DEF createNetwork, Rejected
  <1>7. ASSUME NEW l \in Login, NEW n \in Name, NEW r, deleteNetwork(l, n, r)
        PROVE  Goal
    <2> DEFINE owned == {m \in networks : m.name = n /\ m.owner = l}
    <2>1. CASE /\ owned # {}
               /\ networks' = networks \ owned
               /\ servers' = {s \in servers : s.network # n}
               /\ UNCHANGED users
      <3>1. networks' = {m \in networks : m.name # n}
        BY <2>1 DEF RefIntegrity, UniqueRows
      <3>2. Owners' = {o \in Owners : o[1] # n}
        BY <3>1 DEF Owners
      <3>3. Listed' = {s \in Listed : s[1] # n}
        BY <2>1 DEF Listed
      <3>4. Accounts' = Accounts
        BY <2>1 DEF Accounts
      <3>5. Dir!DropNetwork(n)
        BY <3>2, <3>3, <3>4 DEF Dir!DropNetwork, Accounts, Owners, Listed
      <3> QED
        BY <3>5 DEF Dir!DirectoryNext
    <2> QED
      BY <1>0, <1>7, <2>1 DEF deleteNetwork, Rejected
  <1>8. ASSUME NEW l \in Login, NEW n \in Name, NEW a \in Address, NEW r,
               insertServer(l, n, a, r)
        PROVE  Goal
    <2>1. CASE /\ isUserRow(l) /\ isNetworkRow(n)
               /\ servers' = servers \cup
                                {[user |-> l, network |-> n, addr |-> a]}
               /\ UNCHANGED <<users, networks>>
      <3> DEFINE row == [user |-> l, network |-> n, addr |-> a]
      <3>0. servers' = servers \cup {row} /\ row.user = l /\ row.network = n
        BY <2>1
      <3> HIDE DEF row
      <3>1. /\ l \in Accounts
            /\ \E o \in Owners : o[1] = n
            /\ Listed' = Listed \cup {<<n, l>>}
        <4>1. l \in Accounts
          BY <2>1 DEF Accounts, isUserRow
        <4>2. PICK m \in networks : m.name = n
          BY <2>1 DEF isNetworkRow
        <4>3. <<m.name, m.owner>> \in Owners
          BY DEF Owners
        <4>4. Listed' = Listed \cup {<<n, l>>}
          BY <3>0 DEF Listed
        <4> QED
          BY <4>1, <4>2, <4>3, <4>4
      <3>2. UNCHANGED <<Accounts, Owners>>
        BY <2>1 DEF Accounts, Owners
      <3>3. Dir!AddServer(n, l)
        BY <3>1, <3>2
           DEF Dir!AddServer, Dir!Exists, Accounts, Owners, Listed
      <3> QED
        BY <3>3 DEF Dir!DirectoryNext
    <2> QED
      BY <1>0, <1>8, <2>1 DEF insertServer, Rejected
  <1>9. ASSUME NEW l \in Login, NEW n \in Name, NEW r, deleteServer(l, n, r)
        PROVE  Goal
    <2>1. CASE /\ servers' = {s \in servers : ~(s.user = l /\ s.network = n)}
               /\ UNCHANGED <<users, networks>>
      <3>1. Listed' = Listed \ {<<n, l>>}
        BY <2>1 DEF Listed
      <3>2. UNCHANGED <<Accounts, Owners>>
        BY <2>1 DEF Accounts, Owners
      <3>3. Dir!DropServer(n, l)
        BY <3>1, <3>2 DEF Dir!DropServer, Accounts, Owners, Listed
      <3> QED
        BY <3>3 DEF Dir!DirectoryNext
    <2> QED
      BY <1>0, <1>9, <2>1 DEF deleteServer, Rejected
  <1> QED
    BY <1>0, <1>1, <1>2, <1>3, <1>4, <1>5, <1>6, <1>7, <1>8, <1>9 DEF DbStep

=============================================================================
