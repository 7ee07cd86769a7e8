----------------------------- MODULE Directory -----------------------------
(***************************************************************************)
(* What the tracker promises its users about the directory it keeps, free  *)
(* of requests, sessions, worker threads, failures and crashes: accounts,  *)
(* networks with one owner each, and the servers listed under a network.   *)
(* Every entry belongs to an account and a network that exist; when one of *)
(* them goes, everything that depends on it goes in the same step.         *)
(***************************************************************************)
CONSTANTS Login, Name

VARIABLES
    accounts,    \* the logins that have an account
    owners,      \* pairs <<n, l>>: network n exists and belongs to l
    listed       \* pairs <<n, l>>: l has a server listed under n

directoryVars == <<accounts, owners, listed>>

DirectoryInit == accounts = {} /\ owners = {} /\ listed = {}

Exists(n) == \E o \in owners : o[1] = n

AddAccount(l) ==
    /\ l \notin accounts
    /\ accounts' = accounts \cup {l}
    /\ UNCHANGED <<owners, listed>>

DropAccount(l) ==
    /\ accounts' = accounts \ {l}
    /\ owners' = {o \in owners : o[2] # l}
    /\ listed' = {s \in listed : s[2] # l /\ <<s[1], l>> \notin owners}

AddNetwork(n, l) ==
    /\ l \in accounts /\ ~Exists(n)
    /\ owners' = owners \cup {<<n, l>>}
    /\ UNCHANGED <<accounts, listed>>

DropNetwork(n) ==
    /\ owners' = {o \in owners : o[1] # n}
    /\ listed' = {s \in listed : s[1] # n}
    /\ UNCHANGED accounts

AddServer(n, l) ==
    /\ l \in accounts /\ Exists(n)
    /\ listed' = listed \cup {<<n, l>>}
    /\ UNCHANGED <<accounts, owners>>

DropServer(n, l) ==
    /\ listed' = listed \ {<<n, l>>}
    /\ UNCHANGED <<accounts, owners>>

DirectoryNext ==
    \/ \E l \in Login : AddAccount(l) \/ DropAccount(l)
    \/ \E n \in Name : DropNetwork(n)
    \/ \E n \in Name, l \in Login :
          AddNetwork(n, l) \/ AddServer(n, l) \/ DropServer(n, l)

DirectorySpec == DirectoryInit /\ [][DirectoryNext]_directoryVars

=============================================================================
