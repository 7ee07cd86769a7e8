------------------------------ MODULE Manager ------------------------------
(***************************************************************************)
(* The console client and the Manager it works on: which nodes and         *)
(* networks are in memory, which of them the file of saved data holds, and *)
(* whether the program can be started on that file again.                  *)
(*                                                                         *)
(* A Node lives as long as somebody holds it: the manager's map or the     *)
(* console, whose working node stays the same object after rnd, load and   *)
(* clear.  A Network knows its nodes by weak pointers only.  Descriptions  *)
(* are compared by name alone, so names are the keys of both maps.         *)
(*                                                                         *)
(* Commands run one after another on the console's thread.  The loop does  *)
(* not catch what loadState and Node::stopConnections throw: the program   *)
(* ends, so the nodes and networks read up to the error are never seen.    *)
(* What is sent to a tracker is in NodeConnection and Node; here a node is *)
(* active while it has a connection.                                       *)
(***************************************************************************)
EXTENDS FiniteSets, Naturals

CONSTANTS
    NodeName,
    NetworkName,
    Data,         \* the user, password and address a Node is saved with
    Object,       \* bound: the Node objects, a freed one is used again
    NetObject,    \* bound: the Network objects
    Null,         \* no object, no entry
    Expired       \* a weak pointer to a destroyed Node

ASSUME ManagerAssumption ==
    /\ Null \notin Object \cup NetObject \cup Data \cup NetworkName \cup NodeName
    /\ Expired \notin Object \cup {Null}
    /\ \A s \in SUBSET NodeName : s # Null
    /\ \A r \in [name : NodeName, data : Data] : r # Null
    /\ \A s \in [NodeName -> Object \cup {Null, Expired}] : s # Null
    /\ IsFiniteSet(NodeName) /\ IsFiniteSet(NetworkName)
    /\ IsFiniteSet(Object) /\ IsFiniteSet(NetObject)
    /\ Cardinality(Object) > Cardinality(NodeName)
    /\ Cardinality(NetObject) > Cardinality(NetworkName)

VARIABLES
    running,         \* the program is at its prompt
    nodes_map,       \* the manager's nodes
    networks_map,    \* the manager's networks
    node,            \* the Node objects: name and data, Null where destroyed
    network,         \* the node_set of the Network objects, Null where destroyed
    current_node,    \* the console's working node
    current_network, \* the console's working network
    active,          \* the Nodes with a connection
    freed,           \* the timer of a destroyed Node still has a handler to run
    saving,          \* saveState has opened the file
    dataFile,        \* the file of saved data
    keyFiles,        \* the key and certificate files, by the node and network they name
    dirty,           \* history: a command has changed something since the last save or load
    stray            \* history: a command has taken a node or network away from
                     \* an association or a key file

memory == <<nodes_map, networks_map, node, network, current_node, current_network, active>>
disk == <<dataFile, keyFiles>>
history == <<dirty, stray>>
vars == <<running, memory, freed, saving, disk, history>>

NoNodes == [n \in NodeName |-> Null]
NoNetworks == [t \in NetworkName |-> Null]

Torn == [state |-> "torn", nodes |-> NoNodes, networks |-> NoNetworks]
Absent == [Torn EXCEPT !.state = "absent"]

TypeOK ==
    /\ running \in BOOLEAN /\ freed \in BOOLEAN /\ saving \in BOOLEAN
    /\ dirty \in BOOLEAN /\ stray \in BOOLEAN
    /\ nodes_map \in [NodeName -> Object \cup {Null}]
    /\ networks_map \in [NetworkName -> NetObject \cup {Null}]
    /\ node \in [Object -> [name : NodeName, data : Data] \cup {Null}]
    /\ network \in [NetObject -> [NodeName -> Object \cup {Null, Expired}] \cup {Null}]
    /\ current_node \in Object \cup {Null}
    /\ current_network \in NetObject \cup {Null}
    /\ active \subseteq Object
    /\ dataFile \in [state : {"absent", "torn", "complete"},
                     nodes : [NodeName -> Data \cup {Null}],
                     networks : [NetworkName -> (SUBSET NodeName) \cup {Null}]]
    /\ keyFiles \subseteq NodeName \X (NetworkName \cup {Null})
    /\ \A n \in NodeName : nodes_map[n] # Null => /\ node[nodes_map[n]] # Null
                                                  /\ node[nodes_map[n]].name = n
    /\ \A t \in NetworkName : networks_map[t] # Null => network[networks_map[t]] # Null
    /\ current_node # Null => node[current_node] # Null
    /\ current_network # Null => network[current_network] # Null

Init ==
    /\ running = FALSE /\ freed = FALSE /\ saving = FALSE
    /\ nodes_map = NoNodes /\ node = [o \in Object |-> Null]
    /\ networks_map = NoNetworks /\ network = [p \in NetObject |-> Null]
    /\ current_node = Null /\ current_network = Null
    /\ active = {}
    /\ dataFile = Absent /\ keyFiles = {}
    /\ dirty = FALSE /\ stray = FALSE

-----------------------------------------------------------------------------
(* Who holds what.                                                          *)

Prompt == running /\ ~saving

Managed(o) == o # Null /\ \E n \in NodeName : nodes_map[n] = o

ManagedNetwork(p) == p # Null /\ \E t \in NetworkName : networks_map[t] = p

(* Mutant: the console holds its working node and network weakly.          *)
HeldByManager(map, current) == {map[k] : k \in DOMAIN map} \ {Null}

Held(map, current) == ({map[k] : k \in DOMAIN map} \cup {current}) \ {Null}

(* Weak pointers to Nodes outside held have expired.                       *)
Expire(node_set, held) ==
    [n \in NodeName |-> IF node_set[n] \in held \cup {Null} THEN node_set[n] ELSE Expired]

(* The destructors: what is no longer held once the maps and the console   *)
(* have their new values is destroyed.  A Node that goes with a connection *)
(* takes its timer along, whose handler is bound to the Node and will run. *)
Release(nodes, networks) ==
    LET held == Held(nodes_map', current_node')
        kept == Held(networks_map', current_network')
    IN  /\ node' = [o \in Object |-> IF o \in held THEN nodes[o] ELSE Null]
        /\ network' = [p \in NetObject |->
                         IF p \in kept THEN Expire(networks[p], held) ELSE Null]
        /\ active' = active \cap held
        /\ freed' = (freed \/ active \ held # {})

Ends ==
    /\ running' = FALSE /\ saving' = FALSE /\ freed' = FALSE
    /\ nodes_map' = NoNodes /\ node' = [o \in Object |-> Null]
    /\ networks_map' = NoNetworks /\ network' = [p \in NetObject |-> Null]
    /\ current_node' = Null /\ current_network' = Null
    /\ active' = {}
    /\ UNCHANGED <<disk, history>>

-----------------------------------------------------------------------------
(* The Manager's nodes and networks.                                        *)

createNode(n, d) ==
    /\ nodes_map[n] = Null
    /\ \E o \in {x \in Object : node[x] = Null} :
         /\ nodes_map' = [nodes_map EXCEPT ![n] = o]
         /\ node' = [node EXCEPT ![o] = [name |-> n, data |-> d]]
    /\ UNCHANGED <<networks_map, network, current_node, current_network, active, freed>>

removeNode(n) ==
    /\ nodes_map[n] # Null
    /\ nodes_map' = [nodes_map EXCEPT ![n] = Null]
    /\ UNCHANGED <<networks_map, current_node, current_network>>
    /\ Release(node, network)

createNetwork(t) ==
    /\ networks_map[t] = Null
    /\ \E p \in {x \in NetObject : network[x] = Null} :
         /\ networks_map' = [networks_map EXCEPT ![t] = p]
         /\ network' = [network EXCEPT ![p] = NoNodes]
    /\ UNCHANGED <<nodes_map, node, current_node, current_network, active, freed>>

removeNetwork(t) ==
    /\ networks_map[t] # Null
    /\ networks_map' = [networks_map EXCEPT ![t] = Null]
    /\ UNCHANGED <<nodes_map, current_node, current_network>>
    /\ Release(node, network)

(* stopAll throws for a Node with a connection (see NodeConnection).       *)
StopAllThrows == \E n \in NodeName : nodes_map[n] \in active

(* Mutant: the networks stay.                                              *)
ClearNodesOnly ==
    /\ nodes_map' = NoNodes
    /\ UNCHANGED <<networks_map, current_node, current_network>>
    /\ Release(node, network)

clear ==
    /\ nodes_map' = NoNodes
    /\ networks_map' = NoNetworks
    /\ UNCHANGED <<current_node, current_network>>
    /\ Release(node, network)

SavedNetworks ==
    [t \in NetworkName |-> IF networks_map[t] = Null THEN Null
                           ELSE {n \in NodeName : network[networks_map[t]][n] # Null}]

(* What saveState writes: of an association the name, expired or not.      *)
saveState ==
    [state |-> "complete",
     nodes |-> [n \in NodeName |-> IF nodes_map[n] = Null THEN Null
                                   ELSE node[nodes_map[n]].data],
     networks |-> SavedNetworks]

(* loadState reads the file to its end: it is whole and every association  *)
(* finds its node.                                                         *)
Loadable ==
    /\ dataFile.state = "complete"
    /\ \A t \in NetworkName : dataFile.networks[t] # Null =>
          \A n \in dataFile.networks[t] : dataFile.nodes[n] # Null

(* new gives a free object of its own to each key that entries has.        *)
NewObjects(new, entries) ==
    /\ \A k \in DOMAIN new : (new[k] = Null) = (entries[k] = Null)
    /\ \A j, k \in DOMAIN new : j # k /\ new[j] # Null => new[j] # new[k]

KeyOf(new, o) == CHOOSE k \in DOMAIN new : new[k] = o

(* Mutant: the associations are not read.                                  *)
AssociatedNone(f, t) == NoNodes

(* The associations read for network t, where the nodes are now f.         *)
Associated(f, t) == [n \in NodeName |-> IF n \in dataFile.networks[t] THEN f[n] ELSE Null]

(* clear, then a new object for everything in the file.  The working node  *)
(* and network stay with the console; associations of that network to      *)
(* other nodes have expired.                                               *)
loadState ==
    \E f \in [NodeName -> (Object \ {current_node}) \cup {Null}],
       g \in [NetworkName -> (NetObject \ {current_network}) \cup {Null}] :
      /\ NewObjects(f, dataFile.nodes) /\ NewObjects(g, dataFile.networks)
      /\ nodes_map' = f /\ networks_map' = g
      /\ UNCHANGED <<current_node, current_network>>
      /\ Release([o \in Object |->
                    IF o = current_node THEN node[o]
                    ELSE LET n == KeyOf(f, o) IN [name |-> n, data |-> dataFile.nodes[n]]],
                 [p \in NetObject |->
                    IF p = current_network THEN Expire(network[p], {current_node})
                    ELSE Associated(f, KeyOf(g, p))])

-----------------------------------------------------------------------------
(* Start and end of the program.                                            *)

(* Every key or certificate file names a node, and a network if any, that  *)
(* the manager has after loading.                                          *)
ScanFinds ==
    \A k \in keyFiles : /\ dataFile.nodes[k[1]] # Null
                        /\ k[2] # Null => dataFile.networks[k[2]] # Null

Starts == dataFile = Absent \/ Loadable

(* The node and network named in the configuration file are taken as gnd   *)
(* and gnt: if the manager does not have them the program does not start.  *)
start ==
    /\ ~running
    /\ Starts /\ ScanFinds
    /\ running' = TRUE /\ dirty' = FALSE /\ stray' = FALSE
    /\ loadState
    /\ UNCHANGED <<saving, disk>>

exit ==
    /\ Prompt
    /\ Ends

(* No signal is handled: the program may be ended at any moment.           *)
kill ==
    /\ running
    /\ Ends

(* The user goes on with a new data file and empty directories.            *)
startOver ==
    /\ ~running
    /\ dataFile' = Absent /\ keyFiles' = {}
    /\ dirty' = FALSE /\ stray' = FALSE
    /\ UNCHANGED <<running, memory, freed, saving>>

-----------------------------------------------------------------------------
(* The commands.  One whose guard fails reports it and changes nothing.     *)

Command ==
    /\ Prompt
    /\ UNCHANGED <<running, saving, disk>>

cnd(n, d) ==
    /\ Command
    /\ createNode(n, d)
    /\ dirty' = TRUE /\ UNCHANGED stray

gnd(n) ==
    /\ Command
    /\ nodes_map[n] # Null
    /\ current_node' = nodes_map[n]
    /\ UNCHANGED <<nodes_map, networks_map, current_network, history>>
    /\ Release(node, network)

(* removeNode leaves the associations and the key files as they are.       *)
rnd(n) ==
    /\ Command
    /\ removeNode(n)
    /\ dirty' = TRUE
    /\ stray' = (stray \/ (\E t \in NetworkName : networks_map[t] # Null
                                /\ network[networks_map[t]][n] # Null)
                       \/ (\E k \in keyFiles : k[1] = n))

cnt(t) ==
    /\ Command
    /\ createNetwork(t)
    /\ dirty' = TRUE /\ UNCHANGED stray

gnt(t) ==
    /\ Command
    /\ networks_map[t] # Null
    /\ current_network' = networks_map[t]
    /\ UNCHANGED <<nodes_map, networks_map, current_node, history>>
    /\ Release(node, network)

rnt(t) ==
    /\ Command
    /\ removeNetwork(t)
    /\ dirty' = TRUE
    /\ stray' = (stray \/ \E k \in keyFiles : k[2] = t)

clearCommand ==
    \/ /\ ~StopAllThrows
       /\ Command
       /\ clear
       /\ dirty' = TRUE
       /\ stray' = (stray \/ keyFiles # {})
    \/ /\ Prompt /\ StopAllThrows
       /\ Ends

(* The constructor of the sink empties the file.                           *)
save ==
    /\ Prompt
    /\ saving' = TRUE /\ dataFile' = Torn
    /\ UNCHANGED <<running, memory, freed, keyFiles, history>>

(* Its destructor writes it.  The keys and certificates in memory are in   *)
(* their files already.                                                    *)
saved ==
    /\ saving
    /\ saving' = FALSE /\ dataFile' = saveState
    /\ dirty' = FALSE
    /\ UNCHANGED <<running, memory, freed, keyFiles, stray>>

load ==
    \/ /\ ~StopAllThrows /\ Loadable
       /\ Command
       /\ loadState
       /\ dirty' = FALSE
       /\ stray' = (stray \/ (dirty /\ keyFiles # {}))
    \/ /\ Prompt /\ (StopAllThrows \/ ~Loadable)
       /\ Ends

setU(d) ==
    /\ Command
    /\ current_node # Null /\ current_node \notin active
    /\ node' = [node EXCEPT ![current_node].data = d]
    /\ dirty' = TRUE
    /\ UNCHANGED <<nodes_map, networks_map, network, current_node, current_network,
                   active, freed, stray>>

(* A command that asks the tracker: the node gets a connection, and the    *)
(* answer to register and cp changes what is saved of it.                  *)
ask(d) ==
    /\ Command
    /\ current_node # Null
    /\ active' = active \cup {current_node}
    /\ node' = [node EXCEPT ![current_node].data = d]
    /\ dirty' = (dirty \/ node[current_node].data # d)
    /\ UNCHANGED <<nodes_map, networks_map, network, current_node, current_network,
                   freed, stray>>

(* Mutant: the network is not looked up.                                   *)
GkAnyNetwork(t) ==
    /\ Prompt
    /\ current_node # Null
    /\ keyFiles' = keyFiles \cup {<<node[current_node].name, t>>}
    /\ stray' = (stray \/ ~Managed(current_node))
    /\ UNCHANGED <<running, memory, freed, saving, dataFile, dirty>>

(* The key of the working node, alone or for network t, is written at      *)
(* once.  (The certificate sk gets goes by the name of such a key, that of *)
(* register by the name of the node's key.)                                *)
gk(t) ==
    /\ Prompt
    /\ current_node # Null
    /\ t # Null => networks_map[t] # Null
    /\ keyFiles' = keyFiles \cup {<<node[current_node].name, t>>}
    /\ stray' = (stray \/ ~Managed(current_node))
    /\ UNCHANGED <<running, memory, freed, saving, dataFile, dirty>>

(* stopConnections throws if there is a connection.                        *)
stop ==
    /\ Prompt
    /\ current_node \in active
    /\ Ends

Working == current_node # Null /\ current_network # Null

(* An entry of that name, expired or not, stays what it is.                *)
associateNode(p, o) ==
    network' = [network EXCEPT ![p] =
                  IF network[p][node[o].name] = Null
                  THEN [network[p] EXCEPT ![node[o].name] = o] ELSE network[p]]

addNd ==
    /\ Command
    /\ Working
    /\ associateNode(current_network, current_node)
    /\ dirty' = TRUE
    /\ stray' = (stray \/ (ManagedNetwork(current_network) /\ ~Managed(current_node)))
    /\ UNCHANGED <<nodes_map, networks_map, node, current_node, current_network,
                   active, freed>>

delNd ==
    /\ Command
    /\ Working
    /\ network' = [network EXCEPT ![current_network][node[current_node].name] = Null]
    /\ dirty' = TRUE
    /\ UNCHANGED <<nodes_map, networks_map, node, current_node, current_network,
                   active, freed, stray>>

(* Every associated node is asked, which may give it a connection; one     *)
(* that has expired is a null pointer.                                     *)
getSl ==
    /\ current_network # Null
    /\ LET asked == {network[current_network][n] : n \in NodeName} \ {Null}
       IN  \/ /\ Expired \notin asked
              /\ Command
              /\ \E a \in SUBSET asked : active' = active \cup a
              /\ UNCHANGED <<nodes_map, networks_map, node, network, current_node,
                             current_network, freed, history>>
           \/ /\ Prompt /\ Expired \in asked
              /\ Ends

(* Network::isActive drops the expired associations on its way.            *)
ia ==
    /\ Command
    /\ current_network # Null
    /\ network' = [network EXCEPT ![current_network] =
                     [n \in NodeName |-> IF @[n] = Expired THEN Null ELSE @[n]]]
    /\ dirty' = (dirty \/ network' # network)
    /\ UNCHANGED <<nodes_map, networks_map, node, current_node, current_network,
                   active, freed, stray>>

-----------------------------------------------------------------------------
(* The io_service's threads.                                                *)

(* A connection ends: the deadline is over or the tracker closes it.       *)
closeConnection(o) ==
    /\ running /\ o \in active
    /\ active' = active \ {o}
    /\ UNCHANGED <<running, nodes_map, networks_map, node, network, current_node,
                   current_network, freed, saving, disk, history>>

(* closeConnection runs on a destroyed Node: it may do nothing or harm.    *)
closeFreed ==
    /\ freed
    /\ \/ freed' = FALSE /\ UNCHANGED <<running, memory, saving, disk, history>>
       \/ Ends

Next ==
    \/ start \/ exit \/ kill \/ startOver
    \/ \E n \in NodeName : gnd(n) \/ rnd(n) \/ \E d \in Data : cnd(n, d)
    \/ \E t \in NetworkName : cnt(t) \/ gnt(t) \/ rnt(t)
    \/ clearCommand \/ save \/ saved \/ load
    \/ \E d \in Data : setU(d) \/ ask(d)
    \/ \E t \in NetworkName \cup {Null} : gk(t)
    \/ stop \/ addNd \/ delNd \/ getSl \/ ia
    \/ \E o \in Object : closeConnection(o)
    \/ closeFreed

Spec == Init /\ [][Next]_vars

-----------------------------------------------------------------------------
(* Properties.                                                              *)

(* AssociationsLive: as long as no command took an associated node or a    *)
(* named key away, every node a network of the manager lists is the        *)
(* manager's own node of that name: getAvailableServers meets no expired   *)
(* pointer there, and what is done through the network and through the     *)
(* manager is done to one object.                                          *)
AssociationsLive ==
    ~stray => \A t \in NetworkName, n \in NodeName :
        networks_map[t] # Null /\ network[networks_map[t]][n] # Null
          => /\ nodes_map[n] # Null
             /\ network[networks_map[t]][n] = nodes_map[n]

(* SavedOrDirty: if no command has changed anything since the last save or *)
(* load, the manager's nodes with their users and its networks with their  *)
(* associations are what a complete file holds: loadState brings back all  *)
(* that saveState wrote, and nothing that was in memory before.            *)
SavedOrDirty ==
    Prompt /\ ~dirty /\ dataFile.state = "complete" =>
      /\ \A n \in NodeName :
           /\ (nodes_map[n] = Null) = (dataFile.nodes[n] = Null)
           /\ nodes_map[n] # Null => node[nodes_map[n]].data = dataFile.nodes[n]
      /\ \A t \in NetworkName :
           /\ (networks_map[t] = Null) = (dataFile.networks[t] = Null)
           /\ networks_map[t] # Null =>
                \A n \in NodeName :
                  (network[networks_map[t]][n] # Null) = (n \in dataFile.networks[t])

(* CleanExitRestarts: a program that ended, in whatever way, with nothing  *)
(* to save, with no save under way and with nothing taken away that an     *)
(* association or a key file names, starts again: loadState does not throw *)
(* and scanForPrivKeys and scanForCerts find every node and network.       *)
CleanExitRestarts ==
    ~running /\ ~dirty /\ ~stray /\ dataFile.state # "torn" => Starts /\ ScanFinds
=============================================================================
