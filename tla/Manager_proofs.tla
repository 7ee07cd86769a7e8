--------------------------- MODULE Manager_proofs ---------------------------
(***************************************************************************)
(* The console client and its Manager for any nodes, networks and objects: *)
(* no pointer of the program refers to a destroyed object, associations    *)
(* are live, the saved file matches the memory until something changes,    *)
(* and a program that ended cleanly can be started again.                  *)
(***************************************************************************)
EXTENDS Manager, TLAPS

NodeRecord == [name : NodeName, data : Data]

NodeSet == [NodeName -> Object \cup {Null, Expired}]

(* TypeOK by what it is about: the program's objects ...                   *)
MemTypes ==
    /\ nodes_map \in [NodeName -> Object \cup {Null}]
    /\ networks_map \in [NetworkName -> NetObject \cup {Null}]
    /\ node \in [Object -> NodeRecord \cup {Null}]
    /\ network \in [NetObject -> NodeSet \cup {Null}]
    /\ current_node \in Object \cup {Null}
    /\ current_network \in NetObject \cup {Null}
    /\ active \subseteq Object

(* ... that no pointer dangles, and the map goes by the names ...          *)
Pointers ==
    /\ \A n \in NodeName : nodes_map[n] # Null => /\ node[nodes_map[n]] # Null
                                                  /\ node[nodes_map[n]].name = n
    /\ \A t \in NetworkName : networks_map[t] # Null => network[networks_map[t]] # Null
    /\ current_node # Null => node[current_node] # Null
    /\ current_network # Null => network[current_network] # Null

(* ... and the flags and files.                                            *)
FlagTypes ==
    /\ running \in BOOLEAN /\ freed \in BOOLEAN /\ saving \in BOOLEAN
    /\ dirty \in BOOLEAN /\ stray \in BOOLEAN

DiskTypes ==
    /\ dataFile \in [state : {"absent", "torn", "complete"},
                     nodes : [NodeName -> Data \cup {Null}],
                     networks : [NetworkName -> (SUBSET NodeName) \cup {Null}]]
    /\ keyFiles \subseteq NodeName \X (NetworkName \cup {Null})

(* The memory is what the file holds.                                      *)
Matches ==
    /\ \A n \in NodeName :
         /\ (nodes_map[n] = Null) = (dataFile.nodes[n] = Null)
         /\ nodes_map[n] # Null => node[nodes_map[n]].data = dataFile.nodes[n]
    /\ \A t \in NetworkName :
         /\ (networks_map[t] = Null) = (dataFile.networks[t] = Null)
         /\ networks_map[t] # Null =>
              \A n \in NodeName :
                (network[networks_map[t]][n] # Null) = (n \in dataFile.networks[t])

(* SavedOrDirty, also while there is no file yet.                          *)
FileMatches == Prompt /\ ~dirty /\ dataFile.state # "torn" => Matches

(* Every key file goes by the names of a node and a network in memory.     *)
KeysFound ==
    running /\ ~stray =>
        \A k \in keyFiles : /\ nodes_map[k[1]] # Null
                            /\ k[2] # Null => networks_map[k[2]] # Null

(* The file is torn from the start of a save to its end, and a program     *)
(* that has ended has no network in memory.                                *)
Phases ==
    /\ ~running => \A t \in NetworkName : networks_map[t] = Null
    /\ saving => running /\ dataFile.state = "torn"
    /\ dataFile.state = "absent" => dataFile = Absent

IInv ==
    /\ TypeOK
    /\ AssociationsLive
    /\ FileMatches
    /\ KeysFound
    /\ Phases
    /\ CleanExitRestarts

-----------------------------------------------------------------------------
(* Objects.                                                                *)

(* The parts make up TypeOK.                                               *)
LEMMA TypeParts == TypeOK <=> MemTypes /\ Pointers /\ FlagTypes /\ DiskTypes
  BY DEF TypeOK, MemTypes, Pointers, FlagTypes, DiskTypes, NodeRecord, NodeSet

(* No object, entry or name is Null.                                       *)
LEMMA NotNull ==
  /\ Null \notin Object /\ Null \notin NetObject /\ Null \notin Data
  /\ Null \notin NodeName /\ Null \notin NetworkName
  /\ Null \notin NodeRecord /\ Null \notin NodeSet /\ Null \notin SUBSET NodeName
  /\ Expired # Null /\ Expired \notin Object
  BY ManagerAssumption DEF NodeRecord, NodeSet

(* The objects that a map and the console hold.                            *)
LEMMA HeldObjects ==
  ASSUME NEW K, NEW S, NEW map \in [K -> S \cup {Null}], NEW cur \in S \cup {Null},
         Null \notin S
  PROVE  /\ Held(map, cur) \subseteq S
         /\ \A k \in K : map[k] # Null => map[k] \in Held(map, cur)
         /\ cur # Null => cur \in Held(map, cur)
         /\ Null \notin Held(map, cur)
         /\ \A o \in Held(map, cur) : o = cur \/ \E k \in K : o = map[k]
  BY DEF Held

(* What the destructors leave behind: every object the maps and the        *)
(* console hold, as it was meant to be, and nothing else.                  *)
LEMMA Released ==
  ASSUME nodes_map' \in [NodeName -> Object \cup {Null}],
         networks_map' \in [NetworkName -> NetObject \cup {Null}],
         current_node' \in Object \cup {Null},
         current_network' \in NetObject \cup {Null},
         active \subseteq Object,
         NEW nodes, NEW networks,
         \A o \in Held(nodes_map', current_node') : nodes[o] \in NodeRecord,
         \A n \in NodeName : nodes_map'[n] # Null => nodes[nodes_map'[n]].name = n,
         \A p \in Held(networks_map', current_network') : networks[p] \in NodeSet,
         Release(nodes, networks)
  PROVE  /\ MemTypes' /\ Pointers' /\ freed' \in BOOLEAN
         /\ \A o \in Held(nodes_map', current_node') : node'[o] = nodes[o]
         /\ \A p \in Held(networks_map', current_network'), n \in NodeName :
              /\ (network'[p][n] = Null) = (networks[p][n] = Null)
              /\ networks[p][n] \in Held(nodes_map', current_node')
                    => network'[p][n] = networks[p][n]
  <1> DEFINE held == Held(nodes_map', current_node')
             kept == Held(networks_map', current_network')
  <1>1. /\ node' = [o \in Object |-> IF o \in held THEN nodes[o] ELSE Null]
        /\ network' = [p \in NetObject |->
                         IF p \in kept THEN Expire(networks[p], held) ELSE Null]
        /\ active' = active \cap held
        /\ freed' = (freed \/ active \ held # {})
    BY DEF Release
  <1>2. /\ held \subseteq Object /\ Null \notin held
        /\ \A n \in NodeName : nodes_map'[n] # Null => nodes_map'[n] \in held
        /\ current_node' # Null => current_node' \in held
    BY HeldObjects, NotNull
  <1>3. /\ kept \subseteq NetObject
        /\ \A t \in NetworkName : networks_map'[t] # Null => networks_map'[t] \in kept
        /\ current_network' # Null => current_network' \in kept
    BY HeldObjects, NotNull
  <1> HIDE DEF held, kept
  <1>4. ASSUME NEW s \in NodeSet
        PROVE  /\ Expire(s, held) \in NodeSet
               /\ \A n \in NodeName : /\ (Expire(s, held)[n] = Null) = (s[n] = Null)
                                      /\ s[n] \in held => Expire(s, held)[n] = s[n]
    BY NotNull, <1>2 DEF Expire, NodeSet
  <1>5. \A o \in held : node'[o] = nodes[o] /\ node'[o] \in NodeRecord /\ node'[o] # Null
    BY <1>1, <1>2, NotNull DEF held
  <1>6. node' \in [Object -> NodeRecord \cup {Null}]
    BY <1>1, <1>2 DEF held
  <1>7. \A p \in kept : /\ network'[p] = Expire(networks[p], held)
                         /\ network'[p] \in NodeSet /\ network'[p] # Null
    BY <1>1, <1>3, <1>4, NotNull DEF kept
  <1>8. network' \in [NetObject -> NodeSet \cup {Null}]
    BY <1>1, <1>3, <1>4 DEF kept
  <1>9. MemTypes'
    BY <1>1, <1>6, <1>8 DEF MemTypes
  <1>10. Pointers'
    BY <1>2, <1>3, <1>5, <1>7 DEF Pointers
  <1>11. freed' \in BOOLEAN
    BY <1>1
  <1>12. \A p \in kept, n \in NodeName :
              /\ (network'[p][n] = Null) = (networks[p][n] = Null)
              /\ networks[p][n] \in held => network'[p][n] = networks[p][n]
    BY <1>4, <1>7 DEF kept
  <1> QED
    BY <1>5, <1>9, <1>10, <1>11, <1>12 DEF held, kept

(* What Release keeps of the manager's nodes and networks.                 *)
NodesKept ==
    \A n \in NodeName : nodes_map'[n] # Null => node'[nodes_map'[n]] = node[nodes_map'[n]]

NetworksKept ==
    \A t \in NetworkName : networks_map'[t] # Null =>
        \A n \in NodeName :
            LET before == network[networks_map'[t]][n]
                after == network'[networks_map'[t]][n]
            IN  /\ (after = Null) = (before = Null)
                /\ before # Null /\ before = nodes_map'[n] => after = before

(* A step that only gives objects up, or moves the console to another.     *)
LEMMA ReleaseStep ==
  ASSUME MemTypes, Pointers,
         nodes_map' \in [NodeName -> Object \cup {Null}],
         networks_map' \in [NetworkName -> NetObject \cup {Null}],
         current_node' \in Object \cup {Null},
         current_network' \in NetObject \cup {Null},
         \A n \in NodeName : nodes_map'[n] \in {Null, nodes_map[n]},
         \A t \in NetworkName : networks_map'[t] \in {Null, networks_map[t]},
         current_node' # Null => node[current_node'] # Null,
         current_network' # Null => network[current_network'] # Null,
         Release(node, network)
  PROVE  MemTypes' /\ Pointers' /\ freed' \in BOOLEAN /\ NodesKept /\ NetworksKept
  <1>1. \A o \in Held(nodes_map', current_node') : o \in Object /\ node[o] # Null
    BY HeldObjects, NotNull DEF Pointers
  <1>2. \A o \in Held(nodes_map', current_node') : node[o] \in NodeRecord
    BY <1>1 DEF MemTypes
  <1>3. \A n \in NodeName : nodes_map'[n] # Null => node[nodes_map'[n]].name = n
    BY DEF Pointers
  <1>4. \A p \in Held(networks_map', current_network') : p \in NetObject /\ network[p] # Null
    BY HeldObjects, NotNull DEF Pointers
  <1>5. \A p \in Held(networks_map', current_network') : network[p] \in NodeSet
    BY <1>4 DEF MemTypes
  <1>6. active \subseteq Object
    BY DEF MemTypes
  <1>7. /\ MemTypes' /\ Pointers' /\ freed' \in BOOLEAN
        /\ \A o \in Held(nodes_map', current_node') : node'[o] = node[o]
        /\ \A p \in Held(networks_map', current_network'), n \in NodeName :
             /\ (network'[p][n] = Null) = (network[p][n] = Null)
             /\ network[p][n] \in Held(nodes_map', current_node')
                   => network'[p][n] = network[p][n]
    BY <1>2, <1>3, <1>5, <1>6, Released
  <1>8. /\ \A n \in NodeName : nodes_map'[n] # Null => nodes_map'[n] \in Held(nodes_map', current_node')
        /\ \A t \in NetworkName :
             networks_map'[t] # Null => networks_map'[t] \in Held(networks_map', current_network')
    BY HeldObjects, NotNull
  <1> QED
    BY <1>7, <1>8 DEF NodesKept, NetworksKept

-----------------------------------------------------------------------------
(* Loading.                                                                *)

(* Every new object belongs to one name.                                   *)
LEMMA KeyUnique ==
  ASSUME NEW K, NEW new, DOMAIN new = K, NEW entries, NewObjects(new, entries),
         NEW k \in K, new[k] # Null
  PROVE  KeyOf(new, new[k]) = k /\ entries[k] # Null
  BY DEF KeyOf, NewObjects

(* The fields of the file.                                                 *)
LEMMA FileFields ==
  ASSUME DiskTypes
  PROVE  /\ dataFile.nodes \in [NodeName -> Data \cup {Null}]
         /\ dataFile.networks \in [NetworkName -> (SUBSET NodeName) \cup {Null}]
         /\ dataFile.state \in {"absent", "torn", "complete"}
         /\ dataFile = Absent => /\ dataFile.state = "absent"
                                 /\ \A n \in NodeName : dataFile.nodes[n] = Null
                                 /\ \A t \in NetworkName : dataFile.networks[t] = Null
  BY DEF DiskTypes, Absent, Torn, NoNodes, NoNetworks

(* Every association a network of the manager has is live.                 *)
Live ==
    \A t \in NetworkName, n \in NodeName :
        networks_map[t] # Null /\ network[networks_map[t]][n] # Null
          => /\ nodes_map[n] # Null
             /\ network[networks_map[t]][n] = nodes_map[n]

(* loadState brings back what the file holds, with live associations.      *)
LEMMA Loaded ==
  ASSUME MemTypes, Pointers, DiskTypes, Starts, loadState, UNCHANGED dataFile
  PROVE  MemTypes' /\ Pointers' /\ freed' \in BOOLEAN /\ Matches' /\ Live'
  <1>1. PICK f \in [NodeName -> (Object \ {current_node}) \cup {Null}],
             g \in [NetworkName -> (NetObject \ {current_network}) \cup {Null}] :
          /\ NewObjects(f, dataFile.nodes) /\ NewObjects(g, dataFile.networks)
          /\ nodes_map' = f /\ networks_map' = g
          /\ UNCHANGED <<current_node, current_network>>
          /\ Release([o \in Object |->
                        IF o = current_node THEN node[o]
                        ELSE LET n == KeyOf(f, o) IN [name |-> n, data |-> dataFile.nodes[n]]],
                     [p \in NetObject |->
                        IF p = current_network THEN Expire(network[p], {current_node})
                        ELSE Associated(f, KeyOf(g, p))])
    BY DEF loadState
  <1> DEFINE nodes == [o \in Object |->
                        IF o = current_node THEN node[o]
                        ELSE LET n == KeyOf(f, o) IN [name |-> n, data |-> dataFile.nodes[n]]]
             networks == [p \in NetObject |->
                        IF p = current_network THEN Expire(network[p], {current_node})
                        ELSE Associated(f, KeyOf(g, p))]
  <1>2. /\ \A n \in NodeName : (f[n] = Null) = (dataFile.nodes[n] = Null)
        /\ \A t \in NetworkName : (g[t] = Null) = (dataFile.networks[t] = Null)
    BY <1>1 DEF NewObjects
  <1>3. /\ nodes_map' \in [NodeName -> Object \cup {Null}]
        /\ networks_map' \in [NetworkName -> NetObject \cup {Null}]
        /\ current_node' \in Object \cup {Null} /\ current_network' \in NetObject \cup {Null}
        /\ active \subseteq Object
    BY <1>1 DEF MemTypes
  <1>4. ASSUME NEW n \in NodeName, f[n] # Null
        PROVE  /\ f[n] \in Object
               /\ nodes[f[n]].name = n /\ nodes[f[n]].data = dataFile.nodes[n]
               /\ nodes[f[n]] \in NodeRecord
    <2>1. KeyOf(f, f[n]) = n /\ dataFile.nodes[n] # Null
      BY <1>1, <1>4, KeyUnique
    <2>2. f[n] \in Object /\ f[n] # current_node
      BY <1>1, <1>4
    <2> QED
      BY <2>1, <2>2, FileFields DEF NodeRecord
  <1>5. ASSUME NEW t \in NetworkName, g[t] # Null
        PROVE  /\ g[t] \in NetObject
               /\ networks[g[t]] = Associated(f, t)
               /\ networks[g[t]] \in NodeSet
    <2>1. KeyOf(g, g[t]) = t /\ dataFile.networks[t] # Null
      BY <1>1, <1>5, KeyUnique
    <2>2. g[t] \in NetObject /\ g[t] # current_network
      BY <1>1, <1>5
    <2>3. Associated(f, t) \in NodeSet
      BY <1>1 DEF Associated, NodeSet
    <2> QED
      BY <2>1, <2>2, <2>3
  <1>6. current_node # Null => nodes[current_node] \in NodeRecord
    BY DEF MemTypes, Pointers
  <1>7. current_network # Null => networks[current_network] \in NodeSet
    <2>1. ASSUME NEW s \in NodeSet PROVE Expire(s, {current_node}) \in NodeSet
      BY DEF Expire, NodeSet
    <2> QED
      BY <2>1 DEF MemTypes, Pointers
  <1>8. Release(nodes, networks)
    BY <1>1
  <1> HIDE DEF nodes, networks
  <1>a. nodes_map' = f /\ networks_map' = g /\ UNCHANGED <<current_node, current_network>>
    BY <1>1
  <1>b. /\ Held(nodes_map', current_node') \subseteq Object
        /\ \A n \in NodeName : f[n] # Null => f[n] \in Held(nodes_map', current_node')
        /\ Null \notin Held(nodes_map', current_node')
        /\ \A o \in Held(nodes_map', current_node') :
              o = current_node \/ \E n \in NodeName : o = f[n]
    BY <1>a, <1>3, HeldObjects, NotNull
  <1>c. /\ Held(networks_map', current_network') \subseteq NetObject
        /\ \A t \in NetworkName : g[t] # Null => g[t] \in Held(networks_map', current_network')
        /\ Null \notin Held(networks_map', current_network')
        /\ \A p \in Held(networks_map', current_network') :
              p = current_network \/ \E t \in NetworkName : p = g[t]
    BY <1>a, <1>3, HeldObjects, NotNull
  <1>9. \A o \in Held(nodes_map', current_node') : nodes[o] \in NodeRecord
    BY <1>b, <1>4, <1>6
  <1>10. \A p \in Held(networks_map', current_network') : networks[p] \in NodeSet
    BY <1>c, <1>5, <1>7
  <1>11. \A n \in NodeName : nodes_map'[n] # Null => nodes[nodes_map'[n]].name = n
    BY <1>a, <1>4
  <1>12. /\ MemTypes' /\ Pointers' /\ freed' \in BOOLEAN
         /\ \A o \in Held(nodes_map', current_node') : node'[o] = nodes[o]
         /\ \A p \in Held(networks_map', current_network'), n \in NodeName :
              /\ (network'[p][n] = Null) = (networks[p][n] = Null)
              /\ networks[p][n] \in Held(nodes_map', current_node')
                    => network'[p][n] = networks[p][n]
    BY <1>3, <1>8, <1>9, <1>10, <1>11, Released
  <1>13. /\ \A n \in NodeName : f[n] # Null => f[n] \in Held(nodes_map', current_node')
         /\ \A t \in NetworkName : g[t] # Null => g[t] \in Held(networks_map', current_network')
    BY <1>b, <1>c
  <1>14. \A n \in NodeName : f[n] # Null => node'[f[n]].data = dataFile.nodes[n]
    BY <1>4, <1>12, <1>13
  <1>15. ASSUME NEW t \in NetworkName, g[t] # Null, NEW n \in NodeName
         PROVE  /\ (network'[g[t]][n] # Null) = (n \in dataFile.networks[t])
                /\ network'[g[t]][n] # Null => f[n] # Null /\ network'[g[t]][n] = f[n]
    <2>1. networks[g[t]][n] = IF n \in dataFile.networks[t] THEN f[n] ELSE Null
      BY <1>5, <1>15 DEF Associated
    <2>2. n \in dataFile.networks[t] => f[n] # Null
      <3>1. dataFile.networks[t] # Null
        BY <1>2, <1>15
      <3>2. Loadable
        BY <3>1, FileFields DEF Starts
      <3> QED
        BY <1>2, <3>1, <3>2 DEF Loadable
    <2>3. /\ (network'[g[t]][n] = Null) = (networks[g[t]][n] = Null)
          /\ networks[g[t]][n] \in Held(nodes_map', current_node')
                => network'[g[t]][n] = networks[g[t]][n]
      BY <1>12, <1>13, <1>15
    <2> QED
      BY <2>1, <2>2, <2>3, <1>13
  <1>16. Matches'
    BY <1>1, <1>2, <1>14, <1>15 DEF Matches
  <1>17. Live'
    BY <1>1, <1>15 DEF Live
  <1> QED
    BY <1>12, <1>16, <1>17

-----------------------------------------------------------------------------
(* The end of the program.                                                 *)

(* A running program with nothing to save leaves a file it can start on.   *)
LEMMA CleanEnd ==
  ASSUME IInv, running, ~dirty, ~stray, dataFile.state # "torn"
  PROVE  Starts /\ ScanFinds
  <1>1. DiskTypes
    BY TypeParts DEF IInv
  <1>2. Matches
    BY DEF IInv, FileMatches, Phases, Prompt
  <1>3. ScanFinds
    <2>1. \A k \in keyFiles : k[1] \in NodeName /\ (k[2] # Null => k[2] \in NetworkName)
      BY <1>1 DEF DiskTypes
    <2> QED
      BY <1>2, <2>1 DEF IInv, KeysFound, Matches, ScanFinds
  <1>4. CASE dataFile.state = "absent"
    BY <1>3, <1>4 DEF IInv, Phases, Starts
  <1>5. CASE dataFile.state = "complete"
    <2>1. ASSUME NEW t \in NetworkName, dataFile.networks[t] # Null,
                 NEW n \in dataFile.networks[t]
          PROVE  dataFile.nodes[n] # Null
      <3>1. n \in NodeName
        BY <2>1, <1>1, FileFields
      <3>2. networks_map[t] # Null /\ network[networks_map[t]][n] # Null
        BY <1>2, <2>1, <3>1 DEF Matches
      <3>3. nodes_map[n] # Null
        BY <3>1, <3>2 DEF IInv, AssociationsLive
      <3> QED
        BY <1>2, <3>1, <3>3 DEF Matches
    <2> QED
      BY <1>3, <1>5, <2>1 DEF Starts, Loadable
  <1> QED
    BY <1>1, <1>4, <1>5, FileFields

(* The program may end at any moment.                                      *)
LEMMA EndStep == IInv /\ Ends => IInv'
  <1> SUFFICES ASSUME IInv, Ends PROVE IInv'
    OBVIOUS
  <1>1. MemTypes /\ DiskTypes /\ FlagTypes
    BY TypeParts DEF IInv
  <1>2. /\ running' = FALSE /\ saving' = FALSE /\ freed' = FALSE
        /\ nodes_map' = NoNodes /\ node' = [o \in Object |-> Null]
        /\ networks_map' = NoNetworks /\ network' = [p \in NetObject |-> Null]
        /\ current_node' = Null /\ current_network' = Null /\ active' = {}
        /\ UNCHANGED <<dataFile, keyFiles, dirty, stray>>
    BY DEF Ends, disk, history
  <1>3. MemTypes' /\ Pointers' /\ DiskTypes'
    BY <1>1, <1>2 DEF MemTypes, Pointers, DiskTypes, NoNodes, NoNetworks
  <1>4. FlagTypes'
    BY <1>1, <1>2 DEF FlagTypes
  <1>5. AssociationsLive' /\ FileMatches' /\ KeysFound' /\ Phases'
    BY <1>2 DEF IInv, AssociationsLive, FileMatches, KeysFound, Phases, Prompt, NoNetworks
  <1>6. CleanExitRestarts'
    <2>1. ~dirty /\ ~stray /\ dataFile.state # "torn" => Starts /\ ScanFinds
      BY CleanEnd DEF IInv, CleanExitRestarts
    <2> QED
      BY <1>2, <2>1 DEF CleanExitRestarts, Starts, ScanFinds, Loadable
  <1> QED
    BY <1>3, <1>4, <1>5, <1>6, TypeParts, PTL DEF IInv

-----------------------------------------------------------------------------
(* The commands.                                                           *)

(* What is left to show of a command.                                      *)
LEMMA CommandStep ==
  ASSUME IInv, Prompt, UNCHANGED <<running, saving, dataFile, keyFiles>>,
         MemTypes', Pointers', freed' \in BOOLEAN, dirty' \in BOOLEAN, stray' \in BOOLEAN,
         AssociationsLive', FileMatches', KeysFound'
  PROVE  IInv'
  <1>1. FlagTypes /\ DiskTypes
    BY TypeParts DEF IInv
  <1>2. FlagTypes' /\ DiskTypes'
    BY <1>1 DEF FlagTypes, DiskTypes
  <1>3. Phases' /\ CleanExitRestarts'
    BY DEF IInv, Phases, CleanExitRestarts, Prompt
  <1> QED
    BY <1>2, <1>3, TypeParts, PTL DEF IInv

(* Associations stay live where the nodes they name stay.                  *)
LEMMA ReleaseLive ==
  ASSUME AssociationsLive, NetworksKept, ~stray' => ~stray,
         \A t \in NetworkName : networks_map'[t] \in {Null, networks_map[t]},
         ~stray' => \A t \in NetworkName, n \in NodeName :
             networks_map'[t] # Null /\ network[networks_map[t]][n] # Null
               => nodes_map'[n] = nodes_map[n]
  PROVE  AssociationsLive'
  BY DEF AssociationsLive, NetworksKept

(* The console takes another working node or network.                      *)
LEMMA GetStep ==
  ASSUME IInv, Command, UNCHANGED <<nodes_map, networks_map, dirty, stray>>,
         \/ /\ UNCHANGED current_network
            /\ \E n \in NodeName : nodes_map[n] # Null /\ current_node' = nodes_map[n]
         \/ /\ UNCHANGED current_node
            /\ \E t \in NetworkName : networks_map[t] # Null /\ current_network' = networks_map[t],
         Release(node, network)
  PROVE  IInv'
  <1>1. MemTypes /\ Pointers /\ FlagTypes
    BY TypeParts DEF IInv
  <1>2. /\ current_node' \in Object \cup {Null} /\ current_network' \in NetObject \cup {Null}
        /\ current_node' # Null => node[current_node'] # Null
        /\ current_network' # Null => network[current_network'] # Null
    BY <1>1 DEF MemTypes, Pointers
  <1>3. MemTypes' /\ Pointers' /\ freed' \in BOOLEAN /\ NodesKept /\ NetworksKept
    BY <1>1, <1>2, ReleaseStep DEF MemTypes
  <1>4. Prompt /\ UNCHANGED <<running, saving, dataFile, keyFiles>>
    BY DEF Command, disk
  <1>5. AssociationsLive'
    BY <1>3, ReleaseLive DEF IInv
  <1>6. Matches => Matches'
    BY <1>3, <1>4 DEF Matches, NodesKept, NetworksKept
  <1>7. FileMatches' /\ KeysFound'
    BY <1>4, <1>6 DEF IInv, FileMatches, KeysFound, Prompt
  <1> QED
    BY <1>1, <1>3, <1>4, <1>5, <1>7, CommandStep DEF FlagTypes

(* A node, a network or all of them are removed from the manager.          *)
LEMMA RemoveStep ==
  ASSUME IInv, Command, dirty' = TRUE, stray' \in BOOLEAN, stray => stray',
         nodes_map' \in [NodeName -> Object \cup {Null}],
         networks_map' \in [NetworkName -> NetObject \cup {Null}],
         \A n \in NodeName : nodes_map'[n] \in {Null, nodes_map[n]},
         \A t \in NetworkName : networks_map'[t] \in {Null, networks_map[t]},
         UNCHANGED <<current_node, current_network>>,
         ~stray' => \A t \in NetworkName, n \in NodeName :
             networks_map'[t] # Null /\ network[networks_map[t]][n] # Null
               => nodes_map'[n] = nodes_map[n],
         ~stray' => \A k \in keyFiles :
             /\ nodes_map'[k[1]] = nodes_map[k[1]]
             /\ k[2] # Null => networks_map'[k[2]] = networks_map[k[2]],
         Release(node, network)
  PROVE  IInv'
  <1>1. MemTypes /\ Pointers
    BY TypeParts DEF IInv
  <1>2. /\ current_node' \in Object \cup {Null} /\ current_network' \in NetObject \cup {Null}
        /\ current_node' # Null => node[current_node'] # Null
        /\ current_network' # Null => network[current_network'] # Null
    BY <1>1 DEF MemTypes, Pointers
  <1>3. MemTypes' /\ Pointers' /\ freed' \in BOOLEAN /\ NodesKept /\ NetworksKept
    BY <1>1, <1>2, ReleaseStep
  <1>4. Prompt /\ UNCHANGED <<running, saving, dataFile, keyFiles>>
    BY DEF Command, disk
  <1>5. AssociationsLive'
    BY <1>3, ReleaseLive DEF IInv
  <1>6. FileMatches'
    BY DEF FileMatches
  <1>7. KeysFound'
    BY <1>4 DEF IInv, KeysFound
  <1> QED
    BY <1>3, <1>4, <1>5, <1>6, <1>7, CommandStep

(* rnd, rnt and clear.                                                     *)
LEMMA Removals ==
  ASSUME IInv,
         \/ \E n \in NodeName : rnd(n)
         \/ \E t \in NetworkName : rnt(t)
         \/ clearCommand /\ Command
  PROVE  IInv'
  <1>1. MemTypes /\ FlagTypes /\ DiskTypes
    BY TypeParts DEF IInv
  <1>a. \A k \in keyFiles : k[1] \in NodeName /\ (k[2] # Null => k[2] \in NetworkName)
    BY <1>1 DEF DiskTypes
  <1>2. ASSUME NEW n \in NodeName, rnd(n) PROVE IInv'
    <2>1. /\ Command /\ dirty' = TRUE /\ Release(node, network)
          /\ nodes_map' = [nodes_map EXCEPT ![n] = Null]
          /\ UNCHANGED <<networks_map, current_node, current_network>>
          /\ stray' = (stray \/ (\E t \in NetworkName : networks_map[t] # Null
                                  /\ network[networks_map[t]][n] # Null)
                             \/ (\E k \in keyFiles : k[1] = n))
      BY <1>2 DEF rnd, removeNode
    <2>2. stray' \in BOOLEAN /\ (stray => stray')
      BY <2>1, <1>1 DEF FlagTypes
    <2>3. /\ nodes_map' \in [NodeName -> Object \cup {Null}]
          /\ \A m \in NodeName : nodes_map'[m] = IF m = n THEN Null ELSE nodes_map[m]
      BY <2>1, <1>1 DEF MemTypes
    <2>4. ~stray' => \A t \in NetworkName, m \in NodeName :
              networks_map'[t] # Null /\ network[networks_map[t]][m] # Null
                => nodes_map'[m] = nodes_map[m]
      BY <2>1, <2>3
    <2>5. ~stray' => \A k \in keyFiles :
              /\ nodes_map'[k[1]] = nodes_map[k[1]]
              /\ k[2] # Null => networks_map'[k[2]] = networks_map[k[2]]
      BY <2>1, <2>3, <1>a
    <2> QED
      BY <1>1, <2>1, <2>2, <2>3, <2>4, <2>5, RemoveStep DEF MemTypes
  <1>3. ASSUME NEW t \in NetworkName, rnt(t) PROVE IInv'
    <2>1. /\ Command /\ dirty' = TRUE /\ Release(node, network)
          /\ networks_map' = [networks_map EXCEPT ![t] = Null]
          /\ UNCHANGED <<nodes_map, current_node, current_network>>
          /\ stray' = (stray \/ \E k \in keyFiles : k[2] = t)
      BY <1>3 DEF rnt, removeNetwork
    <2>2. stray' \in BOOLEAN /\ (stray => stray')
      BY <2>1, <1>1 DEF FlagTypes
    <2>3. /\ networks_map' \in [NetworkName -> NetObject \cup {Null}]
          /\ \A u \in NetworkName : networks_map'[u] = IF u = t THEN Null ELSE networks_map[u]
      BY <2>1, <1>1 DEF MemTypes
    <2>4. ~stray' => \A k \in keyFiles :
              /\ nodes_map'[k[1]] = nodes_map[k[1]]
              /\ k[2] # Null => networks_map'[k[2]] = networks_map[k[2]]
      BY <2>1, <2>3, <1>a
    <2> QED
      BY <1>1, <2>1, <2>2, <2>3, <2>4, RemoveStep DEF MemTypes
  <1>4. CASE clearCommand /\ Command
    <2>1. /\ dirty' = TRUE /\ Release(node, network)
          /\ nodes_map' = NoNodes /\ networks_map' = NoNetworks
          /\ UNCHANGED <<current_node, current_network>>
          /\ stray' = (stray \/ keyFiles # {})
      BY <1>4 DEF clearCommand, clear, Ends, Command, Prompt
    <2>2. stray' \in BOOLEAN /\ (stray => stray')
      BY <2>1, <1>1 DEF FlagTypes
    <2>3. /\ nodes_map' \in [NodeName -> Object \cup {Null}]
          /\ networks_map' \in [NetworkName -> NetObject \cup {Null}]
          /\ \A n \in NodeName : nodes_map'[n] = Null
          /\ \A t \in NetworkName : networks_map'[t] = Null
      BY <2>1 DEF NoNodes, NoNetworks
    <2>4. ~stray' => keyFiles = {}
      BY <2>1
    <2> QED
      BY <1>4, <2>1, <2>2, <2>3, <2>4, RemoveStep
  <1> QED
    BY <1>2, <1>3, <1>4

(* A new node: no association of that name was left over.                  *)
LEMMA CreateNodeStep ==
  ASSUME IInv, NEW n \in NodeName, NEW d \in Data, cnd(n, d)
  PROVE  IInv'
  <1>1. MemTypes /\ Pointers /\ FlagTypes
    BY TypeParts DEF IInv
  <1>2. PICK o \in Object : /\ node[o] = Null
                            /\ nodes_map' = [nodes_map EXCEPT ![n] = o]
                            /\ node' = [node EXCEPT ![o] = [name |-> n, data |-> d]]
    BY DEF cnd, createNode
  <1>3. /\ Prompt /\ UNCHANGED <<running, saving, dataFile, keyFiles>>
        /\ UNCHANGED <<networks_map, network, current_node, current_network, active, freed, stray>>
        /\ dirty' = TRUE /\ nodes_map[n] = Null
    BY DEF cnd, createNode, Command, disk
  <1>4. [name |-> n, data |-> d] \in NodeRecord /\ [name |-> n, data |-> d] # Null
    BY NotNull DEF NodeRecord
  <1>5. /\ \A m \in NodeName : nodes_map'[m] = IF m = n THEN o ELSE nodes_map[m]
        /\ node'[o] # Null /\ node'[o].name = n
        /\ \A x \in Object : x # o => node'[x] = node[x]
    BY <1>1, <1>2, <1>4 DEF MemTypes
  <1>6. MemTypes'
    BY <1>1, <1>2, <1>3, <1>4 DEF MemTypes
  <1>7. Pointers'
    BY <1>1, <1>2, <1>3, <1>5 DEF MemTypes, Pointers
  <1>8. AssociationsLive'
    BY <1>3, <1>5 DEF IInv, AssociationsLive
  <1>9. FileMatches'
    BY <1>3 DEF FileMatches
  <1>10. KeysFound'
    <2>1. \A m \in NodeName : nodes_map[m] # Null => nodes_map'[m] # Null
      BY <1>2, <1>5, NotNull
    <2>2. \A k \in keyFiles : k[1] \in NodeName
      BY TypeParts DEF IInv, DiskTypes
    <2> QED
      BY <1>3, <2>1, <2>2 DEF IInv, KeysFound
  <1> QED
    BY <1>1, <1>3, <1>6, <1>7, <1>8, <1>9, <1>10, CommandStep DEF FlagTypes

(* A new network.                                                          *)
LEMMA CreateNetworkStep ==
  ASSUME IInv, NEW t \in NetworkName, cnt(t)
  PROVE  IInv'
  <1>1. MemTypes /\ Pointers /\ FlagTypes
    BY TypeParts DEF IInv
  <1>2. PICK p \in NetObject : /\ network[p] = Null
                               /\ networks_map' = [networks_map EXCEPT ![t] = p]
                               /\ network' = [network EXCEPT ![p] = NoNodes]
    BY DEF cnt, createNetwork
  <1>3. /\ Prompt /\ UNCHANGED <<running, saving, dataFile, keyFiles>>
        /\ UNCHANGED <<nodes_map, node, current_node, current_network, active, freed, stray>>
        /\ dirty' = TRUE
    BY DEF cnt, createNetwork, Command, disk
  <1>4. NoNodes \in NodeSet /\ NoNodes # Null /\ \A n \in NodeName : NoNodes[n] = Null
    BY NotNull DEF NoNodes, NodeSet
  <1>5. /\ \A u \in NetworkName : networks_map'[u] = IF u = t THEN p ELSE networks_map[u]
        /\ network'[p] = NoNodes
        /\ \A x \in NetObject : x # p => network'[x] = network[x]
    BY <1>1, <1>2 DEF MemTypes
  <1>6. MemTypes'
    BY <1>1, <1>2, <1>3, <1>4 DEF MemTypes
  <1>a. \A u \in NetworkName : u # t /\ networks_map[u] # Null =>
           networks_map[u] # p /\ networks_map[u] \in NetObject
    BY <1>1, <1>2 DEF MemTypes, Pointers
  <1>7. Pointers'
    BY <1>1, <1>2, <1>3, <1>4, <1>5, <1>a DEF MemTypes, Pointers
  <1>8. AssociationsLive'
    BY <1>3, <1>4, <1>5, <1>a DEF IInv, AssociationsLive
  <1>9. FileMatches'
    BY <1>3 DEF FileMatches
  <1>10. KeysFound'
    <2>1. \A u \in NetworkName : networks_map[u] # Null => networks_map'[u] # Null
      BY <1>2, <1>5, NotNull
    <2>2. \A k \in keyFiles : k[2] # Null => k[2] \in NetworkName
      BY TypeParts DEF IInv, DiskTypes
    <2> QED
      BY <1>3, <2>1, <2>2 DEF IInv, KeysFound
  <1> QED
    BY <1>1, <1>3, <1>6, <1>7, <1>8, <1>9, <1>10, CommandStep DEF FlagTypes

(* The working node gets other data.                                       *)
LEMMA DataStep ==
  ASSUME IInv, NEW d \in Data, setU(d) \/ ask(d)
  PROVE  IInv'
  <1>1. MemTypes /\ Pointers /\ FlagTypes
    BY TypeParts DEF IInv
  <1>2. /\ current_node # Null
        /\ node' = [node EXCEPT ![current_node].data = d]
        /\ Prompt /\ UNCHANGED <<running, saving, dataFile, keyFiles>>
        /\ UNCHANGED <<nodes_map, networks_map, network, current_node, current_network>>
        /\ UNCHANGED <<freed, stray>>
        /\ active' = active \/ active' = active \cup {current_node}
    BY DEF setU, ask, Command, disk
  <1>3. /\ dirty' = TRUE \/ dirty' = (dirty \/ node[current_node].data # d)
        /\ dirty' \in BOOLEAN
    BY <1>1 DEF setU, ask, FlagTypes
  <1>4. current_node \in Object /\ node[current_node] \in NodeRecord
    BY <1>1, <1>2 DEF MemTypes, Pointers
  <1>5. /\ node'[current_node] \in NodeRecord
        /\ node'[current_node].name = node[current_node].name
        /\ node'[current_node].data = d
        /\ \A o \in Object : o # current_node => node'[o] = node[o]
    BY <1>1, <1>2, <1>4 DEF MemTypes, NodeRecord
  <1>6. MemTypes'
    <2>1. node' \in [Object -> NodeRecord \cup {Null}]
      BY <1>1, <1>2, <1>5 DEF MemTypes
    <2> QED
      BY <1>1, <1>2, <1>4, <2>1 DEF MemTypes
  <1>7. Pointers'
    BY <1>1, <1>2, <1>5, NotNull DEF MemTypes, Pointers
  <1>8. AssociationsLive' /\ KeysFound'
    BY <1>2 DEF IInv, AssociationsLive, KeysFound
  <1>9. FileMatches'
    <2>1. ASSUME ~dirty', Matches PROVE Matches'
      <3>1. node[current_node].data = d
        BY <1>3, <2>1
      <3>2. \A o \in Object : node'[o].data = node[o].data
        BY <1>5, <3>1
      <3>3. \A n \in NodeName : nodes_map[n] # Null => nodes_map[n] \in Object
        BY <1>1 DEF MemTypes
      <3> QED
        BY <1>2, <2>1, <3>2, <3>3 DEF Matches
    <2>2. ~dirty' => ~dirty
      BY <1>3
    <2> QED
      BY <1>2, <2>1, <2>2 DEF IInv, FileMatches, Prompt
  <1> QED
    BY <1>1, <1>2, <1>3, <1>6, <1>7, <1>8, <1>9, CommandStep DEF FlagTypes

(* The associations of the working network change.                         *)
LEMMA NetworkEdit ==
  ASSUME IInv, Command, current_network # Null, NEW s \in NodeSet,
         network' = [network EXCEPT ![current_network] = s],
         UNCHANGED <<nodes_map, networks_map, node, current_node, current_network>>,
         UNCHANGED <<active, freed>>,
         dirty' \in BOOLEAN, stray' \in BOOLEAN, stray => stray',
         dirty' \/ (~dirty /\ network' = network),
         ~stray' => \A n \in NodeName :
             \/ s[n] \in {Null, network[current_network][n]}
             \/ ~ManagedNetwork(current_network)
             \/ nodes_map[n] # Null /\ s[n] = nodes_map[n]
  PROVE  IInv'
  <1>1. MemTypes /\ Pointers /\ FlagTypes
    BY TypeParts DEF IInv
  <1>2. Prompt /\ UNCHANGED <<running, saving, dataFile, keyFiles>>
    BY DEF Command, disk
  <1>3. current_network \in NetObject
    BY <1>1 DEF MemTypes
  <1>4. /\ network'[current_network] = s
        /\ \A p \in NetObject : p # current_network => network'[p] = network[p]
    BY <1>1, <1>3 DEF MemTypes
  <1>5. MemTypes'
    BY <1>1 DEF MemTypes
  <1>6. Pointers'
    BY <1>1, <1>4, NotNull DEF MemTypes, Pointers
  <1>7. AssociationsLive'
    <2> SUFFICES ASSUME ~stray', NEW t \in NetworkName, NEW n \in NodeName,
                        networks_map[t] # Null, network'[networks_map[t]][n] # Null
                 PROVE  nodes_map[n] # Null /\ network'[networks_map[t]][n] = nodes_map[n]
      BY DEF AssociationsLive
    <2>1. network[networks_map[t]][n] # Null =>
             nodes_map[n] # Null /\ network[networks_map[t]][n] = nodes_map[n]
      BY DEF IInv, AssociationsLive
    <2>2. CASE networks_map[t] = current_network
      <3>1. ManagedNetwork(current_network)
        BY <2>2 DEF ManagedNetwork
      <3> QED
        BY <1>4, <2>1, <2>2, <3>1
    <2>3. CASE networks_map[t] # current_network
      <3>1. networks_map[t] \in NetObject
        BY <1>1 DEF MemTypes
      <3> QED
        BY <1>4, <2>1, <2>3, <3>1
    <2> QED
      BY <2>2, <2>3
  <1>8. FileMatches' /\ KeysFound'
    BY <1>2 DEF IInv, FileMatches, KeysFound, Matches, Prompt
  <1> QED
    BY <1>1, <1>2, <1>5, <1>6, <1>7, <1>8, CommandStep DEF FlagTypes

(* addNd, delNd and ia.                                                    *)
LEMMA AssociationStep ==
  ASSUME IInv, addNd \/ delNd \/ ia
  PROVE  IInv'
  <1>1. MemTypes /\ Pointers /\ FlagTypes
    BY TypeParts DEF IInv
  <1>2. current_network # Null /\ Command
    BY DEF addNd, delNd, ia, Working
  <1>3. current_network \in NetObject /\ network[current_network] \in NodeSet
    BY <1>1, <1>2 DEF MemTypes, Pointers
  <1>4. current_node # Null => current_node \in Object /\ node[current_node] \in NodeRecord
    BY <1>1 DEF MemTypes, Pointers
  <1> DEFINE old == network[current_network]
             name == node[current_node].name
  <1>5. CASE addNd
    <2> DEFINE s == IF old[name] = Null THEN [old EXCEPT ![name] = current_node] ELSE old
    <2>1. /\ current_node # Null
          /\ network' = [network EXCEPT ![current_network] = s]
          /\ dirty' = TRUE
          /\ stray' = (stray \/ (ManagedNetwork(current_network) /\ ~Managed(current_node)))
          /\ UNCHANGED <<nodes_map, networks_map, node, current_node, current_network>>
          /\ UNCHANGED <<active, freed>>
      BY <1>5 DEF addNd, associateNode, Working
    <2>2. name \in NodeName /\ current_node \in Object
      BY <1>4, <2>1 DEF NodeRecord
    <2>3. /\ s \in NodeSet
          /\ \A n \in NodeName : s[n] = old[n] \/ (n = name /\ s[n] = current_node)
      BY <1>3, <2>2 DEF NodeSet
    <2>4. Managed(current_node) => nodes_map[name] = current_node
      BY <1>1 DEF Managed, Pointers
    <2>5. stray' \in BOOLEAN /\ (stray => stray')
          /\ (~stray' => ~ManagedNetwork(current_network) \/ Managed(current_node))
      BY <1>1, <2>1 DEF FlagTypes
    <2> HIDE DEF s
    <2>6. ~stray' => \A n \in NodeName :
             \/ s[n] \in {Null, network[current_network][n]}
             \/ ~ManagedNetwork(current_network)
             \/ nodes_map[n] # Null /\ s[n] = nodes_map[n]
      BY <2>1, <2>3, <2>4, <2>5
    <2> QED
      BY <1>2, <2>1, <2>3, <2>5, <2>6, NetworkEdit
  <1>6. CASE delNd
    <2> DEFINE s == [old EXCEPT ![name] = Null]
    <2>1. /\ current_node # Null
          /\ network' = [network EXCEPT ![current_network] = s]
          /\ dirty' = TRUE
          /\ UNCHANGED <<nodes_map, networks_map, node, current_node, current_network>>
          /\ UNCHANGED <<active, freed, stray>>
      BY <1>6 DEF delNd, Working
    <2>2. name \in NodeName
      BY <1>4, <2>1 DEF NodeRecord
    <2>3. s \in NodeSet /\ \A n \in NodeName : s[n] \in {Null, network[current_network][n]}
      BY <1>3, <2>2 DEF NodeSet
    <2> HIDE DEF s
    <2> QED
      BY <1>1, <1>2, <2>1, <2>3, NetworkEdit DEF FlagTypes
  <1>7. CASE ia
    <2> DEFINE s == [n \in NodeName |-> IF old[n] = Expired THEN Null ELSE old[n]]
    <2>1. /\ network' = [network EXCEPT ![current_network] = s]
          /\ dirty' = (dirty \/ network' # network)
          /\ UNCHANGED <<nodes_map, networks_map, node, current_node, current_network>>
          /\ UNCHANGED <<active, freed, stray>>
      BY <1>7 DEF ia
    <2>2. s \in NodeSet /\ \A n \in NodeName : s[n] \in {Null, network[current_network][n]}
      BY <1>3 DEF NodeSet
    <2>3. dirty' \in BOOLEAN /\ (dirty' \/ (~dirty /\ network' = network))
      BY <1>1, <2>1 DEF FlagTypes
    <2> HIDE DEF s
    <2> QED
      BY <1>1, <1>2, <2>1, <2>2, <2>3, NetworkEdit DEF FlagTypes
  <1> QED
    BY <1>5, <1>6, <1>7

(* A step that changes nothing but the connections and their timers.       *)
LEMMA ConnectionStep ==
  ASSUME IInv, active' \subseteq Object, freed' \in BOOLEAN,
         UNCHANGED <<running, saving, dataFile, keyFiles, dirty, stray>>,
         UNCHANGED <<nodes_map, networks_map, node, network, current_node, current_network>>
  PROVE  IInv'
  <1>1. MemTypes /\ Pointers /\ FlagTypes /\ DiskTypes
    BY TypeParts DEF IInv
  <1>2. MemTypes' /\ Pointers' /\ DiskTypes'
    BY <1>1 DEF MemTypes, Pointers, DiskTypes
  <1>3. FlagTypes'
    BY <1>1 DEF FlagTypes
  <1>4. AssociationsLive' /\ FileMatches' /\ KeysFound' /\ Phases' /\ CleanExitRestarts'
    BY DEF IInv, AssociationsLive, FileMatches, Matches, KeysFound, Phases,
           CleanExitRestarts, Prompt, Starts, Loadable, ScanFinds
  <1> QED
    BY <1>2, <1>3, <1>4, TypeParts, PTL DEF IInv

(* getSl, if it survives, and the io_service's threads.                    *)
LEMMA Connections ==
  ASSUME IInv, getSl \/ (\E o \in Object : closeConnection(o)) \/ closeFreed
  PROVE  IInv'
  <1>1. MemTypes /\ Pointers /\ FlagTypes
    BY TypeParts DEF IInv
  <1>2. CASE getSl
    <2>1. CASE Ends
      BY <2>1, EndStep
    <2>2. CASE ~Ends
      <3> DEFINE asked == {network[current_network][n] : n \in NodeName} \ {Null}
      <3>1. /\ current_network # Null /\ Expired \notin asked /\ Command
            /\ \E a \in SUBSET asked : active' = active \cup a
            /\ UNCHANGED <<nodes_map, networks_map, node, network, current_node>>
            /\ UNCHANGED <<current_network, freed, dirty, stray>>
        BY <1>2, <2>2 DEF getSl, history
      <3>2. network[current_network] \in NodeSet
        BY <1>1, <3>1 DEF MemTypes, Pointers
      <3>3. asked \subseteq Object
        BY <3>1, <3>2 DEF NodeSet
      <3>4. active' \subseteq Object /\ freed' \in BOOLEAN
        BY <1>1, <3>1, <3>3 DEF MemTypes, FlagTypes
      <3>5. UNCHANGED <<running, saving, dataFile, keyFiles>>
        BY <3>1 DEF Command, disk
      <3> HIDE DEF asked
      <3> QED
        BY <3>1, <3>4, <3>5, ConnectionStep
    <2> QED
      BY <2>1, <2>2
  <1>3. ASSUME NEW o \in Object, closeConnection(o) PROVE IInv'
    BY <1>1, <1>3, ConnectionStep DEF closeConnection, MemTypes, FlagTypes, disk, history
  <1>4. CASE closeFreed
    <2>1. CASE Ends
      BY <2>1, EndStep
    <2>2. CASE ~Ends
      <3>1. freed' = FALSE /\ UNCHANGED <<running, memory, saving, disk, history>>
        BY <1>4, <2>2 DEF closeFreed
      <3> QED
        BY <1>1, <3>1, ConnectionStep DEF MemTypes, memory, disk, history
    <2> QED
      BY <2>1, <2>2
  <1> QED
    BY <1>2, <1>3, <1>4

-----------------------------------------------------------------------------
(* The files.                                                              *)

(* A key is written at once.                                               *)
LEMMA KeyStep ==
  ASSUME IInv, NEW t \in NetworkName \cup {Null}, gk(t)
  PROVE  IInv'
  <1>1. MemTypes /\ Pointers /\ FlagTypes /\ DiskTypes
    BY TypeParts DEF IInv
  <1> DEFINE name == node[current_node].name
  <1>2. /\ Prompt /\ current_node # Null
        /\ t # Null => networks_map[t] # Null
        /\ keyFiles' = keyFiles \cup {<<name, t>>}
        /\ stray' = (stray \/ ~Managed(current_node))
        /\ UNCHANGED <<running, freed, saving, dataFile, dirty>>
        /\ UNCHANGED <<nodes_map, networks_map, node, network, current_node, current_network>>
        /\ UNCHANGED active
    BY DEF gk, memory
  <1>3. name \in NodeName
    BY <1>1, <1>2 DEF MemTypes, Pointers, NodeRecord
  <1>4. MemTypes' /\ Pointers'
    BY <1>1, <1>2 DEF MemTypes, Pointers
  <1>5. DiskTypes'
    BY <1>1, <1>2, <1>3 DEF DiskTypes
  <1>6. FlagTypes' /\ (stray => stray')
    BY <1>1, <1>2 DEF FlagTypes
  <1>7. AssociationsLive' /\ FileMatches' /\ Phases' /\ CleanExitRestarts'
    BY <1>2, <1>6 DEF IInv, AssociationsLive, FileMatches, Matches, Phases,
                      CleanExitRestarts, Prompt
  <1>8. KeysFound'
    <2>1. Managed(current_node) => nodes_map[name] # Null
      BY <1>1, <1>2 DEF Managed, Pointers
    <2>2. ~stray' => Managed(current_node)
      BY <1>2
    <2>3. <<name, t>>[1] = name /\ <<name, t>>[2] = t
      OBVIOUS
    <2> QED
      BY <1>2, <1>6, <2>1, <2>2, <2>3 DEF IInv, KeysFound
  <1> QED
    BY <1>4, <1>5, <1>6, <1>7, <1>8, TypeParts, PTL DEF IInv

(* The file is opened for writing, which empties it.                       *)
LEMMA SaveStep ==
  ASSUME IInv, save
  PROVE  IInv'
  <1>1. MemTypes /\ Pointers /\ FlagTypes /\ DiskTypes
    BY TypeParts DEF IInv
  <1>2. /\ running /\ saving' = TRUE /\ dataFile' = Torn
        /\ UNCHANGED <<running, freed, keyFiles, dirty, stray>>
        /\ UNCHANGED <<nodes_map, networks_map, node, network, current_node, current_network>>
        /\ UNCHANGED active
    BY DEF save, memory, history, Prompt
  <1>3. MemTypes' /\ Pointers'
    BY <1>1, <1>2 DEF MemTypes, Pointers
  <1>4. DiskTypes' /\ dataFile'.state = "torn"
    BY <1>1, <1>2 DEF DiskTypes, Torn, NoNodes, NoNetworks
  <1>5. FlagTypes'
    BY <1>1, <1>2 DEF FlagTypes
  <1>6. AssociationsLive' /\ FileMatches' /\ KeysFound' /\ Phases' /\ CleanExitRestarts'
    BY <1>2, <1>4 DEF IInv, AssociationsLive, FileMatches, KeysFound, Phases,
                      CleanExitRestarts
  <1> QED
    BY <1>3, <1>4, <1>5, <1>6, TypeParts, PTL DEF IInv

(* The file is written.                                                    *)
LEMMA SavedStep ==
  ASSUME IInv, saved
  PROVE  IInv'
  <1>1. MemTypes /\ Pointers /\ FlagTypes /\ DiskTypes
    BY TypeParts DEF IInv
  <1>2. /\ saving /\ saving' = FALSE /\ dataFile' = saveState /\ dirty' = FALSE
        /\ UNCHANGED <<running, freed, keyFiles, stray>>
        /\ UNCHANGED <<nodes_map, networks_map, node, network, current_node, current_network>>
        /\ UNCHANGED active
    BY DEF saved, memory
  <1>3. MemTypes' /\ Pointers'
    BY <1>1, <1>2 DEF MemTypes, Pointers
  <1>4. /\ dataFile'.state = "complete"
        /\ dataFile'.nodes = [n \in NodeName |-> IF nodes_map[n] = Null THEN Null
                                                 ELSE node[nodes_map[n]].data]
        /\ dataFile'.networks = SavedNetworks
        /\ dataFile' = [state |-> "complete", nodes |-> dataFile'.nodes,
                        networks |-> dataFile'.networks]
    BY <1>2 DEF saveState
  <1>5. \A n \in NodeName : nodes_map[n] # Null => node[nodes_map[n]].data \in Data
    <2>1. \A n \in NodeName : nodes_map[n] # Null => node[nodes_map[n]] \in NodeRecord
      BY <1>1 DEF MemTypes, Pointers
    <2> QED
      BY <2>1 DEF NodeRecord
  <1>6. DiskTypes'
    <2>1. dataFile'.nodes \in [NodeName -> Data \cup {Null}]
      BY <1>4, <1>5
    <2>2. dataFile'.networks \in [NetworkName -> (SUBSET NodeName) \cup {Null}]
      BY <1>4 DEF SavedNetworks
    <2>3. keyFiles' \subseteq NodeName \X (NetworkName \cup {Null})
      BY <1>1, <1>2 DEF DiskTypes
    <2> QED
      BY <1>4, <2>1, <2>2, <2>3 DEF DiskTypes
  <1>7. FlagTypes'
    BY <1>1, <1>2 DEF FlagTypes
  <1>8. Matches'
    <2>1. \A n \in NodeName :
             /\ (nodes_map[n] = Null) = (dataFile'.nodes[n] = Null)
             /\ nodes_map[n] # Null => node[nodes_map[n]].data = dataFile'.nodes[n]
      BY <1>4, <1>5, NotNull
    <2>2. \A t \in NetworkName :
             /\ (networks_map[t] = Null) = (dataFile'.networks[t] = Null)
             /\ networks_map[t] # Null =>
                  \A n \in NodeName :
                    (network[networks_map[t]][n] # Null) = (n \in dataFile'.networks[t])
      <3> TAKE t \in NetworkName
      <3>1. CASE networks_map[t] = Null
        BY <1>4, <3>1 DEF SavedNetworks
      <3>2. CASE networks_map[t] # Null
        <4>1. dataFile'.networks[t] = {n \in NodeName : network[networks_map[t]][n] # Null}
          BY <1>4, <3>2 DEF SavedNetworks
        <4>2. dataFile'.networks[t] # Null
          BY <4>1, NotNull
        <4> QED
          BY <3>2, <4>1, <4>2
      <3> QED
        BY <3>1, <3>2
    <2> QED
      BY <1>2, <2>1, <2>2 DEF Matches
  <1>9. AssociationsLive' /\ FileMatches' /\ KeysFound' /\ Phases' /\ CleanExitRestarts'
    BY <1>2, <1>4, <1>8 DEF IInv, AssociationsLive, FileMatches, KeysFound, Phases,
                            CleanExitRestarts
  <1> QED
    BY <1>3, <1>6, <1>7, <1>9, TypeParts, PTL DEF IInv

(* Keys of nodes and networks in the file are found once it is loaded.     *)
LEMMA KeysLoaded ==
  ASSUME DiskTypes, Matches', ScanFinds, UNCHANGED <<dataFile, keyFiles>>
  PROVE  KeysFound'
  <1>1. \A k \in keyFiles : k[1] \in NodeName /\ (k[2] # Null => k[2] \in NetworkName)
    BY DEF DiskTypes
  <1> QED
    BY <1>1 DEF Matches, ScanFinds, KeysFound

(* The program starts.                                                     *)
LEMMA StartStep ==
  ASSUME IInv, start
  PROVE  IInv'
  <1>1. MemTypes /\ Pointers /\ FlagTypes /\ DiskTypes
    BY TypeParts DEF IInv
  <1>2. /\ ~running /\ Starts /\ ScanFinds /\ loadState
        /\ running' = TRUE /\ dirty' = FALSE /\ stray' = FALSE
        /\ UNCHANGED <<saving, dataFile, keyFiles>>
    BY DEF start, disk
  <1>3. MemTypes' /\ Pointers' /\ freed' \in BOOLEAN /\ Matches' /\ Live'
    BY <1>1, <1>2, Loaded
  <1>4. FlagTypes'
    BY <1>1, <1>2, <1>3 DEF FlagTypes
  <1>5. DiskTypes'
    BY <1>1, <1>2 DEF DiskTypes
  <1>6. AssociationsLive' /\ FileMatches' /\ KeysFound'
    BY <1>1, <1>2, <1>3, KeysLoaded DEF AssociationsLive, Live, FileMatches
  <1>7. Phases' /\ CleanExitRestarts'
    BY <1>2 DEF IInv, Phases, CleanExitRestarts
  <1> QED
    BY <1>3, <1>4, <1>5, <1>6, <1>7, TypeParts, PTL DEF IInv

(* The file is loaded in place of what is in memory.                       *)
LEMMA LoadStep ==
  ASSUME IInv, load
  PROVE  IInv'
  <1>1. MemTypes /\ Pointers /\ FlagTypes /\ DiskTypes
    BY TypeParts DEF IInv
  <1>2. CASE Ends
    BY <1>2, EndStep
  <1>3. CASE ~Ends
    <2>1. /\ Loadable /\ Prompt /\ loadState /\ dirty' = FALSE
          /\ stray' = (stray \/ (dirty /\ keyFiles # {}))
          /\ UNCHANGED <<running, saving, dataFile, keyFiles>>
      BY <1>3 DEF load, Command, disk
    <2>2. MemTypes' /\ Pointers' /\ freed' \in BOOLEAN /\ Matches' /\ Live'
      BY <1>1, <2>1, Loaded DEF Starts
    <2>3. /\ dirty' \in BOOLEAN /\ stray' \in BOOLEAN
          /\ ~stray' => ~stray /\ (~dirty \/ keyFiles = {})
      BY <1>1, <2>1 DEF FlagTypes
    <2>4. KeysFound'
      <3>1. CASE keyFiles = {}
        BY <2>1, <3>1 DEF KeysFound
      <3>2. CASE keyFiles # {} /\ ~stray'
        <4>1. ScanFinds
          BY <2>1, <2>3, <3>2, CleanEnd DEF Loadable, Prompt
        <4> QED
          BY <1>1, <2>1, <2>2, <4>1, KeysLoaded
      <3> QED
        BY <3>1, <3>2 DEF KeysFound
    <2>5. AssociationsLive' /\ FileMatches'
      BY <2>2 DEF AssociationsLive, Live, FileMatches
    <2> QED
      BY <2>1, <2>2, <2>3, <2>4, <2>5, CommandStep
  <1> QED
    BY <1>2, <1>3

(* The user goes on with empty directories.                                *)
LEMMA StartOverStep ==
  ASSUME IInv, startOver
  PROVE  IInv'
  <1>1. MemTypes /\ Pointers /\ FlagTypes /\ DiskTypes
    BY TypeParts DEF IInv
  <1>2. /\ ~running /\ dataFile' = Absent /\ keyFiles' = {}
        /\ dirty' = FALSE /\ stray' = FALSE
        /\ UNCHANGED <<running, freed, saving, active>>
        /\ UNCHANGED <<nodes_map, networks_map, node, network, current_node, current_network>>
    BY DEF startOver, memory
  <1>3. MemTypes' /\ Pointers'
    BY <1>1, <1>2 DEF MemTypes, Pointers
  <1>4. DiskTypes' /\ dataFile'.state = "absent"
    BY <1>2 DEF DiskTypes, Absent, Torn, NoNodes, NoNetworks
  <1>5. FlagTypes'
    BY <1>1, <1>2 DEF FlagTypes
  <1>6. AssociationsLive' /\ FileMatches' /\ KeysFound' /\ Phases'
    BY <1>2, <1>4 DEF IInv, AssociationsLive, FileMatches, KeysFound, Phases, Prompt
  <1>7. (Starts /\ ScanFinds)'
    BY <1>2 DEF Starts, ScanFinds
  <1>8. CleanExitRestarts'
    BY <1>7 DEF CleanExitRestarts
  <1> QED
    BY <1>3, <1>4, <1>5, <1>6, <1>8, TypeParts, PTL DEF IInv

-----------------------------------------------------------------------------

(* Before the first start there is no file and nothing in memory.          *)
LEMMA InitInv == Init => IInv
  <1> SUFFICES ASSUME Init PROVE IInv
    OBVIOUS
  <1>1. MemTypes /\ Pointers /\ DiskTypes
    BY DEF Init, MemTypes, Pointers, DiskTypes, NoNodes, NoNetworks, Absent, Torn
  <1>2. FlagTypes
    BY DEF Init, FlagTypes
  <1>3. AssociationsLive /\ FileMatches /\ KeysFound /\ Phases
    BY DEF Init, AssociationsLive, FileMatches, KeysFound, Phases, Prompt, NoNetworks
  <1>4. CleanExitRestarts
    BY DEF Init, CleanExitRestarts, Starts, ScanFinds
  <1> QED
    BY <1>1, <1>2, <1>3, <1>4, TypeParts DEF IInv

(* IInv is inductive.                                                      *)
LEMMA StepInv == IInv /\ [Next]_vars => IInv'
  <1> SUFFICES ASSUME IInv, [Next]_vars PROVE IInv'
    OBVIOUS
  <1>1. CASE exit \/ kill \/ stop
    BY <1>1, EndStep DEF exit, kill, stop
  <1>2. ASSUME NEW n \in NodeName, gnd(n) PROVE IInv'
    BY <1>2, GetStep DEF gnd, history
  <1>3. ASSUME NEW t \in NetworkName, gnt(t) PROVE IInv'
    BY <1>3, GetStep DEF gnt, history
  <1>4. CASE clearCommand
    <2>1. Command \/ Ends
      BY <1>4 DEF clearCommand
    <2> QED
      BY <1>4, <2>1, Removals, EndStep
  <1>5. CASE UNCHANGED vars
    <2>1. active' \subseteq Object /\ freed' \in BOOLEAN
      BY <1>5, TypeParts DEF vars, memory, IInv, MemTypes, FlagTypes
    <2> QED
      BY <1>5, <2>1, ConnectionStep DEF vars, memory, disk, history
  <1> QED
    BY <1>1, <1>2, <1>3, <1>4, <1>5, StartStep, StartOverStep, Removals, CreateNodeStep,
       CreateNetworkStep, SaveStep, SavedStep, LoadStep, DataStep, KeyStep, AssociationStep,
       Connections
    DEF Next

(* Every reachable state satisfies the invariant.                          *)
LEMMA AlwaysIInv == Spec => []IInv
  BY InitInv, StepInv, PTL DEF Spec

(***************************************************************************)
(* Type correctness, which here is memory safety of the manager and the    *)
(* console: neither a map nor the working node or network ever refers to a *)
(* destroyed object, and a node is found under its own name.               *)
(***************************************************************************)
THEOREM TypeCorrect == Spec => []TypeOK
  <1>1. IInv => TypeOK
    BY DEF IInv
  <1> QED
    BY <1>1, AlwaysIInv, PTL

(***************************************************************************)
(* For any names and objects: as long as no command took an associated     *)
(* node or a named key away, each association of a manager's network is    *)
(* the manager's own node of that name, never an expired pointer.          *)
(***************************************************************************)
THEOREM AssociationsHold == Spec => []AssociationsLive
  <1>1. IInv => AssociationsLive
    BY DEF IInv
  <1> QED
    BY <1>1, AlwaysIInv, PTL

(***************************************************************************)
(* For any names and objects: what is in memory is what a complete file    *)
(* holds, unless a command has changed something since the last saveState  *)
(* or loadState.                                                           *)
(***************************************************************************)
THEOREM SavedHolds == Spec => []SavedOrDirty
  <1>1. IInv => SavedOrDirty
    <2> SUFFICES ASSUME IInv, Prompt, ~dirty, dataFile.state = "complete"
                 PROVE  Matches
      BY DEF SavedOrDirty, Matches
    <2> QED
      BY DEF IInv, FileMatches
  <1> QED
    BY <1>1, AlwaysIInv, PTL

(***************************************************************************)
(* For any names and objects: a program that ended with nothing to save    *)
(* and with no save under way, and that took nothing away which an         *)
(* association or a key file names, can be started again.                  *)
(***************************************************************************)
THEOREM RestartHolds == Spec => []CleanExitRestarts
  <1>1. IInv => CleanExitRestarts
    BY DEF IInv
  <1> QED
    BY <1>1, AlwaysIInv, PTL

=============================================================================
