---------------------------- MODULE DataNetwork ----------------------------
(***************************************************************************)
(* yatm_data_network/data_network.lua: devices beside a bus of a network   *)
(* of cables send values on ports, and the network hands them to whoever   *)
(* listens on the port.  Building and digging only queues positions; the   *)
(* next update floods the map from each and makes a new network, with new  *)
(* sub networks, of what it finds, and then dispatches in every network    *)
(* for a number of rounds and updates its devices.  A direction of a       *)
(* device is the position it leads to.  One value is sent; every listener  *)
(* is bound as "active".                                                   *)
(***************************************************************************)
EXTENDS Naturals, FiniteSets, Functions

CONSTANTS
  Pos, Beside,          \* positions, and their neighbours in six directions
  Kind, TypeOf,         \* node names with a data_network_device, and its type
  Color, Multi, ColorOf,
  Offset, PortRange,    \* COLOR_RANGE: the ports of a colour
  Input, Output,        \* [Kind -> SUBSET Nat], the local ports a device is set to
  Updatable,            \* the kinds in the group "updatable"
  Relay,                \* the kinds that send on when they receive
  Built,                \* [Pos -> SUBSET Kind], bound: what may be built where
  Block, BlockOf,
  Volatile,             \* bound: the blocks that may be unloaded
  MaxAttempts,          \* the rounds of a dispatch, less one (16 in the code)
  Air, Nil

DeviceType == {"device", "bus", "cable"}

ASSUME DataAssumption ==
  /\ Beside \in [Pos -> SUBSET Pos] /\ TypeOf \in [Kind -> DeviceType]
  /\ ColorOf \in [Kind -> Color] /\ Multi \in Color
  /\ Offset \in [Color -> Nat] /\ PortRange \in [Color -> Nat]
  /\ Input \in [Kind -> SUBSET Nat] /\ Output \in [Kind -> SUBSET Nat]
  /\ Updatable \cup Relay \subseteq Kind /\ Built \in [Pos -> SUBSET Kind]
  /\ BlockOf \in [Pos -> Block] /\ Volatile \subseteq Block
  /\ MaxAttempts \in Nat
  /\ {Air, Nil} \cap Kind = {} /\ \A S \in SUBSET Pos : Nil # S

\* The map has an end, and neighbours are neighbours of each other.
ASSUME MapAssumption ==
  IsFiniteSet(Pos) /\ \A p, q \in Pos : q \in Beside[p] => p \in Beside[q]

VARIABLES
  world,      \* [Pos -> Kind \cup {Air}], the nodes on the map
  loaded,     \* the map blocks in memory
  activated,  \* those whose loading modifiers have run since they were loaded
  marked,     \* the blocks with a mark of yatm.clusters:mark_node_block
  members,    \* m_members
  networks,   \* m_networks
  queued,     \* m_queued_refreshes
  phase,      \* where update is: "idle", "queue", "networks", or "crashed"
  batch,      \* the queued positions update has not come to
  due,        \* the networks update has not come to
  current,    \* the network it dispatches in, or Nil
  attempts,   \* rounds of that dispatch
  missed,     \* history: members a refresh passed by while their block was away
  heard       \* history: what the last round of a dispatch delivered

mapvars == <<world, loaded, activated>>
tables == <<marked, members, networks, queued>>
vars == <<mapvars, tables, phase, batch, due, current, attempts, missed, heard>>

(***************************************************************************)
(* The tables.  Ids of networks and sub networks are drawn until they are  *)
(* new.  Here a network is known by the positions it was founded with:     *)
(* members only ever leave it, so no two are founded of the same nodes.    *)
(* A sub network is known, inside its network, by its wires.               *)
(***************************************************************************)
NetworkId == SUBSET Pos
Attached == [color : Color, sub : SUBSET Pos]

\* An entry of ready_to_send or ready_to_receive: sub network, port, member
\* and direction.
Entry == (SUBSET Pos) \X Nat \X Pos \X Pos

Registered == DOMAIN members
Networks == DOMAIN networks
MembersOf(n) == {p \in Registered : members[p].network = n}

IsMember(p, m) ==
  /\ m = [kind |-> m.kind, network |-> m.network, attached |-> m.attached]
  /\ m.kind \in Kind
  /\ DOMAIN m.attached \subseteq Beside[p]
  /\ \A d \in DOMAIN m.attached : m.attached[d] \in Attached

IsNetwork(w) ==
  /\ w = [members |-> w.members, updatable |-> w.updatable, send |-> w.send, receive |-> w.receive]
  /\ w.updatable \subseteq Pos /\ w.send \subseteq Entry /\ w.receive \subseteq Entry

\* The members M and the networks N agree, no network is empty or has a member
\* that it was not founded with, and the block of every member is among the
\* marked ones K.
AreTables(M, N, K) ==
  /\ DOMAIN M \subseteq Pos /\ DOMAIN N \subseteq NetworkId
  /\ \A p \in DOMAIN M :
       IsMember(p, M[p]) /\ M[p].network \in DOMAIN N \cup {Nil} /\ BlockOf[p] \in K
  /\ \A n \in DOMAIN N :
       /\ IsNetwork(N[n]) /\ N[n].members # {}
       /\ N[n].members = {p \in DOMAIN M : M[p].network = n} /\ N[n].members \subseteq n

Empty == [x \in {} |-> Nil]

\* What get_node answers: "ignore" in a block that is not loaded.
NodeAt(p) == IF BlockOf[p] \in loaded THEN world[p] ELSE Nil
IsDevice(p) == NodeAt(p) \in Kind
Seen == [p \in Pos |-> NodeAt(p)]

Init ==
  /\ world = [p \in Pos |-> Air]
  /\ loaded = Block /\ activated = Block /\ marked = {}
  /\ members = Empty /\ networks = Empty /\ queued = {}
  /\ phase = "idle" /\ batch = {} /\ due = {} /\ current = Nil /\ attempts = 0
  /\ missed = {} /\ heard = {}

(***************************************************************************)
(* Which nodes connect.                                                    *)
(***************************************************************************)
CompatibleColors(a, b) == a = b \/ Multi \in {a, b}

IsWire(k) == k \in Kind /\ TypeOf[k] \in {"bus", "cable"}

\* devices_have_compatible_colors
Connects(k, l) ==
  \/ IsWire(k) /\ IsWire(l) /\ CompatibleColors(ColorOf[k], ColorOf[l])
  \/ {TypeOf[k], TypeOf[l]} = {"bus", "device"}

\* The positions of S that a walk from p over S comes to on the map `node`.
Reached(p, S, node) ==
  LET Visited[i \in Nat] ==
        IF i = 0 THEN {p}
        ELSE LET seen == Visited[i - 1]
             IN seen \cup {q \in S : \E o \in seen : q \in Beside[o] /\ Connects(node[o], node[q])}
  IN {p} \cup (S \cap Visited[Cardinality(S)])

\* The flood of refresh_from_pos.
Found(p, node) == Reached(p, {q \in Pos : node[q] \in Kind}, node)

\* _explore_nodes_from_position, from a bus, among the nodes S of a network
Wires(p, S, node) == Reached(p, {q \in S : IsWire(node[q])}, node)

\* What _populate_sub_network attaches to the device p of a network of S.
AttachedTo(p, S, node) ==
  [d \in {q \in S \cap Beside[p] : TypeOf[node[p]] = "device" /\ TypeOf[node[q]] = "bus"} |->
     [color |-> ColorOf[node[d]], sub |-> Wires(d, S, node)]]

\* mutant: local ports are put on the network as they are
GlobalPorts_Local(a, ports) == ports \cap (1..PortRange[a.color])

\* local_port_to_net_port, of the ports in the range of the colour
GlobalPorts(a, ports) == {Offset[a.color] + i : i \in ports \cap (1..PortRange[a.color])}

\* The entries of the member p, attached as given, for local ports.
EntriesOf(p, attached, ports) ==
  UNION {{attached[d].sub} \X GlobalPorts(attached[d], ports) \X {p} \X {d} : d \in DOMAIN attached}

(***************************************************************************)
(* Members.                                                                *)
(***************************************************************************)
\* mutant: only the position itself is queued
QueueRefresh_Itself(S) == queued \cup S

\* _queue_refresh, of every position of S
QueueRefresh(S) == queued \cup S \cup UNION {Beside[p] : p \in S}

\* The networks after the members of S are gone: an empty one goes as well,
\* the groups and the ready tables of the others stay as they are.
Left(S) ==
  LET left == [n \in Networks |-> [networks[n] EXCEPT !.members = @ \ S]]
  IN Restrict(left, {n \in Networks : left[n].members # {}})

\* remove_node, of every position of S
RemoveNodes(S) ==
  /\ members' = Restrict(members, Registered \ S)
  /\ networks' = Left(S)
  /\ queued' = QueueRefresh(S)
  /\ missed' = missed \ S

\* mutant: a listener is not marked again
Listens_Never(S, attached, node) == {}

\* What on_load marks as ready to receive in a network of S.
Listens(S, attached, node) == UNION {EntriesOf(p, attached[p], Input[node[p]]) : p \in S}

\* refresh_from_pos: everything the flood finds leaves its network and
\* founds a new one.
Refresh(S) ==
  LET node     == Seen
      attached == [p \in S |-> AttachedTo(p, S, node)]
      founded  == [members |-> S, updatable |-> {p \in S : node[p] \in Updatable},
                   send |-> {}, receive |-> Listens(S, attached, node)]
      behind   == {p \in Registered \ S :
                    \E q \in S \cap Registered : members[p].network = members[q].network /\ members[p].network # Nil}
      beside   == {p \in Registered \ S : \E q \in S : p \in Beside[q]}
  IN /\ members' = [p \in Registered \cup S |->
                      IF p \in S THEN [kind |-> node[p], network |-> S, attached |-> attached[p]]
                      ELSE members[p]]
     /\ networks' = [n \in DOMAIN Left(S) \cup {S} |-> IF n = S THEN founded ELSE Left(S)[n]]
     /\ marked' = marked \cup {BlockOf[p] : p \in S}
     /\ missed' = (missed \ S) \cup {p \in behind \cup beside : BlockOf[p] \notin loaded}

(***************************************************************************)
(* What happens to the world between two updates.                          *)
(***************************************************************************)
IsActive(p) == phase = "idle" /\ BlockOf[p] \in activated

\* on_construct or after_place_node: add_node, which refuses a position that
\* is registered.
PlaceNode(p, k) ==
  /\ IsActive(p) /\ world[p] = Air /\ k \in Built[p]
  /\ world' = [world EXCEPT ![p] = k]
  /\ IF p \in Registered
       THEN UNCHANGED tables
       ELSE /\ members' = [q \in Registered \cup {p} |->
                 IF q = p THEN [kind |-> k, network |-> Nil, attached |-> Empty] ELSE members[q]]
            /\ marked' = marked \cup {BlockOf[p]}
            /\ queued' = QueueRefresh({p})
            /\ UNCHANGED networks
  /\ UNCHANGED <<loaded, activated, phase, batch, due, current, attempts, missed, heard>>

\* after_destruct: remove_node
DigNode(p) ==
  /\ IsActive(p) /\ world[p] # Air
  /\ world' = [world EXCEPT ![p] = Air]
  /\ RemoveNodes({p})
  /\ UNCHANGED <<loaded, activated, marked, phase, batch, due, current, attempts, heard>>

\* The engine drops a block from memory and tells nobody.
UnloadBlock(b) ==
  /\ phase = "idle" /\ b \in loaded \cap Volatile
  /\ loaded' = loaded \ {b} /\ activated' = activated \ {b}
  /\ UNCHANGED <<world, tables, phase, batch, due, current, attempts, missed, heard>>

LoadBlock(b) ==
  /\ phase = "idle" /\ b \notin loaded
  /\ loaded' = loaded \cup {b}
  /\ UNCHANGED <<world, activated, tables, phase, batch, due, current, attempts, missed, heard>>

\* The loading modifier: upsert_member and on_load of the nodes of the block.
\* A node that is registered already is refreshed if its colour or its
\* groups are others now; whether the empty table of a node without groups
\* equals none is up to table_equals, which is not part of the sources.
ActivateBlock(b) ==
  LET nodes == {p \in Pos : BlockOf[p] = b /\ IsDevice(p)}
      known == nodes \cap Registered
      Marks(n) == UNION {EntriesOf(p, members[p].attached, Input[world[p]]) :
                           p \in {q \in known : members[q].network = n}}
  IN /\ phase = "idle" /\ b \in loaded \ activated
     /\ activated' = activated \cup {b}
     /\ members' = [p \in Registered \cup nodes |->
          IF p \in known THEN [members[p] EXCEPT !.kind = world[p]]
          ELSE IF p \in nodes THEN [kind |-> world[p], network |-> Nil, attached |-> Empty]
          ELSE members[p]]
     /\ networks' = [n \in Networks |-> [networks[n] EXCEPT !.receive = @ \cup Marks(n)]]
     /\ marked' = marked \cup {BlockOf[p] : p \in nodes}
     /\ \E changed \in {{}, {p \in known : world[p] \notin Updatable}} :
          queued' = QueueRefresh((nodes \ known) \cup changed
                      \cup {p \in known : IsWire(world[p]) /\ members[p].network = Nil})
     /\ UNCHANGED <<world, loaded, phase, batch, due, current, attempts, missed, heard>>

\* yatm.clusters notices that the mark of a block ran out and that it is not
\* loaded: unload_block removes its members.
ExpireBlock(b) ==
  /\ phase = "idle" /\ b \in marked \ loaded
  /\ marked' = marked \ {b}
  /\ RemoveNodes({p \in Registered : BlockOf[p] = b})
  /\ UNCHANGED <<mapvars, phase, batch, due, current, attempts, heard>>

(***************************************************************************)
(* update                                                                  *)
(***************************************************************************)
\* A refresh finds nothing at a position without a device, which the batch
\* leaves out.
BeginUpdate ==
  /\ phase = "idle"
  /\ phase' = "queue"
  /\ batch' = {p \in queued : IsDevice(p)}
  /\ missed' = missed \cup {p \in queued \cap Registered : BlockOf[p] \notin loaded}
  /\ queued' = {} /\ heard' = {}
  /\ UNCHANGED <<mapvars, marked, members, networks, due, current, attempts>>

\* One position of the queue, in any order.  What the flood finds is not
\* refreshed again in this update.
ResolvePosition(p) ==
  /\ phase = "queue" /\ p \in batch
  /\ Refresh(Found(p, Seen))
  /\ batch' = batch \ Found(p, Seen)
  /\ UNCHANGED <<mapvars, queued, phase, due, current, attempts, heard>>

BeginNetworks ==
  /\ phase = "queue" /\ batch = {}
  /\ phase' = "networks"
  /\ due' = Networks
  /\ UNCHANGED <<mapvars, tables, batch, current, attempts, missed, heard>>

\* update_network, in any order of the networks
BeginDispatch(n) ==
  /\ phase = "networks" /\ current = Nil /\ n \in due
  /\ current' = n /\ attempts' = 0
  /\ due' = due \ {n}
  /\ UNCHANGED <<mapvars, tables, phase, batch, missed, heard>>

\* The entries that send_value adds to the network n when the members S send
\* on their output ports.
Sent(n, S) ==
  UNION {EntriesOf(p, members[p].attached, Output[members[p].kind]) :
           p \in {q \in S \cap Registered : members[q].network = n}}

\* The networks after the members S have sent, and n kept `kept` to send.
Sending(n, kept, S) ==
  [m \in Networks |->
     [networks[m] EXCEPT !.send = (IF m = n THEN kept ELSE @) \cup Sent(m, S)]]

\* The pairs of an entry to send and one that listens on its port, with a
\* receiver whose data_interface can be called.
Deliveries(n) ==
  {d \in networks[n].send \X networks[n].receive :
     LET s == d[1]
         r == d[2]
     IN /\ s[1] = r[1] /\ s[2] = r[2]
        /\ r[3] \in Registered /\ IsDevice(r[3]) /\ TypeOf[world[r[3]]] = "device"}

GoesOn(n) ==
  networks[n].send # {} /\ networks[n].receive # {} /\ attempts <= MaxAttempts

\* One round of handle_network_dispatch: what was ready to send is handed to
\* those who listen, and what they send in turn waits for the next round.
\* net_port_to_local_port asserts that the receiver is attached in the
\* direction it listens in.
DispatchRound ==
  /\ phase = "networks" /\ current # Nil /\ GoesOn(current)
  /\ LET ds        == Deliveries(current)
         receivers == {d[2][3] : d \in ds}
     IN IF \A d \in ds : d[2][4] \in DOMAIN members[d[2][3]].attached
          THEN /\ networks' = Sending(current, {}, {p \in receivers : world[p] \in Relay})
               /\ heard' = ds /\ attempts' = attempts + 1
               /\ UNCHANGED phase
          ELSE phase' = "crashed" /\ UNCHANGED <<networks, heard, attempts>>
  /\ UNCHANGED <<mapvars, marked, members, queued, batch, due, current, missed>>

\* The rest of update_network: the updatable members that are in memory are
\* updated, which for some of them means that they send.  An id that stayed
\* behind when its member moved on is updated with it, whatever is there now.
UpdateDevices(senders) ==
  /\ phase = "networks" /\ current # Nil /\ ~GoesOn(current)
  /\ LET updated == {p \in networks[current].updatable \cap Registered :
                       IsDevice(p) /\ TypeOf[members[p].kind] = "device"}
     IN /\ senders \subseteq updated
        /\ IF \A p \in updated : members[p].kind \in Updatable
             THEN /\ networks' = [Sending(current, networks[current].send, senders)
                                    EXCEPT ![current].updatable = @ \cap Registered]
                  /\ current' = Nil /\ attempts' = 0
                  /\ UNCHANGED phase
             ELSE phase' = "crashed" /\ UNCHANGED <<networks, current, attempts>>
  /\ UNCHANGED <<mapvars, marked, members, queued, batch, due, missed, heard>>

EndUpdate ==
  /\ phase = "networks" /\ current = Nil /\ due = {}
  /\ phase' = "idle"
  /\ UNCHANGED <<mapvars, tables, batch, due, current, attempts, missed, heard>>

\* The positions of devices that send on their own, and of those that listen.
Timers == {p \in Pos : Built[p] \cap Updatable # {}}
Listeners == {p \in Pos : \E k \in Built[p] : Input[k] # {}}

Update ==
  \/ BeginUpdate
  \/ \E p \in batch : ResolvePosition(p)
  \/ BeginNetworks
  \/ \E n \in due : BeginDispatch(n)
  \/ DispatchRound
  \/ \E senders \in SUBSET Timers : UpdateDevices(senders)
  \/ EndUpdate

Next ==
  \/ \E p \in Pos, k \in Kind : PlaceNode(p, k)
  \/ \E p \in Pos : DigNode(p)
  \/ \E b \in Block : UnloadBlock(b) \/ LoadBlock(b) \/ ActivateBlock(b) \/ ExpireBlock(b)
  \/ Update

Spec == Init /\ [][Next]_vars

\* The server keeps stepping: every update begins and comes to its end.
UpdatesGoOn == []<>(phase \in {"idle", "crashed"}) /\ []<>(phase \in {"networks", "crashed"})

\* A device that is updated again and again sends again and again: its timer
\* runs down with every update.
FairSpec ==
  /\ Spec /\ UpdatesGoOn
  /\ \A p \in Timers : SF_current(\E senders \in SUBSET Timers : p \in senders /\ UpdateDevices(senders))

(***************************************************************************)
(* Properties.                                                             *)
(***************************************************************************)
\* The map of the positions S.
Known(S) == [p \in Pos |-> IF p \in S THEN world[p] ELSE Air]

\* The networks no member of which was passed by.
Whole == {n \in Networks : MembersOf(n) \cap missed = {}}

\* Between updates with nothing queued, a whole network is what is connected
\* on the map of those registered, each device is attached to the buses
\* beside it, and listens on the ports it is set to; and what is on the map
\* in memory is registered.
NetworksAreWhole ==
  /\ AreTables(members, networks, marked)
  /\ phase = "idle" /\ queued = {} =>
       LET S    == UNION {MembersOf(n) : n \in Whole}
           node == Known(S)
       IN /\ \A p \in Pos : BlockOf[p] \in activated => (IsDevice(p) <=> p \in Registered)
          /\ \A n \in Whole :
               /\ \A p \in MembersOf(n) :
                    /\ MembersOf(n) = Found(p, node)
                    /\ members[p].kind = world[p]
                    /\ members[p].attached = AttachedTo(p, MembersOf(n), node)
               /\ networks[n].updatable = {p \in MembersOf(n) : world[p] \in Updatable}
               /\ networks[n].receive =
                    UNION {EntriesOf(p, members[p].attached, Input[world[p]]) : p \in MembersOf(n)}

\* The bus b beside the device p and the bus c beside q are wired together.
AreWired(p, b, q, c) ==
  /\ world[p] \in Kind /\ TypeOf[world[p]] = "device" /\ b \in Beside[p]
  /\ world[q] \in Kind /\ TypeOf[world[q]] = "device" /\ c \in Beside[q]
  /\ world[b] \in Kind /\ TypeOf[world[b]] = "bus" /\ world[c] \in Kind /\ TypeOf[world[c]] = "bus"
  /\ c \in Wires(b, {x \in Pos : world[x] \in Kind}, world)

\* The ports on the wires that the device p sends on at b and q is set to at c.
Shared(p, b, q, c) ==
  LET from == ColorOf[world[b]]
      to   == ColorOf[world[c]]
  IN {Offset[from] + o : o \in Output[world[p]] \cap (1..PortRange[from])}
       \cap {Offset[to] + i : i \in Input[world[q]] \cap (1..PortRange[to])}

\* A value only goes from one device to another that wires lead to on the map
\* as it is, on a port of both, and handing it over does not stop the server;
\* unless a refresh passed by a member that was not in memory.
PDUsFollowWires ==
  missed = {} =>
    /\ phase # "crashed"
    /\ phase = "networks" =>
         \A d \in heard :
           LET s == d[1]
               r == d[2]
           IN AreWired(s[3], s[4], r[3], r[4]) /\ s[2] \in Shared(s[3], s[4], r[3], r[4])

\* A device that stays wired to one that sends on its own keeps hearing from
\* it, while the blocks stay in memory.
PulsesArrive ==
  \A p \in Timers, q \in Listeners :
    <>[](/\ loaded = Block /\ activated = Block /\ missed = {}
         /\ world[p] \in Updatable
         /\ \E b, c \in Pos : AreWired(p, b, q, c) /\ Shared(p, b, q, c) # {})
      => []<>(\E d \in heard : d[1][3] = p /\ d[2][3] = q)
=============================================================================
