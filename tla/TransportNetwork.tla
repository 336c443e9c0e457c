-------------------------- MODULE TransportNetwork --------------------------
(***************************************************************************)
(* yatm_clusters/generic_transport_network.lua: the networks of pipes and  *)
(* ducts.  Nodes register themselves when they are built, dug, switched or *)
(* loaded, which only puts positions in a queue; the next update floods    *)
(* the world from every queued position and makes a new network of what it *)
(* finds, moving the members out of their old ones.  Blocks that expire in *)
(* yatm.clusters take their members along.  What a network moves is left   *)
(* to the extending modules: UpdateNetwork here only keeps, or not, what   *)
(* check_network_member leaves in m_invalid_networks.                      *)
(***************************************************************************)
EXTENDS Naturals, FiniteSets, Functions

CONSTANTS
  Pos,         \* node positions
  Beside,      \* [Pos -> SUBSET Pos], the neighbours in the six directions
  Kind,        \* registered node names that have the interface
  TypeOf,      \* [Kind -> DeviceType], interface.type
  OpenValves,  \* the kinds whose interface.state is "on"
  Color, DefaultColor, ColorOf,
  Built,       \* [Pos -> SUBSET Kind], bound: what may be built at a position
  Block, BlockOf,
  Volatile,    \* bound: the blocks that may be unloaded
  Air,         \* a node without the interface
  NetworkId,
  NewIds,      \* [SUBSET Pos -> SUBSET NetworkId], what generate_network_id may
               \* return for a network of these members
  Nil

DeviceType == {"inserter", "extractor", "transporter", "valve", "hopper"}

ASSUME TransportAssumption ==
  /\ Beside \in [Pos -> SUBSET Pos]
  /\ TypeOf \in [Kind -> DeviceType] /\ OpenValves \subseteq Kind
  /\ ColorOf \in [Kind -> Color] /\ DefaultColor \in Color
  /\ Built \in [Pos -> SUBSET Kind]
  /\ BlockOf \in [Pos -> Block] /\ Volatile \subseteq Block
  /\ NewIds \in [SUBSET Pos -> SUBSET NetworkId]
  /\ {Air, Nil} \cap Kind = {} /\ Nil \notin NetworkId

\* The map has an end, and neighbours are neighbours of each other.
ASSUME MapAssumption ==
  IsFiniteSet(Pos) /\ \A p, q \in Pos : q \in Beside[p] => p \in Beside[q]

VARIABLES
  world,      \* [Pos -> Kind \cup {Air}], the nodes on the map
  loaded,     \* the map blocks in memory
  activated,  \* those whose loading modifiers have run since they were loaded
  overlooked, \* history: blocks unloaded before that, and not activated since
  marked,     \* the blocks with a mark of yatm.clusters:mark_node_block
  gtn,        \* the tables of the class
  invalid,    \* m_invalid_networks
  phase,      \* where update is: "idle", "queue" or "networks"
  batch,      \* the queued positions resolve_queue has not come to
  due         \* the networks update_networks may still update

vars == <<world, loaded, activated, overlooked, marked, gtn, invalid, phase, batch, due>>

(***************************************************************************)
(* The tables.  A record of m_members is referred to from m_members and    *)
(* from every index; what the indexes hold is the position.                *)
(***************************************************************************)
Member == [name : Kind, network : NetworkId \cup {Nil}]

\* members_by_type of a network is a table of those types only that it has
\* had members of.
IsNetwork(n) ==
  /\ n = [members |-> n.members, by_type |-> n.by_type]
  /\ n.members \subseteq Pos
  /\ DOMAIN n.by_type \subseteq DeviceType
  /\ n.by_type \in [DOMAIN n.by_type -> SUBSET Pos]

IsTables(g) ==
  /\ g = [members |-> g.members, by_type |-> g.by_type, block_members |-> g.block_members,
          networks |-> g.networks, queue |-> g.queue]
  /\ DOMAIN g.members \subseteq Pos /\ g.members \in [DOMAIN g.members -> Member]
  /\ g.by_type \in [DeviceType -> SUBSET Pos]
  /\ g.block_members \in [Block -> SUBSET Pos]
  /\ DOMAIN g.networks \subseteq NetworkId
  /\ g.networks = [n \in DOMAIN g.networks |-> g.networks[n]]
  /\ \A n \in DOMAIN g.networks : IsNetwork(g.networks[n])
  /\ g.queue \subseteq Pos

Empty == [x \in {} |-> Nil]

Registered == DOMAIN gtn.members
Networks == DOMAIN gtn.networks
DeviceTypeOf(p) == TypeOf[gtn.members[p].name]
OfType(S, y) == {p \in S : DeviceTypeOf(p) = y}
MembersOf(n) == {p \in Registered : gtn.members[p].network = n}

\* What minetest.get_node answers: "ignore" for a block that is not loaded.
NodeAt(p) == IF BlockOf[p] \in loaded THEN world[p] ELSE Nil
IsDevice(p) == NodeAt(p) \in Kind

Init ==
  /\ world = [p \in Pos |-> Air]
  /\ loaded = Block /\ activated = Block /\ overlooked = {} /\ marked = {}
  /\ gtn = [members |-> Empty, by_type |-> [y \in DeviceType |-> {}],
            block_members |-> [b \in Block |-> {}], networks |-> Empty, queue |-> {}]
  /\ invalid = {} /\ phase = "idle"
  /\ batch = {} /\ due = {}

\* mutant: only the position itself is queued
QueueAllAdjacent_Itself(S) == S

\* queue_all_adjacent, of every position of S
QueueAllAdjacent(S) == S \cup UNION {Beside[p] : p \in S}

\* gc_networks.  The code runs it at the end of the next update; until then
\* nobody refers to an empty network and update_networks passes it by, so
\* here it goes at once.
GcNetworks(networks) == Restrict(networks, {n \in DOMAIN networks : networks[n].members # {}})

\* mutant: the network keeps the record in its table of the type
LeaveNetworks_KeepsType(S) ==
  GcNetworks([n \in Networks |->
     [gtn.networks[n] EXCEPT !.members = @ \ (S \cap MembersOf(n))]])

\* The networks after the records of S, all registered, are taken out of
\* their members and members_by_type; an empty table of a type stays.
LeaveNetworks(S) ==
  GcNetworks([n \in Networks |->
     LET mine == S \cap MembersOf(n)
     IN [members |-> gtn.networks[n].members \ mine,
         by_type |-> [y \in DOMAIN gtn.networks[n].by_type |->
                        gtn.networks[n].by_type[y] \ OfType(mine, y)]]])

\* unregister_member of every position of S that is registered
Unregister(S) ==
  LET gone == S \cap Registered
  IN [members       |-> Restrict(gtn.members, Registered \ gone),
      by_type       |-> [y \in DeviceType |-> gtn.by_type[y] \ OfType(gone, y)],
      block_members |-> [b \in Block |-> gtn.block_members[b] \ {p \in gone : BlockOf[p] = b}],
      networks      |-> LeaveNetworks(gone),
      queue         |-> gtn.queue \cup QueueAllAdjacent(gone)]

\* update_member of every position of S with the nodes `node`: an old record
\* is taken out, the new one belongs to no network yet.
Update(S, node) ==
  LET old == S \cap Registered
  IN [members       |-> [p \in Registered \cup S |->
                           IF p \in S THEN [name |-> node[p], network |-> Nil] ELSE gtn.members[p]],
      by_type       |-> [y \in DeviceType |->
                           (gtn.by_type[y] \ OfType(old, y)) \cup {p \in S : TypeOf[node[p]] = y}],
      block_members |-> [b \in Block |-> gtn.block_members[b] \cup {p \in S : BlockOf[p] = b}],
      networks      |-> LeaveNetworks(old),
      queue         |-> gtn.queue \cup QueueAllAdjacent(S)]

(***************************************************************************)
(* get_connected_pos and the flood of resolve_queue.                       *)
(***************************************************************************)
MatchesColor(a, b) == a = b \/ DefaultColor \in {a, b}

\* Whether a node of kind `from` sends the flood on to one of kind `to`.
LeadsTo(from, to) ==
  /\ MatchesColor(ColorOf[from], ColorOf[to])
  /\ \/ TypeOf[from] \in {"extractor", "inserter"} /\ TypeOf[to] # TypeOf[from]
     \/ TypeOf[from] = "valve" /\ from \in OpenValves
     \/ TypeOf[from] = "transporter"

\* The positions get_connected_pos adds to to_visit on the map `node`.
Connected(p, node) == {q \in Beside[p] : node[q] \in Kind /\ LeadsTo(node[p], node[q])}

\* The devices the flood from p visits: after n rounds, those up to n steps
\* away.
Flood(p, node) ==
  LET Visited[n \in Nat] ==
        IF n = 0 THEN {p} ELSE Visited[n - 1] \cup UNION {Connected(q, node) : q \in Visited[n - 1]}
  IN IF node[p] \in Kind THEN Visited[Cardinality(Pos)] ELSE {}

Seen == [p \in Pos |-> NodeAt(p)]

\* What resolve_queue does to the networks the registered devices S were in:
\* a table of a type that runs empty is removed.
MoveOut(S) ==
  GcNetworks([n \in Networks |->
     LET mine == S \cap MembersOf(n)
         old  == gtn.networks[n].by_type
         kept == {y \in DOMAIN old : OfType(mine, y) = {} \/ old[y] \ OfType(mine, y) # {}}
     IN [members |-> gtn.networks[n].members \ mine,
         by_type |-> [y \in kept |-> old[y] \ OfType(mine, y)]]])

\* Whether generate_network_id gives the id to a network of S: no other has it.
IsNewId(id, S) == id \in NewIds[S] \ DOMAIN MoveOut(S)

\* The registered devices S become the network `id`; a network without
\* members is not kept.
Regroup(S, id) ==
  LET network == [members |-> S, by_type |-> [y \in {DeviceTypeOf(p) : p \in S} |-> OfType(S, y)]]
  IN [gtn EXCEPT
        !.members = [p \in Registered |-> IF p \in S THEN [@[p] EXCEPT !.network = id] ELSE @[p]],
        !.networks = GcNetworks([n \in DOMAIN MoveOut(S) \cup {id} |->
                                   IF n = id THEN network ELSE MoveOut(S)[n]])]

(***************************************************************************)
(* What happens to the world between two updates.                          *)
(***************************************************************************)
\* Nodes are built, dug and switched near players, where blocks are active.
IsActive(p) == phase = "idle" /\ BlockOf[p] \in activated

\* mutant: nobody watches the block
Mark_Never(S) == marked' = marked

\* yatm.clusters:mark_node_block
Mark(S) == marked' = marked \cup {BlockOf[p] : p \in S}

\* on_construct or after_place_node: register_member
PlaceNode(p, k) ==
  /\ IsActive(p) /\ world[p] = Air /\ k \in Built[p]
  /\ world' = [world EXCEPT ![p] = k]
  /\ gtn' = Update({p}, world') /\ Mark({p})
  /\ UNCHANGED <<loaded, activated, overlooked, invalid, phase, batch, due>>

\* after_destruct: unregister_member
DigNode(p) ==
  /\ IsActive(p) /\ world[p] # Air
  /\ world' = [world EXCEPT ![p] = Air]
  /\ gtn' = Unregister({p})
  /\ UNCHANGED <<loaded, activated, overlooked, marked, invalid, phase, batch, due>>

\* A valve is switched: swap_node and update_member
SwitchValve(p, k) ==
  /\ IsActive(p) /\ world[p] # Air /\ k \in Built[p]
  /\ TypeOf[world[p]] = "valve" /\ TypeOf[k] = "valve" /\ ColorOf[k] = ColorOf[world[p]]
  /\ (k \in OpenValves) # (world[p] \in OpenValves)
  /\ world' = [world EXCEPT ![p] = k]
  /\ gtn' = Update({p}, world') /\ Mark({p})
  /\ UNCHANGED <<loaded, activated, overlooked, invalid, phase, batch, due>>

\* The engine drops a block from memory and tells nobody.
UnloadBlock(b) ==
  /\ phase = "idle" /\ b \in loaded \cap Volatile
  /\ loaded' = loaded \ {b} /\ activated' = activated \ {b}
  /\ overlooked' = IF b \in activated THEN overlooked ELSE overlooked \cup {b}
  /\ UNCHANGED <<world, marked, gtn, invalid, phase, batch, due>>

LoadBlock(b) ==
  /\ phase = "idle" /\ b \notin loaded
  /\ loaded' = loaded \cup {b}
  /\ UNCHANGED <<world, activated, overlooked, marked, gtn, invalid, phase, batch, due>>

\* mutant: what is registered already is left alone
RegisterBlock_SkipsKnown(S) == Update(S \ Registered, world)

\* The loading modifier registers every node of the group in the block,
\* those that are registered already as well.
RegisterBlock(S) == Update(S, world)

ActivateBlock(b) ==
  LET devices == {p \in Pos : BlockOf[p] = b /\ IsDevice(p)}
  IN /\ phase = "idle" /\ b \in loaded \ activated
     /\ activated' = activated \cup {b} /\ overlooked' = overlooked \ {b}
     /\ gtn' = RegisterBlock(devices) /\ Mark(devices)
     /\ UNCHANGED <<world, loaded, invalid, phase, batch, due>>

\* mutant: nothing is queued
UnregisterBlock_Quietly(b) ==
  [Unregister(gtn.block_members[b]) EXCEPT !.queue = gtn.queue]

\* unload_block
UnregisterBlock(b) == Unregister(gtn.block_members[b])

\* yatm.clusters notices that the mark of a block ran out and that it is not
\* loaded: it drops the mark and calls the observers of on_block_expired.
ExpireBlock(b) ==
  /\ phase = "idle" /\ b \in marked \ loaded
  /\ marked' = marked \ {b}
  /\ gtn' = UnregisterBlock(b)
  /\ UNCHANGED <<world, loaded, activated, overlooked, invalid, phase, batch, due>>

(***************************************************************************)
(* update                                                                  *)
(***************************************************************************)
\* The members of the networks of N whose node is not what was registered.
Mismatched(N) ==
  {p \in UNION {gtn.networks[n].members : n \in N \cap Networks} : NodeAt(p) # gtn.members[p].name}

\* resolve_invalid_networks; then resolve_queue takes the queue.  It finds
\* nothing at a position without a device, which the batch leaves out.
BeginUpdate ==
  LET checked == Unregister(Mismatched(invalid))
  IN /\ phase = "idle"
     /\ phase' = "queue"
     /\ invalid' = {}
     /\ gtn' = [checked EXCEPT !.queue = {}]
     /\ batch' = {p \in checked.queue : IsDevice(p)}
     /\ UNCHANGED <<world, loaded, activated, overlooked, marked, due>>

\* The members whose counter becomes m_counter when p is resolved.
Refreshed(p) == Flood(p, Seen) \cap Registered

\* One position of the queue; pairs() yields them in any order.  A member
\* that was refreshed in this update is not scanned again.
ResolvePosition(p) ==
  LET moved == Refreshed(p)
      id    == CHOOSE n \in NewIds[moved] : IsNewId(n, moved)
  IN /\ phase = "queue" /\ p \in batch
     /\ batch' = batch \ ({p} \cup moved)
     /\ IsNewId(id, moved)
     /\ gtn' = Regroup(moved, id)
     /\ UNCHANGED <<world, loaded, activated, overlooked, marked, invalid, phase, due>>

BeginNetworks ==
  /\ phase = "queue" /\ batch = {}
  /\ phase' = "networks"
  /\ due' = Networks
  /\ UNCHANGED <<world, loaded, activated, overlooked, marked, gtn, invalid, batch>>

\* update_network of a network whose wait has run out; whether it uses the
\* members that would invalidate it is left open.
UpdateNetwork(n) ==
  /\ phase = "networks" /\ n \in due
  /\ due' = due \ {n}
  /\ \/ UNCHANGED invalid
     \/ Mismatched({n}) # {} /\ invalid' = invalid \cup {n}
  /\ UNCHANGED <<world, loaded, activated, overlooked, marked, gtn, phase, batch>>

\* The other networks have to wait.
EndUpdate ==
  /\ phase = "networks"
  /\ phase' = "idle" /\ due' = {}
  /\ UNCHANGED <<world, loaded, activated, overlooked, marked, gtn, invalid, batch>>

Environment ==
  \/ \E p \in Pos, k \in Kind : PlaceNode(p, k) \/ SwitchValve(p, k)
  \/ \E p \in Pos : DigNode(p)
  \/ \E b \in Block : UnloadBlock(b) \/ LoadBlock(b) \/ ActivateBlock(b) \/ ExpireBlock(b)

Next ==
  \/ Environment
  \/ BeginUpdate
  \/ \E p \in Pos : ResolvePosition(p)
  \/ BeginNetworks
  \/ \E n \in NetworkId : UpdateNetwork(n)
  \/ EndUpdate

Spec == Init /\ [][Next]_vars

(***************************************************************************)
(* Properties.                                                             *)
(***************************************************************************)
\* The tables are well formed, and every index agrees with m_members entry
\* by entry: by type, by block, by network and, inside a network, by type.
\* resolve_queue relies on it: it calls next() on the table of an old
\* network that it has just looked a member up in, whether there is one or
\* not.  The block of a member is marked, or its expiry would go unnoticed.
TablesAgree ==
  /\ IsTables(gtn)
  /\ \A y \in DeviceType : gtn.by_type[y] = OfType(Registered, y)
  /\ \A b \in Block : gtn.block_members[b] = {p \in Registered : BlockOf[p] = b}
  /\ \A n \in Networks :
       /\ gtn.networks[n].members = MembersOf(n)
       /\ \A y \in DeviceType :
            IF y \in DOMAIN gtn.networks[n].by_type
              THEN gtn.networks[n].by_type[y] = OfType(MembersOf(n), y)
              ELSE OfType(MembersOf(n), y) = {}
  /\ \A p \in Registered :
       /\ gtn.members[p].network \in Networks \cup {Nil}
       /\ BlockOf[p] \in marked

\* No block is on its way in or out: the loading modifiers of those in memory
\* have run, and no member is left of one that is gone.  A block that was
\* loaded and dropped again before its modifiers ran is excepted: a flood may
\* have gone through nodes that nobody registered, which no expiry undoes.
BlocksAreSettled ==
  /\ loaded = activated /\ overlooked = {}
  /\ \A p \in Registered : BlockOf[p] \in loaded

IsSettled == phase = "idle" /\ gtn.queue = {} /\ BlocksAreSettled

Conducts(p) ==
  LET y == TypeOf[world[p]]
  IN y \in {"extractor", "inserter", "transporter"} \/ (y = "valve" /\ world[p] \in OpenValves)

\* Once things settle, the members are the devices on the map that is
\* loaded, under their names, and the networks are the connected parts of
\* it: two nodes that conduct share one exactly when the pipes between them
\* lead from one to the other, and a closed valve is in none that does not
\* reach it.  It takes the marks, the loading modifiers, the expiry and the
\* queue together.
NetworksAreComponents ==
  IsSettled =>
    /\ Registered = {p \in Pos : IsDevice(p)}
    /\ \A p \in Registered :
         /\ gtn.members[p].name = world[p]
         /\ Conducts(p) => gtn.members[p].network # Nil
         /\ \A q \in Registered :
              Conducts(p) /\ gtn.members[q].network = gtn.members[p].network
                => q \in Flood(p, Seen)
         /\ \A q \in Flood(p, Seen) :
              Conducts(p) /\ Conducts(q) => gtn.members[q].network = gtn.members[p].network

\* The members of a block that was unloaded leave, unless it is loaded again.
UnloadedMembersLeave ==
  \A p \in Pos : []<>(BlockOf[p] \in loaded \/ p \notin Registered)

=============================================================================
