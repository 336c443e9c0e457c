---------------------------- MODULE SimpleCluster ----------------------------
(***************************************************************************)
(* yatm_clusters/simple_cluster.lua at work: nodes that are placed, dug,   *)
(* swapped, unloaded and loaded in the world schedule events, and every    *)
(* server step Clusters:update ages the block marks, hands the queued      *)
(* events to the handlers of this module and destroys an empty cluster.    *)
(* The world changes between two updates, never during one: `phase` says   *)
(* where the update is.                                                    *)
(***************************************************************************)
EXTENDS ClusterRegistry

CONSTANTS
  ClusterGroupName,  \* m_cluster_group
  ColorOf,           \* [Kind -> Color], the network colour of a node name
  Color,
  DefaultColor,      \* the colour that is compatible with all
  Air,               \* no device at a position
  Walks,             \* orders in which pairs() may go through DIR6_TO_VEC3
  Environment,       \* what the world does: a subset of EnvironmentActions
  Hasty,             \* whether it may do more than one thing between updates
  MaxQueue           \* bound: events queued between two updates

EnvironmentActions == {"place", "dig", "swap", "work", "unload", "activate"}

Dir6 == {<<1, 0, 0>>, <<-1, 0, 0>>, <<0, 1, 0>>, <<0, -1, 0>>, <<0, 0, 1>>, <<0, 0, -1>>}

ASSUME SimpleClusterAssumption ==
  /\ ClusterGroupName \in ClusterGroup
  /\ ColorOf \in [Kind -> Color]
  /\ Air \notin Kind
  /\ Pos \subseteq Int \X Int \X Int
  /\ MaxQueue \in Nat
  /\ Environment \subseteq EnvironmentActions
  /\ Hasty \in BOOLEAN

VARIABLES
  world,    \* [Pos -> Kind \cup {Air}], the nodes on the map
  queue,    \* m_queued_node_events
  batch,    \* the events _resolve_node_events still has to hand out
  phase     \* "idle" between updates, "events" inside one, or "crashed"

vars == <<reg, world, loaded, queue, batch, phase>>

EventName == {"add_node", "load_node", "update_node", "remove_node"}
Event == [name : EventName, pos : Pos, kind : Kind]

TypeOK ==
  /\ IsRegistry(reg)
  /\ world \in [Pos -> Kind \cup {Air}]
  /\ loaded \subseteq Block
  /\ queue \in Seq(Event) /\ batch \in Seq(Event)
  /\ phase \in {"idle", "events", "crashed"}

Init ==
  /\ reg = EmptyRegistry
  /\ world = [p \in Pos |-> Air]
  /\ loaded = Block
  /\ queue = <<>> /\ batch = <<>>
  /\ phase = "idle"

(***************************************************************************)
(* Neighbourhood.                                                          *)
(***************************************************************************)
AddVec(p, d) == <<p[1] + d[1], p[2] + d[2], p[3] + d[3]>>

Adjacent(p, q) == \E d \in Dir6 : AddVec(p, d) = q

\* is_compatible_colors of the colours of two node names
Compatible(a, b) ==
  \/ ColorOf[a] = DefaultColor
  \/ ColorOf[b] = DefaultColor
  \/ ColorOf[a] = ColorOf[b]

\* Positions where minetest.get_node finds a node of the network.
IsVisible(p) == BlockOf[p] \in loaded /\ world[p] # Air

\* mark_accessible_dirs: explore_nodes goes from p to q.
Leads(p, q) == Adjacent(p, q) /\ IsVisible(q) /\ Compatible(world[p], world[q])

\* explore_nodes from a visible p: the nodes of the world it collects, the
\* least set with p that nothing leads out of.
Visible == {q \in Pos : IsVisible(q)}

IsClosed(S) == \A o \in S, q \in Pos : Leads(o, q) => q \in S

Explore(p) ==
  {q \in Visible : \A S \in SUBSET Visible : p \in S /\ IsClosed(S) => q \in S}

\* The positions scan_for_branches starts from: it steps on from the last
\* position, not from the removed node, so these are the partial sums.
Origins(p, walk) ==
  LET origin[i \in 0..Len(walk)] == IF i = 0 THEN p ELSE AddVec(origin[i - 1], walk[i])
  IN {origin[i] : i \in 1..Len(walk)}

\* scan_for_branches: what is explored from two origins and overlaps is joined.
Branches(p, walk) == {Explore(o) : o \in {q \in Origins(p, walk) \cap Pos : IsVisible(q)}}

(***************************************************************************)
(* The event handlers.  Each is the change of the registry for an event.   *)
(***************************************************************************)
OwnGroup == {ClusterGroupName}

\* mutant: the colours are not compared
Joinable_AnyColor(kind, q) ==
  {c \in ClustersOfGroup(reg, ClusterGroupName) : q \in Members(reg.m_clusters[c])}

\* The clusters of the group in which q is a neighbour a node can join.
Joinable(kind, q) ==
  {c \in ClustersOfGroup(reg, ClusterGroupName) :
     /\ q \in Members(reg.m_clusters[c])
     /\ Compatible(kind, reg.m_clusters[c].nodes[q])}

JoinablePositions(p, kind) == {q \in Pos : Adjacent(p, q) /\ Joinable(kind, q) # {}}

\* find_compatible_neighbours keeps one cluster per direction.
Neighbours(p, kind) ==
  {f \in [JoinablePositions(p, kind) -> Live(reg)] :
     \A q \in DOMAIN f : f[q] \in Joinable(kind, q)}

SetGeneration(r, c) == [r EXCEPT !.m_clusters = [@ EXCEPT ![c].assigns.generation_id = TRUE]]

\* handle_add_node: create a cluster, join the only one, or merge all and
\* join the result, which is cluster number c.
JoinClusters(e, s, c) ==
  LET joined == CASE Len(s) = 0 -> CreateCluster(reg, OwnGroup)
                  [] Len(s) = 1 -> reg
                  [] OTHER      -> MergeClusters(reg, s)
  IN /\ c = IF Len(s) = 1 THEN s[1] ELSE NextId(reg)
     /\ reg' = SetGeneration(AddNodeToCluster(joined, c, e.pos, e.kind), c)

handle_add_node(e, c) ==
  \E neighbours \in Neighbours(e.pos, e.kind) :
    \E s \in Orders(Range(neighbours)) : JoinClusters(e, s, c)

\* handle_update_node asks the first cluster of the whole group, not the
\* node's own.
handle_update_node(e) ==
  \E c \in ClustersOfGroup(reg, ClusterGroupName) :
    reg' = UpdateNodeInCluster(reg, c, e.pos, e.kind)

GroupClustersAt(r, p) == {c \in ClustersAt(r, p) : ClusterGroupName \in r.m_clusters[c].groups}

OrNil(S) == IF S = {} THEN {Nil} ELSE S

\* The first half of handle_remove_node: the node leaves the cluster c that
\* get_node_cluster returned, if there was one.
WithoutNode(p, c) == IF c = Nil THEN reg ELSE RemoveNodeFromCluster(reg, c, p)

\* The clusters handle_remove_node takes a branch for: of the first indexed
\* node of the branch, the first cluster.
Affected(r, branches) ==
  {f \in [branches -> Live(r) \cup {Nil}] :
     \A b \in branches : f[b] \in OrNil(UNION {GroupClustersAt(r, q) : q \in b})}

\* The second half: the clusters of the branches are destroyed and each
\* branch becomes a cluster of its own, out of the nodes found in the world.
RebuildBranches(r, branches) ==
  \E owner \in Affected(r, branches), s \in Orders(branches) :
    reg' = CreateClusters(RemoveClusters(r, Range(owner) \ {Nil}), OwnGroup,
                          [i \in DOMAIN s |-> Restrict(world, s[i])])

handle_remove_node(e, branches) ==
  \E c \in OrNil(GroupClustersAt(reg, e.pos)) :
    RebuildBranches(WithoutNode(e.pos, c), branches)

(***************************************************************************)
(* Clusters:update.                                                        *)
(***************************************************************************)

\* mutant: a cluster refreshed once counts as refreshed for ever
AgeGenerations_Never(r) == r

\* The clusters' generations are compared with a counter that has moved on.
AgeGenerations(r) ==
  [r EXCEPT !.m_clusters =
     [c \in DOMAIN @ |-> [r.m_clusters[c] EXCEPT !.assigns.generation_id = FALSE]]]

\* mutant: the queue is emptied before it is taken
BeginUpdate_ClearsFirst ==
  /\ phase = "idle"
  /\ reg' = AgeGenerations(UpdateActiveBlocks(reg, loaded, BlockTimeout))
  /\ batch' = <<>> /\ queue' = <<>>
  /\ phase' = "events"
  /\ UNCHANGED <<world, loaded>>

BeginUpdate ==
  /\ phase = "idle"
  /\ reg' = AgeGenerations(UpdateActiveBlocks(reg, loaded, BlockTimeout))
  /\ batch' = queue
  /\ queue' = <<>>
  /\ phase' = "events"
  /\ UNCHANGED <<world, loaded>>

TakeEvent(name) ==
  /\ phase = "events"
  /\ batch # <<>>
  /\ Head(batch).name = name
  /\ batch' = Tail(batch)

\* SimpleCluster handles load_node as add_node.
HandleAddNode ==
  /\ TakeEvent("add_node") \/ TakeEvent("load_node")
  /\ \E c \in ClusterId \cap 1..NextId(reg) : handle_add_node(Head(batch), c)
  /\ UNCHANGED <<world, loaded, queue, phase>>

HandleUpdateNode ==
  /\ TakeEvent("update_node")
  /\ handle_update_node(Head(batch))
  /\ UNCHANGED <<world, loaded, queue, phase>>

\* pairs(given_cluster_ids) of a group that has no cluster is an error.
HandleUpdateNodeCrash ==
  /\ TakeEvent("update_node")
  /\ ClustersOfGroup(reg, ClusterGroupName) = {}
  /\ phase' = "crashed"
  /\ UNCHANGED <<reg, world, loaded, queue>>

HandleRemoveNode ==
  /\ TakeEvent("remove_node")
  /\ \E walk \in Walks : handle_remove_node(Head(batch), Branches(Head(batch).pos, walk))
  /\ UNCHANGED <<world, loaded, queue, phase>>

\* mutants: a cluster goes whether it is empty or not; only the first cluster
\* pairs() meets is looked at
DestroyEmptyCluster_Any ==
  \E c \in OrNil(Live(reg)) : reg' = IF c = Nil THEN reg ELSE RemoveClusters(reg, {c})

DestroyEmptyCluster_OneLook ==
  \E c \in OrNil(Live(reg)) :
    reg' = IF c # Nil /\ IsEmpty(reg.m_clusters[c]) THEN RemoveClusters(reg, {c}) ELSE reg

\* _update_clusters: the first empty cluster pairs() meets is destroyed.  (The
\* handler also asks for `pinned`, which nothing in the sources sets.)
DestroyEmptyCluster ==
  LET empty == {c \in Live(reg) : IsEmpty(reg.m_clusters[c])}
  IN \E c \in OrNil(empty) :
       reg' = IF c = Nil THEN reg ELSE RemoveClusters(reg, {c})

\* The step interval is over: the clusters are updated as well.
EndUpdate ==
  /\ phase = "events" /\ batch = <<>>
  /\ DestroyEmptyCluster
  /\ phase' = "idle"
  /\ UNCHANGED <<world, loaded, queue, batch>>

\* The accumulated time is still below the step interval.
EndShortUpdate ==
  /\ phase = "events" /\ batch = <<>>
  /\ phase' = "idle"
  /\ UNCHANGED <<reg, world, loaded, queue, batch>>

(***************************************************************************)
(* The world.                                                              *)
(***************************************************************************)
MayAct(action, events) ==
  /\ action \in Environment
  /\ phase = "idle"
  /\ Hasty \/ queue = <<>>
  /\ reg.m_cluster_id < MaxClusterId
  /\ Len(queue) + events <= MaxQueue

Schedule(name, p, kind) ==
  queue' = Append(queue, [name |-> name, pos |-> p, kind |-> kind])

\* on_construct schedules the node.
PlaceNode(p, kind) ==
  /\ MayAct("place", 1)
  /\ BlockOf[p] \in loaded /\ world[p] = Air
  /\ world' = [world EXCEPT ![p] = kind]
  /\ Schedule("add_node", p, kind)
  /\ UNCHANGED <<reg, loaded, batch, phase>>

\* after_destruct schedules the removal of the old node.
DigNode(p) ==
  /\ MayAct("dig", 1)
  /\ IsVisible(p)
  /\ world' = [world EXCEPT ![p] = Air]
  /\ Schedule("remove_node", p, world[p])
  /\ UNCHANGED <<reg, loaded, batch, phase>>

\* A device changes its name in place, without the callbacks above, and
\* schedules an update.
SwapNode(p, kind) ==
  /\ MayAct("swap", 1)
  /\ IsVisible(p) /\ world[p] # kind /\ ColorOf[world[p]] = ColorOf[kind]
  /\ world' = [world EXCEPT ![p] = kind]
  /\ Schedule("update_node", p, kind)
  /\ UNCHANGED <<reg, loaded, batch, phase>>

UnloadBlock(b) ==
  /\ MayAct("unload", 0)
  /\ b \in loaded
  /\ loaded' = loaded \ {b}
  /\ UNCHANGED <<reg, world, queue, batch, phase>>

\* A block is loaded, or becomes active again while it is in memory: the
\* loading block modifier schedules every node of the block.
ActivateBlock(b) ==
  LET nodes == {p \in Pos : BlockOf[p] = b /\ world[p] # Air}
      Load(p) == [name |-> "load_node", pos |-> p, kind |-> world[p]]
  IN /\ MayAct("activate", Cardinality(nodes))
     /\ loaded' = loaded \cup {b}
     /\ \E s \in Orders(nodes) : queue' = queue \o [i \in DOMAIN s |-> Load(s[i])]
     /\ UNCHANGED <<reg, world, batch, phase>>

Update ==
  \/ BeginUpdate
  \/ HandleAddNode
  \/ HandleUpdateNode
  \/ HandleUpdateNodeCrash
  \/ HandleRemoveNode
  \/ EndUpdate

Next ==
  \/ Update
  \/ EndShortUpdate
  \/ \E p \in Pos, kind \in Kind : PlaceNode(p, kind) \/ SwapNode(p, kind)
  \/ \E p \in Pos : DigNode(p)
  \/ \E b \in Block : UnloadBlock(b) \/ ActivateBlock(b)

Spec == Init /\ [][Next]_vars

\* The server runs an update every step, and the step time adds up to the
\* interval again and again.
FairSpec == Spec /\ WF_vars(Update) /\ SF_vars(EndUpdate)

(***************************************************************************)
(* Views of the registry.                                                  *)
(***************************************************************************)
Holders(p) == {c \in Live(reg) : p \in Members(reg.m_clusters[c])}

Registered == {p \in Pos : Holders(p) # {}}

\* Nothing is under way.
Settled == phase = "idle" /\ queue = <<>>

(***************************************************************************)
(* What always holds.                                                      *)
(***************************************************************************)

\* An update_node event always finds a cluster table to iterate over.  Swaps that
\* no cluster decides (SwapNode, Work) and digging together break this.
NeverCrashes == phase # "crashed"

\* A device in the world only leaves the clusters while the removal of a node is
\* handled: no merge, update or expiry ever loses one.
Removing == batch # <<>> /\ Head(batch).name = "remove_node"

DevicesStay ==
  [][\A p \in Registered : IsVisible(p) /\ IsVisible(p)' => p \in Registered' \/ Removing]_vars

(***************************************************************************)
(* What holds as long as nothing is dug, unloaded or loaded again.         *)
(***************************************************************************)
Blobs ==
  INSTANCE Blobs WITH
    Node <- Pos, Name <- Kind,
    Linked <- LAMBDA p, m, q, n : Adjacent(p, q) /\ Compatible(m, n),
    nodes <- [p \in Registered |-> reg.m_clusters[CHOOSE c \in Holders(p) : TRUE].nodes[p]],
    blobs <- {Members(reg.m_clusters[c]) : c \in {d \in Live(reg) : ~IsEmpty(reg.m_clusters[d])}}

\* The handlers implement the blobs: every event is one blob step or none.
ImplementsBlobs == Blobs!Spec

\* No node is a member of two clusters.
AtMostOneCluster == \A p \in Pos : Cardinality(Holders(p)) <= 1

(***************************************************************************)
(* What holds as long as nothing is unloaded.                              *)
(***************************************************************************)

\* get_node of a position finds what its clusters hold: every cluster the
\* node index leads to has the node.
IndexLeadsToMembers == \A p \in Pos : ClustersAt(reg, p) = Holders(p)

\* When all events are handled, every device in a loaded block is in a cluster.
EveryDeviceIsClustered == Settled => \A p \in Pos : IsVisible(p) => p \in Registered

(***************************************************************************)
(* What the sources say and the handlers do not keep.                      *)
(***************************************************************************)

\* A simple cluster is "a blob of nodes that interconnect just by being
\* beside each other" (simple_cluster.lua:2): once all events are handled no
\* cluster consists of parts that are not beside each other.
ClustersHoldTogether ==
  Settled => \A c \in Live(reg) : Blobs!Connected(Members(reg.m_clusters[c]))

\* produce_energy "is guarnteed to be called only once during a tick
\* per-energy_producer-node" (energy_devices.lua:76): the energy system calls
\* it for every producer of every cluster, so a producer is in one cluster.
ProducersAreCalledOnce ==
  \A p \in Pos :
    Cardinality({c \in Live(reg) : <<"energy_producer", p>> \in reg.m_clusters[c].group_nodes}) <= 1

(***************************************************************************)
(* What must happen eventually.                                            *)
(***************************************************************************)

\* Clusters nobody is in are garbage collected.
EmptyClustersGo ==
  \A c \in 1..MaxClusterId + MaxQueue : []<>~(c \in Live(reg) /\ IsEmpty(reg.m_clusters[c]))

\* Nodes of an unloaded block leave their clusters, unless it is loaded again.
UnloadedNodesLeave ==
  \A p \in Pos : []<>(BlockOf[p] \in loaded \/ p \notin Registered)

\* A device that is placed or loaded is taken into a cluster, whatever else
\* waits with it and happens before, unless it is gone by then.  It need not stay
\* there (DevicesStay).
Waits(p) == \E i \in DOMAIN queue : queue[i].name \in {"add_node", "load_node"} /\ queue[i].pos = p

DevicesJoin == \A p \in Pos : Waits(p) ~> (p \in Registered \/ ~IsVisible(p))

=============================================================================
