---------------------------- MODULE DeviceProofs ----------------------------
(***************************************************************************)
(* Simple clusters and device clusters keep the tables of the registry in  *)
(* step, and no event finds the registry without a cluster it needs:       *)
(* whatever the world does between two updates and in whatever order the   *)
(* handlers meet it, on any map and with any number of clusters.  The last *)
(* part is about a world that only grows: no node is lost or doubled, the  *)
(* clusters are blobs, elections are current and devices show their state. *)
(***************************************************************************)
EXTENDS DeviceCluster, RegistryProofs, SequenceTheorems

(***************************************************************************)
(* Operations of the registry that only the handlers use.                  *)
(***************************************************************************)
LEMMA FunctionIsSequence ==
  ASSUME NEW S, NEW n \in Nat, NEW s \in [1..n -> S]
  PROVE  s \in Seq(S) /\ Len(s) = n
<1>1. s \in Seq(S)
  BY SeqDef
<1>2. Len(s) \in Nat /\ DOMAIN s = 1..Len(s) /\ DOMAIN s = 1..n
  BY <1>1, LenProperties
<1> QED BY <1>1, <1>2

\* The clusters change in their assigns only.
LEMMA AssignsConsistent ==
  ASSUME NEW r, Consistent(r), NEW f, f = [c \in Live(r) |-> f[c]],
         \A c \in Live(r) :
           /\ f[c] \in Cluster /\ f[c].nodes = r.m_clusters[c].nodes
           /\ f[c].groups = r.m_clusters[c].groups
           /\ f[c].block_nodes = r.m_clusters[c].block_nodes
           /\ f[c].group_nodes = r.m_clusters[c].group_nodes
  PROVE  /\ Consistent([r EXCEPT !.m_clusters = f])
         /\ Live([r EXCEPT !.m_clusters = f]) = Live(r)
<1> DEFINE n == [r EXCEPT !.m_clusters = f]
<1>1. IsRegistry(r) /\ IsTables(r)
  BY DEF Consistent, IsRegistry, IsTables
<1>2. /\ n.m_cluster_id = r.m_cluster_id /\ n.m_clusters = f /\ n.m_active_blocks = r.m_active_blocks
      /\ n.m_node_clusters = r.m_node_clusters /\ n.m_group_clusters = r.m_group_clusters
      /\ IsTables(n)
  BY <1>1 DEF IsTables
<1>3. IsTable(f, ClusterId, Cluster) /\ DOMAIN f = Live(r)
  <2>1. DOMAIN f = Live(r)
    OBVIOUS
  <2>2. \A c \in Live(r) : c \in ClusterId
    BY <1>1, RegistryClusters
  <2> QED BY <2>1, <2>2 DEF IsTable
<1> HIDE DEF n
<1>4. IsRegistry(n) /\ Live(n) = Live(r)
  BY <1>1, <1>2, <1>3 DEF IsRegistry, IsTables, Live
<1>5. ASSUME NEW c \in Live(n)
      PROVE  /\ ClusterAgrees(n.m_clusters[c])
             /\ c <= n.m_cluster_id
             /\ \A p \in Members(n.m_clusters[c]) : <<p, c>> \in n.m_node_clusters
             /\ \A p \in Members(n.m_clusters[c]) : BlockOf[p] \in DOMAIN n.m_active_blocks
  <2>1. /\ c \in Live(r) /\ n.m_clusters[c].nodes = r.m_clusters[c].nodes
        /\ n.m_clusters[c].block_nodes = r.m_clusters[c].block_nodes
        /\ n.m_clusters[c].group_nodes = r.m_clusters[c].group_nodes
    BY <1>2, <1>4
  <2>2. Members(n.m_clusters[c]) = Members(r.m_clusters[c])
    BY <2>1 DEF Members
  <2>3. ClusterAgrees(r.m_clusters[c])
    BY <2>1 DEF Consistent
  <2>4. ClusterAgrees(n.m_clusters[c])
    BY <2>1, <2>2, <2>3 DEF ClusterAgrees
  <2> QED BY <1>2, <2>1, <2>2, <2>4 DEF Consistent
<1>6. ASSUME NEW g \in ClusterGroup, NEW c \in ClusterId
      PROVE  <<g, c>> \in n.m_group_clusters <=> c \in Live(n) /\ g \in n.m_clusters[c].groups
  <2>1. <<g, c>> \in r.m_group_clusters <=> c \in Live(r) /\ g \in r.m_clusters[c].groups
    BY DEF Consistent
  <2> QED BY <2>1, <1>2, <1>4
<1>7. \A p \in Pos, c \in ClusterId : <<p, c>> \in n.m_node_clusters => c <= n.m_cluster_id
  BY <1>2 DEF Consistent
<1>8. Consistent(n)
  BY <1>4, <1>5, <1>6, <1>7 DEF Consistent
<1> QED BY <1>4, <1>8 DEF n

LEMMA SetAssignsConsistent ==
  ASSUME NEW r, Consistent(r), NEW c \in Live(r), NEW a \in Assigns
  PROVE  Consistent(SetAssigns(r, c, a))
<1> DEFINE f == [r.m_clusters EXCEPT ![c].assigns = a]
<1>1. SetAssigns(r, c, a) = [r EXCEPT !.m_clusters = f]
  BY DEF SetAssigns
<1>2. \A d \in Live(r) : r.m_clusters[d] \in Cluster
  BY RegistryClusters DEF Consistent
<1>3. r.m_clusters = [d \in Live(r) |-> r.m_clusters[d]]
  BY DEF Consistent, IsRegistry, IsTable, Live
<1>4. f = [d \in Live(r) |-> f[d]]
  BY <1>3
<1>5. ASSUME NEW d \in Live(r)
      PROVE  /\ f[d] \in Cluster /\ f[d].nodes = r.m_clusters[d].nodes
             /\ f[d].groups = r.m_clusters[d].groups
             /\ f[d].block_nodes = r.m_clusters[d].block_nodes
             /\ f[d].group_nodes = r.m_clusters[d].group_nodes
  <2>1. f[d] = IF d = c THEN [r.m_clusters[d] EXCEPT !.assigns = a] ELSE r.m_clusters[d]
    BY <1>3
  <2> HIDE DEF f
  <2>2. CASE d = c
    BY <2>1, <2>2, <1>2 DEF Cluster
  <2>3. CASE d # c
    BY <2>1, <2>3, <1>2
  <2> QED BY <2>2, <2>3
<1> HIDE DEF f
<1> QED BY <1>1, <1>4, <1>5, AssignsConsistent

LEMMA ClusterAssigns ==
  ASSUME NEW r, Consistent(r), NEW c \in Live(r)
  PROVE  r.m_clusters[c].assigns \in Assigns
BY RegistryClusters DEF Consistent, Cluster

LEMMA SetGenerationConsistent ==
  ASSUME NEW r, Consistent(r), NEW c \in Live(r)
  PROVE  Consistent(SetGeneration(r, c))
<1> DEFINE a == [r.m_clusters[c].assigns EXCEPT !.generation_id = TRUE]
<1>1. a \in Assigns
  BY ClusterAssigns DEF Assigns
<1>2. SetGeneration(r, c) = SetAssigns(r, c, a)
  <2>1. c \in DOMAIN r.m_clusters
    BY DEF Live
  <2> QED BY <2>1 DEF SetGeneration, SetAssigns
<1> HIDE DEF a
<1> QED BY <1>1, <1>2, SetAssignsConsistent

LEMMA AgeGenerationsConsistent ==
  ASSUME NEW r, Consistent(r)
  PROVE  Consistent(AgeGenerations(r))
<1> DEFINE f == [c \in Live(r) |-> [r.m_clusters[c] EXCEPT !.assigns.generation_id = FALSE]]
<1>1. AgeGenerations(r) = [r EXCEPT !.m_clusters = f]
  BY DEF AgeGenerations, Live
<1>2. f = [d \in Live(r) |-> f[d]]
  OBVIOUS
<1>3. ASSUME NEW d \in Live(r)
      PROVE  /\ f[d] \in Cluster /\ f[d].nodes = r.m_clusters[d].nodes
             /\ f[d].groups = r.m_clusters[d].groups
             /\ f[d].block_nodes = r.m_clusters[d].block_nodes
             /\ f[d].group_nodes = r.m_clusters[d].group_nodes
  <2>1. r.m_clusters[d] \in Cluster
    BY RegistryClusters DEF Consistent
  <2>2. [r.m_clusters[d].assigns EXCEPT !.generation_id = FALSE] \in Assigns
    BY ClusterAssigns DEF Assigns
  <2> QED BY <2>1, <2>2 DEF Cluster
<1> HIDE DEF f
<1> QED BY <1>1, <1>2, <1>3, AssignsConsistent

\* The clusters of new ids, above all that were given out, hold what their
\* tables hold.
LEMMA CreateClustersConsistent ==
  ASSUME NEW r, Consistent(r), NEW groups \in SUBSET ClusterGroup,
         NEW n \in Nat, NEW s \in [1..n -> NodeTable]
  PROVE  Consistent(CreateClusters(r, groups, s))
<1> DEFINE id == r.m_cluster_id
           new == {id + i : i \in 1..n}
           S == UNION {DOMAIN s[i] : i \in 1..n}
           A == MarkBlocks(r, S).m_active_blocks
           k(i) == PutNodes(NewCluster(groups), s[i])
           f == [c \in Live(r) \cup new |-> IF c \in new THEN k(c - id) ELSE r.m_clusters[c]]
           G == r.m_group_clusters \cup (groups \X new)
           N == r.m_node_clusters \cup UNION {(DOMAIN s[i]) \X {id + i} : i \in 1..n}
           t == CreateClusters(r, groups, s)
<1>1. IsRegistry(r) /\ IsTables(r) /\ id \in Nat
  BY DEF Consistent, IsRegistry, IsTables
<1>2. ASSUME NEW i \in 1..n
      PROVE  /\ IsTable(s[i], Pos, Kind) /\ k(i) \in Cluster /\ ClusterAgrees(k(i))
             /\ k(i).groups = groups /\ Members(k(i)) = DOMAIN s[i] /\ DOMAIN s[i] \subseteq Pos
  <2>1. IsTable(s[i], Pos, Kind)
    BY NodeTables
  <2>2. NewCluster(groups) \in Cluster /\ ClusterAgrees(NewCluster(groups))
        /\ Members(NewCluster(groups)) = {} /\ NewCluster(groups).groups = groups
    BY NewClusterType, NewClusterAgrees
  <2>3. DOMAIN s[i] \subseteq Pos
    BY <2>1 DEF IsTable
  <2> QED BY <2>1, <2>2, <2>3, PutNodesType, PutNodesAgrees, PutNodesMembers, PutNodesClusterGroups
<1>3. /\ Len(s) = n /\ DOMAIN s = 1..n
  BY FunctionIsSequence
<1>4. S \in SUBSET Pos
  BY <1>2
<1>5. /\ IsTable(A, Block, Nat) /\ DOMAIN r.m_active_blocks \subseteq DOMAIN A
      /\ \A p \in S : BlockOf[p] \in DOMAIN A
      /\ MarkBlocks(r, S) = [r EXCEPT !.m_active_blocks = A]
  BY <1>1, <1>4, MarkBlocksTable
<1>6. ASSUME NEW c \in new
      PROVE  c \in ClusterId /\ c \notin Live(r) /\ c - id \in 1..n /\ c = id + (c - id)
  <2>1. PICK i \in 1..n : c = id + i
    OBVIOUS
  <2>2. c \in ClusterId /\ c - id = i /\ c > id
    BY <1>1, <2>1 DEF ClusterId
  <2>3. c \notin Live(r)
    BY <1>1, <2>2, RegistryClusters DEF Consistent
  <2> QED BY <2>1, <2>2, <2>3
<1>7. t = [MarkBlocks(r, S) EXCEPT !.m_cluster_id = id + n, !.m_clusters = f,
                                   !.m_group_clusters = G, !.m_node_clusters = N]
  <2> HIDE DEF A
  <2>1. MarkBlocks(r, S).m_clusters = r.m_clusters /\ MarkBlocks(r, S).m_group_clusters = r.m_group_clusters
        /\ MarkBlocks(r, S).m_node_clusters = r.m_node_clusters
    BY <1>1, <1>5 DEF IsTables
  <2> QED BY <1>3, <2>1 DEF CreateClusters, Live
<1>8. /\ DOMAIN f = Live(r) \cup new
      /\ f = [c \in DOMAIN f |-> f[c]]
      /\ \A c \in new : f[c] = k(c - id)
      /\ \A c \in Live(r) : f[c] = r.m_clusters[c]
  BY <1>6
<1>9. ASSUME NEW c \in new
      PROVE  /\ f[c] \in Cluster /\ ClusterAgrees(f[c]) /\ f[c].groups = groups
             /\ Members(f[c]) = DOMAIN s[c - id]
  BY <1>2, <1>6, <1>8
<1>10. IsTable(f, ClusterId, Cluster)
  <2>1. \A c \in Live(r) : c \in ClusterId /\ r.m_clusters[c] \in Cluster
    BY <1>1, RegistryClusters
  <2>2. \A c \in DOMAIN f : c \in ClusterId /\ f[c] \in Cluster
    BY <1>6, <1>8, <1>9, <2>1
  <2> HIDE DEF f
  <2> QED BY <1>8, <2>2 DEF IsTable
<1>11. /\ G \in SUBSET (ClusterGroup \X ClusterId)
       /\ \A g \in ClusterGroup, d \in ClusterId :
            <<g, d>> \in G <=> <<g, d>> \in r.m_group_clusters \/ (d \in new /\ g \in groups)
  BY <1>1, <1>6 DEF IsRegistry
<1>12. \A p \in Pos, d \in ClusterId :
         <<p, d>> \in N <=> <<p, d>> \in r.m_node_clusters \/ (d \in new /\ p \in DOMAIN s[d - id])
  <2> SUFFICES ASSUME NEW p \in Pos, NEW d \in ClusterId
      PROVE (\E i \in 1..n : d = id + i /\ p \in DOMAIN s[i]) <=> (d \in new /\ p \in DOMAIN s[d - id])
    OBVIOUS
  <2>1. ASSUME NEW i \in 1..n, d = id + i PROVE d \in new /\ d - id = i
    BY <1>1, <2>1
  <2> QED BY <2>1, <1>6
<1>13. N \in SUBSET (Pos \X ClusterId)
  <2>1. \A i \in 1..n : id + i \in ClusterId /\ DOMAIN s[i] \subseteq Pos
    BY <1>1, <1>2 DEF ClusterId
  <2> QED BY <1>1, <2>1 DEF IsRegistry
<1>14. \A c \in new : \A p \in DOMAIN s[c - id] : p \in S /\ p \in Pos
  BY <1>2, <1>6
<1>15. \A c \in new : c <= id + n
  BY <1>1
<1>16. \A c \in Live(r) : c \notin new
  BY <1>6
<1> HIDE DEF f, G, N, S, A, new, t, k
<1>17. /\ t.m_cluster_id = id + n /\ t.m_clusters = f /\ t.m_group_clusters = G
       /\ t.m_node_clusters = N /\ t.m_active_blocks = A /\ IsTables(t)
  BY <1>1, <1>5, <1>7 DEF IsTables
<1>18. IsRegistry(t) /\ Live(t) = Live(r) \cup new
  BY <1>1, <1>5, <1>8, <1>10, <1>11, <1>13, <1>17 DEF IsRegistry, IsTables, Live
<1>19. ASSUME NEW d \in Live(t)
       PROVE  /\ ClusterAgrees(t.m_clusters[d])
              /\ d <= t.m_cluster_id
              /\ \A p \in Members(t.m_clusters[d]) : <<p, d>> \in t.m_node_clusters
              /\ \A p \in Members(t.m_clusters[d]) : BlockOf[p] \in DOMAIN t.m_active_blocks
  <2>1. CASE d \in new
    <3>1. /\ t.m_clusters[d] = f[d] /\ Members(f[d]) = DOMAIN s[d - id] /\ d \in ClusterId
      BY <2>1, <1>6, <1>9, <1>17
    <3> QED BY <2>1, <3>1, <1>5, <1>9, <1>12, <1>14, <1>15, <1>17
  <2>2. CASE d \in Live(r)
    <3>1. t.m_clusters[d] = r.m_clusters[d] /\ d \in ClusterId
          /\ Members(r.m_clusters[d]) \subseteq Pos /\ ClusterAgrees(r.m_clusters[d]) /\ d <= id
      BY <2>2, <1>1, <1>8, <1>17, RegistryClusters DEF Consistent
    <3>2. d <= id + n
      BY <3>1, <1>1 DEF ClusterId
    <3>3. \A p \in Members(r.m_clusters[d]) : <<p, d>> \in N /\ BlockOf[p] \in DOMAIN A
      BY <2>2, <3>1, <1>5, <1>12 DEF Consistent
    <3> QED BY <3>1, <3>2, <3>3, <1>17
  <2> QED BY <2>1, <2>2, <1>18
<1>20. ASSUME NEW g \in ClusterGroup, NEW d \in ClusterId
       PROVE  <<g, d>> \in t.m_group_clusters <=> d \in Live(t) /\ g \in t.m_clusters[d].groups
  <2>1. <<g, d>> \in r.m_group_clusters <=> d \in Live(r) /\ g \in r.m_clusters[d].groups
    BY DEF Consistent
  <2>2. <<g, d>> \in G <=> <<g, d>> \in r.m_group_clusters \/ (d \in new /\ g \in groups)
    BY <1>11
  <2>3. CASE d \in new
    BY <2>1, <2>2, <2>3, <1>9, <1>16, <1>17, <1>18
  <2>4. CASE d \notin new
    BY <2>1, <2>2, <2>4, <1>8, <1>17, <1>18
  <2> QED BY <2>3, <2>4
<1>21. ASSUME NEW p \in Pos, NEW d \in ClusterId, <<p, d>> \in t.m_node_clusters
       PROVE  d <= t.m_cluster_id
  <2>1. CASE d \in new
    BY <2>1, <1>15, <1>17
  <2>2. CASE <<p, d>> \in r.m_node_clusters
    <3>1. d <= id
      BY <2>2 DEF Consistent
    <3> QED BY <3>1, <1>1, <1>17 DEF ClusterId
  <2> QED BY <2>1, <2>2, <1>12, <1>17, <1>21
<1>22. Consistent(t)
  BY <1>18, <1>19, <1>20, <1>21 DEF Consistent
<1> QED BY <1>22 DEF t

(***************************************************************************)
(* The inductive invariant, of a specification whose events are those of E.*)
(* Only finitely many positions hold a device, as one is built at a time:  *)
(* without that a walk over a block would be no sequence of events.        *)
(***************************************************************************)
IsEvents(E) == Event \subseteq E /\ \A e \in E : e.name \in EventName => e \in Event

Devices(w) == {p \in Pos : w[p] # Air}

WorldInv ==
  /\ world \in [Pos -> Kind \cup {Air}] /\ IsFiniteSet(Devices(world))
  /\ loaded \subseteq Block
  /\ phase \in {"idle", "events", "crashed"}

IInv(E) == Consistent(reg) /\ WorldInv /\ queue \in Seq(E) /\ batch \in Seq(E)

LEMMA InitIInv ==
  ASSUME NEW E, Init
  PROVE  IInv(E)
<1>1. Devices(world) = {} /\ world \in [Pos -> Kind \cup {Air}]
  BY DEF Init, Devices
<1>2. IsFiniteSet(Devices(world))
  BY <1>1, FS_EmptySet
<1> QED BY <1>1, <1>2, EmptyConsistent DEF Init, IInv, WorldInv

LEMMA TakenEvent ==
  ASSUME NEW E, batch \in Seq(E), NEW name, TakeEvent(name)
  PROVE  Head(batch) \in E /\ Head(batch).name = name /\ batch' \in Seq(E)
BY HeadTailProperties DEF TakeEvent

LEMMA TakenNodeEvent ==
  ASSUME NEW E, IsEvents(E), batch \in Seq(E), NEW name \in EventName, TakeEvent(name)
  PROVE  Head(batch) \in Event /\ batch' \in Seq(E)
BY TakenEvent DEF IsEvents

LEMMA EventFields ==
  ASSUME NEW e \in Event
  PROVE  e.pos \in Pos /\ e.kind \in Kind
BY DEF Event

LEMMA EventIsTyped ==
  ASSUME NEW E, IsEvents(E), NEW name \in EventName, NEW p \in Pos, NEW k \in Kind
  PROVE  [name |-> name, pos |-> p, kind |-> k] \in E
BY DEF IsEvents, Event

LEMMA VisibleDevices ==
  ASSUME WorldInv
  PROVE  /\ Visible \subseteq Devices(world) /\ IsFiniteSet(Visible)
         /\ \A p \in Devices(world) : p \in Pos /\ world[p] \in Kind
<1>1. Visible \subseteq Devices(world)
  BY DEF Visible, IsVisible, Devices
<1>2. IsFiniteSet(Visible)
  BY <1>1, FS_Subset DEF WorldInv
<1> QED BY <1>1, <1>2 DEF WorldInv, Devices

\* An order of a finite set is a sequence of it.
LEMMA OrderIsSequence ==
  ASSUME NEW S, IsFiniteSet(S), NEW s \in Orders(S)
  PROVE  \E n \in Nat : n = Cardinality(S) /\ s \in [1..n -> S] /\ DOMAIN s = 1..n
BY FS_CardinalityType DEF Orders

\* Events appended in some order.
LEMMA AppendedEvents ==
  ASSUME NEW E, NEW q \in Seq(E), NEW n \in Nat, NEW s \in [1..n -> E]
  PROVE  q \o s \in Seq(E)
BY FunctionIsSequence, ConcatProperties

(***************************************************************************)
(* The handlers.                                                           *)
(***************************************************************************)
LEMMA HandleAddNodeConsistent ==
  ASSUME Consistent(reg), NEW e \in Event, NEW c \in ClusterId, handle_add_node(e, c)
  PROVE  Consistent(reg')
<1>1. PICK neighbours \in Neighbours(e.pos, e.kind) :
        \E s \in Orders(Range(neighbours)) : JoinClusters(e, s, c)
  BY DEF handle_add_node
<1>2. PICK s \in Orders(Range(neighbours)) : JoinClusters(e, s, c)
  BY <1>1
<1>3. Range(neighbours) \subseteq Live(reg)
  BY DEF Neighbours, Range
<1>4. e.pos \in Pos /\ e.kind \in Kind
  BY EventFields
<1>5. IsFiniteSet(Range(neighbours))
  BY <1>3, LiveFinite, FS_Subset
<1>6. PICK m \in Nat : m = Cardinality(Range(neighbours)) /\ s \in [1..m -> Range(neighbours)]
  BY <1>5, OrderIsSequence
<1>7. Len(s) = m /\ s \in [1..m -> Live(reg)]
  BY <1>3, <1>6, FunctionIsSequence
<1> DEFINE joined == CASE Len(s) = 0 -> CreateCluster(reg, OwnGroup)
                       [] Len(s) = 1 -> reg
                       [] OTHER      -> MergeClusters(reg, s)
<1>8. /\ c = IF Len(s) = 1 THEN s[1] ELSE NextId(reg)
      /\ reg' = SetGeneration(AddNodeToCluster(joined, c, e.pos, e.kind), c)
  BY <1>2 DEF JoinClusters
<1>9. Consistent(joined) /\ c \in Live(joined)
  <2>1. CASE m = 0
    <3>1. joined = CreateCluster(reg, OwnGroup) /\ c = NextId(reg)
      BY <2>1, <1>7, <1>8
    <3>2. OwnGroup \in SUBSET ClusterGroup
      BY SimpleClusterAssumption DEF OwnGroup
    <3> HIDE DEF joined
    <3> QED BY <3>1, <3>2, CreateClusterConsistent
  <2>2. CASE m = 1
    <3>1. joined = reg /\ c = s[1]
      BY <2>2, <1>7, <1>8
    <3> HIDE DEF joined
    <3> QED BY <2>2, <3>1, <1>7
  <2>3. CASE m \notin {0, 1}
    <3>1. joined = MergeClusters(reg, s) /\ c = NextId(reg) /\ m \in Nat \ {0}
      BY <2>3, <1>7, <1>8
    <3> HIDE DEF joined
    <3> QED BY <3>1, <1>7, MergeClustersConsistent
  <2> QED BY <2>1, <2>2, <2>3
<1> HIDE DEF joined
<1>10. /\ Consistent(AddNodeToCluster(joined, c, e.pos, e.kind))
       /\ c \in Live(AddNodeToCluster(joined, c, e.pos, e.kind))
  BY <1>4, <1>9, AddNodeToClusterConsistent
<1> QED BY <1>8, <1>10, SetGenerationConsistent

LEMMA HandleUpdateNodeConsistent ==
  ASSUME Consistent(reg), NEW e \in Event, handle_update_node(e)
  PROVE  Consistent(reg')
<1>1. PICK c \in ClustersOfGroup(reg, ClusterGroupName) :
        reg' = UpdateNodeInCluster(reg, c, e.pos, e.kind)
  BY DEF handle_update_node
<1>2. c \in Live(reg)
  BY DEF ClustersOfGroup
<1> QED BY <1>1, <1>2, EventFields, UpdateNodeInClusterConsistent

\* The branches of a removed node are finitely many sets of devices.
LEMMA BranchesAreVisible ==
  ASSUME WorldInv, NEW p, NEW walk
  PROVE  /\ IsFiniteSet(Branches(p, walk))
         /\ \A b \in Branches(p, walk) : IsTable(Restrict(world, b), Pos, Kind)
<1>1. Branches(p, walk) \subseteq SUBSET Visible
  BY DEF Branches, Explore
<1>2. IsFiniteSet(SUBSET Visible)
  BY VisibleDevices, FS_SUBSET
<1>3. ASSUME NEW b \in Branches(p, walk)
      PROVE  IsTable(Restrict(world, b), Pos, Kind)
  <2>1. b \subseteq Devices(world)
    BY <1>1, VisibleDevices
  <2>2. \A q \in b : q \in Pos /\ world[q] \in Kind
    BY <2>1, VisibleDevices
  <2> QED BY <2>2 DEF IsTable, Restrict
<1> QED BY <1>1, <1>2, <1>3, FS_Subset

LEMMA HandleRemoveNodeConsistent ==
  ASSUME Consistent(reg), NEW e \in Event, NEW branches, IsFiniteSet(branches),
         \A b \in branches : IsTable(Restrict(world, b), Pos, Kind),
         handle_remove_node(e, branches)
  PROVE  Consistent(reg')
<1>1. PICK c \in OrNil(GroupClustersAt(reg, e.pos)) :
        RebuildBranches(WithoutNode(e.pos, c), branches)
  BY DEF handle_remove_node
<1>2. c = Nil \/ c \in Live(reg)
  BY DEF OrNil, GroupClustersAt, ClustersAt
<1>3. Consistent(WithoutNode(e.pos, c))
  BY <1>2, EventFields, RemoveNodeFromClusterConsistent DEF WithoutNode
<1> DEFINE r == WithoutNode(e.pos, c)
<1>4. PICK owner \in Affected(r, branches), s \in Orders(branches) :
        reg' = CreateClusters(RemoveClusters(r, Range(owner) \ {Nil}), OwnGroup,
                              [i \in DOMAIN s |-> Restrict(world, s[i])])
  BY <1>1 DEF RebuildBranches
<1>5. PICK n \in Nat : s \in [1..n -> branches] /\ DOMAIN s = 1..n
  BY OrderIsSequence
<1> DEFINE t == [i \in DOMAIN s |-> Restrict(world, s[i])]
<1>6. t \in [1..n -> NodeTable]
  BY <1>5, NodeTables
<1>7. Consistent(RemoveClusters(r, Range(owner) \ {Nil}))
  BY <1>3, RemoveClustersConsistent
<1>8. OwnGroup \in SUBSET ClusterGroup
  BY SimpleClusterAssumption DEF OwnGroup
<1> HIDE DEF t
<1>9. Consistent(CreateClusters(RemoveClusters(r, Range(owner) \ {Nil}), OwnGroup, t))
  BY <1>6, <1>7, <1>8, CreateClustersConsistent
<1> QED BY <1>4, <1>9 DEF t

(***************************************************************************)
(* The steps both specifications share.                                    *)
(***************************************************************************)
LEMMA BeginUpdateKeeps ==
  ASSUME NEW E, IInv(E), BeginUpdate
  PROVE  IInv(E)'
<1>1. Consistent(UpdateActiveBlocks(reg, loaded, BlockTimeout))
  BY UpdateActiveBlocksConsistent, RegistryAssumption DEF IInv
<1>2. Consistent(reg')
  BY <1>1, AgeGenerationsConsistent DEF BeginUpdate
<1> QED BY <1>2 DEF BeginUpdate, IInv, WorldInv

LEMMA HandleUpdateNodeKeeps ==
  ASSUME NEW E, IsEvents(E), IInv(E), HandleUpdateNode \/ HandleUpdateNodeCrash
  PROVE  IInv(E)'
<1>1. Head(batch) \in Event /\ batch' \in Seq(E)
  BY TakenNodeEvent DEF IInv, EventName, HandleUpdateNode, HandleUpdateNodeCrash
<1>2. CASE HandleUpdateNode
  <2>1. Consistent(reg')
    BY <1>1, <1>2, HandleUpdateNodeConsistent DEF HandleUpdateNode, IInv
  <2> QED BY <1>1, <1>2, <2>1 DEF HandleUpdateNode, IInv, WorldInv
<1>3. CASE HandleUpdateNodeCrash
  BY <1>1, <1>3 DEF HandleUpdateNodeCrash, IInv, WorldInv
<1> QED BY <1>2, <1>3

LEMMA EndUpdateKeeps ==
  ASSUME NEW E, IInv(E), EndUpdate \/ EndShortUpdate
  PROVE  IInv(E)'
<1>1. CASE EndUpdate
  <2>1. PICK c \in OrNil({d \in Live(reg) : IsEmpty(reg.m_clusters[d])}) :
          reg' = IF c = Nil THEN reg ELSE RemoveClusters(reg, {c})
    BY <1>1 DEF EndUpdate, DestroyEmptyCluster
  <2>2. Consistent(reg')
    BY <2>1, RemoveClustersConsistent DEF IInv
  <2> QED BY <1>1, <2>2 DEF EndUpdate, IInv, WorldInv
<1>2. CASE EndShortUpdate
  BY <1>2 DEF EndShortUpdate, IInv, WorldInv
<1> QED BY <1>1, <1>2

LEMMA PlaceNodeKeeps ==
  ASSUME NEW E, IsEvents(E), IInv(E), NEW p \in Pos, NEW kind \in Kind,
         PlaceNode(p, kind) \/ SwapNode(p, kind)
  PROVE  IInv(E)'
<1>1. /\ world' = [world EXCEPT ![p] = kind]
      /\ UNCHANGED <<reg, loaded, batch, phase>>
  BY DEF PlaceNode, SwapNode
<1>2. PICK name \in EventName : queue' = Append(queue, [name |-> name, pos |-> p, kind |-> kind])
  BY DEF PlaceNode, SwapNode, Schedule, EventName
<1>3. queue' \in Seq(E)
  BY <1>2, EventIsTyped, AppendProperties DEF IInv
<1>4. world' \in [Pos -> Kind \cup {Air}]
  BY <1>1 DEF IInv, WorldInv
<1>5. IsFiniteSet(Devices(world'))
  <2>1. Devices(world') \subseteq Devices(world) \cup {p}
    BY <1>1 DEF Devices, IInv, WorldInv
  <2>2. IsFiniteSet(Devices(world) \cup {p})
    BY FS_AddElement DEF IInv, WorldInv
  <2> QED BY <2>1, <2>2, FS_Subset
<1> QED BY <1>1, <1>3, <1>4, <1>5 DEF IInv, WorldInv

LEMMA DigNodeKeeps ==
  ASSUME NEW E, IsEvents(E), IInv(E), NEW p \in Pos, DigNode(p)
  PROVE  IInv(E)'
<1>1. /\ world' = [world EXCEPT ![p] = Air]
      /\ UNCHANGED <<reg, loaded, batch, phase>>
      /\ queue' = Append(queue, [name |-> "remove_node", pos |-> p, kind |-> world[p]])
  BY DEF DigNode, Schedule
<1>2. world[p] \in Kind
  BY DEF DigNode, IsVisible, IInv, WorldInv
<1>3. queue' \in Seq(E)
  BY <1>1, <1>2, EventIsTyped, AppendProperties DEF IInv, EventName
<1>4. world' \in [Pos -> Kind \cup {Air}]
  BY <1>1 DEF IInv, WorldInv
<1>5. Devices(world') \subseteq Devices(world)
  BY <1>1 DEF Devices, IInv, WorldInv
<1>6. IsFiniteSet(Devices(world'))
  BY <1>5, FS_Subset DEF IInv, WorldInv
<1> QED BY <1>1, <1>3, <1>4, <1>6 DEF IInv, WorldInv

LEMMA BlockKeeps ==
  ASSUME NEW E, IsEvents(E), IInv(E), NEW b \in Block, UnloadBlock(b) \/ ActivateBlock(b)
  PROVE  IInv(E)'
<1>1. CASE UnloadBlock(b)
  BY <1>1 DEF UnloadBlock, IInv, WorldInv
<1>2. CASE ActivateBlock(b)
  <2> DEFINE nodes == {p \in Pos : BlockOf[p] = b /\ world[p] # Air}
             Load(p) == [name |-> "load_node", pos |-> p, kind |-> world[p]]
  <2>1. nodes \subseteq Devices(world) /\ IsFiniteSet(nodes)
    BY FS_Subset DEF Devices, IInv, WorldInv
  <2>2. PICK s \in Orders(nodes) : queue' = queue \o [i \in DOMAIN s |-> Load(s[i])]
    BY <1>2 DEF ActivateBlock
  <2>3. PICK n \in Nat : s \in [1..n -> nodes] /\ DOMAIN s = 1..n
    BY <2>1, OrderIsSequence
  <2>4. \A p \in nodes : Load(p) \in E
    <3> SUFFICES ASSUME NEW p \in nodes PROVE Load(p) \in E
      OBVIOUS
    <3>1. p \in Pos /\ world[p] \in Kind
      BY DEF IInv, WorldInv
    <3> QED BY <3>1, EventIsTyped DEF EventName
  <2>5. [i \in DOMAIN s |-> Load(s[i])] \in [1..n -> E]
    <3> HIDE DEF nodes, Load
    <3> QED BY <2>3, <2>4
  <2> HIDE DEF nodes, Load
  <2>6. queue' \in Seq(E)
    BY <2>2, <2>5, AppendedEvents DEF IInv
  <2>7. loaded' \subseteq Block /\ UNCHANGED <<reg, world, batch, phase>>
    BY <1>2 DEF ActivateBlock, IInv, WorldInv
  <2> QED BY <2>6, <2>7 DEF IInv, WorldInv
<1> QED BY <1>1, <1>2

LEMMA StutterKeeps ==
  ASSUME NEW E, IInv(E), UNCHANGED vars
  PROVE  IInv(E)'
BY DEF vars, IInv, WorldInv

(***************************************************************************)
(* Simple clusters.                                                        *)
(***************************************************************************)
LEMMA SimpleEvents == IsEvents(Event)
BY DEF IsEvents

LEMMA NextKeeps ==
  ASSUME IInv(Event), [Next]_vars
  PROVE  IInv(Event)'
<1>1. CASE HandleAddNode
  <2>1. Head(batch) \in Event /\ batch' \in Seq(Event)
    BY <1>1, SimpleEvents, TakenNodeEvent DEF HandleAddNode, IInv, EventName
  <2>2. Consistent(reg')
    BY <1>1, <2>1, HandleAddNodeConsistent DEF HandleAddNode, IInv
  <2> QED BY <1>1, <2>1, <2>2 DEF HandleAddNode, IInv, WorldInv
<1>2. CASE HandleRemoveNode
  <2>1. Head(batch) \in Event /\ batch' \in Seq(Event)
    BY <1>2, SimpleEvents, TakenNodeEvent DEF HandleRemoveNode, IInv, EventName
  <2>2. PICK walk \in Walks : handle_remove_node(Head(batch), Branches(Head(batch).pos, walk))
    BY <1>2 DEF HandleRemoveNode
  <2>3. Consistent(reg')
    BY <2>1, <2>2, BranchesAreVisible, HandleRemoveNodeConsistent DEF IInv
  <2> QED BY <1>2, <2>1, <2>3 DEF HandleRemoveNode, IInv, WorldInv
<1> QED
  BY <1>1, <1>2, SimpleEvents, BeginUpdateKeeps, HandleUpdateNodeKeeps, EndUpdateKeeps,
     PlaceNodeKeeps, DigNodeKeeps, BlockKeeps, StutterKeeps
  DEF Next, Update

\* In every reachable state of a simple cluster, however late its handlers
\* run, the tables of the registry are tables, events are events, and every
\* index agrees with the clusters.
THEOREM SimpleTablesAlwaysAgree == Spec => [](TypeOK /\ IndexesAgree(reg))
<1>1. Init => IInv(Event)
  BY InitIInv
<1>2. IInv(Event) /\ [Next]_vars => IInv(Event)'
  BY NextKeeps
<1>3. IInv(Event) => TypeOK /\ IndexesAgree(reg)
  BY ConsistentIndexes DEF IInv, WorldInv, TypeOK
<1> QED BY <1>1, <1>2, <1>3, PTL DEF Spec

(***************************************************************************)
(* Device clusters.                                                        *)
(***************************************************************************)
LEMMA DeviceEvents == IsEvents(DeviceEvent)
BY DEF IsEvents, DeviceEvent, EventName

LEMMA DeviceEventsAreTyped ==
  /\ \A c \in ClusterId : Refresh(c) \in DeviceEvent
  /\ \A c \in ClusterId, state \in DeviceState : Transition(c, state) \in DeviceEvent
BY DEF Refresh, Transition, DeviceEvent

LEMMA HandleAddDeviceKeeps ==
  ASSUME IInv(DeviceEvent), HandleAddDevice
  PROVE  IInv(DeviceEvent)'
<1>1. Head(batch) \in Event /\ batch' \in Seq(DeviceEvent)
  BY DeviceEvents, TakenNodeEvent DEF HandleAddDevice, IInv, EventName
<1>2. PICK c \in ClusterId \cap 1..NextId(reg) :
        handle_add_node(Head(batch), c) /\ queue' = Append(queue, Refresh(c))
  BY DEF HandleAddDevice
<1>3. Consistent(reg')
  BY <1>1, <1>2, HandleAddNodeConsistent DEF IInv
<1>4. queue' \in Seq(DeviceEvent)
  BY <1>2, DeviceEventsAreTyped, AppendProperties DEF IInv
<1> QED BY <1>1, <1>3, <1>4 DEF HandleAddDevice, IInv, WorldInv

LEMMA HandleRemoveDeviceKeeps ==
  ASSUME IInv(DeviceEvent), HandleRemoveDevice
  PROVE  IInv(DeviceEvent)'
<1>1. Head(batch) \in Event /\ batch' \in Seq(DeviceEvent)
  BY DeviceEvents, TakenNodeEvent DEF HandleRemoveDevice, IInv, EventName
<1>2. PICK walk \in Walks :
        LET branches == Branches(Head(batch).pos, walk)
        IN /\ handle_remove_node(Head(batch), branches)
           /\ queue' = queue \o [i \in 1..Cardinality(branches) |-> Refresh(reg.m_cluster_id + i)]
  BY DEF HandleRemoveDevice
<1> DEFINE branches == Branches(Head(batch).pos, walk)
<1>3. /\ IsFiniteSet(branches)
      /\ \A b \in branches : IsTable(Restrict(world, b), Pos, Kind)
  BY BranchesAreVisible DEF IInv
<1> HIDE DEF branches
<1>4. Consistent(reg')
  BY <1>1, <1>2, <1>3, HandleRemoveNodeConsistent DEF IInv, branches
<1>5. queue' \in Seq(DeviceEvent)
  <2> DEFINE n == Cardinality(branches)
             s == [i \in 1..n |-> Refresh(reg.m_cluster_id + i)]
  <2>1. n \in Nat /\ reg.m_cluster_id \in Nat
    BY <1>3, FS_CardinalityType DEF IInv, Consistent, IsRegistry
  <2>2. \A i \in 1..n : reg.m_cluster_id + i \in ClusterId
    BY <2>1 DEF ClusterId
  <2>3. s \in [1..n -> DeviceEvent]
    BY <2>2, DeviceEventsAreTyped
  <2>4. queue' = queue \o s
    BY <1>2 DEF branches
  <2> HIDE DEF n, s
  <2> QED BY <2>1, <2>3, <2>4, AppendedEvents DEF IInv
<1> QED BY <1>1, <1>4, <1>5 DEF HandleRemoveDevice, IInv, WorldInv

LEMMA HandleRefreshKeeps ==
  ASSUME IInv(DeviceEvent), HandleRefresh \/ HandleRefreshSkipped
  PROVE  IInv(DeviceEvent)'
<1>1. batch' \in Seq(DeviceEvent)
  BY TakenEvent DEF HandleRefresh, HandleRefreshSkipped, IInv
<1>2. CASE HandleRefreshSkipped
  BY <1>1, <1>2 DEF HandleRefreshSkipped, IInv, WorldInv
<1>3. CASE HandleRefresh
  <2> DEFINE c == Head(batch).cluster_id
             k == reg.m_clusters[c]
  <2>1. PICK e \in Elections(k) :
          /\ reg' = SetAssigns(reg, c, [k.assigns EXCEPT !.generation_id = TRUE,
                                                         !.controller_id = e.controller])
          /\ queue' = Append(queue, Transition(c, e.state))
    BY <1>3 DEF HandleRefresh
  <2>2. c \in Live(reg)
    BY <1>3 DEF HandleRefresh
  <2>3. k \in Cluster /\ c \in ClusterId /\ Members(k) \subseteq Pos
    BY <2>2, RegistryClusters DEF IInv, Consistent
  <2>4. e.controller \in Pos \cup {Nil} /\ e.state \in DeviceState
    <3>1. Leaders(k) \subseteq Pos
      BY <2>3 DEF Leaders, Controllers
    <3> QED BY <3>1, DeviceAssumption DEF Elections
  <2> HIDE DEF c
  <2>5. [k.assigns EXCEPT !.generation_id = TRUE, !.controller_id = e.controller] \in Assigns
    BY <2>3, <2>4 DEF Cluster, Assigns
  <2>6. Consistent(reg')
    BY <2>1, <2>2, <2>5, SetAssignsConsistent DEF IInv
  <2>7. queue' \in Seq(DeviceEvent)
    BY <2>1, <2>3, <2>4, DeviceEventsAreTyped, AppendProperties DEF IInv
  <2> QED BY <1>1, <1>3, <2>6, <2>7 DEF HandleRefresh, IInv, WorldInv
<1> QED BY <1>2, <1>3

\* The names a transition may give: each is one of the device's for the state.
LEMMA NamesAreVariants ==
  ASSUME IInv(DeviceEvent), NEW c \in Live(reg), NEW state \in DeviceState,
         NEW name \in Names(reg.m_clusters[c], state)
  PROVE  /\ \A p \in Members(reg.m_clusters[c]) :
              IsVisible(p) /\ VariantOf[world[p]][state] # {} => p \in DOMAIN name
         /\ \A p \in DOMAIN name :
              /\ p \in Pos /\ p \in Members(reg.m_clusters[c]) /\ IsVisible(p)
              /\ world[p] \in Kind
              /\ name[p] \in Kind /\ name[p] \in VariantOf[world[p]][state]
         /\ DOMAIN name \subseteq Devices(world) /\ IsFiniteSet(DOMAIN name)
<1> DEFINE k == reg.m_clusters[c]
<1>1. Members(k) \subseteq Pos
  BY RegistryClusters DEF IInv, Consistent
<1> HIDE DEF k
<1> DEFINE stateful == {p \in Members(k) : IsVisible(p) /\ VariantOf[world[p]][state] # {}}
<1>2. name \in [stateful -> Kind] /\ \A p \in stateful : name[p] \in VariantOf[world[p]][state]
  BY DEF Names, k
<1>3. DOMAIN name = stateful
  BY <1>2
<1>4. stateful \subseteq Visible
  BY <1>1 DEF Visible
<1>5. /\ stateful \subseteq Devices(world) /\ IsFiniteSet(stateful)
      /\ \A p \in stateful : p \in Pos /\ world[p] \in Kind
  BY <1>4, VisibleDevices, FS_Subset DEF IInv
<1>6. \A p \in stateful :
        /\ p \in Pos /\ p \in Members(k) /\ IsVisible(p) /\ world[p] \in Kind
        /\ name[p] \in Kind /\ name[p] \in VariantOf[world[p]][state]
  BY <1>2, <1>5
<1> QED BY <1>3, <1>5, <1>6 DEF k

LEMMA HandleTransitionKeeps ==
  ASSUME IInv(DeviceEvent), HandleTransition \/ HandleTransitionSkipped
  PROVE  IInv(DeviceEvent)'
<1>1. /\ batch' \in Seq(DeviceEvent)
      /\ Head(batch) \in DeviceEvent /\ Head(batch).name = "transition_state"
  BY TakenEvent DEF HandleTransition, HandleTransitionSkipped, IInv
<1>2. CASE HandleTransitionSkipped
  BY <1>1, <1>2 DEF HandleTransitionSkipped, IInv, WorldInv
<1>3. CASE HandleTransition
  <2> DEFINE c == Head(batch).cluster_id
             state == Head(batch).state
             k == reg.m_clusters[c]
  <2>1. c \in Live(reg) /\ reg' = SetAssigns(reg, c, [k.assigns EXCEPT !.state = state])
    BY <1>3 DEF HandleTransition
  <2>2. PICK name \in Names(k, state) :
          LET changing == {p \in DOMAIN name : name[p] # world[p]}
              Updated(p) == [name |-> "update_node", pos |-> p, kind |-> name[p]]
          IN /\ world' = [p \in Pos |-> IF p \in changing THEN name[p] ELSE world[p]]
             /\ \E s \in Orders(changing) :
                  queue' = queue \o [i \in DOMAIN s |-> Updated(s[i])]
    BY <1>3, Zenon DEF HandleTransition
  <2> DEFINE changing == {p \in DOMAIN name : name[p] # world[p]}
             Updated(p) == [name |-> "update_node", pos |-> p, kind |-> name[p]]
  <2>3. PICK s \in Orders(changing) : queue' = queue \o [i \in DOMAIN s |-> Updated(s[i])]
    BY <2>2
  <2>4. state \in DeviceState
    BY <1>1 DEF DeviceEvent, Event, EventName
  <2>5. k \in Cluster
    BY <2>1, RegistryClusters DEF IInv, Consistent
  <2>6. /\ changing \subseteq Devices(world) /\ IsFiniteSet(changing)
        /\ \A p \in changing : p \in Pos /\ name[p] \in Kind
    <3>1. /\ DOMAIN name \subseteq Devices(world) /\ IsFiniteSet(DOMAIN name)
          /\ \A p \in DOMAIN name : p \in Pos /\ name[p] \in Kind
      BY <2>1, <2>2, <2>4, NamesAreVariants
    <3>2. changing \subseteq DOMAIN name
      OBVIOUS
    <3> QED BY <3>1, <3>2, FS_Subset
  <2>7. \A p \in changing : Updated(p) \in DeviceEvent
    BY <2>6, DeviceEvents, EventIsTyped DEF EventName
  <2>8. PICK n \in Nat : s \in [1..n -> changing] /\ DOMAIN s = 1..n
    BY <2>6, OrderIsSequence
  <2>9. [k.assigns EXCEPT !.state = state] \in Assigns
    BY <2>4, <2>5 DEF Cluster, Assigns
  <2>10. world' = [p \in Pos |-> IF p \in changing THEN name[p] ELSE world[p]]
    BY <2>2
  <2> HIDE DEF c, state, changing, Updated
  <2>11. Consistent(reg')
    BY <2>1, <2>9, SetAssignsConsistent DEF IInv
  <2>12. [i \in DOMAIN s |-> Updated(s[i])] \in [1..n -> DeviceEvent]
    BY <2>7, <2>8
  <2>13. queue' \in Seq(DeviceEvent)
    BY <2>3, <2>12, AppendedEvents DEF IInv
  <2>14. world' \in [Pos -> Kind \cup {Air}]
    BY <2>6, <2>10 DEF IInv, WorldInv
  <2>15. Devices(world') \subseteq Devices(world)
    BY <2>6, <2>10 DEF Devices
  <2>16. IsFiniteSet(Devices(world'))
    BY <2>15, FS_Subset DEF IInv, WorldInv
  <2> QED BY <1>1, <1>3, <2>11, <2>13, <2>14, <2>16 DEF HandleTransition, IInv, WorldInv
<1> QED BY <1>2, <1>3

\* A device that works changes its name and schedules an update of itself.
LEMMA WorkEffect ==
  ASSUME IInv(DeviceEvent), NEW p \in Pos, NEW kind \in Kind, Work(p, kind)
  PROVE  /\ phase = "events" /\ batch = <<>> /\ UNCHANGED <<reg, loaded, batch, phase>>
         /\ IsVisible(p) /\ world[p] \in Kind /\ kind \in OwnNames[world[p]]
         /\ world' = [world EXCEPT ![p] = kind]
         /\ [name |-> "update_node", pos |-> p, kind |-> kind] \in DeviceEvent
         /\ queue' = Append(queue, [name |-> "update_node", pos |-> p, kind |-> kind])
<1>1. world[p] \in Kind
  BY DEF Work, IsVisible, IInv, WorldInv
<1>2. [name |-> "update_node", pos |-> p, kind |-> kind] \in DeviceEvent
  BY DeviceEvents, EventIsTyped DEF EventName
<1> QED BY <1>1, <1>2 DEF Work, Schedule

LEMMA WorkKeeps ==
  ASSUME IInv(DeviceEvent), NEW p \in Pos, NEW kind \in Kind, Work(p, kind)
  PROVE  IInv(DeviceEvent)'
<1>1. /\ UNCHANGED <<reg, loaded, batch, phase>> /\ world[p] \in Kind
      /\ world' = [world EXCEPT ![p] = kind]
  BY WorkEffect
<1> DEFINE e == [name |-> "update_node", pos |-> p, kind |-> kind]
           E == DeviceEvent
<1>2. queue' \in Seq(E)
  <2>1. e \in E /\ queue \in Seq(E) /\ queue' = Append(queue, e)
    BY WorkEffect DEF IInv
  <2> HIDE DEF e, E
  <2> QED BY <2>1, AppendProperties
<1>3. world' \in [Pos -> Kind \cup {Air}]
  BY <1>1 DEF IInv, WorldInv
<1>4. Devices(world') \subseteq Devices(world)
  BY <1>1, SimpleClusterAssumption DEF Devices, IInv, WorldInv
<1>5. IsFiniteSet(Devices(world'))
  BY <1>4, FS_Subset DEF IInv, WorldInv
<1> QED BY <1>1, <1>2, <1>3, <1>5 DEF IInv, WorldInv

LEMMA DeviceNextKeeps ==
  ASSUME IInv(DeviceEvent), [DeviceNext]_vars
  PROVE  IInv(DeviceEvent)'
<1>1. CASE \E p \in Pos, kind \in Placeable : PlaceNode(p, kind)
  BY <1>1, DeviceAssumption, DeviceEvents, PlaceNodeKeeps
<1> QED
  BY <1>1, DeviceEvents, HandleAddDeviceKeeps, HandleRemoveDeviceKeeps, HandleRefreshKeeps,
     HandleTransitionKeeps, BeginUpdateKeeps, HandleUpdateNodeKeeps, EndUpdateKeeps,
     WorkKeeps, DigNodeKeeps, BlockKeeps, StutterKeeps
  DEF DeviceNext, DeviceUpdate

LEMMA DeviceInvariant == DeviceSpec => []IInv(DeviceEvent)
<1>1. Init => IInv(DeviceEvent)
  BY InitIInv
<1>2. IInv(DeviceEvent) /\ [DeviceNext]_vars => IInv(DeviceEvent)'
  BY DeviceNextKeeps
<1> QED BY <1>1, <1>2, PTL DEF DeviceSpec

\* A device cluster only schedules events it can handle, elects nodes or
\* nobody, and gives devices names that exist, in any world.
THEOREM DeviceTypeCorrect == DeviceSpec => []DeviceTypeOK
<1>1. IInv(DeviceEvent) => DeviceTypeOK
  BY DEF IInv, WorldInv, DeviceTypeOK, Consistent
<1> QED BY <1>1, DeviceInvariant, PTL

\* The indexes of the registry agree with the device clusters, too.
THEOREM DeviceTablesAlwaysAgree == DeviceSpec => []IndexesAgree(reg)
<1>1. IInv(DeviceEvent) => IndexesAgree(reg)
  BY ConsistentIndexes DEF IInv, Consistent
<1> QED BY <1>1, DeviceInvariant, PTL

(***************************************************************************)
(* As long as nothing is unloaded the node index is exact: it leads to the *)
(* clusters a node is in and to no others, whatever is placed, dug and     *)
(* swapped between two updates.                                            *)
(***************************************************************************)
\* An entry of the node index that leads to a live cluster leads to a member.
IsExact(r) ==
  \A p \in Pos, c \in Live(r) : <<p, c>> \in r.m_node_clusters => p \in Members(r.m_clusters[c])

(***************************************************************************)
(* Operations on one cluster.                                              *)
(***************************************************************************)
\* The cluster c has the nodes of k now, and the index N entries for them.
LEMMA OneClusterIsExact ==
  ASSUME NEW r, Consistent(r), IsExact(r), NEW c \in Live(r), NEW n, NEW k,
         n.m_clusters = [r.m_clusters EXCEPT ![c] = k],
         \A p \in Pos, d \in Live(r) :
           <<p, d>> \in n.m_node_clusters =>
             IF d = c THEN p \in Members(k) ELSE <<p, d>> \in r.m_node_clusters
  PROVE  IsExact(n)
<1>1. Live(n) = Live(r) /\ \A d \in Live(r) : n.m_clusters[d] = IF d = c THEN k ELSE r.m_clusters[d]
  BY RegistryTables DEF Live
<1> SUFFICES ASSUME NEW p \in Pos, NEW d \in Live(n), <<p, d>> \in n.m_node_clusters
    PROVE p \in Members(n.m_clusters[d])
  BY DEF IsExact
<1>2. CASE d = c
  BY <1>1, <1>2
<1>3. CASE d # c
  BY <1>1, <1>3 DEF IsExact
<1> QED BY <1>2, <1>3

LEMMA AddNodeIsExact ==
  ASSUME NEW r, Consistent(r), IsExact(r), NEW c \in Live(r), NEW p \in Pos, NEW kind \in Kind
  PROVE  IsExact(AddNodeToCluster(r, c, p, kind))
<1> DEFINE k == r.m_clusters[c]
           a == AddNode(k, p, kind)
           marked == IF IsDuplicate(k, p, kind) THEN r ELSE MarkBlocks(r, {p})
           n == AddNodeToCluster(r, c, p, kind)
<1>1. /\ marked.m_clusters = r.m_clusters /\ marked.m_node_clusters = r.m_node_clusters
      /\ IsTables(marked)
  BY RegistryTables, MarkedTables
<1>2. n = [marked EXCEPT !.m_clusters[c] = a, !.m_node_clusters = @ \cup {<<p, c>>}]
  BY DEF AddNodeToCluster
<1>3. Members(a) = Members(k) \cup {p}
  BY RegistryClusters, AddNodeAgrees DEF Consistent
<1> HIDE DEF marked, a, n
<1>4. n.m_clusters = [r.m_clusters EXCEPT ![c] = a] /\ n.m_node_clusters = r.m_node_clusters \cup {<<p, c>>}
  BY <1>1, <1>2 DEF IsTables
<1>5. ASSUME NEW q \in Pos, NEW d \in Live(r), <<q, d>> \in n.m_node_clusters
      PROVE  IF d = c THEN q \in Members(a) ELSE <<q, d>> \in r.m_node_clusters
  BY <1>3, <1>4, <1>5 DEF IsExact
<1>6. IsExact(n)
  BY <1>4, <1>5, OneClusterIsExact
<1> QED BY <1>6 DEF n

LEMMA UpdateNodeIsExact ==
  ASSUME NEW r, Consistent(r), IsExact(r), NEW c \in Live(r), NEW p \in Pos, NEW kind \in Kind
  PROVE  IsExact(UpdateNodeInCluster(r, c, p, kind))
<1> DEFINE k == r.m_clusters[c]
           u == UpdateNode(k, p, kind)
           marked == IF p \in Members(k) THEN MarkBlocks(r, {p}) ELSE r
           n == UpdateNodeInCluster(r, c, p, kind)
<1>1. /\ marked.m_clusters = r.m_clusters /\ marked.m_node_clusters = r.m_node_clusters
      /\ IsTables(marked)
  BY RegistryTables, MarkedTables
<1>2. n = [marked EXCEPT !.m_clusters[c] = u]
  BY DEF UpdateNodeInCluster
<1>3. Members(u) = Members(k)
  BY RegistryClusters, UpdateNodeAgrees DEF Consistent
<1> HIDE DEF marked, u, n
<1>4. n.m_clusters = [r.m_clusters EXCEPT ![c] = u] /\ n.m_node_clusters = r.m_node_clusters
  BY <1>1, <1>2 DEF IsTables
<1>5. ASSUME NEW q \in Pos, NEW d \in Live(r), <<q, d>> \in n.m_node_clusters
      PROVE  IF d = c THEN q \in Members(u) ELSE <<q, d>> \in r.m_node_clusters
  BY <1>3, <1>4, <1>5 DEF IsExact
<1>6. IsExact(n)
  BY <1>4, <1>5, OneClusterIsExact
<1> QED BY <1>6 DEF n

LEMMA RemoveNodeIsExact ==
  ASSUME NEW r, Consistent(r), IsExact(r), NEW c \in Live(r), NEW p \in Pos
  PROVE  IsExact(RemoveNodeFromCluster(r, c, p))
<1> DEFINE k == r.m_clusters[c]
           u == RemoveNodes(k, {p})
           n == RemoveNodeFromCluster(r, c, p)
<1>1. n = [r EXCEPT !.m_clusters[c] = u, !.m_node_clusters = @ \ {<<p, c>>}]
  BY RegistryTables DEF RemoveNodeFromCluster
<1>2. Members(u) = Members(k) \ {p}
  BY RegistryClusters, RemoveNodesMembers DEF Consistent
<1> HIDE DEF u, n
<1>3. n.m_clusters = [r.m_clusters EXCEPT ![c] = u] /\ n.m_node_clusters = r.m_node_clusters \ {<<p, c>>}
  BY <1>1, RegistryTables DEF IsTables
<1>4. ASSUME NEW q \in Pos, NEW d \in Live(r), <<q, d>> \in n.m_node_clusters
      PROVE  IF d = c THEN q \in Members(u) ELSE <<q, d>> \in r.m_node_clusters
  BY <1>2, <1>3, <1>4 DEF IsExact
<1>5. IsExact(n)
  BY <1>3, <1>4, OneClusterIsExact
<1> QED BY <1>5 DEF n

\* The clusters keep their members, and the index its entries.
LEMMA SameMembersAreExact ==
  ASSUME NEW r, Consistent(r), IsExact(r), NEW n, Live(n) = Live(r),
         n.m_node_clusters = r.m_node_clusters,
         \A c \in Live(r) : Members(r.m_clusters[c]) \subseteq Members(n.m_clusters[c])
  PROVE  IsExact(n)
BY DEF IsExact

LEMMA SetGenerationIsExact ==
  ASSUME NEW r, Consistent(r), IsExact(r), NEW c \in Live(r)
  PROVE  IsExact(SetGeneration(r, c))
<1> DEFINE f == [r.m_clusters EXCEPT ![c].assigns.generation_id = TRUE]
           n == SetGeneration(r, c)
<1>1. n = [r EXCEPT !.m_clusters = f]
  BY DEF SetGeneration
<1>2. /\ DOMAIN f = Live(r)
      /\ \A d \in Live(r) : Members(f[d]) = Members(r.m_clusters[d])
  <2>1. \A d \in Live(r) : r.m_clusters[d] \in Cluster
    BY RegistryClusters DEF Consistent
  <2> QED BY <2>1, RegistryTables DEF Members, Cluster
<1> HIDE DEF f, n
<1>3. n.m_clusters = f /\ n.m_node_clusters = r.m_node_clusters
  BY <1>1, RegistryTables DEF IsTables
<1>4. Live(n) = Live(r)
  BY <1>2, <1>3 DEF Live
<1>5. IsExact(n)
  BY <1>2, <1>3, <1>4, SameMembersAreExact
<1> QED BY <1>5 DEF n

LEMMA AgeGenerationsIsExact ==
  ASSUME NEW r, Consistent(r), IsExact(r)
  PROVE  IsExact(AgeGenerations(r))
<1> DEFINE f == [c \in Live(r) |-> [r.m_clusters[c] EXCEPT !.assigns.generation_id = FALSE]]
           n == AgeGenerations(r)
<1>1. n = [r EXCEPT !.m_clusters = f]
  BY DEF AgeGenerations, Live
<1>2. /\ DOMAIN f = Live(r)
      /\ \A d \in Live(r) : Members(f[d]) = Members(r.m_clusters[d])
  <2>1. \A d \in Live(r) : r.m_clusters[d] \in Cluster
    BY RegistryClusters DEF Consistent
  <2> QED BY <2>1 DEF Members, Cluster
<1> HIDE DEF f, n
<1>3. n.m_clusters = f /\ n.m_node_clusters = r.m_node_clusters
  BY <1>1, RegistryTables DEF IsTables
<1>4. Live(n) = Live(r)
  BY <1>2, <1>3 DEF Live
<1>5. IsExact(n)
  BY <1>2, <1>3, <1>4, SameMembersAreExact
<1> QED BY <1>5 DEF n

\* Nothing expires while every block is loaded.
LEMMA UpdateActiveBlocksIsExact ==
  ASSUME NEW r, Consistent(r), IsExact(r), NEW limit \in Nat
  PROVE  IsExact(UpdateActiveBlocks(r, Block, limit))
<1> DEFINE B == ExpiredBlocks(r, Block, limit)
           f == [c \in Live(r) |-> OnBlocksExpired(r.m_clusters[c], B)]
           n == UpdateActiveBlocks(r, Block, limit)
<1>1. B = {} /\ B \in SUBSET Block
  BY RegistryTables DEF ExpiredBlocks, StaleBlocks, IsRegistry, IsTable
<1>2. \E A : n = [r EXCEPT !.m_active_blocks = A, !.m_clusters = f]
  BY DEF UpdateActiveBlocks, Live
<1>3. /\ DOMAIN f = Live(r)
      /\ \A d \in Live(r) : Members(f[d]) = Members(r.m_clusters[d])
  <2>1. ASSUME NEW d \in Live(r)
        PROVE  Members(OnBlocksExpired(r.m_clusters[d], B)) = Members(r.m_clusters[d])
    <3>1. r.m_clusters[d] \in Cluster /\ ClusterAgrees(r.m_clusters[d])
      BY RegistryClusters DEF Consistent
    <3>2. Members(OnBlocksExpired(r.m_clusters[d], B)) = {p \in Members(r.m_clusters[d]) : BlockOf[p] \notin B}
      BY <1>1, <3>1, BlocksExpiredAgrees
    <3> QED BY <1>1, <3>2
  <2> QED BY <2>1
<1> HIDE DEF f, n
<1>4. n.m_clusters = f /\ n.m_node_clusters = r.m_node_clusters
  BY <1>2, RegistryTables DEF IsTables
<1>5. Live(n) = Live(r)
  BY <1>3, <1>4 DEF Live
<1>6. IsExact(n)
  BY <1>3, <1>4, <1>5, SameMembersAreExact
<1> QED BY <1>6 DEF n

(***************************************************************************)
(* Operations that make and remove clusters.                               *)
(***************************************************************************)
LEMMA PutClusterIsExact ==
  ASSUME NEW r, Consistent(r), IsExact(r), NEW c, NEW k,
         \A p \in Pos : <<p, c>> \notin r.m_node_clusters
  PROVE  IsExact(PutCluster(r, c, k))
<1> DEFINE f == [d \in Live(r) \cup {c} |-> IF d = c THEN k ELSE r.m_clusters[d]]
           N == r.m_node_clusters \cup (Members(k) \X {c})
           n == PutCluster(r, c, k)
<1>1. n.m_clusters = f /\ n.m_node_clusters = N
  BY RegistryTables DEF PutCluster, IsTables, Live
<1>2. \A p, d : <<p, d>> \in N => <<p, d>> \in r.m_node_clusters \/ (d = c /\ p \in Members(k))
  OBVIOUS
<1>3. /\ DOMAIN f = Live(r) \cup {c} /\ f[c] = k
      /\ \A d \in Live(r) : d # c => f[d] = r.m_clusters[d]
  OBVIOUS
<1> HIDE DEF f, N, n
<1>4. IsExact(n)
  BY <1>1, <1>2, <1>3 DEF IsExact, Live
<1> QED BY <1>4 DEF n

LEMMA RemoveClustersIsExact ==
  ASSUME NEW r, Consistent(r), IsExact(r), NEW C
  PROVE  /\ IsExact(RemoveClusters(r, C))
         /\ RemoveClusters(r, C).m_node_clusters \subseteq r.m_node_clusters
<1> DEFINE gone == C \cap Live(r)
           f == Restrict(r.m_clusters, Live(r) \ gone)
           N == {pc \in r.m_node_clusters :
                   ~ (pc[2] \in gone /\ pc[1] \in Members(r.m_clusters[pc[2]]))}
           n == RemoveClusters(r, C)
<1>1. n.m_clusters = f /\ n.m_node_clusters = N
  BY RegistryTables DEF RemoveClusters, IsTables, Live
<1>2. DOMAIN f = Live(r) \ gone /\ \A d \in Live(r) \ gone : f[d] = r.m_clusters[d]
  BY DEF Restrict
<1>3. N \subseteq r.m_node_clusters
  OBVIOUS
<1> HIDE DEF f, N, n
<1>4. IsExact(n)
  BY <1>1, <1>2, <1>3 DEF IsExact, Live
<1> QED BY <1>1, <1>3, <1>4 DEF n

\* No entry of the index has an id above the counter.
LEMMA FreshIds ==
  ASSUME NEW r, Consistent(r), NEW c \in ClusterId, c > r.m_cluster_id
  PROVE  \A p \in Pos : <<p, c>> \notin r.m_node_clusters
<1>1. r.m_cluster_id \in Nat
  BY DEF Consistent, IsRegistry
<1> QED BY <1>1 DEF Consistent, ClusterId

LEMMA TakeIdIsExact ==
  ASSUME NEW r, Consistent(r), IsExact(r)
  PROVE  /\ IsExact(TakeId(r)) /\ TakeId(r).m_node_clusters = r.m_node_clusters
         /\ \A p \in Pos : <<p, NextId(r)>> \notin r.m_node_clusters
<1>1. TakeId(r).m_clusters = r.m_clusters /\ TakeId(r).m_node_clusters = r.m_node_clusters
  BY RegistryTables DEF TakeId, IsTables
<1>2. r.m_cluster_id \in Nat
  BY DEF Consistent, IsRegistry
<1>3. NextId(r) \in ClusterId /\ NextId(r) > r.m_cluster_id
  BY <1>2 DEF NextId, ClusterId
<1> QED BY <1>1, <1>3, FreshIds DEF IsExact, Live

LEMMA CreateClusterIsExact ==
  ASSUME NEW r, Consistent(r), IsExact(r), NEW groups
  PROVE  IsExact(CreateCluster(r, groups))
BY TakeIdIsExact, TakeIdConsistent, PutClusterIsExact DEF CreateCluster

LEMMA MergeClustersIsExact ==
  ASSUME NEW r, Consistent(r), IsExact(r), NEW s
  PROVE  IsExact(MergeClusters(r, s))
<1> DEFINE t == TakeId(r)
           u == RemoveClusters(t, {s[i] : i \in DOMAIN s})
           k == MergeAll([i \in DOMAIN s |-> r.m_clusters[s[i]]])
<1>1. /\ Consistent(t) /\ IsExact(t) /\ t.m_node_clusters = r.m_node_clusters
      /\ \A p \in Pos : <<p, NextId(r)>> \notin r.m_node_clusters
  BY TakeIdIsExact, TakeIdConsistent
<1> HIDE DEF t
<1>2. Consistent(u) /\ IsExact(u) /\ u.m_node_clusters \subseteq t.m_node_clusters
  BY <1>1, RemoveClustersConsistent, RemoveClustersIsExact
<1> HIDE DEF u, k
<1>3. IsExact(PutCluster(u, NextId(r), k))
  BY <1>1, <1>2, PutClusterIsExact
<1> QED BY <1>3 DEF MergeClusters, t, u, k

LEMMA CreateClustersIsExact ==
  ASSUME NEW r, Consistent(r), IsExact(r), NEW groups \in SUBSET ClusterGroup,
         NEW n \in Nat, NEW s \in [1..n -> NodeTable]
  PROVE  IsExact(CreateClusters(r, groups, s))
<1> DEFINE id == r.m_cluster_id
           new == {id + i : i \in 1..n}
           S == UNION {DOMAIN s[i] : i \in 1..n}
           f == [c \in Live(r) \cup new |->
                   IF c \in new THEN PutNodes(NewCluster(groups), s[c - id]) ELSE r.m_clusters[c]]
           N == r.m_node_clusters \cup UNION {(DOMAIN s[i]) \X {id + i} : i \in 1..n}
           t == CreateClusters(r, groups, s)
<1>1. id \in Nat
  BY DEF Consistent, IsRegistry
<1>2. DOMAIN s = 1..n /\ Len(s) = n
  BY FunctionIsSequence
<1>3. S \in SUBSET Pos
  BY NodeTables DEF IsTable
<1>4. t.m_clusters = f /\ t.m_node_clusters = N
  <2>1. /\ MarkBlocks(r, S).m_clusters = r.m_clusters
        /\ MarkBlocks(r, S).m_node_clusters = r.m_node_clusters
        /\ IsTables(MarkBlocks(r, S))
    BY <1>3, MarkedTables
  <2>2. t = [MarkBlocks(r, S) EXCEPT
               !.m_cluster_id = id + n, !.m_clusters = f,
               !.m_group_clusters = @ \cup (groups \X new), !.m_node_clusters = N]
    BY <1>2, <2>1 DEF CreateClusters, Live
  <2> DEFINE m == MarkBlocks(r, S)
  <2> HIDE DEF f, N, t, m
  <2> QED BY <2>1, <2>2 DEF IsTables, m
<1>5. ASSUME NEW i \in 1..n
      PROVE  Members(PutNodes(NewCluster(groups), s[i])) = DOMAIN s[i]
  <2>1. NewCluster(groups) \in Cluster /\ Members(NewCluster(groups)) = {}
    BY NewClusterType, NewClusterAgrees
  <2> QED BY <2>1, PutNodesMembers
<1> SUFFICES ASSUME NEW p \in Pos, NEW c \in Live(t), <<p, c>> \in t.m_node_clusters
    PROVE p \in Members(t.m_clusters[c])
  BY DEF IsExact
<1>6. c \in Live(r) \cup new /\ <<p, c>> \in N
  BY <1>4 DEF Live
<1>7. CASE c \in new
  <2>1. PICK i \in 1..n : c = id + i
    BY <1>7
  <2>2. c \in ClusterId /\ c > id /\ c - id = i
    BY <2>1, <1>1 DEF ClusterId
  <2>3. <<p, c>> \notin r.m_node_clusters
    BY <2>2, FreshIds
  <2>4. PICK j \in 1..n : p \in DOMAIN s[j] /\ c = id + j
    BY <2>3, <1>6
  <2>5. j = i
    BY <2>1, <2>4, <1>1
  <2>6. t.m_clusters[c] = PutNodes(NewCluster(groups), s[i])
    BY <2>2, <1>4, <1>7
  <2> QED BY <2>4, <2>5, <2>6, <1>5
<1>8. CASE c \notin new
  <2>1. c \in Live(r) /\ t.m_clusters[c] = r.m_clusters[c]
    BY <1>4, <1>6, <1>8
  <2>2. <<p, c>> \in r.m_node_clusters
    BY <1>6, <1>8
  <2> QED BY <2>1, <2>2 DEF IsExact
<1> QED BY <1>7, <1>8

(***************************************************************************)
(* The handlers.                                                           *)
(***************************************************************************)
LEMMA HandleAddNodeIsExact ==
  ASSUME Consistent(reg), IsExact(reg), NEW e \in Event, NEW c \in ClusterId, handle_add_node(e, c)
  PROVE  IsExact(reg')
<1>1. PICK neighbours \in Neighbours(e.pos, e.kind) :
        \E s \in Orders(Range(neighbours)) : JoinClusters(e, s, c)
  BY DEF handle_add_node
<1>2. PICK s \in Orders(Range(neighbours)) : JoinClusters(e, s, c)
  BY <1>1
<1>3. Range(neighbours) \subseteq Live(reg)
  BY DEF Neighbours, Range
<1>4. e.pos \in Pos /\ e.kind \in Kind
  BY EventFields
<1>5. IsFiniteSet(Range(neighbours))
  BY <1>3, LiveFinite, FS_Subset
<1>6. PICK m \in Nat : m = Cardinality(Range(neighbours)) /\ s \in [1..m -> Range(neighbours)]
  BY <1>5, OrderIsSequence
<1>7. Len(s) = m /\ s \in [1..m -> Live(reg)]
  BY <1>3, <1>6, FunctionIsSequence
<1> DEFINE joined == CASE Len(s) = 0 -> CreateCluster(reg, OwnGroup)
                       [] Len(s) = 1 -> reg
                       [] OTHER      -> MergeClusters(reg, s)
<1>8. /\ c = IF Len(s) = 1 THEN s[1] ELSE NextId(reg)
      /\ reg' = SetGeneration(AddNodeToCluster(joined, c, e.pos, e.kind), c)
  BY <1>2 DEF JoinClusters
<1>9. Consistent(joined) /\ IsExact(joined) /\ c \in Live(joined)
  <2>1. CASE m = 0
    <3>1. joined = CreateCluster(reg, OwnGroup) /\ c = NextId(reg)
      BY <2>1, <1>7, <1>8
    <3>2. OwnGroup \in SUBSET ClusterGroup
      BY SimpleClusterAssumption DEF OwnGroup
    <3> HIDE DEF joined
    <3> QED BY <3>1, <3>2, CreateClusterConsistent, CreateClusterIsExact
  <2>2. CASE m = 1
    <3>1. joined = reg /\ c = s[1]
      BY <2>2, <1>7, <1>8
    <3> HIDE DEF joined
    <3> QED BY <2>2, <3>1, <1>7
  <2>3. CASE m \notin {0, 1}
    <3>1. joined = MergeClusters(reg, s) /\ c = NextId(reg) /\ m \in Nat \ {0}
      BY <2>3, <1>7, <1>8
    <3> HIDE DEF joined
    <3> QED BY <3>1, <1>7, MergeClustersConsistent, MergeClustersIsExact
  <2> QED BY <2>1, <2>2, <2>3
<1> HIDE DEF joined
<1> DEFINE added == AddNodeToCluster(joined, c, e.pos, e.kind)
<1>10. Consistent(added) /\ c \in Live(added) /\ IsExact(added)
  BY <1>4, <1>9, AddNodeToClusterConsistent, AddNodeIsExact
<1> QED BY <1>8, <1>10, SetGenerationIsExact

LEMMA HandleUpdateNodeIsExact ==
  ASSUME Consistent(reg), IsExact(reg), NEW e \in Event, handle_update_node(e)
  PROVE  IsExact(reg')
<1>1. PICK c \in ClustersOfGroup(reg, ClusterGroupName) :
        reg' = UpdateNodeInCluster(reg, c, e.pos, e.kind)
  BY DEF handle_update_node
<1>2. c \in Live(reg)
  BY DEF ClustersOfGroup
<1> QED BY <1>1, <1>2, EventFields, UpdateNodeIsExact

LEMMA HandleRemoveNodeIsExact ==
  ASSUME Consistent(reg), IsExact(reg), NEW e \in Event, NEW branches, IsFiniteSet(branches),
         \A b \in branches : IsTable(Restrict(world, b), Pos, Kind),
         handle_remove_node(e, branches)
  PROVE  IsExact(reg')
<1>1. PICK c \in OrNil(GroupClustersAt(reg, e.pos)) :
        RebuildBranches(WithoutNode(e.pos, c), branches)
  BY DEF handle_remove_node
<1>2. c = Nil \/ c \in Live(reg)
  BY DEF OrNil, GroupClustersAt, ClustersAt
<1> DEFINE r == WithoutNode(e.pos, c)
<1>3. Consistent(r) /\ IsExact(r)
  BY <1>2, EventFields, RemoveNodeFromClusterConsistent, RemoveNodeIsExact DEF WithoutNode
<1>4. PICK owner \in Affected(r, branches), s \in Orders(branches) :
        reg' = CreateClusters(RemoveClusters(r, Range(owner) \ {Nil}), OwnGroup,
                              [i \in DOMAIN s |-> Restrict(world, s[i])])
  BY <1>1 DEF RebuildBranches
<1>5. PICK n \in Nat : s \in [1..n -> branches] /\ DOMAIN s = 1..n
  BY OrderIsSequence
<1> DEFINE t == [i \in DOMAIN s |-> Restrict(world, s[i])]
           u == RemoveClusters(r, Range(owner) \ {Nil})
<1>6. t \in [1..n -> NodeTable]
  BY <1>5, NodeTables
<1>7. Consistent(u) /\ IsExact(u)
  BY <1>3, RemoveClustersConsistent, RemoveClustersIsExact
<1>8. OwnGroup \in SUBSET ClusterGroup
  BY SimpleClusterAssumption DEF OwnGroup
<1> HIDE DEF t, u
<1>9. IsExact(CreateClusters(u, OwnGroup, t))
  BY <1>6, <1>7, <1>8, CreateClustersIsExact
<1> QED BY <1>4, <1>9 DEF t, u

(***************************************************************************)
(* The steps.                                                              *)
(***************************************************************************)
ExactInv == IInv(Event) /\ IsExact(reg) /\ loaded = Block

LEMMA InitIsExact ==
  ASSUME Init
  PROVE  ExactInv
<1>1. IsExact(reg)
  BY DEF Init, EmptyRegistry, IsExact
<1> QED BY <1>1, InitIInv DEF ExactInv, Init

LEMMA BeginUpdateIsExact ==
  ASSUME ExactInv, BeginUpdate
  PROVE  IsExact(reg') /\ loaded' = Block
<1> DEFINE u == UpdateActiveBlocks(reg, Block, BlockTimeout)
<1>1. Consistent(reg) /\ IsExact(reg) /\ BlockTimeout \in Nat /\ Block \subseteq Block
  BY SimpleClusterAssumption, RegistryAssumption DEF ExactInv, IInv
<1>2. Consistent(u) /\ IsExact(u)
  BY <1>1, UpdateActiveBlocksConsistent, UpdateActiveBlocksIsExact
<1>3. reg' = AgeGenerations(u) /\ loaded' = Block
  BY DEF BeginUpdate, ExactInv
<1> HIDE DEF u
<1> QED BY <1>2, <1>3, AgeGenerationsIsExact

LEMMA HandlersAreExact ==
  ASSUME ExactInv, HandleAddNode \/ HandleUpdateNode \/ HandleRemoveNode
  PROVE  IsExact(reg') /\ loaded' = Block
<1>1. Head(batch) \in Event
  BY SimpleEvents, TakenNodeEvent
  DEF ExactInv, IInv, EventName, HandleAddNode, HandleUpdateNode, HandleRemoveNode
<1>2. Consistent(reg) /\ IsExact(reg) /\ WorldInv
  BY DEF ExactInv, IInv
<1>3. CASE HandleAddNode
  BY <1>1, <1>2, <1>3, HandleAddNodeIsExact DEF HandleAddNode, ExactInv
<1>4. CASE HandleUpdateNode
  BY <1>1, <1>2, <1>4, HandleUpdateNodeIsExact DEF HandleUpdateNode, ExactInv
<1>5. CASE HandleRemoveNode
  <2>1. PICK walk \in Walks : handle_remove_node(Head(batch), Branches(Head(batch).pos, walk))
    BY <1>5 DEF HandleRemoveNode
  <2>2. IsExact(reg')
    BY <1>1, <1>2, <2>1, BranchesAreVisible, HandleRemoveNodeIsExact
  <2> QED BY <2>2, <1>5 DEF HandleRemoveNode, ExactInv
<1> QED BY <1>3, <1>4, <1>5

LEMMA EndUpdateIsExact ==
  ASSUME ExactInv, EndUpdate \/ EndShortUpdate \/ HandleUpdateNodeCrash
  PROVE  IsExact(reg') /\ loaded' = Block
<1>1. CASE EndUpdate
  <2>1. PICK c \in OrNil({d \in Live(reg) : IsEmpty(reg.m_clusters[d])}) :
          reg' = IF c = Nil THEN reg ELSE RemoveClusters(reg, {c})
    BY <1>1 DEF EndUpdate, DestroyEmptyCluster
  <2>2. IsExact(reg')
    BY <2>1, RemoveClustersIsExact DEF ExactInv, IInv
  <2> QED BY <1>1, <2>2 DEF EndUpdate, ExactInv
<1>2. CASE EndShortUpdate \/ HandleUpdateNodeCrash
  BY <1>2 DEF EndShortUpdate, HandleUpdateNodeCrash, ExactInv
<1> QED BY <1>1, <1>2

LEMMA WorldIsExact ==
  ASSUME ExactInv, "unload" \notin Environment,
         \/ \E p \in Pos, kind \in Kind : PlaceNode(p, kind) \/ SwapNode(p, kind)
         \/ \E p \in Pos : DigNode(p)
         \/ \E b \in Block : UnloadBlock(b) \/ ActivateBlock(b)
         \/ UNCHANGED vars
  PROVE  IsExact(reg') /\ loaded' = Block
<1>1. ASSUME NEW b \in Block, ActivateBlock(b)
      PROVE  reg' = reg /\ loaded' = loaded \cup {b}
  BY <1>1 DEF ActivateBlock
<1>2. \A b \in Block : ~UnloadBlock(b)
  BY DEF UnloadBlock, MayAct
<1> QED BY <1>1, <1>2 DEF PlaceNode, SwapNode, DigNode, ExactInv, vars

\* While blocks stay loaded, get_node of a position finds what its clusters
\* hold: the node index leads to the clusters that have the node and to no
\* others, after any sequence of placing, digging, swapping and activating.
THEOREM IndexIsExact ==
  ASSUME "unload" \notin Environment
  PROVE  Spec => []IndexLeadsToMembers
<1>1. Init => ExactInv
  BY InitIsExact
<1>2. ExactInv /\ [Next]_vars => ExactInv'
  <2> SUFFICES ASSUME ExactInv, [Next]_vars PROVE ExactInv'
    OBVIOUS
  <2>1. IInv(Event)'
    BY NextKeeps DEF ExactInv
  <2>2. IsExact(reg') /\ loaded' = Block
    BY BeginUpdateIsExact, HandlersAreExact, EndUpdateIsExact, WorldIsExact DEF Next, Update
  <2> QED BY <2>1, <2>2 DEF ExactInv
<1>3. ExactInv => IndexLeadsToMembers
  BY DEF ExactInv, IInv, Consistent, IsExact, IndexLeadsToMembers, ClustersAt, Holders
<1> QED BY <1>1, <1>2, <1>3, PTL DEF Spec

(***************************************************************************)
(* What the other operations do to the clusters, one by one.               *)
(***************************************************************************)
LEMMA SetAssignsEffect ==
  ASSUME NEW r, Consistent(r), NEW c \in Live(r), NEW a
  PROVE  /\ Live(SetAssigns(r, c, a)) = Live(r)
         /\ \A d \in Live(r) \ {c} : SetAssigns(r, c, a).m_clusters[d] = r.m_clusters[d]
         /\ SetAssigns(r, c, a).m_clusters[c] = [r.m_clusters[c] EXCEPT !.assigns = a]
BY RegistryTables DEF SetAssigns, IsTables, Live

LEMMA AssignsLeaveNodes ==
  ASSUME NEW k \in Cluster, NEW a
  PROVE  LET m == [k EXCEPT !.assigns = a]
         IN /\ m.nodes = k.nodes /\ m.groups = k.groups /\ m.group_nodes = k.group_nodes
            /\ m.assigns = a /\ Members(m) = Members(k)
BY DEF Cluster, Members

LEMMA SetGenerationEffect ==
  ASSUME NEW r, IsTables(r), NEW c \in Live(r), r.m_clusters[c] \in Cluster
  PROVE  LET n == SetGeneration(r, c)
         IN /\ Live(n) = Live(r)
            /\ \A d \in Live(r) \ {c} : n.m_clusters[d] = r.m_clusters[d]
            /\ n.m_clusters[c].nodes = r.m_clusters[c].nodes
            /\ n.m_clusters[c].groups = r.m_clusters[c].groups
            /\ n.m_clusters[c].assigns.generation_id = TRUE
BY DEF SetGeneration, IsTables, Live, Cluster, Assigns

\* The marks of the clusters' generations age, and nothing else of them.
LEMMA AgeGenerationsEffect ==
  ASSUME NEW r, Consistent(r)
  PROVE  /\ Live(AgeGenerations(r)) = Live(r)
         /\ \A c \in Live(r) : AgeGenerations(r).m_clusters[c] =
              [r.m_clusters[c] EXCEPT !.assigns.generation_id = FALSE]
BY RegistryTables DEF AgeGenerations, IsTables, Live

(***************************************************************************)
(* The handlers.                                                           *)
(***************************************************************************)
\* Every cluster that exists belongs to the handlers of this module.
IsOwned(r) == \A c \in Live(r) : ClusterGroupName \in r.m_clusters[c].groups

LEMMA OwnedClusters ==
  ASSUME NEW r, Consistent(r), IsOwned(r)
  PROVE  ClustersOfGroup(r, ClusterGroupName) = Live(r)
<1>1. \A c \in Live(r) : c \in ClusterId
  BY RegistryClusters DEF Consistent
<1>2. \A c \in Live(r) : <<ClusterGroupName, c>> \in r.m_group_clusters
  BY <1>1, SimpleClusterAssumption DEF Consistent, IsOwned
<1> QED BY <1>2 DEF ClustersOfGroup

\* A cluster c of r2 made of the clusters M of r1 and the node kind at p; the
\* other clusters are left alone.
IsJoin(r1, r2, c, M, p, kind) ==
  /\ M \subseteq Live(r1)
  /\ Live(r2) = (Live(r1) \ M) \cup {c} /\ (c \in M \/ c \notin Live(r1))
  /\ \A d \in Live(r1) \ M : r2.m_clusters[d] = r1.m_clusters[d]
  /\ Members(r2.m_clusters[c]) = (UNION {Members(r1.m_clusters[d]) : d \in M}) \cup {p}
  /\ r2.m_clusters[c].nodes[p] = kind
  /\ \A q \in Members(r2.m_clusters[c]) \ {p} :
       \E d \in M : /\ q \in Members(r1.m_clusters[d])
                    /\ r2.m_clusters[c].nodes[q] = r1.m_clusters[d].nodes[q]

\* An order of a finite set has each of its elements.
LEMMA OrderCovers ==
  ASSUME NEW S, IsFiniteSet(S), NEW s \in Orders(S)
  PROVE  \E n \in Nat : /\ n = Cardinality(S) /\ s \in [1..n -> S] /\ DOMAIN s = 1..n
                        /\ {s[i] : i \in 1..n} = S
<1>1. PICK n \in Nat : n = Cardinality(S) /\ s \in [1..n -> S] /\ DOMAIN s = 1..n
  BY OrderIsSequence
<1>2. s \in Injection(1..n, S)
  BY <1>1 DEF Orders, Injection, IsInjective
<1>3. Cardinality(1..n) = n
  BY FS_Interval
<1>4. s \in Surjection(1..n, S)
  BY <1>1, <1>2, <1>3, FS_Injection
<1> QED BY <1>1, <1>4 DEF Surjection

LEMMA HandleAddNodeJoins ==
  ASSUME Consistent(reg), IsOwned(reg), NEW e \in Event, NEW c \in ClusterId, handle_add_node(e, c)
  PROVE  /\ IsOwned(reg')
         /\ reg'.m_clusters[c].assigns.generation_id = TRUE
         /\ \E f \in Neighbours(e.pos, e.kind) : IsJoin(reg, reg', c, Range(f), e.pos, e.kind)
<1>1. PICK neighbours \in Neighbours(e.pos, e.kind) :
        \E s \in Orders(Range(neighbours)) : JoinClusters(e, s, c)
  BY DEF handle_add_node
<1>2. PICK s \in Orders(Range(neighbours)) : JoinClusters(e, s, c)
  BY <1>1
<1> DEFINE M == Range(neighbours)
<1>3. M \subseteq Live(reg)
  BY DEF Neighbours, Range
<1>4. e.pos \in Pos /\ e.kind \in Kind
  BY EventFields
<1>5. IsFiniteSet(M)
  BY <1>3, LiveFinite, FS_Subset
<1>6. PICK m \in Nat : /\ s \in [1..m -> M] /\ DOMAIN s = 1..m
                       /\ {s[i] : i \in 1..m} = M
  BY <1>5, OrderCovers
<1>7. Len(s) = m /\ s \in [1..m -> Live(reg)]
  BY <1>3, <1>6, FunctionIsSequence
<1> DEFINE joined == CASE Len(s) = 0 -> CreateCluster(reg, OwnGroup)
                       [] Len(s) = 1 -> reg
                       [] OTHER      -> MergeClusters(reg, s)
<1>8. /\ c = IF Len(s) = 1 THEN s[1] ELSE NextId(reg)
      /\ reg' = SetGeneration(AddNodeToCluster(joined, c, e.pos, e.kind), c)
  BY <1>2 DEF JoinClusters
<1>9. /\ Consistent(joined)
      /\ Live(joined) = (Live(reg) \ M) \cup {c} /\ (c \in M \/ c \notin Live(reg))
      /\ ClusterGroupName \in joined.m_clusters[c].groups
      /\ \A d \in Live(reg) \ M : joined.m_clusters[d] = reg.m_clusters[d]
      /\ Members(joined.m_clusters[c]) = UNION {Members(reg.m_clusters[d]) : d \in M}
      /\ \A q \in Members(joined.m_clusters[c]) :
           \E d \in M : /\ q \in Members(reg.m_clusters[d])
                        /\ joined.m_clusters[c].nodes[q] = reg.m_clusters[d].nodes[q]
  <2>0. OwnGroup \in SUBSET ClusterGroup /\ ClusterGroupName \in OwnGroup
    BY SimpleClusterAssumption DEF OwnGroup
  <2>1. CASE m = 0
    <3>1. joined = CreateCluster(reg, OwnGroup) /\ c = NextId(reg)
      BY <2>1, <1>7, <1>8
    <3>2. M = {}
      BY <2>1, <1>6
    <3> HIDE DEF joined, M
    <3>3. /\ Members(NewCluster(OwnGroup)) = {} /\ NewCluster(OwnGroup).groups = OwnGroup
      BY NewClusterAgrees
    <3> QED BY <2>0, <3>1, <3>2, <3>3, CreateClusterConsistent, CreateClusterEffect
  <2>2. CASE m = 1
    <3>1. joined = reg /\ c = s[1]
      BY <2>2, <1>7, <1>8
    <3>2. M = {c}
      BY <2>2, <3>1, <1>6
    <3> HIDE DEF joined, M
    <3> QED BY <2>2, <3>1, <3>2, <1>3 DEF IsOwned
  <2>3. CASE m \notin {0, 1}
    <3> DEFINE ks == [i \in 1..m |-> reg.m_clusters[s[i]]]
    <3>1. joined = MergeClusters(reg, s) /\ c = NextId(reg) /\ m \in Nat \ {0}
      BY <2>3, <1>7, <1>8
    <3> HIDE DEF joined, M
    <3>2. ks \in [1..m -> Cluster]
      BY <1>7, RegistryClusters DEF Consistent
    <3>3. \A i \in 1..m : ks[i] = reg.m_clusters[s[i]] /\ s[i] \in M
      BY <1>6
    <3>4. \A d \in M : \E i \in 1..m : d = s[i] /\ ks[i] = reg.m_clusters[d]
      BY <1>6
    <3>5. MergeAll(ks).groups = UNION {ks[i].groups : i \in 1..m}
      BY DEF MergeAll
    <3> HIDE DEF ks
    <3>6. ClusterGroupName \in MergeAll(ks).groups
      <4>1. ClusterGroupName \in ks[1].groups /\ 1 \in 1..m
        BY <3>1, <3>3, <1>3 DEF IsOwned
      <4> QED BY <3>5, <4>1
    <3>7. Members(MergeAll(ks)) = UNION {Members(reg.m_clusters[d]) : d \in M}
      <4>1. Members(MergeAll(ks)) = UNION {Members(ks[i]) : i \in 1..m}
        BY <3>2, <3>1, MergeAllNodes
      <4> QED BY <4>1, <3>3, <3>4
    <3>8. \A q \in Members(MergeAll(ks)) :
            \E d \in M : /\ q \in Members(reg.m_clusters[d])
                         /\ MergeAll(ks).nodes[q] = reg.m_clusters[d].nodes[q]
      <4>1. \A q \in Members(MergeAll(ks)) :
              \E i \in 1..m : q \in Members(ks[i]) /\ MergeAll(ks).nodes[q] = ks[i].nodes[q]
        BY <3>2, <3>1, MergeAllNodes
      <4> QED BY <4>1, <3>3
    <3>9. Consistent(MergeClusters(reg, s))
      BY <3>1, <1>7, MergeClustersConsistent
    <3>10. LET n == MergeClusters(reg, s)
           IN /\ Live(n) = (Live(reg) \ M) \cup {NextId(reg)}
              /\ NextId(reg) \notin Live(reg)
              /\ \A d \in Live(reg) \ M : n.m_clusters[d] = reg.m_clusters[d]
              /\ n.m_clusters[NextId(reg)] = MergeAll(ks)
      BY <3>1, <1>6, <1>7, MergeClustersEffect DEF ks
    <3> QED BY <3>1, <3>6, <3>7, <3>8, <3>9, <3>10
  <2> QED BY <2>1, <2>2, <2>3
<1> HIDE DEF joined, M
<1> DEFINE added == AddNodeToCluster(joined, c, e.pos, e.kind)
           k == joined.m_clusters[c]
<1>10. /\ c \in Live(joined) /\ k \in Cluster
  BY <1>9, RegistryClusters DEF Consistent
<1>11. /\ Consistent(added) /\ IsTables(added) /\ Live(added) = Live(joined)
       /\ added.m_clusters = [joined.m_clusters EXCEPT ![c] = AddNode(k, e.pos, e.kind)]
  BY <1>4, <1>9, <1>10, AddNodeToClusterConsistent, AddNodeEffect
<1>12. /\ added.m_clusters[c] = AddNode(k, e.pos, e.kind)
       /\ \A d \in Live(joined) \ {c} : added.m_clusters[d] = joined.m_clusters[d]
  BY <1>10, <1>11, RegistryTables DEF Live
<1>13. /\ Members(AddNode(k, e.pos, e.kind)) = Members(k) \cup {e.pos}
       /\ AddNode(k, e.pos, e.kind).nodes[e.pos] = e.kind
       /\ \A q \in Members(k) \ {e.pos} : AddNode(k, e.pos, e.kind).nodes[q] = k.nodes[q]
       /\ AddNode(k, e.pos, e.kind).groups = k.groups
       /\ AddNode(k, e.pos, e.kind) \in Cluster
  BY <1>4, <1>9, <1>10, AddNodeEntries, AddNodeAgrees DEF Consistent
<1> HIDE DEF added
<1>14. /\ reg' = SetGeneration(added, c) /\ c \in Live(added)
       /\ added.m_clusters[c] \in Cluster
  BY <1>8, <1>10, <1>11, <1>12, <1>13 DEF added
<1>15. /\ Live(reg') = Live(added)
       /\ \A d \in Live(added) \ {c} : reg'.m_clusters[d] = added.m_clusters[d]
       /\ reg'.m_clusters[c].nodes = added.m_clusters[c].nodes
       /\ reg'.m_clusters[c].groups = added.m_clusters[c].groups
       /\ reg'.m_clusters[c].assigns.generation_id = TRUE
  <2> DEFINE n == SetGeneration(added, c)
  <2>1. /\ Live(n) = Live(added)
        /\ \A d \in Live(added) \ {c} : n.m_clusters[d] = added.m_clusters[d]
        /\ n.m_clusters[c].nodes = added.m_clusters[c].nodes
        /\ n.m_clusters[c].groups = added.m_clusters[c].groups
        /\ n.m_clusters[c].assigns.generation_id = TRUE
    BY <1>11, <1>14, SetGenerationEffect
  <2>2. reg' = n
    BY <1>14
  <2> HIDE DEF n
  <2> QED BY <2>1, <2>2
<1>16. Members(reg'.m_clusters[c]) = Members(added.m_clusters[c])
  BY <1>15 DEF Members
<1>17. IsOwned(reg')
  <2> SUFFICES ASSUME NEW d \in Live(reg') PROVE ClusterGroupName \in reg'.m_clusters[d].groups
    BY DEF IsOwned
  <2>1. CASE d = c
    BY <2>1, <1>9, <1>12, <1>13, <1>15
  <2>2. CASE d # c
    <3>1. reg'.m_clusters[d] = reg.m_clusters[d] /\ d \in Live(reg)
      BY <2>2, <1>9, <1>11, <1>12, <1>15
    <3> QED BY <3>1 DEF IsOwned
  <2> QED BY <2>1, <2>2
<1>18. IsJoin(reg, reg', c, M, e.pos, e.kind)
  BY <1>3, <1>9, <1>11, <1>12, <1>13, <1>15, <1>16 DEF IsJoin
<1> QED BY <1>15, <1>17, <1>18 DEF M

LEMMA UpdateNodeLeaves ==
  ASSUME Consistent(reg), IsOwned(reg), NEW e \in Event, handle_update_node(e)
  PROVE  /\ IsOwned(reg') /\ Live(reg') = Live(reg)
         /\ \A d \in Live(reg) : Members(reg'.m_clusters[d]) = Members(reg.m_clusters[d])
<1>1. PICK c \in Live(reg) : reg' = UpdateNodeInCluster(reg, c, e.pos, e.kind)
  BY DEF handle_update_node, ClustersOfGroup
<1> DEFINE k == UpdateNode(reg.m_clusters[c], e.pos, e.kind)
<1>2. reg.m_clusters[c] \in Cluster /\ ClusterAgrees(reg.m_clusters[c]) /\ e.pos \in Pos /\ e.kind \in Kind
  BY RegistryClusters, EventFields DEF Consistent
<1>3. Members(k) = Members(reg.m_clusters[c]) /\ k.groups = reg.m_clusters[c].groups
  BY <1>2, UpdateNodeAgrees
<1>4. reg'.m_clusters = [reg.m_clusters EXCEPT ![c] = k]
  BY <1>1, <1>2, UpdateNodeEffect
<1> HIDE DEF k
<1>5. /\ Live(reg') = Live(reg) /\ reg'.m_clusters[c] = k
      /\ \A d \in Live(reg) \ {c} : reg'.m_clusters[d] = reg.m_clusters[d]
  BY <1>4, RegistryTables DEF Live
<1> QED BY <1>3, <1>5 DEF IsOwned

\* t is r with a cluster more for each of the tables s[1], ..., s[n].
HasNewClusters(t, r, groups, n, s) ==
  /\ Live(t) = Live(r) \cup {r.m_cluster_id + i : i \in 1..n}
  /\ \A d \in Live(r) : t.m_clusters[d] = r.m_clusters[d]
  /\ \A i \in 1..n : /\ Members(t.m_clusters[r.m_cluster_id + i]) = DOMAIN s[i]
                     /\ t.m_clusters[r.m_cluster_id + i].groups = groups

LEMMA CreateClustersEffect ==
  ASSUME NEW r, Consistent(r), NEW groups \in SUBSET ClusterGroup,
         NEW n \in Nat, NEW s \in [1..n -> NodeTable]
  PROVE  HasNewClusters(CreateClusters(r, groups, s), r, groups, n, s)
<1> DEFINE id == r.m_cluster_id
           new == {id + i : i \in 1..n}
           S == UNION {DOMAIN s[i] : i \in 1..n}
           k(i) == PutNodes(NewCluster(groups), s[i])
           f == [c \in Live(r) \cup new |-> IF c \in new THEN k(c - id) ELSE r.m_clusters[c]]
           t == CreateClusters(r, groups, s)
<1>1. id \in Nat /\ \A d \in Live(r) : d \in ClusterId /\ d <= id
  BY RegistryClusters DEF Consistent, IsRegistry
<1>2. DOMAIN s = 1..n /\ Len(s) = n
  BY FunctionIsSequence
<1>3. S \in SUBSET Pos
  BY NodeTables DEF IsTable
<1>4. t.m_clusters = f
  <2> DEFINE m == MarkBlocks(r, S)
  <2>1. m.m_clusters = r.m_clusters /\ IsTables(m)
    BY <1>3, MarkedTables
  <2>2. t.m_clusters = [c \in DOMAIN m.m_clusters \cup new |->
                          IF c \in new THEN k(c - id) ELSE r.m_clusters[c]]
    <3>1. t = [m EXCEPT !.m_cluster_id = id + n,
                 !.m_clusters = [c \in DOMAIN @ \cup new |->
                                   IF c \in new THEN k(c - id) ELSE r.m_clusters[c]],
                 !.m_group_clusters = @ \cup (groups \X new),
                 !.m_node_clusters = @ \cup UNION {(DOMAIN s[i]) \X {id + i} : i \in 1..n}]
      BY <1>2 DEF CreateClusters
    <3> HIDE DEF m, new, k, t
    <3> QED BY <2>1, <3>1 DEF IsTables
  <2> HIDE DEF m
  <2> QED BY <2>1, <2>2 DEF Live
<1>5. ASSUME NEW i \in 1..n
      PROVE  id + i \in new /\ (id + i) - id = i /\ id + i \notin Live(r)
             /\ Members(k(i)) = DOMAIN s[i] /\ k(i).groups = groups
  <2>1. /\ NewCluster(groups) \in Cluster /\ Members(NewCluster(groups)) = {}
        /\ NewCluster(groups).groups = groups
    BY NewClusterType, NewClusterAgrees
  <2>2. Members(k(i)) = DOMAIN s[i] /\ k(i).groups = groups
    BY <2>1, PutNodesMembers, PutNodesClusterGroups
  <2> HIDE DEF k
  <2>3. id + i \notin Live(r) /\ (id + i) - id = i
    BY <1>1 DEF ClusterId
  <2> QED BY <2>2, <2>3
<1> HIDE DEF k, t
<1>6. Live(t) = Live(r) \cup new /\ \A i \in 1..n : t.m_clusters[id + i] = k(i)
  BY <1>4, <1>5 DEF Live
<1>7. \A d \in Live(r) : d \notin new
  BY <1>5
<1>8. \A d \in Live(r) : t.m_clusters[d] = r.m_clusters[d]
  BY <1>4, <1>7
<1>9. HasNewClusters(t, r, groups, n, s)
  BY <1>5, <1>6, <1>8 DEF HasNewClusters
<1> QED BY <1>9 DEF t

\* A removal without branches takes one node out and nothing else; each
\* branch becomes a cluster.
LEMMA RemoveNodeRebuilds ==
  ASSUME Consistent(reg), IsOwned(reg), NEW e \in Event, NEW branches, IsFiniteSet(branches),
         \A b \in branches : IsTable(Restrict(world, b), Pos, Kind),
         handle_remove_node(e, branches)
  PROVE  /\ IsOwned(reg')
         /\ branches = {} => /\ Live(reg') = Live(reg)
                             /\ \A d \in Live(reg) : Members(reg.m_clusters[d]) \ {e.pos}
                                                       \subseteq Members(reg'.m_clusters[d])
         /\ \A b \in branches : \E d \in Live(reg') : Members(reg'.m_clusters[d]) = b
<1>1. PICK c \in OrNil(GroupClustersAt(reg, e.pos)) :
        RebuildBranches(WithoutNode(e.pos, c), branches)
  BY DEF handle_remove_node
<1>2. c = Nil \/ c \in Live(reg)
  BY DEF OrNil, GroupClustersAt, ClustersAt
<1> DEFINE r == WithoutNode(e.pos, c)
<1>3. /\ Consistent(r) /\ Live(r) = Live(reg)
      /\ \A d \in Live(reg) : /\ Members(reg.m_clusters[d]) \ {e.pos} \subseteq Members(r.m_clusters[d])
                              /\ r.m_clusters[d].groups = reg.m_clusters[d].groups
  <2>1. CASE c = Nil
    BY <2>1 DEF WithoutNode
  <2>2. CASE c # Nil
    <3> DEFINE k == RemoveNodes(reg.m_clusters[c], {e.pos})
    <3>1. r = RemoveNodeFromCluster(reg, c, e.pos) /\ c \in Live(reg) /\ e.pos \in Pos
      BY <2>2, <1>2, EventFields DEF WithoutNode
    <3> HIDE DEF r
    <3>2. r.m_clusters = [reg.m_clusters EXCEPT ![c] = k] /\ Consistent(r) /\ Live(r) = Live(reg)
      BY <3>1, RemoveNodeEffect, RemoveNodeFromClusterConsistent
    <3>0. reg.m_clusters[c] \in Cluster
      BY <3>1, RegistryClusters DEF Consistent
    <3>3. Members(k) = Members(reg.m_clusters[c]) \ {e.pos} /\ k.groups = reg.m_clusters[c].groups
      BY <3>0, RemoveNodesMembers, RemoveNodesClusterGroups
    <3> HIDE DEF k
    <3>4. \A d \in Live(reg) : r.m_clusters[d] = IF d = c THEN k ELSE reg.m_clusters[d]
      BY <3>2, RegistryTables DEF Live
    <3> QED BY <3>2, <3>3, <3>4
  <2> QED BY <2>1, <2>2
<1>4. PICK owner \in Affected(r, branches), s \in Orders(branches) :
        reg' = CreateClusters(RemoveClusters(r, Range(owner) \ {Nil}), OwnGroup,
                              [i \in DOMAIN s |-> Restrict(world, s[i])])
  BY <1>1 DEF RebuildBranches
<1>5. PICK n \in Nat : /\ n = Cardinality(branches) /\ s \in [1..n -> branches] /\ DOMAIN s = 1..n
                       /\ {s[i] : i \in 1..n} = branches
  BY OrderCovers
<1> DEFINE t == [i \in DOMAIN s |-> Restrict(world, s[i])]
           gone == Range(owner) \ {Nil}
           u == RemoveClusters(r, gone)
<1>6. t \in [1..n -> NodeTable] /\ \A i \in 1..n : DOMAIN t[i] = s[i]
  BY <1>5, NodeTables DEF Restrict
<1>7. /\ Consistent(u) /\ Live(u) = Live(r) \ gone
      /\ \A d \in Live(u) : u.m_clusters[d] = r.m_clusters[d]
  BY <1>3, RemoveClustersConsistent, RemoveClustersEffect
<1>8. OwnGroup \in SUBSET ClusterGroup /\ ClusterGroupName \in OwnGroup
  BY SimpleClusterAssumption DEF OwnGroup
<1>9. branches = {} => gone = {} /\ n = 0
  BY FS_EmptySet, <1>5 DEF Affected, Range
<1> HIDE DEF r, t, u, gone
<1>10. reg' = CreateClusters(u, OwnGroup, t)
  BY <1>4 DEF t, u, gone, r
<1>11. /\ Live(reg') = Live(u) \cup {u.m_cluster_id + i : i \in 1..n}
       /\ \A d \in Live(u) : reg'.m_clusters[d] = u.m_clusters[d]
       /\ \A i \in 1..n : /\ Members(reg'.m_clusters[u.m_cluster_id + i]) = s[i]
                          /\ reg'.m_clusters[u.m_cluster_id + i].groups = OwnGroup
  <2>1. t \in [1..n -> NodeTable] /\ n \in Nat
    BY <1>6
  <2>2. HasNewClusters(reg', u, OwnGroup, n, t)
    BY <1>7, <1>8, <1>10, <2>1, CreateClustersEffect
  <2> QED BY <1>6, <2>2 DEF HasNewClusters
<1>12. IsOwned(reg')
  <2> SUFFICES ASSUME NEW d \in Live(reg') PROVE ClusterGroupName \in reg'.m_clusters[d].groups
    BY DEF IsOwned
  <2>1. CASE d \in Live(u)
    BY <2>1, <1>3, <1>7, <1>11 DEF IsOwned
  <2>2. CASE d \notin Live(u)
    BY <2>2, <1>8, <1>11
  <2> QED BY <2>1, <2>2
<1>13. branches = {} => /\ Live(reg') = Live(reg)
                        /\ \A d \in Live(reg) : Members(reg.m_clusters[d]) \ {e.pos}
                                                  \subseteq Members(reg'.m_clusters[d])
  BY <1>3, <1>7, <1>9, <1>11
<1>14. \A b \in branches : \E d \in Live(reg') : Members(reg'.m_clusters[d]) = b
  BY <1>5, <1>11
<1> QED BY <1>12, <1>13, <1>14

LEMMA BranchesHaveNodes ==
  ASSUME NEW p, NEW walk, NEW b \in Branches(p, walk)
  PROVE  b # {} /\ b \subseteq Visible
<1>1. PICK o \in Pos : IsVisible(o) /\ b = Explore(o)
  BY DEF Branches
<1> QED BY <1>1 DEF Explore, Visible

(***************************************************************************)
(* Sequences of events.                                                    *)
(***************************************************************************)
\* t is the sequence q with the elements of T behind it.
IsExtended(t, q, T) ==
  /\ DOMAIN q \subseteq DOMAIN t /\ DOMAIN t \subseteq Nat
  /\ \A i \in DOMAIN q : t[i] = q[i]
  /\ \A i \in DOMAIN t \ DOMAIN q : t[i] \in T /\ \A j \in DOMAIN q : j < i
  /\ \A x \in T : \E i \in DOMAIN t \ DOMAIN q : t[i] = x

LEMMA ConcatIsExtended ==
  ASSUME NEW E, NEW q \in Seq(E), NEW n \in Nat, NEW s \in [1..n -> E]
  PROVE  IsExtended(q \o s, q, {s[i] : i \in 1..n})
<1>1. s \in Seq(E) /\ Len(s) = n
  BY FunctionIsSequence
<1> DEFINE t == q \o s
<1>2. /\ t \in Seq(E) /\ Len(t) = Len(q) + n
      /\ \A i \in 1..Len(q) + n : t[i] = IF i <= Len(q) THEN q[i] ELSE s[i - Len(q)]
  BY <1>1, ConcatProperties
<1>3. DOMAIN t = 1..Len(q) + n /\ DOMAIN q = 1..Len(q) /\ Len(q) \in Nat
  BY <1>2, LenProperties
<1> HIDE DEF t
<1>4. \A i \in DOMAIN q : t[i] = q[i]
  BY <1>2, <1>3
<1>5. ASSUME NEW i \in DOMAIN t \ DOMAIN q
      PROVE  t[i] \in {s[j] : j \in 1..n} /\ \A j \in DOMAIN q : j < i
  <2>1. i - Len(q) \in 1..n /\ t[i] = s[i - Len(q)]
    BY <1>2, <1>3
  <2> QED BY <2>1, <1>3
<1>6. ASSUME NEW j \in 1..n
      PROVE  \E i \in DOMAIN t \ DOMAIN q : t[i] = s[j]
  <2>1. Len(q) + j \in DOMAIN t \ DOMAIN q /\ t[Len(q) + j] = s[j]
    <3>1. Len(q) + j \in 1..Len(q) + n /\ ~(Len(q) + j <= Len(q)) /\ (Len(q) + j) - Len(q) = j
      BY <1>3
    <3> QED BY <3>1, <1>2, <1>3
  <2> QED BY <2>1
<1>7. DOMAIN q \subseteq DOMAIN t /\ DOMAIN t \subseteq Nat
  BY <1>3
<1>8. IsExtended(t, q, {s[i] : i \in 1..n})
  BY <1>4, <1>5, <1>6, <1>7 DEF IsExtended
<1> QED BY <1>8 DEF t

LEMMA AppendIsExtended ==
  ASSUME NEW E, NEW q \in Seq(E), NEW e \in E
  PROVE  IsExtended(Append(q, e), q, {e})
<1> DEFINE t == Append(q, e)
<1>1. /\ t \in Seq(E) /\ Len(t) = Len(q) + 1
      /\ \A i \in 1..Len(q) : t[i] = q[i]
      /\ t[Len(q) + 1] = e
  BY AppendProperties
<1>2. DOMAIN t = 1..Len(q) + 1 /\ DOMAIN q = 1..Len(q) /\ Len(q) \in Nat
  BY <1>1, LenProperties
<1> HIDE DEF t
<1>3. IsExtended(t, q, {e})
  BY <1>1, <1>2 DEF IsExtended
<1> QED BY <1>3 DEF t

LEMMA SameIsExtended ==
  ASSUME NEW E, NEW q \in Seq(E)
  PROVE  IsExtended(q, q, {})
BY LenProperties DEF IsExtended

LEMMA OrderIsExtended ==
  ASSUME NEW E, NEW q \in Seq(E), NEW S, IsFiniteSet(S), NEW s \in Orders(S), NEW f,
         \A x \in S : f[x] \in E
  PROVE  IsExtended(q \o [i \in DOMAIN s |-> f[s[i]]], q, {f[x] : x \in S})
<1>1. PICK n \in Nat : s \in [1..n -> S] /\ DOMAIN s = 1..n /\ {s[i] : i \in 1..n} = S
  BY OrderCovers
<1> DEFINE t == [i \in DOMAIN s |-> f[s[i]]]
<1>2. t \in [1..n -> E] /\ \A i \in 1..n : t[i] = f[s[i]]
  BY <1>1
<1>3. {t[i] : i \in 1..n} = {f[x] : x \in S}
  BY <1>1, <1>2
<1> HIDE DEF t
<1>4. IsExtended(q \o t, q, {t[i] : i \in 1..n})
  BY <1>2, ConcatIsExtended
<1> QED BY <1>3, <1>4 DEF t

\* What is left of a sequence without its first element.
LEMMA TailEntries ==
  ASSUME NEW E, NEW s \in Seq(E), s # <<>>
  PROVE  /\ 1 \in DOMAIN s /\ Head(s) = s[1] /\ DOMAIN s \subseteq Nat
         /\ \A i \in DOMAIN Tail(s) : i \in Nat /\ i + 1 \in DOMAIN s /\ Tail(s)[i] = s[i + 1]
         /\ \A i \in DOMAIN s : i # 1 => /\ i - 1 \in DOMAIN Tail(s)
                                         /\ Tail(s)[i - 1] = s[i]
<1>1. /\ Tail(s) \in Seq(E) /\ Len(Tail(s)) = Len(s) - 1
      /\ \A i \in 1..Len(Tail(s)) : Tail(s)[i] = s[i + 1]
  BY HeadTailProperties
<1>2. DOMAIN Tail(s) = 1..Len(Tail(s)) /\ DOMAIN s = 1..Len(s) /\ Len(s) \in Nat
  BY <1>1, LenProperties
<1>3. Len(s) # 0
  BY EmptySeq
<1>4. Head(s) = s[1]
  OBVIOUS
<1> QED BY <1>1, <1>2, <1>3, <1>4

(***************************************************************************)
(* No update_node event ever meets an empty group of clusters.  A device   *)
(* that is updated is a member of a cluster; until its event is handled    *)
(* either some visible node stays a member or, after a removal, is about   *)
(* to be added again; and only a cluster without members is destroyed.     *)
(***************************************************************************)
IsAdd(e) == e.name \in {"add_node", "load_node"}

Adds(q, p) == \E i \in DOMAIN q : IsAdd(q[i]) /\ q[i].pos = p

Updates(q) == \E i \in DOMAIN q : q[i].name = "update_node"

\* The removal of a node that is there again, one of V, is followed by its
\* addition.
IsUndone(q, V) ==
  \A p \in V, i \in DOMAIN q : q[i].name = "remove_node" /\ q[i].pos = p =>
    \E j \in DOMAIN q : i < j /\ IsAdd(q[j]) /\ q[j].pos = p

\* A visible node that is or will be a member when the batch is handled.
Stays(p) == IsVisible(p) /\ (p \in Registered \/ Adds(batch, p))

SafeInv ==
  /\ IInv(DeviceEvent) /\ IsOwned(reg) /\ phase # "crashed"
  /\ IsUndone(queue, Visible) /\ IsUndone(batch, Visible)
  /\ phase = "idle" => batch = <<>>
  /\ phase = "idle" /\ Updates(queue) => Live(reg) # {}
  /\ phase = "events" /\ Updates(batch) => Live(reg) # {}
  /\ phase = "events" /\ Updates(queue) => \E p \in Pos : Stays(p)

LEMMA RegisteredMembers ==
  /\ \A p : p \in Registered <=> p \in Pos /\ \E c \in Live(reg) : p \in Members(reg.m_clusters[c])
  /\ \A p : p \in Registered' <=> p \in Pos /\ \E c \in Live(reg') : p \in Members(reg'.m_clusters[c])
BY DEF Registered, Holders

LEMMA ExtendedUndone ==
  ASSUME NEW q, NEW t, NEW T, IsExtended(t, q, T), \A x \in T : x.name # "remove_node",
         NEW V, NEW W \in SUBSET V, IsUndone(q, V)
  PROVE  IsUndone(t, W)
<1> SUFFICES ASSUME NEW p \in W, NEW i \in DOMAIN t, t[i].name = "remove_node", t[i].pos = p
    PROVE \E j \in DOMAIN t : i < j /\ IsAdd(t[j]) /\ t[j].pos = p
  BY DEF IsUndone
<1>1. i \in DOMAIN q /\ t[i] = q[i]
  BY DEF IsExtended
<1>2. PICK j \in DOMAIN q : i < j /\ IsAdd(q[j]) /\ q[j].pos = p
  BY <1>1 DEF IsUndone
<1> QED BY <1>1, <1>2 DEF IsExtended

LEMMA TailUndone ==
  ASSUME NEW E, NEW q \in Seq(E), q # <<>>, NEW V, NEW W \in SUBSET V, IsUndone(q, V)
  PROVE  IsUndone(Tail(q), W)
<1> DEFINE t == Tail(q)
<1> SUFFICES ASSUME NEW p \in W, NEW i \in DOMAIN t, t[i].name = "remove_node", t[i].pos = p
    PROVE \E j \in DOMAIN t : i < j /\ IsAdd(t[j]) /\ t[j].pos = p
  BY DEF IsUndone
<1>1. i \in Nat /\ i + 1 \in DOMAIN q /\ t[i] = q[i + 1]
  BY TailEntries
<1>2. PICK j \in DOMAIN q : i + 1 < j /\ IsAdd(q[j]) /\ q[j].pos = p
  BY <1>1 DEF IsUndone
<1>3. j \in Nat
  BY TailEntries
<1>4. j # 1 /\ i < j - 1
  BY <1>1, <1>2, <1>3
<1>5. j - 1 \in DOMAIN t /\ t[j - 1] = q[j]
  BY <1>4, TailEntries
<1> QED BY <1>1, <1>2, <1>4, <1>5

\* What a handler of an event owes to SafeInv.
LEMMA HandlerIsSafe ==
  ASSUME SafeInv, IInv(DeviceEvent)', phase = "events", phase' = "events",
         batch # <<>>, batch' = Tail(batch),
         NEW T, IsExtended(queue', queue, T), \A x \in T : x.name # "remove_node",
         \A p \in Pos : IsVisible(p)' => IsVisible(p),
         IsOwned(reg'), Live(reg) # {} => Live(reg') # {},
         Updates(queue') => \E p \in Pos : Stays(p)'
  PROVE  SafeInv'
<1>1. batch \in Seq(DeviceEvent)
  BY DEF SafeInv, IInv
<1>2. Visible' \in SUBSET Visible
  BY DEF Visible
<1>3. IsUndone(queue', Visible') /\ IsUndone(batch', Visible')
  <2>1. IsUndone(queue', Visible')
    BY <1>2, ExtendedUndone DEF SafeInv
  <2> QED BY <1>1, <1>2, <2>1, TailUndone DEF SafeInv
<1>4. Updates(batch') => Updates(batch)
  BY <1>1, TailEntries DEF Updates
<1> QED BY <1>3, <1>4 DEF SafeInv, Updates, IsUndone, IsAdd

\* A node that stays goes on staying when no member is lost and the event
\* taken is not its addition.
LEMMA MembersStay ==
  ASSUME NEW E, batch \in Seq(E), batch # <<>>, batch' = Tail(batch),
         NEW p \in Pos, Stays(p), IsVisible(p)',
         p \in Registered => p \in Registered',
         IsAdd(Head(batch)) /\ Head(batch).pos = p => p \in Registered'
  PROVE  Stays(p)'
<1>1. CASE p \in Registered
  BY <1>1 DEF Stays
<1>2. CASE Adds(batch, p)
  <2>1. PICK i \in DOMAIN batch : IsAdd(batch[i]) /\ batch[i].pos = p
    BY <1>2 DEF Adds
  <2>2. CASE i = 1
    BY <2>1, <2>2, TailEntries DEF Stays
  <2>3. CASE i # 1
    <3>1. i - 1 \in DOMAIN batch' /\ batch'[i - 1] = batch[i]
      BY <2>3, TailEntries
    <3>2. Adds(batch', p)
      BY <2>1, <3>1 DEF Adds
    <3> QED BY <3>2 DEF Stays, Adds, IsAdd
  <2> QED BY <2>2, <2>3
<1> QED BY <1>1, <1>2 DEF Stays

LEMMA TakenIsSafe ==
  ASSUME SafeInv, NEW name, TakeEvent(name)
  PROVE  /\ phase = "events" /\ batch # <<>> /\ batch' = Tail(batch)
         /\ batch \in Seq(DeviceEvent) /\ queue \in Seq(DeviceEvent)
         /\ Head(batch) \in DeviceEvent /\ Head(batch).name = name
BY TakenEvent DEF TakeEvent, SafeInv, IInv

LEMMA AddDeviceIsSafe ==
  ASSUME SafeInv, HandleAddDevice
  PROVE  SafeInv'
<1>1. PICK c \in ClusterId : handle_add_node(Head(batch), c) /\ queue' = Append(queue, Refresh(c))
  BY DEF HandleAddDevice
<1>2. /\ phase = "events" /\ batch # <<>> /\ batch' = Tail(batch)
      /\ batch \in Seq(DeviceEvent) /\ queue \in Seq(DeviceEvent)
  BY TakenIsSafe DEF HandleAddDevice
<1>3. Head(batch) \in Event
  BY <1>2, DeviceEvents, TakenNodeEvent DEF HandleAddDevice, EventName
<1> DEFINE e == Head(batch)
<1>4. /\ IsOwned(reg')
      /\ \E f \in Neighbours(e.pos, e.kind) : IsJoin(reg, reg', c, Range(f), e.pos, e.kind)
  BY <1>1, <1>3, HandleAddNodeJoins DEF SafeInv, IInv
<1>5. PICK M : IsJoin(reg, reg', c, M, e.pos, e.kind)
  BY <1>4
<1>6. e.pos \in Registered' /\ \A p \in Registered : p \in Registered'
  BY <1>3, <1>5, EventFields, RegisteredMembers DEF IsJoin
<1>7. IsExtended(queue', queue, {Refresh(c)}) /\ Refresh(c).name = "refresh_controller"
  BY <1>1, <1>2, DeviceEventsAreTyped, AppendIsExtended DEF Refresh
<1>8. IInv(DeviceEvent)'
  BY HandleAddDeviceKeeps DEF SafeInv
<1>9. phase' = "events" /\ \A p : IsVisible(p)' <=> IsVisible(p)
  BY <1>2 DEF HandleAddDevice, IsVisible
<1>10. Updates(queue') => \E p \in Pos : Stays(p)'
  <2>1. Updates(queue') => Updates(queue)
    BY <1>7 DEF Updates, IsExtended
  <2>2. ASSUME NEW p \in Pos, Stays(p) PROVE Stays(p)'
    <3>1. IsVisible(p)'
      BY <2>2, <1>9 DEF Stays
    <3> QED BY <2>2, <3>1, <1>2, <1>6, MembersStay
  <2> QED BY <2>1, <2>2, <1>2 DEF SafeInv
<1>11. Live(reg') # {}
  BY <1>5 DEF IsJoin
<1> QED BY <1>2, <1>4, <1>7, <1>8, <1>9, <1>10, <1>11, HandlerIsSafe

LEMMA UpdateDeviceIsSafe ==
  ASSUME SafeInv, HandleUpdateNode
  PROVE  SafeInv'
<1>1. /\ phase = "events" /\ batch # <<>> /\ batch' = Tail(batch)
      /\ batch \in Seq(DeviceEvent) /\ queue \in Seq(DeviceEvent)
      /\ Head(batch).name = "update_node"
  BY TakenIsSafe DEF HandleUpdateNode
<1>2. Head(batch) \in Event
  BY <1>1, DeviceEvents, TakenNodeEvent DEF HandleUpdateNode, EventName
<1>3. /\ IsOwned(reg') /\ Live(reg') = Live(reg)
      /\ \A d \in Live(reg) : Members(reg'.m_clusters[d]) = Members(reg.m_clusters[d])
  BY <1>2, UpdateNodeLeaves DEF HandleUpdateNode, SafeInv, IInv
<1>4. \A p \in Registered : p \in Registered'
  BY <1>3, RegisteredMembers
<1>5. IInv(DeviceEvent)'
  BY DeviceEvents, HandleUpdateNodeKeeps DEF SafeInv
<1>6. phase' = "events" /\ queue' = queue /\ \A p : IsVisible(p)' <=> IsVisible(p)
  BY <1>1 DEF HandleUpdateNode, IsVisible
<1>7. IsExtended(queue', queue, {})
  BY <1>1, <1>6, SameIsExtended
<1>8. Updates(queue') => \E p \in Pos : Stays(p)'
  <2>1. ASSUME NEW p \in Pos, Stays(p) PROVE Stays(p)'
    <3>1. IsVisible(p)' /\ ~IsAdd(Head(batch))
      BY <2>1, <1>1, <1>6 DEF Stays, IsAdd
    <3> QED BY <2>1, <3>1, <1>1, <1>4, MembersStay
  <2> QED BY <2>1, <1>1, <1>6 DEF SafeInv
<1> QED BY <1>1, <1>3, <1>5, <1>6, <1>7, <1>8, HandlerIsSafe

LEMMA RemoveDeviceIsSafe ==
  ASSUME SafeInv, HandleRemoveDevice
  PROVE  SafeInv'
<1>1. /\ phase = "events" /\ batch # <<>> /\ batch' = Tail(batch)
      /\ batch \in Seq(DeviceEvent) /\ queue \in Seq(DeviceEvent)
      /\ Head(batch).name = "remove_node"
  BY TakenIsSafe DEF HandleRemoveDevice
<1> DEFINE e == Head(batch)
<1>2. e \in Event
  BY <1>1, DeviceEvents, TakenNodeEvent DEF HandleRemoveDevice, EventName
<1>3. PICK walk \in Walks :
        LET branches == Branches(e.pos, walk)
        IN /\ handle_remove_node(e, branches)
           /\ queue' = queue \o [i \in 1..Cardinality(branches) |-> Refresh(reg.m_cluster_id + i)]
  BY DEF HandleRemoveDevice
<1> DEFINE branches == Branches(e.pos, walk)
           n == Cardinality(branches)
           s == [i \in 1..n |-> Refresh(reg.m_cluster_id + i)]
<1>4. IsFiniteSet(branches) /\ \A b \in branches : IsTable(Restrict(world, b), Pos, Kind)
  BY BranchesAreVisible DEF SafeInv, IInv
<1>5. \A b \in branches : b # {} /\ b \subseteq Visible
  BY BranchesHaveNodes
<1> HIDE DEF branches
<1>6. /\ IsOwned(reg')
      /\ branches = {} => /\ Live(reg') = Live(reg)
                          /\ \A d \in Live(reg) : Members(reg.m_clusters[d]) \ {e.pos}
                                                    \subseteq Members(reg'.m_clusters[d])
      /\ \A b \in branches : \E d \in Live(reg') : Members(reg'.m_clusters[d]) = b
  BY <1>2, <1>3, <1>4, RemoveNodeRebuilds DEF SafeInv, IInv, branches
<1>7. n \in Nat /\ \A i \in 1..n : reg.m_cluster_id + i \in ClusterId
  BY <1>4, FS_CardinalityType DEF SafeInv, IInv, Consistent, IsRegistry, ClusterId
<1>8. s \in [1..n -> DeviceEvent] /\ \A x \in {s[i] : i \in 1..n} : x.name = "refresh_controller"
  BY <1>7, DeviceEventsAreTyped DEF Refresh
<1>9. queue' = queue \o s
  BY <1>3 DEF branches
<1> HIDE DEF n, s
<1>10. IsExtended(queue', queue, {s[i] : i \in 1..n})
  <2>1. IsExtended(queue \o s, queue, {s[i] : i \in 1..n})
    BY <1>1, <1>7, <1>8, ConcatIsExtended
  <2> QED BY <2>1, <1>9
<1>11. IInv(DeviceEvent)'
  BY HandleRemoveDeviceKeeps DEF SafeInv
<1>12. phase' = "events" /\ \A p : IsVisible(p)' <=> IsVisible(p)
  BY <1>1 DEF HandleRemoveDevice, IsVisible
<1>13. ASSUME branches # {}
       PROVE  Live(reg') # {} /\ \E p \in Pos : Stays(p)'
  <2>1. PICK b \in branches : b # {} /\ b \subseteq Visible
    BY <1>5, <1>13
  <2>2. PICK p \in b : p \in Pos /\ IsVisible(p)
    BY <2>1 DEF Visible
  <2>3. p \in Registered' /\ Live(reg') # {}
    BY <2>2, <1>6, RegisteredMembers
  <2> QED BY <2>2, <2>3, <1>12 DEF Stays
<1>14. ASSUME branches = {}, NEW p \in Pos, Stays(p)
       PROVE  Stays(p)'
  <2>0. IsVisible(p)' /\ ~IsAdd(e)
    BY <1>1, <1>12, <1>14 DEF Stays, IsAdd
  <2>1. CASE p # e.pos
    <3>1. p \in Registered => p \in Registered'
      BY <2>1, <1>6, <1>14, RegisteredMembers
    <3> QED BY <3>1, <2>0, <1>1, <1>14, MembersStay
  <2>2. CASE p = e.pos
    <3>1. 1 \in DOMAIN batch /\ batch[1] = e
      BY <1>1, TailEntries
    <3>2. IsVisible(p) /\ batch[1].pos = p /\ batch[1].name = "remove_node"
      BY <2>2, <3>1, <1>1, <1>14 DEF Stays
    <3>3. PICK j \in DOMAIN batch : 1 < j /\ IsAdd(batch[j]) /\ batch[j].pos = p
      BY <3>1, <3>2, <1>14 DEF SafeInv, IsUndone, Stays, Visible
    <3>4. j - 1 \in DOMAIN batch' /\ batch'[j - 1] = batch[j]
      BY <3>3, <1>1, TailEntries
    <3>5. Adds(batch', p)
      BY <3>3, <3>4 DEF Adds
    <3> QED BY <3>5, <2>0 DEF Stays, Adds, IsAdd
  <2> QED BY <2>1, <2>2
<1>15. Updates(queue') => \E p \in Pos : Stays(p)'
  <2>1. Updates(queue') => Updates(queue)
    BY <1>8, <1>10 DEF Updates, IsExtended
  <2> QED BY <2>1, <1>1, <1>13, <1>14 DEF SafeInv
<1>16. Live(reg) # {} => Live(reg') # {}
  BY <1>6, <1>13
<1>17. \A x \in {s[i] : i \in 1..n} : x.name # "remove_node"
  BY <1>8
<1> QED BY <1>1, <1>6, <1>10, <1>11, <1>12, <1>15, <1>16, <1>17, HandlerIsSafe

\* A change of the assigns of one cluster.
LEMMA SetAssignsLeaves ==
  ASSUME NEW r, Consistent(r), IsOwned(r), NEW c \in Live(r), NEW a
  PROVE  /\ IsOwned(SetAssigns(r, c, a)) /\ Live(SetAssigns(r, c, a)) = Live(r)
         /\ \A d \in Live(r) : Members(SetAssigns(r, c, a).m_clusters[d]) = Members(r.m_clusters[d])
<1> DEFINE k == [r.m_clusters[c] EXCEPT !.assigns = a]
           n == SetAssigns(r, c, a)
<1>1. r.m_clusters[c] \in Cluster
  BY RegistryClusters DEF Consistent
<1>2. /\ Live(n) = Live(r)
      /\ \A d \in Live(r) \ {c} : n.m_clusters[d] = r.m_clusters[d]
      /\ n.m_clusters[c] = k
  BY RegistryTables DEF SetAssigns, IsTables, Live
<1>3. k.groups = r.m_clusters[c].groups /\ Members(k) = Members(r.m_clusters[c])
  BY <1>1, AssignsLeaveNodes
<1> HIDE DEF k, n
<1>4. IsOwned(n) /\ \A d \in Live(r) : Members(n.m_clusters[d]) = Members(r.m_clusters[d])
  BY <1>2, <1>3 DEF IsOwned
<1> QED BY <1>2, <1>4 DEF n

LEMMA ElectionOutcomes ==
  ASSUME NEW k, NEW e \in Elections(k)
  PROVE  e.state \in DeviceState /\ e.controller \in Members(k) \cup {Nil}
<1>1. Leaders(k) \subseteq Members(k)
  BY DEF Leaders, Controllers
<1> QED BY <1>1, DeviceAssumption DEF Elections

\* The cluster c elects e and an event for its state is scheduled.
IsRefresh(c, e) ==
  /\ c \in Live(reg) /\ Head(batch) = Refresh(c)
  /\ e \in Elections(reg.m_clusters[c])
  /\ reg' = SetAssigns(reg, c, [reg.m_clusters[c].assigns EXCEPT !.generation_id = TRUE,
                                                                !.controller_id = e.controller])
  /\ queue' = Append(queue, Transition(c, e.state))
  /\ IsExtended(queue', queue, {Transition(c, e.state)})

LEMMA RefreshEffect ==
  ASSUME IInv(DeviceEvent), HandleRefresh
  PROVE  \E e : IsRefresh(Head(batch).cluster_id, e)
<1> DEFINE c == Head(batch).cluster_id
           k == reg.m_clusters[c]
<1>1. PICK e \in Elections(k) :
        /\ reg' = SetAssigns(reg, c, [k.assigns EXCEPT !.generation_id = TRUE,
                                                       !.controller_id = e.controller])
        /\ queue' = Append(queue, Transition(c, e.state))
  BY DEF HandleRefresh
<1>2. /\ Head(batch) \in DeviceEvent /\ Head(batch).name = "refresh_controller"
      /\ c \in Live(reg)
  BY TakenEvent DEF HandleRefresh, IInv
<1>3. Head(batch) = Refresh(c)
  BY <1>2 DEF DeviceEvent, Event, EventName, Refresh
<1>4. c \in ClusterId
  BY <1>2, RegistryClusters DEF IInv, Consistent
<1>5. e.state \in DeviceState
  <2> HIDE DEF k
  <2> QED BY <1>1, ElectionOutcomes
<1> DEFINE t == Transition(c, e.state)
<1>6. t \in DeviceEvent /\ queue' = Append(queue, t)
  BY <1>1, <1>4, <1>5, DeviceEventsAreTyped
<1> HIDE DEF t
<1>7. IsExtended(Append(queue, t), queue, {t})
  BY <1>6, AppendIsExtended DEF IInv
<1>8. IsExtended(queue', queue, {t})
  BY <1>6, <1>7
<1> HIDE DEF c
<1>9. IsRefresh(c, e)
  BY <1>1, <1>2, <1>3, <1>6, <1>8 DEF t, IsRefresh
<1> QED BY <1>9 DEF c

LEMMA RefreshExtends ==
  ASSUME SafeInv, HandleRefresh
  PROVE  \E T : IsExtended(queue', queue, T) /\ \A x \in T : x.name = "transition_state"
<1>1. PICK e : IsRefresh(Head(batch).cluster_id, e)
  BY RefreshEffect DEF SafeInv
<1> QED BY <1>1 DEF IsRefresh, Transition

LEMMA RefreshIsSafe ==
  ASSUME SafeInv, HandleRefresh \/ HandleRefreshSkipped \/ HandleTransitionSkipped
  PROVE  SafeInv'
<1>1. /\ phase = "events" /\ batch # <<>> /\ batch' = Tail(batch)
      /\ batch \in Seq(DeviceEvent) /\ queue \in Seq(DeviceEvent)
      /\ Head(batch) \in DeviceEvent
      /\ Head(batch).name \in {"refresh_controller", "transition_state"}
  BY TakenIsSafe DEF HandleRefresh, HandleRefreshSkipped, HandleTransitionSkipped
<1>2. phase' = "events" /\ \A p : IsVisible(p)' <=> IsVisible(p)
  BY <1>1 DEF HandleRefresh, HandleRefreshSkipped, HandleTransitionSkipped, IsVisible
<1>3. IInv(DeviceEvent)'
  BY HandleRefreshKeeps, HandleTransitionKeeps DEF SafeInv
<1>4. /\ IsOwned(reg') /\ Live(reg') = Live(reg)
      /\ \A d \in Live(reg) : Members(reg'.m_clusters[d]) = Members(reg.m_clusters[d])
  <2>1. CASE HandleRefresh
    <3> DEFINE c == Head(batch).cluster_id
    <3>1. c \in Live(reg) /\ \E a : reg' = SetAssigns(reg, c, a)
      BY <2>1 DEF HandleRefresh
    <3> HIDE DEF c
    <3> QED BY <3>1, SetAssignsLeaves DEF SafeInv, IInv
  <2>2. CASE HandleRefreshSkipped \/ HandleTransitionSkipped
    BY <2>2 DEF HandleRefreshSkipped, HandleTransitionSkipped, SafeInv
  <2> QED BY <2>1, <2>2
<1>5. \E T : IsExtended(queue', queue, T) /\ \A x \in T : x.name = "transition_state"
  <2>1. CASE HandleRefresh
    BY <2>1, RefreshExtends
  <2>2. CASE HandleRefreshSkipped \/ HandleTransitionSkipped
    BY <2>2, <1>1, SameIsExtended DEF HandleRefreshSkipped, HandleTransitionSkipped
  <2> QED BY <2>1, <2>2
<1>6. PICK T : IsExtended(queue', queue, T) /\ \A x \in T : x.name = "transition_state"
  BY <1>5
<1>7. \A p \in Registered : p \in Registered'
  BY <1>4, RegisteredMembers
<1>8. Updates(queue') => \E p \in Pos : Stays(p)'
  <2>1. Updates(queue') => Updates(queue)
    BY <1>6 DEF Updates, IsExtended
  <2>2. ASSUME NEW p \in Pos, Stays(p) PROVE Stays(p)'
    <3>1. IsVisible(p)' /\ ~IsAdd(Head(batch))
      BY <2>2, <1>1, <1>2 DEF Stays, IsAdd
    <3> QED BY <2>2, <3>1, <1>1, <1>7, MembersStay
  <2> QED BY <2>1, <2>2, <1>1 DEF SafeInv
<1> QED BY <1>1, <1>2, <1>3, <1>4, <1>6, <1>8, HandlerIsSafe

\* The devices of the cluster c take the names chosen for a state, and an
\* update is scheduled for each that changes; all are visible members.
Changing(name) == {p \in DOMAIN name : name[p] # world[p]}

Renaming(p, name) == [name |-> "update_node", pos |-> p, kind |-> name[p]]

IsTransition(c, state, name) ==
  LET k == reg.m_clusters[c]
  IN /\ c \in Live(reg) /\ state \in DeviceState /\ Head(batch) = Transition(c, state)
     /\ reg' = SetAssigns(reg, c, [k.assigns EXCEPT !.state = state])
     /\ IsExtended(queue', queue, {Renaming(p, name) : p \in Changing(name)})
     /\ world' = [p \in Pos |-> IF p \in Changing(name) THEN name[p] ELSE world[p]]
     /\ \A p \in DOMAIN name :
          /\ p \in Pos /\ p \in Members(k) /\ IsVisible(p) /\ world[p] \in Kind
          /\ name[p] \in Kind /\ name[p] \in VariantOf[world[p]][state]
     /\ \A p \in Members(k) : IsVisible(p) /\ VariantOf[world[p]][state] # {} => p \in DOMAIN name

LEMMA TransitionEffect ==
  ASSUME IInv(DeviceEvent), HandleTransition
  PROVE  \E name : IsTransition(Head(batch).cluster_id, Head(batch).state, name)
<1> DEFINE c == Head(batch).cluster_id
           state == Head(batch).state
           k == reg.m_clusters[c]
<1>1. /\ Head(batch) \in DeviceEvent /\ Head(batch).name = "transition_state"
  BY TakenEvent DEF HandleTransition, IInv
<1>2. state \in DeviceState /\ Head(batch) = Transition(c, state)
  BY <1>1 DEF DeviceEvent, Event, EventName, Transition
<1>3. /\ c \in Live(reg) /\ reg' = SetAssigns(reg, c, [k.assigns EXCEPT !.state = state])
  BY DEF HandleTransition
<1>4. PICK name \in Names(k, state) :
        LET changing == {p \in DOMAIN name : name[p] # world[p]}
            Updated(p) == [name |-> "update_node", pos |-> p, kind |-> name[p]]
        IN /\ world' = [p \in Pos |-> IF p \in changing THEN name[p] ELSE world[p]]
           /\ \E s \in Orders(changing) :
                queue' = queue \o [i \in DOMAIN s |-> Updated(s[i])]
  BY Zenon DEF HandleTransition
<1>5. /\ world' = [p \in Pos |-> IF p \in Changing(name) THEN name[p] ELSE world[p]]
      /\ \E s \in Orders(Changing(name)) :
           queue' = queue \o [i \in DOMAIN s |-> Renaming(s[i], name)]
  BY <1>4 DEF Changing, Renaming
<1>6. PICK s \in Orders(Changing(name)) : queue' = queue \o [i \in DOMAIN s |-> Renaming(s[i], name)]
  BY <1>5
<1>7. /\ \A p \in DOMAIN name :
           /\ p \in Pos /\ p \in Members(k) /\ IsVisible(p) /\ world[p] \in Kind
           /\ name[p] \in Kind /\ name[p] \in VariantOf[world[p]][state]
      /\ \A p \in Members(k) : IsVisible(p) /\ VariantOf[world[p]][state] # {} => p \in DOMAIN name
      /\ IsFiniteSet(DOMAIN name)
  BY <1>2, <1>3, <1>4, NamesAreVariants
<1> DEFINE C == Changing(name)
<1>8. C \subseteq DOMAIN name /\ IsFiniteSet(C)
  BY <1>7, FS_Subset DEF Changing
<1> HIDE DEF C
<1> DEFINE f == [p \in C |-> Renaming(p, name)]
<1>9. \A p \in C : f[p] = Renaming(p, name) /\ f[p] \in DeviceEvent
  BY <1>7, <1>8, DeviceEvents, EventIsTyped DEF EventName, Renaming
<1>10. /\ [i \in DOMAIN s |-> Renaming(s[i], name)] = [i \in DOMAIN s |-> f[s[i]]]
       /\ {f[p] : p \in C} = {Renaming(p, name) : p \in C}
  <2>1. \A i \in DOMAIN s : s[i] \in C
    BY <1>8, OrderIsSequence DEF C
  <2> QED BY <2>1
<1> HIDE DEF f
<1>11. IsExtended(queue \o [i \in DOMAIN s |-> f[s[i]]], queue, {f[p] : p \in C})
  BY <1>8, <1>9, OrderIsExtended DEF IInv, C
<1>12. IsExtended(queue', queue, {Renaming(p, name) : p \in C})
  BY <1>6, <1>10, <1>11
<1> HIDE DEF c, state
<1>13. IsTransition(c, state, name)
  BY <1>2, <1>3, <1>5, <1>7, <1>12 DEF C, IsTransition
<1> QED BY <1>13 DEF c, state

Shares(k, v) ==
  /\ GroupsOf[v] = GroupsOf[k] /\ TierOf[v] = TierOf[k] /\ ColorOf[v] = ColorOf[k]
  /\ VariantOf[v] = VariantOf[k] /\ OwnNames[v] = OwnNames[k]

\* The names of a device have what its election and its neighbours look at.
LEMMA VariantsShare ==
  /\ \A k \in Kind, state \in DeviceState : \A v \in VariantOf[k][state] : Shares(k, v)
  /\ \A k \in Kind : \A v \in OwnNames[k] : Shares(k, v)
<1>1. ASSUME NEW k \in Kind, NEW v \in Variants(k) PROVE Shares(k, v)
  BY VariantAssumption DEF VariantsAreAlike, Shares
<1>2. \A k \in Kind, state \in DeviceState : VariantOf[k][state] \subseteq Variants(k)
  BY DEF Variants
<1>3. \A k \in Kind : OwnNames[k] \subseteq Variants(k)
  BY DEF Variants
<1> QED BY <1>1, <1>2, <1>3

LEMMA TransitionIsSafe ==
  ASSUME SafeInv, HandleTransition
  PROVE  SafeInv'
<1> DEFINE c == Head(batch).cluster_id
           state == Head(batch).state
           k == reg.m_clusters[c]
           a == [k.assigns EXCEPT !.state = state]
<1>1. /\ phase = "events" /\ batch # <<>> /\ batch' = Tail(batch)
      /\ batch \in Seq(DeviceEvent) /\ queue \in Seq(DeviceEvent)
      /\ Head(batch).name = "transition_state"
  BY TakenIsSafe DEF HandleTransition
<1>2. PICK name : IsTransition(c, state, name)
  BY TransitionEffect DEF SafeInv
<1> DEFINE T == {Renaming(p, name) : p \in Changing(name)}
<1>3. /\ c \in Live(reg) /\ reg' = SetAssigns(reg, c, a)
      /\ IsExtended(queue', queue, T)
      /\ world' = [p \in Pos |-> IF p \in Changing(name) THEN name[p] ELSE world[p]]
      /\ \A p \in Changing(name) :
           p \in Pos /\ p \in Members(k) /\ IsVisible(p) /\ name[p] \in Kind
  BY <1>2 DEF IsTransition, Changing
<1> HIDE DEF c, state, a
<1>4. phase' = "events" /\ loaded' = loaded
  BY <1>1 DEF HandleTransition
<1>5. \A p \in Pos : IsVisible(p)' <=> IsVisible(p)
  <2> SUFFICES ASSUME NEW p \in Pos PROVE IsVisible(p)' <=> IsVisible(p)
    OBVIOUS
  <2>1. world'[p] # Air <=> world[p] # Air
    <3>1. CASE p \in Changing(name)
      BY <1>3, <3>1, SimpleClusterAssumption DEF IsVisible
    <3>2. CASE p \notin Changing(name)
      BY <1>3, <3>2
    <3> QED BY <3>1, <3>2
  <2> QED BY <2>1, <1>4 DEF IsVisible
<1> HIDE DEF k
<1>6. k \in Cluster /\ Members(k) \subseteq Pos
  BY <1>3, RegistryClusters DEF SafeInv, IInv, Consistent, k
<1>7. /\ IsOwned(reg') /\ Live(reg') = Live(reg)
      /\ \A d \in Live(reg) : Members(reg'.m_clusters[d]) = Members(reg.m_clusters[d])
  BY <1>3, SetAssignsLeaves DEF SafeInv, IInv
<1>8. \A p \in Registered : p \in Registered'
  BY <1>7, RegisteredMembers
<1>9. IInv(DeviceEvent)'
  BY HandleTransitionKeeps DEF SafeInv
<1>10. \A x \in T : x.name = "update_node"
  BY DEF Renaming
<1>11. Updates(queue') => \E p \in Pos : Stays(p)'
  <2>1. CASE Changing(name) = {}
    <3>1. T = {}
      BY <2>1
    <3>2. Updates(queue') => Updates(queue)
      BY <1>3, <3>1 DEF Updates, IsExtended
    <3>3. ASSUME NEW p \in Pos, Stays(p) PROVE Stays(p)'
      <4>1. IsVisible(p)' /\ ~IsAdd(Head(batch))
        BY <3>3, <1>1, <1>5 DEF Stays, IsAdd
      <4> QED BY <3>3, <4>1, <1>1, <1>8, MembersStay
    <3> QED BY <3>2, <3>3, <1>1 DEF SafeInv
  <2>2. ASSUME NEW p \in Changing(name) PROVE p \in Pos /\ Stays(p)'
    <3>1. p \in Pos /\ IsVisible(p)' /\ p \in Members(reg.m_clusters[c])
      BY <2>2, <1>3, <1>5 DEF k
    <3>2. p \in Registered'
      BY <3>1, <1>3, <1>8, RegisteredMembers
    <3> QED BY <3>1, <3>2 DEF Stays
  <2> QED BY <2>1, <2>2
<1> HIDE DEF T
<1> QED BY <1>1, <1>3, <1>4, <1>5, <1>7, <1>9, <1>10, <1>11, HandlerIsSafe

\* The ends of the update.
LEMMA EndUpdateIsSafe ==
  ASSUME SafeInv, EndUpdate \/ EndShortUpdate
  PROVE  SafeInv'
<1>1. /\ phase = "events" /\ batch = <<>> /\ phase' = "idle"
      /\ UNCHANGED <<world, loaded, queue, batch>>
  BY DEF EndUpdate, EndShortUpdate
<1>2. IInv(DeviceEvent)'
  BY EndUpdateKeeps DEF SafeInv
<1>3. IsUndone(queue', Visible') /\ IsUndone(batch', Visible')
  BY <1>1 DEF SafeInv, Visible, IsVisible
<1>4. CASE EndShortUpdate
  <2>1. reg' = reg
    BY <1>4 DEF EndShortUpdate
  <2>2. Updates(queue) => Live(reg) # {}
    BY <1>1, <2>1, RegisteredMembers DEF SafeInv, Stays, Adds
  <2> QED BY <1>1, <1>2, <1>3, <2>1, <2>2 DEF SafeInv, Updates, IsUndone, IsAdd
<1>5. CASE EndUpdate
  <2> DEFINE empty == {c \in Live(reg) : IsEmpty(reg.m_clusters[c])}
  <2>1. PICK c \in OrNil(empty) : reg' = IF c = Nil THEN reg ELSE RemoveClusters(reg, {c})
    BY <1>5 DEF EndUpdate, DestroyEmptyCluster
  <2>2. Consistent(reg)
    BY DEF SafeInv, IInv
  <2>3. c = Nil \/ (c \in Live(reg) /\ IsEmpty(reg.m_clusters[c]))
    BY <2>1 DEF OrNil
  <2>4. /\ \A d \in Live(reg') : d \in Live(reg) /\ reg'.m_clusters[d] = reg.m_clusters[d]
        /\ \A d \in Live(reg) : d = c \/ d \in Live(reg')
    <3>1. CASE c = Nil
      BY <2>1, <3>1
    <3>2. CASE c # Nil
      BY <2>1, <2>2, <3>2, RemoveClustersConsistent, RemoveClustersEffect
    <3> QED BY <3>1, <3>2
  <2>5. IsOwned(reg')
    BY <2>4 DEF SafeInv, IsOwned
  <2>6. Updates(queue) => Live(reg') # {}
    <3> SUFFICES ASSUME Updates(queue) PROVE Live(reg') # {}
      OBVIOUS
    <3>1. PICK p \in Pos : p \in Registered
      BY <1>1 DEF SafeInv, Stays, Adds
    <3>2. PICK d \in Live(reg) : p \in Members(reg.m_clusters[d])
      BY <3>1, RegisteredMembers
    <3>3. ~IsEmpty(reg.m_clusters[d])
      BY <3>2 DEF IsEmpty
    <3>4. c = Nil => Live(reg') = Live(reg)
      BY <2>1
    <3> QED BY <3>2, <3>3, <3>4, <2>3, <2>4
  <2> QED BY <1>1, <1>2, <1>3, <2>5, <2>6 DEF SafeInv, Updates, IsUndone, IsAdd
<1> QED BY <1>4, <1>5, <1>1

\* The members in expired blocks leave, and nothing else changes.
LEMMA UpdateActiveBlocksEffect ==
  ASSUME NEW r, Consistent(r), NEW present, NEW limit \in Nat, NEW c \in Live(r)
  PROVE  LET n == UpdateActiveBlocks(r, present, limit)
         IN /\ n.m_clusters[c] = OnBlocksExpired(r.m_clusters[c], ExpiredBlocks(r, present, limit))
            /\ n.m_clusters[c].groups = r.m_clusters[c].groups
<1> DEFINE B == ExpiredBlocks(r, present, limit)
           k == OnBlocksExpired(r.m_clusters[c], B)
<1>1. UpdateActiveBlocks(r, present, limit).m_clusters[c] = k
  BY RegistryTables DEF UpdateActiveBlocks, IsTables, Live
<1>2. r.m_clusters[c] \in Cluster /\ ClusterAgrees(r.m_clusters[c])
  BY RegistryClusters DEF Consistent
<1>3. B \in SUBSET Block
  BY RegistryTables DEF ExpiredBlocks, StaleBlocks, IsRegistry, IsTable
<1>4. k.groups = r.m_clusters[c].groups
  BY <1>2, <1>3, BlocksExpiredAgrees
<1> QED BY <1>1, <1>4

LEMMA BeginUpdateIsSafe ==
  ASSUME SafeInv, BeginUpdate
  PROVE  SafeInv'
<1> DEFINE u == UpdateActiveBlocks(reg, loaded, BlockTimeout)
<1>1. /\ phase = "idle" /\ phase' = "events" /\ batch' = queue /\ queue' = <<>>
      /\ reg' = AgeGenerations(u) /\ UNCHANGED <<world, loaded>>
  BY DEF BeginUpdate
<1>2. IInv(DeviceEvent)' /\ Consistent(u) /\ Consistent(reg)
  BY BeginUpdateKeeps, UpdateActiveBlocksConsistent, RegistryAssumption DEF SafeInv, IInv
<1>3. Live(u) = Live(reg) /\ \A c \in Live(reg) : u.m_clusters[c].groups = reg.m_clusters[c].groups
  <2> SUFFICES ASSUME NEW c \in Live(reg) PROVE u.m_clusters[c].groups = reg.m_clusters[c].groups
    BY <1>2, UpdateActiveBlocksConsistent, RegistryAssumption
  <2> QED BY <1>2, UpdateActiveBlocksEffect, SimpleClusterAssumption, RegistryAssumption
<1> HIDE DEF u
<1>4. Live(reg') = Live(u) /\ \A c \in Live(u) : reg'.m_clusters[c].groups = u.m_clusters[c].groups
  <2>1. \A c \in Live(u) : u.m_clusters[c] \in Cluster
    BY <1>2, RegistryClusters DEF Consistent
  <2>2. \A c \in Live(u) : reg'.m_clusters[c] = [u.m_clusters[c] EXCEPT !.assigns.generation_id = FALSE]
    BY <1>1, <1>2, AgeGenerationsEffect
  <2> QED BY <1>1, <1>2, <2>1, <2>2, AgeGenerationsEffect DEF Cluster
<1>5. IsOwned(reg')
  BY <1>3, <1>4 DEF SafeInv, IsOwned
<1>6. IsUndone(queue', Visible') /\ IsUndone(batch', Visible')
  <2>1. Visible' = Visible
    BY <1>1 DEF Visible, IsVisible
  <2> QED BY <1>1, <2>1 DEF SafeInv, IsUndone
<1> QED BY <1>1, <1>2, <1>3, <1>4, <1>5, <1>6 DEF SafeInv, Updates, IsUndone, IsAdd

\* The world acts between two updates.
LEMMA WorldIsSafe ==
  ASSUME SafeInv, phase = "idle", IInv(DeviceEvent)', UNCHANGED <<reg, batch, phase>>,
         IsUndone(queue', Visible'), Updates(queue') => Updates(queue)
  PROVE  SafeInv'
BY DEF SafeInv, Updates, IsUndone, IsAdd

LEMMA PlaceNodeIsSafe ==
  ASSUME SafeInv, NEW p \in Pos, NEW kind \in Kind, PlaceNode(p, kind)
  PROVE  SafeInv'
<1> DEFINE e == [name |-> "add_node", pos |-> p, kind |-> kind]
<1>1. /\ phase = "idle" /\ UNCHANGED <<reg, loaded, batch, phase>>
      /\ world' = [world EXCEPT ![p] = kind] /\ queue' = Append(queue, e)
  BY DEF PlaceNode, MayAct, Schedule
<1>2. IInv(DeviceEvent)'
  BY DeviceEvents, PlaceNodeKeeps DEF SafeInv
<1>3. queue \in Seq(DeviceEvent) /\ e \in DeviceEvent /\ world \in [Pos -> Kind \cup {Air}]
  BY DeviceEvents, EventIsTyped DEF SafeInv, IInv, WorldInv, EventName
<1>4. e.name = "add_node" /\ e.pos = p
  OBVIOUS
<1> HIDE DEF e
<1>5. IsExtended(queue', queue, {e})
  BY <1>1, <1>3, AppendIsExtended
<1>6. \A q \in Pos : q # p => (IsVisible(q)' <=> IsVisible(q))
  BY <1>1, <1>3 DEF IsVisible
<1>7. IsUndone(queue', Visible')
  <2> SUFFICES ASSUME NEW q \in Visible', NEW i \in DOMAIN queue',
                      queue'[i].name = "remove_node", queue'[i].pos = q
      PROVE \E j \in DOMAIN queue' : i < j /\ IsAdd(queue'[j]) /\ queue'[j].pos = q
    BY DEF IsUndone, IsAdd
  <2>1. q \in Pos /\ i \in DOMAIN queue /\ queue'[i] = queue[i]
    BY <1>4, <1>5 DEF IsExtended, Visible
  <2>2. CASE q = p
    BY <1>4, <1>5, <2>1, <2>2 DEF IsExtended, IsAdd
  <2>3. CASE q # p
    <3>1. q \in Visible
      BY <1>6, <2>1, <2>3 DEF Visible
    <3>2. PICK j \in DOMAIN queue : i < j /\ IsAdd(queue[j]) /\ queue[j].pos = q
      BY <2>1, <3>1 DEF SafeInv, IsUndone
    <3> QED BY <3>2, <1>5 DEF IsExtended
  <2> QED BY <2>2, <2>3
<1>8. Updates(queue') => Updates(queue)
  BY <1>4, <1>5 DEF Updates, IsExtended
<1> QED BY <1>1, <1>2, <1>7, <1>8, WorldIsSafe

LEMMA DigNodeIsSafe ==
  ASSUME SafeInv, NEW p \in Pos, DigNode(p)
  PROVE  SafeInv'
<1> DEFINE e == [name |-> "remove_node", pos |-> p, kind |-> world[p]]
<1>1. /\ phase = "idle" /\ UNCHANGED <<reg, loaded, batch, phase>> /\ IsVisible(p)
      /\ world' = [world EXCEPT ![p] = Air] /\ queue' = Append(queue, e)
  BY DEF DigNode, MayAct, Schedule
<1>2. IInv(DeviceEvent)'
  BY DeviceEvents, DigNodeKeeps DEF SafeInv
<1>3. world \in [Pos -> Kind \cup {Air}] /\ queue \in Seq(DeviceEvent)
  BY DEF SafeInv, IInv, WorldInv
<1>4. e \in DeviceEvent /\ e.name = "remove_node" /\ e.pos = p
  BY <1>1, <1>3, DeviceEvents, EventIsTyped DEF EventName, IsVisible
<1> HIDE DEF e
<1>5. IsExtended(queue', queue, {e})
  BY <1>1, <1>3, <1>4, AppendIsExtended
<1>6. \A q \in Visible' : q # p /\ q \in Visible
  BY <1>1, <1>3 DEF Visible, IsVisible
<1>7. IsUndone(queue', Visible')
  <2> SUFFICES ASSUME NEW q \in Visible', NEW i \in DOMAIN queue',
                      queue'[i].name = "remove_node", queue'[i].pos = q
      PROVE \E j \in DOMAIN queue' : i < j /\ IsAdd(queue'[j]) /\ queue'[j].pos = q
    BY DEF IsUndone, IsAdd
  <2>1. q \in Visible /\ i \in DOMAIN queue /\ queue'[i] = queue[i]
    BY <1>4, <1>5, <1>6 DEF IsExtended
  <2>2. PICK j \in DOMAIN queue : i < j /\ IsAdd(queue[j]) /\ queue[j].pos = q
    BY <2>1 DEF SafeInv, IsUndone
  <2> QED BY <2>2, <1>5 DEF IsExtended
<1>8. Updates(queue') => Updates(queue)
  BY <1>4, <1>5 DEF Updates, IsExtended
<1> QED BY <1>1, <1>2, <1>7, <1>8, WorldIsSafe

\* The nodes that become visible again with a block are added again.
LEMMA BlockIsSafe ==
  ASSUME SafeInv, NEW b \in Block, UnloadBlock(b) \/ ActivateBlock(b)
  PROVE  SafeInv'
<1>1. phase = "idle" /\ UNCHANGED <<reg, world, batch, phase>>
  BY DEF UnloadBlock, ActivateBlock, MayAct
<1>2. IInv(DeviceEvent)' /\ WorldInv /\ queue \in Seq(DeviceEvent)
  BY DeviceEvents, BlockKeeps DEF SafeInv, IInv
<1>3. CASE UnloadBlock(b)
  <2>1. Visible' \subseteq Visible /\ queue' = queue
    BY <1>1, <1>3 DEF UnloadBlock, Visible, IsVisible
  <2>2. IsUndone(queue', Visible')
    BY <2>1 DEF SafeInv, IsUndone
  <2> QED BY <1>1, <1>2, <2>1, <2>2, WorldIsSafe
<1>4. CASE ActivateBlock(b)
  <2> DEFINE nodes == {p \in Pos : BlockOf[p] = b /\ world[p] # Air}
             f == [p \in nodes |-> [name |-> "load_node", pos |-> p, kind |-> world[p]]]
  <2>1. nodes \subseteq Devices(world) /\ IsFiniteSet(nodes)
    BY <1>2, FS_Subset DEF Devices, WorldInv
  <2>2. PICK s \in Orders(nodes) :
          queue' = queue \o [i \in DOMAIN s |-> [name |-> "load_node", pos |-> s[i], kind |-> world[s[i]]]]
    BY <1>4, Zenon DEF ActivateBlock
  <2>3. \A i \in DOMAIN s : s[i] \in nodes
    BY <2>1, OrderIsSequence
  <2>4. [i \in DOMAIN s |-> [name |-> "load_node", pos |-> s[i], kind |-> world[s[i]]]]
          = [i \in DOMAIN s |-> f[s[i]]]
    BY <2>3
  <2>5. \A p \in nodes : f[p] \in DeviceEvent /\ f[p].name = "load_node" /\ f[p].pos = p
    BY <1>2, DeviceEvents, EventIsTyped DEF WorldInv, EventName
  <2>6. Visible' \subseteq Visible \cup nodes
    BY <1>1, <1>4 DEF ActivateBlock, Visible, IsVisible
  <2> DEFINE T == {f[p] : p \in nodes}
  <2> HIDE DEF nodes, f
  <2>7. IsExtended(queue', queue, T)
    <3>1. IsExtended(queue \o [i \in DOMAIN s |-> f[s[i]]], queue, {f[p] : p \in nodes})
      BY <1>2, <2>1, <2>5, OrderIsExtended
    <3> QED BY <3>1, <2>2, <2>4
  <2>8. /\ \A x \in T : x.name = "load_node"
        /\ \A p \in nodes : f[p] \in T /\ f[p].name = "load_node" /\ f[p].pos = p
    BY <2>5
  <2> HIDE DEF T
  <2>9. IsUndone(queue', Visible')
    <3> SUFFICES ASSUME NEW q \in Visible', NEW i \in DOMAIN queue',
                        queue'[i].name = "remove_node", queue'[i].pos = q
        PROVE \E j \in DOMAIN queue' : i < j /\ IsAdd(queue'[j]) /\ queue'[j].pos = q
      BY DEF IsUndone, IsAdd
    <3>1. i \in DOMAIN queue /\ queue'[i] = queue[i]
      BY <2>7, <2>8 DEF IsExtended
    <3>2. CASE q \in nodes
      <4>1. PICK j \in DOMAIN queue' \ DOMAIN queue : queue'[j] = f[q]
        BY <2>7, <2>8, <3>2 DEF IsExtended
      <4>2. i < j
        BY <2>7, <3>1 DEF IsExtended
      <4> QED BY <2>8, <3>2, <4>1, <4>2 DEF IsAdd
    <3>3. CASE q \in Visible
      <4>1. PICK j \in DOMAIN queue : i < j /\ IsAdd(queue[j]) /\ queue[j].pos = q
        BY <3>1, <3>3 DEF SafeInv, IsUndone
      <4> QED BY <4>1, <2>7 DEF IsExtended
    <3> QED BY <3>2, <3>3, <2>6
  <2>10. Updates(queue') => Updates(queue)
    BY <2>7, <2>8 DEF Updates, IsExtended
  <2> QED BY <1>1, <1>2, <2>9, <2>10, WorldIsSafe
<1> QED BY <1>3, <1>4

\* The update of a node always finds a cluster.
LEMMA UpdateFindsCluster == SafeInv => ~HandleUpdateNodeCrash
<1> SUFFICES ASSUME SafeInv, HandleUpdateNodeCrash PROVE FALSE
  OBVIOUS
<1>1. /\ phase = "events" /\ batch # <<>> /\ batch \in Seq(DeviceEvent)
      /\ Head(batch).name = "update_node"
  BY TakenIsSafe DEF HandleUpdateNodeCrash
<1>2. Updates(batch)
  BY <1>1, TailEntries DEF Updates
<1>3. ClustersOfGroup(reg, ClusterGroupName) = Live(reg)
  BY OwnedClusters DEF SafeInv, IInv
<1> QED BY <1>1, <1>2, <1>3 DEF SafeInv, HandleUpdateNodeCrash

LEMMA InitIsSafe == Init => SafeInv
<1> SUFFICES ASSUME Init PROVE SafeInv
  OBVIOUS
<1>1. IInv(DeviceEvent)
  BY InitIInv
<1>2. Live(reg) = {} /\ queue = <<>> /\ batch = <<>> /\ phase = "idle"
  BY DEF Init, EmptyRegistry, Live
<1> QED BY <1>1, <1>2 DEF SafeInv, IsOwned, IsUndone, Updates

\* A device that works and is a member of a cluster is one that stays.
LEMMA WorkIsSafe ==
  ASSUME SafeInv, NEW p \in Pos, NEW kind \in Kind, Work(p, kind), p \in Registered
  PROVE  SafeInv'
<1> DEFINE e == [name |-> "update_node", pos |-> p, kind |-> kind]
<1>1. /\ phase = "events" /\ batch = <<>> /\ UNCHANGED <<reg, loaded, batch, phase>>
      /\ IsVisible(p) /\ world[p] \in Kind /\ world' = [world EXCEPT ![p] = kind]
      /\ e \in DeviceEvent /\ queue' = Append(queue, e)
  BY WorkEffect DEF SafeInv
<1>2. IInv(DeviceEvent)'
  BY WorkKeeps DEF SafeInv
<1>3. queue \in Seq(DeviceEvent) /\ world \in [Pos -> Kind \cup {Air}]
  BY DEF SafeInv, IInv, WorldInv
<1>4. e.name = "update_node"
  OBVIOUS
<1> HIDE DEF e
<1>5. IsExtended(queue', queue, {e})
  BY <1>1, <1>3, AppendIsExtended
<1>6. \A q \in Pos : IsVisible(q)' <=> IsVisible(q)
  BY <1>1, <1>3, SimpleClusterAssumption DEF IsVisible
<1>7. Visible' = Visible
  BY <1>6 DEF Visible
<1>8. IsUndone(queue', Visible') /\ IsUndone(batch', Visible')
  <2>1. IsUndone(queue', Visible)
    BY <1>4, <1>5, ExtendedUndone DEF SafeInv
  <2> QED BY <1>1, <1>7, <2>1 DEF IsUndone
<1>9. Stays(p)'
  <2>1. p \in Registered'
    BY <1>1, RegisteredMembers
  <2> QED BY <1>1, <1>6, <2>1 DEF Stays
<1> QED BY <1>1, <1>2, <1>8, <1>9 DEF SafeInv, Updates, IsUndone, IsAdd

LEMMA NextIsSafe ==
  ASSUME SafeInv, [DeviceNext]_vars,
         \A p \in Pos, kind \in Kind : Work(p, kind) => p \in Registered
  PROVE  SafeInv'
<1>1. CASE DeviceUpdate
  BY <1>1, BeginUpdateIsSafe, AddDeviceIsSafe, UpdateDeviceIsSafe, UpdateFindsCluster,
     RemoveDeviceIsSafe, RefreshIsSafe, TransitionIsSafe, EndUpdateIsSafe DEF DeviceUpdate
<1>2. CASE UNCHANGED vars
  <2>1. IInv(DeviceEvent)'
    BY <1>2, StutterKeeps DEF SafeInv
  <2>2. Visible' = Visible /\ Registered' = Registered
    BY <1>2 DEF vars, Visible, IsVisible, Registered, Holders
  <2>3. \A p \in Pos : Stays(p) => Stays(p)'
    BY <1>2, <2>2 DEF vars, Stays, IsVisible, Adds, IsAdd
  <2> QED BY <1>2, <2>1, <2>2, <2>3 DEF vars, SafeInv, Updates, IsUndone, IsAdd
<1>3. CASE \E p \in Pos, kind \in Placeable : PlaceNode(p, kind)
  BY <1>3, DeviceAssumption, PlaceNodeIsSafe
<1>4. CASE \E p \in Pos, kind \in Kind : Work(p, kind)
  BY <1>4, WorkIsSafe
<1> QED
  BY <1>1, <1>2, <1>3, <1>4, EndUpdateIsSafe, DigNodeIsSafe, BlockIsSafe DEF DeviceNext

(***************************************************************************)
(* No step but the removal of a node takes a device out of the clusters    *)
(* whose block is there: clusters are merged and destroyed, members named  *)
(* anew and blocks expire without it.                                      *)
(***************************************************************************)
KeepsNodes == \A p \in Registered : BlockOf[p] \in loaded => p \in Registered'

OwnedInv(E) == IInv(E) /\ IsOwned(reg)

LEMMA AddKeepsNodes ==
  ASSUME Consistent(reg), IsOwned(reg), NEW e \in Event, NEW c \in ClusterId, handle_add_node(e, c)
  PROVE  IsOwned(reg') /\ KeepsNodes /\ e.pos \in Registered'
<1>1. /\ IsOwned(reg')
      /\ \E f \in Neighbours(e.pos, e.kind) : IsJoin(reg, reg', c, Range(f), e.pos, e.kind)
  BY HandleAddNodeJoins
<1>2. PICK M : IsJoin(reg, reg', c, M, e.pos, e.kind)
  BY <1>1
<1>3. e.pos \in Registered' /\ \A p \in Registered : p \in Registered'
  BY <1>2, EventFields, RegisteredMembers DEF IsJoin
<1> QED BY <1>1, <1>3 DEF KeepsNodes

LEMMA UpdateKeepsNodes ==
  ASSUME Consistent(reg), IsOwned(reg), NEW e \in Event, handle_update_node(e)
  PROVE  IsOwned(reg') /\ KeepsNodes
BY UpdateNodeLeaves, RegisteredMembers DEF KeepsNodes

LEMMA AssignsKeepNodes ==
  ASSUME Consistent(reg), IsOwned(reg), NEW c \in Live(reg), NEW a, reg' = SetAssigns(reg, c, a)
  PROVE  IsOwned(reg') /\ KeepsNodes
BY SetAssignsLeaves, RegisteredMembers DEF KeepsNodes

LEMMA BeginUpdateKeepsNodes ==
  ASSUME Consistent(reg), IsOwned(reg), BeginUpdate
  PROVE  IsOwned(reg') /\ KeepsNodes
<1> DEFINE u == UpdateActiveBlocks(reg, loaded, BlockTimeout)
           B == ExpiredBlocks(reg, loaded, BlockTimeout)
<1>1. reg' = AgeGenerations(u)
  BY DEF BeginUpdate
<1>2. BlockTimeout \in Nat
  BY RegistryAssumption
<1>3. Consistent(u) /\ Live(u) = Live(reg)
  BY <1>2, UpdateActiveBlocksConsistent
<1>4. B \in SUBSET Block /\ B \cap loaded = {}
  BY RegistryTables DEF ExpiredBlocks, StaleBlocks, IsRegistry, IsTable, Consistent
<1>5. ASSUME NEW c \in Live(reg)
      PROVE  /\ u.m_clusters[c].groups = reg.m_clusters[c].groups
             /\ Members(u.m_clusters[c]) = {p \in Members(reg.m_clusters[c]) : BlockOf[p] \notin B}
  <2>1. reg.m_clusters[c] \in Cluster /\ ClusterAgrees(reg.m_clusters[c])
    BY RegistryClusters DEF Consistent
  <2>2. /\ u.m_clusters[c] = OnBlocksExpired(reg.m_clusters[c], B)
        /\ u.m_clusters[c].groups = reg.m_clusters[c].groups
    BY <1>2, UpdateActiveBlocksEffect
  <2> HIDE DEF u, B
  <2> QED BY <1>4, <2>1, <2>2, BlocksExpiredAgrees
<1> HIDE DEF u, B
<1>6. Live(reg') = Live(u)
      /\ \A c \in Live(u) : reg'.m_clusters[c].groups = u.m_clusters[c].groups
                            /\ Members(reg'.m_clusters[c]) = Members(u.m_clusters[c])
  <2>1. \A c \in Live(u) : u.m_clusters[c] \in Cluster
    BY <1>3, RegistryClusters DEF Consistent
  <2>2. \A c \in Live(u) : reg'.m_clusters[c] = [u.m_clusters[c] EXCEPT !.assigns.generation_id = FALSE]
    BY <1>1, <1>3, AgeGenerationsEffect
  <2> QED BY <1>1, <1>3, <2>1, <2>2, AgeGenerationsEffect DEF Cluster, Members
<1>7. IsOwned(reg')
  BY <1>3, <1>5, <1>6 DEF IsOwned
<1>8. ASSUME NEW p \in Registered, BlockOf[p] \in loaded PROVE p \in Registered'
  <2>1. PICK c \in Live(reg) : p \in Pos /\ p \in Members(reg.m_clusters[c])
    BY RegisteredMembers
  <2>2. c \in Live(reg') /\ p \in Members(reg'.m_clusters[c])
    BY <1>3, <1>4, <1>5, <1>6, <1>8, <2>1
  <2> QED BY <2>1, <2>2, RegisteredMembers
<1> QED BY <1>7, <1>8 DEF KeepsNodes

\* The end of an update removes at most a cluster that is empty.
LEMMA EndUpdateEffect ==
  ASSUME Consistent(reg), EndUpdate \/ EndShortUpdate
  PROVE  /\ \A c \in Live(reg') : c \in Live(reg) /\ reg'.m_clusters[c] = reg.m_clusters[c]
         /\ \A c \in Live(reg) : Members(reg.m_clusters[c]) # {} => c \in Live(reg')
<1>1. CASE EndShortUpdate
  BY <1>1 DEF EndShortUpdate
<1>2. CASE EndUpdate
  <2> DEFINE empty == {c \in Live(reg) : IsEmpty(reg.m_clusters[c])}
  <2>1. PICK c \in OrNil(empty) : reg' = IF c = Nil THEN reg ELSE RemoveClusters(reg, {c})
    BY <1>2 DEF EndUpdate, DestroyEmptyCluster
  <2>2. CASE c = Nil
    BY <2>1, <2>2
  <2>3. CASE c # Nil
    <3>1. Members(reg.m_clusters[c]) = {} /\ reg' = RemoveClusters(reg, {c})
      BY <2>1, <2>3 DEF OrNil, IsEmpty
    <3>2. Live(reg') = Live(reg) \ {c} /\ \A d \in Live(reg) \ {c} : reg'.m_clusters[d] = reg.m_clusters[d]
      BY <3>1, RemoveClustersConsistent, RemoveClustersEffect
    <3> QED BY <3>1, <3>2
  <2> QED BY <2>2, <2>3
<1> QED BY <1>1, <1>2

LEMMA EndUpdateKeepsNodes ==
  ASSUME Consistent(reg), IsOwned(reg), EndUpdate \/ EndShortUpdate
  PROVE  IsOwned(reg') /\ KeepsNodes
<1>1. /\ \A c \in Live(reg') : c \in Live(reg) /\ reg'.m_clusters[c] = reg.m_clusters[c]
      /\ \A c \in Live(reg) : Members(reg.m_clusters[c]) # {} => c \in Live(reg')
  BY EndUpdateEffect
<1>2. IsOwned(reg')
  BY <1>1 DEF IsOwned
<1>3. ASSUME NEW p \in Registered PROVE p \in Registered'
  <2>1. PICK c \in Live(reg) : p \in Pos /\ p \in Members(reg.m_clusters[c])
    BY RegisteredMembers
  <2>2. c \in Live(reg') /\ reg'.m_clusters[c] = reg.m_clusters[c]
    BY <1>1, <2>1
  <2> QED BY <2>1, <2>2, RegisteredMembers
<1> QED BY <1>2, <1>3 DEF KeepsNodes

LEMMA SameRegistryKeepsNodes ==
  ASSUME IsOwned(reg), reg' = reg
  PROVE  IsOwned(reg') /\ KeepsNodes
BY RegisteredMembers DEF KeepsNodes

LEMMA RemoveOwned ==
  ASSUME NEW E, IsEvents(E), OwnedInv(E), TakeEvent("remove_node"), NEW walk \in Walks,
         handle_remove_node(Head(batch), Branches(Head(batch).pos, walk))
  PROVE  IsOwned(reg') /\ Removing
<1>1. Head(batch) \in Event
  BY TakenNodeEvent DEF OwnedInv, IInv, EventName
<1> DEFINE branches == Branches(Head(batch).pos, walk)
<1>2. IsFiniteSet(branches) /\ \A b \in branches : IsTable(Restrict(world, b), Pos, Kind)
  BY BranchesAreVisible DEF OwnedInv, IInv
<1>3. handle_remove_node(Head(batch), branches)
  OBVIOUS
<1> HIDE DEF branches
<1>4. IsOwned(reg')
  BY <1>1, <1>2, <1>3, RemoveNodeRebuilds DEF OwnedInv, IInv
<1> QED BY <1>4 DEF Removing, TakeEvent

\* The steps of a device cluster.
LEMMA DeviceStepsKeepNodes ==
  ASSUME OwnedInv(DeviceEvent), [DeviceNext]_vars
  PROVE  IsOwned(reg') /\ (KeepsNodes \/ Removing)
<1>1. CASE HandleAddDevice
  <2>1. Head(batch) \in Event
    BY <1>1, DeviceEvents, TakenNodeEvent DEF HandleAddDevice, OwnedInv, IInv, EventName
  <2> QED BY <1>1, <2>1, AddKeepsNodes DEF HandleAddDevice, OwnedInv, IInv
<1>2. CASE HandleUpdateNode
  <2>1. Head(batch) \in Event
    BY <1>2, DeviceEvents, TakenNodeEvent DEF HandleUpdateNode, OwnedInv, IInv, EventName
  <2> QED BY <1>2, <2>1, UpdateKeepsNodes DEF HandleUpdateNode, OwnedInv, IInv
<1>3. CASE HandleRemoveDevice
  BY <1>3, DeviceEvents, RemoveOwned DEF HandleRemoveDevice
<1>4. CASE HandleRefresh \/ HandleTransition
  <2> DEFINE c == Head(batch).cluster_id
  <2>1. c \in Live(reg) /\ \E a : reg' = SetAssigns(reg, c, a)
    BY <1>4 DEF HandleRefresh, HandleTransition
  <2> HIDE DEF c
  <2> QED BY <2>1, AssignsKeepNodes DEF OwnedInv, IInv
<1>5. CASE BeginUpdate
  BY <1>5, BeginUpdateKeepsNodes DEF OwnedInv, IInv
<1>6. CASE EndUpdate \/ EndShortUpdate
  BY <1>6, EndUpdateKeepsNodes DEF OwnedInv, IInv
<1>7. ASSUME reg' = reg PROVE IsOwned(reg') /\ KeepsNodes
  BY <1>7, SameRegistryKeepsNodes DEF OwnedInv
<1>8. CASE \/ HandleUpdateNodeCrash \/ HandleRefreshSkipped \/ HandleTransitionSkipped
           \/ \E p \in Pos, kind \in Placeable : PlaceNode(p, kind)
           \/ \E p \in Pos, kind \in Kind : Work(p, kind)
           \/ \E p \in Pos : DigNode(p)
           \/ \E b \in Block : UnloadBlock(b) \/ ActivateBlock(b)
           \/ UNCHANGED vars
  BY <1>7, <1>8 DEF HandleUpdateNodeCrash, HandleRefreshSkipped, HandleTransitionSkipped, PlaceNode,
                    Work, DigNode, UnloadBlock, ActivateBlock, vars
<1> QED BY <1>1, <1>2, <1>3, <1>4, <1>5, <1>6, <1>8 DEF DeviceNext, DeviceUpdate

\* The steps of a simple cluster.
LEMMA StepsKeepNodes ==
  ASSUME OwnedInv(Event), [Next]_vars
  PROVE  IsOwned(reg') /\ (KeepsNodes \/ Removing)
<1>1. CASE HandleAddNode
  <2>1. Head(batch) \in Event
    BY <1>1, SimpleEvents, TakenNodeEvent DEF HandleAddNode, OwnedInv, IInv, EventName
  <2> QED BY <1>1, <2>1, AddKeepsNodes DEF HandleAddNode, OwnedInv, IInv
<1>2. CASE HandleUpdateNode
  <2>1. Head(batch) \in Event
    BY <1>2, SimpleEvents, TakenNodeEvent DEF HandleUpdateNode, OwnedInv, IInv, EventName
  <2> QED BY <1>2, <2>1, UpdateKeepsNodes DEF HandleUpdateNode, OwnedInv, IInv
<1>3. CASE HandleRemoveNode
  BY <1>3, SimpleEvents, RemoveOwned DEF HandleRemoveNode
<1>4. CASE BeginUpdate
  BY <1>4, BeginUpdateKeepsNodes DEF OwnedInv, IInv
<1>5. CASE EndUpdate \/ EndShortUpdate
  BY <1>5, EndUpdateKeepsNodes DEF OwnedInv, IInv
<1>6. CASE \/ HandleUpdateNodeCrash
           \/ \E p \in Pos, kind \in Kind : PlaceNode(p, kind) \/ SwapNode(p, kind)
           \/ \E p \in Pos : DigNode(p)
           \/ \E b \in Block : UnloadBlock(b) \/ ActivateBlock(b)
           \/ UNCHANGED vars
  <2>1. reg' = reg
    BY <1>6 DEF HandleUpdateNodeCrash, PlaceNode, SwapNode, DigNode, UnloadBlock, ActivateBlock, vars
  <2> QED BY <2>1, SameRegistryKeepsNodes DEF OwnedInv
<1> QED BY <1>1, <1>2, <1>3, <1>4, <1>5, <1>6 DEF Next, Update

LEMMA InitIsOwned == Init => IsOwned(reg)
BY DEF Init, EmptyRegistry, Live, IsOwned

\* A device in the world only leaves the clusters while the removal of a node
\* is handled, of simple clusters and of device clusters: no merge, update,
\* election or expiry ever loses one, in any world.
THEOREM OnlyRemovalsLoseDevices ==
  /\ Spec => DevicesStay
  /\ DeviceSpec => DevicesStay
<1> DEFINE Stay == \A p \in Registered : IsVisible(p) /\ IsVisible(p)' => p \in Registered' \/ Removing
<1>1. KeepsNodes \/ Removing => Stay
  BY DEF KeepsNodes, IsVisible
<1>2. Init => OwnedInv(Event) /\ OwnedInv(DeviceEvent)
  BY InitIInv, InitIsOwned DEF OwnedInv
<1>3. OwnedInv(Event) /\ [Next]_vars => OwnedInv(Event)' /\ Stay
  BY <1>1, NextKeeps, StepsKeepNodes DEF OwnedInv
<1>4. OwnedInv(DeviceEvent) /\ [DeviceNext]_vars => OwnedInv(DeviceEvent)' /\ Stay
  BY <1>1, DeviceNextKeeps, DeviceStepsKeepNodes DEF OwnedInv
<1>5. Spec => [][Stay]_vars
  BY <1>2, <1>3, PTL DEF Spec
<1>6. DeviceSpec => [][Stay]_vars
  BY <1>2, <1>4, PTL DEF DeviceSpec
<1> QED BY <1>5, <1>6 DEF DevicesStay

(***************************************************************************)
(* As long as nothing is dug every device of a loaded block is a member of *)
(* a cluster or about to be added.  This is what a machine that changes    *)
(* its name by itself relies on: its update finds a cluster then.          *)
(***************************************************************************)
NoRemovals(q) == \A i \in DOMAIN q : q[i].name # "remove_node"

KeptInv ==
  /\ SafeInv /\ NoRemovals(queue) /\ NoRemovals(batch)
  /\ \A p \in Pos : IsVisible(p) => Stays(p) \/ (phase = "idle" /\ Adds(queue, p))

LEMMA ExtendedAdds ==
  ASSUME NEW q, NEW t, NEW T, IsExtended(t, q, T)
  PROVE  \A p : Adds(q, p) => Adds(t, p)
BY DEF IsExtended, Adds

LEMMA ExtendedNoRemovals ==
  ASSUME NEW q, NEW t, NEW T, IsExtended(t, q, T), NoRemovals(q), \A x \in T : x.name # "remove_node"
  PROVE  NoRemovals(t)
<1> SUFFICES ASSUME NEW i \in DOMAIN t PROVE t[i].name # "remove_node"
  BY DEF NoRemovals
<1>1. CASE i \in DOMAIN q
  BY <1>1 DEF IsExtended, NoRemovals
<1>2. CASE i \notin DOMAIN q
  BY <1>2 DEF IsExtended
<1> QED BY <1>1, <1>2

\* What a handler leaves in the queue.
LEMMA HandlersExtend ==
  ASSUME SafeInv, \/ HandleAddDevice \/ HandleUpdateNode
                  \/ HandleRefresh \/ HandleRefreshSkipped
                  \/ HandleTransition \/ HandleTransitionSkipped
  PROVE  \E T : IsExtended(queue', queue, T) /\ \A x \in T : x.name # "remove_node"
<1>1. queue \in Seq(DeviceEvent)
  BY DEF SafeInv, IInv
<1>2. CASE HandleAddDevice
  <2>1. PICK c \in ClusterId : queue' = Append(queue, Refresh(c))
    BY <1>2 DEF HandleAddDevice
  <2>2. IsExtended(queue', queue, {Refresh(c)})
    BY <1>1, <2>1, DeviceEventsAreTyped, AppendIsExtended
  <2>3. \A x \in {Refresh(c)} : x.name # "remove_node"
    BY DEF Refresh
  <2> QED BY <2>2, <2>3
<1>3. CASE HandleRefresh
  BY <1>3, RefreshExtends
<1>4. CASE HandleTransition
  <2>1. PICK name : IsTransition(Head(batch).cluster_id, Head(batch).state, name)
    BY <1>4, TransitionEffect DEF SafeInv
  <2>2. IsExtended(queue', queue, {Renaming(p, name) : p \in Changing(name)})
    BY <2>1 DEF IsTransition
  <2>3. \A x \in {Renaming(p, name) : p \in Changing(name)} : x.name # "remove_node"
    BY DEF Renaming
  <2> QED BY <2>2, <2>3
<1>5. CASE HandleUpdateNode \/ HandleRefreshSkipped \/ HandleTransitionSkipped
  <2>1. queue' = queue
    BY <1>5 DEF HandleUpdateNode, HandleRefreshSkipped, HandleTransitionSkipped
  <2>2. IsExtended(queue', queue, {})
    BY <1>1, <2>1, SameIsExtended
  <2> QED BY <2>2
<1> QED BY <1>2, <1>3, <1>4, <1>5

\* No handler shows a node that was not visible.
LEMMA HandlersShowNothing ==
  ASSUME SafeInv, \/ HandleAddDevice \/ HandleUpdateNode
                  \/ HandleRefresh \/ HandleRefreshSkipped
                  \/ HandleTransition \/ HandleTransitionSkipped
  PROVE  /\ phase = "events" /\ phase' = "events" /\ batch # <<>> /\ batch' = Tail(batch)
         /\ \A p \in Pos : IsVisible(p)' => IsVisible(p)
<1>1. phase = "events" /\ batch # <<>> /\ batch' = Tail(batch) /\ UNCHANGED <<loaded, phase>>
  BY DEF HandleAddDevice, HandleUpdateNode, HandleRefresh, HandleRefreshSkipped, HandleTransition,
         HandleTransitionSkipped, TakeEvent
<1>2. ASSUME NEW p \in Pos, world'[p] # Air PROVE world[p] # Air
  <2>1. CASE HandleTransition
    <3>1. PICK name : IsTransition(Head(batch).cluster_id, Head(batch).state, name)
      BY <2>1, TransitionEffect DEF SafeInv
    <3>2. /\ world' = [q \in Pos |-> IF q \in Changing(name) THEN name[q] ELSE world[q]]
          /\ \A q \in Changing(name) : world[q] \in Kind
      BY <3>1 DEF IsTransition, Changing
    <3> QED BY <1>2, <3>2, SimpleClusterAssumption
  <2>2. CASE ~HandleTransition
    <3>1. world' = world
      BY <2>2 DEF HandleAddDevice, HandleUpdateNode, HandleRefresh, HandleRefreshSkipped,
                  HandleTransitionSkipped
    <3> QED BY <1>2, <3>1
  <2> QED BY <2>1, <2>2
<1> QED BY <1>1, <1>2 DEF IsVisible

LEMMA HandlersAreKept ==
  ASSUME KeptInv, SafeInv', \/ HandleAddDevice \/ HandleUpdateNode
                            \/ HandleRefresh \/ HandleRefreshSkipped
                            \/ HandleTransition \/ HandleTransitionSkipped
  PROVE  KeptInv'
<1>1. /\ phase = "events" /\ phase' = "events" /\ batch # <<>> /\ batch' = Tail(batch)
      /\ \A p \in Pos : IsVisible(p)' => IsVisible(p)
  BY HandlersShowNothing DEF KeptInv
<1>2. batch \in Seq(DeviceEvent) /\ OwnedInv(DeviceEvent)
  BY DEF KeptInv, SafeInv, IInv, OwnedInv
<1>3. PICK T : IsExtended(queue', queue, T) /\ \A x \in T : x.name # "remove_node"
  BY HandlersExtend DEF KeptInv
<1>4. NoRemovals(queue')
  BY <1>3, ExtendedNoRemovals DEF KeptInv
<1>5. NoRemovals(batch')
  BY <1>1, <1>2, TailEntries DEF KeptInv, NoRemovals
<1>6. ~Removing
  BY <1>2, TailEntries DEF KeptInv, NoRemovals, Removing
<1>7. KeepsNodes
  BY <1>2, <1>6, DeviceStepsKeepNodes DEF DeviceNext, DeviceUpdate
<1>8. IsAdd(Head(batch)) => Head(batch).pos \in Registered'
  <2> SUFFICES ASSUME IsAdd(Head(batch)) PROVE Head(batch).pos \in Registered'
    OBVIOUS
  <2>1. HandleAddDevice
    BY DEF IsAdd, HandleUpdateNode, HandleRefresh, HandleRefreshSkipped, HandleTransition,
           HandleTransitionSkipped, TakeEvent
  <2>2. Head(batch) \in Event
    BY <1>2, <2>1, DeviceEvents, TakenNodeEvent DEF HandleAddDevice, EventName
  <2> QED BY <1>2, <2>1, <2>2, AddKeepsNodes DEF HandleAddDevice, OwnedInv, IInv
<1>9. ASSUME NEW p \in Pos, IsVisible(p)' PROVE Stays(p)'
  <2>1. IsVisible(p) /\ Stays(p)
    BY <1>1, <1>9 DEF KeptInv
  <2>2. p \in Registered => p \in Registered'
    BY <1>7, <2>1 DEF KeepsNodes, IsVisible
  <2> QED BY <1>1, <1>2, <1>8, <1>9, <2>1, <2>2, MembersStay
<1> QED BY <1>4, <1>5, <1>9 DEF KeptInv, NoRemovals

LEMMA UpdateIsKept ==
  ASSUME KeptInv, SafeInv', BeginUpdate \/ EndUpdate \/ EndShortUpdate \/ UNCHANGED vars
  PROVE  KeptInv'
<1>1. OwnedInv(DeviceEvent)
  BY DEF KeptInv, SafeInv, OwnedInv
<1>2. UNCHANGED <<world, loaded>> /\ \A p : IsVisible(p)' <=> IsVisible(p)
  BY DEF BeginUpdate, EndUpdate, EndShortUpdate, vars, IsVisible
<1>3. \A p \in Registered : IsVisible(p) => p \in Registered'
  BY <1>1, BeginUpdateKeepsNodes, EndUpdateKeepsNodes, SameRegistryKeepsNodes
     DEF OwnedInv, IInv, KeepsNodes, IsVisible, vars
<1>4. CASE BeginUpdate
  <2>1. /\ phase = "idle" /\ batch = <<>> /\ batch' = queue /\ queue' = <<>> /\ phase' = "events"
    BY <1>4 DEF BeginUpdate, KeptInv, SafeInv
  <2>2. NoRemovals(queue') /\ NoRemovals(batch')
    BY <2>1 DEF KeptInv, NoRemovals
  <2>3. ASSUME NEW p \in Pos, IsVisible(p)' PROVE Stays(p)'
    <3>1. IsVisible(p) /\ (p \in Registered \/ Adds(batch, p) \/ Adds(queue, p))
      BY <1>2, <2>3 DEF KeptInv, Stays
    <3>2. ~Adds(batch, p)
      BY <2>1 DEF Adds
    <3>3. p \in Registered' \/ Adds(batch', p)
      BY <1>3, <2>1, <3>1, <3>2
    <3> QED BY <2>3, <3>3 DEF Stays, Adds, IsAdd
  <2> QED BY <2>2, <2>3 DEF KeptInv, NoRemovals
<1>5. CASE EndUpdate \/ EndShortUpdate \/ UNCHANGED vars
  <2>1. UNCHANGED <<queue, batch>> /\ (phase' = phase \/ phase = "events")
    BY <1>5 DEF EndUpdate, EndShortUpdate, vars
  <2>2. ASSUME NEW p \in Pos, IsVisible(p)' PROVE Stays(p)' \/ (phase' = "idle" /\ Adds(queue, p))
    <3>1. IsVisible(p) /\ (Stays(p) \/ (phase = "idle" /\ Adds(queue, p)))
      BY <1>2, <2>2 DEF KeptInv
    <3>2. Stays(p) => Stays(p)'
      BY <1>3, <2>1, <2>2, <3>1 DEF Stays, Adds, IsAdd
    <3> QED BY <2>1, <3>1, <3>2
  <2> QED BY <2>1, <2>2 DEF KeptInv, NoRemovals, Adds, IsAdd
<1> QED BY <1>4, <1>5

\* A step of the world: what becomes visible is added, or is there already.
LEMMA WorldIsKept ==
  ASSUME KeptInv, SafeInv', UNCHANGED <<reg, batch, phase>>, NEW T, IsExtended(queue', queue, T),
         \A x \in T : x.name # "remove_node",
         \A p \in Pos : IsVisible(p)' => IsVisible(p) \/ (phase = "idle" /\ Adds(queue', p))
  PROVE  KeptInv'
<1>1. NoRemovals(queue')
  BY ExtendedNoRemovals DEF KeptInv
<1>2. Registered' = Registered
  BY DEF Registered, Holders
<1>3. ASSUME NEW p \in Pos, IsVisible(p)' PROVE Stays(p)' \/ (phase = "idle" /\ Adds(queue', p))
  <2>1. CASE IsVisible(p)
    <3>1. Stays(p) \/ (phase = "idle" /\ Adds(queue, p))
      BY <2>1 DEF KeptInv
    <3>2. Stays(p) => Stays(p)'
      BY <1>2, <1>3 DEF Stays, Adds, IsAdd
    <3> QED BY <3>1, <3>2, ExtendedAdds
  <2>2. CASE ~IsVisible(p)
    BY <1>3, <2>2
  <2> QED BY <2>1, <2>2
<1> QED BY <1>1, <1>3 DEF KeptInv, NoRemovals, Adds, IsAdd

LEMMA PlaceNodeIsKept ==
  ASSUME KeptInv, SafeInv', NEW p \in Pos, NEW kind \in Kind, PlaceNode(p, kind)
  PROVE  KeptInv'
<1> DEFINE e == [name |-> "add_node", pos |-> p, kind |-> kind]
<1>1. /\ phase = "idle" /\ UNCHANGED <<reg, loaded, batch, phase>>
      /\ world' = [world EXCEPT ![p] = kind] /\ queue' = Append(queue, e)
  BY DEF PlaceNode, MayAct, Schedule
<1>2. queue \in Seq(DeviceEvent) /\ e \in DeviceEvent /\ world \in [Pos -> Kind \cup {Air}]
  BY DeviceEvents, EventIsTyped DEF KeptInv, SafeInv, IInv, WorldInv, EventName
<1>3. e.name = "add_node" /\ e.pos = p
  OBVIOUS
<1> HIDE DEF e
<1>4. IsExtended(queue', queue, {e})
  BY <1>1, <1>2, AppendIsExtended
<1>5. \A q \in Pos : q # p => (IsVisible(q)' <=> IsVisible(q))
  BY <1>1, <1>2 DEF IsVisible
<1>6. Adds(queue', p)
  BY <1>3, <1>4 DEF Adds, IsAdd, IsExtended
<1>7. \A x \in {e} : x.name # "remove_node"
  BY <1>3
<1>8. \A q \in Pos : IsVisible(q)' => IsVisible(q) \/ (phase = "idle" /\ Adds(queue', q))
  BY <1>1, <1>5, <1>6
<1> QED BY <1>1, <1>4, <1>7, <1>8, WorldIsKept

LEMMA WorkIsKept ==
  ASSUME KeptInv, SafeInv', NEW p \in Pos, NEW kind \in Kind, Work(p, kind)
  PROVE  KeptInv'
<1> DEFINE e == [name |-> "update_node", pos |-> p, kind |-> kind]
<1>1. /\ UNCHANGED <<reg, loaded, batch, phase>> /\ IsVisible(p)
      /\ world' = [world EXCEPT ![p] = kind] /\ e \in DeviceEvent /\ queue' = Append(queue, e)
  BY WorkEffect DEF KeptInv, SafeInv
<1>2. queue \in Seq(DeviceEvent) /\ world \in [Pos -> Kind \cup {Air}] /\ e.name = "update_node"
  BY DEF KeptInv, SafeInv, IInv, WorldInv
<1> HIDE DEF e
<1>3. IsExtended(queue', queue, {e})
  BY <1>1, <1>2, AppendIsExtended
<1>4. \A q \in Pos : IsVisible(q)' => IsVisible(q)
  BY <1>1, <1>2 DEF IsVisible
<1> QED BY <1>1, <1>2, <1>3, <1>4, WorldIsKept

LEMMA BlockIsKept ==
  ASSUME KeptInv, SafeInv', NEW b \in Block, UnloadBlock(b) \/ ActivateBlock(b)
  PROVE  KeptInv'
<1>1. phase = "idle" /\ UNCHANGED <<reg, world, batch, phase>>
  BY DEF UnloadBlock, ActivateBlock, MayAct
<1>2. WorldInv /\ queue \in Seq(DeviceEvent)
  BY DEF KeptInv, SafeInv, IInv
<1>3. CASE UnloadBlock(b)
  <2>1. IsExtended(queue', queue, {})
    BY <1>2, <1>3, SameIsExtended DEF UnloadBlock
  <2>2. \A p \in Pos : IsVisible(p)' => IsVisible(p)
    BY <1>1, <1>3 DEF UnloadBlock, IsVisible
  <2> QED BY <1>1, <2>1, <2>2, WorldIsKept
<1>4. CASE ActivateBlock(b)
  <2> DEFINE nodes == {p \in Pos : BlockOf[p] = b /\ world[p] # Air}
             f == [p \in nodes |-> [name |-> "load_node", pos |-> p, kind |-> world[p]]]
  <2>1. nodes \subseteq Devices(world) /\ IsFiniteSet(nodes)
    BY <1>2, FS_Subset DEF Devices, WorldInv
  <2>2. PICK s \in Orders(nodes) :
          queue' = queue \o [i \in DOMAIN s |-> [name |-> "load_node", pos |-> s[i], kind |-> world[s[i]]]]
    BY <1>4, Zenon DEF ActivateBlock
  <2>3. \A i \in DOMAIN s : s[i] \in nodes
    BY <2>1, OrderIsSequence
  <2>4. [i \in DOMAIN s |-> [name |-> "load_node", pos |-> s[i], kind |-> world[s[i]]]]
          = [i \in DOMAIN s |-> f[s[i]]]
    BY <2>3
  <2>5. \A p \in nodes : f[p] \in DeviceEvent /\ f[p].name = "load_node" /\ f[p].pos = p
    BY <1>2, DeviceEvents, EventIsTyped DEF WorldInv, EventName
  <2>6. \A p \in Pos : IsVisible(p)' => IsVisible(p) \/ p \in nodes
    BY <1>1, <1>4 DEF ActivateBlock, IsVisible
  <2> DEFINE T == {f[p] : p \in nodes}
  <2> HIDE DEF nodes, f
  <2>7. IsExtended(queue', queue, T)
    <3>1. IsExtended(queue \o [i \in DOMAIN s |-> f[s[i]]], queue, {f[p] : p \in nodes})
      BY <1>2, <2>1, <2>5, OrderIsExtended
    <3> QED BY <3>1, <2>2, <2>4
  <2>8. \A x \in T : x.name # "remove_node"
    BY <2>5
  <2>9. \A p \in nodes : Adds(queue', p)
    <3> SUFFICES ASSUME NEW p \in nodes PROVE Adds(queue', p)
      OBVIOUS
    <3>1. PICK i \in DOMAIN queue' : queue'[i] = f[p]
      BY <2>7 DEF IsExtended
    <3> QED BY <2>5, <3>1 DEF Adds, IsAdd
  <2> HIDE DEF T
  <2> QED BY <1>1, <2>6, <2>7, <2>8, <2>9, WorldIsKept
<1> QED BY <1>3, <1>4

\* A device that works is a member of a cluster.
LEMMA WorkersAreMembers ==
  ASSUME KeptInv
  PROVE  \A p \in Pos, kind \in Kind : Work(p, kind) => p \in Registered
BY DEF KeptInv, Work, Stays, Adds

LEMMA NextIsKept ==
  ASSUME "dig" \notin Environment, KeptInv, [DeviceNext]_vars
  PROVE  KeptInv'
<1>1. SafeInv /\ SafeInv'
  BY WorkersAreMembers, NextIsSafe DEF KeptInv
<1>2. ~HandleUpdateNodeCrash
  BY <1>1, UpdateFindsCluster
<1>3. ~HandleRemoveDevice
  <2> SUFFICES ASSUME HandleRemoveDevice PROVE FALSE
    OBVIOUS
  <2>1. batch # <<>> /\ batch \in Seq(DeviceEvent) /\ Head(batch).name = "remove_node"
    BY <1>1, TakenIsSafe DEF HandleRemoveDevice
  <2> QED BY <2>1, TailEntries DEF KeptInv, NoRemovals
<1>4. \A p \in Pos : ~DigNode(p)
  BY DEF DigNode, MayAct
<1>5. CASE \E p \in Pos, kind \in Placeable : PlaceNode(p, kind)
  BY <1>1, <1>5, DeviceAssumption, PlaceNodeIsKept
<1> QED
  BY <1>1, <1>2, <1>3, <1>4, <1>5, HandlersAreKept, UpdateIsKept, WorkIsKept, BlockIsKept
     DEF DeviceNext, DeviceUpdate

LEMMA KeptInvariant ==
  ASSUME "dig" \notin Environment
  PROVE  DeviceSpec => []KeptInv
<1>1. Init => KeptInv
  <2> SUFFICES ASSUME Init PROVE KeptInv
    OBVIOUS
  <2>1. queue = <<>> /\ batch = <<>> /\ \A p \in Pos : ~IsVisible(p)
    BY DEF Init, IsVisible
  <2> QED BY <2>1, InitIsSafe DEF KeptInv, NoRemovals
<1>2. KeptInv /\ [DeviceNext]_vars => KeptInv'
  BY NextIsKept
<1> QED BY <1>1, <1>2, PTL DEF DeviceSpec

LEMMA SafeInvariant ==
  ASSUME "work" \notin Environment \/ "dig" \notin Environment
  PROVE  DeviceSpec => []SafeInv
<1>1. CASE "work" \notin Environment
  <2>1. Init => SafeInv
    BY InitIsSafe
  <2>2. \A p \in Pos, kind \in Kind : ~Work(p, kind)
    BY <1>1 DEF Work
  <2>3. SafeInv /\ [DeviceNext]_vars => SafeInv'
    BY <2>2, NextIsSafe
  <2> QED BY <2>1, <2>3, PTL DEF DeviceSpec
<1>2. CASE "dig" \notin Environment
  BY <1>2, KeptInvariant, PTL DEF KeptInv
<1> QED BY <1>1, <1>2

\* No update_node event finds the group of the clusters empty, which is where
\* pairs() in handle_update_node would fail, as long as devices that change
\* their name by themselves and the digging of nodes do not come together:
\* elections, unloading and loading, and any order of the events, do not bring
\* the system there.
THEOREM UpdatesNeverCrash ==
  ASSUME "work" \notin Environment \/ "dig" \notin Environment
  PROVE  DeviceSpec => []NeverCrashes
<1>1. SafeInv => NeverCrashes
  BY DEF SafeInv, NeverCrashes
<1> QED BY <1>1, SafeInvariant, PTL

\* As long as nothing is dug, every device in a loaded block is in a cluster
\* once all events are handled: none is lost between on_construct and the
\* registry, whatever merges, elections, changes of names, expiries and loads
\* go on.
THEOREM DevicesAreClustered ==
  ASSUME "dig" \notin Environment
  PROVE  DeviceSpec => []EveryDeviceIsClustered
<1>1. KeptInv => EveryDeviceIsClustered
  BY DEF KeptInv, SafeInv, EveryDeviceIsClustered, Settled, Stays, Adds
<1> QED BY <1>1, KeptInvariant, PTL

(***************************************************************************)
(* The device cluster of a world in which devices are placed and work, and *)
(* nothing is dug, unloaded or loaded again: Environment is a subset of    *)
(* {"place", "work"}.  Its clusters are the connected components of the    *)
(* devices, and when the events are handled each cluster is in the state   *)
(* its members elect and each device shows it, or what it has decided by   *)
(* itself.                                                                 *)
(***************************************************************************)


(***************************************************************************)
(* What the registry holds, without identifiers and indexes: the names of  *)
(* the registered nodes and the sets of members.                           *)
(***************************************************************************)
HoldersIn(r, p) == {c \in Live(r) : p \in Members(r.m_clusters[c])}

RegisteredIn(r) == {p \in Pos : HoldersIn(r, p) # {}}

NodesIn(r) == [p \in RegisteredIn(r) |-> r.m_clusters[CHOOSE c \in HoldersIn(r, p) : TRUE].nodes[p]]

BlobsIn(r) == {Members(r.m_clusters[c]) : c \in {d \in Live(r) : ~IsEmpty(r.m_clusters[d])}}

IsDisjoint(r) ==
  \A c, d \in Live(r) : c # d => Members(r.m_clusters[c]) \cap Members(r.m_clusters[d]) = {}

LEMMA ViewsOfRegistry ==
  /\ Registered = RegisteredIn(reg) /\ Registered' = RegisteredIn(reg')
  /\ \A p : Holders(p) = HoldersIn(reg, p)
BY DEF Registered, Holders, RegisteredIn, HoldersIn

\* The name of a member of one cluster.
LEMMA NodeInView ==
  ASSUME NEW r, Consistent(r), IsDisjoint(r), NEW c \in Live(r), NEW p \in Members(r.m_clusters[c])
  PROVE  p \in Pos /\ p \in RegisteredIn(r) /\ NodesIn(r)[p] = r.m_clusters[c].nodes[p]
<1>1. p \in Pos
  BY RegistryClusters, MembersType DEF Consistent
<1>2. HoldersIn(r, p) = {c}
  BY DEF IsDisjoint, HoldersIn
<1>3. p \in RegisteredIn(r) /\ (CHOOSE d \in HoldersIn(r, p) : TRUE) = c
  BY <1>1, <1>2 DEF RegisteredIn
<1> QED BY <1>1, <1>3 DEF NodesIn

\* A registered node is a member of a cluster, and its set one of the blobs.
LEMMA RegisteredInView ==
  ASSUME NEW r
  PROVE  /\ \A p : p \in RegisteredIn(r) <=>
                     p \in Pos /\ \E c \in Live(r) : p \in Members(r.m_clusters[c])
         /\ \A B : B \in BlobsIn(r) <=>
                     B # {} /\ \E c \in Live(r) : B = Members(r.m_clusters[c])
         /\ DOMAIN NodesIn(r) = RegisteredIn(r)
         /\ NodesIn(r) = [p \in RegisteredIn(r) |-> NodesIn(r)[p]]
BY DEF RegisteredIn, HoldersIn, BlobsIn, IsEmpty, NodesIn

\* The views are the same, or the same up to the name of p.
IsSame(r, n) ==
  /\ IsDisjoint(n) /\ RegisteredIn(n) = RegisteredIn(r)
  /\ NodesIn(n) = NodesIn(r) /\ BlobsIn(n) = BlobsIn(r)

IsRenamed(r, n, p, kind) ==
  /\ IsDisjoint(n) /\ RegisteredIn(n) = RegisteredIn(r) /\ BlobsIn(n) = BlobsIn(r)
  /\ p \in RegisteredIn(r) /\ NodesIn(n) = [NodesIn(r) EXCEPT ![p] = kind]

\* A change that leaves all that is in the clusters leaves the views.
LEMMA SameView ==
  ASSUME NEW r, Consistent(r), IsDisjoint(r), NEW n, Consistent(n),
         \A c \in Live(r) : Members(r.m_clusters[c]) # {} =>
            c \in Live(n) /\ n.m_clusters[c].nodes = r.m_clusters[c].nodes,
         \A c \in Live(n) : Members(n.m_clusters[c]) # {} =>
            c \in Live(r) /\ n.m_clusters[c].nodes = r.m_clusters[c].nodes
  PROVE  IsSame(r, n)
<1>1. IsDisjoint(n)
  BY DEF IsDisjoint, Members
<1>0. /\ \A c \in Live(r) : Members(r.m_clusters[c]) # {} =>
           c \in Live(n) /\ Members(n.m_clusters[c]) = Members(r.m_clusters[c])
      /\ \A c \in Live(n) : Members(n.m_clusters[c]) # {} =>
           c \in Live(r) /\ Members(n.m_clusters[c]) = Members(r.m_clusters[c])
  BY DEF Members
<1>2. RegisteredIn(n) = RegisteredIn(r)
  <2>1. \A p \in RegisteredIn(n) : p \in RegisteredIn(r)
    BY <1>0, RegisteredInView
  <2>2. \A p \in RegisteredIn(r) : p \in RegisteredIn(n)
    BY <1>0, RegisteredInView
  <2> QED BY <2>1, <2>2
<1>3. BlobsIn(n) = BlobsIn(r)
  <2>1. \A B \in BlobsIn(n) : B \in BlobsIn(r)
    <3> SUFFICES ASSUME NEW B \in BlobsIn(n) PROVE B \in BlobsIn(r)
      OBVIOUS
    <3>1. PICK c \in Live(n) : B # {} /\ B = Members(n.m_clusters[c])
      BY RegisteredInView
    <3>2. c \in Live(r) /\ B = Members(r.m_clusters[c])
      BY <1>0, <3>1
    <3> QED BY <3>1, <3>2, RegisteredInView
  <2>2. \A B \in BlobsIn(r) : B \in BlobsIn(n)
    <3> SUFFICES ASSUME NEW B \in BlobsIn(r) PROVE B \in BlobsIn(n)
      OBVIOUS
    <3>1. PICK c \in Live(r) : B # {} /\ B = Members(r.m_clusters[c])
      BY RegisteredInView
    <3>2. c \in Live(n) /\ B = Members(n.m_clusters[c])
      BY <1>0, <3>1
    <3> QED BY <3>1, <3>2, RegisteredInView
  <2> QED BY <2>1, <2>2
<1>4. ASSUME NEW p \in RegisteredIn(r) PROVE NodesIn(n)[p] = NodesIn(r)[p]
  <2>1. PICK c \in Live(r) : p \in Members(r.m_clusters[c])
    BY RegisteredInView
  <2>2. c \in Live(n) /\ n.m_clusters[c].nodes = r.m_clusters[c].nodes
        /\ p \in Members(n.m_clusters[c])
    BY <2>1 DEF Members
  <2> QED BY <1>1, <2>1, <2>2, NodeInView
<1>5. NodesIn(n) = NodesIn(r)
  BY <1>2, <1>4, RegisteredInView
<1> QED BY <1>1, <1>2, <1>3, <1>5 DEF IsSame

\* The views after p, called kind, has glued the sets S of nodes together.
IsGlued(r, n, p, kind, S) ==
  /\ IsDisjoint(n) /\ RegisteredIn(n) = RegisteredIn(r) \cup {p}
  /\ NodesIn(n) = [q \in RegisteredIn(r) \cup {p} |-> IF q = p THEN kind ELSE NodesIn(r)[q]]
  /\ BlobsIn(n) = (BlobsIn(r) \ S) \cup {(UNION S) \cup {p}}

\* A cluster c made of the clusters M and a new node p.
LEMMA JoinView ==
  ASSUME NEW r, Consistent(r), IsDisjoint(r), NEW n, Consistent(n),
         NEW c, NEW M, NEW p \in Pos, NEW kind, IsJoin(r, n, c, M, p, kind), p \notin RegisteredIn(r),
         \A d \in M : Members(r.m_clusters[d]) # {}
  PROVE  IsGlued(r, n, p, kind, {Members(r.m_clusters[d]) : d \in M})
<1> DEFINE S(d) == Members(r.m_clusters[d])
           joined == (UNION {S(d) : d \in M}) \cup {p}
<1>1. /\ M \subseteq Live(r)
      /\ Live(n) = (Live(r) \ M) \cup {c} /\ (c \in M \/ c \notin Live(r))
      /\ \A d \in Live(r) \ M : n.m_clusters[d] = r.m_clusters[d]
      /\ Members(n.m_clusters[c]) = joined
      /\ n.m_clusters[c].nodes[p] = kind
      /\ \A q \in joined \ {p} : \E d \in M : q \in S(d) /\ n.m_clusters[c].nodes[q] = r.m_clusters[d].nodes[q]
  BY DEF IsJoin
<1>2. \A d \in Live(r) : p \notin S(d)
  BY RegisteredInView
<1>3. \A d, e \in Live(r) : d # e => S(d) \cap S(e) = {}
  BY DEF IsDisjoint
<1>4. \A d \in Live(r) \ M : S(d) \cap joined = {} /\ Members(n.m_clusters[d]) = S(d) /\ d # c
  BY <1>1, <1>2, <1>3
<1>5. IsDisjoint(n)
  <2> SUFFICES ASSUME NEW d \in Live(n), NEW e \in Live(n), d # e
      PROVE  Members(n.m_clusters[d]) \cap Members(n.m_clusters[e]) = {}
    BY DEF IsDisjoint
  <2> HIDE DEF S, joined
  <2> QED BY <1>1, <1>3, <1>4
<1>6. RegisteredIn(n) = RegisteredIn(r) \cup {p}
  <2>1. ASSUME NEW q, q \in RegisteredIn(n) PROVE q \in RegisteredIn(r) \cup {p}
    <3>1. PICK d \in Live(n) : q \in Pos /\ q \in Members(n.m_clusters[d])
      BY <2>1, RegisteredInView
    <3>2. q = p \/ \E e \in Live(r) : q \in S(e)
      BY <1>1, <1>4, <3>1
    <3> QED BY <3>1, <3>2, RegisteredInView
  <2>2. ASSUME NEW q, q \in RegisteredIn(r) \cup {p} PROVE q \in RegisteredIn(n)
    <3>1. q \in Pos /\ (q = p \/ \E e \in Live(r) : q \in S(e))
      BY <2>2, RegisteredInView
    <3>2. \E d \in Live(n) : q \in Members(n.m_clusters[d])
      BY <1>1, <1>4, <3>1
    <3> QED BY <3>1, <3>2, RegisteredInView
  <2> QED BY <2>1, <2>2
<1>7. ASSUME NEW q \in RegisteredIn(n)
      PROVE  NodesIn(n)[q] = IF q = p THEN kind ELSE NodesIn(r)[q]
  <2>1. CASE q = p
    <3>1. c \in Live(n) /\ p \in Members(n.m_clusters[c])
      BY <1>1
    <3> QED BY <1>1, <1>5, <2>1, <3>1, NodeInView
  <2>2. CASE q # p /\ q \in joined
    <3>1. PICK d \in M : q \in S(d) /\ n.m_clusters[c].nodes[q] = r.m_clusters[d].nodes[q]
      BY <1>1, <2>2
    <3>2. c \in Live(n) /\ q \in Members(n.m_clusters[c]) /\ d \in Live(r)
      BY <1>1, <2>2
    <3>3. NodesIn(n)[q] = n.m_clusters[c].nodes[q]
      BY <1>5, <3>2, NodeInView
    <3>4. NodesIn(r)[q] = r.m_clusters[d].nodes[q]
      BY <3>1, <3>2, NodeInView
    <3> QED BY <2>2, <3>1, <3>3, <3>4
  <2>3. CASE q # p /\ q \notin joined
    <3>1. PICK d \in Live(n) : q \in Members(n.m_clusters[d])
      BY RegisteredInView
    <3>2. d \in Live(r) \ M /\ n.m_clusters[d] = r.m_clusters[d] /\ q \in S(d)
      BY <1>1, <1>4, <2>3, <3>1
    <3>3. NodesIn(n)[q] = n.m_clusters[d].nodes[q]
      BY <1>5, <3>1, NodeInView
    <3>4. NodesIn(r)[q] = r.m_clusters[d].nodes[q]
      BY <3>2, NodeInView
    <3> QED BY <2>3, <3>2, <3>3, <3>4
  <2> QED BY <2>1, <2>2, <2>3
<1>8. NodesIn(n) = [q \in RegisteredIn(r) \cup {p} |-> IF q = p THEN kind ELSE NodesIn(r)[q]]
  BY <1>6, <1>7, RegisteredInView
<1>9. BlobsIn(n) = (BlobsIn(r) \ {S(d) : d \in M}) \cup {joined}
  <2>1. ASSUME NEW B, B \in BlobsIn(n)
        PROVE  B \in (BlobsIn(r) \ {S(d) : d \in M}) \cup {joined}
    <3>1. PICK d \in Live(n) : B # {} /\ B = Members(n.m_clusters[d])
      BY <2>1, RegisteredInView
    <3>2. CASE d = c
      BY <1>1, <3>1, <3>2
    <3>3. CASE d # c
      <4>1. d \in Live(r) \ M /\ B = S(d) /\ B \in BlobsIn(r)
        <5>1. d \in Live(r) \ M
          BY <1>1, <3>3
        <5>2. B = S(d)
          BY <1>4, <3>1, <5>1
        <5> QED BY <3>1, <5>1, <5>2, RegisteredInView
      <4>2. \A e \in M : S(e) # B
        BY <1>1, <1>3, <3>1, <4>1
      <4> QED BY <4>1, <4>2
    <3> QED BY <3>2, <3>3
  <2>2. ASSUME NEW B, B \in (BlobsIn(r) \ {S(d) : d \in M}) \cup {joined}
        PROVE  B \in BlobsIn(n)
    <3>1. CASE B = joined
      BY <1>1, <3>1, RegisteredInView
    <3>2. CASE B \in BlobsIn(r) \ {S(d) : d \in M}
      <4>1. PICK d \in Live(r) : B # {} /\ B = S(d)
        BY <3>2, RegisteredInView
      <4>2. d \in Live(n) /\ B = Members(n.m_clusters[d])
        BY <1>1, <1>4, <3>2, <4>1
      <4> QED BY <4>1, <4>2, RegisteredInView
    <3> QED BY <2>2, <3>1, <3>2
  <2> QED BY <2>1, <2>2
<1> QED BY <1>5, <1>6, <1>8, <1>9 DEF IsGlued

(***************************************************************************)
(* A world in which devices are only placed, and change their names with   *)
(* the state of their cluster.  Every node event is the first addition of  *)
(* a node or an update to a name of the same colour; no device is lost on  *)
(* the way from the world through the two queues into the registry.        *)
(***************************************************************************)
IsNodeEvent(e) == e.name \in EventName

\* The node events of q are for nodes of the world w, of their colour, and a
\* node is added once, while it is not among the registered R.
IsScheduled(q, w, R) ==
  /\ \A i \in DOMAIN q : IsNodeEvent(q[i]) =>
       /\ q[i].name \in {"add_node", "update_node"}
       /\ q[i].pos \in Pos /\ w[q[i].pos] \in Kind
       /\ ColorOf[q[i].kind] = ColorOf[w[q[i].pos]]
       /\ q[i].name = "add_node" => q[i].pos \notin R
  /\ \A i, j \in DOMAIN q :
       q[i].name = "add_node" /\ q[j].name = "add_node" /\ q[i].pos = q[j].pos => i = j

\* The registered nodes are in the world, in the colour they are known for.
IsPainted(r, w) ==
  \A p \in RegisteredIn(r) : w[p] \in Kind /\ ColorOf[NodesIn(r)[p]] = ColorOf[w[p]]

\* The world v has the same nodes as w up to names of the same colour.
IsLike(w, v) ==
  \A p \in Pos : /\ w[p] \in Kind => v[p] \in Kind /\ ColorOf[v[p]] = ColorOf[w[p]]
                 /\ v[p] # Air => w[p] # Air

HasAdds(q) == \E i \in DOMAIN q : q[i].name = "add_node"

GrowInv ==
  /\ SafeInv /\ loaded = Block /\ IsDisjoint(reg)
  /\ phase = "events" => ~HasAdds(queue)
  /\ IsScheduled(batch, world, RegisteredIn(reg))
  /\ IsScheduled(queue, world, RegisteredIn(reg))
  /\ IsPainted(reg, world)
  /\ \A p \in Pos : world[p] # Air => p \in RegisteredIn(reg) \/ Adds(batch, p) \/ Adds(queue, p)

LEMMA ScheduledExtended ==
  ASSUME NEW q, NEW w, NEW R, IsScheduled(q, w, R), NEW t, NEW T, IsExtended(t, q, T),
         NEW v, IsLike(w, v), NEW R2, R2 \subseteq R \/ ~HasAdds(q),
         \A x \in T : IsNodeEvent(x) =>
            x.name = "update_node" /\ x.pos \in Pos /\ v[x.pos] \in Kind /\ ColorOf[x.kind] = ColorOf[v[x.pos]]
  PROVE  IsScheduled(t, v, R2) /\ (HasAdds(t) => HasAdds(q))
<1>1. \A i \in DOMAIN t : i \notin DOMAIN q => t[i].name # "add_node"
  BY DEF IsExtended, IsNodeEvent, EventName
<1>2. ASSUME NEW i \in DOMAIN t, IsNodeEvent(t[i])
      PROVE  /\ t[i].name \in {"add_node", "update_node"}
             /\ t[i].pos \in Pos /\ v[t[i].pos] \in Kind
             /\ ColorOf[t[i].kind] = ColorOf[v[t[i].pos]]
             /\ t[i].name = "add_node" => t[i].pos \notin R2
  <2>1. CASE i \in DOMAIN q
    <3>1. t[i] = q[i]
      BY <2>1 DEF IsExtended
    <3> QED BY <1>2, <2>1, <3>1 DEF IsScheduled, IsLike, HasAdds
  <2>2. CASE i \notin DOMAIN q
    <3>1. t[i] \in T
      BY <2>2 DEF IsExtended
    <3> QED BY <1>2, <3>1
  <2> QED BY <2>1, <2>2
<1>3. ASSUME NEW i \in DOMAIN t, NEW j \in DOMAIN t,
             t[i].name = "add_node", t[j].name = "add_node", t[i].pos = t[j].pos
      PROVE  i = j
  <2>1. i \in DOMAIN q /\ j \in DOMAIN q /\ t[i] = q[i] /\ t[j] = q[j]
    BY <1>1, <1>3 DEF IsExtended
  <2> QED BY <1>3, <2>1 DEF IsScheduled
<1>4. HasAdds(t) => HasAdds(q)
  BY <1>1 DEF HasAdds, IsExtended
<1> QED BY <1>2, <1>3, <1>4 DEF IsScheduled

LEMMA ScheduledTail ==
  ASSUME NEW E, NEW q \in Seq(E), q # <<>>, NEW w, NEW R, IsScheduled(q, w, R),
         NEW v, IsLike(w, v), NEW R2,
         R2 \subseteq R \/ (Head(q).name = "add_node" /\ R2 \subseteq R \cup {Head(q).pos})
  PROVE  IsScheduled(Tail(q), v, R2)
<1> DEFINE t == Tail(q)
<1>1. \A i \in DOMAIN t : i \in Nat /\ i + 1 \in DOMAIN q /\ t[i] = q[i + 1]
  BY TailEntries
<1>2. 1 \in DOMAIN q /\ Head(q) = q[1]
  BY TailEntries
<1> HIDE DEF t
<1>3. ASSUME NEW i \in DOMAIN t, IsNodeEvent(t[i])
      PROVE  /\ t[i].name \in {"add_node", "update_node"}
             /\ t[i].pos \in Pos /\ v[t[i].pos] \in Kind
             /\ ColorOf[t[i].kind] = ColorOf[v[t[i].pos]]
             /\ t[i].name = "add_node" => t[i].pos \notin R2
  <2> DEFINE j == i + 1
  <2>1. j \in DOMAIN q /\ t[i] = q[j] /\ j # 1
    BY <1>1
  <2> HIDE DEF j
  <2>2. q[j].name = "add_node" /\ Head(q).name = "add_node" => q[j].pos # Head(q).pos
    BY <1>2, <2>1 DEF IsScheduled
  <2> QED BY <1>3, <2>1, <2>2 DEF IsScheduled, IsLike
<1>4. ASSUME NEW i \in DOMAIN t, NEW j \in DOMAIN t,
             t[i].name = "add_node", t[j].name = "add_node", t[i].pos = t[j].pos
      PROVE  i = j
  <2>1. i + 1 = j + 1
    BY <1>1, <1>4 DEF IsScheduled
  <2> QED BY <1>1, <2>1
<1>5. IsScheduled(t, v, R2)
  BY <1>3, <1>4 DEF IsScheduled
<1> QED BY <1>5 DEF t

LEMMA LikeItself == ASSUME NEW w PROVE IsLike(w, w)
BY DEF IsLike

\* What a handler of an event owes to GrowInv.
LEMMA HandlerGrows ==
  ASSUME GrowInv, SafeInv', phase = "events", phase' = "events", loaded' = loaded,
         batch # <<>>, batch' = Tail(batch), batch \in Seq(DeviceEvent),
         IsLike(world, world'), NEW T, IsExtended(queue', queue, T),
         \A x \in T : IsNodeEvent(x) => /\ x.name = "update_node" /\ x.pos \in Pos
                                        /\ world'[x.pos] \in Kind
                                        /\ ColorOf[x.kind] = ColorOf[world'[x.pos]],
         IsDisjoint(reg'), IsPainted(reg', world'),
         \/ RegisteredIn(reg') = RegisteredIn(reg) /\ ~IsAdd(Head(batch))
         \/ /\ RegisteredIn(reg') = RegisteredIn(reg) \cup {Head(batch).pos}
            /\ Head(batch).name = "add_node"
  PROVE  GrowInv'
<1>1. IsScheduled(Tail(batch), world', RegisteredIn(reg'))
  BY ScheduledTail DEF GrowInv
<1>2. IsScheduled(queue', world', RegisteredIn(reg')) /\ ~HasAdds(queue')
  BY ScheduledExtended DEF GrowInv
<1>3. ASSUME NEW p \in Pos, world'[p] # Air
      PROVE  p \in RegisteredIn(reg') \/ Adds(batch', p)
  <2>1. p \in RegisteredIn(reg) \/ Adds(batch, p) \/ Adds(queue, p)
    BY <1>3 DEF GrowInv, IsLike
  <2>2. ~Adds(queue, p)
    <3> SUFFICES ASSUME NEW i \in DOMAIN queue, IsAdd(queue[i]) PROVE FALSE
      BY DEF Adds
    <3>1. IsNodeEvent(queue[i])
      BY DEF IsAdd, IsNodeEvent, EventName
    <3>2. queue[i].name = "add_node"
      BY <3>1 DEF GrowInv, IsScheduled, IsAdd
    <3> QED BY <3>2 DEF GrowInv, HasAdds
  <2>3. CASE Adds(batch, p)
    <3>1. PICK i \in DOMAIN batch : IsAdd(batch[i]) /\ batch[i].pos = p
      BY <2>3 DEF Adds
    <3>2. CASE i = 1
      BY <3>1, <3>2, TailEntries
    <3>3. CASE i # 1
      <4>1. i - 1 \in DOMAIN batch' /\ batch'[i - 1] = batch[i]
        BY <3>3, TailEntries
      <4> QED BY <3>1, <4>1 DEF Adds
    <3> QED BY <3>2, <3>3
  <2> QED BY <2>1, <2>2, <2>3
<1> QED BY <1>1, <1>2, <1>3 DEF GrowInv, HasAdds, Adds, IsAdd

\* The clusters a node called kind meets at p.
Meeting(r, p, kind) ==
  {d \in Live(r) : \E q \in Members(r.m_clusters[d]) :
     Adjacent(p, q) /\ Compatible(kind, r.m_clusters[d].nodes[q])}

\* While no node is in two clusters, the neighbours that are found lead to all
\* clusters the node meets.
LEMMA NeighboursAreMet ==
  ASSUME Consistent(reg), IsOwned(reg), IsDisjoint(reg), NEW p, NEW kind, NEW f \in Neighbours(p, kind)
  PROVE  Range(f) = Meeting(reg, p, kind)
<1>1. \A q : \A d : d \in Joinable(kind, q) <=>
        d \in Live(reg) /\ q \in Members(reg.m_clusters[d]) /\ Compatible(kind, reg.m_clusters[d].nodes[q])
  BY OwnedClusters DEF Joinable
<1>2. \A q \in Pos : \A d, e \in Joinable(kind, q) : d = e
  BY <1>1 DEF IsDisjoint
<1>3. DOMAIN f = JoinablePositions(p, kind) /\ \A q \in DOMAIN f : f[q] \in Joinable(kind, q)
  BY DEF Neighbours
<1>4. ASSUME NEW d \in Range(f) PROVE d \in Meeting(reg, p, kind)
  <2>1. PICK q \in DOMAIN f : d = f[q]
    BY DEF Range
  <2>2. d \in Joinable(kind, q) /\ Adjacent(p, q)
    BY <1>3, <2>1 DEF JoinablePositions
  <2> QED BY <1>1, <2>2 DEF Meeting
<1>5. ASSUME NEW d \in Meeting(reg, p, kind) PROVE d \in Range(f)
  <2>1. PICK q \in Members(reg.m_clusters[d]) : Adjacent(p, q) /\ Compatible(kind, reg.m_clusters[d].nodes[q])
    BY DEF Meeting
  <2>2. d \in Live(reg) /\ q \in Pos
    BY RegistryClusters, MembersType DEF Consistent, Meeting
  <2>3. d \in Joinable(kind, q)
    BY <1>1, <2>1, <2>2
  <2>4. q \in DOMAIN f
    BY <1>3, <2>1, <2>2, <2>3 DEF JoinablePositions
  <2>5. d = f[q]
    BY <1>2, <1>3, <2>2, <2>3, <2>4
  <2> QED BY <2>4, <2>5 DEF Range
<1> QED BY <1>4, <1>5

\* The clusters of Meeting are not empty.
LEMMA MetClustersHaveNodes ==
  ASSUME NEW r, NEW p, NEW kind, NEW d \in Meeting(r, p, kind)
  PROVE  d \in Live(r) /\ Members(r.m_clusters[d]) # {}
BY DEF Meeting

\* The node e is the first at its position and is joined with the clusters it
\* meets; c is the result.
IsAddition(e, c) ==
  /\ e \in Event /\ e.name = "add_node" /\ e.pos \notin RegisteredIn(reg)
  /\ world[e.pos] \in Kind /\ ColorOf[e.kind] = ColorOf[world[e.pos]]
  /\ c \in ClusterId /\ queue' = Append(queue, Refresh(c))
  /\ IsJoin(reg, reg', c, Meeting(reg, e.pos, e.kind), e.pos, e.kind)
  /\ reg'.m_clusters[c].assigns.generation_id = TRUE

LEMMA AddDeviceEffect ==
  ASSUME GrowInv, HandleAddDevice
  PROVE  \E c : IsAddition(Head(batch), c)
<1>1. PICK c \in ClusterId : handle_add_node(Head(batch), c) /\ queue' = Append(queue, Refresh(c))
  BY DEF HandleAddDevice
<1>2. /\ batch # <<>> /\ batch \in Seq(DeviceEvent) /\ IsAdd(Head(batch))
  BY TakenIsSafe DEF HandleAddDevice, IsAdd, GrowInv
<1>3. Head(batch) \in Event
  BY <1>2, DeviceEvents, TakenNodeEvent DEF HandleAddDevice, EventName
<1> DEFINE e == Head(batch)
<1>4. 1 \in DOMAIN batch /\ batch[1] = e
  BY <1>2, TailEntries
<1>5. /\ e.name = "add_node" /\ e.pos \notin RegisteredIn(reg)
      /\ world[e.pos] \in Kind /\ ColorOf[e.kind] = ColorOf[world[e.pos]]
  BY <1>2, <1>4 DEF GrowInv, IsScheduled, IsAdd, IsNodeEvent, EventName
<1>6. /\ reg'.m_clusters[c].assigns.generation_id = TRUE
      /\ \E f \in Neighbours(e.pos, e.kind) : IsJoin(reg, reg', c, Range(f), e.pos, e.kind)
  BY <1>1, <1>3, HandleAddNodeJoins DEF GrowInv, SafeInv, IInv
<1>7. IsJoin(reg, reg', c, Meeting(reg, e.pos, e.kind), e.pos, e.kind)
  BY <1>6, NeighboursAreMet DEF GrowInv, SafeInv, IInv
<1> QED BY <1>1, <1>3, <1>5, <1>6, <1>7 DEF IsAddition

\* The views after an addition.
LEMMA AdditionView ==
  ASSUME GrowInv, SafeInv', NEW e, NEW c, IsAddition(e, c)
  PROVE  /\ e.pos \in Pos /\ e.kind \in Kind
         /\ IsGlued(reg, reg', e.pos, e.kind,
                    {Members(reg.m_clusters[d]) : d \in Meeting(reg, e.pos, e.kind)})
<1>1. Consistent(reg) /\ Consistent(reg)' /\ IsDisjoint(reg)
  BY DEF GrowInv, SafeInv, IInv
<1>2. Consistent(reg')
  BY <1>1
<1>3. e.pos \in Pos /\ e.kind \in Kind
  BY EventFields DEF IsAddition
<1>4. \A d \in Meeting(reg, e.pos, e.kind) : Members(reg.m_clusters[d]) # {}
  BY MetClustersHaveNodes
<1> DEFINE n == reg'
           M == Meeting(reg, e.pos, e.kind)
<1>5. /\ IsJoin(reg, n, c, M, e.pos, e.kind) /\ e.pos \notin RegisteredIn(reg) /\ Consistent(n)
      /\ \A d \in M : Members(reg.m_clusters[d]) # {}
  BY <1>2, <1>4 DEF IsAddition
<1> HIDE DEF n, M
<1>6. IsGlued(reg, n, e.pos, e.kind, {Members(reg.m_clusters[d]) : d \in M})
  BY <1>1, <1>3, <1>5, JoinView
<1> QED BY <1>3, <1>6 DEF n, M

LEMMA AddDeviceGrows ==
  ASSUME GrowInv, SafeInv', HandleAddDevice
  PROVE  GrowInv'
<1> DEFINE e == Head(batch)
<1>1. PICK c : IsAddition(e, c)
  BY AddDeviceEffect
<1>2. /\ phase = "events" /\ batch # <<>> /\ batch' = Tail(batch)
      /\ batch \in Seq(DeviceEvent) /\ queue \in Seq(DeviceEvent)
      /\ UNCHANGED <<world, loaded, phase>>
  BY TakenIsSafe DEF HandleAddDevice, GrowInv
<1>3. e.name = "add_node"
  BY <1>1 DEF IsAddition
<1> HIDE DEF e
<1>4. /\ IsDisjoint(reg') /\ RegisteredIn(reg') = RegisteredIn(reg) \cup {e.pos}
      /\ NodesIn(reg') = [q \in RegisteredIn(reg) \cup {e.pos} |->
                            IF q = e.pos THEN e.kind ELSE NodesIn(reg)[q]]
  BY <1>1, AdditionView DEF IsGlued
<1>5. IsPainted(reg', world')
  <2> SUFFICES ASSUME NEW p \in RegisteredIn(reg')
      PROVE  world[p] \in Kind /\ ColorOf[NodesIn(reg')[p]] = ColorOf[world[p]]
    BY <1>2 DEF IsPainted
  <2>1. CASE p = e.pos
    BY <2>1, <1>1, <1>4 DEF IsAddition
  <2>2. CASE p # e.pos
    BY <2>2, <1>4 DEF GrowInv, IsPainted
  <2> QED BY <2>1, <2>2
<1> DEFINE x == Refresh(c)
<1>6. x \in DeviceEvent /\ ~IsNodeEvent(x) /\ queue' = Append(queue, x)
  BY <1>1, DeviceEventsAreTyped DEF Refresh, IsNodeEvent, EventName, IsAddition
<1> HIDE DEF x
<1>7. IsExtended(queue', queue, {x})
  <2>1. IsExtended(Append(queue, x), queue, {x})
    BY <1>2, <1>6, AppendIsExtended
  <2> QED BY <2>1, <1>6
<1>8. IsLike(world, world')
  BY <1>2, LikeItself
<1> QED BY <1>2, <1>3, <1>4, <1>5, <1>6, <1>7, <1>8, HandlerGrows DEF e

\* The name of a member changes.
LEMMA UpdateView ==
  ASSUME NEW r, Consistent(r), IsDisjoint(r), NEW n, Consistent(n),
         NEW c \in Live(r), NEW p \in Pos, NEW kind \in Kind, n = UpdateNodeInCluster(r, c, p, kind)
  PROVE  IsSame(r, n) \/ IsRenamed(r, n, p, kind)
<1> DEFINE k == r.m_clusters[c]
           u == UpdateNode(k, p, kind)
<1>1. n.m_clusters = [r.m_clusters EXCEPT ![c] = u]
  BY UpdateNodeEffect
<1>2. k \in Cluster /\ ClusterAgrees(k)
  BY RegistryClusters DEF Consistent
<1>3. CASE p \notin Members(k)
  <2>1. u = k
    BY <1>3 DEF UpdateNode
  <2> HIDE DEF u
  <2>2. Live(n) = Live(r) /\ \A d \in Live(r) : n.m_clusters[d] = r.m_clusters[d]
    BY <1>1, <2>1, RegistryTables DEF Live
  <2> HIDE DEF k
  <2>3. IsSame(r, n)
    BY <2>2, SameView
  <2> QED BY <2>3
<1>4. CASE p \in Members(k)
  <2>1. /\ Members(u) = Members(k) /\ u.nodes[p] = kind
        /\ \A q \in Members(k) \ {p} : u.nodes[q] = k.nodes[q]
    BY <1>2, <1>4, UpdateNodeEntries
  <2> HIDE DEF u
  <2>2. /\ Live(n) = Live(r) /\ n.m_clusters[c] = u
        /\ \A d \in Live(r) \ {c} : n.m_clusters[d] = r.m_clusters[d]
    BY <1>1, RegistryTables DEF Live
  <2>3. \A d \in Live(r) : Members(n.m_clusters[d]) = Members(r.m_clusters[d])
    BY <2>1, <2>2
  <2>4. IsDisjoint(n)
    BY <2>2, <2>3 DEF IsDisjoint
  <2>5. RegisteredIn(n) = RegisteredIn(r)
    <3>1. \A q : HoldersIn(n, q) = HoldersIn(r, q)
      BY <2>2, <2>3 DEF HoldersIn
    <3> QED BY <3>1 DEF RegisteredIn
  <2>6. BlobsIn(n) = BlobsIn(r)
    <3>1. \A B \in BlobsIn(n) : B \in BlobsIn(r)
      <4> SUFFICES ASSUME NEW B \in BlobsIn(n) PROVE B \in BlobsIn(r)
        OBVIOUS
      <4>1. PICK d \in Live(n) : B # {} /\ B = Members(n.m_clusters[d])
        BY RegisteredInView
      <4> QED BY <2>2, <2>3, <4>1, RegisteredInView
    <3>2. \A B \in BlobsIn(r) : B \in BlobsIn(n)
      <4> SUFFICES ASSUME NEW B \in BlobsIn(r) PROVE B \in BlobsIn(n)
        OBVIOUS
      <4>1. PICK d \in Live(r) : B # {} /\ B = Members(r.m_clusters[d])
        BY RegisteredInView
      <4> QED BY <2>2, <2>3, <4>1, RegisteredInView
    <3> QED BY <3>1, <3>2
  <2>7. p \in RegisteredIn(r)
    BY <1>4, NodeInView
  <2>8. ASSUME NEW q \in RegisteredIn(r)
        PROVE  NodesIn(n)[q] = IF q = p THEN kind ELSE NodesIn(r)[q]
    <3>1. PICK d \in Live(r) : q \in Members(r.m_clusters[d])
      BY RegisteredInView
    <3>2. NodesIn(r)[q] = r.m_clusters[d].nodes[q]
      BY <3>1, NodeInView
    <3>3. NodesIn(n)[q] = n.m_clusters[d].nodes[q]
      BY <2>2, <2>3, <2>4, <3>1, NodeInView
    <3>4. CASE d = c
      BY <2>1, <2>2, <3>1, <3>2, <3>3, <3>4
    <3>5. CASE d # c
      BY <1>4, <2>2, <3>1, <3>2, <3>3, <3>5 DEF IsDisjoint
    <3> QED BY <3>4, <3>5
  <2>9. NodesIn(n) = [NodesIn(r) EXCEPT ![p] = kind]
    BY <2>5, <2>7, <2>8, RegisteredInView
  <2> QED BY <2>4, <2>5, <2>6, <2>7, <2>9 DEF IsRenamed
<1> QED BY <1>3, <1>4

LEMMA UpdateDeviceEffect ==
  ASSUME GrowInv, SafeInv', HandleUpdateNode
  PROVE  LET e == Head(batch)
         IN /\ e \in Event /\ e.name = "update_node"
            /\ world[e.pos] \in Kind /\ ColorOf[e.kind] = ColorOf[world[e.pos]]
            /\ IsSame(reg, reg') \/ IsRenamed(reg, reg', e.pos, e.kind)
<1> DEFINE e == Head(batch)
<1>1. /\ batch # <<>> /\ batch \in Seq(DeviceEvent) /\ e.name = "update_node"
  BY TakenIsSafe DEF HandleUpdateNode, GrowInv
<1>2. e \in Event /\ e.pos \in Pos /\ e.kind \in Kind
  BY <1>1, DeviceEvents, TakenNodeEvent, EventFields DEF HandleUpdateNode, EventName
<1>3. 1 \in DOMAIN batch /\ batch[1] = e
  BY <1>1, TailEntries
<1>4. world[e.pos] \in Kind /\ ColorOf[e.kind] = ColorOf[world[e.pos]]
  BY <1>1, <1>3 DEF GrowInv, IsScheduled, IsNodeEvent, EventName
<1>5. PICK c \in Live(reg) : reg' = UpdateNodeInCluster(reg, c, e.pos, e.kind)
  BY DEF HandleUpdateNode, handle_update_node, ClustersOfGroup
<1> HIDE DEF e
<1>6. Consistent(reg) /\ IsDisjoint(reg)
  BY DEF GrowInv, SafeInv, IInv
<1> DEFINE n == reg'
<1>7. Consistent(n) /\ n = UpdateNodeInCluster(reg, c, e.pos, e.kind)
  BY <1>5 DEF SafeInv, IInv
<1> HIDE DEF n
<1>8. IsSame(reg, n) \/ IsRenamed(reg, n, e.pos, e.kind)
  BY <1>2, <1>6, <1>7, UpdateView
<1> QED BY <1>1, <1>2, <1>4, <1>8 DEF e, n

LEMMA UpdateDeviceGrows ==
  ASSUME GrowInv, SafeInv', HandleUpdateNode
  PROVE  GrowInv'
<1> DEFINE e == Head(batch)
<1>1. /\ phase = "events" /\ batch # <<>> /\ batch' = Tail(batch)
      /\ batch \in Seq(DeviceEvent) /\ queue \in Seq(DeviceEvent)
      /\ UNCHANGED <<world, loaded, queue, phase>>
  BY TakenIsSafe DEF HandleUpdateNode, GrowInv
<1>2. /\ e \in Event /\ e.name = "update_node"
      /\ world[e.pos] \in Kind /\ ColorOf[e.kind] = ColorOf[world[e.pos]]
      /\ IsSame(reg, reg') \/ IsRenamed(reg, reg', e.pos, e.kind)
  BY UpdateDeviceEffect
<1> HIDE DEF e
<1>3. IsDisjoint(reg') /\ RegisteredIn(reg') = RegisteredIn(reg)
  BY <1>2 DEF IsSame, IsRenamed
<1>4. IsPainted(reg', world')
  <2> SUFFICES ASSUME NEW p \in RegisteredIn(reg)
      PROVE  world[p] \in Kind /\ ColorOf[NodesIn(reg')[p]] = ColorOf[world[p]]
    BY <1>1, <1>3 DEF IsPainted
  <2>1. world[p] \in Kind /\ ColorOf[NodesIn(reg)[p]] = ColorOf[world[p]]
    BY DEF GrowInv, IsPainted
  <2>2. NodesIn(reg')[p] = NodesIn(reg)[p] \/ (p = e.pos /\ NodesIn(reg')[p] = e.kind)
    BY <1>2, RegisteredInView DEF IsSame, IsRenamed
  <2> QED BY <2>1, <2>2, <1>2
<1>5. IsExtended(queue', queue, {}) /\ IsLike(world, world')
  BY <1>1, SameIsExtended, LikeItself
<1>6. ~IsAdd(Head(batch))
  BY <1>2 DEF IsAdd, e
<1> QED BY <1>1, <1>3, <1>4, <1>5, <1>6, HandlerGrows

\* Nothing leaves a cluster as long as all blocks are there.
LEMMA NoBlocksExpired ==
  ASSUME NEW k \in Cluster
  PROVE  OnBlocksExpired(k, {}) = k
<1>1. NodesInBlocks(k, {}) = {}
  BY DEF NodesInBlocks
<1>2. [k EXCEPT !.block_nodes = @ \ ({} \X Pos)] = k
  BY DEF Cluster
<1>3. Restrict(k.nodes, Members(k) \ {}) = k.nodes
  <2>1. IsTable(k.nodes, Pos, Kind)
    BY NodeTables DEF Cluster
  <2> QED BY <2>1 DEF Restrict, Members, IsTable
<1>4. WithoutGroupsOf(k, {}) = k.group_nodes
  <2>1. DOMAIN Restrict(k.nodes, {} \cap Members(k)) = {}
    BY DEF Restrict
  <2>2. GroupPairs(Restrict(k.nodes, {} \cap Members(k))) = {}
    BY <2>1 DEF GroupPairs
  <2> QED BY <2>2 DEF WithoutGroupsOf
<1>5. k.block_nodes \ BlockPairs({} \cap Members(k)) = k.block_nodes
  BY DEF BlockPairs
<1> DEFINE nodes == Restrict(k.nodes, Members(k) \ {})
           groups == WithoutGroupsOf(k, {})
           blocks == k.block_nodes \ BlockPairs({} \cap Members(k))
<1>6. RemoveNodes(k, {}) = [k EXCEPT !.nodes = nodes, !.group_nodes = groups, !.block_nodes = blocks]
  BY DEF RemoveNodes
<1> HIDE DEF nodes, groups, blocks
<1>7. nodes = k.nodes /\ groups = k.group_nodes /\ blocks = k.block_nodes
  BY <1>3, <1>4, <1>5 DEF nodes, groups, blocks
<1>8. RemoveNodes(k, {}) = k
  BY <1>6, <1>7 DEF Cluster
<1> QED BY <1>1, <1>2, <1>8 DEF OnBlocksExpired

\* While all blocks are there a new update only ages the clusters' generations.
LEMMA BeginUpdateEffect ==
  ASSUME Consistent(reg), loaded = Block, BeginUpdate
  PROVE  /\ Live(reg') = Live(reg)
         /\ \A c \in Live(reg) :
              reg'.m_clusters[c] = [reg.m_clusters[c] EXCEPT !.assigns.generation_id = FALSE]
<1> DEFINE u == UpdateActiveBlocks(reg, loaded, BlockTimeout)
<1>1. ExpiredBlocks(reg, loaded, BlockTimeout) = {}
  BY RegistryTables DEF ExpiredBlocks, StaleBlocks, IsRegistry, IsTable
<1>2. Consistent(u) /\ Live(u) = Live(reg)
  BY UpdateActiveBlocksConsistent, RegistryAssumption
<1>3. ASSUME NEW c \in Live(reg) PROVE u.m_clusters[c] = reg.m_clusters[c]
  <2>1. reg.m_clusters[c] \in Cluster
    BY RegistryClusters DEF Consistent
  <2>2. u.m_clusters[c] = OnBlocksExpired(reg.m_clusters[c], {})
    <3>1. BlockTimeout \in Nat
      BY RegistryAssumption
    <3> QED BY <1>1, <3>1, UpdateActiveBlocksEffect
  <2> HIDE DEF u
  <2> QED BY <2>1, <2>2, NoBlocksExpired
<1>4. reg' = AgeGenerations(u)
  BY DEF BeginUpdate
<1> HIDE DEF u
<1> QED BY <1>2, <1>3, <1>4, AgeGenerationsEffect

\* What the clusters are told about themselves does not show in the views.
LEMMA SetAssignsView ==
  ASSUME NEW r, Consistent(r), IsDisjoint(r), NEW n, Consistent(n),
         NEW c \in Live(r), NEW a, n = SetAssigns(r, c, a)
  PROVE  IsSame(r, n)
<1>1. /\ Live(n) = Live(r) /\ n.m_clusters[c] = [r.m_clusters[c] EXCEPT !.assigns = a]
      /\ \A d \in Live(r) \ {c} : n.m_clusters[d] = r.m_clusters[d]
  BY RegistryTables DEF SetAssigns, IsTables, Live
<1>2. r.m_clusters[c] \in Cluster
  BY RegistryClusters DEF Consistent
<1>3. \A d \in Live(r) : n.m_clusters[d].nodes = r.m_clusters[d].nodes
  BY <1>1, <1>2 DEF Cluster
<1> QED BY <1>1, <1>3, SameView DEF Members

\* The steps that do not change who is a member and under which name.
Quiet ==
  \/ BeginUpdate \/ EndUpdate \/ EndShortUpdate
  \/ HandleRefresh \/ HandleRefreshSkipped
  \/ HandleTransition \/ HandleTransitionSkipped
  \/ \E p \in Pos, kind \in Kind : PlaceNode(p, kind) \/ Work(p, kind)
  \/ UNCHANGED vars

LEMMA QuietView ==
  ASSUME SafeInv, SafeInv', IsDisjoint(reg), loaded = Block, Quiet
  PROVE  IsSame(reg, reg')
<1> DEFINE n == reg'
<1>1. Consistent(reg) /\ Consistent(n)
  BY DEF SafeInv, IInv
<1>2. CASE BeginUpdate
  <2>1. /\ Live(reg') = Live(reg)
        /\ \A c \in Live(reg) :
             reg'.m_clusters[c] = [reg.m_clusters[c] EXCEPT !.assigns.generation_id = FALSE]
    BY <1>1, <1>2, BeginUpdateEffect
  <2>2. \A c \in Live(reg) : reg.m_clusters[c] \in Cluster
    BY <1>1, RegistryClusters DEF Consistent
  <2>3. Live(n) = Live(reg) /\ \A c \in Live(reg) : n.m_clusters[c].nodes = reg.m_clusters[c].nodes
    BY <2>1, <2>2 DEF Cluster
  <2> HIDE DEF n
  <2>4. IsSame(reg, n)
    BY <1>1, <2>3, SameView
  <2> QED BY <2>4 DEF n
<1>3. CASE EndUpdate \/ EndShortUpdate
  <2>1. /\ \A c \in Live(n) : c \in Live(reg) /\ n.m_clusters[c] = reg.m_clusters[c]
        /\ \A c \in Live(reg) : Members(reg.m_clusters[c]) # {} => c \in Live(n)
    BY <1>1, <1>3, EndUpdateEffect
  <2> HIDE DEF n
  <2>2. IsSame(reg, n)
    BY <1>1, <2>1, SameView
  <2> QED BY <2>2 DEF n
<1>4. CASE HandleRefresh \/ HandleTransition
  <2> DEFINE c == Head(batch).cluster_id
  <2>1. c \in Live(reg) /\ \E a : n = SetAssigns(reg, c, a)
    BY <1>4 DEF HandleRefresh, HandleTransition
  <2> HIDE DEF n, c
  <2>2. IsSame(reg, n)
    BY <1>1, <2>1, SetAssignsView
  <2> QED BY <2>2 DEF n
<1>5. ASSUME reg' = reg PROVE IsSame(reg, reg')
  BY <1>5 DEF IsSame
<1> QED
  BY <1>2, <1>3, <1>4, <1>5
     DEF Quiet, HandleRefreshSkipped, HandleTransitionSkipped, PlaceNode, Work, vars

\* The event handlers that leave the views, and the names of the devices or
\* change them with the state.
LEMMA RefreshGrows ==
  ASSUME GrowInv, SafeInv', HandleRefresh \/ HandleRefreshSkipped \/ HandleTransitionSkipped
  PROVE  GrowInv'
<1>1. /\ phase = "events" /\ batch # <<>> /\ batch' = Tail(batch)
      /\ batch \in Seq(DeviceEvent) /\ queue \in Seq(DeviceEvent)
      /\ Head(batch).name \in {"refresh_controller", "transition_state"}
  BY TakenIsSafe DEF HandleRefresh, HandleRefreshSkipped, HandleTransitionSkipped, GrowInv
<1>2. UNCHANGED <<world, loaded, phase>>
  BY DEF HandleRefresh, HandleRefreshSkipped, HandleTransitionSkipped
<1>3. IsSame(reg, reg')
  BY QuietView DEF Quiet, GrowInv
<1>4. IsDisjoint(reg') /\ RegisteredIn(reg') = RegisteredIn(reg) /\ IsPainted(reg', world')
  BY <1>2, <1>3 DEF IsSame, GrowInv, IsPainted
<1>5. \E T : IsExtended(queue', queue, T) /\ \A x \in T : ~IsNodeEvent(x)
  <2>1. CASE HandleRefresh
    <3>1. PICK T : IsExtended(queue', queue, T) /\ \A x \in T : x.name = "transition_state"
      BY <2>1, RefreshExtends DEF GrowInv
    <3> QED BY <3>1 DEF IsNodeEvent, EventName
  <2>2. CASE HandleRefreshSkipped \/ HandleTransitionSkipped
    BY <2>2, <1>1, SameIsExtended DEF HandleRefreshSkipped, HandleTransitionSkipped
  <2> QED BY <2>1, <2>2
<1>6. PICK T : IsExtended(queue', queue, T) /\ \A x \in T : ~IsNodeEvent(x)
  BY <1>5
<1>7. IsLike(world, world') /\ ~IsAdd(Head(batch))
  BY <1>1, <1>2, LikeItself DEF IsAdd
<1> QED BY <1>1, <1>2, <1>4, <1>6, <1>7, HandlerGrows

LEMMA TransitionGrows ==
  ASSUME GrowInv, SafeInv', HandleTransition
  PROVE  GrowInv'
<1> DEFINE c == Head(batch).cluster_id
           state == Head(batch).state
<1>1. /\ phase = "events" /\ batch # <<>> /\ batch' = Tail(batch)
      /\ batch \in Seq(DeviceEvent) /\ Head(batch).name = "transition_state"
  BY TakenIsSafe DEF HandleTransition, GrowInv
<1>2. UNCHANGED <<loaded, phase>>
  BY DEF HandleTransition
<1>3. PICK name : IsTransition(c, state, name)
  BY TransitionEffect DEF GrowInv, SafeInv
<1> HIDE DEF c, state
<1> DEFINE C == Changing(name)
           T == {Renaming(p, name) : p \in C}
<1>4. /\ IsExtended(queue', queue, T) /\ state \in DeviceState
      /\ world' = [p \in Pos |-> IF p \in C THEN name[p] ELSE world[p]]
      /\ \A p \in C : /\ p \in Pos /\ world[p] \in Kind
                      /\ name[p] \in Kind /\ name[p] \in VariantOf[world[p]][state]
  BY <1>3 DEF IsTransition, Changing
<1> HIDE DEF C
<1>5. \A p \in C : ColorOf[name[p]] = ColorOf[world[p]]
  BY <1>4, VariantsShare DEF Shares
<1>6. IsLike(world, world')
  <2> SUFFICES ASSUME NEW p \in Pos
      PROVE  /\ world[p] \in Kind => world'[p] \in Kind /\ ColorOf[world'[p]] = ColorOf[world[p]]
             /\ world'[p] # Air => world[p] # Air
    BY DEF IsLike
  <2>1. CASE p \in C
    BY <2>1, <1>4, <1>5, SimpleClusterAssumption
  <2>2. CASE p \notin C
    BY <2>2, <1>4
  <2> QED BY <2>1, <2>2
<1>7. \A x \in T : /\ x.name = "update_node" /\ x.pos \in Pos /\ world'[x.pos] \in Kind
                   /\ ColorOf[x.kind] = ColorOf[world'[x.pos]]
  BY <1>4 DEF Renaming
<1> HIDE DEF T
<1>8. IsSame(reg, reg')
  BY QuietView DEF Quiet, GrowInv
<1>9. IsDisjoint(reg') /\ RegisteredIn(reg') = RegisteredIn(reg)
  BY <1>8 DEF IsSame
<1>10. IsPainted(reg', world')
  <2> SUFFICES ASSUME NEW p \in RegisteredIn(reg)
      PROVE  world'[p] \in Kind /\ ColorOf[NodesIn(reg)[p]] = ColorOf[world'[p]]
    BY <1>8 DEF IsSame, IsPainted
  <2>1. world[p] \in Kind /\ ColorOf[NodesIn(reg)[p]] = ColorOf[world[p]] /\ p \in Pos
    BY DEF GrowInv, IsPainted, RegisteredIn
  <2> QED BY <2>1, <1>6 DEF IsLike
<1>11. ~IsAdd(Head(batch))
  BY <1>1 DEF IsAdd
<1> QED BY <1>1, <1>2, <1>4, <1>6, <1>7, <1>9, <1>10, <1>11, HandlerGrows

LEMMA BeginUpdateGrows ==
  ASSUME GrowInv, SafeInv', BeginUpdate
  PROVE  GrowInv'
<1>1. /\ phase = "idle" /\ phase' = "events" /\ batch' = queue /\ queue' = <<>> /\ batch = <<>>
      /\ UNCHANGED <<world, loaded>>
  BY DEF BeginUpdate, GrowInv, SafeInv
<1>2. IsSame(reg, reg')
  BY QuietView DEF Quiet, GrowInv
<1>3. IsDisjoint(reg') /\ RegisteredIn(reg') = RegisteredIn(reg) /\ IsPainted(reg', world')
  BY <1>1, <1>2 DEF IsSame, GrowInv, IsPainted
<1>4. /\ IsScheduled(batch', world', RegisteredIn(reg'))
      /\ IsScheduled(queue', world', RegisteredIn(reg')) /\ ~HasAdds(queue')
  BY <1>1, <1>3 DEF GrowInv, IsScheduled, HasAdds
<1>5. \A p \in Pos : world'[p] # Air =>
        p \in RegisteredIn(reg') \/ Adds(batch', p) \/ Adds(queue', p)
  BY <1>1, <1>3 DEF GrowInv, Adds
<1> QED BY <1>1, <1>3, <1>4, <1>5 DEF GrowInv, Adds, IsAdd, HasAdds

LEMMA EndUpdateGrows ==
  ASSUME GrowInv, SafeInv', EndUpdate \/ EndShortUpdate \/ UNCHANGED vars
  PROVE  GrowInv'
<1>1. /\ UNCHANGED <<world, loaded, queue, batch>> /\ (phase' = "idle" \/ phase' = phase)
  BY DEF EndUpdate, EndShortUpdate, vars
<1>2. IsSame(reg, reg')
  BY QuietView DEF Quiet, GrowInv
<1>3. IsDisjoint(reg') /\ RegisteredIn(reg') = RegisteredIn(reg) /\ IsPainted(reg', world')
  BY <1>1, <1>2 DEF IsSame, GrowInv, IsPainted
<1> QED BY <1>1, <1>3 DEF GrowInv, Adds, IsAdd, HasAdds, IsScheduled

LEMMA PlaceNodeGrows ==
  ASSUME GrowInv, SafeInv', NEW p \in Pos, NEW kind \in Kind, PlaceNode(p, kind)
  PROVE  GrowInv'
<1> DEFINE e == [name |-> "add_node", pos |-> p, kind |-> kind]
<1>1. /\ phase = "idle" /\ UNCHANGED <<reg, loaded, batch, phase>> /\ world[p] = Air
      /\ world' = [world EXCEPT ![p] = kind] /\ queue' = Append(queue, e)
  BY DEF PlaceNode, MayAct, Schedule
<1>2. /\ queue \in Seq(DeviceEvent) /\ e \in DeviceEvent /\ world \in [Pos -> Kind \cup {Air}]
      /\ batch = <<>>
  BY <1>1, DeviceEvents, EventIsTyped DEF GrowInv, SafeInv, IInv, WorldInv, EventName
<1>3. e.name = "add_node" /\ e.pos = p /\ e.kind = kind
  OBVIOUS
<1> HIDE DEF e
<1>4. IsExtended(queue', queue, {e})
  BY <1>1, <1>2, AppendIsExtended
<1>5. \A q \in Pos : world'[q] = IF q = p THEN kind ELSE world[q]
  BY <1>1, <1>2
<1>6. Air \notin Kind
  BY SimpleClusterAssumption
<1>7. p \notin RegisteredIn(reg)
  BY <1>1, <1>6 DEF GrowInv, IsPainted
<1>8. IsPainted(reg, world')
  BY <1>5, <1>7 DEF GrowInv, IsPainted, RegisteredIn
<1>9. IsScheduled(queue', world', RegisteredIn(reg))
  <2>1. \A i \in DOMAIN queue' : \/ i \in DOMAIN queue /\ queue'[i] = queue[i]
                                 \/ i \notin DOMAIN queue /\ queue'[i] = e
    BY <1>4 DEF IsExtended
  <2>2. \A i \in DOMAIN queue : IsNodeEvent(queue[i]) => queue[i].pos \in Pos /\ queue[i].pos # p
    BY <1>1, <1>6 DEF GrowInv, IsScheduled
  <2>3. ASSUME NEW i \in DOMAIN queue', IsNodeEvent(queue'[i])
        PROVE  /\ queue'[i].name \in {"add_node", "update_node"}
               /\ queue'[i].pos \in Pos /\ world'[queue'[i].pos] \in Kind
               /\ ColorOf[queue'[i].kind] = ColorOf[world'[queue'[i].pos]]
               /\ queue'[i].name = "add_node" => queue'[i].pos \notin RegisteredIn(reg)
    <3>1. CASE i \in DOMAIN queue /\ queue'[i] = queue[i]
      BY <2>2, <2>3, <3>1, <1>5 DEF GrowInv, IsScheduled
    <3>2. CASE queue'[i] = e
      BY <3>2, <1>3, <1>5, <1>7
    <3> QED BY <2>1, <3>1, <3>2
  <2>4. ASSUME NEW i \in DOMAIN queue', NEW j \in DOMAIN queue',
               queue'[i].name = "add_node", queue'[j].name = "add_node", queue'[i].pos = queue'[j].pos
        PROVE  i = j
    <3>1. \A k \in DOMAIN queue : queue[k].name = "add_node" => queue[k].pos # p
      BY <2>2 DEF IsNodeEvent, EventName
    <3>2. CASE i \in DOMAIN queue /\ j \in DOMAIN queue
      BY <2>1, <2>4, <3>2 DEF GrowInv, IsScheduled
    <3>3. CASE i \notin DOMAIN queue /\ j \in DOMAIN queue
      BY <2>1, <2>4, <3>1, <3>3, <1>3
    <3>4. CASE i \in DOMAIN queue /\ j \notin DOMAIN queue
      BY <2>1, <2>4, <3>1, <3>4, <1>3
    <3>5. CASE i \notin DOMAIN queue /\ j \notin DOMAIN queue
      <4> DEFINE t == Append(queue, e)
      <4>1. DOMAIN t = 1..Len(queue) + 1 /\ DOMAIN queue = 1..Len(queue) /\ Len(queue) \in Nat
        BY <1>2, AppendProperties, LenProperties
      <4>2. queue' = t
        BY <1>1
      <4> HIDE DEF t
      <4> QED BY <4>1, <4>2, <3>5
    <3> QED BY <3>2, <3>3, <3>4, <3>5
  <2> QED BY <2>3, <2>4 DEF IsScheduled
<1>10. ASSUME NEW q \in Pos, world'[q] # Air
       PROVE  q \in RegisteredIn(reg) \/ Adds(queue', q)
  <2>1. CASE q = p
    <3>1. PICK i \in DOMAIN queue' : queue'[i] = e
      BY <1>4 DEF IsExtended
    <3> QED BY <2>1, <3>1, <1>3 DEF Adds, IsAdd
  <2>2. CASE q # p
    <3>1. q \in RegisteredIn(reg) \/ Adds(queue, q)
      BY <1>2, <1>5, <1>10, <2>2 DEF GrowInv, Adds
    <3> QED BY <3>1, <1>4 DEF Adds, IsExtended
  <2> QED BY <2>1, <2>2
<1>11. IsScheduled(batch', world', RegisteredIn(reg'))
  BY <1>1, <1>2 DEF IsScheduled
<1> QED BY <1>1, <1>8, <1>9, <1>10, <1>11 DEF GrowInv, Adds, IsAdd, HasAdds

\* A device that works has a name of its colour before and after.
LEMMA WorkRenames ==
  ASSUME IInv(DeviceEvent), NEW p \in Pos, NEW kind \in Kind, Work(p, kind)
  PROVE  /\ Shares(world[p], kind) /\ kind \in OwnNames[kind]
         /\ \A q \in Pos : world'[q] = IF q = p THEN kind ELSE world[q]
         /\ IsExtended(queue', queue, {[name |-> "update_node", pos |-> p, kind |-> kind]})
<1> DEFINE e == [name |-> "update_node", pos |-> p, kind |-> kind]
<1>1. /\ world[p] \in Kind /\ kind \in OwnNames[world[p]] /\ world' = [world EXCEPT ![p] = kind]
      /\ e \in DeviceEvent /\ queue' = Append(queue, e)
  BY WorkEffect
<1>2. queue \in Seq(DeviceEvent) /\ world \in [Pos -> Kind \cup {Air}]
  BY DEF IInv, WorldInv
<1>3. Shares(world[p], kind)
  BY <1>1, VariantsShare
<1>4. kind \in OwnNames[kind]
  BY <1>1, <1>3 DEF Shares
<1>5. IsExtended(queue', queue, {e})
  <2> HIDE DEF e
  <2> QED BY <1>1, <1>2, AppendIsExtended
<1> QED BY <1>1, <1>2, <1>3, <1>4, <1>5

LEMMA WorkGrows ==
  ASSUME GrowInv, SafeInv', NEW p \in Pos, NEW kind \in Kind, Work(p, kind)
  PROVE  GrowInv'
<1> DEFINE e == [name |-> "update_node", pos |-> p, kind |-> kind]
<1>1. /\ phase = "events" /\ batch = <<>> /\ UNCHANGED <<reg, loaded, batch, phase>>
      /\ world[p] \in Kind
  BY WorkEffect DEF GrowInv, SafeInv
<1>2. /\ Shares(world[p], kind) /\ IsExtended(queue', queue, {e})
      /\ \A q \in Pos : world'[q] = IF q = p THEN kind ELSE world[q]
  BY WorkRenames DEF GrowInv, SafeInv
<1>3. \A x \in {e} : x.name = "update_node" /\ x.pos = p /\ x.kind = kind
  OBVIOUS
<1> HIDE DEF e
<1>4. IsLike(world, world')
  BY <1>1, <1>2, SimpleClusterAssumption DEF IsLike, Shares
<1>5. IsScheduled(queue', world', RegisteredIn(reg)) /\ ~HasAdds(queue')
  BY <1>1, <1>2, <1>3, <1>4, ScheduledExtended DEF GrowInv
<1>6. IsScheduled(batch', world', RegisteredIn(reg))
  BY <1>1 DEF IsScheduled
<1>7. IsPainted(reg, world')
  BY <1>4 DEF GrowInv, IsPainted, IsLike, RegisteredIn
<1>8. ASSUME NEW q \in Pos, world'[q] # Air
      PROVE  q \in RegisteredIn(reg) \/ Adds(batch', q) \/ Adds(queue', q)
  <2>1. q \in RegisteredIn(reg) \/ Adds(batch, q) \/ Adds(queue, q)
    BY <1>4, <1>8 DEF GrowInv, IsLike
  <2> QED BY <1>1, <1>2, <2>1, ExtendedAdds
<1> QED BY <1>1, <1>5, <1>6, <1>7, <1>8 DEF GrowInv, Adds, IsAdd, HasAdds

LEMMA NothingIsRemoved == GrowInv => ~HandleRemoveDevice
<1> SUFFICES ASSUME GrowInv, HandleRemoveDevice PROVE FALSE
  OBVIOUS
<1>1. /\ batch # <<>> /\ batch \in Seq(DeviceEvent) /\ Head(batch).name = "remove_node"
  BY TakenIsSafe DEF HandleRemoveDevice, GrowInv
<1>2. 1 \in DOMAIN batch /\ batch[1] = Head(batch)
  BY <1>1, TailEntries
<1> QED BY <1>1, <1>2 DEF GrowInv, IsScheduled, IsNodeEvent, EventName

LEMMA InitGrows == Init => GrowInv
<1> SUFFICES ASSUME Init PROVE GrowInv
  OBVIOUS
<1>1. SafeInv
  BY InitIsSafe
<1>2. /\ Live(reg) = {} /\ queue = <<>> /\ batch = <<>> /\ phase = "idle" /\ loaded = Block
      /\ \A p \in Pos : world[p] = Air
  BY DEF Init, EmptyRegistry, Live
<1>3. RegisteredIn(reg) = {}
  BY <1>2 DEF RegisteredIn, HoldersIn
<1> QED BY <1>1, <1>2, <1>3 DEF GrowInv, IsDisjoint, IsScheduled, IsPainted

\* The steps of a world in which devices are placed and work.
LEMMA GrowSteps ==
  ASSUME Environment \subseteq {"place", "work"}, GrowInv, [DeviceNext]_vars
  PROVE  HandleAddDevice \/ HandleUpdateNode \/ Quiet
<1>1. ~HandleUpdateNodeCrash
  BY UpdateFindsCluster DEF GrowInv
<1>2. ~HandleRemoveDevice
  BY NothingIsRemoved
<1>3. \A p \in Pos : ~DigNode(p)
  BY DEF DigNode, MayAct
<1>4. \A b \in Block : ~UnloadBlock(b) /\ ~ActivateBlock(b)
  BY DEF UnloadBlock, ActivateBlock, MayAct
<1>5. Placeable \subseteq Kind
  BY DeviceAssumption
<1> QED BY <1>1, <1>2, <1>3, <1>4, <1>5 DEF DeviceNext, DeviceUpdate, Quiet

LEMMA NextGrows ==
  ASSUME Environment \subseteq {"place", "work"}, GrowInv, SafeInv', [DeviceNext]_vars
  PROVE  GrowInv'
BY GrowSteps, AddDeviceGrows, UpdateDeviceGrows, RefreshGrows, TransitionGrows, BeginUpdateGrows,
   EndUpdateGrows, PlaceNodeGrows, WorkGrows DEF Quiet

LEMMA GrowInvariant ==
  ASSUME Environment \subseteq {"place", "work"}
  PROVE  DeviceSpec => []GrowInv
<1>1. Init => GrowInv
  BY InitGrows
<1>2. GrowInv /\ SafeInv' /\ [DeviceNext]_vars => GrowInv'
  BY NextGrows
<1>3. "dig" \notin Environment
  OBVIOUS
<1>4. DeviceSpec => []SafeInv
  BY <1>3, SafeInvariant
<1> QED BY <1>1, <1>2, <1>4, PTL DEF DeviceSpec

\* As long as nothing is dug, unloaded or loaded again, no node is a member
\* of two clusters: handle_add_node joins the clusters a node meets before it
\* puts the node into one.
THEOREM ClustersStayApart ==
  ASSUME Environment \subseteq {"place", "work"}
  PROVE  DeviceSpec => []AtMostOneCluster
<1>1. GrowInv => AtMostOneCluster
  <2> SUFFICES ASSUME GrowInv, NEW p \in Pos PROVE Cardinality(Holders(p)) <= 1
    BY DEF AtMostOneCluster
  <2>1. \A c, d \in Holders(p) : c = d
    BY DEF GrowInv, IsDisjoint, Holders
  <2>2. CASE Holders(p) = {}
    BY <2>2, FS_EmptySet
  <2>3. CASE Holders(p) # {}
    <3>1. PICK c : Holders(p) = {c}
      BY <2>1, <2>3
    <3>2. Cardinality({c}) = 1
      BY FS_Singleton
    <3> QED BY <3>1, <3>2
  <2> QED BY <2>2, <2>3
<1> QED BY <1>1, GrowInvariant, PTL

(***************************************************************************)
(* The handlers implement the blobs.                                       *)
(***************************************************************************)
\* Positions interconnect whichever of them one looks from.
LEMMA AdjacencyIsSymmetric ==
  ASSUME NEW p \in Pos, NEW q \in Pos
  PROVE  Adjacent(p, q) = Adjacent(q, p)
<1>1. ASSUME NEW a \in Pos, NEW b \in Pos, Adjacent(a, b)
      PROVE  Adjacent(b, a)
  <2>1. PICK d \in Dir6 : AddVec(a, d) = b
    BY <1>1 DEF Adjacent
  <2>2. a \in Int \X Int \X Int /\ b \in Int \X Int \X Int
    BY SimpleClusterAssumption
  <2> DEFINE e == <<-d[1], -d[2], -d[3]>>
  <2>3. e \in Dir6
    BY <2>1 DEF Dir6
  <2>4. AddVec(b, e) = a
    <3>1. d[1] \in Int /\ d[2] \in Int /\ d[3] \in Int
      BY <2>1 DEF Dir6
    <3>2. a = <<a[1], a[2], a[3]>> /\ a[1] \in Int /\ a[2] \in Int /\ a[3] \in Int
      BY <2>2
    <3>3. b[1] = a[1] + d[1] /\ b[2] = a[2] + d[2] /\ b[3] = a[3] + d[3]
      BY <2>1 DEF AddVec
    <3> QED BY <3>1, <3>2, <3>3 DEF AddVec
  <2> QED BY <2>3, <2>4 DEF Adjacent
<1> QED BY <1>1 DEF Adjacent

LEMMA CompatibilityIsSymmetric == \A a, b : Compatible(a, b) = Compatible(b, a)
BY DEF Compatible


\* The steps of the blobs, in terms of the views.
LEMMA MappedVars ==
  /\ Blobs!vars = <<NodesIn(reg), BlobsIn(reg)>>
  /\ (Blobs!vars)' = <<NodesIn(reg'), BlobsIn(reg')>>
BY DEF Blobs!vars, Registered, Holders, RegisteredIn, HoldersIn, NodesIn, BlobsIn

LEMMA MappedInit == Blobs!Init <=> NodesIn(reg) = [p \in {} |-> 0] /\ BlobsIn(reg) = {}
BY DEF Blobs!Init, Registered, Holders, RegisteredIn, HoldersIn, NodesIn, BlobsIn

LEMMA MappedJoin ==
  ASSUME NEW p, NEW kind
  PROVE  Blobs!Join(p, kind) <=>
           /\ p \notin DOMAIN NodesIn(reg)
           /\ NodesIn(reg') = [q \in DOMAIN NodesIn(reg) \cup {p} |->
                                 IF q = p THEN kind ELSE NodesIn(reg)[q]]
           /\ LET S == {B \in BlobsIn(reg) :
                          \E q \in B : Adjacent(p, q) /\ Compatible(kind, NodesIn(reg)[q])}
              IN BlobsIn(reg') = (BlobsIn(reg) \ S) \cup {(UNION S) \cup {p}}
BY DEF Blobs!Join, Blobs!Reached, Registered, Holders, RegisteredIn, HoldersIn, NodesIn, BlobsIn

LEMMA MappedRename ==
  ASSUME NEW p, NEW kind
  PROVE  Blobs!Rename(p, kind) <=>
           /\ p \in DOMAIN NodesIn(reg)
           /\ \A q \in DOMAIN NodesIn(reg) :
                (Adjacent(p, q) /\ Compatible(kind, NodesIn(reg)[q]))
                  = (Adjacent(p, q) /\ Compatible(NodesIn(reg)[p], NodesIn(reg)[q]))
           /\ NodesIn(reg') = [NodesIn(reg) EXCEPT ![p] = kind]
           /\ BlobsIn(reg') = BlobsIn(reg)
BY DEF Blobs!Rename, Blobs!Touch, Registered, Holders, RegisteredIn, HoldersIn, NodesIn, BlobsIn

\* The clusters a node meets are the blobs it touches.
LEMMA MetBlobs ==
  ASSUME NEW r, Consistent(r), IsDisjoint(r), NEW p, NEW kind
  PROVE  {Members(r.m_clusters[d]) : d \in Meeting(r, p, kind)}
           = {B \in BlobsIn(r) : \E q \in B : Adjacent(p, q) /\ Compatible(kind, NodesIn(r)[q])}
<1> DEFINE S == {Members(r.m_clusters[d]) : d \in Meeting(r, p, kind)}
           T == {B \in BlobsIn(r) : \E q \in B : Adjacent(p, q) /\ Compatible(kind, NodesIn(r)[q])}
<1>1. ASSUME NEW B \in S PROVE B \in T
  <2>1. PICK d \in Meeting(r, p, kind) : B = Members(r.m_clusters[d])
    OBVIOUS
  <2>2. PICK q \in Members(r.m_clusters[d]) : Adjacent(p, q) /\ Compatible(kind, r.m_clusters[d].nodes[q])
    BY DEF Meeting
  <2>3. d \in Live(r) /\ B \in BlobsIn(r)
    BY <2>1, <2>2, RegisteredInView DEF Meeting
  <2>4. NodesIn(r)[q] = r.m_clusters[d].nodes[q]
    BY <2>3, NodeInView
  <2> QED BY <2>1, <2>2, <2>3, <2>4
<1>2. ASSUME NEW B \in T PROVE B \in S
  <2>1. PICK q \in B : Adjacent(p, q) /\ Compatible(kind, NodesIn(r)[q])
    OBVIOUS
  <2>2. PICK d \in Live(r) : B = Members(r.m_clusters[d])
    BY RegisteredInView
  <2>3. NodesIn(r)[q] = r.m_clusters[d].nodes[q]
    BY <2>2, NodeInView
  <2>4. d \in Meeting(r, p, kind)
    BY <2>1, <2>2, <2>3 DEF Meeting
  <2> QED BY <2>2, <2>4
<1> QED BY <1>1, <1>2

LEMMA InitImplements == Init => Blobs!Init
<1> SUFFICES ASSUME Init PROVE Blobs!Init
  OBVIOUS
<1>1. Live(reg) = {}
  BY DEF Init, EmptyRegistry, Live
<1>2. BlobsIn(reg) = {} /\ RegisteredIn(reg) = {}
  BY <1>1 DEF BlobsIn, RegisteredIn, HoldersIn
<1>3. NodesIn(reg) = [p \in {} |-> 0]
  BY <1>2 DEF NodesIn
<1> QED BY <1>2, <1>3, MappedInit

LEMMA GluedImplements ==
  ASSUME Consistent(reg), IsDisjoint(reg), NEW p \in Pos, NEW kind \in Kind, p \notin RegisteredIn(reg),
         IsGlued(reg, reg', p, kind, {Members(reg.m_clusters[d]) : d \in Meeting(reg, p, kind)})
  PROVE  Blobs!Next
<1>1. DOMAIN NodesIn(reg) = RegisteredIn(reg)
  BY RegisteredInView
<1> DEFINE S == {B \in BlobsIn(reg) : \E q \in B : Adjacent(p, q) /\ Compatible(kind, NodesIn(reg)[q])}
<1>2. S = {Members(reg.m_clusters[d]) : d \in Meeting(reg, p, kind)}
  BY MetBlobs
<1>3. /\ p \notin DOMAIN NodesIn(reg)
      /\ NodesIn(reg') = [q \in DOMAIN NodesIn(reg) \cup {p} |-> IF q = p THEN kind ELSE NodesIn(reg)[q]]
      /\ BlobsIn(reg') = (BlobsIn(reg) \ S) \cup {(UNION S) \cup {p}}
  <2> HIDE DEF S
  <2> QED BY <1>1, <1>2 DEF IsGlued
<1>4. Blobs!Join(p, kind)
  BY ONLY <1>3, MappedJoin
<1> QED BY <1>4 DEF Blobs!Next

LEMMA RenameImplements ==
  ASSUME NEW p \in Pos, NEW kind \in Kind, IsRenamed(reg, reg', p, kind), IsDisjoint(reg), Consistent(reg),
         ColorOf[kind] = ColorOf[NodesIn(reg)[p]]
  PROVE  Blobs!Next
<1>1. DOMAIN NodesIn(reg) = RegisteredIn(reg)
  BY RegisteredInView
<1>2. \A n : Compatible(kind, n) = Compatible(NodesIn(reg)[p], n)
  BY DEF Compatible
<1>3. Blobs!Rename(p, kind)
  BY <1>1, <1>2, MappedRename DEF IsRenamed
<1> QED BY <1>3 DEF Blobs!Next

\* The handlers implement the steps of the blobs.
LEMMA StepsImplement ==
  ASSUME Environment \subseteq {"place", "work"}, GrowInv, SafeInv', [DeviceNext]_vars
  PROVE  [Blobs!Next]_(Blobs!vars)
<1>1. CASE HandleAddDevice
  <2>1. PICK c : IsAddition(Head(batch), c)
    BY <1>1, AddDeviceEffect
  <2>2. PICK p, kind : p = Head(batch).pos /\ kind = Head(batch).kind
    OBVIOUS
  <2>3. /\ p \in Pos /\ kind \in Kind
        /\ IsGlued(reg, reg', p, kind, {Members(reg.m_clusters[d]) : d \in Meeting(reg, p, kind)})
    BY <2>1, <2>2, AdditionView
  <2>4. p \notin RegisteredIn(reg)
    BY <2>1, <2>2 DEF IsAddition
  <2> QED BY <2>3, <2>4, GluedImplements DEF GrowInv, SafeInv, IInv
<1>2. CASE HandleUpdateNode
  <2>1. LET e == Head(batch)
        IN /\ e \in Event
           /\ ColorOf[e.kind] = ColorOf[world[e.pos]]
           /\ IsSame(reg, reg') \/ IsRenamed(reg, reg', e.pos, e.kind)
    BY <1>2, UpdateDeviceEffect
  <2>2. PICK p, kind : p = Head(batch).pos /\ kind = Head(batch).kind
    OBVIOUS
  <2>3. CASE IsSame(reg, reg')
    BY <2>3, MappedVars DEF IsSame
  <2>4. CASE IsRenamed(reg, reg', p, kind)
    <3>1. p \in Pos /\ kind \in Kind
      BY <2>1, <2>2, EventFields
    <3>2. ColorOf[kind] = ColorOf[NodesIn(reg)[p]]
      BY <2>1, <2>2, <2>4 DEF IsRenamed, GrowInv, IsPainted
    <3> QED BY <2>4, <3>1, <3>2, RenameImplements DEF GrowInv, SafeInv, IInv
  <2> QED BY <2>1, <2>2, <2>3, <2>4
<1>3. CASE Quiet
  BY <1>3, QuietView, MappedVars DEF GrowInv, IsSame
<1> QED BY <1>1, <1>2, <1>3, GrowSteps

\* As long as nothing is dug, unloaded or loaded again, the registry with its
\* events, merges, elections and changes of names implements the blobs of
\* simple_cluster.lua:2: a node that is handled glues together all blobs it
\* touches, and no other step changes a blob.
THEOREM DevicesImplementBlobs ==
  ASSUME Environment \subseteq {"place", "work"}
  PROVE  DeviceSpec => ImplementsBlobs
<1>1. DeviceSpec => [](GrowInv /\ SafeInv)
  BY GrowInvariant, PTL DEF GrowInv
<1>2. Init => Blobs!Init
  BY InitImplements
<1>3. GrowInv /\ SafeInv' /\ [DeviceNext]_vars => [Blobs!Next]_(Blobs!vars)
  BY StepsImplement
<1> QED BY <1>1, <1>2, <1>3, PTL DEF DeviceSpec, ImplementsBlobs, Blobs!Spec

\* The theorems about the blobs, for the blobs of the registry.
BlobsFacts ==
  INSTANCE BlobsProofs WITH
    Node <- Pos, Name <- Kind,
    Linked <- LAMBDA p, m, q, n : Adjacent(p, q) /\ Compatible(m, n),
    nodes <- [p \in Registered |-> reg.m_clusters[CHOOSE c \in Holders(p) : TRUE].nodes[p]],
    blobs <- {Members(reg.m_clusters[c]) : c \in {d \in Live(reg) : ~IsEmpty(reg.m_clusters[d])}}

LEMMA LinksOfDevices == BlobsFacts!LinksGoBothWays
<1>1. \A p, q \in Pos, m, n \in Kind :
        /\ (Adjacent(p, q) /\ Compatible(m, n)) \in BOOLEAN
        /\ (Adjacent(p, q) /\ Compatible(m, n)) = (Adjacent(q, p) /\ Compatible(n, m))
  BY AdjacencyIsSymmetric, CompatibilityIsSymmetric
<1> QED BY <1>1 DEF BlobsFacts!LinksGoBothWays

LEMMA BlobsFactsApply ==
  Blobs!Spec => [](BlobsFacts!BlobsPartitionNodes /\ BlobsFacts!TouchingNodesShareBlob
                   /\ BlobsFacts!BlobsAreConnected)
<1>1. Blobs!Init => BlobsFacts!Init
  BY DEF Blobs!Init, BlobsFacts!Init
<1>2. [Blobs!Next]_(Blobs!vars) => [BlobsFacts!Next]_(BlobsFacts!vars)
  <2>1. (UNCHANGED Blobs!vars) => (UNCHANGED BlobsFacts!vars)
    BY DEF Blobs!vars, BlobsFacts!vars
  <2>2. Blobs!Next => BlobsFacts!Next
    BY DEF Blobs!Next, BlobsFacts!Next, Blobs!Join, BlobsFacts!Join, Blobs!Leave, BlobsFacts!Leave,
       Blobs!Rename, BlobsFacts!Rename, Blobs!Reached, BlobsFacts!Reached, Blobs!Touch, BlobsFacts!Touch,
       Blobs!Components, BlobsFacts!Components, Blobs!Connected, BlobsFacts!Connected
  <2> QED BY <2>1, <2>2
<1>3. BlobsFacts!Spec => [](BlobsFacts!BlobsPartitionNodes /\ BlobsFacts!TouchingNodesShareBlob
                   /\ BlobsFacts!BlobsAreConnected)
  BY LinksOfDevices, BlobsFacts!BlobsAreComponents
<1> QED BY <1>1, <1>2, <1>3, PTL DEF Blobs!Spec, BlobsFacts!Spec

\* As long as nothing is dug, unloaded or loaded again, the clusters are the
\* connected components of the registered devices: they share no device, no
\* two of them touch and, as simple_cluster.lua:2 says, none of them is made of
\* parts that are not beside each other.
THEOREM ClustersAreComponents ==
  ASSUME Environment \subseteq {"place", "work"}
  PROVE  /\ DeviceSpec => [](Blobs!BlobsPartitionNodes /\ Blobs!TouchingNodesShareBlob)
         /\ DeviceSpec => []ClustersHoldTogether
<1>1. BlobsFacts!BlobsAreConnected => ClustersHoldTogether
  <2> SUFFICES ASSUME BlobsFacts!BlobsAreConnected, NEW c \in Live(reg)
      PROVE  Blobs!Connected(Members(reg.m_clusters[c]))
    BY DEF ClustersHoldTogether
  <2>1. CASE IsEmpty(reg.m_clusters[c])
    BY <2>1 DEF IsEmpty, Blobs!Connected
  <2>2. CASE ~IsEmpty(reg.m_clusters[c])
    <3>1. BlobsFacts!Connected(Members(reg.m_clusters[c]))
      BY <2>2 DEF BlobsFacts!BlobsAreConnected
    <3> QED BY <3>1 DEF Blobs!Connected, BlobsFacts!Connected, Blobs!Touch, BlobsFacts!Touch
  <2> QED BY <2>1, <2>2
<1>2. BlobsFacts!BlobsPartitionNodes /\ BlobsFacts!TouchingNodesShareBlob
        => Blobs!BlobsPartitionNodes /\ Blobs!TouchingNodesShareBlob
  BY DEF Blobs!BlobsPartitionNodes, BlobsFacts!BlobsPartitionNodes, Blobs!TouchingNodesShareBlob,
         BlobsFacts!TouchingNodesShareBlob, Blobs!Touch, BlobsFacts!Touch
<1>3. Blobs!Spec => [](Blobs!BlobsPartitionNodes /\ Blobs!TouchingNodesShareBlob) /\ []ClustersHoldTogether
  BY <1>1, <1>2, BlobsFactsApply, PTL
<1> QED BY <1>3, DevicesImplementBlobs, PTL DEF ImplementsBlobs

(***************************************************************************)
(* The election: whatever merges, joins and skipped refreshes go on, each  *)
(* cluster is to be refreshed or its last election is on its way.          *)
(***************************************************************************)
LastTransition(q, c, s) ==
  \E i \in DOMAIN q :
    /\ q[i] = Transition(c, s)
    /\ \A j \in DOMAIN q : q[j].name = "transition_state" /\ q[j].cluster_id = c => j <= i

NoTransition(q, c) ==
  \A i \in DOMAIN q : q[i].name = "transition_state" => q[i].cluster_id # c

Refreshes(q, c) == \E i \in DOMAIN q : q[i] = Refresh(c)

\* The members of k show the state s in the world w, or what they decided.
Follows(k, w, s) ==
  \A p \in Members(k) :
    VariantOf[w[p]][s] # {} => w[p] \in VariantOf[w[p]][s] \cup OwnNames[w[p]]

\* The cluster c, a table k, has the controller its members elect, and the
\* state they elect or the event for it in the queue q or the batch b.
IsElected(k, w, q, b, c) ==
  \E e \in Elections(k) :
    /\ k.assigns.controller_id = e.controller
    /\ \/ LastTransition(q, c, e.state)
       \/ NoTransition(q, c) /\ LastTransition(b, c, e.state)
       \/ /\ NoTransition(q, c) /\ NoTransition(b, c)
          /\ k.assigns.state = e.state /\ Follows(k, w, e.state)

\* A refresh that is yet to be handled, and is not to be skipped, or none is
\* needed.
IsCurrent(k, w, q, b, c) ==
  \/ Refreshes(q, c)
  \/ Refreshes(b, c) /\ ~k.assigns.generation_id
  \/ IsElected(k, w, q, b, c)

\* Names that an election does not tell apart.
IsAlike(a, b) == TierOf[a] = TierOf[b] /\ GroupsOf[a] = GroupsOf[b]

IsFaithful(q, w) == \A i \in DOMAIN q : IsNodeEvent(q[i]) => IsAlike(q[i].kind, w[q[i].pos])

IsKnown(r, w) == \A p \in RegisteredIn(r) : IsAlike(NodesIn(r)[p], w[p])

AllCurrent(r, w, q, b) == \A c \in Live(r) : IsCurrent(r.m_clusters[c], w, q, b, c)

ElectInv ==
  /\ GrowInv
  /\ IsFaithful(batch, world) /\ IsFaithful(queue, world) /\ IsKnown(reg, world)
  /\ AllCurrent(reg, world, queue, batch)

\* Clusters with the same controllers of the same tiers elect the same.
LEMMA SameElections ==
  ASSUME NEW k, NEW n, Controllers(n) = Controllers(k), \A p \in Controllers(k) : Tier(n, p) = Tier(k, p)
  PROVE  Elections(n) = Elections(k)
<1>1. Hosts(n) = Hosts(k)
  BY DEF Hosts
<1>2. Leaders(n) = Leaders(k)
  BY DEF Leaders
<1> QED BY <1>1, <1>2 DEF Elections

LEMMA AssignsKeepElections ==
  ASSUME NEW k \in Cluster, NEW a
  PROVE  Elections([k EXCEPT !.assigns = a]) = Elections(k)
<1> DEFINE n == [k EXCEPT !.assigns = a]
<1>1. n.nodes = k.nodes /\ n.group_nodes = k.group_nodes
  BY DEF Cluster
<1> HIDE DEF n
<1>2. Elections(n) = Elections(k)
  BY <1>1, SameElections DEF Controllers, Members, Tier
<1> QED BY <1>2 DEF n

\* A batch that loses its first event keeps what concerns the cluster c.
KeepsEvents(b, t, c) ==
  /\ Refreshes(b, c) => Refreshes(t, c)
  /\ \A s : LastTransition(b, c, s) => LastTransition(t, c, s)
  /\ NoTransition(b, c) => NoTransition(t, c)

LEMMA TailKeepsTransitions ==
  ASSUME NEW b \in Seq(DeviceEvent), b # <<>>, NEW c,
         Head(b).name = "transition_state" => Head(b).cluster_id # c
  PROVE  /\ \A s : LastTransition(b, c, s) => LastTransition(Tail(b), c, s)
         /\ NoTransition(b, c) => NoTransition(Tail(b), c)
<1> DEFINE t == Tail(b)
<1>1. /\ 1 \in DOMAIN b /\ Head(b) = b[1] /\ DOMAIN b \subseteq Nat
      /\ \A i \in DOMAIN t : i \in Nat /\ i + 1 \in DOMAIN b /\ t[i] = b[i + 1]
      /\ \A i \in DOMAIN b : i # 1 => i - 1 \in DOMAIN t /\ t[i - 1] = b[i]
  BY TailEntries
<1> HIDE DEF t
<1>2. \A i \in DOMAIN b : (\E s : b[i] = Transition(c, s)) => i # 1
  BY <1>1 DEF Transition
<1>3. ASSUME NEW s, LastTransition(b, c, s) PROVE LastTransition(t, c, s)
  <2>1. PICK i \in DOMAIN b :
          /\ b[i] = Transition(c, s)
          /\ \A j \in DOMAIN b : b[j].name = "transition_state" /\ b[j].cluster_id = c => j <= i
    BY <1>3 DEF LastTransition
  <2>2. i - 1 \in DOMAIN t /\ t[i - 1] = Transition(c, s)
    BY <1>1, <1>2, <2>1
  <2>3. ASSUME NEW j \in DOMAIN t, t[j].name = "transition_state", t[j].cluster_id = c
        PROVE  j <= i - 1
    <3>1. j + 1 <= i /\ j \in Nat /\ i \in Nat
      BY <1>1, <2>1, <2>3
    <3> QED BY <3>1
  <2> QED BY <2>2, <2>3 DEF LastTransition
<1>4. NoTransition(b, c) => NoTransition(t, c)
  BY <1>1 DEF NoTransition
<1> QED BY <1>3, <1>4 DEF t

LEMMA TailKeepsEvents ==
  ASSUME NEW b \in Seq(DeviceEvent), b # <<>>, NEW c,
         Head(b).name \in {"refresh_controller", "transition_state"} => Head(b).cluster_id # c
  PROVE  KeepsEvents(b, Tail(b), c)
<1>1. Refreshes(b, c) => Refreshes(Tail(b), c)
  <2> SUFFICES ASSUME NEW i \in DOMAIN b, b[i] = Refresh(c) PROVE Refreshes(Tail(b), c)
    BY DEF Refreshes
  <2>1. b[1] # Refresh(c)
    BY TailEntries DEF Refresh
  <2>2. i - 1 \in DOMAIN Tail(b) /\ Tail(b)[i - 1] = b[i]
    BY <2>1, TailEntries
  <2> QED BY <2>2 DEF Refreshes
<1> QED BY <1>1, TailKeepsTransitions DEF KeepsEvents

\* A queue that takes in events that are no transitions of c.
LEMMA ExtensionKeepsEvents ==
  ASSUME NEW q, NEW t, NEW T, IsExtended(t, q, T), NEW c,
         \A x \in T : x.name = "transition_state" => x.cluster_id # c
  PROVE  KeepsEvents(q, t, c)
<1>1. /\ DOMAIN q \subseteq DOMAIN t /\ \A i \in DOMAIN q : t[i] = q[i]
      /\ \A i \in DOMAIN t : i \notin DOMAIN q /\ t[i].name = "transition_state" => t[i].cluster_id # c
  BY DEF IsExtended
<1> QED BY <1>1 DEF KeepsEvents, Refreshes, LastTransition, NoTransition

\* What a step has to leave of a cluster so that it stays current.
LEMMA CurrentStays ==
  ASSUME NEW k, NEW w, NEW q, NEW b, NEW c, IsCurrent(k, w, q, b, c),
         NEW n, NEW v, NEW q2, NEW b2,
         Elections(n) = Elections(k), Members(n) = Members(k), n.assigns = k.assigns,
         \A p \in Members(k) : v[p] = w[p] \/ v[p] \in OwnNames[v[p]],
         KeepsEvents(q, q2, c), KeepsEvents(b, b2, c)
  PROVE  IsCurrent(n, v, q2, b2, c)
<1>1. CASE Refreshes(q, c) \/ (Refreshes(b, c) /\ ~k.assigns.generation_id)
  BY <1>1 DEF IsCurrent, KeepsEvents
<1>2. CASE IsElected(k, w, q, b, c)
  <2>1. \A s : Follows(k, w, s) => Follows(n, v, s)
    BY DEF Follows
  <2>2. IsElected(n, v, q2, b2, c)
    BY <1>2, <2>1 DEF IsElected, KeepsEvents
  <2> QED BY <2>2 DEF IsCurrent
<1> QED BY <1>1, <1>2 DEF IsCurrent

LEMMA SameEvents == ASSUME NEW q, NEW c PROVE KeepsEvents(q, q, c)
BY DEF KeepsEvents

\* A world whose devices have names alike those they had.
IsAlikeWorld(w, v) == \A p \in Pos : w[p] \in Kind => IsAlike(v[p], w[p])

LEMMA FaithfulExtended ==
  ASSUME NEW q, NEW w, IsFaithful(q, w), NEW R, IsScheduled(q, w, R), NEW v, IsAlikeWorld(w, v),
         NEW t, NEW T, IsExtended(t, q, T), \A x \in T : IsNodeEvent(x) => IsAlike(x.kind, v[x.pos])
  PROVE  IsFaithful(t, v)
<1> SUFFICES ASSUME NEW i \in DOMAIN t, IsNodeEvent(t[i]) PROVE IsAlike(t[i].kind, v[t[i].pos])
  BY DEF IsFaithful
<1>1. CASE i \in DOMAIN q
  <2>1. t[i] = q[i]
    BY <1>1 DEF IsExtended
  <2>2. q[i].pos \in Pos /\ w[q[i].pos] \in Kind /\ IsAlike(q[i].kind, w[q[i].pos])
    BY <1>1, <2>1 DEF IsScheduled, IsFaithful
  <2> QED BY <2>1, <2>2 DEF IsAlikeWorld, IsAlike
<1>2. CASE i \notin DOMAIN q
  BY <1>2 DEF IsExtended
<1> QED BY <1>1, <1>2

LEMMA FaithfulTail ==
  ASSUME NEW q \in Seq(DeviceEvent), q # <<>>, NEW w, IsFaithful(q, w), NEW R, IsScheduled(q, w, R),
         NEW v, IsAlikeWorld(w, v)
  PROVE  IsFaithful(Tail(q), v)
<1> SUFFICES ASSUME NEW i \in DOMAIN Tail(q), IsNodeEvent(Tail(q)[i])
    PROVE  IsAlike(Tail(q)[i].kind, v[Tail(q)[i].pos])
  BY DEF IsFaithful
<1>1. i + 1 \in DOMAIN q /\ Tail(q)[i] = q[i + 1]
  BY TailEntries
<1>2. q[i + 1].pos \in Pos /\ w[q[i + 1].pos] \in Kind /\ IsAlike(q[i + 1].kind, w[q[i + 1].pos])
  BY <1>1 DEF IsScheduled, IsFaithful
<1> QED BY <1>1, <1>2 DEF IsAlikeWorld, IsAlike

\* What a handler of an event owes to ElectInv.
LEMMA HandlerElects ==
  ASSUME ElectInv, GrowInv', batch \in Seq(DeviceEvent), batch # <<>>, batch' = Tail(batch),
         IsAlikeWorld(world, world'),
         NEW T, IsExtended(queue', queue, T),
         \A x \in T : IsNodeEvent(x) => IsAlike(x.kind, world'[x.pos]),
         IsKnown(reg', world'), AllCurrent(reg', world', queue', batch')
  PROVE  ElectInv'
<1>1. IsFaithful(queue', world')
  BY FaithfulExtended DEF ElectInv, GrowInv
<1>2. IsFaithful(batch', world')
  BY FaithfulTail DEF ElectInv, GrowInv
<1> QED BY <1>1, <1>2 DEF ElectInv

LEMMA AlikeItself == ASSUME NEW w PROVE IsAlikeWorld(w, w)
BY DEF IsAlikeWorld, IsAlike

LEMMA AddDeviceElects ==
  ASSUME ElectInv, GrowInv', HandleAddDevice
  PROVE  ElectInv'
<1> DEFINE e == Head(batch)
<1>1. /\ batch # <<>> /\ batch' = Tail(batch)
      /\ batch \in Seq(DeviceEvent) /\ queue \in Seq(DeviceEvent) /\ e \in DeviceEvent
      /\ e.name \in {"add_node", "load_node"} /\ world' = world
  BY TakenIsSafe DEF HandleAddDevice, ElectInv, GrowInv
<1>2. PICK c : IsAddition(e, c)
  BY AddDeviceEffect DEF ElectInv
<1>3. /\ c \in ClusterId /\ queue' = Append(queue, Refresh(c))
      /\ IsJoin(reg, reg', c, Meeting(reg, e.pos, e.kind), e.pos, e.kind)
  BY <1>2 DEF IsAddition
<1>4. Refresh(c) \in DeviceEvent
  BY <1>3, DeviceEventsAreTyped
<1>5. IsExtended(queue', queue, {Refresh(c)})
  BY <1>1, <1>3, <1>4, AppendIsExtended
<1>6. ~IsNodeEvent(Refresh(c)) /\ Refresh(c).name # "transition_state"
  BY DEF IsNodeEvent, EventName, Refresh
<1>7. IsAlike(e.kind, world[e.pos])
  <2>1. 1 \in DOMAIN batch /\ batch[1] = e
    BY <1>1, TailEntries
  <2>2. IsNodeEvent(e)
    BY <1>1 DEF IsNodeEvent, EventName
  <2> QED BY <2>1, <2>2 DEF ElectInv, IsFaithful
<1>8. ASSUME NEW d \in Live(reg')
      PROVE  IsCurrent(reg'.m_clusters[d], world', queue', batch', d)
  <2>1. CASE d = c
    <3>1. \E i \in DOMAIN queue' : queue'[i] = Refresh(c)
      BY <1>5 DEF IsExtended
    <3> QED BY <2>1, <3>1 DEF IsCurrent, Refreshes
  <2>2. CASE d # c
    <3>1. d \in Live(reg) /\ reg'.m_clusters[d] = reg.m_clusters[d]
      BY <1>3, <2>2 DEF IsJoin
    <3>2. IsCurrent(reg.m_clusters[d], world, queue, batch, d)
      BY <3>1 DEF ElectInv, AllCurrent
    <3>3. KeepsEvents(queue, queue', d)
      BY <1>5, <1>6, ExtensionKeepsEvents
    <3>4. KeepsEvents(batch, batch', d)
      BY <1>1, TailKeepsEvents
    <3> QED BY <1>1, <3>1, <3>2, <3>3, <3>4, CurrentStays
  <2> QED BY <2>1, <2>2
<1>9. IsKnown(reg', world')
  <2>1. PICK p, kind : p = e.pos /\ kind = e.kind
    OBVIOUS
  <2>2. IsGlued(reg, reg', p, kind, {Members(reg.m_clusters[d]) : d \in Meeting(reg, p, kind)})
    BY <1>2, <2>1, AdditionView DEF ElectInv, GrowInv
  <2>3. /\ RegisteredIn(reg') = RegisteredIn(reg) \cup {p}
        /\ \A q \in RegisteredIn(reg') : NodesIn(reg')[q] = IF q = p THEN kind ELSE NodesIn(reg)[q]
    BY <2>2 DEF IsGlued
  <2> QED BY <1>1, <1>7, <2>1, <2>3 DEF IsKnown, ElectInv
<1>10. AllCurrent(reg', world', queue', batch')
  BY <1>8 DEF AllCurrent
<1>11. \A x \in {Refresh(c)} : IsNodeEvent(x) => IsAlike(x.kind, world'[x.pos])
  BY <1>6
<1>12. IsAlikeWorld(world, world')
  BY <1>1, AlikeItself
<1> HIDE DEF e
<1> QED BY <1>1, <1>5, <1>9, <1>10, <1>11, <1>12, HandlerElects

\* A member takes a name alike the old one: its cluster elects the same.
LEMMA UpdateKeepsElections ==
  ASSUME NEW k \in Cluster, ClusterAgrees(k), NEW p \in Pos, NEW kind \in Kind,
         p \in Members(k) => IsAlike(kind, k.nodes[p])
  PROVE  LET u == UpdateNode(k, p, kind)
         IN Elections(u) = Elections(k) /\ Members(u) = Members(k) /\ u.assigns = k.assigns
<1> DEFINE u == UpdateNode(k, p, kind)
<1>1. CASE p \notin Members(k)
  <2>1. u = k
    BY <1>1 DEF UpdateNode
  <2> QED BY <2>1
<1>2. CASE p \in Members(k)
  <2>1. /\ Members(u) = Members(k) /\ u.nodes[p] = kind /\ u.assigns = k.assigns
        /\ \A q \in Members(k) \ {p} : u.nodes[q] = k.nodes[q]
    BY <1>2, UpdateNodeEntries
  <2>2. u.group_nodes = k.group_nodes
    <3> DEFINE old == Restrict(k.nodes, {p} \cap Members(k))
               new == Singleton(p, kind)
    <3>1. DOMAIN old = {p} /\ old[p] = k.nodes[p] /\ DOMAIN new = {p} /\ new[p] = kind
      BY <1>2 DEF Restrict, Singleton
    <3>2. GroupPairs(old) = GroupPairs(new)
      <4> HIDE DEF old, new
      <4> QED BY <3>1, <1>2 DEF GroupPairs, IsAlike
    <3>3. GroupPairs(old) \subseteq k.group_nodes
      <4> HIDE DEF old, new
      <4> QED BY <3>1, <1>2 DEF GroupPairs, ClusterAgrees
    <3>4. u.group_nodes = (k.group_nodes \ GroupPairs(old)) \cup GroupPairs(new)
      <4> DEFINE m == [k EXCEPT !.group_nodes = WithoutGroupsOf(k, {p})]
      <4>1. m.group_nodes = k.group_nodes \ GroupPairs(old)
        BY DEF Cluster, WithoutGroupsOf
      <4>2. m \in [groups : {m.groups}, nodes : {m.nodes}, block_nodes : {m.block_nodes},
                   group_nodes : {m.group_nodes}, assigns : {m.assigns}]
        BY DEF Cluster
      <4>3. u = PutNodes(m, new)
        BY <1>2 DEF UpdateNode
      <4> HIDE DEF m, old, new
      <4> QED BY <4>1, <4>2, <4>3 DEF PutNodes
    <3> HIDE DEF old, new
    <3> QED BY <3>2, <3>3, <3>4
  <2> HIDE DEF u
  <2>3. Controllers(u) = Controllers(k)
    BY <2>1, <2>2 DEF Controllers
  <2>4. \A q \in Controllers(k) : Tier(u, q) = Tier(k, q)
    BY <1>2, <2>1 DEF Controllers, Tier, IsAlike
  <2> QED BY <2>1, <2>3, <2>4, SameElections DEF u
<1> QED BY <1>1, <1>2

LEMMA UpdateDeviceElects ==
  ASSUME ElectInv, GrowInv', HandleUpdateNode
  PROVE  ElectInv'
<1> DEFINE e == Head(batch)
<1>1. /\ batch # <<>> /\ batch' = Tail(batch)
      /\ batch \in Seq(DeviceEvent) /\ queue \in Seq(DeviceEvent)
      /\ e.name = "update_node" /\ world' = world /\ queue' = queue
  BY TakenIsSafe DEF HandleUpdateNode, ElectInv, GrowInv
<1>2. /\ e \in Event /\ e.pos \in Pos /\ e.kind \in Kind
      /\ IsSame(reg, reg') \/ IsRenamed(reg, reg', e.pos, e.kind)
  BY UpdateDeviceEffect, EventFields DEF ElectInv, GrowInv
<1>3. PICK c \in Live(reg) : reg' = UpdateNodeInCluster(reg, c, e.pos, e.kind)
  BY DEF HandleUpdateNode, handle_update_node, ClustersOfGroup
<1>4. IsAlike(e.kind, world[e.pos])
  <2>1. 1 \in DOMAIN batch /\ batch[1] = e
    BY <1>1, TailEntries
  <2>2. IsNodeEvent(e)
    BY <1>1 DEF IsNodeEvent, EventName
  <2> QED BY <2>1, <2>2 DEF ElectInv, IsFaithful
<1> HIDE DEF e
<1> DEFINE k == reg.m_clusters[c]
           u == UpdateNode(k, e.pos, e.kind)
<1>5. Consistent(reg) /\ IsDisjoint(reg)
  BY DEF ElectInv, GrowInv, SafeInv, IInv
<1>6. k \in Cluster /\ ClusterAgrees(k)
  BY <1>5, RegistryClusters DEF Consistent
<1>7. e.pos \in Members(k) => IsAlike(e.kind, k.nodes[e.pos])
  <2> SUFFICES ASSUME e.pos \in Members(k) PROVE IsAlike(e.kind, k.nodes[e.pos])
    OBVIOUS
  <2>1. e.pos \in RegisteredIn(reg) /\ NodesIn(reg)[e.pos] = k.nodes[e.pos]
    BY <1>5, NodeInView
  <2>2. IsAlike(k.nodes[e.pos], world[e.pos])
    BY <2>1 DEF ElectInv, IsKnown
  <2> QED BY <1>4, <2>2 DEF IsAlike
<1>8. Elections(u) = Elections(k) /\ Members(u) = Members(k) /\ u.assigns = k.assigns
  BY <1>2, <1>6, <1>7, UpdateKeepsElections
<1>9. reg'.m_clusters = [reg.m_clusters EXCEPT ![c] = u]
  BY <1>2, <1>3, <1>5, UpdateNodeEffect
<1> HIDE DEF u
<1>10. /\ Live(reg') = Live(reg) /\ reg'.m_clusters[c] = u
       /\ \A d \in Live(reg) \ {c} : reg'.m_clusters[d] = reg.m_clusters[d]
  BY <1>5, <1>9, RegistryTables DEF Live
<1>11. ASSUME NEW d \in Live(reg')
       PROVE  IsCurrent(reg'.m_clusters[d], world', queue', batch', d)
  <2>1. d \in Live(reg) /\ IsCurrent(reg.m_clusters[d], world, queue, batch, d)
    BY <1>10 DEF ElectInv, AllCurrent
  <2>2. /\ Elections(reg'.m_clusters[d]) = Elections(reg.m_clusters[d])
        /\ Members(reg'.m_clusters[d]) = Members(reg.m_clusters[d])
        /\ reg'.m_clusters[d].assigns = reg.m_clusters[d].assigns
    BY <1>8, <1>10, <2>1
  <2>3. KeepsEvents(queue, queue', d)
    BY <1>1, SameEvents
  <2>4. KeepsEvents(batch, batch', d)
    BY <1>1, TailKeepsEvents DEF e
  <2> QED BY <1>1, <2>1, <2>2, <2>3, <2>4, CurrentStays
<1>12. IsKnown(reg', world')
  <2> SUFFICES ASSUME NEW p \in RegisteredIn(reg') PROVE IsAlike(NodesIn(reg')[p], world[p])
    BY <1>1 DEF IsKnown
  <2>1. p \in RegisteredIn(reg) /\ IsAlike(NodesIn(reg)[p], world[p])
    BY <1>2 DEF ElectInv, IsKnown, IsSame, IsRenamed
  <2>2. NodesIn(reg')[p] = NodesIn(reg)[p] \/ (p = e.pos /\ NodesIn(reg')[p] = e.kind)
    BY <1>2, <2>1, RegisteredInView DEF IsSame, IsRenamed
  <2> QED BY <1>4, <2>1, <2>2
<1>13. AllCurrent(reg', world', queue', batch')
  BY <1>11 DEF AllCurrent
<1>14. IsExtended(queue', queue, {}) /\ IsAlikeWorld(world, world')
  BY <1>1, SameIsExtended, AlikeItself
<1> QED BY <1>1, <1>12, <1>13, <1>14, HandlerElects

\* A view that stays and names that stay alike.
LEMMA KnownStays ==
  ASSUME ElectInv, IsSame(reg, reg'), IsAlikeWorld(world, world')
  PROVE  IsKnown(reg', world')
<1> SUFFICES ASSUME NEW p \in RegisteredIn(reg) PROVE IsAlike(NodesIn(reg)[p], world'[p])
  BY DEF IsKnown, IsSame
<1>1. p \in Pos /\ world[p] \in Kind /\ IsAlike(NodesIn(reg)[p], world[p])
  BY DEF ElectInv, GrowInv, IsPainted, IsKnown, RegisteredIn
<1> QED BY <1>1 DEF IsAlikeWorld, IsAlike

LEMMA RefreshElects ==
  ASSUME ElectInv, GrowInv', SafeInv', HandleRefresh
  PROVE  ElectInv'
<1> DEFINE c == Head(batch).cluster_id
           k == reg.m_clusters[c]
<1>1. /\ batch # <<>> /\ batch' = Tail(batch) /\ world' = world
      /\ batch \in Seq(DeviceEvent) /\ queue \in Seq(DeviceEvent)
      /\ Head(batch).name = "refresh_controller"
  BY TakenIsSafe DEF HandleRefresh, ElectInv, GrowInv
<1>2. PICK e : IsRefresh(c, e)
  BY RefreshEffect DEF ElectInv, GrowInv, SafeInv
<1>3. Consistent(reg) /\ IsDisjoint(reg)
  BY DEF ElectInv, GrowInv, SafeInv, IInv
<1> HIDE DEF c
<1> DEFINE a == [k.assigns EXCEPT !.generation_id = TRUE, !.controller_id = e.controller]
           t == Transition(c, e.state)
<1>4. /\ c \in Live(reg) /\ e \in Elections(k) /\ reg' = SetAssigns(reg, c, a)
      /\ queue' = Append(queue, t) /\ IsExtended(queue', queue, {t})
  BY <1>2 DEF IsRefresh
<1>5. k \in Cluster /\ k.assigns \in Assigns
  BY <1>3, <1>4, RegistryClusters DEF Consistent, Cluster
<1>6. a.controller_id = e.controller
  BY <1>5 DEF Assigns
<1>7. t.name = "transition_state" /\ t.cluster_id = c
  BY DEF Transition
<1> HIDE DEF a
<1> DEFINE n == [k EXCEPT !.assigns = a]
<1>8. Elections(n) = Elections(k) /\ n.assigns = a
  BY <1>5, AssignsKeepElections, AssignsLeaveNodes
<1>9. /\ Live(reg') = Live(reg) /\ reg'.m_clusters[c] = n
      /\ \A d \in Live(reg) \ {c} : reg'.m_clusters[d] = reg.m_clusters[d]
  <2>1. /\ Live(SetAssigns(reg, c, a)) = Live(reg)
        /\ SetAssigns(reg, c, a).m_clusters[c] = n
        /\ \A d \in Live(reg) \ {c} : SetAssigns(reg, c, a).m_clusters[d] = reg.m_clusters[d]
    BY <1>3, <1>4, SetAssignsEffect
  <2> QED BY <1>4, <2>1
<1> HIDE DEF n
<1>10. LastTransition(queue', c, e.state)
  <2>1. PICK i \in DOMAIN queue' : i \notin DOMAIN queue /\ queue'[i] = t
    BY <1>4 DEF IsExtended
  <2>2. DOMAIN queue = 1..Len(queue) /\ DOMAIN queue' = 1..Len(queue) + 1 /\ Len(queue) \in Nat
    <3> HIDE DEF t
    <3>1. queue' \in Seq(DeviceEvent) /\ Len(queue') = Len(queue) + 1
      <4>1. queue' \in Seq(DeviceEvent)
        BY DEF SafeInv, IInv
      <4>2. t \in DeviceEvent
        BY <2>1, <4>1, LenProperties
      <4> QED BY <1>1, <1>4, <4>1, <4>2, AppendProperties
    <3> QED BY <1>1, <3>1, LenProperties
  <2>3. \A j \in DOMAIN queue' : j <= i
    BY <2>1, <2>2
  <2> QED BY <2>1, <2>3 DEF LastTransition
<1>11. ASSUME NEW d \in Live(reg')
       PROVE  IsCurrent(reg'.m_clusters[d], world', queue', batch', d)
  <2>1. CASE d = c
    <3>1. IsElected(n, world', queue', batch', c)
      BY <1>4, <1>6, <1>8, <1>10 DEF IsElected
    <3> QED BY <2>1, <1>9, <3>1 DEF IsCurrent
  <2>2. CASE d # c
    <3>1. d \in Live(reg) /\ reg'.m_clusters[d] = reg.m_clusters[d]
          /\ IsCurrent(reg.m_clusters[d], world, queue, batch, d)
      BY <1>9, <2>2 DEF ElectInv, AllCurrent
    <3>2. KeepsEvents(queue, queue', d)
      BY <1>4, <1>7, <2>2, ExtensionKeepsEvents
    <3>3. KeepsEvents(batch, batch', d)
      BY <1>1, <2>2, TailKeepsEvents DEF c
    <3> QED BY <1>1, <3>1, <3>2, <3>3, CurrentStays
  <2> QED BY <2>1, <2>2
<1>12. AllCurrent(reg', world', queue', batch')
  BY <1>11 DEF AllCurrent
<1>13. IsAlikeWorld(world, world') /\ \A x \in {t} : ~IsNodeEvent(x)
  BY <1>1, <1>7, AlikeItself DEF IsNodeEvent, EventName
<1>14. IsKnown(reg', world')
  <2>1. IsSame(reg, reg')
    BY QuietView DEF Quiet, ElectInv, GrowInv
  <2> QED BY <2>1, <1>13, KnownStays
<1> HIDE DEF t
<1> QED BY <1>1, <1>4, <1>12, <1>13, <1>14, HandlerElects

LEMMA SkippedElects ==
  ASSUME ElectInv, GrowInv', SafeInv', HandleRefreshSkipped \/ HandleTransitionSkipped
  PROVE  ElectInv'
<1> DEFINE c == Head(batch).cluster_id
<1>1. /\ batch # <<>> /\ batch' = Tail(batch)
      /\ batch \in Seq(DeviceEvent) /\ queue \in Seq(DeviceEvent)
      /\ UNCHANGED <<reg, world, queue>>
      /\ Head(batch).name = "refresh_controller" /\ c \in Live(reg) => reg.m_clusters[c].assigns.generation_id
      /\ Head(batch).name = "transition_state" => c \notin Live(reg)
  BY TakenIsSafe DEF HandleRefreshSkipped, HandleTransitionSkipped, ElectInv, GrowInv
<1>2. ASSUME NEW d \in Live(reg)
      PROVE  IsCurrent(reg.m_clusters[d], world, queue, batch', d)
  <2>1. IsCurrent(reg.m_clusters[d], world, queue, batch, d)
    BY DEF ElectInv, AllCurrent
  <2>2. KeepsEvents(queue, queue, d)
    BY SameEvents
  <2>3. CASE Head(batch).name \in {"refresh_controller", "transition_state"} => c # d
    <3>1. KeepsEvents(batch, batch', d)
      BY <1>1, <2>3, TailKeepsEvents
    <3> QED BY <2>1, <2>2, <3>1, CurrentStays
  <2>4. CASE Head(batch).name = "refresh_controller" /\ c = d
    <3>1. /\ \A s : LastTransition(batch, d, s) => LastTransition(batch', d, s)
          /\ NoTransition(batch, d) => NoTransition(batch', d)
      BY <1>1, <2>4, TailKeepsTransitions
    <3>2. Refreshes(queue, d) \/ IsElected(reg.m_clusters[d], world, queue, batch, d)
      BY <1>1, <2>1, <2>4 DEF IsCurrent
    <3> QED BY <3>1, <3>2 DEF IsCurrent, IsElected
  <2>5. CASE Head(batch).name = "transition_state" /\ c = d
    BY <1>1, <2>5
  <2> QED BY <2>3, <2>4, <2>5
<1>3. AllCurrent(reg', world', queue', batch')
  BY <1>1, <1>2 DEF AllCurrent
<1>4. IsExtended(queue', queue, {}) /\ IsAlikeWorld(world, world') /\ IsKnown(reg', world')
  BY <1>1, SameIsExtended, AlikeItself DEF ElectInv
<1> HIDE DEF c
<1> QED BY <1>1, <1>3, <1>4, HandlerElects

LEMMA TransitionElects ==
  ASSUME ElectInv, GrowInv', SafeInv', HandleTransition
  PROVE  ElectInv'
<1> DEFINE c == Head(batch).cluster_id
           state == Head(batch).state
           k == reg.m_clusters[c]
           a == [k.assigns EXCEPT !.state = state]
<1>1. /\ batch # <<>> /\ batch' = Tail(batch)
      /\ batch \in Seq(DeviceEvent) /\ queue \in Seq(DeviceEvent)
      /\ Head(batch).name = "transition_state"
  BY TakenIsSafe DEF HandleTransition, ElectInv, GrowInv
<1>2. PICK name : IsTransition(c, state, name)
  BY TransitionEffect DEF ElectInv, GrowInv, SafeInv
<1>3. Consistent(reg) /\ IsDisjoint(reg)
  BY DEF ElectInv, GrowInv, SafeInv, IInv
<1>0. Head(batch).cluster_id = c
  OBVIOUS
<1> HIDE DEF c, state
<1> DEFINE C == Changing(name)
           T == {Renaming(p, name) : p \in C}
<1>4. /\ c \in Live(reg) /\ reg' = SetAssigns(reg, c, a)
      /\ IsExtended(queue', queue, T) /\ state \in DeviceState /\ Head(batch) = Transition(c, state)
      /\ world' = [p \in Pos |-> IF p \in C THEN name[p] ELSE world[p]]
      /\ \A p \in DOMAIN name :
           /\ p \in Pos /\ p \in Members(k) /\ world[p] \in Kind
           /\ name[p] \in Kind /\ name[p] \in VariantOf[world[p]][state]
      /\ \A p \in Members(k) : IsVisible(p) /\ VariantOf[world[p]][state] # {} => p \in DOMAIN name
  BY <1>2 DEF IsTransition
<1>5. k \in Cluster /\ k.assigns \in Assigns
  BY <1>3, <1>4, RegistryClusters DEF Consistent, Cluster
<1>6. a.state = state /\ a.controller_id = k.assigns.controller_id /\ a.generation_id = k.assigns.generation_id
  BY <1>5 DEF Assigns
<1> HIDE DEF a
<1> DEFINE n == [k EXCEPT !.assigns = a]
<1>7. Elections(n) = Elections(k) /\ n.assigns = a /\ Members(n) = Members(k)
  BY <1>5, AssignsKeepElections, AssignsLeaveNodes
<1>8. /\ Live(reg') = Live(reg) /\ reg'.m_clusters[c] = n
      /\ \A d \in Live(reg) \ {c} : reg'.m_clusters[d] = reg.m_clusters[d]
  <2>1. /\ Live(SetAssigns(reg, c, a)) = Live(reg)
        /\ SetAssigns(reg, c, a).m_clusters[c] = n
        /\ \A d \in Live(reg) \ {c} : SetAssigns(reg, c, a).m_clusters[d] = reg.m_clusters[d]
    BY <1>3, <1>4, SetAssignsEffect
  <2> QED BY <1>4, <2>1
<1> HIDE DEF n
<1>9. /\ C \subseteq DOMAIN name /\ \A p \in DOMAIN name : p \notin C => name[p] = world[p]
      /\ \A p \in DOMAIN name :
           IsAlike(name[p], world[p]) /\ VariantOf[name[p]] = VariantOf[world[p]]
  BY <1>4, VariantsShare DEF Shares, IsAlike, Changing
<1>10. \A p \in Members(k) : p \in Pos /\ IsVisible(p)
  <2> SUFFICES ASSUME NEW p \in Members(k) PROVE p \in Pos /\ IsVisible(p)
    OBVIOUS
  <2>1. p \in Pos /\ p \in RegisteredIn(reg)
    BY <1>3, <1>4, NodeInView
  <2>2. world[p] \in Kind /\ loaded = Block
    BY <2>1 DEF ElectInv, GrowInv, IsPainted
  <2> QED BY <2>1, <2>2, SimpleClusterAssumption, RegistryAssumption DEF IsVisible
<1>11. Follows(k, world', state)
  <2> SUFFICES ASSUME NEW p \in Members(k), VariantOf[world'[p]][state] # {}
      PROVE  world'[p] \in VariantOf[world'[p]][state]
    BY DEF Follows
  <2>1. CASE p \in DOMAIN name
    <3>1. world'[p] = name[p]
      BY <1>4, <1>9, <2>1
    <3>2. name[p] \in VariantOf[name[p]][state]
      BY <1>4, <1>9, <2>1
    <3> QED BY <3>1, <3>2
  <2>2. CASE p \notin DOMAIN name
    <3>1. world'[p] = world[p]
      BY <1>4, <1>9, <1>10, <2>2
    <3> QED BY <3>1, <1>4, <1>10, <2>2
  <2> QED BY <2>1, <2>2
<1> HIDE DEF C
<1>12. IsAlikeWorld(world, world')
  BY <1>4, <1>9 DEF IsAlikeWorld, IsAlike
<1>13. \A x \in T : /\ IsNodeEvent(x) /\ x.name # "transition_state"
                    /\ IsAlike(x.kind, world'[x.pos])
  <2> SUFFICES ASSUME NEW p \in C
               PROVE  /\ IsNodeEvent(Renaming(p, name)) /\ Renaming(p, name).name # "transition_state"
                      /\ IsAlike(Renaming(p, name).kind, world'[Renaming(p, name).pos])
    OBVIOUS
  <2>1. p \in DOMAIN name /\ p \in Pos /\ world'[p] = name[p]
    BY <1>4, <1>9
  <2>2. Renaming(p, name).name = "update_node" /\ Renaming(p, name).pos = p
        /\ Renaming(p, name).kind = name[p]
    BY DEF Renaming
  <2> QED BY <2>1, <2>2 DEF IsNodeEvent, EventName, IsAlike
<1> HIDE DEF T
<1>14. ASSUME NEW d \in Live(reg')
       PROVE  IsCurrent(reg'.m_clusters[d], world', queue', batch', d)
  <2>1. d \in Live(reg) /\ IsCurrent(reg.m_clusters[d], world, queue, batch, d)
        /\ KeepsEvents(queue, queue', d)
    BY <1>4, <1>8, <1>13, ExtensionKeepsEvents DEF ElectInv, AllCurrent
  <2>2. CASE d # c
    <3>1. \A p \in Members(reg.m_clusters[d]) : world'[p] = world[p]
      <4>1. Members(reg.m_clusters[d]) \cap Members(k) = {} /\ Members(reg.m_clusters[d]) \subseteq Pos
        BY <1>3, <1>4, <2>1, <2>2, RegistryClusters DEF IsDisjoint, Consistent
      <4>2. C \subseteq Members(k)
        BY <1>4, <1>9
      <4> QED BY <1>4, <4>1, <4>2
    <3>2. reg'.m_clusters[d] = reg.m_clusters[d]
      BY <1>8, <2>1, <2>2
    <3>3. KeepsEvents(batch, batch', d)
      BY <1>0, <1>1, <2>2, TailKeepsEvents
    <3> QED BY <2>1, <3>1, <3>2, <3>3, CurrentStays
  <2>3. CASE d = c
    <3>1. IsCurrent(k, world, queue, batch, c)
      BY <2>1, <2>3
    <3>2. /\ 1 \in DOMAIN batch /\ batch[1] = Transition(c, state) /\ DOMAIN batch \subseteq Nat
          /\ \A i \in DOMAIN batch' : i \in Nat /\ i + 1 \in DOMAIN batch /\ batch'[i] = batch[i + 1]
          /\ \A i \in DOMAIN batch : i # 1 => i - 1 \in DOMAIN batch' /\ batch'[i - 1] = batch[i]
      BY <1>1, <1>4, TailEntries
    <3>3. Refreshes(batch, c) => Refreshes(batch', c)
      BY <3>2 DEF Refreshes, Refresh, Transition
    <3>4. CASE Refreshes(queue, c) \/ (Refreshes(batch, c) /\ ~k.assigns.generation_id)
      BY <1>6, <1>7, <1>8, <2>1, <2>3, <3>3, <3>4 DEF IsCurrent, KeepsEvents
    <3>5. CASE IsElected(k, world, queue, batch, c)
      <4>1. ~NoTransition(batch, c)
        BY <3>2 DEF NoTransition, Transition
      <4>2. PICK e \in Elections(k) :
              /\ k.assigns.controller_id = e.controller
              /\ \/ LastTransition(queue, c, e.state)
                 \/ NoTransition(queue, c) /\ LastTransition(batch, c, e.state)
        BY <3>5, <4>1 DEF IsElected
      <4>3. CASE LastTransition(queue, c, e.state)
        <5>1. LastTransition(queue', c, e.state)
          BY <2>1, <2>3, <4>3 DEF KeepsEvents
        <5>2. IsElected(n, world', queue', batch', c)
          BY <1>6, <1>7, <4>2, <5>1 DEF IsElected
        <5> QED BY <1>8, <2>3, <5>2 DEF IsCurrent
      <4>4. CASE NoTransition(queue, c) /\ LastTransition(batch, c, e.state)
        <5>1. NoTransition(queue', c)
          BY <2>1, <2>3, <4>4 DEF KeepsEvents
        <5>2. PICK i \in DOMAIN batch :
                /\ batch[i] = Transition(c, e.state)
                /\ \A j \in DOMAIN batch : batch[j].name = "transition_state" /\ batch[j].cluster_id = c => j <= i
          BY <4>4 DEF LastTransition
        <5>3. CASE i = 1
          <6>1. e.state = state
            BY <3>2, <5>2, <5>3 DEF Transition
          <6>2. NoTransition(batch', c)
            <7> SUFFICES ASSUME NEW j \in DOMAIN batch', batch'[j].name = "transition_state",
                                batch'[j].cluster_id = c
                PROVE  FALSE
              BY DEF NoTransition
            <7>1. j \in Nat /\ j + 1 <= 1 /\ j + 1 \in DOMAIN batch /\ j # 0
              <8>1. DOMAIN batch' = 1..Len(batch')
                BY <1>1, HeadTailProperties, LenProperties
              <8> QED BY <3>2, <5>2, <5>3, <8>1
            <7> QED BY <7>1
          <6>3. Follows(n, world', state)
            BY <1>7, <1>11 DEF Follows
          <6>4. IsElected(n, world', queue', batch', c)
            BY <1>6, <1>7, <4>2, <5>1, <6>1, <6>2, <6>3 DEF IsElected
          <6> QED BY <1>8, <2>3, <6>4 DEF IsCurrent
        <5>4. CASE i # 1
          <6>1. i - 1 \in DOMAIN batch' /\ batch'[i - 1] = Transition(c, e.state)
            BY <3>2, <5>2, <5>4
          <6>2. ASSUME NEW j \in DOMAIN batch', batch'[j].name = "transition_state", batch'[j].cluster_id = c
                PROVE  j <= i - 1
            <7>1. j + 1 <= i /\ j \in Nat /\ i \in Nat
              BY <3>2, <5>2, <6>2
            <7> QED BY <7>1
          <6>3. LastTransition(batch', c, e.state)
            BY <6>1, <6>2 DEF LastTransition
          <6>4. IsElected(n, world', queue', batch', c)
            BY <1>6, <1>7, <4>2, <5>1, <6>3 DEF IsElected
          <6> QED BY <1>8, <2>3, <6>4 DEF IsCurrent
        <5> QED BY <5>3, <5>4
      <4> QED BY <4>2, <4>3, <4>4
    <3> QED BY <3>1, <3>4, <3>5 DEF IsCurrent
  <2> QED BY <2>2, <2>3
<1>15. AllCurrent(reg', world', queue', batch')
  BY <1>14 DEF AllCurrent
<1>16. IsKnown(reg', world')
  <2>1. IsSame(reg, reg')
    BY QuietView DEF Quiet, ElectInv, GrowInv
  <2> QED BY <2>1, <1>12, KnownStays
<1> QED BY <1>1, <1>4, <1>12, <1>13, <1>15, <1>16, HandlerElects

\* The queue of one update is the batch of the next, in which no cluster is
\* refreshed yet.
LEMMA BeginUpdateElects ==
  ASSUME ElectInv, GrowInv', SafeInv', BeginUpdate
  PROVE  ElectInv'
<1>1. /\ batch' = queue /\ queue' = <<>> /\ batch = <<>> /\ world' = world
  BY DEF BeginUpdate, ElectInv, GrowInv, SafeInv
<1>2. /\ Live(reg') = Live(reg)
      /\ \A c \in Live(reg) :
           reg'.m_clusters[c] = [reg.m_clusters[c] EXCEPT !.assigns.generation_id = FALSE]
  BY BeginUpdateEffect DEF ElectInv, GrowInv, SafeInv, IInv
<1>3. IsKnown(reg', world')
  <2>1. IsSame(reg, reg') /\ IsAlikeWorld(world, world')
    BY <1>1, QuietView, AlikeItself DEF Quiet, ElectInv, GrowInv
  <2> QED BY <2>1, KnownStays
<1>4. IsFaithful(batch', world') /\ IsFaithful(queue', world')
  BY <1>1 DEF ElectInv, IsFaithful
<1>5. ASSUME NEW c \in Live(reg)
      PROVE  IsCurrent(reg'.m_clusters[c], world', queue', batch', c)
  <2> DEFINE k == reg.m_clusters[c]
             a == [k.assigns EXCEPT !.generation_id = FALSE]
             n == [k EXCEPT !.assigns = a]
  <2>1. k \in Cluster /\ k.assigns \in Assigns
    BY RegistryClusters DEF ElectInv, GrowInv, SafeInv, IInv, Consistent, Cluster
  <2>2. reg'.m_clusters[c] = n
    BY <1>2
  <2>3. /\ ~a.generation_id /\ a.controller_id = k.assigns.controller_id /\ a.state = k.assigns.state
    BY <2>1 DEF Assigns
  <2> HIDE DEF a
  <2>4. Elections(n) = Elections(k) /\ n.assigns = a /\ Members(n) = Members(k)
    BY <2>1, AssignsKeepElections, AssignsLeaveNodes
  <2> HIDE DEF n
  <2>5. IsCurrent(k, world, queue, batch, c)
    BY DEF ElectInv, AllCurrent
  <2> HIDE DEF k
  <2>6. ~Refreshes(batch, c) /\ \A s : ~LastTransition(batch, c, s)
    BY <1>1 DEF Refreshes, LastTransition
  <2>7. NoTransition(queue', c)
    BY <1>1 DEF NoTransition
  <2>8. CASE Refreshes(queue, c)
    BY <2>2, <2>3, <2>4, <2>8, <1>1 DEF IsCurrent
  <2>9. CASE IsElected(k, world, queue, batch, c)
    <3>1. \A s : Follows(k, world, s) => Follows(n, world', s)
      BY <1>1, <2>4 DEF Follows
    <3>2. IsElected(n, world', queue', batch', c)
      BY <1>1, <2>3, <2>4, <2>6, <2>7, <2>9, <3>1 DEF IsElected
    <3> QED BY <2>2, <3>2 DEF IsCurrent
  <2> QED BY <2>5, <2>6, <2>8, <2>9 DEF IsCurrent
<1> QED BY <1>2, <1>3, <1>4, <1>5 DEF ElectInv, AllCurrent

LEMMA EndUpdateElects ==
  ASSUME ElectInv, GrowInv', SafeInv', EndUpdate \/ EndShortUpdate \/ UNCHANGED vars
  PROVE  ElectInv'
<1>1. UNCHANGED <<world, queue, batch>>
  BY DEF EndUpdate, EndShortUpdate, vars
<1>2. IsKnown(reg', world')
  <2>1. IsSame(reg, reg') /\ IsAlikeWorld(world, world')
    BY <1>1, QuietView, AlikeItself DEF Quiet, ElectInv, GrowInv
  <2> QED BY <2>1, KnownStays
<1>3. \A c \in Live(reg') : c \in Live(reg) /\ reg'.m_clusters[c] = reg.m_clusters[c]
  BY EndUpdateEffect DEF vars, ElectInv, GrowInv, SafeInv, IInv
<1> QED BY <1>1, <1>2, <1>3 DEF ElectInv, AllCurrent, IsFaithful

\* A new device is not yet a member of a cluster.
LEMMA PlaceNodeElects ==
  ASSUME ElectInv, GrowInv', SafeInv', NEW p \in Pos, NEW kind \in Kind, PlaceNode(p, kind)
  PROVE  ElectInv'
<1> DEFINE e == [name |-> "add_node", pos |-> p, kind |-> kind]
<1>1. /\ UNCHANGED <<reg, batch>> /\ world[p] = Air
      /\ world' = [world EXCEPT ![p] = kind] /\ queue' = Append(queue, e)
  BY DEF PlaceNode, MayAct, Schedule
<1>2. /\ queue \in Seq(DeviceEvent) /\ e \in DeviceEvent /\ world \in [Pos -> Kind \cup {Air}]
  BY DeviceEvents, EventIsTyped DEF ElectInv, GrowInv, SafeInv, IInv, WorldInv, EventName
<1>3. e.name = "add_node" /\ e.pos = p /\ e.kind = kind
  OBVIOUS
<1> HIDE DEF e
<1>4. IsExtended(queue', queue, {e})
  BY <1>1, <1>2, AppendIsExtended
<1>5. \A q \in Pos : world'[q] = IF q = p THEN kind ELSE world[q]
  BY <1>1, <1>2
<1>6. IsAlikeWorld(world, world')
  BY <1>1, <1>5, SimpleClusterAssumption DEF IsAlikeWorld, IsAlike
<1>7. IsFaithful(queue', world')
  <2>1. IsAlike(e.kind, world'[e.pos])
    BY <1>3, <1>5 DEF IsAlike
  <2> QED BY <1>4, <1>6, <2>1, FaithfulExtended DEF ElectInv, GrowInv
<1>8. IsFaithful(batch', world')
  BY <1>1, <1>6 DEF ElectInv, GrowInv, IsFaithful, IsScheduled, IsAlikeWorld, IsAlike
<1>9. IsKnown(reg', world')
  <2>1. IsSame(reg, reg')
    BY QuietView DEF Quiet, ElectInv, GrowInv
  <2> QED BY <2>1, <1>6, KnownStays
<1>10. ASSUME NEW c \in Live(reg')
       PROVE  IsCurrent(reg'.m_clusters[c], world', queue', batch', c)
  <2>1. c \in Live(reg) /\ IsCurrent(reg.m_clusters[c], world, queue, batch, c)
    BY <1>1 DEF ElectInv, AllCurrent
  <2>2. \A q \in Members(reg.m_clusters[c]) : world'[q] = world[q]
    <3> SUFFICES ASSUME NEW q \in Members(reg.m_clusters[c]) PROVE world'[q] = world[q]
      OBVIOUS
    <3>1. q \in Pos /\ q \in RegisteredIn(reg)
      BY <2>1, NodeInView DEF ElectInv, GrowInv, SafeInv, IInv
    <3>2. world[q] \in Kind
      BY <3>1 DEF ElectInv, GrowInv, IsPainted
    <3> QED BY <1>1, <1>5, <3>1, <3>2, SimpleClusterAssumption
  <2>3. KeepsEvents(queue, queue', c)
    BY <1>3, <1>4, ExtensionKeepsEvents
  <2>4. KeepsEvents(batch, batch', c)
    BY <1>1, SameEvents
  <2>5. reg'.m_clusters[c] = reg.m_clusters[c]
    BY <1>1
  <2> QED BY <2>1, <2>2, <2>3, <2>4, <2>5, CurrentStays
<1> QED BY <1>7, <1>8, <1>9, <1>10 DEF ElectInv, AllCurrent

\* A device that works shows a name of its own, which its election ignores.
LEMMA WorkElects ==
  ASSUME ElectInv, GrowInv', SafeInv', NEW p \in Pos, NEW kind \in Kind, Work(p, kind)
  PROVE  ElectInv'
<1> DEFINE e == [name |-> "update_node", pos |-> p, kind |-> kind]
<1>1. UNCHANGED <<reg, batch>> /\ batch = <<>> /\ world[p] \in Kind
  BY WorkEffect DEF ElectInv, GrowInv, SafeInv
<1>2. /\ Shares(world[p], kind) /\ kind \in OwnNames[kind] /\ IsExtended(queue', queue, {e})
      /\ \A q \in Pos : world'[q] = IF q = p THEN kind ELSE world[q]
  BY WorkRenames DEF ElectInv, GrowInv, SafeInv
<1>3. e.name = "update_node" /\ e.pos = p /\ e.kind = kind
  OBVIOUS
<1> HIDE DEF e
<1>4. IsAlikeWorld(world, world')
  BY <1>1, <1>2 DEF IsAlikeWorld, IsAlike, Shares
<1>5. IsFaithful(queue', world')
  <2>1. IsAlike(e.kind, world'[e.pos])
    BY <1>2, <1>3 DEF IsAlike
  <2> QED BY <1>2, <1>4, <2>1, FaithfulExtended DEF ElectInv, GrowInv
<1>6. IsFaithful(batch', world')
  BY <1>1 DEF IsFaithful
<1>7. IsKnown(reg', world')
  <2>1. IsSame(reg, reg')
    BY QuietView DEF Quiet, ElectInv, GrowInv
  <2> QED BY <2>1, <1>4, KnownStays
<1>8. ASSUME NEW c \in Live(reg')
      PROVE  IsCurrent(reg'.m_clusters[c], world', queue', batch', c)
  <2>1. c \in Live(reg) /\ IsCurrent(reg.m_clusters[c], world, queue, batch, c)
    BY <1>1 DEF ElectInv, AllCurrent
  <2>2. \A q \in Members(reg.m_clusters[c]) : world'[q] = world[q] \/ world'[q] \in OwnNames[world'[q]]
    <3>1. Members(reg.m_clusters[c]) \subseteq Pos
      BY <2>1, NodeInView DEF ElectInv, GrowInv, SafeInv, IInv
    <3> QED BY <1>2, <3>1
  <2>3. KeepsEvents(queue, queue', c)
    BY <1>2, <1>3, ExtensionKeepsEvents
  <2>4. KeepsEvents(batch, batch', c)
    BY <1>1, SameEvents
  <2>5. reg'.m_clusters[c] = reg.m_clusters[c]
    BY <1>1
  <2> QED BY <2>1, <2>2, <2>3, <2>4, <2>5, CurrentStays
<1> QED BY <1>5, <1>6, <1>7, <1>8 DEF ElectInv, AllCurrent

LEMMA InitElects == Init => ElectInv
<1> SUFFICES ASSUME Init PROVE ElectInv
  OBVIOUS
<1>1. GrowInv
  BY InitGrows
<1>2. Live(reg) = {} /\ queue = <<>> /\ batch = <<>>
  BY DEF Init, EmptyRegistry, Live
<1>3. RegisteredIn(reg) = {}
  BY <1>2 DEF RegisteredIn, HoldersIn
<1> QED BY <1>1, <1>2, <1>3 DEF ElectInv, IsFaithful, IsKnown, AllCurrent

LEMMA NextElects ==
  ASSUME Environment \subseteq {"place", "work"}, ElectInv, GrowInv', SafeInv', [DeviceNext]_vars
  PROVE  ElectInv'
<1>1. HandleAddDevice \/ HandleUpdateNode \/ Quiet
  BY GrowSteps DEF ElectInv
<1> QED BY <1>1, AddDeviceElects, UpdateDeviceElects, RefreshElects, SkippedElects, TransitionElects,
           BeginUpdateElects, EndUpdateElects, PlaceNodeElects, WorkElects DEF Quiet

LEMMA ElectInvariant ==
  ASSUME Environment \subseteq {"place", "work"}
  PROVE  DeviceSpec => []ElectInv
<1>1. Init => ElectInv
  BY InitElects
<1>2. ElectInv /\ GrowInv' /\ [DeviceNext]_vars => ElectInv'
  BY NextElects DEF GrowInv
<1> QED BY <1>1, <1>2, GrowInvariant, PTL DEF DeviceSpec

\* When no event is left the last election is the one that counts.
LEMMA SettledElections ==
  ASSUME ElectInv, Settled, NEW c \in Live(reg)
  PROVE  LET k == reg.m_clusters[c]
         IN \E e \in Elections(k) :
              k.assigns.controller_id = e.controller /\ k.assigns.state = e.state
              /\ Follows(k, world, e.state)
<1>1. queue = <<>> /\ batch = <<>>
  BY DEF Settled, ElectInv, GrowInv, SafeInv
<1>2. IsCurrent(reg.m_clusters[c], world, queue, batch, c)
  BY DEF ElectInv, AllCurrent
<1>3. /\ ~Refreshes(queue, c) /\ ~Refreshes(batch, c)
      /\ \A s : ~LastTransition(queue, c, s) /\ ~LastTransition(batch, c, s)
  BY <1>1 DEF Refreshes, LastTransition
<1> QED BY <1>2, <1>3 DEF IsCurrent, IsElected

\* As long as nothing is dug, unloaded or loaded again, every cluster has the
\* controller and the state its present members elect once all events are
\* handled: a refresh that _handle_refresh_controller skips, or one for a
\* cluster that was merged away, leaves no old decision behind.
THEOREM ElectionsAreCurrent ==
  ASSUME Environment \subseteq {"place", "work"}
  PROVE  DeviceSpec => []ElectionIsCurrent
<1>1. \A k : \A e \in Elections(k) : e = [controller |-> e.controller, state |-> e.state]
  BY DEF Elections
<1>2. ElectInv => ElectionIsCurrent
  <2> SUFFICES ASSUME ElectInv, Settled, NEW c \in NonEmpty
      PROVE  LET k == reg.m_clusters[c]
             IN [controller |-> k.assigns.controller_id, state |-> k.assigns.state] \in Elections(k)
    BY DEF ElectionIsCurrent
  <2>1. c \in Live(reg)
    BY DEF NonEmpty
  <2>2. PICK e \in Elections(reg.m_clusters[c]) :
          reg.m_clusters[c].assigns.controller_id = e.controller /\ reg.m_clusters[c].assigns.state = e.state
    BY <2>1, SettledElections
  <2> QED BY <1>1, <2>2
<1> QED BY <1>2, ElectInvariant, PTL

\* As long as nothing is dug, unloaded or loaded again, every device shows the
\* state of its cluster, or what it has decided by itself, once all events are
\* handled: transition_device_state reaches each member of every cluster, in
\* the order of the elections, while machines start, stop and idle.
THEOREM DevicesFollow ==
  ASSUME Environment \subseteq {"place", "work"}
  PROVE  DeviceSpec => []DevicesFollowCluster
<1>1. ElectInv => DevicesFollowCluster
  <2> SUFFICES ASSUME ElectInv, Settled, NEW c \in NonEmpty, NEW p \in Members(reg.m_clusters[c]),
                      VariantOf[world[p]][reg.m_clusters[c].assigns.state] # {}
      PROVE  world[p] \in VariantOf[world[p]][reg.m_clusters[c].assigns.state] \cup OwnNames[world[p]]
    BY DEF DevicesFollowCluster
  <2>1. c \in Live(reg)
    BY DEF NonEmpty
  <2> QED BY <2>1, SettledElections DEF Follows
<1> QED BY <1>1, ElectInvariant, PTL
=============================================================================
