--------------------------- MODULE RegistryProofs ---------------------------
(* Every operation of ClusterRegistry keeps the tables of Clusters tables,   *)
(* and the indexes in step with the clusters; and so does any client.        *)
EXTENDS Clusters, FiniteSetTheorems, WellFoundedInduction, TLAPS

LEMMA NodeTables ==
  ASSUME NEW f
  PROVE  f \in NodeTable <=> IsTable(f, Pos, Kind)
<1>1. ASSUME f \in NodeTable PROVE IsTable(f, Pos, Kind)
  <2>1. PICK S \in SUBSET Pos : f \in [S -> Kind]
    BY <1>1 DEF NodeTable
  <2> QED BY <2>1 DEF IsTable
<1>2. ASSUME IsTable(f, Pos, Kind) PROVE f \in NodeTable
  <2>1. DOMAIN f \in SUBSET Pos /\ f \in [DOMAIN f -> Kind]
    BY <1>2 DEF IsTable
  <2> QED BY <2>1 DEF NodeTable
<1> QED BY <1>1, <1>2

LEMMA NewClusterType ==
  ASSUME NEW groups \in SUBSET ClusterGroup
  PROVE  NewCluster(groups) \in Cluster
<1>1. [p \in {} |-> Nil] \in NodeTable
  BY NodeTables DEF IsTable
<1>2. NoAssigns \in Assigns
  BY DEF NoAssigns, Assigns
<1> QED BY <1>1, <1>2 DEF NewCluster, Cluster

LEMMA PutNodesType ==
  ASSUME NEW k \in Cluster, NEW f, IsTable(f, Pos, Kind)
  PROVE  PutNodes(k, f) \in Cluster
<1> DEFINE g == [p \in Members(k) \cup DOMAIN f |-> IF p \in DOMAIN f THEN f[p] ELSE k.nodes[p]]
<1>1. IsTable(k.nodes, Pos, Kind)
  BY NodeTables DEF Cluster
<1>2. g \in NodeTable
  <2>1. IsTable(g, Pos, Kind)
    BY <1>1 DEF IsTable, Members
  <2> QED BY <2>1, NodeTables
<1>3. GroupPairs(f) \subseteq NodeGroup \X Pos /\ BlockPairs(DOMAIN f) \subseteq Block \X Pos
  BY RegistryAssumption DEF GroupPairs, BlockPairs, IsTable
<1> QED BY <1>2, <1>3 DEF PutNodes, Cluster

-----------------------------------------------------------------------------
(* The indexes of one cluster, entry by entry.                               *)

ClusterAgrees(k) ==
  /\ \A b \in Block, p \in Pos :
       <<b, p>> \in k.block_nodes <=> p \in Members(k) /\ b = BlockOf[p]
  /\ \A p \in Members(k) : \A g \in GroupsOf[k.nodes[p]] : <<g, p>> \in k.group_nodes

LEMMA MembersType ==
  ASSUME NEW k \in Cluster
  PROVE  Members(k) \subseteq Pos /\ \A p \in Members(k) : k.nodes[p] \in Kind
BY NodeTables DEF Cluster, Members, IsTable

LEMMA ClusterAgreesIndexes ==
  ASSUME NEW k \in Cluster
  PROVE  ClusterAgrees(k) <=> /\ k.block_nodes = BlockPairs(Members(k))
                              /\ GroupPairs(k.nodes) \subseteq k.group_nodes
<1>1. k.block_nodes \subseteq Block \X Pos
  BY DEF Cluster
<1>2. ASSUME ClusterAgrees(k)
      PROVE  k.block_nodes = BlockPairs(Members(k)) /\ GroupPairs(k.nodes) \subseteq k.group_nodes
  <2>1. k.block_nodes = BlockPairs(Members(k))
    BY <1>1, <1>2, MembersType, RegistryAssumption DEF ClusterAgrees, BlockPairs
  <2>2. GroupPairs(k.nodes) \subseteq k.group_nodes
    BY <1>2 DEF ClusterAgrees, GroupPairs, Members
  <2> QED BY <2>1, <2>2
<1>3. ASSUME k.block_nodes = BlockPairs(Members(k)), GroupPairs(k.nodes) \subseteq k.group_nodes
      PROVE  ClusterAgrees(k)
  <2>1. \A b \in Block, p \in Pos :
          <<b, p>> \in k.block_nodes <=> p \in Members(k) /\ b = BlockOf[p]
    BY <1>3 DEF BlockPairs
  <2>2. \A p \in Members(k) : \A g \in GroupsOf[k.nodes[p]] : <<g, p>> \in k.group_nodes
    BY <1>3, MembersType, RegistryAssumption DEF GroupPairs, Members
  <2> QED BY <2>1, <2>2 DEF ClusterAgrees
<1> QED BY <1>2, <1>3

LEMMA NewClusterAgrees ==
  ASSUME NEW groups
  PROVE  /\ Members(NewCluster(groups)) = {}
         /\ ClusterAgrees(NewCluster(groups))
         /\ NewCluster(groups).groups = groups
BY DEF NewCluster, Members, ClusterAgrees

LEMMA PutNodesMembers ==
  ASSUME NEW k \in Cluster, NEW f
  PROVE  Members(PutNodes(k, f)) = Members(k) \cup DOMAIN f
BY DEF PutNodes, Cluster, Members

LEMMA PutNodesEntries ==
  ASSUME NEW k \in Cluster, NEW f
  PROVE  /\ \A p \in DOMAIN f : PutNodes(k, f).nodes[p] = f[p]
         /\ \A p \in Members(k) \ DOMAIN f : PutNodes(k, f).nodes[p] = k.nodes[p]
BY DEF PutNodes, Cluster, Members

LEMMA PutNodesClusterGroups ==
  ASSUME NEW k \in Cluster, NEW f
  PROVE  PutNodes(k, f).groups = k.groups
BY DEF PutNodes, Cluster

LEMMA PutNodesBlocks ==
  ASSUME NEW k \in Cluster, NEW f
  PROVE  \A b, p : <<b, p>> \in PutNodes(k, f).block_nodes <=>
           <<b, p>> \in k.block_nodes \/ (p \in DOMAIN f /\ b = BlockOf[p])
<1>1. PutNodes(k, f).block_nodes = k.block_nodes \cup BlockPairs(DOMAIN f)
  BY DEF PutNodes, Cluster
<1> QED BY <1>1 DEF BlockPairs

LEMMA PutNodesGroups ==
  ASSUME NEW k \in Cluster, NEW f
  PROVE  \A g, p : <<g, p>> \in PutNodes(k, f).group_nodes <=>
           \/ <<g, p>> \in k.group_nodes
           \/ g \in NodeGroup /\ p \in DOMAIN f /\ g \in GroupsOf[f[p]]
<1>1. PutNodes(k, f).group_nodes = k.group_nodes \cup GroupPairs(f)
  BY DEF PutNodes, Cluster
<1> QED BY <1>1 DEF GroupPairs

LEMMA PutNodesAgrees ==
  ASSUME NEW k \in Cluster, NEW f, IsTable(f, Pos, Kind), ClusterAgrees(k)
  PROVE  ClusterAgrees(PutNodes(k, f))
<1> DEFINE m == PutNodes(k, f)
<1>1. ASSUME NEW b \in Block, NEW p \in Pos
      PROVE  <<b, p>> \in m.block_nodes <=> p \in Members(m) /\ b = BlockOf[p]
  <2>1. <<b, p>> \in m.block_nodes <=> <<b, p>> \in k.block_nodes \/ (p \in DOMAIN f /\ b = BlockOf[p])
    BY PutNodesBlocks
  <2>2. p \in Members(m) <=> p \in Members(k) \/ p \in DOMAIN f
    BY PutNodesMembers
  <2>3. <<b, p>> \in k.block_nodes <=> p \in Members(k) /\ b = BlockOf[p]
    BY DEF ClusterAgrees
  <2> QED BY <2>1, <2>2, <2>3
<1>2. ASSUME NEW p \in Members(m), NEW g \in GroupsOf[m.nodes[p]]
      PROVE  <<g, p>> \in m.group_nodes
  <2>1. <<g, p>> \in m.group_nodes <=>
           \/ <<g, p>> \in k.group_nodes
           \/ g \in NodeGroup /\ p \in DOMAIN f /\ g \in GroupsOf[f[p]]
    BY PutNodesGroups
  <2>2. CASE p \in DOMAIN f
    <3>1. m.nodes[p] = f[p] /\ f[p] \in Kind
      BY <2>2, PutNodesEntries DEF IsTable
    <3> QED BY <2>1, <2>2, <3>1, RegistryAssumption
  <2>3. CASE p \notin DOMAIN f
    <3>1. p \in Members(k) /\ m.nodes[p] = k.nodes[p]
      BY <2>3, PutNodesMembers, PutNodesEntries
    <3>2. <<g, p>> \in k.group_nodes
      BY <3>1 DEF ClusterAgrees
    <3> QED BY <2>1, <3>2
  <2> QED BY <2>2, <2>3
<1> QED BY <1>1, <1>2 DEF ClusterAgrees

LEMMA RemoveNodesType ==
  ASSUME NEW k \in Cluster, NEW S
  PROVE  RemoveNodes(k, S) \in Cluster
<1>1. IsTable(k.nodes, Pos, Kind)
  BY NodeTables DEF Cluster
<1>2. Restrict(k.nodes, Members(k) \ S) \in NodeTable
  <2>1. IsTable(Restrict(k.nodes, Members(k) \ S), Pos, Kind)
    BY <1>1 DEF IsTable, Members, Restrict
  <2> QED BY <2>1, NodeTables
<1> QED BY <1>2 DEF RemoveNodes, Cluster, WithoutGroupsOf

LEMMA RemoveNodesMembers ==
  ASSUME NEW k \in Cluster, NEW S
  PROVE  Members(RemoveNodes(k, S)) = Members(k) \ S
BY DEF RemoveNodes, Cluster, Members, Restrict

LEMMA RemoveNodesEntries ==
  ASSUME NEW k \in Cluster, NEW S
  PROVE  \A p \in Members(k) \ S : RemoveNodes(k, S).nodes[p] = k.nodes[p]
BY DEF RemoveNodes, Cluster, Members, Restrict

LEMMA RemoveNodesClusterGroups ==
  ASSUME NEW k \in Cluster, NEW S
  PROVE  RemoveNodes(k, S).groups = k.groups
BY DEF RemoveNodes, Cluster

LEMMA RemoveNodesBlocks ==
  ASSUME NEW k \in Cluster, NEW S
  PROVE  \A b, p : <<b, p>> \in RemoveNodes(k, S).block_nodes <=>
           <<b, p>> \in k.block_nodes /\ ~(p \in S \cap Members(k) /\ b = BlockOf[p])
<1>1. RemoveNodes(k, S).block_nodes = k.block_nodes \ BlockPairs(S \cap Members(k))
  BY DEF RemoveNodes, Cluster
<1> QED BY <1>1 DEF BlockPairs

LEMMA RemoveNodesGroups ==
  ASSUME NEW k \in Cluster, NEW S
  PROVE  \A g, p : <<g, p>> \in k.group_nodes /\ p \notin S
           => <<g, p>> \in RemoveNodes(k, S).group_nodes
<1>1. RemoveNodes(k, S).group_nodes =
        k.group_nodes \ GroupPairs(Restrict(k.nodes, S \cap Members(k)))
  BY DEF RemoveNodes, Cluster, WithoutGroupsOf
<1> QED BY <1>1 DEF GroupPairs, Restrict

LEMMA RemoveNodesAgrees ==
  ASSUME NEW k \in Cluster, NEW S, ClusterAgrees(k)
  PROVE  ClusterAgrees(RemoveNodes(k, S))
<1> DEFINE m == RemoveNodes(k, S)
<1>1. ASSUME NEW b \in Block, NEW p \in Pos
      PROVE  <<b, p>> \in m.block_nodes <=> p \in Members(m) /\ b = BlockOf[p]
  <2>1. <<b, p>> \in m.block_nodes <=>
          <<b, p>> \in k.block_nodes /\ ~(p \in S \cap Members(k) /\ b = BlockOf[p])
    BY RemoveNodesBlocks
  <2>2. p \in Members(m) <=> p \in Members(k) /\ p \notin S
    BY RemoveNodesMembers
  <2>3. <<b, p>> \in k.block_nodes <=> p \in Members(k) /\ b = BlockOf[p]
    BY DEF ClusterAgrees
  <2> QED BY <2>1, <2>2, <2>3
<1>2. ASSUME NEW p \in Members(m), NEW g \in GroupsOf[m.nodes[p]]
      PROVE  <<g, p>> \in m.group_nodes
  <2>1. p \in Members(k) \ S /\ m.nodes[p] = k.nodes[p]
    BY RemoveNodesMembers, RemoveNodesEntries
  <2>2. <<g, p>> \in k.group_nodes
    BY <2>1 DEF ClusterAgrees
  <2> QED BY <2>1, <2>2, RemoveNodesGroups
<1> QED BY <1>1, <1>2 DEF ClusterAgrees

\* The block entries that go first are those RemoveNodes takes out anyway.
LEMMA BlocksExpiredAgrees ==
  ASSUME NEW k \in Cluster, NEW B \in SUBSET Block, ClusterAgrees(k)
  PROVE  /\ OnBlocksExpired(k, B) \in Cluster
         /\ ClusterAgrees(OnBlocksExpired(k, B))
         /\ OnBlocksExpired(k, B).groups = k.groups
         /\ Members(OnBlocksExpired(k, B)) = {p \in Members(k) : BlockOf[p] \notin B}
<1> DEFINE d == [k EXCEPT !.block_nodes = @ \ (B \X Pos)]
           S == NodesInBlocks(k, B)
           m == RemoveNodes(d, S)
<1>1. /\ d \in Cluster /\ Members(d) = Members(k) /\ d.nodes = k.nodes /\ d.groups = k.groups
      /\ d.group_nodes = k.group_nodes /\ d.block_nodes = k.block_nodes \ (B \X Pos)
  BY DEF Cluster, Members
<1> HIDE DEF d
<1>2. \A p \in Members(k) : p \in S <=> BlockOf[p] \in B
  BY MembersType DEF NodesInBlocks, ClusterAgrees
<1> HIDE DEF S
<1>3. m \in Cluster
  BY <1>1, RemoveNodesType
<1>4. Members(m) = {p \in Members(k) : BlockOf[p] \notin B} /\ m.groups = k.groups
  BY <1>1, <1>2, RemoveNodesMembers, RemoveNodesClusterGroups
<1>5. ASSUME NEW b \in Block, NEW p \in Pos
      PROVE  <<b, p>> \in m.block_nodes <=> p \in Members(m) /\ b = BlockOf[p]
  <2>1. <<b, p>> \in m.block_nodes <=>
          <<b, p>> \in d.block_nodes /\ ~(p \in S \cap Members(d) /\ b = BlockOf[p])
    BY <1>1, RemoveNodesBlocks
  <2>2. <<b, p>> \in d.block_nodes <=> <<b, p>> \in k.block_nodes /\ b \notin B
    BY <1>1
  <2>3. <<b, p>> \in k.block_nodes <=> p \in Members(k) /\ b = BlockOf[p]
    BY DEF ClusterAgrees
  <2> QED BY <2>1, <2>2, <2>3, <1>1, <1>2, <1>4
<1>6. ASSUME NEW p \in Members(m), NEW g \in GroupsOf[m.nodes[p]]
      PROVE  <<g, p>> \in m.group_nodes
  <2>1. p \in Members(k) /\ p \notin S /\ p \in Members(d)
    BY <1>1, <1>2, <1>4
  <2>2. m.nodes[p] = k.nodes[p]
    BY <2>1, <1>1, RemoveNodesEntries
  <2>3. <<g, p>> \in d.group_nodes
    BY <2>1, <2>2, <1>1 DEF ClusterAgrees
  <2> QED BY <2>1, <2>3, <1>1, RemoveNodesGroups
<1> QED BY <1>3, <1>4, <1>5, <1>6 DEF OnBlocksExpired, ClusterAgrees, d, S

LEMMA SingletonTable ==
  ASSUME NEW p \in Pos, NEW kind \in Kind
  PROVE  /\ IsTable(Singleton(p, kind), Pos, Kind)
         /\ DOMAIN Singleton(p, kind) = {p}
         /\ Singleton(p, kind)[p] = kind
BY DEF IsTable, Singleton

LEMMA AddNodeAgrees ==
  ASSUME NEW k \in Cluster, NEW p \in Pos, NEW kind \in Kind, ClusterAgrees(k)
  PROVE  /\ AddNode(k, p, kind) \in Cluster
         /\ ClusterAgrees(AddNode(k, p, kind))
         /\ AddNode(k, p, kind).groups = k.groups
         /\ Members(AddNode(k, p, kind)) = Members(k) \cup {p}
<1>1. CASE IsDuplicate(k, p, kind)
  BY <1>1 DEF AddNode, IsDuplicate
<1>2. CASE ~IsDuplicate(k, p, kind)
  <2> DEFINE f == Singleton(p, kind)
  <2>1. AddNode(k, p, kind) = PutNodes(k, f)
    BY <1>2 DEF AddNode
  <2>2. IsTable(f, Pos, Kind) /\ DOMAIN f = {p}
    BY SingletonTable
  <2> HIDE DEF f
  <2>3. PutNodes(k, f) \in Cluster /\ ClusterAgrees(PutNodes(k, f))
    BY <2>2, PutNodesType, PutNodesAgrees
  <2>4. Members(PutNodes(k, f)) = Members(k) \cup {p} /\ PutNodes(k, f).groups = k.groups
    BY <2>2, PutNodesMembers, PutNodesClusterGroups
  <2> QED BY <2>1, <2>3, <2>4
<1> QED BY <1>1, <1>2

\* The groups an entry had are dropped before those of the new entry go in.
LEMMA UpdateNodeAgrees ==
  ASSUME NEW k \in Cluster, NEW p \in Pos, NEW kind \in Kind, ClusterAgrees(k)
  PROVE  /\ UpdateNode(k, p, kind) \in Cluster
         /\ ClusterAgrees(UpdateNode(k, p, kind))
         /\ UpdateNode(k, p, kind).groups = k.groups
         /\ Members(UpdateNode(k, p, kind)) = Members(k)
<1>1. CASE p \notin Members(k)
  BY <1>1 DEF UpdateNode
<1>2. CASE p \in Members(k)
  <2> DEFINE d == [k EXCEPT !.group_nodes = WithoutGroupsOf(k, {p})]
             f == Singleton(p, kind)
             u == PutNodes(d, f)
  <2>1. UpdateNode(k, p, kind) = u
    BY <1>2 DEF UpdateNode
  <2>2. /\ d \in Cluster /\ Members(d) = Members(k) /\ d.nodes = k.nodes
        /\ d.block_nodes = k.block_nodes /\ d.groups = k.groups
        /\ d.group_nodes = WithoutGroupsOf(k, {p})
    BY DEF Cluster, Members, WithoutGroupsOf
  <2>3. \A g, q : <<g, q>> \in k.group_nodes /\ q # p => <<g, q>> \in d.group_nodes
    BY <2>2 DEF WithoutGroupsOf, GroupPairs, Restrict
  <2> HIDE DEF d, f
  <2>4. IsTable(f, Pos, Kind) /\ DOMAIN f = {p} /\ f[p] = kind
    BY SingletonTable DEF f
  <2>5. u \in Cluster
    BY <2>2, <2>4, PutNodesType
  <2>6. Members(u) = Members(k) /\ u.groups = k.groups
    <3>1. Members(u) = Members(d) \cup DOMAIN f /\ u.groups = d.groups
      BY <2>2, PutNodesMembers, PutNodesClusterGroups
    <3> QED BY <3>1, <1>2, <2>2, <2>4
  <2>7. ASSUME NEW b \in Block, NEW q \in Pos
        PROVE  <<b, q>> \in u.block_nodes <=> q \in Members(u) /\ b = BlockOf[q]
    <3>1. <<b, q>> \in u.block_nodes <=> <<b, q>> \in d.block_nodes \/ (q \in DOMAIN f /\ b = BlockOf[q])
      BY <2>2, PutNodesBlocks
    <3>2. <<b, q>> \in k.block_nodes <=> q \in Members(k) /\ b = BlockOf[q]
      BY DEF ClusterAgrees
    <3> QED BY <3>1, <3>2, <1>2, <2>2, <2>4, <2>6
  <2>8. ASSUME NEW q \in Members(u), NEW g \in GroupsOf[u.nodes[q]]
        PROVE  <<g, q>> \in u.group_nodes
    <3>1. <<g, q>> \in u.group_nodes <=>
             \/ <<g, q>> \in d.group_nodes
             \/ g \in NodeGroup /\ q \in DOMAIN f /\ g \in GroupsOf[f[q]]
      BY <2>2, PutNodesGroups
    <3>2. CASE q = p
      <4>1. u.nodes[q] = kind
        BY <3>2, <2>2, <2>4, PutNodesEntries
      <4> QED BY <3>1, <3>2, <4>1, <2>4, RegistryAssumption
    <3>3. CASE q # p
      <4>1. q \in Members(d) \ DOMAIN f /\ q \in Members(k)
        BY <3>3, <2>2, <2>4, <2>6
      <4>2. u.nodes[q] = k.nodes[q]
        BY <4>1, <2>2, PutNodesEntries
      <4>3. <<g, q>> \in k.group_nodes
        BY <4>1, <4>2 DEF ClusterAgrees
      <4> QED BY <3>1, <3>3, <4>3, <2>3
    <3> QED BY <3>2, <3>3
  <2> QED BY <2>1, <2>5, <2>6, <2>7, <2>8 DEF ClusterAgrees
<1> QED BY <1>1, <1>2

-----------------------------------------------------------------------------
(* Merging.                                                                  *)

\* A set of indexes has a last one: the least-number principle, from the
\* well-foundedness of the strict subsets of 1..n, here the later indexes.
LEMMA LastIndex ==
  ASSUME NEW n \in Nat, NEW D \in SUBSET (1..n), D # {}
  PROVE  \E m \in D : \A j \in D : j <= m
<1> DEFINE Later(i) == {j \in 1..n : j > i}
           T == {Later(i) : i \in D}
<1>1. IsFiniteSet(1..n)
  BY FS_Interval
<1>2. IsWellFoundedOn(StrictSubsetOrdering(1..n), SUBSET (1..n))
  BY <1>1, FS_StrictSubsetOrderingWellFounded, FS_FiniteSubsetsOfFinite
<1>3. T \subseteq SUBSET (1..n) /\ T # {}
  OBVIOUS
<1>4. PICK x \in T : \A y \in T : <<y, x>> \notin StrictSubsetOrdering(1..n)
  BY <1>2, <1>3, WFMin
<1>5. PICK m \in D : x = Later(m)
  BY <1>4
<1>6. ASSUME NEW j \in D, ~(j <= m) PROVE FALSE
  <2>1. Later(j) \in T /\ Later(j) \subseteq Later(m) /\ j \in Later(m) /\ j \notin Later(j)
    BY <1>6
  <2>2. <<Later(j), Later(m)>> \in StrictSubsetOrdering(1..n)
    BY <2>1 DEF StrictSubsetOrdering
  <2> QED BY <2>1, <2>2, <1>4, <1>5
<1> QED BY <1>6

LEMMA MaxMember ==
  ASSUME NEW n \in Nat, NEW D \in SUBSET (1..n), D # {}
  PROVE  Max(D) \in D
<1>1. \E m \in D : \A j \in D : m >= j
  BY LastIndex
<1> QED BY <1>1 DEF Max

LEMMA MergeAllNodes ==
  ASSUME NEW n \in Nat, NEW s \in [1..n -> Cluster]
  PROVE  /\ IsTable(MergeAll(s).nodes, Pos, Kind)
         /\ Members(MergeAll(s)) = UNION {Members(s[i]) : i \in 1..n}
         /\ \A p \in Members(MergeAll(s)) :
              \E i \in 1..n : p \in Members(s[i]) /\ MergeAll(s).nodes[p] = s[i].nodes[p]
<1> DEFINE Last(p) == Max({i \in 1..n : p \in Members(s[i])})
           U == UNION {Members(s[i]) : i \in 1..n}
           f == [p \in U |-> s[Last(p)].nodes[p]]
<1>1. MergeAll(s).nodes = f
  BY DEF MergeAll
<1>2. ASSUME NEW p \in U
      PROVE  Last(p) \in 1..n /\ p \in Members(s[Last(p)])
  <2>1. Last(p) \in {i \in 1..n : p \in Members(s[i])}
    BY MaxMember
  <2> QED BY <2>1
<1>3. ASSUME NEW p \in U
      PROVE  p \in Pos /\ f[p] = s[Last(p)].nodes[p] /\ f[p] \in Kind
  BY <1>2, MembersType
<1> HIDE DEF Last
<1>4. IsTable(f, Pos, Kind)
  BY <1>3 DEF IsTable
<1> QED BY <1>1, <1>2, <1>3, <1>4 DEF Members

LEMMA MergeAllType ==
  ASSUME NEW n \in Nat \ {0}, NEW s \in [1..n -> Cluster]
  PROVE  MergeAll(s) \in Cluster
<1>1. MergeAll(s).nodes \in NodeTable
  BY MergeAllNodes, NodeTables
<1>2. s \in Seq(Cluster) /\ Len(s) = n
  OBVIOUS
<1>3. s[n].assigns.generation_id \in BOOLEAN
  BY DEF Cluster, Assigns
<1>4. MergedAssign(s, "controller_id") \in Pos \cup {Nil}
  <2> DEFINE given == {i \in DOMAIN s : s[i].assigns.controller_id # Nil}
  <2>1. \A i \in 1..n : s[i].assigns.controller_id \in Pos \cup {Nil}
    BY DEF Cluster, Assigns
  <2>2. CASE given = {}
    BY <2>2 DEF MergedAssign
  <2>3. CASE given # {}
    <3>1. Max(given) \in given
      BY <2>3, MaxMember
    <3>2. MergedAssign(s, "controller_id") = s[Max(given)].assigns.controller_id
      BY <2>3 DEF MergedAssign
    <3> QED BY <2>1, <3>1, <3>2
  <2> QED BY <2>2, <2>3
<1>5. MergedAssign(s, "state") \in DeviceState \cup {Nil}
  <2> DEFINE given == {i \in DOMAIN s : s[i].assigns.state # Nil}
  <2>1. \A i \in 1..n : s[i].assigns.state \in DeviceState \cup {Nil}
    BY DEF Cluster, Assigns
  <2>2. CASE given = {}
    BY <2>2 DEF MergedAssign
  <2>3. CASE given # {}
    <3>1. Max(given) \in given
      BY <2>3, MaxMember
    <3>2. MergedAssign(s, "state") = s[Max(given)].assigns.state
      BY <2>3 DEF MergedAssign
    <3> QED BY <2>1, <3>1, <3>2
  <2> QED BY <2>2, <2>3
<1>6. MergeAll(s).assigns \in Assigns
  BY <1>2, <1>3, <1>4, <1>5 DEF MergeAll, Assigns
<1>7. /\ MergeAll(s).groups \in SUBSET ClusterGroup
      /\ MergeAll(s).block_nodes \in SUBSET (Block \X Pos)
      /\ MergeAll(s).group_nodes \in SUBSET (NodeGroup \X Pos)
  BY DEF MergeAll, Cluster
<1> QED BY <1>1, <1>6, <1>7 DEF MergeAll, Cluster

LEMMA MergeAllAgrees ==
  ASSUME NEW n \in Nat \ {0}, NEW s \in [1..n -> Cluster], \A i \in 1..n : ClusterAgrees(s[i])
  PROVE  ClusterAgrees(MergeAll(s))
<1> DEFINE m == MergeAll(s)
<1>1. ASSUME NEW b \in Block, NEW p \in Pos
      PROVE  <<b, p>> \in m.block_nodes <=> p \in Members(m) /\ b = BlockOf[p]
  <2>1. <<b, p>> \in m.block_nodes <=> \E i \in 1..n : <<b, p>> \in s[i].block_nodes
    BY DEF MergeAll
  <2>2. \A i \in 1..n : <<b, p>> \in s[i].block_nodes <=> p \in Members(s[i]) /\ b = BlockOf[p]
    BY DEF ClusterAgrees
  <2>3. p \in Members(m) <=> \E i \in 1..n : p \in Members(s[i])
    BY MergeAllNodes
  <2> QED BY <2>1, <2>2, <2>3
<1>2. ASSUME NEW p \in Members(m), NEW g \in GroupsOf[m.nodes[p]]
      PROVE  <<g, p>> \in m.group_nodes
  <2>1. PICK i \in 1..n : p \in Members(s[i]) /\ m.nodes[p] = s[i].nodes[p]
    BY MergeAllNodes
  <2>2. <<g, p>> \in s[i].group_nodes
    BY <2>1 DEF ClusterAgrees
  <2> QED BY <2>2 DEF MergeAll
<1> QED BY <1>1, <1>2 DEF ClusterAgrees

-----------------------------------------------------------------------------
(* The tables of Clusters, entry by entry.                                   *)

Consistent(r) ==
  /\ IsRegistry(r)
  /\ \A c \in Live(r) : ClusterAgrees(r.m_clusters[c])
  /\ \A c \in Live(r) : c <= r.m_cluster_id
  /\ \A c \in Live(r) : \A p \in Members(r.m_clusters[c]) : <<p, c>> \in r.m_node_clusters
  /\ \A c \in Live(r) : \A p \in Members(r.m_clusters[c]) : BlockOf[p] \in DOMAIN r.m_active_blocks
  /\ \A g \in ClusterGroup, c \in ClusterId :
       <<g, c>> \in r.m_group_clusters <=> c \in Live(r) /\ g \in r.m_clusters[c].groups
  /\ \A p \in Pos, c \in ClusterId : <<p, c>> \in r.m_node_clusters => c <= r.m_cluster_id

LEMMA RegistryClusters ==
  ASSUME NEW r, IsRegistry(r)
  PROVE  \A c \in Live(r) : /\ c \in ClusterId
                            /\ r.m_clusters[c] \in Cluster
                            /\ Members(r.m_clusters[c]) \subseteq Pos
                            /\ r.m_clusters[c].groups \subseteq ClusterGroup
<1>1. \A c \in Live(r) : c \in ClusterId /\ r.m_clusters[c] \in Cluster
  BY DEF IsRegistry, IsTable, Live
<1>2. ASSUME NEW k \in Cluster PROVE Members(k) \subseteq Pos /\ k.groups \subseteq ClusterGroup
  BY MembersType DEF Cluster
<1> QED BY <1>1, <1>2

\* The indexes of every cluster, and the tables of Clusters, agree.
LEMMA ConsistentIndexes ==
  ASSUME NEW r
  PROVE  Consistent(r) <=> IsRegistry(r) /\ IndexesAgree(r)
<1> SUFFICES ASSUME IsRegistry(r) PROVE Consistent(r) <=> IndexesAgree(r)
  BY DEF Consistent
<1>1. \A c \in Live(r) : /\ c \in ClusterId
                         /\ r.m_clusters[c] \in Cluster
                         /\ r.m_clusters[c].groups \subseteq ClusterGroup
  BY RegistryClusters
<1>2. (\A c \in Live(r) : ClusterAgrees(r.m_clusters[c]))
        <=> BlocksAreIndexed(r) /\ NodeGroupsAreIndexed(r)
  <2>1. ASSUME NEW c \in Live(r)
        PROVE  ClusterAgrees(r.m_clusters[c])
                 <=> /\ r.m_clusters[c].block_nodes = BlockPairs(Members(r.m_clusters[c]))
                     /\ GroupPairs(r.m_clusters[c].nodes) \subseteq r.m_clusters[c].group_nodes
    BY <1>1, ClusterAgreesIndexes
  <2>2. ASSUME \A c \in Live(r) : ClusterAgrees(r.m_clusters[c])
        PROVE  BlocksAreIndexed(r) /\ NodeGroupsAreIndexed(r)
    BY <2>1, <2>2 DEF BlocksAreIndexed, NodeGroupsAreIndexed
  <2>3. ASSUME BlocksAreIndexed(r), NodeGroupsAreIndexed(r), NEW c \in Live(r)
        PROVE  ClusterAgrees(r.m_clusters[c])
    BY <2>1, <2>3 DEF BlocksAreIndexed, NodeGroupsAreIndexed
  <2> QED BY <2>2, <2>3
<1>3. (\A g \in ClusterGroup, c \in ClusterId :
         <<g, c>> \in r.m_group_clusters <=> c \in Live(r) /\ g \in r.m_clusters[c].groups)
        <=> GroupsAreIndexed(r)
  <2>1. r.m_group_clusters \subseteq ClusterGroup \X ClusterId
    BY DEF IsRegistry
  <2> QED BY <1>1, <2>1 DEF GroupsAreIndexed
<1>4. (\A c \in Live(r) : \A p \in Members(r.m_clusters[c]) : <<p, c>> \in r.m_node_clusters)
        <=> MembersAreIndexed(r)
  BY DEF MembersAreIndexed
<1>5. (\A c \in Live(r) : \A p \in Members(r.m_clusters[c]) : BlockOf[p] \in DOMAIN r.m_active_blocks)
        <=> MembersAreWatched(r)
  BY DEF MembersAreWatched
<1>6. ASSUME GroupsAreIndexed(r)
      PROVE  (/\ \A c \in Live(r) : c <= r.m_cluster_id
              /\ \A p \in Pos, c \in ClusterId : <<p, c>> \in r.m_node_clusters => c <= r.m_cluster_id)
              <=> IdsAreFresh(r)
  <2>1. r.m_node_clusters \subseteq Pos \X ClusterId
    BY DEF IsRegistry
  <2> QED BY <1>6, <2>1 DEF GroupsAreIndexed, IdsAreFresh
<1> QED BY <1>2, <1>3, <1>4, <1>5, <1>6 DEF Consistent, IndexesAgree

LEMMA EmptyConsistent == Consistent(EmptyRegistry)
<1>1. IsRegistry(EmptyRegistry)
  BY DEF IsRegistry, EmptyRegistry, IsTable
<1>2. Live(EmptyRegistry) = {}
  BY DEF Live, EmptyRegistry
<1> QED BY <1>1, <1>2 DEF Consistent, EmptyRegistry

LEMMA MarkBlocksTable ==
  ASSUME NEW r, IsRegistry(r), NEW S \in SUBSET Pos
  PROVE  /\ IsTable(MarkBlocks(r, S).m_active_blocks, Block, Nat)
         /\ DOMAIN r.m_active_blocks \subseteq DOMAIN MarkBlocks(r, S).m_active_blocks
         /\ \A p \in S : BlockOf[p] \in DOMAIN MarkBlocks(r, S).m_active_blocks
         /\ MarkBlocks(r, S) = [r EXCEPT !.m_active_blocks = MarkBlocks(r, S).m_active_blocks]
<1> DEFINE M == r.m_active_blocks
           A == [b \in DOMAIN M \cup {BlockOf[p] : p \in S} |->
                   IF \E p \in S : BlockOf[p] = b THEN 0 ELSE M[b]]
<1>1. IsTable(M, Block, Nat)
  BY DEF IsRegistry
<1>2. MarkBlocks(r, S) = [r EXCEPT !.m_active_blocks = A]
  BY DEF MarkBlocks
<1>3. MarkBlocks(r, S).m_active_blocks = A
  BY <1>2 DEF IsRegistry
<1>4. IsTable(A, Block, Nat)
  BY <1>1, RegistryAssumption DEF IsTable
<1>5. DOMAIN M \subseteq DOMAIN A /\ \A p \in S : BlockOf[p] \in DOMAIN A
  OBVIOUS
<1> QED BY <1>2, <1>3, <1>4, <1>5

\* One cluster changes, with the node index and the marks of the blocks.
WithCluster(r, c, k, N, A) ==
  [r EXCEPT !.m_clusters[c] = k, !.m_node_clusters = N, !.m_active_blocks = A]

\* r is a record with the fields of the tables of Clusters.
IsTables(r) ==
  r = [m_cluster_id |-> r.m_cluster_id, m_clusters |-> r.m_clusters,
       m_group_clusters |-> r.m_group_clusters, m_node_clusters |-> r.m_node_clusters,
       m_active_blocks |-> r.m_active_blocks]

LEMMA WithClusterTables ==
  ASSUME NEW r, IsRegistry(r), NEW c, NEW k, NEW N, NEW A
  PROVE  LET n == WithCluster(r, c, k, N, A)
         IN /\ IsTables(n)
            /\ n.m_cluster_id = r.m_cluster_id /\ n.m_group_clusters = r.m_group_clusters
            /\ n.m_clusters = [r.m_clusters EXCEPT ![c] = k]
            /\ n.m_node_clusters = N /\ n.m_active_blocks = A
<1> DEFINE n == WithCluster(r, c, k, N, A)
<1>1. IsTables(r)
  BY DEF IsRegistry, IsTables
<1>2. n.m_clusters = [r.m_clusters EXCEPT ![c] = k]
  BY <1>1 DEF WithCluster, IsTables
<1>3. /\ n.m_cluster_id = r.m_cluster_id /\ n.m_group_clusters = r.m_group_clusters
      /\ n.m_node_clusters = N /\ n.m_active_blocks = A
  BY <1>1 DEF WithCluster, IsTables
<1>4. IsTables(n)
  <2> DEFINE f == [r.m_clusters EXCEPT ![c] = k]
  <2>1. n = [r EXCEPT !.m_clusters = f, !.m_node_clusters = N, !.m_active_blocks = A]
    BY DEF WithCluster
  <2> HIDE DEF f, n
  <2> QED BY <1>1, <2>1 DEF IsTables
<1> QED BY <1>2, <1>3, <1>4

LEMMA ReplaceCluster ==
  ASSUME NEW r, Consistent(r), NEW c \in Live(r),
         NEW k \in Cluster, ClusterAgrees(k), k.groups = r.m_clusters[c].groups,
         NEW N \in SUBSET (Pos \X ClusterId),
         NEW A, IsTable(A, Block, Nat), DOMAIN r.m_active_blocks \subseteq DOMAIN A,
         \A p \in Members(k) : <<p, c>> \in N /\ BlockOf[p] \in DOMAIN A,
         \A p \in Pos, d \in Live(r) \ {c} : <<p, d>> \in r.m_node_clusters => <<p, d>> \in N,
         \A p \in Pos, d \in ClusterId : <<p, d>> \in N => d <= r.m_cluster_id
  PROVE  /\ Consistent(WithCluster(r, c, k, N, A))
         /\ Live(WithCluster(r, c, k, N, A)) = Live(r)
<1> DEFINE f == [r.m_clusters EXCEPT ![c] = k]
           n == WithCluster(r, c, k, N, A)
<1>2. IsRegistry(r)
  BY DEF Consistent
<1>1. /\ n.m_cluster_id = r.m_cluster_id /\ n.m_clusters = f /\ n.m_node_clusters = N
      /\ n.m_group_clusters = r.m_group_clusters /\ n.m_active_blocks = A
      /\ IsTables(n)
  BY <1>2, WithClusterTables
<1>3. /\ IsTable(f, ClusterId, Cluster) /\ DOMAIN f = Live(r) /\ f[c] = k
      /\ \A d \in Live(r) \ {c} : f[d] = r.m_clusters[d]
  BY <1>2 DEF IsRegistry, IsTable, Live
<1> HIDE DEF n, f
<1>4. IsRegistry(n) /\ Live(n) = Live(r)
  BY <1>1, <1>2, <1>3 DEF IsRegistry, IsTables, Live
<1>5. ASSUME NEW d \in Live(n)
      PROVE  /\ ClusterAgrees(n.m_clusters[d])
             /\ d <= n.m_cluster_id
             /\ \A p \in Members(n.m_clusters[d]) : <<p, d>> \in n.m_node_clusters
             /\ \A p \in Members(n.m_clusters[d]) : BlockOf[p] \in DOMAIN n.m_active_blocks
  <2>1. d <= n.m_cluster_id
    BY <1>1, <1>4 DEF Consistent
  <2>2. CASE d = c
    BY <2>1, <2>2, <1>1, <1>3
  <2>3. CASE d # c
    <3>1. n.m_clusters[d] = r.m_clusters[d] /\ d \in Live(r)
      BY <2>3, <1>1, <1>3, <1>4
    <3>2. ClusterAgrees(r.m_clusters[d]) /\ Members(r.m_clusters[d]) \subseteq Pos
      BY <3>1, <1>2, RegistryClusters DEF Consistent
    <3>3. ASSUME NEW p \in Members(r.m_clusters[d])
          PROVE  <<p, d>> \in N /\ BlockOf[p] \in DOMAIN A
      BY <2>3, <3>1, <3>2 DEF Consistent
    <3> QED BY <2>1, <3>1, <3>2, <3>3, <1>1
  <2> QED BY <2>2, <2>3
<1>6. ASSUME NEW g \in ClusterGroup, NEW d \in ClusterId
      PROVE  <<g, d>> \in n.m_group_clusters <=> d \in Live(n) /\ g \in n.m_clusters[d].groups
  <2>1. <<g, d>> \in r.m_group_clusters <=> d \in Live(r) /\ g \in r.m_clusters[d].groups
    BY DEF Consistent
  <2>2. CASE d = c
    BY <2>1, <2>2, <1>1, <1>3, <1>4
  <2>3. CASE d # c
    BY <2>1, <2>3, <1>1, <1>3, <1>4
  <2> QED BY <2>2, <2>3
<1>7. \A p \in Pos, d \in ClusterId : <<p, d>> \in n.m_node_clusters => d <= n.m_cluster_id
  BY <1>1
<1>8. Consistent(n)
  BY <1>4, <1>5, <1>6, <1>7 DEF Consistent
<1> QED BY <1>4, <1>8 DEF n

LEMMA AddNodeToClusterConsistent ==
  ASSUME NEW r, Consistent(r), NEW c \in Live(r), NEW p \in Pos, NEW kind \in Kind
  PROVE  Consistent(AddNodeToCluster(r, c, p, kind)) /\ Live(AddNodeToCluster(r, c, p, kind)) = Live(r)
<1> DEFINE k == r.m_clusters[c]
           marked == IF IsDuplicate(k, p, kind) THEN r ELSE MarkBlocks(r, {p})
           A == marked.m_active_blocks
           N == r.m_node_clusters \cup {<<p, c>>}
<1>1. IsRegistry(r) /\ k \in Cluster /\ ClusterAgrees(k) /\ c \in ClusterId
  BY RegistryClusters DEF Consistent
<1>2. /\ IsTable(A, Block, Nat) /\ DOMAIN r.m_active_blocks \subseteq DOMAIN A
      /\ BlockOf[p] \in DOMAIN A /\ marked = [r EXCEPT !.m_active_blocks = A]
  <2>1. CASE IsDuplicate(k, p, kind)
    <3>1. BlockOf[p] \in DOMAIN r.m_active_blocks
      BY <2>1 DEF IsDuplicate, Consistent
    <3> QED BY <2>1, <3>1, <1>1 DEF IsRegistry
  <2>2. CASE ~IsDuplicate(k, p, kind)
    <3>1. marked = MarkBlocks(r, {p}) /\ {p} \in SUBSET Pos
      BY <2>2
    <3> HIDE DEF marked
    <3> QED BY <3>1, <1>1, MarkBlocksTable
  <2> QED BY <2>1, <2>2
<1>3. /\ AddNode(k, p, kind) \in Cluster /\ ClusterAgrees(AddNode(k, p, kind))
      /\ AddNode(k, p, kind).groups = k.groups
      /\ Members(AddNode(k, p, kind)) = Members(k) \cup {p}
  BY <1>1, AddNodeAgrees
<1>4. AddNodeToCluster(r, c, p, kind) =
        [marked EXCEPT !.m_clusters[c] = AddNode(k, p, kind),
                       !.m_node_clusters = @ \cup {<<p, c>>}]
  BY DEF AddNodeToCluster
<1> HIDE DEF A, marked
<1>5. AddNodeToCluster(r, c, p, kind) = WithCluster(r, c, AddNode(k, p, kind), N, A)
  BY <1>1, <1>2, <1>4 DEF IsRegistry, WithCluster
<1>6. N \in SUBSET (Pos \X ClusterId)
  BY <1>1 DEF IsRegistry
<1>7. \A q \in Members(AddNode(k, p, kind)) : <<q, c>> \in N /\ BlockOf[q] \in DOMAIN A
  BY <1>2, <1>3 DEF Consistent
<1>8. \A q \in Pos, d \in ClusterId : <<q, d>> \in N => d <= r.m_cluster_id
  BY DEF Consistent
<1>9. \A q \in Pos, d \in Live(r) \ {c} : <<q, d>> \in r.m_node_clusters => <<q, d>> \in N
  OBVIOUS
<1> HIDE DEF N
<1> QED BY <1>2, <1>3, <1>5, <1>6, <1>7, <1>8, <1>9, ReplaceCluster

LEMMA UpdateNodeInClusterConsistent ==
  ASSUME NEW r, Consistent(r), NEW c \in Live(r), NEW p \in Pos, NEW kind \in Kind
  PROVE  Consistent(UpdateNodeInCluster(r, c, p, kind)) /\ Live(UpdateNodeInCluster(r, c, p, kind)) = Live(r)
<1> DEFINE k == r.m_clusters[c]
           marked == IF p \in Members(k) THEN MarkBlocks(r, {p}) ELSE r
           A == marked.m_active_blocks
           N == r.m_node_clusters
           u == UpdateNode(k, p, kind)
<1>1. IsRegistry(r) /\ k \in Cluster /\ ClusterAgrees(k)
  BY RegistryClusters DEF Consistent
<1>2. /\ IsTable(A, Block, Nat) /\ DOMAIN r.m_active_blocks \subseteq DOMAIN A
      /\ marked = [r EXCEPT !.m_active_blocks = A]
  <2>1. CASE p \in Members(k)
    <3>1. marked = MarkBlocks(r, {p}) /\ {p} \in SUBSET Pos
      BY <2>1
    <3> QED BY <3>1, <1>1, MarkBlocksTable
  <2>2. CASE p \notin Members(k)
    BY <2>2, <1>1 DEF IsRegistry
  <2> QED BY <2>1, <2>2
<1>3. u \in Cluster /\ ClusterAgrees(u) /\ u.groups = k.groups /\ Members(u) = Members(k)
  BY <1>1, UpdateNodeAgrees
<1>4. UpdateNodeInCluster(r, c, p, kind) = [marked EXCEPT !.m_clusters[c] = u]
  BY DEF UpdateNodeInCluster
<1> HIDE DEF A, marked, u
<1>5. UpdateNodeInCluster(r, c, p, kind) = WithCluster(r, c, u, N, A)
  BY <1>1, <1>2, <1>4 DEF IsRegistry, WithCluster
<1>6. N \in SUBSET (Pos \X ClusterId)
  BY <1>1 DEF IsRegistry
<1>7. \A q \in Members(u) : <<q, c>> \in N /\ BlockOf[q] \in DOMAIN A
  BY <1>2, <1>3 DEF Consistent
<1>8. \A q \in Pos, d \in ClusterId : <<q, d>> \in N => d <= r.m_cluster_id
  BY DEF Consistent
<1> QED BY <1>2, <1>3, <1>5, <1>6, <1>7, <1>8, ReplaceCluster

LEMMA RemoveNodeFromClusterConsistent ==
  ASSUME NEW r, Consistent(r), NEW c \in Live(r), NEW p \in Pos
  PROVE  Consistent(RemoveNodeFromCluster(r, c, p)) /\ Live(RemoveNodeFromCluster(r, c, p)) = Live(r)
<1> DEFINE k == r.m_clusters[c]
           A == r.m_active_blocks
           N == r.m_node_clusters \ {<<p, c>>}
           u == RemoveNodes(k, {p})
<1>1. IsRegistry(r) /\ k \in Cluster /\ ClusterAgrees(k)
  BY RegistryClusters DEF Consistent
<1>2. IsTable(A, Block, Nat) /\ DOMAIN r.m_active_blocks \subseteq DOMAIN A
  BY <1>1 DEF IsRegistry
<1>3. u \in Cluster /\ ClusterAgrees(u) /\ u.groups = k.groups /\ Members(u) = Members(k) \ {p}
  BY <1>1, RemoveNodesType, RemoveNodesAgrees, RemoveNodesClusterGroups, RemoveNodesMembers
<1> HIDE DEF u
<1>4. RemoveNodeFromCluster(r, c, p) = WithCluster(r, c, u, N, A)
  BY <1>1 DEF RemoveNodeFromCluster, IsRegistry, u, WithCluster
<1>5. N \in SUBSET (Pos \X ClusterId)
  BY <1>1 DEF IsRegistry
<1>6. \A q \in Members(u) : <<q, c>> \in N /\ BlockOf[q] \in DOMAIN A
  BY <1>3 DEF Consistent
<1>7. \A q \in Pos, d \in ClusterId : <<q, d>> \in N => d <= r.m_cluster_id
  BY DEF Consistent
<1>8. \A q \in Pos, d \in Live(r) \ {c} : <<q, d>> \in r.m_node_clusters => <<q, d>> \in N
  OBVIOUS
<1> HIDE DEF N
<1> QED BY <1>2, <1>3, <1>4, <1>5, <1>6, <1>7, <1>8, ReplaceCluster

\* The counter goes up; no id that is in use grows.
LEMMA TakeIdConsistent ==
  ASSUME NEW r, Consistent(r)
  PROVE  /\ Consistent(TakeId(r))
         /\ Live(TakeId(r)) = Live(r)
         /\ TakeId(r).m_clusters = r.m_clusters
         /\ TakeId(r).m_active_blocks = r.m_active_blocks
         /\ NextId(r) = TakeId(r).m_cluster_id
         /\ NextId(r) \in ClusterId \ Live(r)
<1> DEFINE n == TakeId(r)
<1>1. IsRegistry(r) /\ IsTables(r)
  BY DEF Consistent, IsRegistry, IsTables
<1>2. /\ n.m_cluster_id = r.m_cluster_id + 1 /\ n.m_clusters = r.m_clusters
      /\ n.m_group_clusters = r.m_group_clusters /\ n.m_node_clusters = r.m_node_clusters
      /\ n.m_active_blocks = r.m_active_blocks
  BY <1>1 DEF TakeId, IsTables
<1>3. IsTables(n)
  <2> DEFINE i == r.m_cluster_id + 1
  <2>1. n = [r EXCEPT !.m_cluster_id = i]
    BY DEF TakeId
  <2> HIDE DEF i, n
  <2> QED BY <1>1, <2>1 DEF IsTables
<1>4. r.m_cluster_id \in Nat /\ NextId(r) = r.m_cluster_id + 1
  BY <1>1 DEF IsRegistry, NextId
<1> HIDE DEF n
<1>5. IsRegistry(n) /\ Live(n) = Live(r)
  BY <1>1, <1>2, <1>3, <1>4 DEF IsRegistry, IsTables, Live
<1>6. \A c \in Live(r) : c \in Nat /\ c <= n.m_cluster_id /\ c # n.m_cluster_id
  BY <1>1, <1>2, <1>4, RegistryClusters DEF Consistent, ClusterId
<1>7. \A p \in Pos, c \in ClusterId : <<p, c>> \in n.m_node_clusters => c <= n.m_cluster_id
  BY <1>2, <1>4 DEF Consistent, ClusterId
<1>8. Consistent(n)
  BY <1>2, <1>5, <1>6, <1>7 DEF Consistent
<1> QED BY <1>2, <1>4, <1>5, <1>6, <1>8 DEF n, ClusterId

\* A cluster whose id was given out and is not in use enters the tables.
LEMMA PutClusterConsistent ==
  ASSUME NEW r, Consistent(r), NEW c \in ClusterId \ Live(r), c <= r.m_cluster_id,
         NEW k \in Cluster, ClusterAgrees(k),
         \A p \in Members(k) : BlockOf[p] \in DOMAIN r.m_active_blocks
  PROVE  Consistent(PutCluster(r, c, k)) /\ Live(PutCluster(r, c, k)) = Live(r) \cup {c}
<1> DEFINE f == [d \in Live(r) \cup {c} |-> IF d = c THEN k ELSE r.m_clusters[d]]
           G == r.m_group_clusters \cup (k.groups \X {c})
           N == r.m_node_clusters \cup (Members(k) \X {c})
           n == PutCluster(r, c, k)
<1>1. IsRegistry(r) /\ IsTables(r)
  BY DEF Consistent, IsRegistry, IsTables
<1>2. n = [r EXCEPT !.m_clusters = f, !.m_group_clusters = G, !.m_node_clusters = N]
  BY DEF PutCluster, Live
<1>3. /\ IsTable(f, ClusterId, Cluster) /\ DOMAIN f = Live(r) \cup {c} /\ f[c] = k
      /\ \A d \in Live(r) : f[d] = r.m_clusters[d]
  BY <1>1 DEF IsRegistry, IsTable, Live
<1>4. /\ G \in SUBSET (ClusterGroup \X ClusterId)
      /\ \A g \in ClusterGroup, d \in ClusterId :
           <<g, d>> \in G <=> <<g, d>> \in r.m_group_clusters \/ (d = c /\ g \in k.groups)
  BY <1>1 DEF IsRegistry, Cluster
<1>5. /\ N \in SUBSET (Pos \X ClusterId)
      /\ \A p \in Pos, d \in ClusterId :
           <<p, d>> \in N <=> <<p, d>> \in r.m_node_clusters \/ (d = c /\ p \in Members(k))
  BY <1>1, MembersType DEF IsRegistry
<1> HIDE DEF f, G, N, n
<1>6. /\ n.m_cluster_id = r.m_cluster_id /\ n.m_clusters = f /\ n.m_group_clusters = G
      /\ n.m_node_clusters = N /\ n.m_active_blocks = r.m_active_blocks
  BY <1>1, <1>2 DEF IsTables
<1>7. IsTables(n)
  BY <1>1, <1>2 DEF IsTables
<1>8. IsRegistry(n) /\ Live(n) = Live(r) \cup {c}
  BY <1>1, <1>3, <1>4, <1>5, <1>6, <1>7 DEF IsRegistry, IsTables, Live
<1>9. ASSUME NEW d \in Live(n)
      PROVE  /\ ClusterAgrees(n.m_clusters[d])
             /\ d <= n.m_cluster_id
             /\ \A p \in Members(n.m_clusters[d]) : <<p, d>> \in n.m_node_clusters
             /\ \A p \in Members(n.m_clusters[d]) : BlockOf[p] \in DOMAIN n.m_active_blocks
  <2>1. CASE d = c
    <3>1. n.m_clusters[d] = k /\ Members(k) \subseteq Pos
      BY <2>1, <1>3, <1>6, MembersType
    <3> QED BY <2>1, <3>1, <1>5, <1>6
  <2>2. CASE d # c
    <3>1. n.m_clusters[d] = r.m_clusters[d] /\ d \in Live(r)
      BY <2>2, <1>3, <1>6, <1>8
    <3>2. Members(r.m_clusters[d]) \subseteq Pos /\ d \in ClusterId
      BY <3>1, <1>1, RegistryClusters
    <3>3. \A p \in Members(r.m_clusters[d]) : <<p, d>> \in N /\ BlockOf[p] \in DOMAIN r.m_active_blocks
      BY <3>1, <3>2, <1>5 DEF Consistent
    <3>4. ClusterAgrees(r.m_clusters[d]) /\ d <= r.m_cluster_id
      BY <3>1 DEF Consistent
    <3> QED BY <3>1, <3>3, <3>4, <1>6
  <2> QED BY <2>1, <2>2
<1>10. ASSUME NEW g \in ClusterGroup, NEW d \in ClusterId
       PROVE  <<g, d>> \in n.m_group_clusters <=> d \in Live(n) /\ g \in n.m_clusters[d].groups
  <2>1. <<g, d>> \in r.m_group_clusters <=> d \in Live(r) /\ g \in r.m_clusters[d].groups
    BY DEF Consistent
  <2>2. <<g, d>> \in G <=> <<g, d>> \in r.m_group_clusters \/ (d = c /\ g \in k.groups)
    BY <1>4
  <2>3. CASE d = c
    BY <2>1, <2>2, <2>3, <1>3, <1>6, <1>8
  <2>4. CASE d # c
    BY <2>1, <2>2, <2>4, <1>3, <1>6, <1>8
  <2> QED BY <2>3, <2>4
<1>11. \A p \in Pos, d \in ClusterId : <<p, d>> \in n.m_node_clusters => d <= n.m_cluster_id
  BY <1>5, <1>6 DEF Consistent
<1>12. Consistent(n)
  BY <1>8, <1>9, <1>10, <1>11 DEF Consistent
<1> QED BY <1>8, <1>12 DEF n

LEMMA CreateClusterConsistent ==
  ASSUME NEW r, Consistent(r), NEW groups \in SUBSET ClusterGroup
  PROVE  /\ Consistent(CreateCluster(r, groups))
         /\ Live(CreateCluster(r, groups)) = Live(r) \cup {NextId(r)}
<1> DEFINE t == TakeId(r)
           k == NewCluster(groups)
<1>1. /\ Consistent(t) /\ Live(t) = Live(r) /\ NextId(r) \in ClusterId \ Live(t) /\ NextId(r) = t.m_cluster_id
  BY TakeIdConsistent
<1>2. k \in Cluster /\ ClusterAgrees(k) /\ Members(k) = {}
  BY NewClusterType, NewClusterAgrees
<1>3. NextId(r) <= t.m_cluster_id
  BY <1>1 DEF ClusterId
<1> HIDE DEF t, k
<1>4. /\ Consistent(PutCluster(t, NextId(r), k))
      /\ Live(PutCluster(t, NextId(r), k)) = Live(t) \cup {NextId(r)}
  BY <1>1, <1>2, <1>3, PutClusterConsistent
<1> QED BY <1>1, <1>4 DEF CreateCluster, t, k

\* Clusters that go take their entries along; the others keep theirs.
LEMMA RemoveClustersConsistent ==
  ASSUME NEW r, Consistent(r), NEW C
  PROVE  /\ Consistent(RemoveClusters(r, C))
         /\ Live(RemoveClusters(r, C)) = Live(r) \ C
         /\ RemoveClusters(r, C).m_active_blocks = r.m_active_blocks
         /\ RemoveClusters(r, C).m_cluster_id = r.m_cluster_id
<1> DEFINE gone == C \cap Live(r)
           f == Restrict(r.m_clusters, Live(r) \ gone)
           G == {gc \in r.m_group_clusters :
                   ~ (gc[2] \in gone /\ gc[1] \in r.m_clusters[gc[2]].groups)}
           N == {pc \in r.m_node_clusters :
                   ~ (pc[2] \in gone /\ pc[1] \in Members(r.m_clusters[pc[2]]))}
           n == RemoveClusters(r, C)
<1>1. IsRegistry(r) /\ IsTables(r)
  BY DEF Consistent, IsRegistry, IsTables
<1>2. n = [r EXCEPT !.m_clusters = f, !.m_group_clusters = G, !.m_node_clusters = N]
  BY DEF RemoveClusters, Live
<1>3. /\ IsTable(f, ClusterId, Cluster) /\ DOMAIN f = Live(r) \ gone
      /\ \A d \in Live(r) \ gone : f[d] = r.m_clusters[d]
  BY <1>1 DEF IsRegistry, IsTable, Live, Restrict
<1>4. /\ G \subseteq r.m_group_clusters
      /\ \A g \in ClusterGroup, d \in ClusterId : <<g, d>> \in G <=>
           <<g, d>> \in r.m_group_clusters /\ ~(d \in gone /\ g \in r.m_clusters[d].groups)
  OBVIOUS
<1>5. /\ N \subseteq r.m_node_clusters
      /\ \A p \in Pos, d \in ClusterId :
           <<p, d>> \in r.m_node_clusters /\ d \notin gone => <<p, d>> \in N
  OBVIOUS
<1> HIDE DEF f, G, N, n
<1>6. /\ n.m_cluster_id = r.m_cluster_id /\ n.m_clusters = f /\ n.m_group_clusters = G
      /\ n.m_node_clusters = N /\ n.m_active_blocks = r.m_active_blocks
  BY <1>1, <1>2 DEF IsTables
<1>7. IsTables(n)
  BY <1>1, <1>2 DEF IsTables
<1>8. IsRegistry(n) /\ Live(n) = Live(r) \ gone
  BY <1>1, <1>3, <1>4, <1>5, <1>6, <1>7 DEF IsRegistry, IsTables, Live
<1>9. ASSUME NEW d \in Live(n)
      PROVE  /\ ClusterAgrees(n.m_clusters[d])
             /\ d <= n.m_cluster_id
             /\ \A p \in Members(n.m_clusters[d]) : <<p, d>> \in n.m_node_clusters
             /\ \A p \in Members(n.m_clusters[d]) : BlockOf[p] \in DOMAIN n.m_active_blocks
  <2>1. n.m_clusters[d] = r.m_clusters[d] /\ d \in Live(r) /\ d \notin gone
    BY <1>3, <1>6, <1>8
  <2>2. Members(r.m_clusters[d]) \subseteq Pos /\ d \in ClusterId
    BY <2>1, <1>1, RegistryClusters
  <2>3. \A p \in Members(r.m_clusters[d]) : <<p, d>> \in N /\ BlockOf[p] \in DOMAIN r.m_active_blocks
    BY <2>1, <2>2, <1>5 DEF Consistent
  <2>4. ClusterAgrees(r.m_clusters[d]) /\ d <= r.m_cluster_id
    BY <2>1 DEF Consistent
  <2> QED BY <2>1, <2>3, <2>4, <1>6
<1>10. ASSUME NEW g \in ClusterGroup, NEW d \in ClusterId
       PROVE  <<g, d>> \in n.m_group_clusters <=> d \in Live(n) /\ g \in n.m_clusters[d].groups
  <2>1. <<g, d>> \in r.m_group_clusters <=> d \in Live(r) /\ g \in r.m_clusters[d].groups
    BY DEF Consistent
  <2>2. <<g, d>> \in G <=>
          <<g, d>> \in r.m_group_clusters /\ ~(d \in gone /\ g \in r.m_clusters[d].groups)
    BY <1>4
  <2>3. d \in Live(n) <=> d \in Live(r) /\ d \notin gone
    BY <1>8
  <2>4. d \in Live(n) => n.m_clusters[d] = r.m_clusters[d]
    BY <1>3, <1>6, <1>8
  <2> HIDE DEF gone
  <2> QED BY <2>1, <2>2, <2>3, <2>4, <1>6
<1>11. \A p \in Pos, d \in ClusterId : <<p, d>> \in n.m_node_clusters => d <= n.m_cluster_id
  BY <1>5, <1>6 DEF Consistent
<1>12. Consistent(n)
  BY <1>8, <1>9, <1>10, <1>11 DEF Consistent
<1>13. Live(r) \ gone = Live(r) \ C
  OBVIOUS
<1> QED BY <1>6, <1>8, <1>12, <1>13 DEF n

\* The live clusters are as many as a prefix of the numbers at most.
LEMMA LiveFinite ==
  ASSUME NEW r, Consistent(r)
  PROVE  IsFiniteSet(Live(r))
<1>1. r.m_cluster_id \in Nat
  BY DEF Consistent, IsRegistry
<1>2. Live(r) \subseteq 1..r.m_cluster_id
  BY <1>1, RegistryClusters DEF Consistent, ClusterId
<1>3. IsFiniteSet(1..r.m_cluster_id)
  BY <1>1, FS_Interval
<1> QED BY <1>2, <1>3, FS_Subset

\* An order of some clusters lists clusters, and at least one.
LEMMA OrdersOfClusters ==
  ASSUME NEW r, Consistent(r), NEW S \in (SUBSET Live(r)) \ {{}}, NEW s \in Orders(S)
  PROVE  \E m \in Nat \ {0} : s \in [1..m -> Live(r)]
<1>1. S \subseteq Live(r) /\ S # {} /\ IsFiniteSet(S)
  BY LiveFinite, FS_Subset
<1>2. Cardinality(S) \in Nat /\ Cardinality(S) # 0
  BY <1>1, FS_CardinalityType, FS_EmptySet
<1>3. s \in [1..Cardinality(S) -> S]
  BY DEF Orders
<1>4. s \in [1..Cardinality(S) -> Live(r)]
  BY <1>3
<1> QED BY <1>2, <1>4

LEMMA MergeClustersConsistent ==
  ASSUME NEW r, Consistent(r), NEW m \in Nat \ {0}, NEW s \in [1..m -> Live(r)]
  PROVE  /\ Consistent(MergeClusters(r, s))
         /\ Live(MergeClusters(r, s)) = (Live(r) \ {s[i] : i \in DOMAIN s}) \cup {NextId(r)}
<1> DEFINE t == TakeId(r)
           C == {s[i] : i \in DOMAIN s}
           u == RemoveClusters(t, C)
           ks == [i \in 1..m |-> r.m_clusters[s[i]]]
           k == MergeAll(ks)
<1>1. IsRegistry(r)
  BY DEF Consistent
<1>2. /\ ks \in [1..m -> Cluster]
      /\ \A i \in 1..m : ks[i] = r.m_clusters[s[i]] /\ s[i] \in Live(r) /\ ClusterAgrees(ks[i])
  BY <1>1, RegistryClusters DEF Consistent
<1>3. MergeClusters(r, s) = PutCluster(u, NextId(r), k)
  <2>1. DOMAIN s = 1..m
    OBVIOUS
  <2> QED BY <2>1 DEF MergeClusters
<1> HIDE DEF ks
<1>4. k \in Cluster /\ ClusterAgrees(k)
  BY <1>2, MergeAllType, MergeAllAgrees
<1>5. \A p \in Members(k) : BlockOf[p] \in DOMAIN r.m_active_blocks
  <2>1. Members(k) = UNION {Members(ks[i]) : i \in 1..m}
    BY <1>2, MergeAllNodes
  <2> QED BY <2>1, <1>2 DEF Consistent
<1> HIDE DEF k, C
<1>6. /\ Consistent(t) /\ Live(t) = Live(r) /\ t.m_active_blocks = r.m_active_blocks
      /\ NextId(r) = t.m_cluster_id /\ NextId(r) \in ClusterId \ Live(r)
  BY TakeIdConsistent
<1> HIDE DEF t
<1>7. /\ Consistent(u) /\ Live(u) = Live(t) \ C /\ u.m_active_blocks = t.m_active_blocks
      /\ u.m_cluster_id = t.m_cluster_id
  BY <1>6, RemoveClustersConsistent
<1> HIDE DEF u
<1>8. NextId(r) \in ClusterId \ Live(u) /\ NextId(r) <= u.m_cluster_id
  BY <1>6, <1>7 DEF ClusterId
<1>9. /\ Consistent(MergeClusters(r, s))
      /\ Live(MergeClusters(r, s)) = (Live(r) \ C) \cup {NextId(r)}
  BY <1>3, <1>4, <1>5, <1>6, <1>7, <1>8, PutClusterConsistent
<1> QED BY <1>9 DEF C

\* A cluster leaves its old groups in the index and enters its new ones.
LEMMA UpdateClusterGroupsConsistent ==
  ASSUME NEW r, Consistent(r), NEW c \in Live(r), NEW groups \in SUBSET ClusterGroup
  PROVE  Consistent(UpdateClusterGroups(r, c, groups)) /\ Live(UpdateClusterGroups(r, c, groups)) = Live(r)
<1> DEFINE old == r.m_clusters[c]
           k == [old EXCEPT !.groups = groups]
           f == [r.m_clusters EXCEPT ![c] = k]
           G == (r.m_group_clusters \ (old.groups \X {c})) \cup (groups \X {c})
           n == UpdateClusterGroups(r, c, groups)
<1>1. IsRegistry(r) /\ IsTables(r) /\ old \in Cluster /\ c \in ClusterId
  BY RegistryClusters DEF Consistent, IsRegistry, IsTables
<1>2. /\ k \in Cluster /\ k.groups = groups /\ Members(k) = Members(old)
      /\ k.block_nodes = old.block_nodes /\ k.group_nodes = old.group_nodes /\ k.nodes = old.nodes
  BY <1>1 DEF Cluster, Members
<1>3. ClusterAgrees(k)
  <2>1. ClusterAgrees(old)
    BY DEF Consistent
  <2> QED BY <2>1, <1>2 DEF ClusterAgrees
<1>4. n = [r EXCEPT !.m_clusters = f, !.m_group_clusters = G]
  BY DEF UpdateClusterGroups
<1> HIDE DEF k
<1>5. /\ IsTable(f, ClusterId, Cluster) /\ DOMAIN f = Live(r) /\ f[c] = k
      /\ \A d \in Live(r) \ {c} : f[d] = r.m_clusters[d]
  BY <1>1, <1>2 DEF IsRegistry, IsTable, Live
<1>6. /\ G \in SUBSET (ClusterGroup \X ClusterId)
      /\ \A g \in ClusterGroup, d \in ClusterId : <<g, d>> \in G <=>
           \/ <<g, d>> \in r.m_group_clusters /\ ~(d = c /\ g \in old.groups)
           \/ d = c /\ g \in groups
  BY <1>1 DEF IsRegistry
<1> HIDE DEF f, G, n
<1>7. /\ n.m_cluster_id = r.m_cluster_id /\ n.m_clusters = f /\ n.m_group_clusters = G
      /\ n.m_node_clusters = r.m_node_clusters /\ n.m_active_blocks = r.m_active_blocks
  BY <1>1, <1>4 DEF IsTables
<1>8. IsTables(n)
  BY <1>1, <1>4 DEF IsTables
<1>9. IsRegistry(n) /\ Live(n) = Live(r)
  BY <1>1, <1>5, <1>6, <1>7, <1>8 DEF IsRegistry, IsTables, Live
<1>10. ASSUME NEW d \in Live(n)
       PROVE  /\ ClusterAgrees(n.m_clusters[d])
              /\ Members(n.m_clusters[d]) = Members(r.m_clusters[d])
  <2>1. CASE d = c
    BY <2>1, <1>2, <1>3, <1>5, <1>7
  <2>2. CASE d # c
    <3>1. n.m_clusters[d] = r.m_clusters[d] /\ d \in Live(r)
      BY <2>2, <1>5, <1>7, <1>9
    <3> QED BY <3>1 DEF Consistent
  <2> QED BY <2>1, <2>2
<1>11. ASSUME NEW d \in Live(n)
       PROVE  /\ d <= n.m_cluster_id
              /\ \A p \in Members(n.m_clusters[d]) : <<p, d>> \in n.m_node_clusters
              /\ \A p \in Members(n.m_clusters[d]) : BlockOf[p] \in DOMAIN n.m_active_blocks
  BY <1>7, <1>9, <1>10 DEF Consistent
<1>12. ASSUME NEW g \in ClusterGroup, NEW d \in ClusterId
       PROVE  <<g, d>> \in n.m_group_clusters <=> d \in Live(n) /\ g \in n.m_clusters[d].groups
  <2>1. <<g, d>> \in r.m_group_clusters <=> d \in Live(r) /\ g \in r.m_clusters[d].groups
    BY DEF Consistent
  <2>2. <<g, d>> \in G <=>
           \/ <<g, d>> \in r.m_group_clusters /\ ~(d = c /\ g \in old.groups)
           \/ d = c /\ g \in groups
    BY <1>6
  <2>3. CASE d = c
    BY <2>1, <2>2, <2>3, <1>2, <1>5, <1>7, <1>9
  <2>4. CASE d # c
    BY <2>1, <2>2, <2>4, <1>5, <1>7, <1>9
  <2> QED BY <2>3, <2>4
<1>13. \A p \in Pos, d \in ClusterId : <<p, d>> \in n.m_node_clusters => d <= n.m_cluster_id
  BY <1>7 DEF Consistent
<1>14. Consistent(n)
  BY <1>9, <1>10, <1>11, <1>12, <1>13 DEF Consistent
<1> QED BY <1>9, <1>14 DEF n

\* The marks that run out are dropped with the nodes they were for.
LEMMA UpdateActiveBlocksConsistent ==
  ASSUME NEW r, Consistent(r), NEW inMemory, NEW limit \in Nat
  PROVE  Consistent(UpdateActiveBlocks(r, inMemory, limit)) /\ Live(UpdateActiveBlocks(r, inMemory, limit)) = Live(r)
<1> DEFINE M == r.m_active_blocks
           B == ExpiredBlocks(r, inMemory, limit)
           A == [b \in DOMAIN M \ B |-> IF b \in StaleBlocks(r, limit) THEN 0 ELSE M[b] + 1]
           f == [c \in Live(r) |-> OnBlocksExpired(r.m_clusters[c], B)]
           n == UpdateActiveBlocks(r, inMemory, limit)
<1>1. IsRegistry(r) /\ IsTables(r)
  BY DEF Consistent, IsRegistry, IsTables
<1>2. n = [r EXCEPT !.m_active_blocks = A, !.m_clusters = f]
  BY DEF UpdateActiveBlocks, Live
<1>3. IsTable(M, Block, Nat)
  BY <1>1 DEF IsRegistry
<1>4. B \in SUBSET Block
  BY <1>3 DEF ExpiredBlocks, StaleBlocks, IsTable
<1> HIDE DEF B
<1>5. IsTable(A, Block, Nat) /\ DOMAIN A = DOMAIN M \ B
  BY <1>3 DEF IsTable
<1>6. ASSUME NEW c \in Live(r)
      PROVE  /\ f[c] \in Cluster /\ ClusterAgrees(f[c]) /\ f[c].groups = r.m_clusters[c].groups
             /\ Members(f[c]) = {p \in Members(r.m_clusters[c]) : BlockOf[p] \notin B}
  <2>1. r.m_clusters[c] \in Cluster /\ ClusterAgrees(r.m_clusters[c])
    BY <1>1, RegistryClusters DEF Consistent
  <2>2. f[c] = OnBlocksExpired(r.m_clusters[c], B)
    OBVIOUS
  <2> QED BY <2>1, <2>2, <1>4, BlocksExpiredAgrees
<1>7. DOMAIN f = Live(r) /\ f = [c \in DOMAIN f |-> f[c]]
  OBVIOUS
<1> HIDE DEF f, A, n
<1>8. IsTable(f, ClusterId, Cluster)
  BY <1>1, <1>6, <1>7, RegistryClusters DEF IsTable
<1>9. /\ n.m_cluster_id = r.m_cluster_id /\ n.m_clusters = f /\ n.m_active_blocks = A
      /\ n.m_node_clusters = r.m_node_clusters /\ n.m_group_clusters = r.m_group_clusters
  BY <1>1, <1>2 DEF IsTables
<1>10. IsTables(n)
  BY <1>1, <1>2 DEF IsTables
<1>11. IsRegistry(n) /\ Live(n) = Live(r)
  BY <1>1, <1>5, <1>7, <1>8, <1>9, <1>10 DEF IsRegistry, IsTables, Live
<1>12. ASSUME NEW c \in Live(n)
       PROVE  /\ ClusterAgrees(n.m_clusters[c])
              /\ c <= n.m_cluster_id
              /\ \A p \in Members(n.m_clusters[c]) : <<p, c>> \in n.m_node_clusters
              /\ \A p \in Members(n.m_clusters[c]) : BlockOf[p] \in DOMAIN n.m_active_blocks
  <2>1. c \in Live(r) /\ n.m_clusters[c] = f[c]
    BY <1>9, <1>11
  <2>2. c <= r.m_cluster_id /\ ClusterAgrees(f[c])
    BY <2>1, <1>6 DEF Consistent
  <2>3. ASSUME NEW p \in Members(f[c])
        PROVE  <<p, c>> \in r.m_node_clusters /\ BlockOf[p] \in DOMAIN A
    <3>1. p \in Members(r.m_clusters[c]) /\ BlockOf[p] \notin B
      BY <2>1, <1>6
    <3> QED BY <2>1, <3>1, <1>5 DEF Consistent
  <2> QED BY <2>1, <2>2, <2>3, <1>9
<1>13. ASSUME NEW g \in ClusterGroup, NEW c \in ClusterId
       PROVE  <<g, c>> \in n.m_group_clusters <=> c \in Live(n) /\ g \in n.m_clusters[c].groups
  <2>1. <<g, c>> \in r.m_group_clusters <=> c \in Live(r) /\ g \in r.m_clusters[c].groups
    BY DEF Consistent
  <2> QED BY <2>1, <1>6, <1>9, <1>11
<1>14. \A p \in Pos, c \in ClusterId : <<p, c>> \in n.m_node_clusters => c <= n.m_cluster_id
  BY <1>9 DEF Consistent
<1>15. Consistent(n)
  BY <1>11, <1>12, <1>13, <1>14 DEF Consistent
<1> QED BY <1>11, <1>15 DEF n

(***************************************************************************)
(* What the operations of the registry do to the clusters, one by one.     *)
(***************************************************************************)
LEMMA RegistryTables ==
  ASSUME NEW r, Consistent(r)
  PROVE  IsRegistry(r) /\ IsTables(r) /\ r.m_clusters = [c \in Live(r) |-> r.m_clusters[c]]
BY DEF Consistent, IsRegistry, IsTable, IsTables, Live

LEMMA OtherBlocks ==
  ASSUME NEW r, IsTables(r), NEW A, NEW n, n = [r EXCEPT !.m_active_blocks = A]
  PROVE  /\ n.m_clusters = r.m_clusters
         /\ n.m_node_clusters = r.m_node_clusters
         /\ IsTables(n)
BY DEF IsTables

LEMMA MarkedTables ==
  ASSUME NEW r, Consistent(r), NEW S \in SUBSET Pos
  PROVE  /\ MarkBlocks(r, S).m_clusters = r.m_clusters
         /\ MarkBlocks(r, S).m_node_clusters = r.m_node_clusters
         /\ IsTables(MarkBlocks(r, S))
<1>1. IsRegistry(r) /\ IsTables(r)
  BY RegistryTables
<1>2. MarkBlocks(r, S) = [r EXCEPT !.m_active_blocks = MarkBlocks(r, S).m_active_blocks]
  BY <1>1, MarkBlocksTable
<1> QED BY <1>1, <1>2, OtherBlocks

LEMMA AddNodeEffect ==
  ASSUME NEW r, Consistent(r), NEW c \in Live(r), NEW p \in Pos, NEW kind \in Kind
  PROVE  /\ AddNodeToCluster(r, c, p, kind).m_clusters =
              [r.m_clusters EXCEPT ![c] = AddNode(r.m_clusters[c], p, kind)]
         /\ IsTables(AddNodeToCluster(r, c, p, kind))
<1> DEFINE k == r.m_clusters[c]
           a == AddNode(k, p, kind)
           marked == IF IsDuplicate(k, p, kind) THEN r ELSE MarkBlocks(r, {p})
           n == AddNodeToCluster(r, c, p, kind)
<1>1. marked.m_clusters = r.m_clusters /\ IsTables(marked)
  BY RegistryTables, MarkedTables
<1>2. n = [marked EXCEPT !.m_clusters[c] = a, !.m_node_clusters = @ \cup {<<p, c>>}]
  BY DEF AddNodeToCluster
<1> HIDE DEF marked, a, n
<1>3. n.m_clusters = [r.m_clusters EXCEPT ![c] = a] /\ IsTables(n)
  BY <1>1, <1>2 DEF IsTables
<1> QED BY <1>3 DEF n, a

LEMMA UpdateNodeEffect ==
  ASSUME NEW r, Consistent(r), NEW c \in Live(r), NEW p \in Pos, NEW kind \in Kind
  PROVE  UpdateNodeInCluster(r, c, p, kind).m_clusters =
              [r.m_clusters EXCEPT ![c] = UpdateNode(r.m_clusters[c], p, kind)]
<1> DEFINE k == r.m_clusters[c]
           u == UpdateNode(k, p, kind)
           marked == IF p \in Members(k) THEN MarkBlocks(r, {p}) ELSE r
           n == UpdateNodeInCluster(r, c, p, kind)
<1>1. marked.m_clusters = r.m_clusters /\ IsTables(marked)
  BY RegistryTables, MarkedTables
<1>2. n = [marked EXCEPT !.m_clusters[c] = u]
  BY DEF UpdateNodeInCluster
<1> HIDE DEF marked, u, n
<1>3. n.m_clusters = [r.m_clusters EXCEPT ![c] = u]
  BY <1>1, <1>2 DEF IsTables
<1> QED BY <1>3 DEF n, u

LEMMA RemoveNodeEffect ==
  ASSUME NEW r, Consistent(r), NEW c \in Live(r), NEW p \in Pos
  PROVE  RemoveNodeFromCluster(r, c, p).m_clusters =
              [r.m_clusters EXCEPT ![c] = RemoveNodes(r.m_clusters[c], {p})]
BY RegistryTables DEF RemoveNodeFromCluster, IsTables

\* A node that is added twice under one name has that name already.
LEMMA AddNodeEntries ==
  ASSUME NEW k \in Cluster, NEW p \in Pos, NEW kind \in Kind
  PROVE  /\ Members(AddNode(k, p, kind)) = Members(k) \cup {p}
         /\ AddNode(k, p, kind).nodes[p] = kind
         /\ \A q \in Members(k) \ {p} : AddNode(k, p, kind).nodes[q] = k.nodes[q]
         /\ AddNode(k, p, kind).groups = k.groups
<1>1. CASE IsDuplicate(k, p, kind)
  BY <1>1 DEF AddNode, IsDuplicate
<1>2. CASE ~IsDuplicate(k, p, kind)
  <2> DEFINE f == Singleton(p, kind)
  <2>1. DOMAIN f = {p} /\ f[p] = kind
    BY SingletonTable
  <2>2. AddNode(k, p, kind) = PutNodes(k, f)
    BY <1>2 DEF AddNode
  <2> HIDE DEF f
  <2> QED BY <2>1, <2>2, PutNodesMembers, PutNodesEntries, PutNodesClusterGroups
<1> QED BY <1>1, <1>2

LEMMA UpdateNodeEntries ==
  ASSUME NEW k \in Cluster, ClusterAgrees(k), NEW p \in Members(k), NEW kind \in Kind
  PROVE  /\ Members(UpdateNode(k, p, kind)) = Members(k)
         /\ UpdateNode(k, p, kind).nodes[p] = kind
         /\ \A q \in Members(k) \ {p} : UpdateNode(k, p, kind).nodes[q] = k.nodes[q]
         /\ UpdateNode(k, p, kind).groups = k.groups
         /\ UpdateNode(k, p, kind).assigns = k.assigns
<1> DEFINE d == [k EXCEPT !.group_nodes = WithoutGroupsOf(k, {p})]
<1>1. UpdateNode(k, p, kind) = PutNodes(d, Singleton(p, kind))
  BY DEF UpdateNode
<1>2. d \in Cluster /\ d.nodes = k.nodes /\ d.groups = k.groups /\ d.assigns = k.assigns
  <2>1. WithoutGroupsOf(k, {p}) \subseteq k.group_nodes
    BY DEF WithoutGroupsOf
  <2> QED BY <2>1 DEF Cluster
<1>3. p \in Pos
  BY MembersType
<1> HIDE DEF d
<1>4. Members(d) = Members(k) /\ DOMAIN Singleton(p, kind) = {p} /\ Singleton(p, kind)[p] = kind
  BY <1>2, <1>3, SingletonTable DEF Members
<1>5. PutNodes(d, Singleton(p, kind)).assigns = k.assigns
  BY <1>2 DEF PutNodes, Cluster
<1> DEFINE f == Singleton(p, kind)
<1>6. UpdateNode(k, p, kind) = PutNodes(d, f) /\ DOMAIN f = {p} /\ f[p] = kind
      /\ PutNodes(d, f).assigns = k.assigns
  BY <1>1, <1>4, <1>5
<1> HIDE DEF f
<1>7. /\ Members(PutNodes(d, f)) = Members(k)
      /\ PutNodes(d, f).nodes[p] = kind
      /\ \A q \in Members(k) \ {p} : PutNodes(d, f).nodes[q] = k.nodes[q]
      /\ PutNodes(d, f).groups = k.groups
  <2>1. Members(PutNodes(d, f)) = Members(d) \cup {p}
    BY <1>2, <1>6, PutNodesMembers
  <2>2. PutNodes(d, f).nodes[p] = kind
    BY <1>2, <1>6, PutNodesEntries
  <2>3. \A q \in Members(d) \ {p} : PutNodes(d, f).nodes[q] = d.nodes[q]
    BY <1>2, <1>6, PutNodesEntries
  <2> QED BY <2>1, <2>2, <2>3, <1>2, <1>4, PutNodesClusterGroups
<1>8. Members(UpdateNode(k, p, kind)) = Members(k)
  BY <1>6, <1>7
<1> QED BY <1>6, <1>7, <1>8

LEMMA CreateClusterEffect ==
  ASSUME NEW r, Consistent(r), NEW groups \in SUBSET ClusterGroup
  PROVE  LET n == CreateCluster(r, groups)
         IN /\ Live(n) = Live(r) \cup {NextId(r)} /\ NextId(r) \notin Live(r)
            /\ \A d \in Live(r) : n.m_clusters[d] = r.m_clusters[d]
            /\ n.m_clusters[NextId(r)] = NewCluster(groups)
<1> DEFINE t == TakeId(r)
<1>1. Consistent(t) /\ Live(t) = Live(r) /\ t.m_clusters = r.m_clusters /\ NextId(r) \notin Live(r)
  BY TakeIdConsistent
<1> HIDE DEF t
<1>2. \A k : PutCluster(t, NextId(r), k).m_clusters =
        [d \in Live(r) \cup {NextId(r)} |-> IF d = NextId(r) THEN k ELSE r.m_clusters[d]]
  BY <1>1, RegistryTables DEF PutCluster, IsTables, Live
<1> QED BY <1>1, <1>2 DEF CreateCluster, Live, t

LEMMA RemoveClustersEffect ==
  ASSUME NEW r, Consistent(r), NEW C
  PROVE  \A d \in Live(r) \ C : RemoveClusters(r, C).m_clusters[d] = r.m_clusters[d]
<1>1. RemoveClusters(r, C).m_clusters = Restrict(r.m_clusters, Live(r) \ (C \cap Live(r)))
  BY RegistryTables DEF RemoveClusters, IsTables, Live
<1> QED BY <1>1 DEF Restrict

LEMMA MergeClustersEffect ==
  ASSUME NEW r, Consistent(r), NEW m \in Nat \ {0}, NEW s \in [1..m -> Live(r)]
  PROVE  LET n == MergeClusters(r, s)
             k == MergeAll([i \in 1..m |-> r.m_clusters[s[i]]])
         IN /\ Live(n) = (Live(r) \ {s[i] : i \in 1..m}) \cup {NextId(r)}
            /\ NextId(r) \notin Live(r)
            /\ \A d \in Live(r) \ {s[i] : i \in 1..m} : n.m_clusters[d] = r.m_clusters[d]
            /\ n.m_clusters[NextId(r)] = k
<1> DEFINE t == TakeId(r)
           C == {s[i] : i \in 1..m}
           u == RemoveClusters(t, C)
           k == MergeAll([i \in 1..m |-> r.m_clusters[s[i]]])
<1>1. MergeClusters(r, s) = PutCluster(u, NextId(r), k) /\ DOMAIN s = 1..m
  BY DEF MergeClusters
<1>2. /\ Consistent(t) /\ Live(t) = Live(r) /\ t.m_clusters = r.m_clusters
      /\ NextId(r) \notin Live(r)
  BY TakeIdConsistent
<1> HIDE DEF t, C, k
<1>3. /\ Consistent(u) /\ Live(u) = Live(r) \ C
      /\ \A d \in Live(r) \ C : u.m_clusters[d] = r.m_clusters[d]
  BY <1>2, RemoveClustersConsistent, RemoveClustersEffect
<1> HIDE DEF u
<1>4. PutCluster(u, NextId(r), k).m_clusters =
        [d \in Live(u) \cup {NextId(r)} |-> IF d = NextId(r) THEN k ELSE u.m_clusters[d]]
  BY <1>3, RegistryTables DEF PutCluster, IsTables, Live
<1>5. LET n == MergeClusters(r, s)
      IN /\ Live(n) = (Live(r) \ C) \cup {NextId(r)}
         /\ \A d \in Live(r) \ C : n.m_clusters[d] = r.m_clusters[d]
         /\ n.m_clusters[NextId(r)] = k
  BY <1>1, <1>2, <1>3, <1>4 DEF Live
<1> QED BY <1>2, <1>5 DEF C, k

\* Every cluster drops the nodes of the expired blocks, and no others.
LEMMA ExpiredNodesLeave ==
  ASSUME NEW r, Consistent(r), NEW inMemory, NEW limit
  PROVE  LET n == UpdateActiveBlocks(r, inMemory, limit)
             B == ExpiredBlocks(r, inMemory, limit)
         IN /\ Live(n) = Live(r)
            /\ \A c \in Live(r) :
                 Members(n.m_clusters[c]) = {p \in Members(r.m_clusters[c]) : BlockOf[p] \notin B}
<1> DEFINE B == ExpiredBlocks(r, inMemory, limit)
           n == UpdateActiveBlocks(r, inMemory, limit)
<1>1. IsRegistry(r) /\ IsTables(r)
  BY RegistryTables
<1>2. B \in SUBSET Block
  BY <1>1 DEF ExpiredBlocks, StaleBlocks, IsRegistry, IsTable
<1>3. n.m_clusters = [c \in Live(r) |-> OnBlocksExpired(r.m_clusters[c], B)]
  BY <1>1 DEF UpdateActiveBlocks, IsTables, Live
<1> HIDE DEF B, n
<1>4. \A c \in Live(r) : r.m_clusters[c] \in Cluster /\ ClusterAgrees(r.m_clusters[c])
  BY <1>1, RegistryClusters DEF Consistent
<1>5. \A c \in Live(r) :
        Members(n.m_clusters[c]) = {p \in Members(r.m_clusters[c]) : BlockOf[p] \notin B}
  BY <1>2, <1>3, <1>4, BlocksExpiredAgrees
<1>6. Live(n) = Live(r)
  BY <1>3 DEF Live
<1> QED BY <1>5, <1>6 DEF B, n

(***************************************************************************)
(* The client of Clusters: any order of calls, any number of nodes,        *)
(* blocks, groups and clusters.                                            *)
(***************************************************************************)

\* The inductive invariant: the tables are tables, and every index agrees,
\* entry by entry, with the clusters.
ClustersInv == Consistent(reg) /\ loaded \in SUBSET Block

LEMMA ClustersInitInv == ClustersInit => ClustersInv
BY EmptyConsistent DEF ClustersInit, ClustersInv

LEMMA ClustersNextInv ==
  ASSUME ClustersInv, ClustersNext
  PROVE  ClustersInv'
<1>1. Consistent(reg) /\ loaded \in SUBSET Block
  BY DEF ClustersInv
<1>2. ASSUME NEW groups \in SUBSET ClusterGroup, create_cluster(groups) PROVE ClustersInv'
  BY <1>1, <1>2, CreateClusterConsistent DEF create_cluster, ClustersInv
<1>3. ASSUME NEW S \in (SUBSET Live(reg)) \ {{}}, NEW s \in Orders(S), merge_clusters(s)
      PROVE  ClustersInv'
  <2>1. PICK m \in Nat \ {0} : s \in [1..m -> Live(reg)]
    BY <1>1, OrdersOfClusters
  <2>2. Consistent(MergeClusters(reg, s))
    BY <1>1, <2>1, MergeClustersConsistent
  <2> QED BY <1>1, <1>3, <2>2 DEF merge_clusters, ClustersInv
<1>4. ASSUME NEW c \in Live(reg), NEW p \in Pos, NEW kind \in Kind, add_node_to_cluster(c, p, kind)
      PROVE  ClustersInv'
  BY <1>1, <1>4, AddNodeToClusterConsistent DEF add_node_to_cluster, ClustersInv
<1>5. ASSUME NEW c \in Live(reg), NEW p \in Pos, NEW kind \in Kind, update_node_in_cluster(c, p, kind)
      PROVE  ClustersInv'
  BY <1>1, <1>5, UpdateNodeInClusterConsistent DEF update_node_in_cluster, ClustersInv
<1>6. ASSUME NEW c \in Live(reg), NEW p \in Pos, remove_node_from_cluster(c, p) PROVE ClustersInv'
  BY <1>1, <1>6, RemoveNodeFromClusterConsistent DEF remove_node_from_cluster, ClustersInv
<1>7. ASSUME NEW c \in Live(reg), NEW groups \in SUBSET ClusterGroup, update_cluster_groups(c, groups)
      PROVE  ClustersInv'
  BY <1>1, <1>7, UpdateClusterGroupsConsistent DEF update_cluster_groups, ClustersInv
<1>8. ASSUME NEW c \in Live(reg), destroy_cluster(c) PROVE ClustersInv'
  BY <1>1, <1>8, RemoveClustersConsistent DEF destroy_cluster, ClustersInv
<1>9. CASE update_active_blocks
  BY <1>1, <1>9, UpdateActiveBlocksConsistent, RegistryAssumption DEF update_active_blocks, ClustersInv
<1>10. CASE update_clusters
  BY <1>8, <1>10 DEF update_clusters
<1>11. ASSUME NEW b \in Block, ToggleBlock(b) PROVE ClustersInv'
  <2>1. loaded' \in SUBSET Block /\ reg' = reg
    BY <1>1, <1>11 DEF ToggleBlock
  <2> QED BY <1>1, <2>1 DEF ClustersInv
<1> QED
  BY <1>2, <1>3, <1>4, <1>5, <1>6, <1>7, <1>8, <1>9, <1>10, <1>11 DEF ClustersNext

\* The indexes agree with the clusters in every reachable state: no order of
\* calls, merges, expiries and unloads of clusters.lua makes them drift apart.
THEOREM AlwaysConsistent == ClustersSpec => []ClustersInv
<1>1. ClustersInv /\ [ClustersNext]_clustersVars => ClustersInv'
  <2>1. CASE ClustersNext
    BY <2>1, ClustersNextInv
  <2>2. CASE UNCHANGED clustersVars
    BY <2>2 DEF clustersVars, ClustersInv
  <2> QED BY <2>1, <2>2
<1> QED BY ClustersInitInv, <1>1, PTL DEF ClustersSpec

\* The variables keep their types: every table of Clusters is a table of the
\* kind its readers expect, whatever was called before.
THEOREM ClustersTypeCorrect == ClustersSpec => []ClustersTypeOK
<1>1. ClustersInv => ClustersTypeOK
  BY DEF ClustersInv, ClustersTypeOK, Consistent
<1> QED BY <1>1, AlwaysConsistent, PTL

\* What the inductive invariant says of the indexes, in the words of the properties.
LEMMA ClustersInvIndexes ==
  ASSUME ClustersInv
  PROVE  IndexesStayInStep /\ UnloadIsNoticed /\ IdsAreFresh(reg)
<1>1. IndexesAgree(reg)
  BY ConsistentIndexes DEF ClustersInv
<1> QED BY <1>1 DEF IndexesAgree, IndexesStayInStep, UnloadIsNoticed

\* No index of the registry ever disagrees with its clusters.
THEOREM IndexesAlwaysStayInStep == ClustersSpec => []IndexesStayInStep
<1>1. ClustersInv => IndexesStayInStep
  BY ClustersInvIndexes
<1> QED BY <1>1, AlwaysConsistent, PTL

\* The block of every registered node is under watch.
THEOREM UnloadsAreAlwaysNoticed == ClustersSpec => []UnloadIsNoticed
<1>1. ClustersInv => UnloadIsNoticed
  BY ClustersInvIndexes
<1> QED BY <1>1, AlwaysConsistent, PTL

-----------------------------------------------------------------------------

\* A step gives out one id at most, and it is the next one.
LEMMA OneNewCluster ==
  ASSUME ClustersInv, ClustersNext
  PROVE  Live(reg') \subseteq Live(reg) \cup {NextId(reg)}
<1>1. Consistent(reg)
  BY DEF ClustersInv
<1>2. ASSUME NEW groups \in SUBSET ClusterGroup, create_cluster(groups)
      PROVE  Live(reg') \subseteq Live(reg) \cup {NextId(reg)}
  <2>1. Live(CreateCluster(reg, groups)) = Live(reg) \cup {NextId(reg)}
    BY <1>1, CreateClusterConsistent
  <2> QED BY <1>2, <2>1 DEF create_cluster
<1>3. ASSUME NEW S \in (SUBSET Live(reg)) \ {{}}, NEW s \in Orders(S), merge_clusters(s)
      PROVE  Live(reg') \subseteq Live(reg) \cup {NextId(reg)}
  <2>1. PICK m \in Nat \ {0} : s \in [1..m -> Live(reg)]
    BY <1>1, OrdersOfClusters
  <2>2. Live(MergeClusters(reg, s)) = (Live(reg) \ {s[i] : i \in DOMAIN s}) \cup {NextId(reg)}
    BY <1>1, <2>1, MergeClustersConsistent
  <2> QED BY <1>3, <2>2 DEF merge_clusters
<1>4. ASSUME NEW c \in Live(reg), NEW p \in Pos,
             \/ \E kind \in Kind : add_node_to_cluster(c, p, kind)
             \/ \E kind \in Kind : update_node_in_cluster(c, p, kind)
             \/ remove_node_from_cluster(c, p)
      PROVE  Live(reg') = Live(reg)
  BY <1>1, <1>4, AddNodeToClusterConsistent, UpdateNodeInClusterConsistent,
     RemoveNodeFromClusterConsistent
     DEF add_node_to_cluster, update_node_in_cluster, remove_node_from_cluster
<1>5. ASSUME NEW c \in Live(reg), NEW groups \in SUBSET ClusterGroup, update_cluster_groups(c, groups)
      PROVE  Live(reg') = Live(reg)
  BY <1>1, <1>5, UpdateClusterGroupsConsistent DEF update_cluster_groups
<1>6. ASSUME NEW c \in Live(reg), destroy_cluster(c)
      PROVE  Live(reg') \subseteq Live(reg)
  <2>1. Live(RemoveClusters(reg, {c})) = Live(reg) \ {c}
    BY <1>1, RemoveClustersConsistent
  <2> QED BY <1>6, <2>1 DEF destroy_cluster
<1>7. CASE update_active_blocks
  BY <1>1, <1>7, UpdateActiveBlocksConsistent, RegistryAssumption DEF update_active_blocks
<1>8. CASE update_clusters
  BY <1>6, <1>8 DEF update_clusters
<1>9. ASSUME NEW b \in Block, ToggleBlock(b) PROVE Live(reg') = Live(reg)
  BY <1>9 DEF ToggleBlock
<1> QED
  BY <1>2, <1>3, <1>4, <1>5, <1>6, <1>7, <1>8, <1>9 DEF ClustersNext

\* A new cluster starts with nothing indexed under its id, and its id is larger
\* than that of any live cluster: an id is never used again.
THEOREM NoIdIsEverInherited == ClustersSpec => NoIdIsInherited
<1> DEFINE Fresh == \A c \in Live(reg') \ Live(reg) :
                      /\ \A p \in Pos : <<p, c>> \notin reg.m_node_clusters
                      /\ \A d \in Live(reg) : d < c
<1>1. ASSUME ClustersInv, ClustersNext, NEW c \in Live(reg') \ Live(reg)
      PROVE  /\ \A p \in Pos : <<p, c>> \notin reg.m_node_clusters
             /\ \A d \in Live(reg) : d < c
  <2>1. c = reg.m_cluster_id + 1
    BY <1>1, OneNewCluster DEF NextId
  <2>2. reg.m_cluster_id \in Nat
    BY <1>1 DEF ClustersInv, Consistent, IsRegistry
  <2>3. \A d \in Live(reg) : d \in Nat /\ d <= reg.m_cluster_id
    BY <1>1, RegistryClusters DEF ClustersInv, Consistent, ClusterId
  <2>4. c \in ClusterId
    BY <2>1, <2>2 DEF ClusterId
  <2>5. \A p \in Pos : <<p, c>> \in reg.m_node_clusters => c <= reg.m_cluster_id
    BY <1>1, <2>4 DEF ClustersInv, Consistent
  <2> QED BY <2>1, <2>2, <2>3, <2>5
<1>2. ClustersInv /\ [ClustersNext]_clustersVars => [Fresh]_clustersVars
  BY <1>1
<1>3. ClustersSpec => [][Fresh]_clustersVars
  <2>1. ClustersSpec => []ClustersInv /\ [][ClustersNext]_clustersVars
    BY AlwaysConsistent, PTL DEF ClustersSpec
  <2> QED BY <1>2, <2>1, PTL
<1> QED BY <1>3 DEF NoIdIsInherited

LEMMA AllMembersIn ==
  \A r : \A p : p \in AllMembers(r) <=> \E c \in Live(r) : p \in Members(r.m_clusters[c])
BY DEF AllMembers

\* update_active_blocks leaves no node in a cluster whose block is unloaded and
\* whose mark ran out.
THEOREM ExpiryIsAlwaysComplete == ClustersSpec => ExpiryIsComplete
<1> DEFINE Complete ==
      update_active_blocks =>
        \A p \in AllMembers(reg') :
          BlockOf[p] \in loaded \/ reg.m_active_blocks[BlockOf[p]] < BlockTimeout
<1>1. ASSUME ClustersInv, update_active_blocks, NEW p \in AllMembers(reg')
      PROVE  BlockOf[p] \in loaded \/ reg.m_active_blocks[BlockOf[p]] < BlockTimeout
  <2> DEFINE B == ExpiredBlocks(reg, loaded, BlockTimeout)
             b == BlockOf[p]
  <2>1. Consistent(reg) /\ IsRegistry(reg) /\ IsTables(reg)
    BY <1>1 DEF ClustersInv, Consistent, IsRegistry, IsTables
  <2>2. PICK c \in Live(reg) : p \in Members(reg.m_clusters[c]) /\ b \notin B
    <3> HIDE DEF B
    <3>1. /\ Live(reg') = Live(reg)
          /\ \A c \in Live(reg) : Members(reg'.m_clusters[c]) =
                                   {q \in Members(reg.m_clusters[c]) : BlockOf[q] \notin B}
      BY <1>1, <2>1, ExpiredNodesLeave DEF update_active_blocks, B
    <3> QED BY <1>1, <3>1, AllMembersIn
  <2>3. b \in DOMAIN reg.m_active_blocks /\ reg.m_active_blocks[b] \in Nat
    BY <2>1, <2>2 DEF Consistent, IsRegistry, IsTable
  <2> QED BY <2>2, <2>3, RegistryAssumption DEF ExpiredBlocks, StaleBlocks
<1>2. ClustersInv /\ [ClustersNext]_clustersVars => [Complete]_clustersVars
  BY <1>1
<1>3. ClustersSpec => [][Complete]_clustersVars
  <2>1. ClustersSpec => []ClustersInv /\ [][ClustersNext]_clustersVars
    BY AlwaysConsistent, PTL DEF ClustersSpec
  <2> QED BY <1>2, <2>1, PTL
<1> QED BY <1>3 DEF ExpiryIsComplete

-----------------------------------------------------------------------------

\* A step that changes one cluster loses what the cluster loses.
LEMMA OneClusterLoses ==
  ASSUME Consistent(reg), NEW c \in Live(reg), NEW k,
         reg'.m_clusters = [reg.m_clusters EXCEPT ![c] = k], NEW p \in AllMembers(reg) \ AllMembers(reg')
  PROVE  p \in Members(reg.m_clusters[c]) /\ p \notin Members(k)
<1>1. /\ Live(reg') = Live(reg)
      /\ \A d \in Live(reg) : reg'.m_clusters[d] = IF d = c THEN k ELSE reg.m_clusters[d]
  BY RegistryTables DEF Live
<1>2. PICK d \in Live(reg) : p \in Members(reg.m_clusters[d])
  BY AllMembersIn
<1>3. \A e \in Live(reg) : p \notin Members(reg'.m_clusters[e])
  BY <1>1, AllMembersIn
<1> QED BY <1>1, <1>2, <1>3

\* What a destroyed cluster had is gone with it; the other clusters keep theirs.
LEMMA DestroyedLoses ==
  ASSUME Consistent(reg), NEW c \in Live(reg), destroy_cluster(c),
         NEW p \in AllMembers(reg) \ AllMembers(reg')
  PROVE  p \in Members(reg.m_clusters[c])
<1>1. /\ Live(reg') = Live(reg) \ {c}
      /\ \A d \in Live(reg) \ {c} : reg'.m_clusters[d] = reg.m_clusters[d]
  BY RemoveClustersConsistent, RemoveClustersEffect DEF destroy_cluster
<1> QED BY <1>1, AllMembersIn

\* What merge_clusters takes in, and what it leaves alone, is all there was.
LEMMA MergeLosesNothing ==
  ASSUME Consistent(reg), NEW m \in Nat \ {0}, NEW s \in [1..m -> Live(reg)], merge_clusters(s)
  PROVE  AllMembers(reg) \subseteq AllMembers(reg')
<1> DEFINE t == [i \in 1..m |-> reg.m_clusters[s[i]]]
           k == MergeAll(t)
           M == {s[i] : i \in 1..m}
<1>1. t \in [1..m -> Cluster]
  BY RegistryClusters DEF Consistent
<1>2. \A i \in 1..m : t[i] = reg.m_clusters[s[i]]
  OBVIOUS
<1> HIDE DEF t
<1>3. Members(k) = UNION {Members(t[i]) : i \in 1..m}
  BY <1>1, MergeAllNodes
<1>4. \A d \in M : Members(reg.m_clusters[d]) \subseteq Members(k)
  BY <1>2, <1>3
<1> HIDE DEF k
<1>5. /\ Live(reg') = (Live(reg) \ M) \cup {NextId(reg)}
      /\ \A d \in Live(reg) \ M : reg'.m_clusters[d] = reg.m_clusters[d]
      /\ reg'.m_clusters[NextId(reg)] = k /\ NextId(reg) \notin Live(reg)
  BY MergeClustersEffect DEF merge_clusters, k, t
<1> HIDE DEF M
<1> SUFFICES ASSUME NEW d \in Live(reg), NEW p \in Members(reg.m_clusters[d])
    PROVE \E e \in Live(reg') : p \in Members(reg'.m_clusters[e])
  BY AllMembersIn
<1>6. CASE d \in M
  BY <1>4, <1>5, <1>6
<1>7. CASE d \notin M
  BY <1>5, <1>7
<1> QED BY <1>6, <1>7

\* No call of clusters.lua loses a node on the way: not a merge, which hands
\* the tables of several clusters to a new one, nor an update of a node that
\* is not a member, nor a second registration.
THEOREM NodesOnlyLeaveWhenTold == ClustersSpec => NodesLeaveOnlyWhenTold
<1> DEFINE Told(p) ==
      \/ \E c \in Live(reg) : remove_node_from_cluster(c, p)
      \/ \E c \in Live(reg) : p \in Members(reg.m_clusters[c]) /\ destroy_cluster(c)
      \/ update_active_blocks /\ BlockOf[p] \in ExpiredBlocks(reg, loaded, BlockTimeout)
           AllTold == \A p \in AllMembers(reg) \ AllMembers(reg') : Told(p)
<1>1. ASSUME ClustersInv, ClustersNext, NEW p \in AllMembers(reg) \ AllMembers(reg')
      PROVE  Told(p)
  <2>1. Consistent(reg) /\ \A c \in Live(reg) : reg.m_clusters[c] \in Cluster
    BY <1>1, RegistryClusters DEF ClustersInv, Consistent
  <2>2. ASSUME NEW groups \in SUBSET ClusterGroup, create_cluster(groups) PROVE FALSE
    <3>1. /\ Live(reg') = Live(reg) \cup {NextId(reg)}
          /\ \A d \in Live(reg) : reg'.m_clusters[d] = reg.m_clusters[d]
      BY <2>1, <2>2, CreateClusterEffect DEF create_cluster
    <3> QED BY <1>1, <3>1, AllMembersIn
  <2>3. ASSUME NEW S \in (SUBSET Live(reg)) \ {{}}, NEW s \in Orders(S), merge_clusters(s)
        PROVE  FALSE
    <3>1. PICK m \in Nat \ {0} : s \in [1..m -> Live(reg)]
      BY <2>1, OrdersOfClusters
    <3> QED BY <1>1, <2>1, <2>3, <3>1, MergeLosesNothing
  <2>4. ASSUME NEW c \in Live(reg), NEW q \in Pos, NEW kind \in Kind, add_node_to_cluster(c, q, kind)
        PROVE  FALSE
    <3> DEFINE k == reg.m_clusters[c]
    <3>1. reg'.m_clusters = [reg.m_clusters EXCEPT ![c] = AddNode(k, q, kind)]
      BY <2>1, <2>4, AddNodeEffect DEF add_node_to_cluster
    <3>2. Members(AddNode(k, q, kind)) = Members(k) \cup {q}
      BY <2>1, AddNodeEntries
    <3>3. p \in Members(k) /\ p \notin Members(AddNode(k, q, kind))
      BY <1>1, <2>1, <3>1, OneClusterLoses
    <3> QED BY <3>2, <3>3
  <2>5. ASSUME NEW c \in Live(reg), NEW q \in Pos, NEW kind \in Kind, update_node_in_cluster(c, q, kind)
        PROVE  FALSE
    <3> DEFINE k == reg.m_clusters[c]
    <3>1. reg'.m_clusters = [reg.m_clusters EXCEPT ![c] = UpdateNode(k, q, kind)]
      BY <2>1, <2>5, UpdateNodeEffect DEF update_node_in_cluster
    <3>2. Members(UpdateNode(k, q, kind)) = Members(k)
      <4>1. CASE q \in Members(k)
        BY <4>1, <2>1, UpdateNodeEntries DEF Consistent
      <4>2. CASE q \notin Members(k)
        BY <4>2 DEF UpdateNode
      <4> QED BY <4>1, <4>2
    <3>3. p \in Members(k) /\ p \notin Members(UpdateNode(k, q, kind))
      BY <1>1, <2>1, <3>1, OneClusterLoses
    <3> QED BY <3>2, <3>3
  <2>6. ASSUME NEW c \in Live(reg), NEW q \in Pos, remove_node_from_cluster(c, q)
        PROVE  Told(p)
    <3> DEFINE k == reg.m_clusters[c]
    <3>1. reg'.m_clusters = [reg.m_clusters EXCEPT ![c] = RemoveNodes(k, {q})]
      BY <2>1, <2>6, RemoveNodeEffect DEF remove_node_from_cluster
    <3>2. Members(RemoveNodes(k, {q})) = Members(k) \ {q}
      BY <2>1, RemoveNodesMembers
    <3>3. p \in Members(k) /\ p \notin Members(RemoveNodes(k, {q}))
      BY <1>1, <2>1, <3>1, OneClusterLoses
    <3>4. p = q
      BY <3>2, <3>3
    <3> QED BY <2>6, <3>4
  <2>7. ASSUME NEW c \in Live(reg), NEW groups \in SUBSET ClusterGroup, update_cluster_groups(c, groups)
        PROVE  FALSE
    <3> DEFINE k == [reg.m_clusters[c] EXCEPT !.groups = groups]
    <3>1. reg'.m_clusters = [reg.m_clusters EXCEPT ![c] = k]
      BY <2>1, <2>7, RegistryTables DEF update_cluster_groups, UpdateClusterGroups, IsTables
    <3>2. Members(k) = Members(reg.m_clusters[c])
      BY <2>1 DEF Members, Cluster
    <3> HIDE DEF k
    <3>3. p \in Members(reg.m_clusters[c]) /\ p \notin Members(k)
      BY <1>1, <2>1, <3>1, OneClusterLoses
    <3> QED BY <3>2, <3>3
  <2>8. ASSUME NEW c \in Live(reg), destroy_cluster(c) PROVE Told(p)
    BY <1>1, <2>1, <2>8, DestroyedLoses
  <2>9. CASE update_active_blocks
    <3> DEFINE B == ExpiredBlocks(reg, loaded, BlockTimeout)
    <3>1. /\ Live(reg') = Live(reg)
          /\ \A c \in Live(reg) : Members(reg'.m_clusters[c]) =
                                   {q \in Members(reg.m_clusters[c]) : BlockOf[q] \notin B}
      BY <2>1, <2>9, ExpiredNodesLeave DEF update_active_blocks
    <3>2. BlockOf[p] \in B
      <4> HIDE DEF B
      <4> QED BY <1>1, <3>1, AllMembersIn
    <3> QED BY <2>9, <3>2
  <2>10. CASE update_clusters
    BY <2>8, <2>10 DEF update_clusters
  <2>11. ASSUME NEW b \in Block, ToggleBlock(b) PROVE FALSE
    BY <1>1, <2>11 DEF ToggleBlock
  <2> HIDE DEF Told
  <2> QED
    BY <1>1, <2>2, <2>3, <2>4, <2>5, <2>6, <2>7, <2>8, <2>9, <2>10, <2>11 DEF ClustersNext
<1>2. ClustersInv /\ [ClustersNext]_clustersVars => [AllTold]_clustersVars
  BY <1>1
<1>3. ClustersSpec => [][AllTold]_clustersVars
  <2>1. ClustersSpec => []ClustersInv /\ [][ClustersNext]_clustersVars
    BY AlwaysConsistent, PTL DEF ClustersSpec
  <2> QED BY <1>2, <2>1, PTL
<1> QED BY <1>3 DEF NodesLeaveOnlyWhenTold

=============================================================================
