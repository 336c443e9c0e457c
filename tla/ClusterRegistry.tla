--------------------------- MODULE ClusterRegistry ---------------------------
(***************************************************************************)
(* The bookkeeping of yatm_clusters/clusters.lua: the class Cluster (one   *)
(* network of nodes, with its per-block and per-group indexes) and the     *)
(* tables of the class Clusters that index every cluster.  The Lua methods *)
(* mutate tables in place; here each is an operator from the old value to  *)
(* the new one, so that a handler that calls several of them is one        *)
(* expression.  A table of sets is a set of pairs: an empty inner table    *)
(* and an absent one are the same thing, as the code keeps them.           *)
(* Clusters and SimpleCluster are two clients that call the methods.       *)
(***************************************************************************)
EXTENDS Integers, FiniteSets, FiniteSetsExt, Sequences, Functions

CONSTANTS
  Pos,            \* node positions; hash_node_position is injective, so also the node ids
  Kind,           \* registered node names
  Block,          \* map blocks
  BlockOf,        \* [Pos -> Block], the map block of a position
  NodeGroup,      \* names of the groups a node can have inside a cluster
  GroupsOf,       \* [Kind -> SUBSET NodeGroup], get_node_groups of each node name
  ClusterGroup,   \* names of the groups a cluster can have
  DeviceState,    \* states a device cluster can be put in
  Nil,            \* Lua's nil
  BlockTimeout,   \* ticks a mark of a block stays good (3 in the code)
  MaxClusterId    \* bound: clusters that are created, merges included

ASSUME RegistryAssumption ==
  /\ BlockOf \in [Pos -> Block]
  /\ GroupsOf \in [Kind -> SUBSET NodeGroup]
  /\ Nil \notin Pos
  /\ Nil \notin DeviceState
  /\ BlockTimeout \in Nat /\ MaxClusterId \in Nat

VARIABLES
  reg,            \* the tables of Clusters
  loaded          \* the blocks the world has in memory

\* The orders in which pairs() may go through the keys of the set S.
Orders(S) == {s \in [1..Cardinality(S) -> S] : IsInjective(s)}

(***************************************************************************)
(* Cluster.  `assigns` is the free-form table of the class, with the keys  *)
(* the device clusters store in it.  generation_id is only ever compared   *)
(* with the current value of m_counter: TRUE says it is equal.             *)
(***************************************************************************)
Assigns == [generation_id : BOOLEAN, controller_id : Pos \cup {Nil},
            state : DeviceState \cup {Nil}]

NodeTable == UNION {[S -> Kind] : S \in SUBSET Pos}

Cluster == [groups      : SUBSET ClusterGroup,
            nodes       : NodeTable,
            block_nodes : SUBSET (Block \X Pos),
            group_nodes : SUBSET (NodeGroup \X Pos),
            assigns     : Assigns]

NoAssigns == [generation_id |-> FALSE, controller_id |-> Nil, state |-> Nil]

NewCluster(groups) ==
  [groups |-> groups, nodes |-> [p \in {} |-> Nil], block_nodes |-> {},
   group_nodes |-> {}, assigns |-> NoAssigns]

Members(k) == DOMAIN k.nodes

\* Cluster:is_empty
IsEmpty(k) == Members(k) = {}

\* The groups of several nodes at once: f is a table of nodes.
GroupPairs(f) == {gp \in NodeGroup \X DOMAIN f : gp[1] \in GroupsOf[f[gp[2]]]}
BlockPairs(S) == {<<BlockOf[p], p>> : p \in S}

\* Cluster:_refresh_node_entry of the entries of the table f, which the node
\* table takes in.  Nothing is removed from the two indexes.
PutNodes(k, f) ==
  [k EXCEPT !.nodes = [p \in Members(k) \cup DOMAIN f |->
                         IF p \in DOMAIN f THEN f[p] ELSE k.nodes[p]],
            !.group_nodes = @ \cup GroupPairs(f),
            !.block_nodes = @ \cup BlockPairs(DOMAIN f)]

Singleton(p, kind) == [q \in {p} |-> kind]

\* Cluster:add_node turns a second registration under the same name away,
\* and lets one under another name replace the entry.
IsDuplicate(k, p, kind) == p \in Members(k) /\ k.nodes[p] = kind

AddNode(k, p, kind) ==
  IF IsDuplicate(k, p, kind) THEN k ELSE PutNodes(k, Singleton(p, kind))

\* What remove_node and update_node take out of m_group_nodes: the groups of
\* the entry's own table, and only those.
WithoutGroupsOf(k, S) ==
  k.group_nodes \ GroupPairs(Restrict(k.nodes, S \cap Members(k)))

\* mutant: the old groups are taken out after the new ones went in
UpdateNode_RemovesLast(k, p, kind) ==
  IF p \in Members(k)
    THEN [PutNodes(k, Singleton(p, kind)) EXCEPT
            !.group_nodes = @ \ GroupPairs(Restrict(k.nodes, {p}))]
    ELSE k

\* Cluster:update_node
UpdateNode(k, p, kind) ==
  IF p \in Members(k)
    THEN PutNodes([k EXCEPT !.group_nodes = WithoutGroupsOf(k, {p})], Singleton(p, kind))
    ELSE k

\* Cluster:remove_node, of every node of S at once
RemoveNodes(k, S) ==
  [k EXCEPT !.nodes = Restrict(@, Members(k) \ S),
            !.group_nodes = WithoutGroupsOf(k, S),
            !.block_nodes = @ \ BlockPairs(S \cap Members(k))]

NodesInBlocks(k, B) == {p \in Pos : \E b \in B : <<b, p>> \in k.block_nodes}

\* mutant: the nodes of the block are looked up after its entry is gone
OnBlocksExpired_Late(k, B) ==
  LET dropped == [k EXCEPT !.block_nodes = @ \ (B \X Pos)]
  IN RemoveNodes(dropped, NodesInBlocks(dropped, B))

\* Cluster:on_block_expired, for every block of B: the block's index entry
\* goes first, then every node it listed.
OnBlocksExpired(k, B) ==
  RemoveNodes([k EXCEPT !.block_nodes = @ \ (B \X Pos)], NodesInBlocks(k, B))

\* mutant: the nodes are taken over from the last cluster only
MergeAll_LastNodes(s) ==
  [groups |-> UNION {s[i].groups : i \in DOMAIN s},
   nodes |-> s[Len(s)].nodes,
   block_nodes |-> s[Len(s)].block_nodes,
   group_nodes |-> s[Len(s)].group_nodes,
   assigns |-> s[Len(s)].assigns]

\* Cluster:merge of the clusters of the sequence s, in that order, into a
\* new cluster: where two have the same key, the later one wins.
MergedAssign(s, key) ==
  LET given == {i \in DOMAIN s : s[i].assigns[key] # Nil}
  IN IF given = {} THEN Nil ELSE s[Max(given)].assigns[key]

MergeAll(s) ==
  [groups |-> UNION {s[i].groups : i \in DOMAIN s},
   nodes |-> [p \in UNION {Members(s[i]) : i \in DOMAIN s} |->
                s[Max({i \in DOMAIN s : p \in Members(s[i])})].nodes[p]],
   block_nodes |-> UNION {s[i].block_nodes : i \in DOMAIN s},
   group_nodes |-> UNION {s[i].group_nodes : i \in DOMAIN s},
   assigns |-> [generation_id |-> s[Len(s)].assigns.generation_id,
                controller_id |-> MergedAssign(s, "controller_id"),
                state |-> MergedAssign(s, "state")]]

(***************************************************************************)
(* Clusters.  m_active_blocks maps a block to the age of its mark, the     *)
(* ticks since m_counter was stored in the entry.                          *)
(***************************************************************************)
ClusterId == Nat \ {0}

\* f is a Lua table from some keys of D to values of R.
IsTable(f, D, R) ==
  /\ f = [x \in DOMAIN f |-> f[x]]
  /\ DOMAIN f \subseteq D
  /\ \A x \in DOMAIN f : f[x] \in R

IsRegistry(r) ==
  /\ r = [m_cluster_id |-> r.m_cluster_id, m_clusters |-> r.m_clusters,
          m_group_clusters |-> r.m_group_clusters, m_node_clusters |-> r.m_node_clusters,
          m_active_blocks |-> r.m_active_blocks]
  /\ r.m_cluster_id \in Nat
  /\ IsTable(r.m_clusters, ClusterId, Cluster)
  /\ r.m_group_clusters \subseteq ClusterGroup \X ClusterId
  /\ r.m_node_clusters \subseteq Pos \X ClusterId
  /\ IsTable(r.m_active_blocks, Block, Nat)

EmptyRegistry ==
  [m_cluster_id |-> 0, m_clusters |-> [c \in {} |-> Nil], m_group_clusters |-> {},
   m_node_clusters |-> {}, m_active_blocks |-> [b \in {} |-> 0]]

Live(r) == DOMAIN r.m_clusters

\* reduce_node_clusters: the clusters of a node that still exist.
ClustersAt(r, p) == {c \in Live(r) : <<p, c>> \in r.m_node_clusters}

\* The cluster ids of a group, as given to the node event handlers.
ClustersOfGroup(r, g) == {c \in Live(r) : <<g, c>> \in r.m_group_clusters}

\* mark_node_block of every position of S
MarkBlocks(r, S) ==
  [r EXCEPT !.m_active_blocks =
     [b \in DOMAIN @ \cup {BlockOf[p] : p \in S} |->
        IF \E p \in S : BlockOf[p] = b THEN 0 ELSE r.m_active_blocks[b]]]

\* mutant: the nodes a cluster comes with are not indexed
PutCluster_NotIndexed(r, c, k) ==
  [r EXCEPT !.m_clusters = [d \in DOMAIN @ \cup {c} |->
                              IF d = c THEN k ELSE r.m_clusters[d]],
            !.m_group_clusters = @ \cup (k.groups \X {c})]

\* A cluster enters the tables under its id, with its groups and its nodes.
PutCluster(r, c, k) ==
  [r EXCEPT !.m_clusters = [d \in DOMAIN @ \cup {c} |->
                              IF d = c THEN k ELSE r.m_clusters[d]],
            !.m_group_clusters = @ \cup (k.groups \X {c}),
            !.m_node_clusters = @ \cup (Members(k) \X {c})]

\* mutants: the counter is read before it is incremented; ids are used again
NextId_BeforeIncrement(r) == r.m_cluster_id

NextId_Recycled(r) == Cardinality(Live(r)) + 1

NextId(r) == r.m_cluster_id + 1

TakeId(r) == [r EXCEPT !.m_cluster_id = @ + 1]

\* create_cluster: the new cluster is number NextId(r).
CreateCluster(r, groups) == PutCluster(TakeId(r), NextId(r), NewCluster(groups))

\* mutant: the group index keeps the clusters
RemoveClusters_KeepsGroups(r, C) ==
  LET gone == C \cap Live(r)
  IN [r EXCEPT
        !.m_clusters = Restrict(@, DOMAIN @ \ gone),
        !.m_node_clusters = {pc \in @ : ~ /\ pc[2] \in gone
                                          /\ pc[1] \in Members(r.m_clusters[pc[2]])}]

\* remove_cluster_by_id with _cleanup_cluster, of every cluster of C: each
\* leaves the group index, and the node index under its present members only.
RemoveClusters(r, C) ==
  LET gone == C \cap Live(r)
  IN [r EXCEPT
        !.m_clusters = Restrict(@, DOMAIN @ \ gone),
        !.m_group_clusters = {gc \in @ : ~ /\ gc[2] \in gone
                                           /\ gc[1] \in r.m_clusters[gc[2]].groups},
        !.m_node_clusters = {pc \in @ : ~ /\ pc[2] \in gone
                                          /\ pc[1] \in Members(r.m_clusters[pc[2]])}]

\* One new cluster per element of the sequence s of node tables, each holding
\* the nodes of its table: create_cluster, then add_node_to_cluster for each.
CreateClusters(r, groups, s) ==
  LET id == r.m_cluster_id
      new == {id + i : i \in DOMAIN s}
  IN [MarkBlocks(r, UNION {DOMAIN s[i] : i \in DOMAIN s}) EXCEPT
        !.m_cluster_id = id + Len(s),
        !.m_clusters = [c \in DOMAIN @ \cup new |->
           IF c \in new THEN PutNodes(NewCluster(groups), s[c - id]) ELSE r.m_clusters[c]],
        !.m_group_clusters = @ \cup (groups \X new),
        !.m_node_clusters =
           @ \cup UNION {(DOMAIN s[i]) \X {id + i} : i \in DOMAIN s}]

\* mutant: the clusters that were merged stay
MergeClusters_KeepsOld(r, s) ==
  PutCluster(TakeId(r), NextId(r), MergeAll([i \in DOMAIN s |-> r.m_clusters[s[i]]]))

\* merge_clusters of the ids of the sequence s: the result is a new cluster.
MergeClusters(r, s) ==
  LET k == MergeAll([i \in DOMAIN s |-> r.m_clusters[s[i]]])
  IN PutCluster(RemoveClusters(TakeId(r), {s[i] : i \in DOMAIN s}), NextId(r), k)

\* add_node_to_cluster: the node index is written even when the cluster
\* turned the node away.
AddNodeToCluster(r, c, p, kind) ==
  LET k == r.m_clusters[c]
      marked == IF IsDuplicate(k, p, kind) THEN r ELSE MarkBlocks(r, {p})
  IN [marked EXCEPT !.m_clusters[c] = AddNode(k, p, kind),
                    !.m_node_clusters = @ \cup {<<p, c>>}]

\* update_node_in_cluster
UpdateNodeInCluster(r, c, p, kind) ==
  LET k == r.m_clusters[c]
      marked == IF p \in Members(k) THEN MarkBlocks(r, {p}) ELSE r
  IN [marked EXCEPT !.m_clusters[c] = UpdateNode(k, p, kind)]

\* mutant: the index keeps the cluster
RemoveNodeFromCluster_KeepsIndex(r, c, p) ==
  [r EXCEPT !.m_clusters[c] = RemoveNodes(@, {p})]

\* remove_node_from_cluster
RemoveNodeFromCluster(r, c, p) ==
  [r EXCEPT !.m_clusters[c] = RemoveNodes(@, {p}),
            !.m_node_clusters = @ \ {<<p, c>>}]

\* update_cluster_groups
UpdateClusterGroups(r, c, groups) ==
  [r EXCEPT !.m_clusters[c].groups = groups,
            !.m_group_clusters =
               (@ \ (r.m_clusters[c].groups \X {c})) \cup (groups \X {c})]

\* mutant: off by one
StaleBlocks_Late(r, limit) == {b \in DOMAIN r.m_active_blocks : r.m_active_blocks[b] > limit}

\* The block part of _update_active_blocks: the mark of every block ages by
\* one tick; one older than `limit` is renewed when the block is loaded and
\* dropped otherwise.
StaleBlocks(r, limit) == {b \in DOMAIN r.m_active_blocks : r.m_active_blocks[b] + 1 > limit}

\* mutant: the test for the loaded block is the wrong way round
ExpiredBlocks_Swapped(r, inMemory, limit) == StaleBlocks(r, limit) \cap inMemory

ExpiredBlocks(r, inMemory, limit) == StaleBlocks(r, limit) \ inMemory

\* mutants: the mark of a loaded block is dropped like any other; marks count down
UpdateActiveBlocks_DropsLoaded(r, inMemory, limit) ==
  [r EXCEPT
     !.m_active_blocks = [b \in DOMAIN @ \ StaleBlocks(r, limit) |-> @[b] + 1],
     !.m_clusters = [c \in DOMAIN @ |->
        OnBlocksExpired(r.m_clusters[c], ExpiredBlocks(r, inMemory, limit))]]

UpdateActiveBlocks_CountsDown(r, inMemory, limit) ==
  LET expired == ExpiredBlocks(r, inMemory, limit)
  IN [r EXCEPT
        !.m_active_blocks = [b \in DOMAIN @ \ expired |->
           IF b \in StaleBlocks(r, limit) THEN 0 ELSE r.m_active_blocks[b] - 1],
        !.m_clusters = [c \in DOMAIN @ |-> OnBlocksExpired(r.m_clusters[c], expired)]]

\* _update_active_blocks with _on_block_expired: every cluster drops the
\* nodes of the expired blocks.  The node index is not touched.
UpdateActiveBlocks(r, inMemory, limit) ==
  LET expired == ExpiredBlocks(r, inMemory, limit)
  IN [r EXCEPT
        !.m_active_blocks = [b \in DOMAIN @ \ expired |->
           IF b \in StaleBlocks(r, limit) THEN 0 ELSE r.m_active_blocks[b] + 1],
        !.m_clusters = [c \in DOMAIN @ |-> OnBlocksExpired(r.m_clusters[c], expired)]]

(***************************************************************************)
(* What the indexes owe to the clusters they index.                        *)
(***************************************************************************)

\* No cluster and no index mentions an id that was not given out yet: a new
\* cluster can inherit nothing.
IdsAreFresh(r) ==
  /\ \A c \in Live(r) : c <= r.m_cluster_id
  /\ \A gc \in r.m_group_clusters : gc[2] <= r.m_cluster_id
  /\ \A pc \in r.m_node_clusters : pc[2] <= r.m_cluster_id

\* Every member of a cluster can be found through the node index.
MembersAreIndexed(r) ==
  \A c \in Live(r) : \A p \in Members(r.m_clusters[c]) : <<p, c>> \in r.m_node_clusters

\* The group index lists exactly the clusters that exist, under their groups.
GroupsAreIndexed(r) ==
  r.m_group_clusters = {gc \in ClusterGroup \X Live(r) : gc[1] \in r.m_clusters[gc[2]].groups}

\* The block index of a cluster lists exactly its members, under their blocks.
BlocksAreIndexed(r) ==
  \A c \in Live(r) : r.m_clusters[c].block_nodes = BlockPairs(Members(r.m_clusters[c]))

\* A cluster finds every member under each of its groups.
NodeGroupsAreIndexed(r) ==
  \A c \in Live(r) : GroupPairs(r.m_clusters[c].nodes) \subseteq r.m_clusters[c].group_nodes

\* The block of every member is watched: if it unloads, that is noticed.
MembersAreWatched(r) ==
  \A c \in Live(r) : \A p \in Members(r.m_clusters[c]) : BlockOf[p] \in DOMAIN r.m_active_blocks

IndexesAgree(r) ==
  /\ IdsAreFresh(r)
  /\ MembersAreIndexed(r)
  /\ GroupsAreIndexed(r)
  /\ BlocksAreIndexed(r)
  /\ NodeGroupsAreIndexed(r)
  /\ MembersAreWatched(r)

=============================================================================
