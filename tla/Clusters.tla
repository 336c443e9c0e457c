------------------------------- MODULE Clusters -------------------------------
(***************************************************************************)
(* The class Clusters of yatm_clusters/clusters.lua as its users see it:   *)
(* any client, calling its methods in any order the code allows, with the  *)
(* map blocks loading and unloading underneath.  SimpleCluster models the  *)
(* client the mods really use.                                             *)
(***************************************************************************)
EXTENDS ClusterRegistry

CONSTANT MaxLive   \* bound: clusters that exist at the same time

ASSUME ClustersAssumption == MaxLive \in Nat

clustersVars == <<reg, loaded>>

ClustersTypeOK == IsRegistry(reg) /\ loaded \in SUBSET Block

ClustersInit == reg = EmptyRegistry /\ loaded = Block

(***************************************************************************)
(* The methods.                                                            *)
(***************************************************************************)
create_cluster(groups) ==
  /\ Cardinality(Live(reg)) < MaxLive
  /\ reg.m_cluster_id < MaxClusterId
  /\ reg' = CreateCluster(reg, groups)
  /\ UNCHANGED loaded

merge_clusters(s) ==
  /\ reg.m_cluster_id < MaxClusterId
  /\ reg' = MergeClusters(reg, s)
  /\ UNCHANGED loaded

add_node_to_cluster(c, p, kind) ==
  /\ reg' = AddNodeToCluster(reg, c, p, kind)
  /\ UNCHANGED loaded

update_node_in_cluster(c, p, kind) ==
  /\ reg' = UpdateNodeInCluster(reg, c, p, kind)
  /\ UNCHANGED loaded

remove_node_from_cluster(c, p) ==
  /\ reg' = RemoveNodeFromCluster(reg, c, p)
  /\ UNCHANGED loaded

update_cluster_groups(c, groups) ==
  /\ reg' = UpdateClusterGroups(reg, c, groups)
  /\ UNCHANGED loaded

destroy_cluster(c) ==
  /\ reg' = RemoveClusters(reg, {c})
  /\ UNCHANGED loaded

\* _update_active_blocks, run by every update
update_active_blocks ==
  /\ reg' = UpdateActiveBlocks(reg, loaded, BlockTimeout)
  /\ UNCHANGED loaded

\* _update_clusters destroys one cluster without nodes, whichever pairs()
\* comes to first.
update_clusters ==
  \E c \in Live(reg) :
    /\ IsEmpty(reg.m_clusters[c])
    /\ destroy_cluster(c)

\* The engine moves a block into or out of memory.
ToggleBlock(b) ==
  /\ loaded' = IF b \in loaded THEN loaded \ {b} ELSE loaded \cup {b}
  /\ UNCHANGED reg

ClustersNext ==
  \/ \E groups \in SUBSET ClusterGroup : create_cluster(groups)
  \/ \E S \in (SUBSET Live(reg)) \ {{}} : \E s \in Orders(S) : merge_clusters(s)
  \/ \E c \in Live(reg), p \in Pos :
       \/ \E kind \in Kind : add_node_to_cluster(c, p, kind)
       \/ \E kind \in Kind : update_node_in_cluster(c, p, kind)
       \/ remove_node_from_cluster(c, p)
  \/ \E c \in Live(reg), groups \in SUBSET ClusterGroup : update_cluster_groups(c, groups)
  \/ \E c \in Live(reg) : destroy_cluster(c)
  \/ update_active_blocks
  \/ update_clusters
  \/ \E b \in Block : ToggleBlock(b)

ClustersSpec == ClustersInit /\ [][ClustersNext]_clustersVars

(***************************************************************************)
(* What holds for every client.                                            *)
(***************************************************************************)

\* The indexes of the registry agree with its clusters, whatever the order of
\* calls: get_clusters_at_pos of a member finds its cluster, the iteration over
\* a group visits each of its clusters and no destroyed one, which the handlers
\* dereference without a check, reduce_nodes_of_group misses no member that has
\* the group, and the error "potential block corruption" is never logged.
IndexesStayInStep ==
  /\ MembersAreIndexed(reg)
  /\ GroupsAreIndexed(reg)
  /\ BlocksAreIndexed(reg)
  /\ NodeGroupsAreIndexed(reg)

\* The unloading of a member's block is always noticed.
UnloadIsNoticed == MembersAreWatched(reg)

\* What was indexed under an id is never inherited by a later cluster.
NoIdIsInherited ==
  [][ \A c \in Live(reg') \ Live(reg) :
        /\ \A p \in Pos : <<p, c>> \notin reg.m_node_clusters
        /\ \A d \in Live(reg) : d < c ]_clustersVars

AllMembers(r) == UNION {Members(r.m_clusters[c]) : c \in Live(r)}

\* No call loses a node on the way: it leaves the clusters only when it is
\* removed, when its cluster is destroyed, or when its unloaded block expires.
NodesLeaveOnlyWhenTold ==
  [][ \A p \in AllMembers(reg) \ AllMembers(reg') :
        \/ \E c \in Live(reg) : remove_node_from_cluster(c, p)
        \/ \E c \in Live(reg) : p \in Members(reg.m_clusters[c]) /\ destroy_cluster(c)
        \/ update_active_blocks /\ BlockOf[p] \in ExpiredBlocks(reg, loaded, BlockTimeout) ]_clustersVars

\* Clusters are told of every unloaded block: after update_active_blocks no
\* cluster has a node in a block whose mark ran out.
ExpiryIsComplete ==
  [][ update_active_blocks =>
        \A p \in AllMembers(reg') :
          BlockOf[p] \in loaded \/ reg.m_active_blocks[BlockOf[p]] < BlockTimeout ]_clustersVars

=============================================================================
