----------------------------- MODULE MCClusters -----------------------------
(* Small instances of Clusters: two or three nodes in two map blocks.       *)
EXTENDS Clusters, TLC

CONSTANTS p1, p2, near, far, off, on

\* p1 and p2 lie in different blocks; a device that is on also produces.
MCBlockOf == [p \in Pos |-> IF p = p1 THEN near ELSE far]
MCNodeGroup == {"device_controller", "energy_producer"}
MCGroupsOf == [k \in Kind |-> {"device_controller"} \cup IF k = on THEN {"energy_producer"} ELSE {}]
=============================================================================
