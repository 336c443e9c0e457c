SPECIFICATION ClustersSpec
CONSTANTS
  p1 = p1
  p2 = p2
  near = near
  far = far
  off = off
  on = on
  Pos = {p1, p2}
  Kind = {on}
  Block = {near, far}
  BlockOf <- MCBlockOf
  NodeGroup <- MCNodeGroup
  GroupsOf <- MCGroupsOf
  ClusterGroup = {"yatm_device"}
  DeviceState = {}
  Nil = Nil
  MaxClusterId = 3
  MaxLive = 2
  BlockTimeout = 1
INVARIANTS
  ClustersTypeOK
  IndexesStayInStep
  UnloadIsNoticed
PROPERTIES
  NoIdIsInherited
  NodesLeaveOnlyWhenTold
  ExpiryIsComplete
