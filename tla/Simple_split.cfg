SPECIFICATION Spec
CONSTANTS
  plain = plain
  lit = lit
  red = red
  blue = blue
  near = near
  middle = middle
  far = far
  none = none
  crimson = crimson
  azure = azure
  Pos <- Line
  Kind = {plain}
  Block = {near}
  BlockOf <- OneBlock
  NodeGroup = {"device_controller", "energy_producer"}
  GroupsOf <- MCGroupsOf
  ClusterGroup = {"yatm_device"}
  ClusterGroupName = "yatm_device"
  ColorOf <- MCColorOf
  Color = {none, crimson, azure}
  DefaultColor = none
  DeviceState = {}
  Nil = Nil
  Air = Air
  Walks <- MCWalks
  BlockTimeout = 3
  Environment = {"place", "dig"}
  Hasty = FALSE
  MaxClusterId = 5
  MaxQueue = 2
INVARIANT ClustersHoldTogether
