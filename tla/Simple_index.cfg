SPECIFICATION Spec
CONSTANTS
  plain = plain
  lit = lit
  red = red
  blue = blue
  near = near
  middle = middle
  far = far
  none = none
  crimson = crimson
  azure = azure
  Pos <- Line
  Kind = {plain, lit}
  Block = {near}
  BlockOf <- OneBlock
  NodeGroup = {"device_controller", "energy_producer"}
  GroupsOf <- MCGroupsOf
  ClusterGroup = {"yatm_device"}
  ClusterGroupName = "yatm_device"
  ColorOf <- MCColorOf
  Color = {none, crimson, azure}
  DefaultColor = none
  DeviceState = {}
  Nil = Nil
  Air = Air
  Walks <- MCWalks
  BlockTimeout = 1
  Environment = {"place", "dig", "swap"}
  Hasty = TRUE
  MaxClusterId = 3
  MaxQueue = 2
INVARIANT IndexLeadsToMembers
PROPERTY DevicesStay
CHECK_DEADLOCK FALSE
