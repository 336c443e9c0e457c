SPECIFICATION DeviceSpec
CONSTANTS
  host = host
  bank = bank
  cable_off = cable_off
  cable_on = cable_on
  red_off = red_off
  red_on = red_on
  blue = blue
  machine_off = machine_off
  machine_on = machine_on
  machine_idle = machine_idle
  near = near
  far = far
  none = none
  crimson = crimson
  azure = azure
  Pos <- Line
  Kind = {host, bank, red_off, red_on, blue, machine_off, machine_on}
  Block = {near}
  BlockOf <- OneBlock
  NodeGroup = {"device_controller"}
  GroupsOf <- MCGroupsOf
  Placeable = {host, bank, red_off, blue, machine_off}
  TierOf <- MCTierOf
  VariantOf <- MCVariantOf
  OwnNames <- MCOwnNames
  ClusterGroup = {"yatm_device"}
  ClusterGroupName = "yatm_device"
  ColorOf <- MCColorOf
  Color = {none, crimson, azure}
  DefaultColor = none
  DeviceState = {"up", "down", "conflict"}
  Nil = Nil
  Air = Air
  Walks <- MCWalks
  BlockTimeout = 1
  Environment = {"place", "work"}
  Hasty = TRUE
  MaxClusterId = 4
  MaxQueue = 3
INVARIANTS
  DeviceTypeOK
  ElectionIsCurrent
  DevicesFollowCluster
  EveryDeviceIsClustered
  AtMostOneCluster
PROPERTY ImplementsBlobs
