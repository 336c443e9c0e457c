SPECIFICATION FairDeviceSpec
CONSTANTS
  host = host
  bank = bank
  cable_off = cable_off
  cable_on = cable_on
  red_off = red_off
  red_on = red_on
  blue = blue
  machine_off = machine_off
  machine_on = machine_on
  machine_idle = machine_idle
  near = near
  far = far
  none = none
  crimson = crimson
  azure = azure
  Pos <- Pair
  Kind = {host, machine_off, machine_on, machine_idle}
  Block = {near, far}
  BlockOf <- TwoBlocks
  NodeGroup = {"device_controller"}
  GroupsOf <- MCGroupsOf
  Placeable = {host, machine_off}
  TierOf <- MCTierOf
  VariantOf <- MCVariantOf
  OwnNames <- MCOwnNames
  ClusterGroup = {"yatm_device"}
  ClusterGroupName = "yatm_device"
  ColorOf <- MCColorOf
  Color = {none}
  DefaultColor = none
  DeviceState = {"up", "down", "conflict"}
  Nil = Nil
  Air = Air
  Walks <- MCWalks
  BlockTimeout = 1
  Environment = {"place", "dig", "unload", "activate"}
  Hasty = TRUE
  MaxClusterId = 2
  MaxQueue = 2
INVARIANTS
  NeverCrashes
PROPERTIES
  EventsDieOut
  EmptyClustersGo
  UnloadedNodesLeave
  DevicesJoin
