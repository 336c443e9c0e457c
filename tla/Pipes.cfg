SPECIFICATION FairFluidSpec
CONSTANTS
  west = west
  mid = mid
  east = east
  extractor = extractor
  inserter = inserter
  open = open
  closed = closed
  blue = blue
  near = near
  far = far
  well = well
  basin = basin
  plain = plain
  crimson = crimson
  azure = azure
  Pos = {west, mid, east}
  Beside <- Line
  Kind = {extractor, inserter, open, closed, blue}
  TypeOf <- MCTypeOf
  OpenValves = {open}
  Color = {plain, crimson, azure}
  DefaultColor = plain
  ColorOf <- MCColorOf
  Built <- MCBuilt
  Block = {near, far}
  BlockOf <- MCBlockOf
  Volatile = {far}
  Air = Air
  NetworkId <- MCNetworkId
  NewIds <- MCNewIds
  Nil = Nil
  Tank = {well, basin}
  Outlet = {well}
  Inlet = {basin}
  TankBeside <- MCTankBeside
  TankBlock <- MCTankBlock
  Capacity <- MCCapacity
  TankBandwidth = 2
  ExtractorBandwidth = 2
  InserterBandwidth = 1
  InitialLevels <- MCInitialLevels
INVARIANTS
  TablesAgree
  NetworksAreComponents
  FluidTypeOK
PROPERTIES
  FluidFollowsPipes
  FluidIsKept
  FluidArrives
  UnloadedMembersLeave
