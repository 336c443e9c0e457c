SPECIFICATION FairSpec
CONSTANTS
  west = west
  hub = hub
  gate = gate
  east = east
  pulser = pulser
  buffer = buffer
  anybus = anybus
  whitebus = whitebus
  greybus = greybus
  multi = multi
  white = white
  grey = grey
  far = far
  near = near
  Pos = {west, hub, gate, east}
  Beside <- Line
  Kind = {pulser, buffer, anybus, whitebus, greybus}
  TypeOf <- MCTypeOf
  Color = {multi, white, grey}
  Multi = multi
  ColorOf <- MCColorOf
  Offset <- MCOffset
  PortRange <- MCPortRange
  Input <- MCInput
  Output <- MCOutput
  Updatable = {pulser}
  Relay = {buffer}
  Built <- MCBuilt
  Block = {near, far}
  BlockOf <- MCBlockOf
  Volatile = {far, near}
  MaxAttempts = 1
  Air = Air
  Nil = Nil
INVARIANTS
  NetworksAreWhole
  PDUsFollowWires
PROPERTY
  PulsesArrive
CHECK_DEADLOCK FALSE
