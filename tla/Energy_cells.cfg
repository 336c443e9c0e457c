SPECIFICATION Spec
CONSTANTS
  generator = generator
  furnace = furnace
  mill = mill
  north = north
  south = south
  slow = slow
  fast = fast
  Producer = {generator}
  Consumer = {furnace, mill}
  Storage = {north, south}
  Cell = {slow, fast}
  Front <- OwnCells
  CellCapacity <- MCCapacity
  CellBandwidth <- MCBandwidth
  Yield = {0, 1, 3, 6}
  PassiveLost = 1
  ChargeBandwidth = 2
  BufferCapacity = 3
INVARIANTS
  EnergyTypeOK
  RestComesFromStorage
  NobodyOverpays
  Ledger
  NoCircles
