SPECIFICATION Spec
CONSTANTS
  MemSize = 65536
  SavedMachines <- Machines
  Blobs <- Disks
  MaxInstructions = 2
  MaxVisits = 1
  Opcodes <- SomeOpcodes
  LowBytes = {1, 16, 127, 144, 255}
  HighBytes = {2, 128}
  Accumulators = {1, 127, 128}
  Indexes = {1, 239}
  Flags = {0, 9, 65}
  StackPointers = {1}
PROPERTY
  AddressesAreAsDocumented
