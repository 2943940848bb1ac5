SPECIFICATION ClientSpec
CONSTANTS
  BitmapWords = 8
  WordBits = 4
  IntBits = 2
  PageSize = 4
  MachineWord = 4096
  Maps <- MCMaps
  DeviceSizes <- MCDeviceSizes
  MaxExtents = 3
  CNodeSlots = 18
  FirstUntyped = 3
  MaxPages = 3
  MaxCalls = 3
  Kinds <- MCKinds
INVARIANTS
  MemoryPartitioned
  ObjectsDisjoint
  SlotsWereEmpty
  SortedBySize
CHECK_DEADLOCK FALSE
