SPECIFICATION Spec
CONSTANTS
  Radix = 4
  PageBytes = 2
  BootPages <- MCBootPages
  ScratchStart = 62
  Programs <- MCPrograms
  StackPages = {1, 12}
  Budgets = {2, 6, 14, 18, 70}
  TableAddrs = {0, 40, 120}
  PageAddrs = {40}
  HugeAddrs = {120}
  MaxSpawns = 2
  MaxRaw = 2
INVARIANTS
  SpawnedProgramsRun
PROPERTIES
  MappingsStable
  SpawnsEnd
CHECK_DEADLOCK FALSE
