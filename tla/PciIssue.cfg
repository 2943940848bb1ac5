SPECIFICATION Spec
CONSTANTS
  NMr = 6
  ByteSize = 4
  Buses = 2
  Functions = 2
  NQwords = 2
  MaxLength = 6
  Config0 <- MCConfig0
  Requests <- MCRequests
  CallMethods = {}
  MaxTurns = 2
  NoCap = NoCap
INVARIANTS
  IssuedCapNamesDevice
CHECK_DEADLOCK FALSE
