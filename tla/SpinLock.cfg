SPECIFICATION FairSpec
CONSTANTS
  CPUs = {c1, c2, c3}
  W = 5
INVARIANTS
  MutualExclusion
  FirstComeFirstServed
  TicketsInOrder
PROPERTY NoStarvation
