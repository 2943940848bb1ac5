SPECIFICATION NestedCallSpec
CONSTANTS
  Threads = {t1, t2, t3}
  Endpoints = {e1}
  Notifications = {}
  Irqs = {}
  MaskedAtBoot = {}
  Bits = {}
  Null = Null
SYMMETRY Symmetry
INVARIANTS
  NeverPanics
CHECK_DEADLOCK FALSE
