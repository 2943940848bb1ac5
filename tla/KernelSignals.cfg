SPECIFICATION ClientSpec
CONSTANTS
  Threads = {t1, t2}
  Endpoints = {e1}
  Notifications = {n1, n2}
  Irqs = {irq1}
  MaskedAtBoot = {}
  Bits = {b1}
  Null = Null
SYMMETRY Symmetry
INVARIANTS
  TypeOK
  QueuesExact
  NoLostWakeup
  InServiceMasked
  CpuConsistent
  NeverPanics
PROPERTIES
  DeadStaysDead
CHECK_DEADLOCK FALSE
