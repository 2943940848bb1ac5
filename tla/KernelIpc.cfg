SPECIFICATION ClientSpec
CONSTANTS
  Threads = {t1, t2, t3, t4}
  Endpoints = {e1}
  Notifications = {}
  Irqs = {}
  MaskedAtBoot = {}
  Bits = {}
  Null = Null
SYMMETRY Symmetry
INVARIANTS
  RunListExact
  CpuConsistent
  QueuesExact
  QueuesHomogeneous
  CallersAnswerable
  NeverPanics
PROPERTIES
  ReplyFromServer
CHECK_DEADLOCK FALSE
