SPECIFICATION SerialSpec
CONSTANTS
  driver = driver
  client = client
  endpoint = endpoint
  irq_ntfn = irq_ntfn
  read_ntfn = read_ntfn
  irq = irq
  irq_badge = {b0}
  Threads = {driver, client}
  Endpoints = {endpoint}
  Notifications = {irq_ntfn, read_ntfn}
  Irqs = {irq}
  MaskedAtBoot = {}
  Bits = {b0}
  Null = Null
  Bytes = {"a", "X"}
  Capital <- MCCapital
  Greeting <- MCGreeting
  BufferSize = 3
  CopySize = 2
  Trigger = 2
  FifoSize = 3
  MaxTyped = 4
INVARIANTS
  NothingStuck
PROPERTIES
  IsByteStream
  KeepsContract
  ComesToRest
  BytesAreFetched
CHECK_DEADLOCK FALSE
