CONSTANTS
  Threads = {t1, t2}
  Sockets = {h1}
  Blocks = {b1, b2}
  EventMasks <- ReadOnly
  Conditions <- Readable
  Timeouts <- AnyTimeout
  MaxEvents = 1
  Faults = TRUE
  NULL = NULL
  MaxGroupSize = 1
SPECIFICATION Spec
SYMMETRY Symmetry
INVARIANT QueueDiscipline
INVARIANT KernelOwnsBlock
INVARIANT ActiveCount
INVARIANT GroupAccounting
INVARIANT DeletedAwaitPackets
