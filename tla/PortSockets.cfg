CONSTANTS
  Threads = {t1}
  Sockets = {h1, h2}
  Blocks = {b1, b2}
  EventMasks <- ReadOnce
  Conditions <- Readable
  Timeouts <- AnyTimeout
  MaxEvents = 2
  Faults = FALSE
  NULL = NULL
  MaxGroupSize = 2
SPECIFICATION Spec
SYMMETRY Symmetry
INVARIANT PacketOnce
PROPERTY ImplementsEpollSet
