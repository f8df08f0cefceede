CONSTANTS
  Threads = {t1, t2}
  Sockets = {h1}
  Blocks = {b1, b2}
  EventMasks <- ReadOrWrite
  Conditions <- Readable
  Timeouts <- AnyTimeout
  MaxEvents = 1
  Faults = FALSE
  NULL = NULL
  MaxGroupSize = 2
SPECIFICATION Spec
SYMMETRY Symmetry
INVARIANT NothingLost
INVARIANT PollersSeeUpdates
INVARIANT IndInv
PROPERTY ImplementsEpollSet
