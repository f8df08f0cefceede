CONSTANTS
  Threads = {t1, t2}
  Sockets = {h1}
  Blocks = {b1}
  EventMasks <- ReadOnly
  Conditions <- Readable
  Timeouts <- AnyTimeout
  MaxEvents = 1
  Faults = FALSE
  NULL = NULL
  MaxGroupSize = 1
SPECIFICATION Spec
INVARIANT NeverAborts
