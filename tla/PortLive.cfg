CONSTANTS
  Threads = {t1, t2}
  Sockets = {h1}
  Blocks = {b1}
  EventMasks <- ReadAnd
  Conditions <- Readable
  Timeouts <- AnyTimeout
  MaxEvents = 1
  Faults = FALSE
  NULL = NULL
  MaxGroupSize = 2
SPECIFICATION FairSpec
PROPERTY CloseCompletes
PROPERTY EventDelivered
PROPERTY DeletedFreed
