CONSTANTS
  Threads = {t1, t2, t3}
  MaxFailures = 2
  NULL = NULL
  Depth = 4
  INVALID = INVALID
  Word = 8
  MaxNow = 10
  MaxBytes = 4
  Buffer = 2
  Chunk = 2
  Senders = {c1, c2}
  MaxSends = 1
  MaxQueue = 2
  MaxEmpty = 1
  MaxTaken = 3
  MaxCalls = 3
SPECIFICATION LoopsSpec
INVARIANT InitIsSafe
PROPERTY InitReturns
INVARIANT BaseSocketIsRight
PROPERTY LoopEnds
INVARIANT WaitsAsAsked
PROPERTY WaitReturns
INVARIANT StreamIntact
PROPERTY CountsCanBeRelied
PROPERTY TransfersEnd
INVARIANT DatagramsIntact
CHECK_DEADLOCK FALSE
