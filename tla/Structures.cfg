CONSTANTS
  MaxGroupSize = 2
  Members = {m1, m2, m3, m4, m5, m6}
  Heads = {update, deleted}
  Nodes = {n1, n2, n3, n4}
  Sockets = {h1, h2}
  Port = port
  File = file
  Bad = bad
  MaxDeleted = 2
  NULL = NULL
SPECIFICATION StructuresSpec
INVARIANT MasksAgree
INVARIANT GroupsAreSound
PROPERTY NewGroupOnlyWhenAllFull
INVARIANT RingsAreWhole
PROPERTY ImplementsQueueSet
INVARIANT ResourcesAreExact
INVARIANT EBADFIsExact
