CONSTANTS
  TreeSize = 11
  Nodes <- TreeNodes
  Key <- TreeKeys
  NULL = NULL
SPECIFICATION Spec
INVARIANT RedBlack
PROPERTY ImplementsDictionary
PROPERTY LoopsClimb
