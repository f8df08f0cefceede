CONSTANTS
  Threads = {t1, t2, t3, t4}
  Nodes = {n1, n2}
  Handles = {h1, h2}
  REFLOCK__DESTROY = 5
  NULL = NULL
SPECIFICATION FairSpec
INVARIANT RefCountExact
INVARIANT UsersAreSafe
PROPERTY ImplementsLifetime
PROPERTY CallsReturn
