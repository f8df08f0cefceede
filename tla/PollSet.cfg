CONSTANTS
  Sockets = {s1, s2}
  NULL = NULL
SPECIFICATION Spec
INVARIANT AskedIsPolled
