CONSTANTS
  Vars = {v1, v2}
  Fds = {3, 4, 5}
  Families = {ipv4, ipv6}
  MaxAddrs = 2
  Bytes = {0, 1}
  Words = {0, 1}
SPECIFICATION ValuesSpec
SYMMETRY Symmetry
INVARIANT SocketsAreTrue
INVARIANT WhatFitsSurvives
