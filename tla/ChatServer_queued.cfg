CONSTANTS
  a = a
  b = b
  c = c
  Conns = {a, b, c}
  MaxClients = 2
  MaxFd = 3
  MaxLines = 0
  Talkers = {a, b, c}
  Quitters = {}
  Failing = {}
  Deaf = {}
  None = None
SPECIFICATION Spec
INVARIANT ClientIsQueued
\* Every client may have come and left.
CHECK_DEADLOCK FALSE
