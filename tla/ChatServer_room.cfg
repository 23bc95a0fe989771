\* Three clients: a may exit, b talks once and may stop reading, c may get no
\* descriptor.
SPECIFICATION FairSpec
CONSTANTS
  a = a
  b = b
  c = c
  Conns = {a, b, c}
  MaxClients = 3
  MaxFd = 3
  MaxLines = 1
  Talkers = {b}
  Quitters = {a}
  Failing = {c}
  Deaf = {b}
  None = None
INVARIANTS
  TypeOK
  RecordsConsistent
PROPERTIES
  MissedExplained
  EchoExplained
  ImplementsRoom
  LeaverIsRemoved
\* Every client may have come and left.
CHECK_DEADLOCK FALSE
