\* Two threads, three connections, of which one sends no newline and that one and
\* another may exit, one spurious wakeup.
SPECIFICATION FairSpec
CONSTANTS
  Threads = {t1, t2}
  Conns = {a, b, c}
  Silent = {c}
  Quitters = {b, c}
  MaxSpurious = 1
  NoConn = NoConn
INVARIANTS
  TypeOK
  QueueConsistent
  OnePlace
PROPERTIES
  ImplementsLine
  TakenIsAnswered
CHECK_DEADLOCK FALSE
