CONSTANTS
  Threads = {t1, t2}
  Conns = {a, b}
  Silent = {}
  Quitters = {}
  MaxSpurious = 0
  NoConn = NoConn
SPECIFICATION FairSpec
PROPERTY AvailableThreadFinds
CHECK_DEADLOCK FALSE
