\* Three players in a game of two: the third gets no SG.
SPECIFICATION Spec
CONSTANTS
  Conns = {a, b, c}
  Creators = {a}
  Quitters = {}
  Failing = {}
  MaxClients = 4
  MaxPerGame = 2
  NoConn = NoConn
PROPERTY
  StartReachesEveryPlayer
CHECK_DEADLOCK FALSE
