\* Two creators get the same game ID.
SPECIFICATION Spec
CONSTANTS
  Conns = {a, b}
  Creators = {a, b}
  Quitters = {}
  Failing = {}
  MaxClients = 4
  MaxPerGame = 2
  NoConn = NoConn
PROPERTY
  StartStaysInGame
CHECK_DEADLOCK FALSE
