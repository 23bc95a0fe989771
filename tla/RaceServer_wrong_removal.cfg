\* A client leaves after a gameplay has overwritten a player ID.
SPECIFICATION Spec
CONSTANTS
  Conns = {a, b}
  Creators = {a}
  Quitters = {b}
  Failing = {}
  MaxClients = 4
  MaxPerGame = 2
  NoConn = NoConn
PROPERTY
  RemovesItsOwnClient
CHECK_DEADLOCK FALSE
