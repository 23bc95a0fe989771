\* Two creators, of which one may exit, and a client that gets in when it has
\* left and may exit too: the registry, the games and IDs under races, and what
\* must end.
SPECIFICATION FairSpec
CONSTANTS
  Conns = {a, b, c}
  Creators = {a, b}
  Quitters = {a, c}
  Failing = {b}
  MaxClients = 3
  MaxPerGame = 1
  NoConn = NoConn
INVARIANTS
  TypeOK
  RegistryConsistent
  Capacity
  OwnRecord
  RemovalFindsRecord
  GamePointersListed
  HandedOutIdResolves
  ExitExplained
PROPERTIES
  ImplementsRoster
  HandlersSettle
  LostClientsEnd
CHECK_DEADLOCK FALSE
