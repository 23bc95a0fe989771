\* Three clients of which one has no socket, two games, two tracks, three nodes.
SPECIFICATION Spec
CONSTANTS
  c1 = c1
  c2 = c2
  c3 = c3
  g1 = g1
  g2 = g2
  t1 = t1
  t2 = t2
  Addr = {n1, n2, n3}
  Clients <- ThreeClients
  Games <- TwoGames
  Tracks <- TwoTracks
  Unconnected = {c1}
  IdOf <- SharedIds
  NULL = NULL
SYMMETRY Moves
INVARIANTS
  TypeOK
  HeapExact
  CrashExplained
PROPERTIES
  SocketsClosed
  ImplementsLists
\* A crash ends the program.
CHECK_DEADLOCK FALSE
