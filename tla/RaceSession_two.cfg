\* A creator and two joiners whose notifications cross: the creator counts both,
\* and a start goes to two players, of which it may not be one.
SPECIFICATION Spec
CONSTANTS
  Creator = a
  Joiners = {b, c}
  MaxPlayers = 2
  FullCount = 3
SYMMETRY Swaps
ACTION_CONSTRAINT ClientsFirst
INVARIANTS
  AnswerDue
  CountNeverAhead
  CredentialsExplained
\* The server may exit.
CHECK_DEADLOCK FALSE
