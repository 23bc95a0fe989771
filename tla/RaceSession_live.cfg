\* A creator and one joiner: every order of the steps of clients and handlers.
SPECIFICATION FairSpec
CONSTANTS
  Creator = a
  Joiners = {b}
  MaxPlayers = 2
  FullCount = 2
INVARIANTS
  TypeOK
  StartHandledFirst
  MessagesCarryOver
PROPERTIES
  StartHonoured
  StartDelivered
\* The creator's user may never press CTRL+C, the server may exit.
CHECK_DEADLOCK FALSE
