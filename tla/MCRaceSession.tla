--------------------------- MODULE MCRaceSession ---------------------------
(* Instances of RaceSession for TLC. *)
EXTENDS RaceSession, TLC

Swaps == Permutations(Joiners)

\* A client's receive touches only its own end of its connection, so it
\* commutes with every step of a handler: with two joiners only the orders
\* are explored in which the handlers wait until it is done.  ControlC is
\* free to come before or after.
ClientsFirst ==
  server = "up" /\ (\E c \in Clients : toClient[c] # <<>>) => handlers' = handlers
=============================================================================
