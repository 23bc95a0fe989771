----------------------------- MODULE ClientRoster -----------------------------
(***************************************************************************)
(* What the client list of the race server promises, whatever the threads  *)
(* behind it do: a set of at most Limit connections that grows and shrinks *)
(* by one connection at a time, and that no connection enters twice.       *)
(***************************************************************************)
EXTENDS Naturals, FiniteSets

CONSTANTS
  Conns,  \* the connections
  Limit   \* how many may be on the roster at once

VARIABLES
  present,   \* the connections on the roster
  departed   \* the connections that were on it

Init == present = {} /\ departed = {}

\* init_client registers a connection that was never registered before.
Enter(c) ==
  /\ c \notin present \cup departed
  /\ Cardinality(present) < Limit
  /\ present' = present \cup {c}
  /\ UNCHANGED departed

\* A handler that ends removes one connection for good.
Depart(c) ==
  /\ c \in present
  /\ present' = present \ {c}
  /\ departed' = departed \cup {c}

Next == \E c \in Conns : Enter(c) \/ Depart(c)

Spec == Init /\ [][Next]_<<present, departed>>
===============================================================================
