---------------------------- MODULE ConnectionLine ----------------------------
(***************************************************************************)
(* What myqueue.c promises the thread pool: a line of connections in which *)
(* each one stands once, at the end, and which is served from the front.   *)
(***************************************************************************)
EXTENDS Sequences

CONSTANT Conns   \* the connections

VARIABLES
  line,     \* the connections in line
  entered   \* the connections that ever entered it

Init == line = <<>> /\ entered = {}

\* enqueue.
Enter(c) ==
  /\ c \notin entered
  /\ entered' = entered \cup {c}
  /\ line' = Append(line, c)

\* dequeue.
TakeFirst ==
  /\ line # <<>>
  /\ line' = Tail(line)
  /\ UNCHANGED entered

Next == TakeFirst \/ \E c \in Conns : Enter(c)

Spec == Init /\ [][Next]_<<line, entered>>
===============================================================================
