------------------------------- MODULE ChatRoom -------------------------------
(***************************************************************************)
(* What a chat room promises: messages are posted one at a time, those of  *)
(* a speaker in the order of speaking, and whoever hears a message hears   *)
(* the latest one.  So no two listeners disagree about the order of two    *)
(* messages.  A message is a speaker and a number.                         *)
(***************************************************************************)
EXTENDS Naturals

CONSTANTS People, Nothing
VARIABLES
  said,   \* how many messages each has posted
  post,   \* the latest message
  heard   \* the last message each has heard

Init ==
  /\ said = [p \in People |-> 0] /\ post = Nothing
  /\ heard = [p \in People |-> Nothing]

Post(p) ==
  /\ said' = [said EXCEPT ![p] = @ + 1]
  /\ post' = <<p, said'[p]>>
  /\ UNCHANGED heard

Hear(p) ==
  /\ \E q \in People : post = <<q, said[q]>>
  /\ heard' = [heard EXCEPT ![p] = post]
  /\ UNCHANGED <<said, post>>

Next == \E p \in People : Post(p) \/ Hear(p)

Spec == Init /\ [][Next]_<<said, post, heard>>
===============================================================================
