--------------------------- MODULE MCLinkedLists ---------------------------
(* An instance of LinkedLists for TLC: two clients and two tracks share an ID. *)
EXTENDS LinkedLists, TLC

CONSTANTS c1, c2, c3, g1, g2, t1, t2

ThreeClients == {c1, c2, c3}
TwoGames == {g1, g2}
TwoTracks == {t1, t2}
SharedIds == c1 :> 1 @@ c2 :> 2 @@ c3 :> 1 @@ g1 :> 1 @@ g2 :> 2 @@ t1 :> 1 @@ t2 :> 1
Moves == Permutations(Addr)
=============================================================================
