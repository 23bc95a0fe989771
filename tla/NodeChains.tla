----------------------------- MODULE NodeChains -----------------------------
(***************************************************************************)
(* The linked lists of the C programs: a pointer to the first node and in  *)
(* every node a pointer to the next.                                       *)
(***************************************************************************)
EXTENDS Naturals, FiniteSets

\* Where a walk along the next pointers is after so many steps.
Walk(first, next, null, limit) ==
  LET at[n \in 0..limit] ==
        IF n = 0 THEN first
        ELSE LET p == at[n - 1] IN IF p = null THEN null ELSE next[p]
  IN  at

\* The nodes such a walk meets.
Chain(first, next, null, limit) ==
  LET at == Walk(first, next, null, limit)
  IN  [n \in 1..Cardinality({m \in 0..limit : at[m] # null}) |-> at[n - 1]]
=============================================================================
