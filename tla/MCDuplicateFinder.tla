------------------------- MODULE MCDuplicateFinder -------------------------
(***************************************************************************)
(* A tree for TLC: a, b, zero, dir/copy, dir/sub/link -> dir, dir/pipe,    *)
(* dir/sock, dir/alias -> copy and locked/hidden.  copy has the name, size *)
(* and bytes of a and another date; "b" and its size hash like a.  link    *)
(* leads back to a directory above it, and sub may be left empty.          *)
(***************************************************************************)
EXTENDS DuplicateFinder, TLC

CONSTANTS a, b, zero, copy, dir, sub, link, alias, sock, pipe, locked, hidden

Tree == {a, b, zero, copy, dir, sub, link, alias, sock, pipe, locked, hidden}
Places == [f \in Tree |->
  CASE f \in {copy, sub, alias, pipe, sock} -> dir [] f = link -> sub
    [] f = hidden -> locked [] OTHER -> Root]
Ways == [f \in Tree |->
  CASE f \in {copy, sub, alias, pipe, sock} -> {dir} [] f = link -> {dir, sub}
    [] f = hidden -> {locked} [] OTHER -> {}]
Kinds == [f \in Tree |->
  CASE f \in {dir, sub, locked} -> "directory" [] f \in {link, alias} -> "link"
    [] f = sock -> "socket" [] f = pipe -> "fifo" [] f = zero -> "character"
    [] OTHER -> "regular"]
Targets == [f \in Tree |-> CASE f = link -> dir [] f = alias -> copy [] OTHER -> f]
Names == [f \in Tree |->
  CASE f \in {a, copy} -> <<97>> [] f = b -> <<98>> [] f = alias -> <<120>>
    [] OTHER -> <<108, 110>>]
Sizes == [f \in Tree |->
  CASE f \in {a, copy} -> 2 [] f = b -> 1 [] f = alias -> 4 [] OTHER -> 3]
Minutes == [f \in Tree |-> IF f = copy THEN <<49>> ELSE <<48>>]
\* A directory reads as an empty file.
Checksums == [f \in Tree |->
  CASE f \in {a, copy} -> <<7, 200>> [] f = b -> <<8, 3>> [] OTHER -> <<0, 0>>]
=============================================================================
