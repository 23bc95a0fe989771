---------------------------- MODULE RecordLists ----------------------------
(***************************************************************************)
(* What the lists of race_2 promise: one sequence of records per kind,     *)
(* appended at the end, taken from either end or by the first record with  *)
(* an ID, and an answer for every call that says what it did.              *)
(***************************************************************************)
EXTENDS Naturals, Sequences, SequencesExt

CONSTANTS RecordsOf(_), IdOf, Ids, Nobody
VARIABLES lists, answer

Kinds == {"client", "game", "track"}
Codes == {"RGOOD", "MFAIL", "HNULL", "NFND"}

Init == lists = [k \in Kinds |-> <<>>] /\ answer = "RGOOD"

\* The first place of a list whose record has the ID, none if there is none.
First(l, i) ==
  LET m == {n \in DOMAIN l : IdOf[l[n]] = i} IN {n \in m : \A o \in m : n <= o}

Becomes(k, l) == lists' = [lists EXCEPT ![k] = l]

Add(k) ==
  LET l == lists[k] IN
  \/ answer' = "RGOOD" /\ \E r \in RecordsOf(k) \ ToSet(l) : Becomes(k, Append(l, r))
  \/ answer' = "MFAIL" /\ UNCHANGED lists

\* Either end is taken, or the first record with an ID.
Take(k) ==
  LET l == lists[k] IN
  /\ answer' = "RGOOD" /\ l # <<>>
  /\ \E n \in {1, Len(l)} \cup UNION {First(l, i) : i \in Ids} : Becomes(k, RemoveAt(l, n))

Refuse(k) ==
  LET l == lists[k] IN
  /\ \/ answer' = "HNULL" /\ l = <<>>
     \/ answer' = "NFND" /\ l # <<>> /\ \E i \in Ids : First(l, i) = {}
  /\ UNCHANGED lists

Find(k) ==
  LET l == lists[k] IN
  /\ \/ answer' = Nobody /\ \E i \in Ids : First(l, i) = {}
     \/ answer' \notin Codes \cup {Nobody} /\ \E i \in Ids : \E n \in First(l, i) : answer' = l[n]
  /\ UNCHANGED lists

Reported == answer' = "RGOOD" /\ UNCHANGED lists

Next == Reported \/ \E k \in Kinds : Add(k) \/ Take(k) \/ Refuse(k) \/ Find(k)

Spec == Init /\ [][Next]_<<lists, answer>>
=============================================================================
