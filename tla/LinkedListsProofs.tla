-------------------------- MODULE LinkedListsProofs --------------------------
(***************************************************************************)
(* Proofs about LinkedLists for any number of nodes and records: the       *)
(* pointers of the heap spell out three sequences, whatever is pushed,     *)
(* removed and searched for.                                               *)
(***************************************************************************)
EXTENDS LinkedLists, SequenceLemmas

\* The three lists of nodes.
Paths == [k \in Kinds |-> Path(k)]

\* The heap consists of these three lists: each chained from its head, without a
\* common node or record, with all the nodes that are allocated.
Shape(P) ==
  /\ P \in [Kinds -> Seq(Addr)]
  /\ \A k \in Kinds : \A i, j \in DOMAIN P[k] : P[k][i] = P[k][j] => i = j
  /\ \A k \in Kinds : IsChain(head[k], next, NULL, P[k])
  /\ \A k, l \in Kinds : k # l => ToSet(P[k]) \cap ToSet(P[l]) = {}
  /\ used = UNION {ToSet(P[k]) : k \in Kinds}
  /\ \A k \in Kinds : \A n \in ToSet(P[k]) : held[n] \in live \cap RecordsOf(k)
  /\ \A m, n \in used : held[m] = held[n] => m = n

ShapeInv == Shape(Paths)

\* What is allocated: the fields of clients and games come and go with the record;
\* a track lacks fields only after another has left its own behind.
MemoryInv ==
  /\ \A k \in {"client", "game"} : \A r \in RecordsOf(k) :
       IF r \in live THEN fields[r] = Inner(k) ELSE fields[r] \subseteq Inner(k) \ FreedInner(k)
  /\ \A t \in Tracks : fields[t] \subseteq Inner("track")
  /\ \A t \in Tracks : t \in live /\ fields[t] # Inner("track") => TrackLost
  /\ open \subseteq Clients \ Unconnected

\* Why the program has crashed.
CrashInv == crashed => Len(Listed("game")) > 1 \/ TrackLost \/ Len(Listed("track")) = 1

ListsInv == TypeOK /\ ShapeInv /\ MemoryInv /\ CrashInv

-----------------------------------------------------------------------------
(* The lists of a heap in shape. *)

LEMMA RecordsAreOfOneKind ==
  /\ \A k \in Kinds : RecordsOf(k) \subseteq Records
  /\ \A k, l \in Kinds : k # l => RecordsOf(k) \cap RecordsOf(l) = {}
  /\ RecordsOf("client") = Clients /\ RecordsOf("game") = Games /\ RecordsOf("track") = Tracks
BY ListAssumption DEF ListAssumption, RecordsOf, Records, Kinds

\* The walk from the heads finds the lists, before a step and after it.
LEMMA PathsAre ==
  ASSUME NEW P, Shape(P)
  PROVE  Paths = P /\ \A k \in Kinds : Path(k) = P[k] /\ Listed(k) = Contents(held, P[k])
<1>1. ASSUME NEW k \in Kinds PROVE Path(k) = P[k]
  <2>1. P[k] \in Seq(Addr) /\ IsFiniteSet(Addr) /\ NULL \notin Addr
    BY ListAssumption DEF Shape, ListAssumption
  <2>. QED  BY <2>1, ChainIsList DEF Shape, IsChain, Path
<1>2. Paths = P
  BY <1>1 DEF Paths, Shape
<1>. QED  BY <1>1, <1>2 DEF Listed, Contents

LEMMA PathsAreAfter ==
  ASSUME NEW P, Shape(P)'
  PROVE  Paths' = P /\ \A k \in Kinds : Path(k)' = P[k] /\ Listed(k)' = Contents(held', P[k])
<1>1. ASSUME NEW k \in Kinds PROVE Path(k)' = P[k]
  <2>1. P[k] \in Seq(Addr) /\ IsFiniteSet(Addr) /\ NULL \notin Addr
    BY ListAssumption DEF Shape, ListAssumption
  <2>. QED  BY <2>1, ChainIsList DEF Shape, IsChain, Path
<1>2. Paths' = P
  BY <1>1 DEF Paths, Shape
<1>. QED  BY <1>1, <1>2 DEF Listed, Contents

LEMMA ListedFacts ==
  ASSUME ShapeInv, NEW k \in Kinds
  PROVE  /\ Path(k) \in Seq(Addr) /\ DOMAIN Path(k) = 1..Len(Path(k)) /\ Len(Path(k)) \in Nat
         /\ \A m, n \in DOMAIN Path(k) : Path(k)[m] = Path(k)[n] => m = n
         /\ \A n \in DOMAIN Path(k) :
              /\ Path(k)[n] \in used /\ Listed(k)[n] = held[Path(k)[n]]
              /\ Listed(k)[n] \in live \cap RecordsOf(k)
         /\ Listed(k) \in Seq(RecordsOf(k)) /\ Len(Listed(k)) = Len(Path(k))
         /\ DOMAIN Listed(k) = DOMAIN Path(k)
         /\ \A m, n \in DOMAIN Path(k) : Listed(k)[m] = Listed(k)[n] => m = n
         /\ head[k] = NULL <=> Path(k) = <<>>
         /\ Path(k) # <<>> => head[k] = Path(k)[1] /\ 1 \in DOMAIN Path(k)
<1>. DEFINE p == Path(k)
<1>1. /\ p \in Seq(Addr) /\ \A i, j \in DOMAIN p : p[i] = p[j] => i = j
      /\ IsChain(head[k], next, NULL, p) /\ ToSet(p) \subseteq used
      /\ \A n \in ToSet(p) : held[n] \in live \cap RecordsOf(k)
      /\ \A m, n \in used : held[m] = held[n] => m = n
      /\ Listed(k) = Contents(held, p)
  <2>. PICK P : P = Paths
    OBVIOUS
  <2>1. Shape(P) /\ P[k] = p
    BY DEF ShapeInv, Paths
  <2>2. Listed(k) = Contents(held, p)
    BY <2>1, PathsAre
  <2>3. P[k] \in Seq(Addr) /\ ToSet(P[k]) \subseteq used
    BY <2>1 DEF Shape
  <2>. QED  BY <2>1, <2>2, <2>3 DEF Shape
<1>. HIDE DEF p
<1>2. /\ Len(p) \in Nat /\ DOMAIN p = 1..Len(p) /\ (p = <<>> <=> Len(p) = 0)
      /\ \A n \in DOMAIN p : p[n] \in Addr /\ p[n] \in ToSet(p)
  BY <1>1, LenProperties, EmptySeq, ElementOfSeq DEF ToSet
<1>3. /\ Listed(k) \in Seq(RecordsOf(k)) /\ Len(Listed(k)) = Len(p)
      /\ DOMAIN Listed(k) = DOMAIN p /\ \A n \in DOMAIN p : Listed(k)[n] = held[p[n]]
  BY <1>1, ContentsElements DEF Contents
<1>4. head[k] = IF p = <<>> THEN NULL ELSE p[1]
  BY <1>1 DEF IsChain
<1>5. p # <<>> => 1 \in DOMAIN p /\ p[1] # NULL
  BY <1>2, ListAssumption DEF ListAssumption
<1>6. \A m, n \in DOMAIN p : Listed(k)[m] = Listed(k)[n] => m = n
  BY <1>1, <1>2, <1>3
<1>. QED  BY <1>1, <1>2, <1>3, <1>4, <1>5, <1>6 DEF p

\* The nodes of the three lists together.
LEMMA ElementsOfAll ==
  ASSUME NEW P, Shape(P), NEW all, all = P["client"] \o P["game"] \o P["track"]
  PROVE  /\ \A m, n \in DOMAIN all : m # n => all[m] # all[n]
         /\ ToSet(all) = used
<1>1. "client" \in Kinds /\ "game" \in Kinds /\ "track" \in Kinds
  BY DEF Kinds
<1>2. PICK c, g, t : c = P["client"] /\ g = P["game"] /\ t = P["track"]
  OBVIOUS
<1>3. /\ c \in Seq(Addr) /\ g \in Seq(Addr) /\ t \in Seq(Addr)
      /\ \A i, j \in DOMAIN c : c[i] = c[j] => i = j
      /\ \A i, j \in DOMAIN g : g[i] = g[j] => i = j
      /\ \A i, j \in DOMAIN t : t[i] = t[j] => i = j
      /\ ToSet(c) \cap ToSet(g) = {} /\ ToSet(c) \cap ToSet(t) = {} /\ ToSet(g) \cap ToSet(t) = {}
  BY <1>1, <1>2 DEF Shape
<1>4. /\ c \o g \in Seq(Addr) /\ ToSet(c \o g) = ToSet(c) \cup ToSet(g)
      /\ \A i, j \in DOMAIN (c \o g) : (c \o g)[i] = (c \o g)[j] => i = j
  BY <1>3, JoinedElements
<1>5. PICK b : b = c \o g
  OBVIOUS
<1>6. /\ ToSet(b \o t) = ToSet(b) \cup ToSet(t)
      /\ \A i, j \in DOMAIN (b \o t) : (b \o t)[i] = (b \o t)[j] => i = j
  <2>1. b \in Seq(Addr) /\ ToSet(b) \cap ToSet(t) = {}
        /\ \A i, j \in DOMAIN b : b[i] = b[j] => i = j
    BY <1>3, <1>4, <1>5
  <2>. QED  BY <1>3, <2>1, JoinedElements
<1>7. all = b \o t
  BY <1>2, <1>5
<1>8. used = ToSet(c) \cup ToSet(g) \cup ToSet(t)
  BY <1>2 DEF Shape, Kinds
<1>. QED  BY <1>4, <1>5, <1>6, <1>7, <1>8

-----------------------------------------------------------------------------
(* Nodes come and go. *)

\* push_client and its kin: the new node ends up behind the last one.
LEMMA LinkShape ==
  ASSUME NEW P, Shape(P), TypeOK, NEW k \in Kinds, NEW r \in RecordsOf(k) \ live,
         NEW n \in Addr \ used, Link(k, n), held' = [held EXCEPT ![n] = r],
         used' = used \cup {n}, live' = live \cup {r}
  PROVE  Shape([P EXCEPT ![k] = Append(P[k], n)])'
<1>. DEFINE Q == [P EXCEPT ![k] = Append(P[k], n)]
<1>1. /\ P \in [Kinds -> Seq(Addr)] /\ P[k] \in Seq(Addr)
      /\ \A i, j \in DOMAIN P[k] : P[k][i] = P[k][j] => i = j
      /\ \A l \in Kinds : ToSet(P[l]) \subseteq used /\ n \notin ToSet(P[l])
      /\ \A l \in Kinds : IsChain(head[l], next, NULL, P[l])
  BY DEF Shape
<1>2. /\ Append(P[k], n) \in Seq(Addr) /\ ToSet(Append(P[k], n)) = ToSet(P[k]) \cup {n}
      /\ \A i, j \in DOMAIN Append(P[k], n) :
           Append(P[k], n)[i] = Append(P[k], n)[j] => i = j
  BY <1>1, AppendElements
<1>3. /\ Q \in [Kinds -> Seq(Addr)] /\ Q[k] = Append(P[k], n)
      /\ \A l \in Kinds \ {k} : Q[l] = P[l]
  BY <1>1, <1>2
<1>. HIDE DEF Q
<1>4. head[k] = NULL <=> P[k] = <<>>
  <2>1. P[k] # <<>> => P[k][1] \in Addr
    BY <1>1, LenProperties, EmptySeq, ElementOfSeq
  <2>. QED  BY <1>1, <2>1, ListAssumption DEF IsChain, ListAssumption
<1>5. NULL \notin Addr /\ next \in [Addr -> Addr \cup {NULL}] /\ head \in [Kinds -> Addr \cup {NULL}]
  BY ListAssumption DEF ListAssumption, TypeOK
<1>6. ASSUME P[k] = <<>>
      PROVE  \A l \in Kinds : IsChain(head'[l], next', NULL, Q[l])
  <2>1. /\ head' = [head EXCEPT ![k] = n] /\ next' = [next EXCEPT ![n] = NULL]
    BY <1>4, <1>6 DEF Link
  <2>2. Append(P[k], n) = <<n>>
    BY <1>6
  <2>3. IsChain(head'[k], next', NULL, Q[k])
    BY <1>3, <1>5, <2>1, <2>2 DEF IsChain
  <2>4. ASSUME NEW l \in Kinds \ {k} PROVE IsChain(head'[l], next', NULL, Q[l])
    <3>1. head'[l] = head[l] /\ \A x \in ToSet(P[l]) : next'[x] = next[x]
      BY <1>1, <1>5, <2>1
    <3>2. IsChain(head[l], next', NULL, P[l])
      BY <1>1, <3>1, ChainKept, Zenon
    <3>. QED  BY <1>3, <3>1, <3>2
  <2>. QED  BY <2>3, <2>4
<1>7. ASSUME P[k] # <<>>
      PROVE  \A l \in Kinds : IsChain(head'[l], next', NULL, Q[l])
  <2>1. /\ head' = head /\ next' = [next EXCEPT ![n] = NULL, ![Last(P[k])] = n]
    BY <1>4, <1>7, PathsAre DEF Link
  <2>2. Last(P[k]) \in ToSet(P[k])
    <3>1. Len(P[k]) \in DOMAIN P[k]
      BY <1>1, <1>7, LenProperties, EmptySeq
    <3>. QED  BY <3>1 DEF Last, ToSet
  <2>3. IsChain(head'[k], next', NULL, Q[k])
    <3>1. n \in Addr /\ n \notin ToSet(P[k])
      BY <1>1
    <3>2. IsChain(head[k], next', NULL, Append(P[k], n))
      BY <1>1, <1>5, <1>7, <2>1, <3>1, ChainPush, Zenon
    <3>. QED  BY <1>3, <2>1, <3>2
  <2>4. ASSUME NEW l \in Kinds \ {k} PROVE IsChain(head'[l], next', NULL, Q[l])
    <3>1. ToSet(P[l]) \cap ToSet(P[k]) = {} /\ ToSet(P[l]) \subseteq Addr
      BY <1>1 DEF Shape, TypeOK
    <3>2. \A x \in ToSet(P[l]) : next'[x] = next[x]
      BY <1>1, <1>5, <2>1, <2>2, <3>1
    <3>3. IsChain(head[l], next', NULL, P[l])
      BY <1>1, <3>2, ChainKept, Zenon
    <3>. QED  BY <1>3, <2>1, <3>3
  <2>. QED  BY <2>3, <2>4
<1>8. \A l \in Kinds : IsChain(head'[l], next', NULL, Q[l])
  BY <1>6, <1>7, Zenon
<1>9. \A l \in Kinds : ToSet(Q[l]) = IF l = k THEN ToSet(P[k]) \cup {n} ELSE ToSet(P[l])
  BY <1>2, <1>3
<1>10. \A l, m \in Kinds : l # m => ToSet(Q[l]) \cap ToSet(Q[m]) = {}
  BY <1>1, <1>9 DEF Shape
<1>11. used' = UNION {ToSet(Q[l]) : l \in Kinds}
  <2>1. used = UNION {ToSet(P[l]) : l \in Kinds}
    BY DEF Shape
  <2>2. \A x : x \in used' <=> x \in used \/ x = n
    OBVIOUS
  <2>3. \A x : x \in used <=> \E l \in Kinds : x \in ToSet(P[l])
    BY <2>1
  <2>4. \A x : x \in used' <=> \E l \in Kinds : x \in ToSet(Q[l])
    BY <1>9, <2>2, <2>3, Zenon
  <2>. QED  BY <2>4, Zenon
<1>12. \A x \in used : held'[x] = held[x] /\ held[x] \in live
  BY DEF Shape, TypeOK
<1>13. held'[n] = r
  BY DEF TypeOK
<1>14. \A l \in Kinds : \A x \in ToSet(Q[l]) : held'[x] \in live' \cap RecordsOf(l)
  <2>. SUFFICES ASSUME NEW l \in Kinds, NEW x \in ToSet(Q[l])
                PROVE  held'[x] \in live' \cap RecordsOf(l)
    OBVIOUS
  <2>1. CASE x \in ToSet(P[l])
    BY <1>1, <1>12, <2>1 DEF Shape
  <2>2. CASE x = n /\ l = k
    BY <1>13, <2>2
  <2>. QED  BY <1>9, <2>1, <2>2
<1>15. \A x, y \in used' : held'[x] = held'[y] => x = y
  <2>1. \A x, y \in used : held[x] = held[y] => x = y
    BY DEF Shape
  <2>. QED  BY <1>12, <1>13, <2>1
<1>16. \A l \in Kinds : \A i, j \in DOMAIN Q[l] : Q[l][i] = Q[l][j] => i = j
  BY <1>2, <1>3 DEF Shape
<1>17. Shape(Q)'
  BY <1>3, <1>8, <1>10, <1>11, <1>14, <1>15, <1>16 DEF Shape
<1>. QED  BY <1>17 DEF Q

\* pop_client, remove_last_client, remove_by_client_id and their kin: the n-th node
\* is unlinked and freed.
LEMMA UnlinkShape ==
  ASSUME NEW P, Shape(P), TypeOK, NEW k \in Kinds, NEW n \in DOMAIN P[k], Unlink(k, n),
         held' = [held EXCEPT ![P[k][n]] = NULL], used' = used \ {P[k][n]},
         live' = live \ {held[P[k][n]]}
  PROVE  Shape([P EXCEPT ![k] = RemoveAt(P[k], n)])'
<1>. DEFINE Q == [P EXCEPT ![k] = RemoveAt(P[k], n)]
            a == P[k][n]
<1>1. /\ P \in [Kinds -> Seq(Addr)] /\ P[k] \in Seq(Addr)
      /\ \A i, j \in DOMAIN P[k] : P[k][i] = P[k][j] => i = j
      /\ \A l \in Kinds : ToSet(P[l]) \subseteq used /\ ToSet(P[l]) \subseteq Addr
      /\ \A l \in Kinds : IsChain(head[l], next, NULL, P[l])
  BY DEF Shape, TypeOK
<1>2. /\ Len(P[k]) \in Nat /\ DOMAIN P[k] = 1..Len(P[k]) /\ n \in 1..Len(P[k]) /\ P[k] # <<>>
      /\ \A i \in 1..Len(P[k]) : P[k][i] \in ToSet(P[k]) /\ P[k][i] \in Addr
  <2>1. DOMAIN P[k] = 1..Len(P[k]) /\ Len(P[k]) \in Nat
    BY <1>1, LenProperties
  <2>2. P[k] # <<>>
    BY <2>1, EmptySeq
  <2>3. \A i \in 1..Len(P[k]) : P[k][i] \in ToSet(P[k])
    BY <2>1 DEF ToSet
  <2>. QED  BY <1>1, <2>1, <2>2, <2>3
<1>3. /\ RemoveAt(P[k], n) \in Seq(Addr) /\ ToSet(RemoveAt(P[k], n)) = ToSet(P[k]) \ {a}
      /\ \A i, j \in DOMAIN RemoveAt(P[k], n) :
           RemoveAt(P[k], n)[i] = RemoveAt(P[k], n)[j] => i = j
  BY <1>1, <1>2, RemoveAtElements
<1>4. /\ Q \in [Kinds -> Seq(Addr)] /\ Q[k] = RemoveAt(P[k], n)
      /\ \A l \in Kinds \ {k} : Q[l] = P[l]
  BY <1>1, <1>3
<1>. HIDE DEF Q
<1>5. NULL \notin Addr /\ next \in [Addr -> Addr \cup {NULL}] /\ head \in [Kinds -> Addr \cup {NULL}]
  BY ListAssumption DEF ListAssumption, TypeOK
<1>6. /\ Path(k) = P[k] /\ a \in ToSet(P[k])
      /\ \A l \in Kinds \ {k} : ToSet(P[l]) \cap ToSet(P[k]) = {}
  BY <1>2, PathsAre DEF Shape
<1>7. ASSUME n = 1
      PROVE  \A l \in Kinds : IsChain(head'[l], next', NULL, Q[l])
  <2>1. head' = [head EXCEPT ![k] = next[P[k][1]]] /\ next' = [next EXCEPT ![P[k][1]] = NULL]
    BY <1>6, <1>7 DEF Unlink
  <2>2. IsChain(head'[k], next', NULL, Q[k])
    <3>1. IsChain(next[P[k][1]], next', NULL, RemoveAt(P[k], 1))
      BY <1>1, <1>2, <1>5, <2>1, ChainShift, Zenon
    <3>. QED  BY <1>4, <1>5, <1>7, <2>1, <3>1
  <2>3. ASSUME NEW l \in Kinds \ {k} PROVE IsChain(head'[l], next', NULL, Q[l])
    <3>1. head'[l] = head[l] /\ \A x \in ToSet(P[l]) : next'[x] = next[x]
      BY <1>1, <1>2, <1>5, <1>6, <2>1
    <3>2. IsChain(head[l], next', NULL, P[l])
      BY <1>1, <3>1, ChainKept, Zenon
    <3>. QED  BY <1>4, <3>1, <3>2
  <2>. QED  BY <2>2, <2>3
<1>8. ASSUME n # 1
      PROVE  \A l \in Kinds : IsChain(head'[l], next', NULL, Q[l])
  <2>1. n \in 2..Len(P[k]) /\ n - 1 \in 1..Len(P[k])
    BY <1>2, <1>8
  <2>2. /\ head' = head
        /\ next' = [next EXCEPT ![P[k][n - 1]] = next[P[k][n]], ![P[k][n]] = NULL]
    BY <1>6, <1>8 DEF Unlink
  <2>3. IsChain(head'[k], next', NULL, Q[k])
    <3>1. IsChain(head[k], next', NULL, RemoveAt(P[k], n))
      BY <1>1, <1>5, <2>1, <2>2, ChainUnlink, Zenon
    <3>. QED  BY <1>4, <2>2, <3>1
  <2>4. ASSUME NEW l \in Kinds \ {k} PROVE IsChain(head'[l], next', NULL, Q[l])
    <3>1. P[k][n - 1] \in ToSet(P[k]) /\ P[k][n] \in ToSet(P[k])
      BY <1>2, <2>1
    <3>2. \A x \in ToSet(P[l]) : next'[x] = next[x]
      BY <1>1, <1>5, <1>6, <2>2, <3>1
    <3>3. IsChain(head[l], next', NULL, P[l])
      BY <1>1, <3>2, ChainKept, Zenon
    <3>. QED  BY <1>4, <2>2, <3>3
  <2>. QED  BY <2>3, <2>4
<1>9. \A l \in Kinds : IsChain(head'[l], next', NULL, Q[l])
  BY <1>7, <1>8, Zenon
<1>10. \A l \in Kinds : ToSet(Q[l]) = IF l = k THEN ToSet(P[k]) \ {a} ELSE ToSet(P[l])
  BY <1>3, <1>4
<1>11. \A l, m \in Kinds : l # m => ToSet(Q[l]) \cap ToSet(Q[m]) = {}
  BY <1>10 DEF Shape
<1>12. used' = UNION {ToSet(Q[l]) : l \in Kinds}
  <2>1. used = UNION {ToSet(P[l]) : l \in Kinds}
    BY DEF Shape
  <2>2. \A x : x \in used' <=> x \in used /\ x # a
    OBVIOUS
  <2>3. \A x : x \in used <=> \E l \in Kinds : x \in ToSet(P[l])
    BY <2>1
  <2>4. \A l \in Kinds \ {k} : a \notin ToSet(P[l])
    BY <1>6
  <2>5. \A x : x \in used' <=> \E l \in Kinds : x \in ToSet(Q[l])
    BY <1>10, <2>2, <2>3, <2>4
  <2>. QED  BY <2>5, Zenon
<1>13. \A x \in used \ {a} : held'[x] = held[x] /\ held[x] # held[a]
  <2>1. a \in used /\ \A x, y \in used : held[x] = held[y] => x = y
    BY <1>1, <1>6 DEF Shape
  <2>. HIDE DEF a
  <2>2. held' = [held EXCEPT ![a] = NULL]
    BY DEF a
  <2>. QED  BY <2>1, <2>2 DEF TypeOK
<1>14. \A l \in Kinds : \A x \in ToSet(Q[l]) : x \in ToSet(P[l]) /\ x \in used \ {a}
  BY <1>1, <1>6, <1>10
<1>15. \A l \in Kinds : \A x \in ToSet(Q[l]) : held'[x] \in live' \cap RecordsOf(l)
  BY <1>13, <1>14 DEF Shape
<1>16. \A x, y \in used' : held'[x] = held'[y] => x = y
  BY <1>13 DEF Shape
<1>17. \A l \in Kinds : \A i, j \in DOMAIN Q[l] : Q[l][i] = Q[l][j] => i = j
  BY <1>3, <1>4 DEF Shape
<1>18. Shape(Q)'
  BY <1>4, <1>9, <1>11, <1>12, <1>15, <1>16, <1>17 DEF Shape
<1>. QED  BY <1>18 DEF Q

-----------------------------------------------------------------------------
(* What a step is. *)

Same         == \A l \in Kinds : Listed(l)' = Listed(l)
Grown(k, r)  == \A l \in Kinds : Listed(l)' = IF l = k THEN Append(Listed(k), r) ELSE Listed(l)
Shrunk(k, n) == \A l \in Kinds : Listed(l)' = IF l = k THEN RemoveAt(Listed(k), n) ELSE Listed(l)

\* The places a removal may take: the ends, and the first record with an ID.
Removable(k) == {1, Len(Listed(k))} \cup UNION {Lists!First(Listed(k), i) : i \in Ids}

\* The n-th node is freed with its record r, and the fields of s, which is r or
\* another listed track.
Removed(k, n) ==
  LET r == Listed(k)[n] IN
  /\ Unlink(k, n) /\ held' = [held EXCEPT ![Path(k)[n]] = NULL]
  /\ used' = used \ {Path(k)[n]} /\ live' = live \ {r}
  /\ Has(r, NameField(k)) /\ n \in Removable(k)
  /\ \E s \in live \cap RecordsOf(k) :
       /\ s = r \/ k = "track"
       /\ fields' = [fields EXCEPT ![s] = @ \ FreedInner(k)]
  /\ \/ open' = open \ {r}
     \/ open' = open /\ (r \in Unconnected \/ Listed(k)[1] \in Unconnected)
  /\ answer' = "RGOOD" /\ ~crashed /\ UNCHANGED <<sweeping, crashed>>

\* A field that is not there is read, the successor of the only track is, or
\* get_game_ids writes behind its array.
CrashReason ==
  \/ \E k \in Kinds : \E n \in DOMAIN Listed(k) :
       ~Has(Listed(k)[n], NameField(k)) \/ ~Has(Listed(k)[n], IdField(k))
  \/ Len(Listed("track")) = 1
  \/ StrayWrites

\* An answer that takes nothing and adds nothing.
Reply ==
  \/ answer' \in {answer, "RGOOD"}
  \/ \E k \in Kinds :
       \/ head[k] = NULL /\ answer' = "HNULL"
       \/ head[k] # NULL /\ answer' = "NFND" /\ \E i \in Ids : NoMatch(k, i)
       \/ answer' = NULL /\ \E i \in Ids : NoMatch(k, i)
       \/ \E i \in Ids : \E n \in DOMAIN Path(k) : FirstMatch(k, i, n) /\ answer' = Listed(k)[n]

Rested ==
  /\ UNCHANGED <<heap, memory>> /\ Reply
  /\ sweeping' \in Kinds \cup {NULL} /\ crashed' \in BOOLEAN
  /\ crashed' => crashed \/ CrashReason

\* A search finds the first record with the ID.
LEMMA FirstIsFirst ==
  ASSUME NEW k \in Kinds, NEW i \in Ids, NEW n, FirstMatch(k, i, n)
  PROVE  n \in Lists!First(Listed(k), i) /\ n \in DOMAIN Listed(k)
BY DEF FirstMatch, Matches, Lists!First

\* A removal from the front.
LEMMA PopFirstRemoves ==
  ASSUME ShapeInv, NEW k \in Kinds, PopFirst(k), ~crashed, Return("RGOOD")
  PROVE  1 \in DOMAIN Path(k) /\ Removed(k, 1)
<1>1. 1 \in DOMAIN Path(k) /\ Listed(k)[1] = held[Path(k)[1]] /\ Listed(k)[1] \in live \cap RecordsOf(k)
  BY ListedFacts DEF PopFirst
<1>2. 1 \in Removable(k)
  BY DEF Removable
<1>. QED  BY <1>1, <1>2 DEF PopFirst, Free, Removed, Return, Own

LEMMA SearchReason ==
  ASSUME NEW k \in Kinds, NEW i, SearchCrashes(k, i)
  PROVE  CrashReason
BY DEF SearchCrashes, CrashReason

LEMMA LogReason ==
  ASSUME NEW k \in Kinds, NEW n, LogCrashes(k, n)
  PROVE  CrashReason
BY DEF LogCrashes, CrashReason

LEMMA CrashRests ==
  ASSUME TypeOK, Crash, CrashReason
  PROVE  Rested
BY DEF Crash, Rested, Reply, TypeOK

LEMMA RemoveLastIs ==
  ASSUME TypeOK, ShapeInv, NEW k \in Kinds, RemoveLast(k)
  PROVE  Rested \/ \E n \in DOMAIN Path(k) : Removed(k, n)
<1>. DEFINE n == Len(Path(k))
<1>1. CASE n > 0 /\ Free(k, n, Listed(k)[n], n = 1 \/ Heads(k)) /\ Return("RGOOD")
  <2>1. n \in DOMAIN Path(k)
    BY <1>1, ListedFacts
  <2>2. Listed(k)[n] = held[Path(k)[n]] /\ Listed(k)[n] \in live \cap RecordsOf(k) /\ n = Len(Listed(k))
    BY <2>1, ListedFacts
  <2>3. n \in Removable(k)
    BY <2>2 DEF Removable
  <2>. HIDE DEF n
  <2>4. ~crashed
    BY DEF RemoveLast, Running
  <2>5. Removed(k, n)
    BY <1>1, <2>2, <2>3, <2>4 DEF Free, Removed, Return, Heads, Own
  <2>. QED  BY <2>1, <2>5
<1>2. CASE n = 0 /\ UNCHANGED <<heap, memory>> /\ Return("HNULL")
  <2>1. head[k] = NULL
    BY <1>2, ListedFacts, EmptySeq
  <2>. QED  BY <1>2, <2>1 DEF Rested, Reply, Return, TypeOK
<1>3. CASE LogCrashes(k, n) /\ Crash
  BY <1>3, LogReason, CrashRests
<1>. QED  BY <1>1, <1>2, <1>3 DEF RemoveLast

LEMMA RemoveByIdIs ==
  ASSUME TypeOK, ShapeInv, NEW k \in Kinds, NEW i \in Ids, RemoveById(k, i)
  PROVE  Rested \/ \E n \in DOMAIN Path(k) : Removed(k, n)
<1>1. ASSUME NEW n \in DOMAIN Path(k), FirstMatch(k, i, n),
             InnerOf(k, n) \in DOMAIN Listed(k),
             Free(k, n, Listed(k)[InnerOf(k, n)], IF n = 1 THEN Own(k, 1) ELSE Heads(k)),
             Return("RGOOD")
      PROVE  Removed(k, n)
  <2>1. Listed(k)[n] = held[Path(k)[n]] /\ DOMAIN Listed(k) = DOMAIN Path(k)
    BY ListedFacts
  <2>2. n \in Removable(k)
    BY <1>1, FirstIsFirst DEF Removable
  <2>3. /\ Listed(k)[InnerOf(k, n)] \in live \cap RecordsOf(k)
        /\ InnerOf(k, n) = n \/ k = "track"
    BY <1>1, <2>1, ListedFacts DEF InnerOf
  <2>4. ~crashed
    BY DEF RemoveById, Running
  <2>. HIDE DEF InnerOf
  <2>. DEFINE s == Listed(k)[InnerOf(k, n)]
  <2>5. s \in live \cap RecordsOf(k) /\ (s = Listed(k)[n] \/ k = "track")
    BY <2>3
  <2>6. Free(k, n, s, IF n = 1 THEN Own(k, 1) ELSE Heads(k))
    BY <1>1
  <2>. HIDE DEF s
  <2>. QED  BY <1>1, <2>1, <2>2, <2>4, <2>5, <2>6 DEF Free, Removed, Return, Heads, Own
<1>2. ASSUME NEW n \in DOMAIN Path(k), FirstMatch(k, i, n),
             InnerOf(k, n) \notin DOMAIN Listed(k), Crash
      PROVE  Rested
  <2>1. DOMAIN Listed(k) = 1..Len(Listed(k)) /\ n \in DOMAIN Listed(k) /\ Len(Listed(k)) \in Nat
    BY ListedFacts
  <2>2. k = "track" /\ Len(Listed(k)) = 1
    BY <1>2, <2>1 DEF InnerOf
  <2>. QED  BY <1>2, <2>2, CrashRests DEF CrashReason
<1>3. CASE head[k] = NULL /\ UNCHANGED <<heap, memory>> /\ Return("HNULL")
  BY <1>3 DEF Rested, Reply, Return, TypeOK
<1>4. CASE head[k] # NULL /\ NoMatch(k, i) /\ UNCHANGED <<heap, memory>> /\ Return("NFND")
  BY <1>4 DEF Rested, Reply, Return, TypeOK
<1>5. CASE SearchCrashes(k, i) /\ Crash
  BY <1>5, SearchReason, CrashRests
<1>. QED  BY <1>1, <1>2, <1>3, <1>4, <1>5 DEF RemoveById

LEMMA GetByIdRests ==
  ASSUME TypeOK, NEW k \in Kinds, NEW i \in Ids, GetById(k, i)
  PROVE  Rested
<1>1. CASE \E n \in DOMAIN Path(k) : FirstMatch(k, i, n) /\ Return(Listed(k)[n])
  BY <1>1 DEF GetById, Rested, Reply, Return, TypeOK
<1>2. CASE NoMatch(k, i) /\ Return(NULL)
  BY <1>2 DEF GetById, Rested, Reply, Return, TypeOK
<1>3. CASE SearchCrashes(k, i) /\ crashed' = TRUE /\ UNCHANGED <<answer, sweeping>>
  BY <1>3, SearchReason DEF GetById, Rested, Reply, TypeOK
<1>. QED  BY <1>1, <1>2, <1>3 DEF GetById

LEMMA StepIs ==
  ASSUME TypeOK, ShapeInv, [Next]_vars
  PROVE  \/ \E k \in Kinds : \E r \in RecordsOf(k) : Push(k, r)
         \/ \E k \in Kinds : \E n \in DOMAIN Path(k) : Removed(k, n)
         \/ Rested
<1>1. CASE GetGameIds
  BY <1>1 DEF GetGameIds, Rested, Reply, CrashReason, TypeOK
<1>2. ASSUME NEW k \in Kinds, sweeping = k, ~crashed, PopFirst(k) /\ Return("RGOOD")
      PROVE  \E n \in DOMAIN Path(k) : Removed(k, n)
  BY <1>2, PopFirstRemoves
<1>3. ASSUME NEW k \in Kinds, Swept(k), sweeping' = NULL, answer' = "HNULL",
             UNCHANGED <<heap, memory, crashed>>
      PROVE  Rested
  BY <1>3 DEF Swept, Rested, Reply, TypeOK
<1>4. ASSUME NEW k \in Kinds, LogCrashes(k, 1), Crash
      PROVE  Rested
  BY <1>4, LogReason, CrashRests
<1>5. CASE Sweep
  BY <1>2, <1>3, <1>4, <1>5 DEF Sweep
<1>6. ASSUME NEW k \in Kinds, Pop(k)
      PROVE  Rested \/ \E n \in DOMAIN Path(k) : Removed(k, n)
  <2>1. CASE PopFirst(k) /\ Return("RGOOD")
    BY <1>6, <2>1, PopFirstRemoves DEF Pop, Running
  <2>2. CASE head[k] = NULL /\ UNCHANGED <<heap, memory>> /\ Return("HNULL")
    BY <2>2 DEF Rested, Reply, Return, TypeOK
  <2>. QED  BY <1>4, <1>6, <2>1, <2>2 DEF Pop
<1>7. ASSUME NEW k \in Kinds, RemoveAll(k)
      PROVE  Rested
  BY <1>7 DEF RemoveAll, Rested, Reply, TypeOK
<1>8. CASE UNCHANGED vars
  BY <1>8 DEF vars, Rested, Reply, TypeOK
<1>. QED
  BY <1>1, <1>5, <1>6, <1>7, <1>8, RemoveLastIs, RemoveByIdIs, GetByIdRests, Zenon DEF Next

-----------------------------------------------------------------------------
(* The pointers spell out the lists. *)

LEMMA RestedKeeps ==
  ASSUME ShapeInv, UNCHANGED <<heap, memory>>
  PROVE  ShapeInv' /\ Same
<1>1. \A k \in Kinds : Path(k)' = Path(k) /\ Listed(k)' = Listed(k)
  BY DEF heap, Path, Listed
<1>2. Paths' = Paths
  BY <1>1 DEF Paths
<1>. QED  BY <1>1, <1>2 DEF ShapeInv, Shape, Same, heap, memory

LEMMA PushedLists ==
  ASSUME TypeOK, ShapeInv, NEW k \in Kinds, NEW r \in RecordsOf(k), Push(k, r)
  PROVE  /\ ShapeInv'
         /\ r \in RecordsOf(k) \ ToSet(Listed(k))
         /\ \/ Grown(k, r) /\ answer' = "RGOOD"
            \/ Same /\ answer' = "MFAIL"
<1>. PICK P : P = Paths
  OBVIOUS
<1>1. Shape(P) /\ P \in [Kinds -> Seq(Addr)]
  BY DEF ShapeInv, Shape
<1>2. \A l \in Kinds : Listed(l) = Contents(held, P[l])
  BY <1>1, PathsAre
<1>3. r \in RecordsOf(k) \ live /\ live' = live \cup {r}
  BY DEF Push, Fresh
<1>4. r \notin ToSet(Listed(k))
  BY <1>3, ListedFacts DEF ToSet
<1>5. ASSUME NEW n \in Addr \ used, Link(k, n), held' = [held EXCEPT ![n] = r],
             used' = used \cup {n}, answer' = "RGOOD"
      PROVE  ShapeInv' /\ Grown(k, r)
  <2>. DEFINE Q == [P EXCEPT ![k] = Append(P[k], n)]
  <2>1. Shape(Q)'
    BY <1>1, <1>3, <1>5, LinkShape
  <2>2. Q[k] = Append(P[k], n) /\ \A l \in Kinds \ {k} : Q[l] = P[l]
    BY <1>1
  <2>. HIDE DEF Q
  <2>3. Paths' = Q /\ \A l \in Kinds : Listed(l)' = Contents(held', Q[l])
    BY <2>1, PathsAreAfter
  <2>4. /\ \A l \in Kinds : P[l] \in Seq(Addr) /\ ToSet(P[l]) \subseteq used
        /\ \A x \in used : held'[x] = held[x]
        /\ held'[n] = r
    BY <1>1, <1>5 DEF Shape, TypeOK
  <2>5. ASSUME NEW l \in Kinds \ {k} PROVE Listed(l)' = Listed(l)
    <3>1. \A x \in ToSet(P[l]) : held'[x] = held[x]
      BY <2>4
    <3>2. Contents(held', P[l]) = Contents(held, P[l])
      BY <3>1, ContentsKept, Zenon
    <3>. QED  BY <1>2, <2>2, <2>3, <3>2
  <2>6. Listed(k)' = Append(Listed(k), r)
    <3>1. P[k] \in Seq(Addr) /\ n \in Addr
      BY <2>4
    <3>2. Alike(P[k], held, held')
      BY <2>4 DEF Alike
    <3>3. Contents(held', Append(P[k], n)) = Append(Contents(held, P[k]), held'[n])
      BY <3>1, <3>2, ContentsPushed
    <3>. QED  BY <1>2, <2>2, <2>3, <2>4, <3>3
  <2>. QED  BY <2>1, <2>3, <2>5, <2>6 DEF ShapeInv, Grown
<1>6. ASSUME UNCHANGED heap
      PROVE  ShapeInv' /\ Same
  <2>1. \A l \in Kinds : Path(l)' = Path(l) /\ Listed(l)' = Listed(l)
    BY <1>6 DEF heap, Path, Listed
  <2>2. Paths' = Paths
    BY <2>1 DEF Paths
  <2>. QED  BY <1>3, <1>6, <2>1, <2>2 DEF ShapeInv, Shape, Same, heap
<1>7. \/ \E n \in Addr \ used :
           /\ Link(k, n) /\ held' = [held EXCEPT ![n] = r] /\ used' = used \cup {n}
           /\ answer' = "RGOOD"
      \/ (UNCHANGED heap) /\ answer' = "MFAIL"
  BY DEF Push, Return
<1>. QED  BY <1>3, <1>4, <1>5, <1>6, <1>7

LEMMA RemovedLists ==
  ASSUME TypeOK, ShapeInv, NEW k \in Kinds, NEW n \in DOMAIN Path(k), Removed(k, n)
  PROVE  ShapeInv' /\ Shrunk(k, n)
<1>. PICK P : P = Paths
  OBVIOUS
<1>1. Shape(P) /\ P \in [Kinds -> Seq(Addr)]
  BY DEF ShapeInv, Shape
<1>2. Path(k) = P[k] /\ \A l \in Kinds : Listed(l) = Contents(held, P[l])
  BY <1>1, PathsAre
<1>3. n \in DOMAIN P[k] /\ Listed(k)[n] = held[P[k][n]] /\ n \in 1..Len(P[k])
  BY <1>2, ListedFacts
<1>. DEFINE Q == [P EXCEPT ![k] = RemoveAt(P[k], n)]
            a == P[k][n]
<1>4. held' = [held EXCEPT ![a] = NULL] /\ used' = used \ {a} /\ live' = live \ {held[a]}
  BY <1>2, <1>3 DEF Removed
<1>5. Shape(Q)'
  BY <1>1, <1>3, <1>4, UnlinkShape DEF Removed
<1>6. Q[k] = RemoveAt(P[k], n) /\ \A l \in Kinds \ {k} : Q[l] = P[l]
  BY <1>1
<1>7. a \in ToSet(P[k])
  BY <1>3 DEF ToSet
<1>. HIDE DEF Q, a
<1>8. Paths' = Q /\ \A l \in Kinds : Listed(l)' = Contents(held', Q[l])
  BY <1>5, PathsAreAfter
<1>9. /\ \A l \in Kinds : P[l] \in Seq(Addr)
      /\ \A l \in Kinds \ {k} : a \notin ToSet(P[l])
      /\ \A l \in Kinds : \A x \in ToSet(P[l]) : x \in Addr
      /\ \A x \in Addr \ {a} : held'[x] = held[x]
  <2>1. \A l \in Kinds : ToSet(P[l]) \subseteq Addr
    BY <1>1 DEF Shape, TypeOK
  <2>3. \A l \in Kinds \ {k} : a \notin ToSet(P[l])
    BY <1>1, <1>7 DEF Shape
  <2>4. \A x \in Addr \ {a} : held'[x] = held[x]
    BY <1>4 DEF TypeOK
  <2>. QED  BY <1>1, <2>1, <2>3, <2>4
<1>10. ASSUME NEW l \in Kinds \ {k} PROVE Listed(l)' = Listed(l)
  <2>1. \A x \in ToSet(P[l]) : held'[x] = held[x]
    BY <1>9
  <2>2. Contents(held', P[l]) = Contents(held, P[l])
    BY <2>1, ContentsKept, Zenon
  <2>. QED  BY <1>2, <1>6, <1>8, <2>2
<1>11. Listed(k)' = RemoveAt(Listed(k), n)
  <2>1. P[k] \in Seq(Addr) /\ \A i, j \in DOMAIN P[k] : P[k][i] = P[k][j] => i = j
    BY <1>1 DEF Shape
  <2>2. \A x \in ToSet(P[k]) \ {P[k][n]} : held'[x] = held[x]
    BY <1>9 DEF a
  <2>3. Contents(held', RemoveAt(P[k], n)) = RemoveAt(Contents(held, P[k]), n)
    BY <1>3, <2>1, <2>2, ContentsRemoved
  <2>. QED  BY <1>2, <1>6, <1>8, <2>3
<1>. QED  BY <1>5, <1>8, <1>10, <1>11 DEF ShapeInv, Shrunk

-----------------------------------------------------------------------------
(* The invariant. *)

LEMMA FieldSets ==
  /\ \A k \in Kinds : FreedInner(k) \subseteq Inner(k)
  /\ FreedInner("track") = Inner("track") /\ FreedInner("game") = Inner("game")
  /\ \A k \in Kinds : NameField(k) \subseteq Inner(k) /\ IdField(k) \subseteq Inner(k)
  /\ NameField("track") = {"field"}
BY DEF FreedInner, Inner, NameField, IdField, Kinds

LEMMA TypeStep ==
  ASSUME TypeOK, ShapeInv, [Next]_vars
  PROVE  TypeOK'
<1>. USE RecordsAreOfOneKind
<1>1. ASSUME NEW k \in Kinds, NEW r \in RecordsOf(k), Push(k, r) PROVE TypeOK'
  <2>1. /\ live' = live \cup {r} /\ fields' = [fields EXCEPT ![r] = Inner(k)]
        /\ open' = open \cup Socket(r) /\ answer' \in Codes /\ UNCHANGED <<sweeping, crashed>>
    BY <1>1 DEF Push, Return, Codes
  <2>2. CASE UNCHANGED heap
    BY <2>1, <2>2 DEF TypeOK, heap, Socket
  <2>3. ASSUME NEW n \in Addr \ used, Link(k, n), held' = [held EXCEPT ![n] = r],
               used' = used \cup {n}
        PROVE  TypeOK'
    <3>1. head' \in [Kinds -> Addr \cup {NULL}]
      BY <2>3 DEF Link, TypeOK
    <3>2. next' \in [Addr -> Addr \cup {NULL}]
      <4>1. DOMAIN next' = Addr /\ \A x \in Addr : next'[x] \in {next[x], NULL, n}
        BY <2>3 DEF Link, TypeOK
      <4>2. next' = [x \in Addr |-> next'[x]]
        BY <2>3, <4>1 DEF Link, TypeOK
      <4>. QED  BY <4>1, <4>2 DEF TypeOK
    <3>3. held' \in [Addr -> Records \cup {NULL}] /\ used' \subseteq Addr
      BY <2>3 DEF TypeOK
    <3>. QED  BY <2>1, <3>1, <3>2, <3>3 DEF TypeOK, Socket
  <2>. QED  BY <1>1, <2>2, <2>3 DEF Push
<1>2. ASSUME NEW k \in Kinds, NEW n \in DOMAIN Path(k), Removed(k, n) PROVE TypeOK'
  <2>1. Path(k)[n] \in Addr /\ Listed(k)[n] \in Records
    BY ListedFacts DEF TypeOK
  <2>2. head' \in [Kinds -> Addr \cup {NULL}] /\ next' \in [Addr -> Addr \cup {NULL}]
    <3>1. CASE n = 1
      BY <1>2, <2>1, <3>1 DEF Removed, Unlink, TypeOK
    <3>2. CASE n # 1
      BY <1>2, <2>1, <3>2 DEF Removed, Unlink, TypeOK
    <3>. QED  BY <3>1, <3>2
  <2>3. held' \in [Addr -> Records \cup {NULL}] /\ used' \subseteq Addr
    BY <1>2, <2>1 DEF Removed, TypeOK
  <2>4. fields' \in [Records -> SUBSET UNION {Inner(l) : l \in Kinds}]
    <3>1. PICK s \in live : fields' = [fields EXCEPT ![s] = @ \ FreedInner(k)]
      BY <1>2 DEF Removed
    <3>. QED  BY <3>1 DEF TypeOK
  <2>5. live' \subseteq Records /\ open' \subseteq Clients
    BY <1>2 DEF Removed, TypeOK
  <2>6. answer' \in Codes /\ UNCHANGED <<sweeping, crashed>>
    BY <1>2 DEF Removed, Codes
  <2>. QED  BY <2>2, <2>3, <2>4, <2>5, <2>6 DEF TypeOK
<1>3. CASE Rested
  <2>1. answer' \in Codes \cup Records \cup {NULL}
    <3>1. ASSUME NEW k \in Kinds, NEW n \in DOMAIN Path(k) PROVE Listed(k)[n] \in Records
      BY ListedFacts
    <3>. QED  BY <1>3, <3>1 DEF Rested, Reply, TypeOK, Codes
  <2>. QED  BY <1>3, <2>1 DEF Rested, TypeOK, heap, memory
<1>. QED  BY <1>1, <1>2, <1>3, StepIs

LEMMA PushKeepsMemory ==
  ASSUME TypeOK, MemoryInv, NEW k \in Kinds, NEW r \in RecordsOf(k), Push(k, r)
  PROVE  MemoryInv' /\ (TrackLost => TrackLost')
<1>1. /\ r \notin live /\ fields[r] \cap FreedInner(k) = {} /\ r \in Records
      /\ live' = live \cup {r} /\ fields' = [fields EXCEPT ![r] = Inner(k)]
      /\ open' = open \cup Socket(r)
  BY RecordsAreOfOneKind DEF Push, Fresh
<1>2. fields'[r] = Inner(k) /\ \A q \in Records \ {r} : fields'[q] = fields[q]
  BY <1>1 DEF TypeOK
<1>3. r \in Tracks => k = "track" /\ fields[r] = {}
  <2>1. r \in Tracks => k = "track"
    BY RecordsAreOfOneKind DEF Kinds
  <2>. QED  BY <1>1, <2>1, FieldSets DEF MemoryInv
<1>4. TrackLost => TrackLost'
  BY <1>1, <1>2, <1>3 DEF TrackLost, Records
<1>5. ASSUME NEW j \in {"client", "game"}, NEW q \in RecordsOf(j)
      PROVE  IF q \in live' THEN fields'[q] = Inner(j)
             ELSE fields'[q] \subseteq Inner(j) \ FreedInner(j)
  <2>1. j \in Kinds /\ q \in Records
    BY RecordsAreOfOneKind DEF Kinds
  <2>2. CASE q = r
    <3>1. j = k
      BY <2>1, <2>2, RecordsAreOfOneKind
    <3>. QED  BY <1>1, <1>2, <2>2, <3>1
  <2>3. CASE q # r
    BY <1>1, <1>2, <2>1, <2>3 DEF MemoryInv
  <2>. QED  BY <2>2, <2>3
<1>6. ASSUME NEW t \in Tracks
      PROVE  /\ fields'[t] \subseteq Inner("track")
             /\ t \in live' /\ fields'[t] # Inner("track") => TrackLost'
  <2>1. CASE t = r
    BY <1>2, <1>3, <2>1
  <2>2. CASE t # r
    BY <1>1, <1>2, <1>4, <2>2 DEF MemoryInv, Records
  <2>. QED  BY <2>1, <2>2
<1>7. open' \subseteq Clients \ Unconnected
  BY <1>1 DEF Socket, MemoryInv
<1>. QED  BY <1>4, <1>5, <1>6, <1>7 DEF MemoryInv

LEMMA RemovalKeepsMemory ==
  ASSUME TypeOK, ShapeInv, MemoryInv, NEW k \in Kinds, NEW n \in DOMAIN Path(k), Removed(k, n)
  PROVE  MemoryInv' /\ (TrackLost => TrackLost')
<1>. PICK r : r = Listed(k)[n]
  OBVIOUS
<1>1. r \in live /\ r \in RecordsOf(k) /\ r \in Records
  BY ListedFacts, RecordsAreOfOneKind
<1>2. /\ live' = live \ {r} /\ NameField(k) \subseteq fields[r]
      /\ open' \subseteq open
  BY DEF Removed, Has
<1>3. PICK s \in live \cap RecordsOf(k) :
        /\ s = r \/ k = "track"
        /\ fields' = [fields EXCEPT ![s] = @ \ FreedInner(k)]
  BY DEF Removed
<1>4. /\ s \in Records /\ fields'[s] = fields[s] \ FreedInner(k)
      /\ \A q \in Records \ {s} : fields'[q] = fields[q]
  BY <1>3, RecordsAreOfOneKind DEF TypeOK
<1>5. TrackLost => TrackLost'
  BY <1>2, <1>3, <1>4 DEF TrackLost, Records
<1>6. ASSUME NEW j \in {"client", "game"}, NEW q \in RecordsOf(j)
      PROVE  IF q \in live' THEN fields'[q] = Inner(j)
             ELSE fields'[q] \subseteq Inner(j) \ FreedInner(j)
  <2>1. j \in Kinds /\ q \in Records /\ j # "track"
    BY RecordsAreOfOneKind DEF Kinds
  <2>2. CASE j = k
    <3>1. s = r
      BY <1>3, <2>1, <2>2
    <3>2. CASE q = r
      BY <1>1, <1>2, <1>4, <2>2, <3>1, <3>2 DEF MemoryInv
    <3>3. CASE q # r
      BY <1>2, <1>4, <2>1, <3>1, <3>3 DEF MemoryInv
    <3>. QED  BY <3>2, <3>3
  <2>3. CASE j # k
    <3>1. q # r /\ q # s
      BY <1>1, <1>3, <2>1, <2>3, RecordsAreOfOneKind
    <3>. QED  BY <1>2, <1>4, <2>1, <3>1 DEF MemoryInv
  <2>. QED  BY <2>2, <2>3
<1>7. ASSUME NEW t \in Tracks
      PROVE  fields'[t] \subseteq Inner("track")
  BY <1>4 DEF MemoryInv, Records
<1>8. ASSUME NEW t \in Tracks, t \in live', fields'[t] # Inner("track")
      PROVE  TrackLost'
  <2>1. CASE fields[t] # Inner("track")
    BY <1>2, <1>5, <1>8, <2>1 DEF MemoryInv
  <2>2. CASE fields[t] = Inner("track")
    <3>1. t = s /\ s # r
      BY <1>2, <1>4, <1>8, <2>2 DEF Records
    <3>2. k = "track" /\ "field" \in fields[r]
      BY <1>2, <1>3, <3>1, FieldSets
    <3>3. r \in Tracks /\ r \notin live' /\ fields'[r] # {}
      BY <1>1, <1>2, <1>4, <3>1, <3>2, RecordsAreOfOneKind
    <3>. QED  BY <3>3 DEF TrackLost
  <2>. QED  BY <2>1, <2>2
<1>9. open' \subseteq Clients \ Unconnected
  BY <1>2 DEF MemoryInv
<1>. QED  BY <1>5, <1>6, <1>7, <1>8, <1>9 DEF MemoryInv

LEMMA MemoryStep ==
  ASSUME TypeOK, ShapeInv, MemoryInv, [Next]_vars
  PROVE  MemoryInv'
<1>1. CASE Rested
  <2>1. UNCHANGED <<live, fields, open>>
    BY <1>1 DEF Rested, memory
  <2>. QED  BY <2>1 DEF MemoryInv, TrackLost
<1>. QED  BY <1>1, StepIs, PushKeepsMemory, RemovalKeepsMemory

\* A field that is missing has gone with a track that was removed in another's place.
LEMMA ReasonIsTrack ==
  ASSUME ShapeInv, MemoryInv, CrashReason
  PROVE  Len(Listed("game")) > 1 \/ TrackLost \/ Len(Listed("track")) = 1
<1>. SUFFICES ASSUME NEW k \in Kinds, NEW n \in DOMAIN Listed(k),
                     ~Has(Listed(k)[n], NameField(k)) \/ ~Has(Listed(k)[n], IdField(k))
              PROVE  TrackLost
  BY DEF CrashReason, StrayWrites
<1>. PICK r : r = Listed(k)[n]
  OBVIOUS
<1>1. r \in live /\ r \in RecordsOf(k)
  BY ListedFacts
<1>2. fields[r] # Inner(k)
  BY FieldSets DEF Has
<1>3. k = "track"
  BY <1>1, <1>2 DEF MemoryInv, Kinds
<1>. QED  BY <1>1, <1>2, <1>3, RecordsAreOfOneKind DEF MemoryInv

LEMMA CrashStep ==
  ASSUME ListsInv, [Next]_vars
  PROVE  CrashInv'
<1>. USE DEF ListsInv
<1>1. CASE Rested
  <2>1. Same /\ UNCHANGED <<live, fields>>
    BY <1>1, RestedKeeps DEF Rested, memory
  <2>2. /\ Listed("game")' = Listed("game") /\ Listed("track")' = Listed("track")
        /\ TrackLost => TrackLost'
    BY <2>1 DEF Same, Kinds, TrackLost
  <2>3. crashed' => crashed \/ CrashReason
    BY <1>1 DEF Rested
  <2>. QED  BY <2>2, <2>3, ReasonIsTrack DEF CrashInv
<1>2. ASSUME NEW k \in Kinds, NEW r \in RecordsOf(k), Push(k, r) PROVE CrashInv'
  BY <1>2 DEF Push, Running, Return, CrashInv
<1>3. ASSUME NEW k \in Kinds, NEW n \in DOMAIN Path(k), Removed(k, n) PROVE CrashInv'
  BY <1>3 DEF Removed, CrashInv
<1>. QED  BY <1>1, <1>2, <1>3, StepIs

LEMMA ListsInit ==
  ASSUME Init
  PROVE  ListsInv /\ \A k \in Kinds : Listed(k) = <<>>
<1>. DEFINE P == [k \in Kinds |-> <<>>]
<1>1. \A k \in Kinds : P[k] = <<>> /\ ToSet(P[k]) = {} /\ P[k] \in Seq(Addr)
  BY EmptySeq DEF ToSet
<1>2. P \in [Kinds -> Seq(Addr)]
  BY <1>1
<1>. HIDE DEF P
<1>3. Shape(P)
  BY <1>1, <1>2 DEF Init, Shape, IsChain
<1>4. Paths = P /\ \A k \in Kinds : Listed(k) = Contents(held, P[k])
  BY <1>3, PathsAre
<1>5. \A k \in Kinds : Listed(k) = <<>>
  BY <1>1, <1>4 DEF Contents
<1>6. TypeOK
  BY DEF Init, TypeOK, Codes
<1>7. MemoryInv
  <2>1. \A k \in Kinds : RecordsOf(k) \subseteq Records
    BY RecordsAreOfOneKind
  <2>. QED  BY <2>1 DEF Init, MemoryInv, Records, Kinds
<1>8. CrashInv
  BY DEF Init, CrashInv
<1>. QED  BY <1>3, <1>4, <1>5, <1>6, <1>7, <1>8 DEF ListsInv, ShapeInv

LEMMA ListsStep ==
  ASSUME ListsInv, [Next]_vars
  PROVE  ListsInv'
<1>1. ShapeInv'
  BY StepIs, PushedLists, RemovedLists, RestedKeeps DEF ListsInv, Rested
<1>. QED  BY <1>1, TypeStep, MemoryStep, CrashStep DEF ListsInv

LEMMA ListsInvariant == Spec => []ListsInv
<1>1. Init => ListsInv
  BY ListsInit
<1>2. ListsInv /\ [Next]_vars => ListsInv'
  BY ListsStep
<1>. QED  BY <1>1, <1>2, PTL DEF Spec

-----------------------------------------------------------------------------
(* The properties. *)

\* Every variable of the heap stays in its type (linked_list.c, all functions).
THEOREM ListsTypeCorrect == Spec => []TypeOK
<1>1. ListsInv => TypeOK
  BY DEF ListsInv
<1>. QED  BY <1>1, ListsInvariant, PTL
\* No node is lost, listed twice or left with a freed record, and no field of a
\* client or a game goes before its record or stays behind it, for any heap and any
\* records (the pointer exchanges and frees of linked_list.c).
THEOREM ListsHeapExact == Spec => []HeapExact
<1>1. ASSUME ListsInv PROVE NodesExact
  <2>. PICK P : P = Paths
    OBVIOUS
  <2>1. Shape(P) /\ P \in [Kinds -> Seq(Addr)]
    BY <1>1 DEF ListsInv, ShapeInv, Shape
  <2>. PICK all : all = Path("client") \o Path("game") \o Path("track")
    OBVIOUS
  <2>2. all = P["client"] \o P["game"] \o P["track"]
    BY <2>1, PathsAre DEF Kinds
  <2>3. /\ \A m, n \in DOMAIN all : m # n => all[m] # all[n]
        /\ ToSet(all) = used
    BY <2>1, <2>2, ElementsOfAll
  <2>4. /\ \A m, n \in used : held[m] = held[n] => m = n
        /\ \A n \in used : held[n] \in live
    <3>1. \A n \in used : \E k \in Kinds : n \in ToSet(P[k])
      BY <2>1 DEF Shape
    <3>. QED  BY <2>1, <3>1 DEF Shape
  <2>5. \A n \in DOMAIN all : all[n] \in used
    BY <2>3 DEF ToSet
  <2>. QED  BY <2>3, <2>4, <2>5 DEF NodesExact
<1>2. ASSUME ListsInv PROVE FieldsIntact
  <2>1. ASSUME NEW k \in {"client", "game"}, NEW r \in ToSet(Listed(k)) PROVE fields[r] = Inner(k)
    <3>1. r \in live /\ r \in RecordsOf(k)
      BY <1>2, ListedFacts DEF ListsInv, ToSet, Kinds
    <3>. QED  BY <1>2, <3>1 DEF ListsInv, MemoryInv
  <2>. QED  BY <1>2, <2>1 DEF ListsInv, MemoryInv, FieldsIntact
<1>3. ListsInv => HeapExact
  BY <1>1, <1>2 DEF HeapExact
<1>. QED  BY <1>3, ListsInvariant, PTL

\* The lists crash only where get_game_ids or remove_by_track_id is the reason.
THEOREM ListsCrashExplained == Spec => []CrashExplained
<1>1. ASSUME ListsInv PROVE CrashExplained
  <2>1. \A t \in ToSet(Listed("track")) : t \in live /\ t \in Tracks
    BY <1>1, ListedFacts, RecordsAreOfOneKind DEF ListsInv, ToSet, Kinds
  <2>. QED  BY <1>1, <2>1 DEF ListsInv, MemoryInv, CrashInv, CrashExplained
<1>2. ListsInv => CrashExplained
  BY <1>1
<1>. QED  BY <1>2, ListsInvariant, PTL

\* The socket of a removed client is closed unless the head has none of its own
\* (pop_client, remove_last_client, remove_by_client_id).
THEOREM ListsSocketsClosed == Spec => SocketsClosed
<1>. DEFINE Closing ==
       /\ open \ open' \subseteq live \ live'
       /\ \A c \in Clients : c \in live \ live' /\ c \in open' =>
             held[head["client"]] \in Unconnected \ {c}
<1>1. ASSUME ListsInv, [Next]_vars PROVE Closing
  <2>. USE DEF ListsInv
  <2>1. CASE Rested
    BY <2>1 DEF Rested, memory
  <2>2. ASSUME NEW k \in Kinds, NEW r \in RecordsOf(k), Push(k, r) PROVE Closing
    BY <2>2 DEF Push
  <2>3. ASSUME NEW k \in Kinds, NEW n \in DOMAIN Path(k), Removed(k, n) PROVE Closing
    <3>. PICK r : r = Listed(k)[n]
      OBVIOUS
    <3>1. r \in live /\ r \in RecordsOf(k) /\ live' = live \ {r}
      BY <1>1, <2>3, ListedFacts DEF Removed
    <3>2. \/ open' = open \ {r}
          \/ open' = open /\ (r \in Unconnected \/ Listed(k)[1] \in Unconnected)
      BY <2>3 DEF Removed
    <3>3. ASSUME NEW c \in Clients, c \in live \ live', c \in open'
          PROVE  held[head["client"]] \in Unconnected \ {c}
      <4>1. c = r /\ k = "client" /\ c \notin Unconnected
        BY <1>1, <3>1, <3>2, <3>3, RecordsAreOfOneKind DEF MemoryInv, Kinds
      <4>2. Listed(k)[1] \in Unconnected
        BY <3>2, <3>3, <4>1
      <4>3. Listed(k)[1] = held[head[k]]
        <5>1. Path(k) # <<>>
          BY <1>1, ListedFacts
        <5>. QED  BY <1>1, <5>1, ListedFacts
      <4>. QED  BY <4>1, <4>2, <4>3
    <3>. QED  BY <3>1, <3>2, <3>3
  <2>. QED  BY <1>1, <2>1, <2>2, <2>3, StepIs
<1>2. ListsInv /\ [Next]_vars => [Closing]_vars
  BY <1>1
<1>. QED  BY <1>2, ListsInvariant, PTL DEF Spec, SocketsClosed

\* Every call is a call on three sequences, with the return code it should have.
THEOREM ListsAreSequences == Spec => ImplementsLists
<1>1. Init => Lists!Init
  BY ListsInit DEF Init, Lists!Init, Lists!Kinds, Kinds
<1>2. ASSUME ListsInv, [Next]_vars
      PROVE  [Lists!Next]_<<[k \in Kinds |-> Listed(k)], answer>>
  <2>. USE DEF ListsInv
  <2>. DEFINE lists == [k \in Kinds |-> Listed(k)]
  <2>1. ASSUME NEW k \in Kinds, NEW r \in RecordsOf(k), Push(k, r)
        PROVE  Lists!Add(k)
    <3>1. /\ r \in RecordsOf(k) \ ToSet(lists[k])
          /\ \/ Grown(k, r) /\ answer' = "RGOOD"
             \/ Same /\ answer' = "MFAIL"
      BY <1>2, <2>1, PushedLists
    <3>2. Grown(k, r) => Lists!Becomes(k, Append(lists[k], r))
      BY DEF Grown, Lists!Becomes
    <3>3. Same => lists' = lists
      BY DEF Same
    <3>4. CASE Grown(k, r) /\ answer' = "RGOOD"
      <4>1. /\ answer' = "RGOOD"
            /\ \E q \in RecordsOf(k) \ ToSet(lists[k]) : Lists!Becomes(k, Append(lists[k], q))
        BY <3>1, <3>2, <3>4, Zenon
      <4>. QED  BY <4>1, Zenon DEF Lists!Add, Lists!ToSet, ToSet
    <3>5. CASE Same /\ answer' = "MFAIL"
      BY <3>3, <3>5 DEF Lists!Add
    <3>. QED  BY <3>1, <3>4, <3>5
  <2>2. ASSUME NEW k \in Kinds, NEW n \in DOMAIN Path(k), Removed(k, n)
        PROVE  Lists!Take(k)
    <3>1. Shrunk(k, n) /\ answer' = "RGOOD" /\ n \in Removable(k)
      BY <1>2, <2>2, RemovedLists DEF Removed
    <3>2. Lists!Becomes(k, RemoveAt(lists[k], n))
      BY <3>1 DEF Shrunk, Lists!Becomes
    <3>3. lists[k] # <<>>
      <4>1. Len(lists[k]) = Len(Path(k)) /\ DOMAIN Path(k) = 1..Len(Path(k))
        BY <1>2, ListedFacts
      <4>. QED  BY <4>1
    <3>4. n \in {1, Len(lists[k])} \cup UNION {Lists!First(lists[k], i) : i \in Ids}
      BY <3>1 DEF Removable
    <3>5. /\ answer' = "RGOOD" /\ lists[k] # <<>>
          /\ \E m \in {1, Len(lists[k])} \cup UNION {Lists!First(lists[k], i) : i \in Ids} :
               Lists!Becomes(k, RemoveAt(lists[k], m))
      BY <3>1, <3>2, <3>3, <3>4, Zenon
    <3>. QED  BY <3>5, Zenon DEF Lists!Take, Lists!RemoveAt, RemoveAt
  <2>3. CASE Rested
    <3>1. Same
      BY <1>2, <2>3, RestedKeeps DEF Rested
    <3>2. lists' = lists
      BY <3>1 DEF Same
    <3>3. CASE answer' \in {answer, "RGOOD"}
      BY <3>2, <3>3 DEF Lists!Next, Lists!Reported
    <3>4. ASSUME NEW k \in Kinds, head[k] = NULL, answer' = "HNULL"
          PROVE  Lists!Refuse(k)
      <4>1. lists[k] = <<>>
        BY <1>2, <3>4, ListedFacts, EmptySeq
      <4>. QED  BY <3>2, <3>4, <4>1 DEF Lists!Refuse
    <3>5. ASSUME NEW k \in Kinds, NEW i \in Ids, NoMatch(k, i)
          PROVE  Lists!First(lists[k], i) = {}
      BY <3>5 DEF NoMatch, Matches, Lists!First
    <3>6. ASSUME NEW k \in Kinds, head[k] # NULL, answer' = "NFND",
                 NEW i \in Ids, NoMatch(k, i)
          PROVE  Lists!Refuse(k)
      <4>1. lists[k] # <<>>
        BY <1>2, <3>6, ListedFacts, EmptySeq
      <4>. QED  BY <3>2, <3>5, <3>6, <4>1 DEF Lists!Refuse
    <3>7. ASSUME NEW k \in Kinds, answer' = NULL, NEW i \in Ids, NoMatch(k, i)
          PROVE  Lists!Find(k)
      BY <3>2, <3>5, <3>7 DEF Lists!Find
    <3>8. ASSUME NEW k \in Kinds, NEW i \in Ids, NEW n \in DOMAIN Path(k),
                 FirstMatch(k, i, n), answer' = Listed(k)[n]
          PROVE  Lists!Find(k)
      <4>1. n \in Lists!First(lists[k], i) /\ answer' = lists[k][n]
        BY <3>8, FirstIsFirst
      <4>2. answer' \in Records
        BY <1>2, <3>8, ListedFacts, RecordsAreOfOneKind
      <4>3. answer' \notin Lists!Codes \cup {NULL}
        BY <4>2, CodesAssumption, ListAssumption
           DEF CodesAssumption, ListAssumption, Lists!Codes, Codes, Records
      <4>. QED  BY <3>2, <4>1, <4>3 DEF Lists!Find
    <3>. QED
      BY <2>3, <3>3, <3>4, <3>6, <3>7, <3>8, Zenon
      DEF Rested, Reply, Lists!Next, Lists!Kinds, Kinds
  <2>. QED  BY <1>2, <2>1, <2>2, <2>3, StepIs, Zenon DEF Lists!Next, Lists!Kinds, Kinds
<1>. QED  BY <1>1, <1>2, ListsInvariant, PTL DEF Spec, ImplementsLists, Lists!Spec
=============================================================================
