---------------------------- MODULE SequenceLemmas ----------------------------
(***************************************************************************)
(* Facts about the operators on lists the specifications use: the first    *)
(* place that passes a test, a node pushed at the end, a node unlinked,    *)
(* the chain of nodes behind a head pointer.                               *)
(***************************************************************************)
EXTENDS NodeChains, Integers, Sequences, SequencesExt, FiniteSetTheorems,
        SequenceTheorems, WellFoundedInduction, TLAPS

\* The smallest number of a set, which SelectInSeq returns, is one of the set.
LEMMA MinOfNaturals ==
  ASSUME NEW I, I \subseteq Nat, I # {}
  PROVE  Min(I) \in I /\ \A i \in I : Min(I) <= i
<1>. DEFINE below == OpToRel(<, Nat)
<1>1. PICK m \in I : \A i \in I : ~(<<i, m>> \in below)
  BY NatLessThanWellFounded, WFMin, Zenon DEF below
<1>2. below = {ss \in Nat \X Nat : ss[1] < ss[2]}
  BY Zenon DEF below, OpToRel
<1>. HIDE DEF below
<1>3. \A i \in I : m <= i
  <2>1. ASSUME NEW i \in I, i < m PROVE <<i, m>> \in below
    BY <1>2, <2>1
  <2>2. \A i \in I : ~(i < m)
    BY <1>1, <2>1, Zenon
  <2>3. \A i \in I : i \in Nat /\ m \in Nat
    OBVIOUS
  <2>. QED  BY <2>2, <2>3
<1>. QED  BY <1>3 DEF Min

\* Induction, for a property given as the set of the numbers that have it.
LEMMA CountingUp ==
  ASSUME NEW S \in SUBSET Nat, 0 \in S, \A n \in S : n + 1 \in S
  PROVE  S = Nat
<1>. SUFFICES ASSUME Nat \ S # {} PROVE FALSE
  OBVIOUS
<1>1. PICK n \in Nat \ S : \A m \in Nat \ S : n <= m
  <2>1. /\ Min(Nat \ S) \in Nat \ S
        /\ \A m \in Nat \ S : Min(Nat \ S) <= m
    BY MinOfNaturals
  <2>. QED  BY <2>1
<1>2. n # 0 /\ n - 1 \in Nat /\ n - 1 \in S
  BY <1>1
<1>. QED  BY <1>1, <1>2

\* A pushed node is the one new element of the list, and comes last.
LEMMA AppendElements ==
  ASSUME NEW S, NEW s \in Seq(S), NEW x \in S
  PROVE  /\ Append(s, x) \in Seq(S)
         /\ Len(Append(s, x)) = Len(s) + 1
         /\ ToSet(Append(s, x)) = ToSet(s) \cup {x}
         /\ (\A i, j \in DOMAIN s : s[i] = s[j] => i = j) /\ x \notin ToSet(s) =>
              \A i, j \in DOMAIN Append(s, x) : Append(s, x)[i] = Append(s, x)[j] => i = j
<1>. DEFINE t == Append(s, x)
<1>1. /\ t \in Seq(S) /\ Len(t) = Len(s) + 1
      /\ \A i \in 1..Len(s) : t[i] = s[i]
      /\ t[Len(s) + 1] = x
  BY AppendProperties
<1>2. DOMAIN s = 1..Len(s) /\ Len(s) \in Nat /\ DOMAIN t = 1..(Len(s) + 1)
  BY <1>1, LenProperties
<1>. HIDE DEF t
<1>3. ToSet(t) = ToSet(s) \cup {x}
  <2>1. \A i \in DOMAIN t : t[i] \in ToSet(s) \cup {x}
    BY <1>1, <1>2 DEF ToSet
  <2>2. x \in ToSet(t)
    BY <1>1, <1>2 DEF ToSet
  <2>3. \A i \in DOMAIN s : s[i] \in ToSet(t)
    BY <1>1, <1>2 DEF ToSet
  <2>. QED  BY <2>1, <2>2, <2>3 DEF ToSet
<1>4. ASSUME \A i, j \in DOMAIN s : s[i] = s[j] => i = j, x \notin ToSet(s),
             NEW i \in DOMAIN t, NEW j \in DOMAIN t, t[i] = t[j]
      PROVE  i = j
  <2>1. \A n \in DOMAIN s : s[n] # x
    BY <1>4 DEF ToSet
  <2>. QED  BY <1>1, <1>2, <1>4, <2>1
<1>. QED  BY <1>1, <1>3, <1>4 DEF t

\* Place k taken out of a list: the later ones move up.
LEMMA RemoveAtPlaces ==
  ASSUME NEW S, NEW s \in Seq(S), NEW k \in 1..Len(s)
  PROVE  /\ RemoveAt(s, k) \in Seq(S) /\ Len(RemoveAt(s, k)) = Len(s) - 1
         /\ \A i \in 1..Len(s) - 1 :
              RemoveAt(s, k)[i] = IF i < k THEN s[i] ELSE s[i + 1]
<1>. DEFINE a == SubSeq(s, 1, k - 1)
            b == SubSeq(s, k + 1, Len(s))
            t == a \o b
<1>1. /\ a \in Seq(S) /\ Len(a) = k - 1
      /\ \A i \in 1..(k - 1) : a[i] = s[i]
  BY SubSeqProperties, ElementOfSeq
<1>2. /\ b \in Seq(S) /\ Len(b) = Len(s) - k
      /\ \A i \in 1..(Len(s) - k) : b[i] = s[k + i]
  BY SubSeqProperties, ElementOfSeq
<1>. HIDE DEF a, b
<1>3. /\ t \in Seq(S) /\ Len(t) = Len(s) - 1
      /\ \A i \in 1..(Len(s) - 1) : t[i] = IF i < k THEN s[i] ELSE s[i + 1]
  <2>1. /\ t \in Seq(S) /\ Len(t) = Len(a) + Len(b)
        /\ \A i \in 1..(Len(a) + Len(b)) : t[i] = IF i <= Len(a) THEN a[i] ELSE b[i - Len(a)]
    BY <1>1, <1>2, ConcatProperties, Zenon
  <2>. HIDE DEF t
  <2>2. ASSUME NEW i \in 1..(Len(s) - 1)
        PROVE  t[i] = IF i < k THEN s[i] ELSE s[i + 1]
    <3>1. CASE i < k
      <4>1. i \in 1..(Len(a) + Len(b)) /\ i <= Len(a) /\ i \in 1..(k - 1)
        BY <3>1, <1>1, <1>2, LenProperties
      <4>. QED  BY <3>1, <4>1, <2>1, <1>1
    <3>2. CASE i >= k
      <4>. Len(s) \in Nat /\ i \in 1..(Len(a) + Len(b)) /\ ~(i <= Len(a)) /\ Len(a) = k - 1
        BY <3>2, <1>1, <1>2, LenProperties
      <4>1. t[i] = b[i - (k - 1)]
        BY <2>1
      <4>2. i - (k - 1) \in 1..(Len(s) - k) /\ k + (i - (k - 1)) = i + 1
        BY <3>2, LenProperties
      <4>. QED  BY <3>2, <4>1, <4>2, <1>2
    <3>. QED  BY <3>1, <3>2, LenProperties
  <2>. QED  BY <2>1, <2>2, <1>1, <1>2, LenProperties
<1>4. RemoveAt(s, k) = t
  BY Zenon DEF RemoveAt, t, a, b
<1>. QED  BY <1>3, <1>4

\* Unlinking place k of a list without duplicates takes exactly s[k] out of it.
LEMMA RemoveAtElements ==
  ASSUME NEW S, NEW s \in Seq(S), NEW k \in 1..Len(s),
         \A i, j \in DOMAIN s : s[i] = s[j] => i = j
  PROVE  /\ RemoveAt(s, k) \in Seq(S)
         /\ Len(RemoveAt(s, k)) = Len(s) - 1
         /\ ToSet(RemoveAt(s, k)) = ToSet(s) \ {s[k]}
         /\ \A i, j \in DOMAIN RemoveAt(s, k) :
              RemoveAt(s, k)[i] = RemoveAt(s, k)[j] => i = j
<1>. DEFINE t == RemoveAt(s, k)
<1>3. /\ t \in Seq(S) /\ Len(t) = Len(s) - 1
      /\ \A i \in 1..(Len(s) - 1) : t[i] = IF i < k THEN s[i] ELSE s[i + 1]
  BY RemoveAtPlaces
<1>. HIDE DEF t
<1>4. ToSet(t) = ToSet(s) \ {s[k]}
  <2>1. ASSUME NEW x \in ToSet(t) PROVE x \in ToSet(s) \ {s[k]}
    <3>1. PICK i \in 1..(Len(s) - 1) : x = t[i]
      BY <1>3, LenProperties DEF ToSet
    <3>2. CASE i < k
      <4>1. i \in DOMAIN s /\ k \in DOMAIN s /\ i # k /\ x = s[i]
        BY <3>1, <3>2, <1>3, LenProperties
      <4>. QED  BY <4>1 DEF ToSet
    <3>3. CASE i >= k
      <4>1. i + 1 \in DOMAIN s /\ k \in DOMAIN s /\ i + 1 # k /\ x = s[i + 1]
        BY <3>1, <3>3, <1>3, LenProperties
      <4>. QED  BY <4>1 DEF ToSet
    <3>. QED  BY <3>1, <3>2, <3>3, LenProperties
  <2>2. ASSUME NEW x \in ToSet(s) \ {s[k]} PROVE x \in ToSet(t)
    <3>1. PICK i \in 1..Len(s) : x = s[i] /\ i # k
      BY LenProperties DEF ToSet
    <3>2. CASE i < k
      <4>1. i \in DOMAIN t /\ t[i] = x  BY <3>1, <3>2, <1>3
      <4>. QED  BY <4>1 DEF ToSet
    <3>3. CASE i > k
      <4>1. i - 1 \in DOMAIN t /\ t[i - 1] = x  BY <3>1, <3>3, <1>3
      <4>. QED  BY <4>1 DEF ToSet
    <3>. QED  BY <3>1, <3>2, <3>3
  <2>. QED  BY <2>1, <2>2
<1>5. ASSUME NEW i \in DOMAIN t, NEW j \in DOMAIN t, t[i] = t[j]
      PROVE  i = j
  <2>. DEFINE old(n) == IF n < k THEN n ELSE n + 1
  <2>1. i \in 1..(Len(s) - 1) /\ j \in 1..(Len(s) - 1)
    BY <1>3, LenProperties
  <2>2. old(i) \in DOMAIN s /\ old(j) \in DOMAIN s
    BY <2>1, LenProperties
  <2>3. t[i] = s[old(i)] /\ t[j] = s[old(j)]
    BY <2>1, <1>3
  <2>4. old(i) = old(j)
    BY <2>2, <2>3, <1>5
  <2>. QED  BY <2>1, <2>4
<1>. QED  BY <1>3, <1>4, <1>5 DEF t

\* The first place of a list without duplicates taken off.
LEMMA TailElements ==
  ASSUME NEW S, NEW s \in Seq(S), s # <<>>,
         \A i, j \in DOMAIN s : s[i] = s[j] => i = j
  PROVE  /\ Tail(s) \in Seq(S) /\ Len(Tail(s)) = Len(s) - 1
         /\ \A i \in DOMAIN Tail(s) : i + 1 \in DOMAIN s /\ Tail(s)[i] = s[i + 1]
         /\ s[1] \in ToSet(s) /\ ToSet(Tail(s)) = ToSet(s) \ {s[1]}
         /\ \A i, j \in DOMAIN Tail(s) : Tail(s)[i] = Tail(s)[j] => i = j
<1>. DEFINE t == Tail(s)
<1>1. /\ t \in Seq(S) /\ Len(t) = Len(s) - 1
      /\ \A i \in 1..Len(t) : t[i] = s[i + 1]
  BY HeadTailProperties
<1>. HIDE DEF t
<1>2. Len(s) \in Nat /\ Len(s) > 0 /\ DOMAIN s = 1..Len(s) /\ DOMAIN t = 1..Len(t)
  BY <1>1, LenProperties, EmptySeq
<1>3. \A i \in DOMAIN t : i + 1 \in DOMAIN s /\ i + 1 # 1 /\ t[i] = s[i + 1]
  BY <1>1, <1>2
<1>4. \A i \in DOMAIN s : i # 1 => i - 1 \in DOMAIN t /\ s[i] = t[i - 1]
  BY <1>1, <1>2
<1>5. 1 \in DOMAIN s
  BY <1>2
<1>6. ToSet(t) = ToSet(s) \ {s[1]}
  <2>1. ASSUME NEW i \in DOMAIN t PROVE t[i] \in ToSet(s) \ {s[1]}
    BY <1>3, <1>5 DEF ToSet
  <2>2. ASSUME NEW i \in DOMAIN s, s[i] # s[1] PROVE s[i] \in ToSet(t)
    BY <1>4, <2>2 DEF ToSet
  <2>. QED  BY <2>1, <2>2 DEF ToSet
<1>7. ASSUME NEW i \in DOMAIN t, NEW j \in DOMAIN t, t[i] = t[j] PROVE i = j
  BY <1>2, <1>3, <1>7
<1>8. s[1] \in ToSet(s)
  BY <1>5 DEF ToSet
<1>. QED  BY <1>1, <1>3, <1>6, <1>7, <1>8 DEF t

\* A list without duplicates has as many elements as places.
LEMMA ElementsOfList ==
  ASSUME NEW S, NEW s \in Seq(S)
  PROVE  /\ IsFiniteSet(ToSet(s)) /\ Cardinality(ToSet(s)) <= Len(s)
         /\ Cardinality(ToSet(s)) \in Nat
<1>1. IsFiniteSet(1..Len(s)) /\ Cardinality(1..Len(s)) = Len(s)
  <2>1. Len(s) \in Nat
    BY LenProperties
  <2>. QED  BY <2>1, FS_Interval
<1>2. s \in Surjection(1..Len(s), ToSet(s))
  BY LenProperties DEF Surjection, ToSet
<1>. QED  BY <1>1, <1>2, FS_Surjection, FS_CardinalityType

\* A list without duplicates is no longer than the set its elements are from.
LEMMA ListFits ==
  ASSUME NEW S, IsFiniteSet(S), NEW s \in Seq(S),
         \A i, j \in DOMAIN s : s[i] = s[j] => i = j
  PROVE  Len(s) <= Cardinality(S) /\ Cardinality(S) \in Nat
<1>1. /\ Len(s) \in Nat /\ DOMAIN s = 1..Len(s)
      /\ IsFiniteSet(1..Len(s)) /\ Cardinality(1..Len(s)) = Len(s)
  <2>1. Len(s) \in Nat /\ DOMAIN s = 1..Len(s)
    BY LenProperties
  <2>. QED  BY <2>1, FS_Interval
<1>2. s \in Injection(1..Len(s), S)
  BY <1>1, LenProperties DEF Injection, IsInjective
<1>. QED  BY <1>1, <1>2, FS_Injection, FS_CardinalityType

\* Two lists without a common element, one behind the other.
LEMMA JoinedElements ==
  ASSUME NEW S, NEW s \in Seq(S), NEW t \in Seq(S),
         \A i, j \in DOMAIN s : s[i] = s[j] => i = j,
         \A i, j \in DOMAIN t : t[i] = t[j] => i = j,
         ToSet(s) \cap ToSet(t) = {}
  PROVE  /\ s \o t \in Seq(S) /\ ToSet(s \o t) = ToSet(s) \cup ToSet(t)
         /\ \A i, j \in DOMAIN (s \o t) : (s \o t)[i] = (s \o t)[j] => i = j
<1>. DEFINE u == s \o t
<1>0. Len(s) \in Nat /\ Len(t) \in Nat
  BY LenProperties
<1>1. /\ Len(s) \in Nat /\ Len(t) \in Nat /\ DOMAIN s = 1..Len(s) /\ DOMAIN t = 1..Len(t)
      /\ \A i \in 1..Len(s) : s[i] \in ToSet(s)
      /\ \A i \in 1..Len(t) : t[i] \in ToSet(t)
  BY LenProperties DEF ToSet
<1>2. /\ u \in Seq(S) /\ Len(u) = Len(s) + Len(t)
      /\ \A i \in 1..(Len(s) + Len(t)) : u[i] = IF i <= Len(s) THEN s[i] ELSE t[i - Len(s)]
  BY <1>1, ConcatProperties
<1>. HIDE DEF u
<1>3. DOMAIN u = 1..(Len(s) + Len(t))
  BY <1>2, LenProperties
<1>4. /\ \A i \in 1..Len(s) : i \in DOMAIN u /\ u[i] = s[i]
      /\ \A i \in 1..Len(t) : i + Len(s) \in DOMAIN u /\ u[i + Len(s)] = t[i]
  <2>1. ASSUME NEW i \in 1..Len(t)
        PROVE  i + Len(s) \in DOMAIN u /\ u[i + Len(s)] = t[i]
    <3>1. /\ i + Len(s) \in 1..(Len(s) + Len(t)) /\ ~(i + Len(s) <= Len(s))
          /\ (i + Len(s)) - Len(s) = i
      BY <1>0
    <3>2. u[i + Len(s)] = t[(i + Len(s)) - Len(s)]
      BY <1>2, <3>1
    <3>. QED  BY <1>3, <3>1, <3>2
  <2>. QED  BY <1>1, <1>2, <1>3, <2>1
<1>5. \A i \in DOMAIN u : i \in 1..Len(s) \/ \E j \in 1..Len(t) : i = j + Len(s)
  <2>1. ASSUME NEW i \in 1..(Len(s) + Len(t)), ~(i <= Len(s))
        PROVE  \E j \in 1..Len(t) : i = j + Len(s)
    <3>1. i - Len(s) \in 1..Len(t) /\ i = (i - Len(s)) + Len(s)
      BY <1>0, <2>1
    <3>. QED  BY <3>1
  <2>2. \A i \in 1..(Len(s) + Len(t)) : i <= Len(s) => i \in 1..Len(s)
    BY <1>0
  <2>. QED  BY <1>3, <2>1, <2>2
<1>6. ToSet(u) = ToSet(s) \cup ToSet(t)
  <2>1. \A i \in DOMAIN u : u[i] \in ToSet(s) \cup ToSet(t)
    BY <1>1, <1>4, <1>5
  <2>2. \A i \in DOMAIN s : s[i] \in ToSet(u)
    BY <1>1, <1>4 DEF ToSet
  <2>3. \A i \in DOMAIN t : t[i] \in ToSet(u)
    BY <1>1, <1>4 DEF ToSet
  <2>. QED  BY <2>1, <2>2, <2>3 DEF ToSet
<1>7. ASSUME NEW i \in DOMAIN u, NEW j \in DOMAIN u, u[i] = u[j] PROVE i = j
  <2>1. CASE i \in 1..Len(s) /\ j \in 1..Len(s)
    BY <1>1, <1>4, <1>7, <2>1
  <2>2. ASSUME NEW k \in 1..Len(t), NEW l \in 1..Len(t), i = k + Len(s), j = l + Len(s)
        PROVE  i = j
    BY <1>1, <1>4, <1>7, <2>2
  <2>3. ASSUME NEW k \in 1..Len(s), NEW l \in 1..Len(t) PROVE u[k] # u[l + Len(s)]
    BY <1>1, <1>4
  <2>. QED  BY <1>5, <1>7, <2>1, <2>2, <2>3
<1>. QED  BY <1>2, <1>6, <1>7 DEF u

-----------------------------------------------------------------------------
(* Chains of nodes. *)

\* From first the next pointers lead through s to null.
IsChain(first, next, null, s) ==
  /\ first = IF s = <<>> THEN null ELSE s[1]
  /\ \A i \in DOMAIN s : next[s[i]] = IF i = Len(s) THEN null ELSE s[i + 1]

\* The walk along the next pointers satisfies its equation.
LEMMA WalkEquation ==
  ASSUME NEW first, NEW next, NEW null, NEW limit \in Nat,
         NEW at, at = Walk(first, next, null, limit)
  PROVE  /\ at[0] = first
         /\ \A n \in 1..limit : at[n] = IF at[n - 1] = null THEN null ELSE next[at[n - 1]]
<1>. DEFINE Step(f, n) ==
              IF n = 0 THEN first ELSE IF f[n - 1] = null THEN null ELSE next[f[n - 1]]
            Defined == {n \in Nat : \E f : f = [m \in 0..n |-> Step(f, m)]}
<1>1. 0 \in Defined
  <2>1. [m \in 0..0 |-> first] = [m \in 0..0 |-> Step([k \in 0..0 |-> first], m)]
    OBVIOUS
  <2>. QED  BY <2>1
<1>2. ASSUME NEW n \in Defined PROVE n + 1 \in Defined
  <2>1. PICK f : f = [m \in 0..n |-> Step(f, m)]
    OBVIOUS
  <2>. DEFINE g == [m \in 0..n + 1 |-> IF m = n + 1 THEN Step(f, m) ELSE f[m]]
  <2>2. ASSUME NEW m \in 0..n + 1 PROVE g[m] = Step(g, m)
    <3>1. CASE m = 0
      <4>1. f[0] = first
        BY <2>1
      <4>. QED  BY <3>1, <4>1
    <3>2. CASE m # 0
      <4>1. m - 1 \in 0..n /\ g[m - 1] = f[m - 1]
        BY <3>2
      <4>2. g[m] = Step(f, m)
        BY <2>1, <3>2
      <4>. QED  BY <3>2, <4>1, <4>2
    <3>. QED  BY <3>1, <3>2
  <2>3. g = [m \in 0..n + 1 |-> Step(g, m)]
    BY <2>2
  <2>. HIDE DEF g
  <2>. QED  BY <2>3
<1>3. limit \in Defined
  BY <1>1, <1>2, CountingUp
<1>4. at = CHOOSE f : f = [n \in 0..limit |-> Step(f, n)]
  BY DEF Walk
<1>5. at = [n \in 0..limit |-> Step(at, n)]
  BY <1>3, <1>4
<1>6. at[0] = first
  <2>1. 0 \in 0..limit
    OBVIOUS
  <2>2. at[0] = Step(at, 0)
    BY <1>5, <2>1
  <2>. QED  BY <2>2
<1>7. ASSUME NEW n \in 1..limit
      PROVE  at[n] = IF at[n - 1] = null THEN null ELSE next[at[n - 1]]
  <2>1. n \in 0..limit /\ n # 0
    OBVIOUS
  <2>2. at[n] = Step(at, n)
    BY <1>5, <2>1
  <2>. QED  BY <2>1, <2>2
<1>. QED  BY <1>6, <1>7

\* The chain behind a head pointer is the one list of distinct nodes, of which
\* each points to the next and the last to NULL.
LEMMA ChainIsList ==
  ASSUME NEW S, IsFiniteSet(S), NEW null, null \notin S, NEW first, NEW next,
         NEW s \in Seq(S), \A i, j \in DOMAIN s : s[i] = s[j] => i = j,
         first = IF s = <<>> THEN null ELSE s[1],
         \A i \in DOMAIN s : next[s[i]] = IF i = Len(s) THEN null ELSE s[i + 1]
  PROVE  Chain(first, next, null, Cardinality(S)) = s
<1>. DEFINE limit == Cardinality(S)
            at == Walk(first, next, null, limit)
            There(n) == IF n < Len(s) THEN s[n + 1] ELSE null
            Right == {n \in Nat : n <= limit => at[n] = There(n)}
<1>1. /\ Len(s) \in Nat /\ DOMAIN s = 1..Len(s) /\ limit \in Nat /\ Len(s) <= limit
      /\ \A i \in 1..Len(s) : s[i] \in S
  BY ListFits, LenProperties, ElementOfSeq
<1>. HIDE DEF limit
<1>10. at = Walk(first, next, null, limit) /\ limit \in Nat /\ Len(s) \in Nat
  BY <1>1
<1>. HIDE DEF at
<1>2. /\ at[0] = first
      /\ \A n \in 1..limit : at[n] = IF at[n - 1] = null THEN null ELSE next[at[n - 1]]
  BY <1>10, WalkEquation
<1>3. 0 \in Right
  <2>1. at[0] = first
    BY <1>1, <1>2
  <2>2. s = <<>> <=> Len(s) = 0
    BY <1>1, EmptySeq
  <2>. QED  BY <1>1, <2>1, <2>2
<1>4. ASSUME NEW n \in Right PROVE n + 1 \in Right
  <2>. SUFFICES ASSUME n + 1 <= limit PROVE at[n + 1] = There(n + 1)
    OBVIOUS
  <2>1. at[n] = There(n) /\ n \in Nat /\ n <= limit
    BY <1>1
  <2>2. at[n + 1] = IF at[n] = null THEN null ELSE next[at[n]]
    BY <1>1, <1>2, <2>1
  <2>3. CASE n < Len(s)
    <3>1. at[n] = s[n + 1] /\ n + 1 \in 1..Len(s) /\ s[n + 1] # null
      BY <1>1, <2>1, <2>3
    <3>2. next[s[n + 1]] = IF n + 1 = Len(s) THEN null ELSE s[(n + 1) + 1]
      BY <1>1, <3>1
    <3>3. at[n + 1] = IF n + 1 = Len(s) THEN null ELSE s[(n + 1) + 1]
      BY <2>2, <3>1, <3>2
    <3>4. n + 1 < Len(s) <=> n + 1 # Len(s)
      BY <1>10, <2>1, <2>3
    <3>. QED  BY <3>3, <3>4
  <2>4. CASE ~(n < Len(s))
    BY <1>1, <2>1, <2>2, <2>4
  <2>. QED  BY <2>3, <2>4
<1>5. Right = Nat
  BY <1>3, <1>4, CountingUp
<1>6. \A n \in 0..limit : at[n] = There(n)
  BY <1>1, <1>5
<1>7. {m \in 0..limit : at[m] # null} = 0..Len(s) - 1
  <2>1. ASSUME NEW m \in 0..limit PROVE at[m] # null <=> m \in 0..Len(s) - 1
    BY <1>1, <1>6
  <2>. QED  BY <1>1, <2>1
<1>8. Cardinality({m \in 0..limit : at[m] # null}) = Len(s)
  <2>1. Cardinality(0..Len(s) - 1) = IF 0 > Len(s) - 1 THEN 0 ELSE Len(s) - 1 - 0 + 1
    <3>1. 0 \in Int /\ Len(s) - 1 \in Int
      BY <1>1
    <3>. QED  BY <3>1, FS_Interval, Zenon
  <2>2. Cardinality(0..Len(s) - 1) = Len(s)
    BY <1>1, <2>1
  <2>. QED  BY <1>7, <2>2
<1>9. s = [n \in 1..Len(s) |-> at[n - 1]]
  <2>1. \A n \in 1..Len(s) : n - 1 \in 0..limit /\ at[n - 1] = s[n]
    BY <1>1, <1>6
  <2>2. s = [n \in 1..Len(s) |-> s[n]]
    BY LenProperties
  <2>. QED  BY <2>1, <2>2
<1>. QED  BY <1>8, <1>9 DEF Chain, at, limit

\* A node that points to null, linked behind the last node, extends the chain.
LEMMA ChainPush ==
  ASSUME NEW S, NEW null, null \notin S, NEW next \in [S -> S \cup {null}], NEW first,
         NEW s \in Seq(S), \A i, j \in DOMAIN s : s[i] = s[j] => i = j,
         IsChain(first, next, null, s), NEW x \in S, x \notin ToSet(s), s # <<>>
  PROVE  IsChain(first, [next EXCEPT ![x] = null, ![Last(s)] = x], null, Append(s, x))
<1>. DEFINE t == Append(s, x)
            g == [next EXCEPT ![x] = null, ![Last(s)] = x]
<1>0. Len(s) \in Nat
  BY LenProperties
<1>1. /\ Len(s) \in Nat /\ DOMAIN s = 1..Len(s) /\ Len(s) # 0
      /\ \A i \in 1..Len(s) : s[i] \in S /\ s[i] # x
  BY LenProperties, EmptySeq, ElementOfSeq DEF ToSet
<1>2. /\ t \in Seq(S) /\ t # <<>> /\ Len(t) = Len(s) + 1 /\ DOMAIN t = 1..(Len(s) + 1)
      /\ \A i \in 1..Len(s) : t[i] = s[i]
      /\ t[Len(s) + 1] = x
  BY AppendProperties, LenProperties
<1>. HIDE DEF t
<1>3. Last(s) = s[Len(s)] /\ Len(s) \in 1..Len(s) /\ Last(s) \in S /\ Last(s) # x
  BY <1>1 DEF Last
<1>4. /\ g[x] = null /\ g[Last(s)] = x
      /\ \A y \in S \ {x, Last(s)} : g[y] = next[y]
  BY <1>3
<1>. HIDE DEF g
<1>5. first = t[1]
  BY <1>1, <1>2 DEF IsChain
<1>6. ASSUME NEW i \in 1..(Len(s) + 1)
      PROVE  g[t[i]] = IF i = Len(s) + 1 THEN null ELSE t[i + 1]
  <2>1. CASE i = Len(s) + 1
    BY <2>1, <1>2, <1>4
  <2>2. CASE i = Len(s)
    BY <2>2, <1>1, <1>2, <1>3, <1>4
  <2>3. CASE i < Len(s)
    <3>1. i \in 1..Len(s) /\ i + 1 \in 1..Len(s) /\ i # Len(s) /\ i # Len(s) + 1
      BY <1>0, <2>3
    <3>2. s[i] # Last(s)
      BY <1>1, <1>3, <3>1
    <3>3. g[t[i]] = next[s[i]]
      BY <1>1, <1>2, <1>4, <3>1, <3>2
    <3>4. next[s[i]] = s[i + 1]
      BY <1>1, <3>1 DEF IsChain
    <3>. QED  BY <1>2, <3>1, <3>3, <3>4
  <2>. QED  BY <1>1, <2>1, <2>2, <2>3
<1>7. t[1] = first /\ IsChain(first, g, null, t)
  BY <1>2, <1>5, <1>6 DEF IsChain
<1>. QED  BY <1>7 DEF t, g

\* The first node unlinked: the chain goes on from the second.
LEMMA ChainShift ==
  ASSUME NEW S, NEW null, NEW next \in [S -> S \cup {null}], NEW first,
         NEW s \in Seq(S), \A i, j \in DOMAIN s : s[i] = s[j] => i = j,
         IsChain(first, next, null, s), s # <<>>
  PROVE  IsChain(next[s[1]], [next EXCEPT ![s[1]] = null], null, RemoveAt(s, 1))
<1>. DEFINE t == RemoveAt(s, 1)
            g == [next EXCEPT ![s[1]] = null]
<1>0. Len(s) \in Nat
  BY LenProperties
<1>1. /\ Len(s) \in Nat /\ DOMAIN s = 1..Len(s) /\ Len(s) # 0 /\ 1 \in 1..Len(s)
      /\ \A i \in 1..Len(s) : s[i] \in S
  <2>1. Len(s) # 0
    BY EmptySeq
  <2>. QED  BY <2>1, LenProperties, ElementOfSeq
<1>2. /\ t \in Seq(S) /\ Len(t) = Len(s) - 1
      /\ \A i \in 1..Len(s) - 1 : t[i] = IF i < 1 THEN s[i] ELSE s[i + 1]
  <2>1. \A k \in 1..Len(s) :
          /\ RemoveAt(s, k) \in Seq(S) /\ Len(RemoveAt(s, k)) = Len(s) - 1
          /\ \A i \in 1..Len(s) - 1 : RemoveAt(s, k)[i] = IF i < k THEN s[i] ELSE s[i + 1]
    BY RemoveAtPlaces
  <2>. QED  BY <1>1, <2>1, Zenon
<1>. HIDE DEF t
<1>3. /\ DOMAIN t = 1..(Len(s) - 1) /\ (t = <<>> <=> Len(s) = 1)
      /\ \A i \in 1..Len(s) - 1 : t[i] = s[i + 1]
  BY <1>1, <1>2, LenProperties, EmptySeq
<1>4. \A y \in S \ {s[1]} : g[y] = next[y]
  OBVIOUS
<1>. HIDE DEF g
<1>5. next[s[1]] = IF t = <<>> THEN null ELSE t[1]
  <2>1. next[s[1]] = IF 1 = Len(s) THEN null ELSE s[1 + 1]
    BY <1>1 DEF IsChain
  <2>2. Len(s) # 1 => 1 \in 1..Len(s) - 1
    BY <1>1
  <2>. QED  BY <1>3, <2>1, <2>2
<1>6. ASSUME NEW i \in 1..(Len(s) - 1)
      PROVE  g[t[i]] = IF i = Len(s) - 1 THEN null ELSE t[i + 1]
  <2>1. i + 1 \in 1..Len(s) /\ i + 1 # 1
    BY <1>0
  <2>2. s[i + 1] # s[1]
    BY <1>1, <2>1
  <2>3. g[t[i]] = next[s[i + 1]]
    BY <1>1, <1>3, <1>4, <2>1, <2>2
  <2>4. next[s[i + 1]] = IF i + 1 = Len(s) THEN null ELSE s[(i + 1) + 1]
    BY <1>1, <2>1 DEF IsChain
  <2>5. i # Len(s) - 1 => i + 1 \in 1..Len(s) - 1
    BY <1>0
  <2>6. i + 1 = Len(s) <=> i = Len(s) - 1
    BY <1>0
  <2>. QED  BY <1>3, <2>3, <2>4, <2>5, <2>6
<1>7. IsChain(next[s[1]], g, null, t)
  BY <1>2, <1>3, <1>5, <1>6 DEF IsChain
<1>. QED  BY <1>7 DEF t, g

\* A later node unlinked: the one before it points to the one behind it.
LEMMA ChainUnlink ==
  ASSUME NEW S, NEW null, NEW next \in [S -> S \cup {null}], NEW first,
         NEW s \in Seq(S), \A i, j \in DOMAIN s : s[i] = s[j] => i = j,
         IsChain(first, next, null, s), NEW k \in 2..Len(s)
  PROVE  IsChain(first, [next EXCEPT ![s[k - 1]] = next[s[k]], ![s[k]] = null], null,
                 RemoveAt(s, k))
<1>. DEFINE t == RemoveAt(s, k)
            g == [next EXCEPT ![s[k - 1]] = next[s[k]], ![s[k]] = null]
<1>0. Len(s) \in Nat /\ k \in Nat /\ 2 <= k /\ k <= Len(s)
  BY LenProperties
<1>1. /\ Len(s) \in Nat /\ DOMAIN s = 1..Len(s) /\ k \in 1..Len(s) /\ k - 1 \in 1..Len(s)
      /\ 1 \in 1..Len(s) /\ 1 < k /\ k <= Len(s) /\ k \in Nat
      /\ \A i \in 1..Len(s) : s[i] \in S
  BY LenProperties, ElementOfSeq
<1>2. /\ t \in Seq(S) /\ Len(t) = Len(s) - 1
      /\ \A i \in 1..Len(s) - 1 : t[i] = IF i < k THEN s[i] ELSE s[i + 1]
  BY <1>1, RemoveAtPlaces
<1>. HIDE DEF t
<1>3. DOMAIN t = 1..(Len(s) - 1) /\ t # <<>>
  BY <1>1, <1>2, LenProperties, EmptySeq
<1>4. s[k] # s[k - 1]
  BY <1>1
<1>5. /\ g[s[k - 1]] = next[s[k]]
      /\ \A y \in S \ {s[k], s[k - 1]} : g[y] = next[y]
  BY <1>1, <1>4
<1>. HIDE DEF g
<1>6. \A i \in 1..Len(s) : next[s[i]] = IF i = Len(s) THEN null ELSE s[i + 1]
  BY <1>1 DEF IsChain
<1>7. first = t[1]
  <2>1. 1 \in 1..Len(s) - 1 /\ s # <<>>
    BY <1>1, EmptySeq
  <2>. QED  BY <1>1, <1>2, <2>1 DEF IsChain
<1>8. ASSUME NEW i \in 1..(Len(s) - 1)
      PROVE  g[t[i]] = IF i = Len(s) - 1 THEN null ELSE t[i + 1]
  <2>0. i \in Nat /\ i <= Len(s) - 1 /\ i \in 1..Len(s) /\ i + 1 \in 1..Len(s)
    BY <1>0
  <2>5. i # Len(s) - 1 => i + 1 \in 1..Len(s) - 1
    BY <1>0, <2>0
  <2>1. CASE i < k - 1
    <3>1. i < k /\ i + 1 < k /\ i # Len(s) - 1 /\ i # Len(s) /\ i # k /\ i # k - 1
      BY <1>0, <2>0, <2>1
    <3>2. s[i] # s[k] /\ s[i] # s[k - 1]
      BY <1>1, <2>0, <3>1
    <3>3. t[i] = s[i] /\ t[i + 1] = s[i + 1]
      BY <1>2, <2>0, <2>5, <3>1
    <3>4. g[s[i]] = next[s[i]] /\ next[s[i]] = s[i + 1]
      BY <1>1, <1>5, <1>6, <2>0, <3>1, <3>2
    <3>. QED  BY <3>1, <3>3, <3>4
  <2>2. CASE i = k - 1
    <3>1. i < k /\ ~(i + 1 < k) /\ i + 1 = k
      BY <1>0, <2>0, <2>2
    <3>2. g[t[i]] = next[s[k]]
      BY <1>2, <1>5, <2>2, <3>1
    <3>3. next[s[k]] = IF k = Len(s) THEN null ELSE s[k + 1]
      BY <1>1, <1>6
    <3>4. i # Len(s) - 1 => t[i + 1] = s[(i + 1) + 1]
      BY <1>2, <2>5, <3>1
    <3>5. k = Len(s) <=> i = Len(s) - 1
      BY <1>0, <2>0, <2>2
    <3>. QED  BY <3>1, <3>2, <3>3, <3>4, <3>5
  <2>3. CASE i > k - 1
    <3>1. ~(i < k) /\ ~(i + 1 < k) /\ i + 1 # k /\ i + 1 # k - 1
      BY <1>0, <2>0, <2>3
    <3>2. s[i + 1] # s[k] /\ s[i + 1] # s[k - 1]
      BY <1>1, <2>0, <3>1
    <3>3. g[t[i]] = next[s[i + 1]]
      BY <1>1, <1>2, <1>5, <2>0, <3>1, <3>2
    <3>4. next[s[i + 1]] = IF i + 1 = Len(s) THEN null ELSE s[(i + 1) + 1]
      BY <1>6, <2>0
    <3>5. i # Len(s) - 1 => t[i + 1] = s[(i + 1) + 1]
      BY <1>2, <2>5, <3>1
    <3>6. i + 1 = Len(s) <=> i = Len(s) - 1
      BY <1>0, <2>0
    <3>. QED  BY <3>3, <3>4, <3>5, <3>6
  <2>4. i < k - 1 \/ i = k - 1 \/ i > k - 1
    BY <1>0, <2>0
  <2>. QED  BY <2>1, <2>2, <2>3, <2>4
<1>9. IsChain(first, g, null, t)
  BY <1>2, <1>3, <1>7, <1>8 DEF IsChain
<1>. QED  BY <1>9 DEF t, g

\* A chain stays one when pointers elsewhere change.
LEMMA ChainKept ==
  ASSUME NEW null, NEW next, NEW first, NEW s, NEW g,
         IsChain(first, next, null, s), \A x \in ToSet(s) : g[x] = next[x]
  PROVE  IsChain(first, g, null, s)
BY DEF IsChain, ToSet

-----------------------------------------------------------------------------
(* What the nodes of a list point to. *)

Contents(held, s) == [n \in DOMAIN s |-> held[s[n]]]

Alike(s, held, h) == \A y \in ToSet(s) : h[y] = held[y]

LEMMA ContentsElements ==
  ASSUME NEW S, NEW T, NEW s \in Seq(S), NEW held, \A x \in ToSet(s) : held[x] \in T
  PROVE  Contents(held, s) \in Seq(T) /\ Len(Contents(held, s)) = Len(s)
<1>1. Len(s) \in Nat /\ DOMAIN s = 1..Len(s)
  BY LenProperties
<1>2. \A n \in 1..Len(s) : s[n] \in ToSet(s)
  BY <1>1 DEF ToSet
<1>3. Contents(held, s) \in [1..Len(s) -> T]
  BY <1>1, <1>2 DEF Contents
<1>. QED  BY <1>1, <1>3

LEMMA ContentsAre ==
  ASSUME NEW s, NEW held
  PROVE  ToSet(Contents(held, s)) = {held[x] : x \in ToSet(s)}
BY DEF Contents, ToSet

\* The new node's record comes last.
LEMMA ContentsPushed ==
  ASSUME NEW S, NEW s \in Seq(S), NEW held, NEW h, Alike(s, held, h)
  PROVE  \A x \in S : Contents(h, Append(s, x)) = Append(Contents(held, s), h[x])
<1>. SUFFICES ASSUME NEW x \in S
              PROVE  Contents(h, Append(s, x)) = Append(Contents(held, s), h[x])
  OBVIOUS
<1>. DEFINE T == {held[y] : y \in ToSet(s)} \cup {h[x]}
<1>0. h[x] \in T /\ \A y \in ToSet(s) : held[y] \in T /\ h[y] = held[y]
  BY DEF Alike
<1>. HIDE DEF T
<1>. DEFINE a == Contents(h, Append(s, x))
            b == Append(Contents(held, s), h[x])
<1>1. /\ Len(s) \in Nat /\ DOMAIN s = 1..Len(s)
      /\ Contents(held, s) \in Seq(T) /\ Len(Contents(held, s)) = Len(s)
  BY <1>0, LenProperties, ContentsElements
<1>2. /\ Append(s, x) \in Seq(S) /\ Len(Append(s, x)) = Len(s) + 1
      /\ ToSet(Append(s, x)) = ToSet(s) \cup {x}
      /\ \A n \in 1..Len(s) : Append(s, x)[n] = s[n]
      /\ Append(s, x)[Len(s) + 1] = x
  BY AppendElements, AppendProperties
<1>3. \A n \in 1..Len(s) : s[n] \in ToSet(s)
  BY <1>1 DEF ToSet
<1>4. a \in Seq(T) /\ Len(a) = Len(s) + 1
  <2>1. \A n \in 1..Len(s) + 1 : h[Append(s, x)[n]] \in T
    BY <1>0, <1>1, <1>2, <1>3
  <2>2. a \in [1..Len(s) + 1 -> T]
    BY <1>1, <1>2, <2>1, LenProperties DEF Contents
  <2>. HIDE DEF a
  <2>. QED  BY <1>1, <2>2
<1>5. /\ b \in Seq(T) /\ Len(b) = Len(s) + 1 /\ b[Len(s) + 1] = h[x]
      /\ \A n \in 1..Len(s) : b[n] = Contents(held, s)[n]
  BY <1>0, <1>1, AppendProperties
<1>6. \A n \in 1..Len(s) + 1 : a[n] = h[Append(s, x)[n]]
  BY <1>1, <1>2, LenProperties DEF Contents
<1>7. \A n \in 1..Len(s) : Contents(held, s)[n] = held[s[n]]
  BY <1>1 DEF Contents
<1>. HIDE DEF a, b
<1>8. \A n \in 1..Len(a) : a[n] = b[n]
  BY <1>0, <1>1, <1>2, <1>3, <1>4, <1>5, <1>6, <1>7
<1>9. a = b
  BY <1>4, <1>5, <1>8, SeqEqual
<1>. QED  BY <1>9 DEF a, b

\* The records of the remaining nodes keep their order.
LEMMA ContentsRemoved ==
  ASSUME NEW S, NEW s \in Seq(S), \A i, j \in DOMAIN s : s[i] = s[j] => i = j,
         NEW k \in 1..Len(s), NEW held, NEW h,
         \A y \in ToSet(s) \ {s[k]} : h[y] = held[y]
  PROVE  Contents(h, RemoveAt(s, k)) = RemoveAt(Contents(held, s), k)
<1>. DEFINE T == {held[y] : y \in ToSet(s)}
<1>0. \A y \in ToSet(s) : held[y] \in T
  OBVIOUS
<1>. HIDE DEF T
<1>. DEFINE r == RemoveAt(s, k)
            c == Contents(held, s)
            a == Contents(h, r)
            b == RemoveAt(c, k)
<1>1. /\ Len(s) \in Nat /\ DOMAIN s = 1..Len(s)
      /\ \A n \in 1..Len(s) : s[n] \in ToSet(s)
  BY LenProperties DEF ToSet
<1>2. c \in Seq(T) /\ Len(c) = Len(s) /\ \A n \in 1..Len(s) : c[n] = held[s[n]]
  BY <1>0, <1>1, ContentsElements DEF Contents
<1>3. /\ r \in Seq(S) /\ Len(r) = Len(s) - 1 /\ ToSet(r) = ToSet(s) \ {s[k]}
      /\ \A n \in 1..Len(s) - 1 : r[n] = IF n < k THEN s[n] ELSE s[n + 1]
  <2>1. ToSet(r) = ToSet(s) \ {s[k]}
    BY RemoveAtElements
  <2>. QED  BY <2>1, RemoveAtPlaces
<1>. HIDE DEF r, c
<1>4. a \in Seq(T) /\ Len(a) = Len(s) - 1 /\ \A n \in 1..Len(s) - 1 : a[n] = h[r[n]]
  <2>1. \A y \in ToSet(r) : h[y] \in T
    <3>1. \A y \in ToSet(r) : h[y] = held[y] /\ held[y] \in T
      BY <1>0, <1>3
    <3>. QED  BY <3>1
  <2>2. a \in Seq(T) /\ Len(a) = Len(r)
    BY <1>3, <2>1, ContentsElements
  <2>3. DOMAIN r = 1..(Len(s) - 1)
    BY <1>3, LenProperties
  <2>4. \A n \in 1..Len(s) - 1 : a[n] = h[r[n]]
    BY <2>3 DEF Contents
  <2>. QED  BY <1>3, <2>2, <2>4
<1>5. /\ b \in Seq(T) /\ Len(b) = Len(s) - 1
      /\ \A n \in 1..Len(s) - 1 : b[n] = IF n < k THEN c[n] ELSE c[n + 1]
  BY <1>2, RemoveAtPlaces
<1>. HIDE DEF a, b
<1>6. ASSUME NEW n \in 1..Len(s) - 1 PROVE a[n] = b[n]
  <2>1. n \in 1..Len(s) /\ n + 1 \in 1..Len(s) /\ k \in 1..Len(s) /\ n \in Nat
    BY <1>1
  <2>2. r[n] \in ToSet(s) \ {s[k]}
    <3>1. n \in DOMAIN r
      BY <1>1, <1>3, LenProperties
    <3>. QED  BY <1>3, <3>1 DEF ToSet
  <2>3. a[n] = held[r[n]]
    BY <1>4, <2>2
  <2>4. r[n] = (IF n < k THEN s[n] ELSE s[n + 1]) /\ b[n] = IF n < k THEN c[n] ELSE c[n + 1]
    BY <1>3, <1>5
  <2>. QED  BY <1>2, <2>1, <2>3, <2>4
<1>7. \A n \in 1..Len(a) : a[n] = b[n]
  BY <1>4, <1>6
<1>8. a = b
  BY <1>4, <1>5, <1>7, SeqEqual
<1>. QED  BY <1>8 DEF a, b, r, c

LEMMA ContentsKept ==
  ASSUME NEW s, NEW held, NEW h, \A y \in ToSet(s) : h[y] = held[y]
  PROVE  Contents(h, s) = Contents(held, s)
BY DEF Contents, ToSet
===============================================================================
