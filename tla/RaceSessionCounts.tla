--------------------------- MODULE RaceSessionCounts ---------------------------
(***************************************************************************)
(* RaceSession for every number of joiners and every size of a game: how   *)
(* long messages are and when they fit into the buffer, what the creator   *)
(* counts for players, whose game ID and password it starts with, and that *)
(* nobody but a creator left out waits for an answer which is not to come. *)
(***************************************************************************)
EXTENDS RaceSessionProofs, TLAPS

-----------------------------------------------------------------------------
(* How long messages are. *)

\* The pointer moves by the width of each field.
LEMMA PointerEquation ==
  ASSUME NEW l, Len(l) \in Nat
  PROVE  /\ Pointer(l)[0] = 0
         /\ \A n \in 1..Len(l) : Pointer(l)[n] = Pointer(l)[n - 1] + l[n].width
<1>. DEFINE limit == Len(l)
            Round(f, n) == IF n = 0 THEN 0 ELSE f[n - 1] + l[n].width
            Defined == {n \in Nat : \E f : f = [m \in 0..n |-> Round(f, m)]}
            at == CHOOSE f : f = [n \in 0..limit |-> Round(f, n)]
<1>1. 0 \in Defined
  <2>1. [m \in 0..0 |-> 0] = [m \in 0..0 |-> Round([k \in 0..0 |-> 0], m)]
    OBVIOUS
  <2>. QED  BY <2>1
<1>2. ASSUME NEW n \in Defined PROVE n + 1 \in Defined
  <2>1. PICK f : f = [m \in 0..n |-> Round(f, m)]
    OBVIOUS
  <2>. DEFINE g == [m \in 0..n + 1 |-> IF m = n + 1 THEN Round(f, m) ELSE f[m]]
  <2>2. ASSUME NEW m \in 0..n + 1 PROVE g[m] = Round(g, m)
    <3>1. CASE m = 0
      <4>1. f[0] = 0
        BY <2>1
      <4>. QED  BY <3>1, <4>1
    <3>2. CASE m # 0
      <4>1. m - 1 \in 0..n /\ g[m - 1] = f[m - 1]
        BY <3>2
      <4>2. g[m] = Round(f, m)
        <5>1. m = n + 1 \/ m \in 0..n
          OBVIOUS
        <5>. HIDE DEF Round, Defined
        <5>2. m \in 0..n => f[m] = Round(f, m)
          BY <2>1
        <5>. QED  BY <5>1, <5>2
      <4>. QED  BY <3>2, <4>1, <4>2
    <3>. QED  BY <3>1, <3>2
  <2>3. g = [m \in 0..n + 1 |-> Round(g, m)]
    BY <2>2
  <2>. HIDE DEF g, Round
  <2>. QED  BY <2>3
<1>3. limit \in Defined
  BY <1>1, <1>2, CountingUp
<1>4. at = [n \in 0..limit |-> Round(at, n)]
  BY <1>3
<1>5. Pointer(l) = at
  BY DEF Pointer
<1>. HIDE DEF at, Defined
<1>6. at[0] = 0
  <2>1. 0 \in 0..limit
    OBVIOUS
  <2>2. at[0] = Round(at, 0)
    BY <1>4, <2>1
  <2>. QED  BY <2>2
<1>7. ASSUME NEW n \in 1..limit PROVE at[n] = at[n - 1] + l[n].width
  <2>1. n \in 0..limit /\ n # 0
    OBVIOUS
  <2>2. at[n] = Round(at, n)
    BY <1>4, <2>1
  <2>. QED  BY <2>1, <2>2
<1>. QED  BY <1>5, <1>6, <1>7

FieldNames ==
  {"type", "clientName", "playerName", "gameName", "fieldName", "password", "count", "status",
   "winner", "gameId", "playerId", "fieldId", "width", "height", "laps", "x", "y", "angle", "speed",
   "acceleration", "actionX", "actionY", "startX", "startY", "startEndX", "startEndY", "mainX",
   "mainY", "mainEndX", "mainEndY", "extraLines"}
FieldsOfMessages == [name : FieldNames, of : Nat, width : Nat]
Layouts == Seq(FieldsOfMessages)

LEMMA LayoutFields ==
  ASSUME NEW l \in Layouts
  PROVE  Len(l) \in Nat /\ \A n \in 1..Len(l) : l[n] \in FieldsOfMessages /\ l[n].width \in Nat
<1>1. Len(l) \in Nat /\ \A n \in 1..Len(l) : l[n] \in FieldsOfMessages
  BY DEF Layouts
<1>2. \A f \in FieldsOfMessages : f.width \in Nat
  BY DEF FieldsOfMessages
<1>. QED  BY <1>1, <1>2

\* Places count up from nothing, as far as the layout goes.
LEMMA PointerTypes ==
  ASSUME NEW l \in Layouts
  PROVE  \A n \in 0..Len(l) : Pointer(l)[n] \in Nat
<1>. DEFINE S == {n \in Nat : n <= Len(l) => Pointer(l)[n] \in Nat}
<1>1. /\ Len(l) \in Nat /\ \A n \in 1..Len(l) : l[n].width \in Nat
      /\ Pointer(l)[0] = 0
      /\ \A n \in 1..Len(l) : Pointer(l)[n] = Pointer(l)[n - 1] + l[n].width
  <2>1. Len(l) \in Nat /\ \A n \in 1..Len(l) : l[n].width \in Nat
    BY LayoutFields
  <2>. QED  BY <2>1, PointerEquation
<1>2. 0 \in S
  BY <1>1
<1>3. ASSUME NEW n \in S PROVE n + 1 \in S
  <2>1. CASE n + 1 <= Len(l)
    <3>1. n + 1 \in 1..Len(l) /\ n + 1 - 1 = n /\ Pointer(l)[n] \in Nat
      BY <1>1, <2>1
    <3>2. Pointer(l)[n + 1] = Pointer(l)[n + 1 - 1] + l[n + 1].width /\ l[n + 1].width \in Nat
      BY <1>1, <3>1
    <3>3. Pointer(l)[n + 1] = Pointer(l)[n] + l[n + 1].width
      BY <3>1, <3>2
    <3>. QED  BY <3>1, <3>2, <3>3
  <2>2. CASE ~(n + 1 <= Len(l))
    BY <2>2
  <2>. QED  BY <2>1, <2>2
<1>4. S = Nat
  <2>. HIDE DEF S
  <2>1. S \in SUBSET Nat
    BY DEF S
  <2>. QED  BY <1>2, <1>3, <2>1, CountingUp
<1>. QED  BY <1>1, <1>4

\* Fields that are as wide as each other lie in the same places.
LEMMA SameWidths ==
  ASSUME NEW l \in Layouts, NEW m \in Layouts, Len(l) = Len(m),
         \A i \in 1..Len(l) : l[i].width = m[i].width
  PROVE  Size(l) = Size(m)
<1>. DEFINE S == {n \in Nat : n <= Len(l) => Pointer(l)[n] = Pointer(m)[n]}
<1>1. Len(l) \in Nat
  BY DEF Layouts
<1>2. /\ Pointer(l)[0] = 0 /\ Pointer(m)[0] = 0
      /\ \A n \in 1..Len(l) : Pointer(l)[n] = Pointer(l)[n - 1] + l[n].width
      /\ \A n \in 1..Len(l) : Pointer(m)[n] = Pointer(m)[n - 1] + m[n].width
  BY <1>1, PointerEquation
<1>3. 0 \in S
  BY <1>2
<1>4. ASSUME NEW n \in S PROVE n + 1 \in S
  <2>1. CASE n + 1 <= Len(l)
    <3>1. n + 1 \in 1..Len(l) /\ n + 1 - 1 = n /\ Pointer(l)[n] = Pointer(m)[n]
      BY <1>1, <2>1
    <3>2. /\ Pointer(l)[n + 1] = Pointer(l)[n + 1 - 1] + l[n + 1].width
          /\ Pointer(m)[n + 1] = Pointer(m)[n + 1 - 1] + m[n + 1].width
          /\ l[n + 1].width = m[n + 1].width
      BY <1>2, <3>1
    <3>. QED  BY <3>1, <3>2
  <2>2. CASE ~(n + 1 <= Len(l))
    BY <2>2
  <2>. QED  BY <2>1, <2>2
<1>5. S = Nat
  <2>. HIDE DEF S
  <2>1. S \in SUBSET Nat
    BY DEF S
  <2>. QED  BY <1>3, <1>4, <2>1, CountingUp
<1>. QED  BY <1>1, <1>5 DEF Size

\* What is written behind something else is moved by its size.
LEMMA SizeOfBoth ==
  ASSUME NEW l \in Layouts, NEW m \in Layouts
  PROVE  l \o m \in Layouts /\ Size(l \o m) = Size(l) + Size(m) /\ Size(l) \in Nat
<1>. DEFINE b == l \o m
            S == {n \in Nat : n <= Len(l) => Pointer(b)[n] = Pointer(l)[n]}
            T == {n \in Nat : n <= Len(m) => Pointer(b)[Len(l) + n] = Size(l) + Pointer(m)[n]}
<1>1. /\ Len(l) \in Nat /\ Len(m) \in Nat
      /\ b \in Layouts /\ Len(b) = Len(l) + Len(m)
      /\ \A n \in 1..Len(l) : b[n] = l[n]
      /\ \A n \in 1..Len(m) : b[Len(l) + n] = m[n]
  <2>1. /\ Len(l) \in Nat /\ Len(m) \in Nat
        /\ b \in Layouts /\ Len(b) = Len(l) + Len(m)
        /\ \A i \in 1..Len(l) + Len(m) : b[i] = IF i <= Len(l) THEN l[i] ELSE m[i - Len(l)]
    BY ConcatProperties DEF Layouts
  <2>. HIDE DEF b
  <2>. QED  BY <2>1
<1>2. /\ Pointer(l)[0] = 0 /\ Pointer(m)[0] = 0 /\ Pointer(b)[0] = 0
      /\ \A n \in 1..Len(l) : Pointer(l)[n] = Pointer(l)[n - 1] + l[n].width
      /\ \A n \in 1..Len(m) : Pointer(m)[n] = Pointer(m)[n - 1] + m[n].width
      /\ \A n \in 1..Len(b) : Pointer(b)[n] = Pointer(b)[n - 1] + b[n].width
  <2>1. Len(b) \in Nat
    BY <1>1
  <2>. HIDE DEF b
  <2>. QED  BY <1>1, <2>1, PointerEquation
<1>3. /\ \A n \in 0..Len(l) : Pointer(l)[n] \in Nat
      /\ \A n \in 0..Len(m) : Pointer(m)[n] \in Nat
      /\ \A n \in 1..Len(m) : m[n].width \in Nat
  BY PointerTypes, LayoutFields
<1>. HIDE DEF b
<1>4. S = Nat
  <2>1. 0 \in S
    BY <1>2
  <2>2. ASSUME NEW n \in S PROVE n + 1 \in S
    <3>1. CASE n + 1 <= Len(l)
      <4>1. n + 1 \in 1..Len(l) /\ n + 1 \in 1..Len(b) /\ n + 1 - 1 = n /\ Pointer(b)[n] = Pointer(l)[n]
        BY <1>1, <3>1
      <4>2. /\ Pointer(l)[n + 1] = Pointer(l)[n + 1 - 1] + l[n + 1].width
            /\ Pointer(b)[n + 1] = Pointer(b)[n + 1 - 1] + b[n + 1].width
            /\ b[n + 1] = l[n + 1]
        BY <1>1, <1>2, <4>1
      <4>. QED  BY <4>1, <4>2
    <3>2. CASE ~(n + 1 <= Len(l))
      BY <3>2
    <3>. QED  BY <3>1, <3>2
  <2>. HIDE DEF S
  <2>3. S \in SUBSET Nat
    BY DEF S
  <2>. QED  BY <2>1, <2>2, <2>3, CountingUp
<1>5. Pointer(b)[Len(l)] = Size(l) /\ Size(l) \in Nat
  <2>1. Len(l) \in S /\ Len(l) \in 0..Len(l)
    BY <1>1, <1>4
  <2>. QED  BY <1>1, <1>3, <2>1 DEF Size
<1>6. T = Nat
  <2>1. 0 \in T
    BY <1>1, <1>2, <1>5
  <2>2. ASSUME NEW n \in T PROVE n + 1 \in T
    <3>1. CASE n + 1 <= Len(m)
      <4>1. /\ n + 1 \in 1..Len(m) /\ Len(l) + (n + 1) \in 1..Len(b)
            /\ n + 1 - 1 = n /\ Len(l) + (n + 1) - 1 = Len(l) + n /\ n \in 0..Len(m)
            /\ Pointer(b)[Len(l) + n] = Size(l) + Pointer(m)[n]
        BY <1>1, <3>1
      <4>2. /\ Pointer(m)[n + 1] = Pointer(m)[n] + m[n + 1].width
            /\ Pointer(b)[Len(l) + (n + 1)] = Pointer(b)[Len(l) + n] + b[Len(l) + (n + 1)].width
            /\ b[Len(l) + (n + 1)] = m[n + 1]
        <5>1. /\ Pointer(m)[n + 1] = Pointer(m)[n + 1 - 1] + m[n + 1].width
              /\ Pointer(b)[Len(l) + (n + 1)] = Pointer(b)[Len(l) + (n + 1) - 1] + b[Len(l) + (n + 1)].width
              /\ b[Len(l) + (n + 1)] = m[n + 1]
          BY <1>1, <1>2, <4>1
        <5>. QED  BY <4>1, <5>1
      <4>3. Pointer(m)[n] \in Nat /\ m[n + 1].width \in Nat
        BY <1>3, <4>1
      <4>. QED  BY <1>5, <4>1, <4>2, <4>3
    <3>2. CASE ~(n + 1 <= Len(m))
      BY <3>2
    <3>. QED  BY <3>1, <3>2
  <2>. HIDE DEF T
  <2>3. T \in SUBSET Nat
    BY DEF T
  <2>. QED  BY <2>1, <2>2, <2>3, CountingUp
<1>7. Size(b) = Size(l) + Size(m)
  <2>1. Len(m) \in T
    BY <1>1, <1>6
  <2>. QED  BY <1>1, <2>1 DEF Size
<1>. QED  BY <1>1, <1>5, <1>7 DEF b

\* Fields of one width take that width each.
LEMMA FieldsSize ==
  ASSUME NEW fs \in Seq(FieldNames), NEW w \in Nat
  PROVE  Fields(fs, w) \in Layouts /\ Size(Fields(fs, w)) = Len(fs) * w
<1>. DEFINE l == Fields(fs, w)
            S == {n \in Nat : n <= Len(l) => Pointer(l)[n] = n * w}
<1>1. /\ l \in Layouts /\ Len(l) = Len(fs) /\ Len(fs) \in Nat
      /\ \A n \in 1..Len(l) : l[n].width = w
  <2>1. Len(fs) \in Nat /\ DOMAIN fs = 1..Len(fs) /\ \A i \in 1..Len(fs) : fs[i] \in FieldNames
    OBVIOUS
  <2>2. l = [i \in 1..Len(fs) |-> [name |-> fs[i], of |-> 0, width |-> w]]
    BY <2>1 DEF Fields
  <2>3. \A i \in 1..Len(fs) : [name |-> fs[i], of |-> 0, width |-> w] \in FieldsOfMessages
    BY <2>1 DEF FieldsOfMessages
  <2>. QED  BY <2>1, <2>2, <2>3 DEF Layouts
<1>2. /\ Pointer(l)[0] = 0
      /\ \A n \in 1..Len(l) : Pointer(l)[n] = Pointer(l)[n - 1] + l[n].width
  <2>. HIDE DEF l
  <2>. QED  BY <1>1, PointerEquation
<1>. HIDE DEF l
<1>3. 0 \in S
  BY <1>2
<1>4. ASSUME NEW n \in S PROVE n + 1 \in S
  <2>1. CASE n + 1 <= Len(l)
    <3>1. n + 1 \in 1..Len(l) /\ n + 1 - 1 = n /\ Pointer(l)[n] = n * w
      BY <1>1, <2>1
    <3>2. Pointer(l)[n + 1] = Pointer(l)[n + 1 - 1] + l[n + 1].width /\ l[n + 1].width = w
      BY <1>1, <1>2, <3>1
    <3>3. Pointer(l)[n + 1] = n * w + w
      BY <3>1, <3>2
    <3>4. n * w + w = (n + 1) * w
      OBVIOUS
    <3>. QED  BY <3>3, <3>4
  <2>2. CASE ~(n + 1 <= Len(l))
    BY <2>2
  <2>. QED  BY <2>1, <2>2
<1>5. S = Nat
  <2>. HIDE DEF S
  <2>1. S \in SUBSET Nat
    BY DEF S
  <2>. QED  BY <1>3, <1>4, <2>1, CountingUp
<1>6. Size(l) = Len(fs) * w
  <2>1. Len(l) \in S
    BY <1>1, <1>5
  <2>. QED  BY <1>1, <2>1 DEF Size
<1>. QED  BY <1>1, <1>6 DEF l

\* Renumbering the fields of a player or game moves nothing.
LEMMA CopySize ==
  ASSUME NEW l \in Layouts, NEW k \in Nat
  PROVE  LET copy == [i \in DOMAIN l |-> [l[i] EXCEPT !.of = k]]
         IN  copy \in Layouts /\ Size(copy) = Size(l)
<1>. DEFINE copy == [i \in DOMAIN l |-> [l[i] EXCEPT !.of = k]]
<1>1. Len(l) \in Nat /\ DOMAIN l = 1..Len(l) /\ \A n \in 1..Len(l) : l[n] \in FieldsOfMessages
  BY LayoutFields DEF Layouts
<1>2. \A f \in FieldsOfMessages : /\ [f EXCEPT !.of = k] \in FieldsOfMessages
                                 /\ [f EXCEPT !.of = k].width = f.width
  BY DEF FieldsOfMessages
<1>. HIDE DEF FieldsOfMessages
<1>3. /\ copy \in Layouts /\ Len(copy) = Len(l)
      /\ \A i \in 1..Len(l) : copy[i].width = l[i].width
  <2>1. copy = [i \in 1..Len(l) |-> [l[i] EXCEPT !.of = k]]
    BY <1>1
  <2>2. \A i \in 1..Len(l) : copy[i] \in FieldsOfMessages /\ copy[i].width = l[i].width
    BY <1>1, <1>2, <2>1
  <2>3. copy = [i \in 1..Len(l) |-> copy[i]]
    BY <2>1
  <2>. HIDE DEF copy
  <2>4. copy \in Seq(FieldsOfMessages) /\ Len(copy) = Len(l)
    BY <1>1, <2>2, <2>3
  <2>. QED  BY <2>2, <2>4 DEF Layouts
<1>. HIDE DEF copy
<1>4. Size(copy) = Size(l)
  BY <1>3, SameWidths
<1>. QED  BY <1>3, <1>4 DEF copy

\* A sequence of pieces flattens to the pieces joined one behind the other.
LEMMA FlattenEquation ==
  ASSUME NEW s, Len(s) \in Nat \ {0}
  PROVE  \E f : /\ f = [i \in 1..Len(s) |-> IF i = 1 THEN s[i] ELSE f[i - 1] \o s[i]]
                /\ FlattenSeq(s) = f[Len(s)]
<1>. DEFINE limit == Len(s)
            Round(f, i) == IF i = 1 THEN s[i] ELSE f[i - 1] \o s[i]
            Defined == {n \in Nat : \E f : f = [m \in 1..n |-> Round(f, m)]}
            at == CHOOSE f : f = [i \in 1..limit |-> Round(f, i)]
<1>1. 0 \in Defined
  <2>1. [m \in 1..0 |-> 0] = [m \in 1..0 |-> Round([k \in 1..0 |-> 0], m)]
    OBVIOUS
  <2>. QED  BY <2>1
<1>2. ASSUME NEW n \in Defined PROVE n + 1 \in Defined
  <2>1. PICK f : f = [m \in 1..n |-> Round(f, m)]
    OBVIOUS
  <2>. DEFINE g == [m \in 1..n + 1 |-> IF m = n + 1 THEN Round(f, m) ELSE f[m]]
  <2>2. ASSUME NEW m \in 1..n + 1 PROVE g[m] = Round(g, m)
    <3>1. CASE m = 1
      <4>1. Round(f, 1) = s[1] /\ Round(g, 1) = s[1]
        OBVIOUS
      <4>2. 1 = n + 1 \/ 1 \in 1..n
        OBVIOUS
      <4>. HIDE DEF Round, Defined
      <4>3. 1 \in 1..n => f[1] = Round(f, 1)
        BY <2>1
      <4>. QED  BY <3>1, <4>1, <4>2, <4>3
    <3>2. CASE m # 1
      <4>1. m - 1 \in 1..n /\ g[m - 1] = f[m - 1]
        BY <3>2
      <4>2. g[m] = Round(f, m)
        <5>1. m = n + 1 \/ m \in 1..n
          OBVIOUS
        <5>. HIDE DEF Round, Defined
        <5>2. m \in 1..n => f[m] = Round(f, m)
          BY <2>1
        <5>. QED  BY <5>1, <5>2
      <4>. QED  BY <3>2, <4>1, <4>2
    <3>. QED  BY <3>1, <3>2
  <2>3. g = [m \in 1..n + 1 |-> Round(g, m)]
    BY <2>2
  <2>. HIDE DEF g, Round
  <2>. QED  BY <2>3
<1>3. limit \in Defined
  <2>1. Defined \in SUBSET Nat
    OBVIOUS
  <2>. HIDE DEF Defined
  <2>. QED  BY <1>1, <1>2, <2>1, CountingUp
<1>4. at = [i \in 1..limit |-> Round(at, i)]
  BY <1>3
<1>5. FlattenSeq(s) = at[Len(s)]
  BY DEF FlattenSeq
<1>. HIDE DEF at, Defined
<1>. QED  BY <1>4, <1>5

\* Fields written once for each of n players or games.
LEMMA RepeatSize ==
  ASSUME NEW l \in Layouts, NEW n \in Nat
  PROVE  Repeat(l, n) \in Layouts /\ Size(Repeat(l, n)) = n * Size(l)
<1>. DEFINE copy(k) == [i \in DOMAIN l |-> [l[i] EXCEPT !.of = k]]
            s == [k \in 1..n |-> copy(k)]
<1>1. ASSUME NEW k \in Nat PROVE copy(k) \in Layouts /\ Size(copy(k)) = Size(l)
  BY CopySize
<1>2. Repeat(l, n) = FlattenSeq(s) /\ Len(s) = n /\ Size(l) \in Nat
  BY SizeOfBoth DEF Repeat
<1>. HIDE DEF copy
<1>3. \A k \in 1..n : s[k] = copy(k)
  OBVIOUS
<1>4. CASE n = 0
  <2>1. FlattenSeq(s) = s
    BY <1>2, <1>4 DEF FlattenSeq
  <2>2. s = <<>>
    BY <1>4
  <2>. HIDE DEF s
  <2>3. s \in Layouts /\ Len(s) = 0
    BY <2>2 DEF Layouts
  <2>4. Size(s) = 0
    <3>1. Len(s) \in Nat
      BY <2>3
    <3>. QED  BY <2>3, <3>1, PointerEquation DEF Size
  <2>. QED  BY <1>2, <1>4, <2>1, <2>3, <2>4
<1>5. CASE n # 0
  <2>1. Len(s) \in Nat \ {0}
    BY <1>2, <1>5
  <2>. HIDE DEF s
  <2>2. PICK f : /\ f = [i \in 1..Len(s) |-> IF i = 1 THEN s[i] ELSE f[i - 1] \o s[i]]
                 /\ FlattenSeq(s) = f[Len(s)]
    BY <2>1, FlattenEquation
  <2>3. f[1] = s[1] /\ \A i \in 1..n : i # 1 => f[i] = f[i - 1] \o s[i]
    <3>1. Len(s) = n /\ 1 \in 1..n
      BY <1>2, <1>5
    <3>. QED  BY <2>2, <3>1
  <2>. DEFINE S == {k \in Nat : k + 1 <= n => f[k + 1] \in Layouts /\ Size(f[k + 1]) = (k + 1) * Size(l)}
  <2>4. 0 \in S
    <3>1. f[0 + 1] = copy(1) /\ (0 + 1) * Size(l) = Size(l)
      BY <1>2, <1>3, <1>5, <2>3
    <3>. QED  BY <1>1, <3>1
  <2>5. ASSUME NEW k \in S PROVE k + 1 \in S
    <3>1. CASE k + 2 <= n
      <4>1. /\ k + 1 + 1 \in 1..n /\ k + 1 + 1 # 1 /\ k + 1 + 1 - 1 = k + 1 /\ k + 1 + 1 \in Nat
            /\ f[k + 1] \in Layouts /\ Size(f[k + 1]) = (k + 1) * Size(l)
        BY <3>1
      <4>2. f[k + 1 + 1] = f[k + 1] \o copy(k + 1 + 1)
        <5>1. \A j \in 1..n : j # 1 => f[j] = f[j - 1] \o s[j]
          BY <2>3
        <5>. DEFINE j == k + 1 + 1
        <5>2. j \in 1..n /\ j # 1 /\ j - 1 = k + 1
          BY <4>1
        <5>. HIDE DEF j
        <5>3. f[j] = f[j - 1] \o s[j]
          BY <5>1, <5>2, Zenon
        <5>4. s[j] = copy(j)
          BY <1>3, <5>2
        <5>. QED  BY <5>2, <5>3, <5>4, Zenon DEF j
      <4>3. /\ f[k + 1 + 1] \in Layouts
            /\ Size(f[k + 1 + 1]) = (k + 1) * Size(l) + Size(l)
        BY <1>1, <4>1, <4>2, SizeOfBoth
      <4>4. (k + 1) * Size(l) + Size(l) = (k + 1 + 1) * Size(l)
        BY <1>2
      <4>. QED  BY <4>3, <4>4
    <3>2. CASE ~(k + 2 <= n)
      BY <3>2
    <3>. QED  BY <3>1, <3>2
  <2>6. S = Nat
    <3>. HIDE DEF S
    <3>1. S \in SUBSET Nat
      BY DEF S
    <3>. QED  BY <2>4, <2>5, <3>1, CountingUp
  <2>7. f[n] \in Layouts /\ Size(f[n]) = n * Size(l)
    <3>1. n - 1 \in Nat /\ n - 1 + 1 = n
      BY <1>5
    <3>2. n - 1 \in S
      <4>. HIDE DEF S
      <4>. QED  BY <2>6, <3>1
    <3>3. n - 1 + 1 <= n => f[n - 1 + 1] \in Layouts /\ Size(f[n - 1 + 1]) = (n - 1 + 1) * Size(l)
      BY <3>2
    <3>. QED  BY <3>1, <3>3
  <2>. QED  BY <1>2, <2>2, <2>7
<1>. QED  BY <1>4, <1>5

Sized(l, n) == l \in Layouts /\ Size(l) = n

LEMMA SizedBoth ==
  ASSUME NEW l, NEW m, NEW a, NEW b, Sized(l, a), Sized(m, b)
  PROVE  Sized(l \o m, a + b)
BY SizeOfBoth DEF Sized

LEMMA SizedFields ==
  ASSUME NEW fs \in Seq(FieldNames), NEW w \in Nat
  PROVE  Sized(Fields(fs, w), Len(fs) * w)
BY FieldsSize DEF Sized

\* One field is as long as it is wide, and integers and floats four bytes.
LEMMA FieldSizes ==
  /\ Sized(Type, 3) /\ Sized(FieldHeader, 32) /\ Sized(Lines, 36) /\ Sized(PlayerInfo, 58)
  /\ \A f \in FieldNames, w \in Nat : Sized(Field(f, w), w)
  /\ \A f \in FieldNames : Sized(Ints(<<f>>), 4)
  /\ \A f, g \in FieldNames : Sized(Ints(<<f, g>>), 8)
<1>1. ASSUME NEW f \in FieldNames, NEW w \in Nat PROVE Sized(Field(f, w), w)
  <2>1. <<f>> \in Seq(FieldNames) /\ Len(<<f>>) * w = w
    OBVIOUS
  <2>2. Sized(Fields(<<f>>, w), Len(<<f>>) * w)
    BY <2>1, SizedFields
  <2>. QED  BY <2>1, <2>2 DEF Field
<1>2. ASSUME NEW fs \in Seq(FieldNames) PROVE Sized(Ints(fs), Len(fs) * 4) /\ Sized(Floats(fs), Len(fs) * 4)
  BY SizedFields DEF Ints, Floats, IntLen, FloatLen
<1>3. ASSUME NEW f \in FieldNames PROVE Sized(Ints(<<f>>), 4)
  <2>1. <<f>> \in Seq(FieldNames) /\ Len(<<f>>) * 4 = 4
    OBVIOUS
  <2>. QED  BY <1>2, <2>1
<1>4. ASSUME NEW f \in FieldNames, NEW g \in FieldNames PROVE Sized(Ints(<<f, g>>), 8)
  <2>1. <<f, g>> \in Seq(FieldNames) /\ Len(<<f, g>>) * 4 = 8
    OBVIOUS
  <2>. QED  BY <1>2, <2>1
<1>5. Sized(Type, 3)
  <2>1. "type" \in FieldNames
    BY DEF FieldNames
  <2>. QED  BY <1>1, <2>1 DEF Type, MSG_TYPE_LEN
<1>6. Sized(FieldHeader, 32)
  <2>1. Sized(Ints(<<"fieldId">>), 4) /\ Sized(Field("fieldName", 20), 20) /\ Sized(Ints(<<"width", "height">>), 8)
    <3>1. {"fieldId", "fieldName", "width", "height"} \subseteq FieldNames
      BY DEF FieldNames
    <3>. QED  BY <1>1, <1>3, <1>4, <3>1
  <2>2. Sized(Ints(<<"fieldId">>) \o Field("fieldName", 20), 4 + 20)
    BY <2>1, SizedBoth
  <2>3. Sized(Ints(<<"fieldId">>) \o Field("fieldName", 20) \o Ints(<<"width", "height">>), 4 + 20 + 8)
    BY <2>1, <2>2, SizedBoth
  <2>. QED  BY <2>3 DEF FieldHeader, FIELD_NAME_LEN
<1>7. Sized(Lines, 36)
  <2>. DEFINE fs == <<"startX", "startY", "startEndX", "startEndY", "mainX", "mainY", "mainEndX", "mainEndY">>
  <2>1. fs \in Seq(FieldNames) /\ Len(fs) * 4 = 32
    BY DEF FieldNames
  <2>2. Sized(Floats(fs), 32) /\ Sized(Ints(<<"extraLines">>), 4)
    <3>. HIDE DEF fs
    <3>1. "extraLines" \in FieldNames
      BY DEF FieldNames
    <3>. QED  BY <1>2, <1>3, <2>1, <3>1
  <2>. HIDE DEF fs
  <2>3. Sized(Floats(fs) \o Ints(<<"extraLines">>), 32 + 4)
    BY <2>2, SizedBoth
  <2>. QED  BY <2>3 DEF Lines, fs
<1>8. Sized(PlayerInfo, 58)
  <2>. DEFINE fs == <<"x", "y", "angle", "speed", "acceleration">>
  <2>1. fs \in Seq(FieldNames) /\ Len(fs) * 4 = 20
    BY DEF FieldNames
  <2>2. /\ Sized(Ints(<<"playerId">>), 4) /\ Sized(Field("playerName", 30), 30) /\ Sized(Floats(fs), 20)
        /\ Sized(Ints(<<"laps">>), 4)
    <3>. HIDE DEF fs
    <3>1. {"playerId", "playerName", "laps"} \subseteq FieldNames
      BY DEF FieldNames
    <3>. QED  BY <1>1, <1>2, <1>3, <2>1, <3>1
  <2>. HIDE DEF fs
  <2>3. Sized(Ints(<<"playerId">>) \o Field("playerName", 30), 4 + 30)
    BY <2>2, SizedBoth
  <2>4. Sized(Ints(<<"playerId">>) \o Field("playerName", 30) \o Floats(fs), 4 + 30 + 20)
    BY <2>2, <2>3, SizedBoth
  <2>5. Sized(Ints(<<"playerId">>) \o Field("playerName", 30) \o Floats(fs) \o Ints(<<"laps">>),
              4 + 30 + 20 + 4)
    BY <2>2, <2>4, SizedBoth
  <2>. QED  BY <2>5 DEF PlayerInfo, CLIENT_NAME_LEN, fs
<1>. QED  BY <1>1, <1>3, <1>4, <1>5, <1>6, <1>7, <1>8

\* The messages of a fixed length.
LEMMA FixedSizes ==
  /\ Sized(WriteCG, 57) /\ Sized(WriteFIResponse, 71) /\ Sized(WriteSG, 17)
  /\ Sized(WriteUP, 29) /\ Sized(WriteNOTIFY, 37) /\ Sized(WriteJGResponse, 17)
<1>1. /\ Sized(Type, 3) /\ Sized(Field("clientName", 30), 30) /\ Sized(Field("gameName", 20), 20)
      /\ Sized(Field("password", 10), 10) /\ Sized(Field("playerName", 30), 30)
      /\ Sized(Ints(<<"fieldId">>), 4) /\ Sized(Ints(<<"gameId">>), 4) /\ Sized(Ints(<<"playerId">>), 4)
      /\ Sized(Ints(<<"playerId", "gameId">>), 8) /\ Sized(Ints(<<"actionX", "actionY">>), 8)
      /\ Sized(FieldHeader, 32) /\ Sized(Lines, 36)
  <2>1. {"clientName", "gameName", "password", "playerName", "fieldId", "gameId", "playerId",
         "actionX", "actionY"} \subseteq FieldNames
    BY DEF FieldNames
  <2>. QED  BY <2>1, FieldSizes
<1>2. Sized(WriteCG, 57)
  <2>1. Sized(Type \o Field("clientName", 30), 3 + 30)
    BY <1>1, SizedBoth
  <2>2. Sized(Type \o Field("clientName", 30) \o Field("gameName", 20), 3 + 30 + 20)
    BY <1>1, <2>1, SizedBoth
  <2>3. Sized(Type \o Field("clientName", 30) \o Field("gameName", 20) \o Ints(<<"fieldId">>), 3 + 30 + 20 + 4)
    BY <1>1, <2>2, SizedBoth
  <2>. QED  BY <2>3 DEF WriteCG, CLIENT_NAME_LEN, GAME_NAME_LEN
<1>3. Sized(WriteFIResponse, 71)
  <2>1. Sized(Type \o FieldHeader, 3 + 32)
    BY <1>1, SizedBoth
  <2>2. Sized(Type \o FieldHeader \o Lines, 3 + 32 + 36)
    BY <1>1, <2>1, SizedBoth
  <2>. QED  BY <2>2 DEF WriteFIResponse
<1>4. Sized(WriteSG, 17)
  <2>1. Sized(Type \o Ints(<<"gameId">>), 3 + 4)
    BY <1>1, SizedBoth
  <2>2. Sized(Type \o Ints(<<"gameId">>) \o Field("password", 10), 3 + 4 + 10)
    BY <1>1, <2>1, SizedBoth
  <2>. QED  BY <2>2 DEF WriteSG, CLIENT_PASS_LEN
<1>5. Sized(WriteUP, 29)
  <2>1. Sized(Type \o Ints(<<"playerId", "gameId">>), 3 + 8)
    BY <1>1, SizedBoth
  <2>2. Sized(Type \o Ints(<<"playerId", "gameId">>) \o Field("password", 10), 3 + 8 + 10)
    BY <1>1, <2>1, SizedBoth
  <2>3. Sized(Type \o Ints(<<"playerId", "gameId">>) \o Field("password", 10) \o Ints(<<"actionX", "actionY">>),
              3 + 8 + 10 + 8)
    BY <1>1, <2>2, SizedBoth
  <2>. QED  BY <2>3 DEF WriteUP, CLIENT_PASS_LEN
<1>6. Sized(WriteNOTIFY, 37)
  <2>1. Sized(Type \o Ints(<<"playerId">>), 3 + 4)
    BY <1>1, SizedBoth
  <2>2. Sized(Type \o Ints(<<"playerId">>) \o Field("playerName", 30), 3 + 4 + 30)
    BY <1>1, <2>1, SizedBoth
  <2>. QED  BY <2>2 DEF WriteNOTIFY, CLIENT_NAME_LEN
<1>7. Sized(WriteJGResponse, 17)
  <2>1. Sized(Type \o Ints(<<"playerId">>), 3 + 4)
    BY <1>1, SizedBoth
  <2>2. Sized(Type \o Ints(<<"playerId">>) \o Field("password", 10), 3 + 4 + 10)
    BY <1>1, <2>1, SizedBoth
  <2>. QED  BY <2>2 DEF WriteJGResponse, CLIENT_PASS_LEN
<1>. QED  BY <1>2, <1>3, <1>4, <1>5, <1>6, <1>7

\* What a list of n games and what n players take, and how many of them the
\* buffer holds: 126 games, eight players in an UP answer, seven in a GI or SG
\* answer, which bring the track along.  No serialize function looks.
THEOREM HowManyFit ==
  ASSUME NEW n \in Nat
  PROVE  /\ Size(WriteLIResponse(n)) = 7 + 4 * n /\ Size(WriteUPResponse(n)) = 11 + 58 * n
         /\ Size(WriteGIResponse(n)) = 67 + 58 * n /\ Size(WriteSGResponse(n)) = 75 + 58 * n
         /\ Size(WriteLIResponse(n)) <= MAX_BUFFER_SIZE <=> n <= 126
         /\ Size(WriteUPResponse(n)) <= MAX_BUFFER_SIZE <=> n <= 8
         /\ Size(WriteGIResponse(n)) <= MAX_BUFFER_SIZE <=> n <= 7
         /\ Size(WriteSGResponse(n)) <= MAX_BUFFER_SIZE <=> n <= 7
<1>1. /\ Sized(Type, 3) /\ Sized(Field("gameName", 20), 20)
      /\ Sized(Ints(<<"count">>), 4) /\ Sized(Ints(<<"status">>), 4) /\ Sized(Ints(<<"gameId">>), 4)
      /\ Sized(Ints(<<"winner", "count">>), 8) /\ Sized(Ints(<<"gameId", "count">>), 8)
      /\ Sized(FieldHeader, 32) /\ Sized(Lines, 36) /\ Sized(PlayerInfo, 58)
  <2>1. {"gameName", "count", "status", "gameId", "winner"} \subseteq FieldNames
    BY DEF FieldNames
  <2>. QED  BY <2>1, FieldSizes
<1>2. ASSUME NEW l, NEW a, Sized(l, a) PROVE Sized(Repeat(l, n), n * a)
  BY <1>2, RepeatSize DEF Sized
<1>3. Sized(WriteLIResponse(n), 3 + 4 + n * 4)
  <2>1. Sized(Type \o Ints(<<"count">>), 3 + 4)
    BY <1>1, SizedBoth
  <2>2. Sized(Repeat(Ints(<<"gameId">>), n), n * 4)
    BY <1>1, <1>2
  <2>3. Sized(Type \o Ints(<<"count">>) \o Repeat(Ints(<<"gameId">>), n), 3 + 4 + n * 4)
    BY <2>1, <2>2, SizedBoth
  <2>. QED  BY <2>3 DEF WriteLIResponse
<1>4. Sized(Repeat(PlayerInfo, n), n * 58)
  BY <1>1, <1>2
<1>5. Sized(WriteUPResponse(n), 3 + 8 + n * 58)
  <2>1. Sized(Type \o Ints(<<"gameId", "count">>), 3 + 8)
    BY <1>1, SizedBoth
  <2>2. Sized(Type \o Ints(<<"gameId", "count">>) \o Repeat(PlayerInfo, n), 3 + 8 + n * 58)
    BY <1>4, <2>1, SizedBoth
  <2>. QED  BY <2>2 DEF WriteUPResponse
<1>6. Sized(WriteGIResponse(n), 3 + 4 + 20 + 8 + n * 58 + 32)
  <2>1. Sized(Type \o Ints(<<"status">>), 3 + 4)
    BY <1>1, SizedBoth
  <2>2. Sized(Type \o Ints(<<"status">>) \o Field("gameName", 20), 3 + 4 + 20)
    BY <1>1, <2>1, SizedBoth
  <2>3. Sized(Type \o Ints(<<"status">>) \o Field("gameName", 20) \o Ints(<<"winner", "count">>), 3 + 4 + 20 + 8)
    BY <1>1, <2>2, SizedBoth
  <2>4. Sized(Type \o Ints(<<"status">>) \o Field("gameName", 20) \o Ints(<<"winner", "count">>)
                \o Repeat(PlayerInfo, n), 3 + 4 + 20 + 8 + n * 58)
    BY <1>4, <2>3, SizedBoth
  <2>5. Sized(Type \o Ints(<<"status">>) \o Field("gameName", 20) \o Ints(<<"winner", "count">>)
                \o Repeat(PlayerInfo, n) \o FieldHeader, 3 + 4 + 20 + 8 + n * 58 + 32)
    BY <1>1, <2>4, SizedBoth
  <2>. QED  BY <2>5 DEF WriteGIResponse, GAME_NAME_LEN
<1>7. Sized(WriteSGResponse(n), 3 + 4 + n * 58 + 32 + 36)
  <2>1. Sized(Type \o Ints(<<"count">>), 3 + 4)
    BY <1>1, SizedBoth
  <2>2. Sized(Type \o Ints(<<"count">>) \o Repeat(PlayerInfo, n), 3 + 4 + n * 58)
    BY <1>4, <2>1, SizedBoth
  <2>3. Sized(Type \o Ints(<<"count">>) \o Repeat(PlayerInfo, n) \o FieldHeader, 3 + 4 + n * 58 + 32)
    BY <1>1, <2>2, SizedBoth
  <2>4. Sized(Type \o Ints(<<"count">>) \o Repeat(PlayerInfo, n) \o FieldHeader \o Lines, 3 + 4 + n * 58 + 32 + 36)
    BY <1>1, <2>3, SizedBoth
  <2>. QED  BY <2>4 DEF WriteSGResponse
<1>8. /\ Size(WriteLIResponse(n)) = 7 + 4 * n /\ Size(WriteUPResponse(n)) = 11 + 58 * n
      /\ Size(WriteGIResponse(n)) = 67 + 58 * n /\ Size(WriteSGResponse(n)) = 75 + 58 * n
  BY <1>3, <1>5, <1>6, <1>7 DEF Sized
<1>. QED  BY <1>8 DEF MAX_BUFFER_SIZE

\* A reader that expects what was written reads every field whole.
LEMMA AgreesWithItself ==
  ASSUME NEW l
  PROVE  Agree(l, l)
BY DEF Agree, ReadWhole

\* The serialize and deserialize functions agree for every count of players
\* and games, and nothing but the players of a GI or SG answer can leave the
\* buffer.
LEMMA CarriedOver ==
  ASSUME Cardinality(members) \in Nat
  PROVE  MessagesCarryOver <=> Cardinality(members) <= 7
<1>1. LayoutsAgree
  <2>1. /\ ReadCG = WriteCG /\ ReadCGResponse = WriteCGResponse /\ ReadNFResponse = WriteNFResponse
        /\ ReadFI = WriteFI /\ ReadFIResponse = WriteFIResponse /\ ReadGI = WriteGI /\ ReadJG = WriteJG
        /\ ReadJGResponse = WriteJGResponse /\ ReadNOTIFY = WriteNOTIFY /\ ReadSG = WriteSG
        /\ ReadUP = WriteUP
    BY DEF ReadCG, WriteCG, ReadCGResponse, WriteCGResponse, ReadNFResponse, WriteNFResponse, ReadFI, WriteFI,
           ReadFIResponse, WriteFIResponse, ReadGI, WriteGI, ReadJG, WriteJG, ReadJGResponse, WriteJGResponse,
           ReadNOTIFY, WriteNOTIFY, ReadSG, WriteSG, ReadUP, WriteUP
  <2>2. \A n : /\ ReadLIResponse(n) = WriteLIResponse(n) /\ ReadGIResponse(n) = WriteGIResponse(n)
               /\ ReadSGResponse(n) = WriteSGResponse(n) /\ ReadUPResponse(n) = WriteUPResponse(n)
    BY DEF ReadLIResponse, WriteLIResponse, ReadGIResponse, WriteGIResponse, ReadSGResponse, WriteSGResponse,
           ReadUPResponse, WriteUPResponse
  <2>. QED  BY <2>1, <2>2, AgreesWithItself, Zenon DEF LayoutsAgree
<1>2. \A l \in {WriteCG, WriteFIResponse, WriteSG, WriteUP, WriteNOTIFY, WriteJGResponse} :
        Size(l) <= MAX_BUFFER_SIZE
  BY FixedSizes DEF Sized, MAX_BUFFER_SIZE
<1>3. \A n \in Nat : (\A l \in {WriteGIResponse(n), WriteSGResponse(n), WriteUPResponse(n)} :
                         Size(l) <= MAX_BUFFER_SIZE) <=> n <= 7
  <2>1. ASSUME NEW n \in Nat
        PROVE  /\ Size(WriteGIResponse(n)) <= MAX_BUFFER_SIZE <=> n <= 7
               /\ Size(WriteSGResponse(n)) <= MAX_BUFFER_SIZE <=> n <= 7
               /\ Size(WriteUPResponse(n)) <= MAX_BUFFER_SIZE <=> n <= 8
    BY HowManyFit
  <2>2. \A n \in Nat : n <= 7 => n <= 8
    OBVIOUS
  <2>. QED  BY <2>1, <2>2
<1>4. Counts \subseteq Nat /\ Cardinality(members) \in Counts
      /\ \A n \in Counts : n <= 4 \/ n = Cardinality(members)
  BY DEF Counts
<1>5. MessagesFit <=> \A n \in Counts : n <= 7
  BY <1>2, <1>3, <1>4 DEF MessagesFit
<1>6. (\A n \in Counts : n <= 7) <=> Cardinality(members) <= 7
  BY <1>4
<1>. QED  BY <1>1, <1>5, <1>6 DEF MessagesCarryOver

-----------------------------------------------------------------------------
(* What buffers show. *)

\* A buffer that holds no more than a type shows no name: where
\* deserialize_msg_NOTIFY looks for it the buffer is clear.
LEMMA PIShowsNoName ==
  ASSUME NEW m, m.kind = "PI"
  PROVE  ~ShowsName(m)
<1>1. Layout(m) = Type
  BY DEF Layout
<1>. DEFINE F(n, w) == [name |-> n, of |-> 0, width |-> w]
<1>2. Type = <<F("type", 3)>>
  BY DEF Type, Field, Fields, MSG_TYPE_LEN
<1>3. ReadNOTIFY = <<F("type", 3)>> \o <<F("playerId", 4)>> \o <<F("playerName", 30)>>
  <2>1. Ints(<<"playerId">>) = <<F("playerId", 4)>>
    BY DEF Ints, Fields, IntLen
  <2>2. Field("playerName", CLIENT_NAME_LEN) = <<F("playerName", 30)>>
    BY DEF Field, Fields, CLIENT_NAME_LEN
  <2>3. ASSUME NEW a, NEW b, NEW c, Type = a, Ints(<<"playerId">>) = b,
               Field("playerName", CLIENT_NAME_LEN) = c
        PROVE  ReadNOTIFY = a \o b \o c
    BY <2>3 DEF ReadNOTIFY
  <2>. HIDE DEF F
  <2>. QED  BY <1>2, <2>1, <2>2, <2>3
<1>4. /\ Len(ReadNOTIFY) = 3 /\ DOMAIN ReadNOTIFY = 1..3
      /\ ReadNOTIFY[1].width = 3 /\ ReadNOTIFY[2].width = 4
      /\ ReadNOTIFY[1].name = "type" /\ ReadNOTIFY[2].name = "playerId"
      /\ ReadNOTIFY[3].name = "playerName"
  <2>1. ASSUME NEW a, NEW b, NEW c
        PROVE  LET s == <<a>> \o <<b>> \o <<c>>
               IN  Len(s) = 3 /\ DOMAIN s = 1..3 /\ s[1] = a /\ s[2] = b /\ s[3] = c
    <3>. DEFINE S == {a, b, c}  u == <<a>> \o <<b>>  v == u \o <<c>>
    <3>1. /\ <<a>> \in Seq(S) /\ <<b>> \in Seq(S) /\ <<c>> \in Seq(S)
          /\ Len(<<a>>) = 1 /\ Len(<<b>>) = 1 /\ Len(<<c>>) = 1
          /\ <<a>>[1] = a /\ <<b>>[1] = b /\ <<c>>[1] = c
      OBVIOUS
    <3>. HIDE DEF S
    <3>2. u \in Seq(S) /\ Len(u) = 2 /\ u[1] = a /\ u[2] = b
      BY <3>1, ConcatProperties
    <3>. HIDE DEF u
    <3>3. v \in Seq(S) /\ Len(v) = 3 /\ v[1] = a /\ v[2] = b /\ v[3] = c
      <4>. DEFINE last == <<c>>
      <4>1. last \in Seq(S) /\ Len(last) = 1 /\ last[1] = c /\ v = u \o last
        BY <3>1
      <4>. HIDE DEF last, v
      <4>2. /\ v \in Seq(S) /\ Len(v) = Len(u) + Len(last)
            /\ \A i \in 1..Len(u) + Len(last) : v[i] = IF i <= Len(u) THEN u[i] ELSE last[i - Len(u)]
        BY <3>2, <4>1, ConcatProperties, Zenon
      <4>. QED  BY <3>2, <4>1, <4>2
    <3>4. DOMAIN v = 1..3
      <4>. HIDE DEF v
      <4>. QED  BY <3>3, LenProperties
    <3>. QED  BY <3>3, <3>4 DEF u
  <2>2. \A n, w : F(n, w).name = n /\ F(n, w).width = w
    OBVIOUS
  <2>. HIDE DEF F
  <2>. QED  BY <1>3, <2>1, <2>2
<1>5. Pointer(ReadNOTIFY)[2] = 7
  <2>0. Len(ReadNOTIFY) \in Nat /\ 1..Len(ReadNOTIFY) = 1..3
    BY <1>4
  <2>1. Pointer(ReadNOTIFY)[0] = 0 /\ \A n \in 1..3 :
           Pointer(ReadNOTIFY)[n] = Pointer(ReadNOTIFY)[n - 1] + ReadNOTIFY[n].width
    BY <2>0, PointerEquation, Zenon
  <2>2. Pointer(ReadNOTIFY)[1] = Pointer(ReadNOTIFY)[1 - 1] + 3
    BY <1>4, <2>1
  <2>3. Pointer(ReadNOTIFY)[2] = Pointer(ReadNOTIFY)[2 - 1] + 4
    BY <1>4, <2>1
  <2>. QED  BY <2>1, <2>2, <2>3
<1>6. (CHOOSE i \in DOMAIN ReadNOTIFY : ReadNOTIFY[i].name = "playerName") = 3
  <2>1. 3 \in DOMAIN ReadNOTIFY /\ \A i \in DOMAIN ReadNOTIFY : ReadNOTIFY[i].name = "playerName" <=> i = 3
    BY <1>4
  <2>. QED  BY <2>1
<1>7. Offset(ReadNOTIFY, 3) = 7
  BY <1>5 DEF Offset
<1>8. DOMAIN Type = {1} /\ Type[1].width = 3 /\ Offset(Type, 1) = 0
  <2>1. Len(Type) = 1 /\ DOMAIN Type = {1} /\ Type[1].width = 3
    BY <1>2
  <2>2. Pointer(Type)[0] = 0
    BY <2>1, PointerEquation
  <2>. QED  BY <2>1, <2>2 DEF Offset
<1>9. ShowsName(m) => \E j \in DOMAIN Type : 7 < Offset(Type, j) + Type[j].width
  BY <1>1, <1>6, <1>7, Zenon DEF ShowsName
<1>. QED  BY <1>8, <1>9

\* The creator finds its game ID and password in the answer to its CG.
LEMMA AnswerShowsCredentials ==
  ASSUME NEW m, m.kind = "CG"
  PROVE  OwnCredentials(m)
<1>1. Layout(m) = WriteCGResponse
  BY DEF Layout
<1>2. WriteCGResponse = ReadCGResponse
  BY DEF WriteCGResponse, ReadCGResponse
<1>. QED  BY <1>1, <1>2 DEF OwnCredentials, ReadWhole

\* What the creator may count: all but the answers to its PI.
NotPI(q) == {i \in DOMAIN q : q[i].kind # "PI"}
Weight(m) == IF m.kind = "PI" THEN 0 ELSE 1

LEMMA CountedIsNotPI ==
  ASSUME NEW q \in Seq(Messages)
  PROVE  /\ IsFiniteSet(NotPI(q)) /\ Cardinality(NotPI(q)) \in Nat
         /\ Cardinality(ToCount(q)) \in Nat /\ Cardinality(ToCount(q)) <= Cardinality(NotPI(q))
<1>1. DOMAIN q = 1..Len(q) /\ IsFiniteSet(1..Len(q))
  <2>1. Len(q) \in Nat /\ DOMAIN q = 1..Len(q)
    BY LenProperties
  <2>. QED  BY <2>1, FS_Interval
<1>2. IsFiniteSet(NotPI(q))
  BY <1>1, FS_Subset DEF NotPI
<1>3. ToCount(q) \in SUBSET NotPI(q)
  BY PIShowsNoName DEF ToCount, NotPI
<1>. QED  BY <1>2, <1>3, FS_Subset, FS_CardinalityType

LEMMA NotPIGrows ==
  ASSUME NEW q \in Seq(Messages), NEW m \in Messages
  PROVE  Cardinality(NotPI(Append(q, m))) <= Cardinality(NotPI(q)) + Weight(m)
<1>1. IsFiniteSet(NotPI(q)) /\ Cardinality(NotPI(q)) \in Nat
  BY CountedIsNotPI
<1>2. NotPI(Append(q, m)) = IF m.kind = "PI" THEN NotPI(q) ELSE NotPI(q) \cup {Len(q) + 1}
  <2>1. /\ DOMAIN Append(q, m) = 1..Len(q) + 1 /\ DOMAIN q = 1..Len(q) /\ Len(q) \in Nat
        /\ \A i \in 1..Len(q) : Append(q, m)[i] = q[i]
        /\ Append(q, m)[Len(q) + 1] = m
    BY QueueGrows
  <2>. DEFINE t == Append(q, m)
  <2>2. DOMAIN t = DOMAIN q \cup {Len(q) + 1} /\ Len(q) + 1 \notin DOMAIN q
    BY <2>1
  <2>3. \A i \in DOMAIN q : t[i] = q[i]
    BY <2>1
  <2>4. t[Len(q) + 1] = m
    BY <2>1
  <2>. HIDE DEF t
  <2>5. NotPI(t) = IF m.kind = "PI" THEN NotPI(q) ELSE NotPI(q) \cup {Len(q) + 1}
    BY <2>2, <2>3, <2>4 DEF NotPI
  <2>. QED  BY <2>5 DEF t
<1>3. ASSUME NEW S, IsFiniteSet(S), NEW x PROVE Cardinality(S \cup {x}) <= Cardinality(S) + 1
  <2>1. /\ Cardinality(S) \in Nat
        /\ Cardinality(S \cup {x}) = Cardinality(S) \/ Cardinality(S \cup {x}) = Cardinality(S) + 1
    BY <1>3, FS_AddElement, FS_CardinalityType
  <2>. QED  BY <2>1
<1>4. CASE m.kind = "PI"
  BY <1>1, <1>2, <1>4 DEF Weight
<1>5. CASE m.kind # "PI"
  BY <1>1, <1>2, <1>3, <1>5 DEF Weight
<1>. QED  BY <1>4, <1>5

LEMMA NotPIShrinks ==
  ASSUME NEW q \in Seq(Messages), q # <<>>
  PROVE  Cardinality(NotPI(Tail(q))) <= Cardinality(NotPI(q)) - Weight(Head(q))
<1>. DEFINE rest == NotPI(q) \ {1}
            f == [i \in NotPI(Tail(q)) |-> i + 1]
<1>1. /\ DOMAIN q = 1..Len(q) /\ DOMAIN Tail(q) = 1..Len(q) - 1 /\ Head(q) = q[1]
      /\ Len(q) \in Nat \ {0} /\ \A i \in 1..Len(q) - 1 : Tail(q)[i] = q[i + 1]
  BY QueueShrinks
<1>2. /\ IsFiniteSet(rest) /\ Cardinality(NotPI(q)) \in Nat /\ Cardinality(rest) \in Nat
      /\ Cardinality(rest) = IF 1 \in NotPI(q) THEN Cardinality(NotPI(q)) - 1 ELSE Cardinality(NotPI(q))
  BY CountedIsNotPI, FS_RemoveElement, FS_CardinalityType
<1>3. 1 \in NotPI(q) <=> Head(q).kind # "PI"
  BY <1>1 DEF NotPI
<1>4. f \in Injection(NotPI(Tail(q)), rest)
  <2>1. \A i \in NotPI(Tail(q)) : i \in Nat /\ i # 0 /\ i + 1 \in rest
    BY <1>1 DEF NotPI
  <2>2. f \in [NotPI(Tail(q)) -> rest]
    BY <2>1
  <2>3. \A i, j \in NotPI(Tail(q)) : f[i] = f[j] => i = j
    BY <2>1
  <2>. QED  BY <2>2, <2>3 DEF Injection, IsInjective
<1>5. Cardinality(NotPI(Tail(q))) <= Cardinality(rest)
  BY <1>2, <1>4, FS_Injection
<1>6. IsFiniteSet(NotPI(Tail(q))) /\ Cardinality(NotPI(Tail(q))) \in Nat
  BY CountedIsNotPI, QueueShrinks
<1>. QED  BY <1>2, <1>3, <1>5, <1>6 DEF Weight

-----------------------------------------------------------------------------
(* Who has passed the creator on its way through the list. *)

\* The joiners that have notified the creator, or were not to.
Passed ==
  {j \in JoinTaken : \/ hpc[j] = "recv"
                     \/ hpc[j] = "walk" /\ \A i \in pos[j]..Len(list) : list[i] # Creator}

\* There is a client more than any of the joiners.
LEMMA JoinersFit ==
  ASSUME NEW T \in SUBSET Joiners
  PROVE  /\ IsFiniteSet(T) /\ Cardinality(T) \in Nat
         /\ Cardinality(T) + 1 <= Cardinality(Clients) /\ Cardinality(Clients) \in Nat
<1>1. IsFiniteSet(Joiners) /\ Creator \notin Joiners
  BY SessionAssumption DEF SessionAssumption
<1>2. IsFiniteSet(T) /\ Cardinality(T) <= Cardinality(Joiners)
  BY <1>1, FS_Subset
<1>3. Cardinality(Clients) = Cardinality(Joiners) + 1
  <2>1. Clients = Joiners \cup {Creator}
    BY DEF Clients
  <2>. QED  BY <1>1, <2>1, FS_AddElement
<1>4. Cardinality(Joiners) \in Nat /\ Cardinality(T) \in Nat
  BY <1>1, <1>2, FS_CardinalityType
<1>. QED  BY <1>2, <1>3, <1>4

\* A handler leaves the list as it is and moves only its own place in it.
LEMMA HandlerWalks ==
  ASSUME SessionTypes, ListInv, NEW c \in Clients, HandlerStep(c)
  PROVE  /\ list' = list /\ server = "up" /\ UNCHANGED users
         /\ \A d \in Clients : d # c => pos'[d] = pos[d]
<1>1. /\ list' = list /\ server = "up" /\ UNCHANGED users
      /\ \/ pos' = pos \/ pos' = [pos EXCEPT ![c] = @ + 1] \/ pos' = [pos EXCEPT ![c] = 1]
  BY DEF HandlerStep, Answer, ListGames, CreateGame, AssignCreated, ReplyCreated, GameInfo,
         ReplyInfo, JoinGame, ReplyJoin, Notify, SendLeftover, StartGame, SendStart,
         EnterGameplay, handlers, Take, At
<1>2. pos \in [Clients -> 1..Len(list) + 1]
  BY DEF ListInv
<1>. QED  BY <1>1, <1>2

LEMMA PassedStays ==
  ASSUME SessionInv, ListInv, JoinInv, server = "up", hpc[Creator] # "none", [Next]_vars,
         NEW j \in Passed
  PROVE  j \in Passed'
<1>1. /\ SessionTypes /\ j \in JoinTaken /\ j \in Joiners /\ j \in Clients /\ j # Creator
      /\ JoinStage(j) /\ j \in JoinTaken' /\ hpc \in [Clients -> HandlerPlaces]
  <2>1. j \in JoinTaken /\ j \in Joiners
    BY DEF Passed, JoinTaken
  <2>2. j \in JoinTaken'
    BY <2>1, TakenStays
  <2>. QED  BY <2>1, <2>2, CreatorIsClient DEF SessionInv, JoinInv, SessionTypes
<1>2. \/ hpc[j] = "recv"
      \/ hpc[j] = "walk" /\ \A i \in pos[j]..Len(list) : list[i] # Creator
  BY DEF Passed
<1>3. ASSUME \/ hpc'[j] = "recv"
             \/ hpc'[j] = "walk" /\ \A i \in pos'[j]..Len(list') : list'[i] # Creator
      PROVE  j \in Passed'
  BY <1>1, <1>3 DEF Passed
<1>4. ASSUME hpc'[j] = hpc[j], pos'[j] = pos[j], list' = list PROVE j \in Passed'
  BY <1>2, <1>3, <1>4
<1>5. CASE UNCHANGED handlers
  BY <1>4, <1>5 DEF handlers
<1>6. CASE \E c \in Clients : Connect(c)
  <2>1. PICK c \in Clients : Connect(c)
    BY <1>6
  <2>2. /\ list' = Append(list, c) /\ hpc' = [hpc EXCEPT ![c] = "recv"] /\ hpc[c] = "none"
        /\ pos' = pos
    BY <2>1 DEF Connect, At
  <2>3. c # Creator /\ c # j /\ hpc'[j] = hpc[j]
    BY <1>1, <1>2, <2>2
  <2>4. list \in Seq(Clients) /\ pos[j] \in 1..Len(list) + 1
    BY <1>1 DEF ListInv
  <2>5. /\ Len(list') = Len(list) + 1 /\ list'[Len(list) + 1] = c /\ Len(list) \in Nat
        /\ \A i \in 1..Len(list) : list'[i] = list[i]
    BY <2>2, <2>4, QueueGrows
  <2>6. ASSUME \A i \in pos[j]..Len(list) : list[i] # Creator, NEW i \in pos[j]..Len(list')
        PROVE  list'[i] # Creator
    <3>1. i = Len(list) + 1 \/ (i \in pos[j]..Len(list) /\ i \in 1..Len(list))
      BY <2>4, <2>5
    <3>. QED  BY <2>3, <2>5, <2>6, <3>1
  <2>. QED  BY <1>2, <1>3, <2>2, <2>3, <2>6
<1>7. ASSUME NEW c \in Clients, HandlerStep(c), c # j PROVE j \in Passed'
  <2>1. Aside(c) /\ list' = list /\ pos'[j] = pos[j]
    BY <1>1, <1>7, HandlerTypes, HandlerWalks
  <2>. QED  BY <1>1, <1>4, <1>7, <2>1 DEF Aside
<1>8. CASE HandlerStep(j)
  <2>1. list' = list /\ \A p \in {"recv", "walk"} : Goto(j, p) => hpc'[j] = p
    BY <1>1, <1>8, HandlerWalks, GoesTo DEF HandlerPlaces
  <2>2. CASE hpc[j] = "recv"
    <3>1. ASSUME NEW t, Take(j, t) PROVE t = "PI"
      BY <1>1, <3>1, JoinerTakes, TakenMeansPI DEF JoinSent
    <3>2. Answer(j)
      BY <1>8, <2>2, <3>1 DEF HandlerStep, ListGames, CreateGame, AssignCreated, ReplyCreated,
         GameInfo, ReplyInfo, JoinGame, ReplyJoin, Notify, SendLeftover, StartGame, SendStart,
         EnterGameplay, At
    <3>. QED  BY <1>4, <3>2 DEF Answer, handlers
  <2>3. CASE hpc[j] = "walk"
    <3>1. Notify(j) \/ SendLeftover(j)
      BY <1>8, <2>3 DEF HandlerStep, Answer, ListGames, CreateGame, AssignCreated, ReplyCreated,
         GameInfo, ReplyInfo, JoinGame, ReplyJoin, StartGame, SendStart, EnterGameplay, Take, At
    <3>2. CASE Notify(j)
      <4>1. hpc' = hpc /\ pos' = [pos EXCEPT ![j] = @ + 1] /\ pos \in [Clients -> 1..Len(list) + 1]
        BY <3>2 DEF Notify, ListInv
      <4>2. pos'[j] = pos[j] + 1 /\ pos[j] \in 1..Len(list) + 1 /\ Len(list) \in Nat
        BY <1>1, <4>1, LenProperties DEF ListInv
      <4>3. \A i \in pos'[j]..Len(list) : i \in pos[j]..Len(list)
        BY <4>2
      <4>. QED  BY <1>2, <1>3, <2>1, <2>3, <4>1, <4>3
    <3>3. CASE SendLeftover(j)
      BY <1>3, <2>1, <3>3 DEF SendLeftover
    <3>. QED  BY <3>1, <3>2, <3>3
  <2>. QED  BY <1>2, <2>2, <2>3
<1>9. \/ UNCHANGED handlers \/ \E c \in Clients : Connect(c) \/ HandlerStep(c)
  <2>1. CASE CreatorStep
    BY <2>1 DEF CreatorStep, ChooseField, Created, WaitForPlayers, ResendUntilStart
  <2>2. CASE ControlC \/ ServerGone \/ UNCHANGED vars
    BY <2>2 DEF ControlC, ServerGone, vars
  <2>3. CASE \E c \in Joiners : JoinerStep(c)
    BY <2>3 DEF JoinerStep, ChooseGame, ShowInfo, Joined, WaitForStart
  <2>4. CASE \E c \in Clients : UpdatePlayer(c)
    BY <2>4 DEF UpdatePlayer
  <2>. QED  BY <2>1, <2>2, <2>3, <2>4 DEF Next
<1>. QED  BY <1>5, <1>6, <1>7, <1>8, <1>9

\* A joiner whose walk comes to the creator notifies it.
Notifies(j) ==
  /\ j \notin Passed /\ j \in Passed'
  /\ toClient'[Creator] = Append(toClient[Creator], Msg("NOTIFY"))

\* What a step may do to the creator's part.
LEMMA CreatorMoves ==
  ASSUME SessionInv, ListInv, JoinInv, server = "up", [Next]_vars
  PROVE  \/ CreatorStep
         \/ Connect(Creator)
         \/ HandlerStep(Creator)
         \/ /\ toServer'[Creator] = toServer[Creator] /\ hpc'[Creator] = hpc[Creator]
            /\ UNCHANGED <<credentials, pcount>>
            /\ cpc'[Creator] = cpc[Creator] \/ (cpc[Creator] = "racing" /\ cpc'[Creator] = "updating")
            /\ toClient'[Creator] = toClient[Creator] \/ \E j \in Joiners : Notifies(j)
<1>1. /\ SessionTypes /\ JoinersInv /\ Creator \in Clients /\ Creator \notin Joiners
      /\ Joiners \subseteq Clients /\ Clients = {Creator} \cup Joiners
      /\ cpc \in [Clients -> ClientPlaces] /\ hpc \in [Clients -> HandlerPlaces]
      /\ toServer \in [Clients -> Seq(Requests)]
  BY CreatorIsClient DEF SessionInv, SessionTypes, Clients
<1>2. ASSUME NEW c \in Joiners, JoinerStep(c)
      PROVE  /\ toServer'[Creator] = toServer[Creator] /\ hpc'[Creator] = hpc[Creator]
             /\ UNCHANGED <<credentials, pcount>> /\ cpc'[Creator] = cpc[Creator]
             /\ toClient'[Creator] = toClient[Creator]
  <2>. DEFINE m == Head(toClient[c])
  <2>1. /\ toClient[c] # <<>>
        /\ ChooseGame(c, m) \/ ShowInfo(c, m) \/ Joined(c, m) \/ WaitForStart(c, m)
    BY <1>2 DEF JoinerStep
  <2>. HIDE DEF m
  <2>2. /\ Receive(c, m) /\ UNCHANGED <<hpc, credentials, pcount>>
        /\ toServer' = toServer \/ \E r : toServer' = [toServer EXCEPT ![c] = Append(@, r)]
        /\ \E p : cpc' = [cpc EXCEPT ![c] = p]
    BY <2>1 DEF ChooseGame, ShowInfo, Joined, WaitForStart, Send, handlers
  <2>3. toClient'[Creator] = toClient[Creator]
    BY <1>1, <2>1, <2>2, ReceiveTakes
  <2>. QED  BY <1>1, <2>2, <2>3
<1>3. ASSUME NEW c \in Joiners, Connect(c)
      PROVE  /\ toServer'[Creator] = toServer[Creator] /\ hpc'[Creator] = hpc[Creator]
             /\ UNCHANGED <<credentials, pcount>> /\ cpc'[Creator] = cpc[Creator]
             /\ toClient'[Creator] = toClient[Creator]
  <2>1. /\ hpc' = [hpc EXCEPT ![c] = "recv"] /\ UNCHANGED <<toClient, credentials, pcount>>
        /\ \E r, p : toServer' = [toServer EXCEPT ![c] = Append(@, r)] /\ cpc' = [cpc EXCEPT ![c] = p]
    BY <1>3 DEF Connect, Send
  <2>. QED  BY <1>1, <2>1
<1>4. ASSUME NEW c \in Joiners, HandlerStep(c)
      PROVE  /\ toServer'[Creator] = toServer[Creator] /\ hpc'[Creator] = hpc[Creator]
             /\ UNCHANGED <<credentials, pcount>> /\ cpc'[Creator] = cpc[Creator]
             /\ toClient'[Creator] = toClient[Creator] \/ Notifies(c)
  <2>1. Aside(c) /\ UNCHANGED <<credentials, pcount>> /\ list' = list
    BY <1>1, <1>4, HandlerTypes, HandlerWalks DEF users
  <2>2. toClient'[Creator] = toClient[Creator] \/ Notifies(c)
    <3>1. \/ toClient'[Creator] = toClient[Creator]
          \/ /\ Notify(c) /\ toClient'[Creator] = Append(toClient[Creator], Msg("NOTIFY"))
             /\ list[pos[c]] = Creator
      <4>1. ASSUME NEW n, NEW m \in Messages, Reply(n, m), n # Creator
            PROVE  toClient'[Creator] = toClient[Creator]
        BY <1>1, <4>1, ReplyPuts
      <4>2. /\ \A t \in {"NF", "FI", "PI", "GI", "JG", "NOTIFY"} : Msg(t) \in Messages
            /\ Msg(left[c]) \in Messages /\ c # Creator
            /\ hpc[c] \in {"none", "recv", "giReply", "jgReply", "walk"}
        BY <1>1, Records DEF Kinds, SessionTypes, JoinersInv
      <4>3. CASE Notify(c)
        <5>1. toClient' = toClient \/ Reply(list[pos[c]], Msg("NOTIFY"))
          BY <4>3 DEF Notify
        <5>2. CASE list[pos[c]] = Creator /\ Reply(Creator, Msg("NOTIFY"))
          BY <1>1, <4>2, <4>3, <5>2, ReplyPuts
        <5>. QED  BY <4>1, <4>2, <5>1, <5>2
      <4>4. CASE ListGames(c)
        <5>. DEFINE m == [Msg("LI") EXCEPT !.count = IF listed THEN 1 ELSE 0]
        <5>1. m \in Messages
          BY DEF Msg, Messages, Kinds
        <5>2. Reply(c, m)
          BY <4>4 DEF ListGames
        <5>. HIDE DEF m
        <5>. QED  BY <4>1, <4>2, <5>1, <5>2
      <4>5. CASE Answer(c) \/ ReplyInfo(c) \/ ReplyJoin(c) \/ SendLeftover(c)
        BY <4>1, <4>2, <4>5 DEF Answer, ReplyInfo, ReplyJoin, SendLeftover
      <4>6. CASE CreateGame(c) \/ GameInfo(c) \/ JoinGame(c) \/ StartGame(c)
        BY <4>6 DEF CreateGame, GameInfo, JoinGame, StartGame
      <4>7. ~AssignCreated(c) /\ ~ReplyCreated(c) /\ ~SendStart(c) /\ ~EnterGameplay(c)
        BY <4>2 DEF AssignCreated, ReplyCreated, SendStart, EnterGameplay, At
      <4>. QED  BY <1>4, <4>3, <4>4, <4>5, <4>6, <4>7 DEF HandlerStep
    <3>2. ASSUME Notify(c), list[pos[c]] = Creator PROVE c \notin Passed /\ c \in Passed'
      <4>1. /\ hpc[c] = "walk" /\ hpc' = hpc /\ pos[c] <= Len(list)
            /\ pos' = [pos EXCEPT ![c] = @ + 1] /\ pos \in [Clients -> 1..Len(list) + 1]
        BY <3>2 DEF Notify, At, ListInv
      <4>2. /\ pos'[c] = pos[c] + 1 /\ pos[c] \in 1..Len(list) /\ Len(list) \in Nat
            /\ DOMAIN list = 1..Len(list) /\ Once(list)
        BY <1>1, <4>1, LenProperties DEF ListInv
      <4>3. c \notin Passed
        <5>1. pos[c] \in pos[c]..Len(list)
          BY <4>2
        <5>. QED  BY <3>2, <4>1, <5>1 DEF Passed
      <4>4. c \in JoinTaken /\ c \in JoinTaken'
        <5>1. JoinStage(c)
          BY DEF JoinInv
        <5>2. JoinSent(c) /\ OnlyTypes(toServer[c], {"PI"})
          BY <4>1, <5>1 DEF JoinStage, Joining, Asking, Listing
        <5>. QED  BY <1>1, <5>1, <5>2, TakenMeansPI, TakenStays
      <4>5. ASSUME NEW i \in pos'[c]..Len(list) PROVE list[i] # Creator
        BY <3>2, <4>2 DEF Once
      <4>. QED  BY <2>1, <4>1, <4>3, <4>4, <4>5 DEF Passed
    <3>. QED  BY <3>1, <3>2 DEF Notifies
  <2>. QED  BY <1>1, <2>1, <2>2 DEF Aside
<1>5. ASSUME ControlC \/ ServerGone \/ UNCHANGED vars \/ \E c \in Clients : UpdatePlayer(c)
      PROVE  /\ toServer'[Creator] = toServer[Creator] /\ hpc'[Creator] = hpc[Creator]
             /\ UNCHANGED <<credentials, pcount>>
             /\ cpc'[Creator] = cpc[Creator] \/ (cpc[Creator] = "racing" /\ cpc'[Creator] = "updating")
             /\ toClient'[Creator] = toClient[Creator]
  <2>1. UNCHANGED <<hpc, toServer, toClient, credentials, pcount>>
    BY <1>5 DEF ControlC, ServerGone, UpdatePlayer, vars, handlers, users
  <2>2. \/ cpc' = cpc
        \/ \E c \in Clients : cpc[c] = "racing" /\ cpc' = [cpc EXCEPT ![c] = "updating"]
    BY <1>5 DEF ControlC, ServerGone, UpdatePlayer, vars, users
  <2>. QED  BY <1>1, <2>1, <2>2
<1>. QED  BY <1>1, <1>2, <1>3, <1>4, <1>5 DEF Next

-----------------------------------------------------------------------------
(* What the creator has counted and may still count. *)

OnlyKinds(q, K) == \A i \in DOMAIN q : q[i].kind \in K

\* The answer to the creator's CG is still to be written.
Owed == IF hpc[Creator] \in {"cgAssign", "cgReply"} THEN 1 ELSE 0

CountInv ==
  /\ cpc[Creator] \notin {"list", "info", "join", "joined"}
  /\ pcount \in 1..Cardinality(Clients)
  /\ OnlyTypes(toServer[Creator], Kinds \ {"NOTIFY", "blank"})
  /\ server = "up" =>
       /\ cpc[Creator] \notin {"racing", "updating", "exit"} =>
            OnlyKinds(toClient[Creator], Kinds \ {"blank"})
       /\ cpc[Creator] \in {"none", "fields", "field", "create"} => pcount = 1
       /\ cpc[Creator] = "create" /\ Made =>
            /\ OnlyKinds(toClient[Creator], {"CG", "NOTIFY"})
            /\ Cardinality(NotPI(toClient[Creator])) + Owed <= Cardinality(Passed) + 1
       /\ cpc[Creator] = "wait" =>
            /\ OnlyKinds(toClient[Creator], {"CG", "NOTIFY", "PI"})
            /\ pcount - 1 + Cardinality(NotPI(toClient[Creator])) + Owed <= Cardinality(Passed)

LEMMA KindsOfQueue ==
  ASSUME NEW q \in Seq(Messages), NEW m \in Messages, NEW K
  PROVE  /\ OnlyKinds(q, K) /\ m.kind \in K => OnlyKinds(Append(q, m), K)
         /\ OnlyKinds(q, K) /\ q # <<>> => OnlyKinds(Tail(q), K) /\ Head(q).kind \in K
<1>1. ASSUME OnlyKinds(q, K), m.kind \in K PROVE OnlyKinds(Append(q, m), K)
  <2>1. ASSUME NEW i \in DOMAIN Append(q, m) PROVE Append(q, m)[i].kind \in K
    <3>1. CASE i = Len(q) + 1
      BY <1>1, <3>1, QueueGrows
    <3>2. CASE i # Len(q) + 1
      BY <1>1, <3>2, QueueGrows DEF OnlyKinds
    <3>. QED  BY <3>1, <3>2
  <2>. QED  BY <2>1 DEF OnlyKinds
<1>2. ASSUME OnlyKinds(q, K), q # <<>> PROVE OnlyKinds(Tail(q), K) /\ Head(q).kind \in K
  BY <1>2, QueueShrinks DEF OnlyKinds
<1>. QED  BY <1>1, <1>2

\* What the creator's handler does for it, until the creator races.
LEMMA CreatorServed ==
  ASSUME SessionInv, HandlerStep(Creator),
         cpc[Creator] \in {"fields", "field", "create", "wait", "start"}
  PROVE  /\ server = "up" /\ UNCHANGED users
         /\ \/ \E t \in {"NF", "FI", "PI"} :
                 /\ Take(Creator, t) /\ UNCHANGED handlers
                 /\ toClient'[Creator] = Append(toClient[Creator], Msg(t))
            \/ /\ Take(Creator, "CG") /\ hpc'[Creator] = "cgAssign"
               /\ UNCHANGED <<server, toClient, members>>
            \/ /\ hpc[Creator] = "cgAssign" /\ hpc'[Creator] = "cgReply"
               /\ members' = members \cup {Creator} /\ UNCHANGED <<server, toClient, toServer>>
            \/ /\ hpc[Creator] = "cgReply" /\ hpc'[Creator] = "recv"
               /\ toClient'[Creator] = Append(toClient[Creator], Msg("CG"))
               /\ UNCHANGED <<server, toServer, members>>
            \/ cpc[Creator] = "start" /\ StartGame(Creator)
            \/ cpc[Creator] = "start" /\ SendStart(Creator)
            \/ cpc[Creator] = "start" /\ EnterGameplay(Creator)
<1>1. /\ SessionTypes /\ Creator \in Clients
      /\ {"NF", "FI", "PI", "CG"} \subseteq Kinds
  BY CreatorIsClient DEF SessionInv, Kinds
<1>2. server = "up" /\ UNCHANGED users
  BY <1>1, HandlerTypes DEF HandlerStep, Answer, ListGames, CreateGame, AssignCreated,
     ReplyCreated, GameInfo, ReplyInfo, JoinGame, ReplyJoin, Notify, SendLeftover, StartGame,
     SendStart, EnterGameplay, Take, At
<1>3. /\ hpc[Creator] \in {"recv", "cgAssign", "cgReply", "sgSend", "gameplay"}
      /\ hpc[Creator] \in {"sgSend", "gameplay"} => cpc[Creator] = "start"
  BY <1>2 DEF SessionInv, CreatorInv, Sent, Answered, Made, Creating, Starting
<1>4. ASSUME NEW t, Take(Creator, t)
      PROVE  t \in {"NF", "FI", "PI", "CG"} \/ (t = "SG" /\ cpc[Creator] = "start")
  BY <1>4, CreatorTakes
<1>5. \A k \in {"NF", "FI", "PI", "CG"} :
         Reply(Creator, Msg(k)) => toClient'[Creator] = Append(toClient[Creator], Msg(k))
  BY <1>1, ReplyPuts, Records
<1>6. \A p \in {"recv", "cgAssign", "cgReply"} : Goto(Creator, p) => hpc'[Creator] = p
  BY <1>1, GoesTo DEF HandlerPlaces
<1>7. CASE Answer(Creator)
  BY <1>2, <1>5, <1>7 DEF Answer
<1>8. CASE CreateGame(Creator)
  BY <1>2, <1>6, <1>8 DEF CreateGame
<1>9. CASE AssignCreated(Creator)
  BY <1>2, <1>6, <1>9 DEF AssignCreated, At
<1>10. CASE ReplyCreated(Creator)
  BY <1>2, <1>5, <1>6, <1>10 DEF ReplyCreated, At
<1>11. CASE StartGame(Creator)
  BY <1>2, <1>4, <1>11 DEF StartGame
<1>12. CASE SendStart(Creator) \/ EnterGameplay(Creator)
  BY <1>2, <1>3, <1>12 DEF SendStart, EnterGameplay, At
<1>13. ~ListGames(Creator) /\ ~GameInfo(Creator) /\ ~JoinGame(Creator)
  BY <1>4 DEF ListGames, GameInfo, JoinGame
<1>14. ~ReplyInfo(Creator) /\ ~ReplyJoin(Creator) /\ ~Notify(Creator) /\ ~SendLeftover(Creator)
  BY <1>3 DEF ReplyInfo, ReplyJoin, Notify, SendLeftover, At
<1>. QED  BY <1>7, <1>8, <1>9, <1>10, <1>11, <1>12, <1>13, <1>14 DEF HandlerStep

\* The creator takes no more than it is due.
LEMMA CreatorCounts ==
  ASSUME SessionInv, CountInv, server = "up", CreatorStep,
         Cardinality(Passed) <= Cardinality(Passed')
  PROVE  CountInv'
<1>. DEFINE q == toClient[Creator]  m == Head(q)  N == Cardinality(NotPI(q))
            P == Cardinality(Passed)
<1>1. /\ SessionTypes /\ Creator \in Clients /\ q \in Seq(Messages)
      /\ toServer[Creator] \in Seq(Requests) /\ q # <<>>
  BY CreatorIsClient DEF SessionInv, SessionTypes, CreatorStep
<1>2. /\ m \in Messages /\ toClient'[Creator] = Tail(q) /\ Tail(q) \in Seq(Messages)
      /\ \A K : OnlyKinds(q, K) => OnlyKinds(Tail(q), K) /\ m.kind \in K
      /\ Receive(Creator, m) /\ UNCHANGED handlers
  <2>1. Receive(Creator, m) /\ UNCHANGED handlers
    BY DEF CreatorStep, ChooseField, Created, WaitForPlayers, ResendUntilStart
  <2>2. m \in Messages /\ toClient'[Creator] = Tail(q) /\ Tail(q) \in Seq(Messages)
    BY <1>1, <2>1, ReceiveTakes, QueueShrinks
  <2>. QED  BY <1>1, <2>1, <2>2, KindsOfQueue
<1>3. /\ N \in Nat /\ P \in Nat /\ Weight(m) \in 0..1 /\ P + 1 <= Cardinality(Clients)
      /\ Cardinality(Passed') \in Nat
      /\ Cardinality(NotPI(Tail(q))) \in Nat /\ Cardinality(NotPI(Tail(q))) <= N - Weight(m)
      /\ Owed \in 0..1 /\ Owed' = Owed /\ Cardinality(Clients) \in Nat
  <2>1. Passed \in SUBSET Joiners /\ Passed' \in SUBSET Joiners
    BY DEF Passed, JoinTaken
  <2>2. N \in Nat /\ Cardinality(NotPI(Tail(q))) \in Nat
    BY <1>1, <1>2, CountedIsNotPI
  <2>3. Cardinality(NotPI(Tail(q))) <= N - Weight(m)
    BY <1>1, NotPIShrinks
  <2>4. Owed \in 0..1 /\ Owed' = Owed /\ Weight(m) \in 0..1
    BY <1>2 DEF Owed, Weight, handlers
  <2>. QED  BY <2>1, <2>2, <2>3, <2>4, JoinersFit
<1>4. ASSUME NEW r \in Requests, NEW p \in ClientPlaces, Send(Creator, r, p),
             r.type \in Kinds \ {"NOTIFY", "blank"}
      PROVE  /\ cpc'[Creator] = p /\ toServer'[Creator] # <<>>
             /\ OnlyTypes(toServer'[Creator], Kinds \ {"NOTIFY", "blank"})
  <2>1. cpc'[Creator] = p /\ toServer'[Creator] = Append(toServer[Creator], r)
    BY <1>1, <1>4, SendPuts
  <2>2. OnlyTypes(Append(toServer[Creator], r), Kinds \ {"NOTIFY", "blank"})
    BY <1>1, <1>4, TypesOfQueue DEF CountInv
  <2>3. Append(toServer[Creator], r) # <<>>
    <3>1. Len(Append(toServer[Creator], r)) = Len(toServer[Creator]) + 1 /\ Len(toServer[Creator]) \in Nat
      BY <1>1, QueueGrows
    <3>. QED  BY <3>1
  <2>. QED  BY <2>1, <2>2, <2>3
<1>5. {"field", "create", "wait", "start"} \subseteq ClientPlaces
  BY DEF ClientPlaces, Waiting
<1>6. \A k \in {"FI", "CG", "PI"} : /\ Request(k) \in Requests /\ Request(k).type = k
                                    /\ k \in Kinds \ {"NOTIFY", "blank"}
  BY Records DEF Kinds
<1>7. pcount \in Nat /\ pcount >= 1 /\ pcount <= Cardinality(Clients)
  BY <1>3 DEF CountInv
<1>. HIDE DEF m, P, N
<1>8. CASE ChooseField(m)
  <2>1. /\ cpc[Creator] \in {"fields", "field"} /\ pcount' = pcount
        /\ Send(Creator, Request("FI"), "field") \/ Send(Creator, Request("CG"), "create")
    BY <1>8 DEF ChooseField
  <2>2. /\ cpc'[Creator] \in {"field", "create"} /\ toServer'[Creator] # <<>>
        /\ OnlyTypes(toServer'[Creator], Kinds \ {"NOTIFY", "blank"})
    BY <1>4, <1>5, <1>6, <2>1
  <2>3. OnlyKinds(toClient'[Creator], Kinds \ {"blank"}) /\ pcount = 1
    BY <1>2, <2>1 DEF CountInv
  <2>. QED  BY <1>3, <1>7, <2>1, <2>2, <2>3 DEF CountInv, Made
<1>9. CASE Created(m)
  <2>1. /\ cpc[Creator] = "create" /\ pcount' = pcount /\ Send(Creator, Request("PI"), "wait")
    BY <1>9 DEF Created
  <2>2. /\ cpc'[Creator] = "wait" /\ OnlyTypes(toServer'[Creator], Kinds \ {"NOTIFY", "blank"})
    BY <1>4, <1>5, <1>6, <2>1
  <2>3. Made
    BY <1>1, <2>1 DEF SessionInv, CreatorInv, Sent
  <2>4. OnlyKinds(q, {"CG", "NOTIFY"}) /\ N + Owed <= P + 1 /\ pcount = 1
    BY <2>1, <2>3 DEF CountInv, N, P
  <2>5. m.kind \in {"CG", "NOTIFY"} /\ OnlyKinds(Tail(q), {"CG", "NOTIFY"})
    BY <1>2, <2>4
  <2>6. /\ OnlyKinds(toClient'[Creator], {"CG", "NOTIFY", "PI"})
        /\ OnlyKinds(toClient'[Creator], Kinds \ {"blank"})
    BY <1>2, <2>5 DEF OnlyKinds, Kinds
  <2>7. Weight(m) = 1
    BY <2>5 DEF Weight
  <2>8. pcount - 1 + Cardinality(NotPI(Tail(q))) + Owed <= Cardinality(Passed')
    BY <1>3, <2>4, <2>7 DEF P
  <2>. QED  BY <1>2, <1>3, <1>7, <2>1, <2>2, <2>6, <2>8 DEF CountInv
<1>10. CASE WaitForPlayers(m)
  <2>. DEFINE r == [type |-> "SG", game |-> 1, own |-> credentials]
  <2>1. /\ cpc[Creator] = "wait" /\ pcount' = Counted(m)
        /\ Send(Creator, r, "start") \/ Send(Creator, Request("PI"), "wait")
    BY <1>10 DEF WaitForPlayers
  <2>2. r \in Requests /\ r.type \in Kinds \ {"NOTIFY", "blank"}
    BY <1>1 DEF Requests, Kinds, SessionTypes
  <2>. HIDE DEF r
  <2>3. /\ cpc'[Creator] \in {"wait", "start"}
        /\ OnlyTypes(toServer'[Creator], Kinds \ {"NOTIFY", "blank"})
    BY <1>4, <1>5, <1>6, <2>1, <2>2
  <2>4. /\ OnlyKinds(q, {"CG", "NOTIFY", "PI"}) /\ pcount - 1 + N + Owed <= P
    BY <2>1 DEF CountInv, N, P
  <2>5. OnlyKinds(Tail(q), {"CG", "NOTIFY", "PI"})
    BY <1>2, <2>4
  <2>6. OnlyKinds(Tail(q), Kinds \ {"blank"})
    BY <2>5 DEF OnlyKinds, Kinds
  <2>7. Counted(m) \in Nat /\ Counted(m) >= pcount /\ Counted(m) <= pcount + Weight(m)
    BY <1>7, PIShowsNoName DEF Counted, Weight
  <2>8. /\ pcount' - 1 + Cardinality(NotPI(Tail(q))) + Owed <= Cardinality(Passed')
        /\ pcount' \in 1..Cardinality(Clients)
    BY <1>3, <1>7, <2>1, <2>4, <2>7 DEF P
  <2>. QED  BY <1>2, <1>3, <2>3, <2>5, <2>6, <2>8 DEF CountInv
<1>11. CASE ResendUntilStart(m)
  <2>1. /\ cpc[Creator] = "start" /\ pcount' = pcount
        /\ \/ toServer' = toServer /\ cpc' = [cpc EXCEPT ![Creator] = "racing"]
           \/ Send(Creator, Request(TypeOf(m)), "start")
    BY <1>11 DEF ResendUntilStart
  <2>2. OnlyKinds(Tail(q), Kinds \ {"blank"}) /\ m.kind \in Kinds \ {"blank"}
    BY <1>2, <2>1 DEF CountInv
  <2>3. TypeOf(m) \in Kinds \ {"NOTIFY", "blank"}
    BY <2>2 DEF TypeOf, Kinds
  <2>4. /\ cpc'[Creator] \in {"start", "racing"}
        /\ OnlyTypes(toServer'[Creator], Kinds \ {"NOTIFY", "blank"})
    <3>1. CASE Send(Creator, Request(TypeOf(m)), "start")
      BY <1>4, <1>5, <2>3, <3>1, Records
    <3>2. CASE toServer' = toServer /\ cpc' = [cpc EXCEPT ![Creator] = "racing"]
      BY <1>1, <3>2 DEF CountInv, SessionTypes
    <3>. QED  BY <2>1, <3>1, <3>2
  <2>. QED  BY <1>2, <1>3, <1>7, <2>1, <2>2, <2>4 DEF CountInv
<1>. QED  BY <1>8, <1>9, <1>10, <1>11 DEF CreatorStep, m

\* What the creator's handler adds is its answer, once.
LEMMA HandlerCounts ==
  ASSUME SessionInv, CountInv, HandlerStep(Creator),
         hpc[Creator] # "none" => Cardinality(Passed) <= Cardinality(Passed')
  PROVE  CountInv'
<1>. DEFINE q == toClient[Creator]  N == Cardinality(NotPI(q))  P == Cardinality(Passed)
<1>1. /\ SessionTypes /\ Creator \in Clients /\ q \in Seq(Messages)
      /\ toServer[Creator] \in Seq(Requests) /\ UNCHANGED users /\ server = "up"
  <2>1. UNCHANGED users /\ server = "up"
    BY CreatorIsClient DEF HandlerStep, Answer, ListGames, CreateGame, AssignCreated,
     ReplyCreated, GameInfo, ReplyInfo, JoinGame, ReplyJoin, Notify, SendLeftover, StartGame,
     SendStart, EnterGameplay, handlers, Take, At
  <2>. QED  BY <2>1, CreatorIsClient DEF SessionInv, SessionTypes
<1>2. cpc' = cpc /\ pcount' = pcount
  BY <1>1 DEF users
<1>3. OnlyTypes(toServer'[Creator], Kinds \ {"NOTIFY", "blank"})
  <2>1. ASSUME NEW t, Take(Creator, t)
        PROVE  OnlyTypes(toServer'[Creator], Kinds \ {"NOTIFY", "blank"})
    <3>1. toServer'[Creator] = Tail(toServer[Creator]) /\ toServer[Creator] # <<>>
      BY <1>1, <2>1, TakeTakes
    <3>2. Request("PI") \in Requests
      BY Records DEF Kinds
    <3>. QED  BY <1>1, <3>1, <3>2, TypesOfQueue DEF CountInv
  <2>2. toServer' = toServer \/ \E t : Take(Creator, t)
    BY DEF HandlerStep, Answer, ListGames, CreateGame, AssignCreated,
     ReplyCreated, GameInfo, ReplyInfo, JoinGame, ReplyJoin, Notify, SendLeftover, StartGame,
     SendStart, EnterGameplay
  <2>. QED  BY <2>1, <2>2 DEF CountInv
<1>4. SUFFICES ASSUME cpc[Creator] \notin {"racing", "updating", "exit"} PROVE CountInv'
  <2>1. CASE cpc[Creator] \in {"racing", "updating", "exit"}
    BY <1>2, <1>3, <2>1 DEF CountInv
  <2>. QED  BY <2>1
<1>5. cpc[Creator] \in {"fields", "field", "create", "wait", "start"} /\ hpc[Creator] # "none"
  <2>1. hpc[Creator] # "none"
    BY DEF HandlerStep, Answer, ListGames, CreateGame, AssignCreated,
     ReplyCreated, GameInfo, ReplyInfo, JoinGame, ReplyJoin, Notify, SendLeftover, StartGame,
     SendStart, EnterGameplay, Take, At
  <2>2. cpc[Creator] \in {"none", "fields", "field", "create", "wait", "start"}
    <3>1. cpc[Creator] \in ClientPlaces
      BY <1>1 DEF SessionTypes
    <3>. QED  BY <1>4, <3>1 DEF CountInv, ClientPlaces, Waiting
  <2>. QED  BY <1>1, <2>1, <2>2 DEF SessionInv, CreatorInv
<1>6. /\ N \in Nat /\ P \in Nat /\ Cardinality(Passed') \in Nat /\ P <= Cardinality(Passed')
      /\ pcount \in Nat
  <2>1. Passed \in SUBSET Joiners /\ Passed' \in SUBSET Joiners
    BY DEF Passed, JoinTaken
  <2>2. {} \in SUBSET Joiners
    OBVIOUS
  <2>. QED  BY <1>1, <1>5, <2>1, <2>2, CountedIsNotPI, JoinersFit DEF CountInv
<1>7. \A m \in Messages :
         /\ Cardinality(NotPI(Append(q, m))) \in Nat
         /\ Cardinality(NotPI(Append(q, m))) <= N + Weight(m)
         /\ \A K : OnlyKinds(q, K) /\ m.kind \in K => OnlyKinds(Append(q, m), K)
  <2>1. \A m \in Messages : Append(q, m) \in Seq(Messages)
    BY <1>1, QueueGrows
  <2>. QED  BY <1>1, <2>1, NotPIGrows, CountedIsNotPI, KindsOfQueue
<1>8. \A k \in {"NF", "FI", "PI", "CG", "SG"} :
         Msg(k) \in Messages /\ Msg(k).kind = k /\ k \in Kinds \ {"blank"}
  BY DEF Msg, Messages, Kinds
<1>9. /\ OnlyKinds(q, Kinds \ {"blank"})
      /\ cpc[Creator] \in {"fields", "field", "create"} => pcount = 1
      /\ cpc[Creator] = "create" /\ Made =>
           OnlyKinds(q, {"CG", "NOTIFY"}) /\ N + Owed <= P + 1
      /\ cpc[Creator] = "wait" =>
           OnlyKinds(q, {"CG", "NOTIFY", "PI"}) /\ pcount - 1 + N + Owed <= P
  BY <1>1, <1>5 DEF CountInv
<1>10. /\ cpc[Creator] = "create" => Sent("CG") \/ Made
       /\ cpc[Creator] \in {"fields", "field"} => hpc[Creator] = "recv"
       /\ cpc[Creator] = "wait" => Creating
  BY <1>1, <1>5 DEF SessionInv, CreatorInv, Sent, Answered, Made, Creating
<1>11. SUFFICES /\ OnlyKinds(toClient'[Creator], Kinds \ {"blank"})
                /\ cpc[Creator] = "create" /\ Made' =>
                    /\ OnlyKinds(toClient'[Creator], {"CG", "NOTIFY"})
                    /\ Cardinality(NotPI(toClient'[Creator])) + Owed' <= P + 1
                /\ cpc[Creator] = "wait" =>
                    /\ OnlyKinds(toClient'[Creator], {"CG", "NOTIFY", "PI"})
                    /\ pcount - 1 + Cardinality(NotPI(toClient'[Creator])) + Owed' <= P
  <2>. DEFINE M == Cardinality(NotPI(toClient'[Creator]))
  <2>1. toClient'[Creator] \in Seq(Messages)
    BY <1>1, HandlerTypes DEF SessionTypes
  <2>2. M \in Nat
    BY <2>1, CountedIsNotPI
  <2>3. Owed' \in 0..1
    BY DEF Owed
  <2>. HIDE DEF M
  <2>4. /\ M + Owed' <= P + 1 => M + Owed' <= Cardinality(Passed') + 1
        /\ pcount - 1 + M + Owed' <= P => pcount - 1 + M + Owed' <= Cardinality(Passed')
    <3>1. ASSUME NEW a \in Nat, NEW b \in 0..1, NEW c \in Nat, NEW d \in Nat, c <= d, NEW e \in Nat
          PROVE  /\ a + b <= c + 1 => a + b <= d + 1
                 /\ e - 1 + a + b <= c => e - 1 + a + b <= d
      BY <3>1
    <3>. HIDE DEF P
    <3>. QED  BY <1>6, <2>2, <2>3, <3>1
  <2>. QED  BY <1>2, <1>3, <1>5, <1>9, <2>4 DEF CountInv, M
<1>. HIDE DEF N, P
<1>12. CASE \E t \in {"NF", "FI", "PI"} :
              /\ Take(Creator, t) /\ UNCHANGED handlers
              /\ toClient'[Creator] = Append(q, Msg(t))
  <2>1. PICK t \in {"NF", "FI", "PI"} :
              /\ Take(Creator, t) /\ UNCHANGED handlers
              /\ toClient'[Creator] = Append(q, Msg(t))
    BY <1>12
  <2>2. /\ cpc[Creator] # "create" /\ (cpc[Creator] = "wait" => t = "PI") /\ Owed' = Owed
    BY <2>1, CreatorTakes DEF Owed, handlers
  <2>3. OnlyKinds(toClient'[Creator], Kinds \ {"blank"})
    BY <1>7, <1>8, <1>9, <2>1
  <2>4. ASSUME t = "PI", OnlyKinds(q, {"CG", "NOTIFY", "PI"})
        PROVE  /\ OnlyKinds(toClient'[Creator], {"CG", "NOTIFY", "PI"})
               /\ Cardinality(NotPI(toClient'[Creator])) \in Nat
               /\ Cardinality(NotPI(toClient'[Creator])) <= N
    <3>1. Weight(Msg("PI")) = 0 /\ Msg("PI") \in Messages /\ Msg("PI").kind = "PI"
      BY <1>8 DEF Weight
    <3>. QED  BY <1>6, <1>7, <2>1, <2>4, <3>1
  <2>5. Owed \in 0..1
    BY DEF Owed
  <2>. QED  BY <1>6, <1>9, <2>2, <2>3, <2>4, <2>5
<1>13. CASE /\ Take(Creator, "CG") /\ hpc'[Creator] = "cgAssign"
            /\ UNCHANGED <<server, toClient, members>>
  <2>1. toServer[Creator] # <<>> /\ cpc[Creator] # "wait"
    BY <1>13, CreatorTakes DEF Take
  <2>2. cpc[Creator] = "create" => q = <<>>
    BY <1>10, <2>1 DEF Sent, Made
  <2>3. cpc[Creator] = "create" => OnlyKinds(q, {"CG", "NOTIFY"}) /\ NotPI(q) = {}
    BY <2>2 DEF OnlyKinds, NotPI
  <2>4. Owed' = 1 /\ Cardinality({}) = 0
    BY <1>13, FS_EmptySet DEF Owed
  <2>5. Cardinality(NotPI(toClient'[Creator])) = N
    BY <1>13 DEF N
  <2>6. cpc[Creator] = "create" => N = 0
    BY <2>3, <2>4 DEF N
  <2>. QED  BY <1>6, <1>9, <1>13, <2>1, <2>3, <2>4, <2>5, <2>6
<1>14. CASE /\ hpc[Creator] = "cgAssign" /\ hpc'[Creator] = "cgReply"
            /\ members' = members \cup {Creator} /\ UNCHANGED <<server, toClient, toServer>>
  <2>1. Owed' = Owed /\ (Made' => Made)
    BY <1>14 DEF Owed, Made, Creating
  <2>. QED  BY <1>9, <1>14, <2>1 DEF N
<1>15. CASE /\ hpc[Creator] = "cgReply" /\ hpc'[Creator] = "recv"
            /\ toClient'[Creator] = Append(q, Msg("CG"))
            /\ UNCHANGED <<server, toServer, members>>
  <2>1. Owed' = 0 /\ Owed = 1 /\ (Made' => Made) /\ Weight(Msg("CG")) = 1
    BY <1>8, <1>15 DEF Owed, Made, Creating, Weight
  <2>2. /\ \A K : OnlyKinds(q, K) /\ "CG" \in K => OnlyKinds(toClient'[Creator], K)
        /\ Cardinality(NotPI(toClient'[Creator])) \in Nat
        /\ Cardinality(NotPI(toClient'[Creator])) <= N + 1
    BY <1>6, <1>7, <1>8, <1>15, <2>1
  <2>. QED  BY <1>6, <1>8, <1>9, <2>1, <2>2
<1>16. CASE cpc[Creator] = "start" /\ (StartGame(Creator) \/ EnterGameplay(Creator))
  BY <1>9, <1>16 DEF StartGame, EnterGameplay
<1>17. CASE cpc[Creator] = "start" /\ SendStart(Creator)
  <2>1. \/ toClient'[Creator] = q
        \/ toClient'[Creator] = Append(q, Msg("SG"))
    <3>1. Reply(Head(todo), Msg("SG"))
      BY <1>17 DEF SendStart
    <3>. QED  BY <1>1, <1>8, <3>1, ReplyPuts
  <2>. QED  BY <1>7, <1>8, <1>9, <1>17, <2>1
<1>. QED  BY <1>5, <1>12, <1>13, <1>14, <1>15, <1>16, <1>17, CreatorServed

LEMMA CountInductive ==
  ASSUME SessionInv, ListInv, JoinInv, CountInv, [Next]_vars
  PROVE  CountInv'
<1>1. CASE server # "up"
  <2>1. /\ ControlC \/ ServerGone \/ (\E c \in Clients : UpdatePlayer(c)) \/ UNCHANGED vars
    BY <1>1 DEF Next, CreatorStep, JoinerStep, ChooseField, Created, WaitForPlayers,
       ResendUntilStart, ChooseGame, ShowInfo, Joined, WaitForStart, Receive, Connect, HandlerStep,
       Answer, ListGames, CreateGame, AssignCreated, ReplyCreated, GameInfo, ReplyInfo, JoinGame,
       ReplyJoin, Notify, SendLeftover, StartGame, SendStart, EnterGameplay, Take, At
  <2>2. /\ UNCHANGED <<server, toServer, pcount>>
        /\ cpc'[Creator] = cpc[Creator] \/ cpc'[Creator] = "updating" \/ cpc'[Creator] = "exit"
    <3>1. cpc \in [Clients -> ClientPlaces] /\ Creator \in Clients
      BY CreatorIsClient DEF SessionInv, SessionTypes
    <3>2. UNCHANGED <<server, toServer, pcount>>
      BY <2>1 DEF ControlC, ServerGone, UpdatePlayer, vars, handlers, users
    <3>3. CASE ControlC \/ UNCHANGED vars
      BY <3>2, <3>3 DEF ControlC, vars, users
    <3>4. CASE ServerGone
      BY <3>1, <3>2, <3>4 DEF ServerGone
    <3>5. CASE \E c \in Clients : UpdatePlayer(c)
      BY <3>1, <3>2, <3>5 DEF UpdatePlayer
    <3>. QED  BY <2>1, <3>2, <3>3, <3>4, <3>5
  <2>. QED  BY <1>1, <2>2 DEF CountInv
<1>. SUFFICES ASSUME server = "up" PROVE CountInv'
  BY <1>1
<1>2. ASSUME hpc[Creator] # "none"
      PROVE  /\ Passed \in SUBSET Passed' /\ IsFiniteSet(Passed') /\ IsFiniteSet(Passed)
             /\ Cardinality(Passed) <= Cardinality(Passed')
  <2>1. Passed \in SUBSET Passed'
    BY <1>2, PassedStays
  <2>2. Passed' \in SUBSET Joiners
    BY DEF Passed, JoinTaken
  <2>3. IsFiniteSet(Passed')
    BY <2>2, JoinersFit
  <2>. QED  BY <2>1, <2>3, FS_Subset
<1>3. /\ Creator \in Clients /\ toClient[Creator] \in Seq(Messages)
      /\ cpc[Creator] = "none" <=> hpc[Creator] = "none"
  BY CreatorIsClient DEF SessionInv, SessionTypes, CreatorInv
<1>4. CASE CreatorStep
  <2>1. cpc[Creator] # "none"
    BY <1>4 DEF CreatorStep, ChooseField, Created, WaitForPlayers, ResendUntilStart
  <2>. QED  BY <1>2, <1>3, <1>4, <2>1, CreatorCounts
<1>5. CASE Connect(Creator)
  <2>1. /\ cpc[Creator] = "none" /\ UNCHANGED <<pcount, toClient>>
        /\ Send(Creator, Request("NF"), "fields")
    BY <1>3, <1>5 DEF Connect, At
  <2>2. /\ toServer[Creator] \in Seq(Requests) /\ Request("NF") \in Requests /\ "fields" \in ClientPlaces
        /\ Request("NF").type \in Kinds \ {"NOTIFY", "blank"} /\ SessionTypes
    BY Records, <1>3 DEF SessionInv, SessionTypes, Kinds, ClientPlaces, Waiting
  <2>3. cpc'[Creator] = "fields" /\ toServer'[Creator] = Append(toServer[Creator], Request("NF"))
    BY <1>3, <2>1, <2>2, SendPuts
  <2>4. OnlyTypes(toServer'[Creator], Kinds \ {"NOTIFY", "blank"})
    BY <2>2, <2>3, TypesOfQueue DEF CountInv
  <2>. QED  BY <2>1, <2>3, <2>4 DEF CountInv
<1>6. CASE HandlerStep(Creator)
  BY <1>2, <1>6, HandlerCounts
<1>7. CASE /\ toServer'[Creator] = toServer[Creator] /\ hpc'[Creator] = hpc[Creator]
           /\ UNCHANGED <<credentials, pcount>>
           /\ cpc'[Creator] = cpc[Creator] \/ (cpc[Creator] = "racing" /\ cpc'[Creator] = "updating")
           /\ toClient'[Creator] = toClient[Creator] \/ \E j \in Joiners : Notifies(j)
  <2>. DEFINE q == toClient[Creator]  N == Cardinality(NotPI(q))  P == Cardinality(Passed)
              M == Cardinality(NotPI(toClient'[Creator]))
  <2>1. /\ Owed' = Owed /\ Owed \in 0..1 /\ (Made' <=> Made)
    BY <1>7 DEF Owed, Made, Creating
  <2>2. /\ \A K : "NOTIFY" \in K /\ OnlyKinds(q, K) => OnlyKinds(toClient'[Creator], K)
        /\ "NOTIFY" \in Kinds \ {"blank"}
        /\ hpc[Creator] # "none" => M - N <= Cardinality(Passed') - P
        /\ M \in Nat /\ N \in Nat /\ Cardinality(Passed') \in Nat /\ P \in Nat
    <3>1. Passed \in SUBSET Joiners /\ Passed' \in SUBSET Joiners
      BY DEF Passed, JoinTaken
    <3>2. Cardinality(Passed') \in Nat /\ P \in Nat /\ N \in Nat
      BY <1>3, <3>1, JoinersFit, CountedIsNotPI
    <3>3. CASE toClient'[Creator] = q
      BY <1>2, <3>2, <3>3 DEF Kinds
    <3>4. CASE \E j \in Joiners : Notifies(j)
      <4>1. PICK j \in Joiners : Notifies(j)
        BY <3>4
      <4>2. /\ Msg("NOTIFY") \in Messages /\ Msg("NOTIFY").kind = "NOTIFY"
            /\ Weight(Msg("NOTIFY")) = 1 /\ "NOTIFY" \in Kinds \ {"blank"}
        BY DEF Msg, Messages, Weight, Kinds
      <4>3. /\ toClient'[Creator] = Append(q, Msg("NOTIFY")) /\ Append(q, Msg("NOTIFY")) \in Seq(Messages)
            /\ \A K : "NOTIFY" \in K /\ OnlyKinds(q, K) => OnlyKinds(Append(q, Msg("NOTIFY")), K)
        BY <1>3, <4>1, <4>2, QueueGrows, KindsOfQueue DEF Notifies
      <4>4. M \in Nat /\ M <= N + 1
        BY <1>3, <3>2, <4>2, <4>3, CountedIsNotPI, NotPIGrows
      <4>5. hpc[Creator] # "none" => P + 1 <= Cardinality(Passed')
        <5>1. SUFFICES ASSUME hpc[Creator] # "none" PROVE P + 1 <= Cardinality(Passed')
          OBVIOUS
        <5>2. IsFiniteSet(Passed) /\ IsFiniteSet(Passed') /\ j \notin Passed
              /\ Passed \cup {j} \in SUBSET Passed'
          BY <1>2, <4>1, <5>1 DEF Notifies
        <5>3. Cardinality(Passed \cup {j}) = P + 1
          BY <5>2, FS_AddElement
        <5>. QED  BY <5>2, <5>3, FS_Subset
      <4>. HIDE DEF M, N, P
      <4>. QED  BY <3>2, <4>2, <4>3, <4>4, <4>5
    <3>. QED  BY <1>7, <3>3, <3>4
  <2>3. pcount \in Nat
    <3>1. {} \in SUBSET Joiners
      OBVIOUS
    <3>. QED  BY <3>1, JoinersFit DEF CountInv
  <2>4. CASE cpc[Creator] = "create" /\ Made
    <3>1. hpc[Creator] # "none" /\ cpc'[Creator] = "create" /\ pcount' = 1
      BY <1>3, <1>7, <2>4 DEF CountInv
    <3>2. /\ OnlyKinds(toClient'[Creator], Kinds \ {"blank"})
          /\ OnlyKinds(toClient'[Creator], {"CG", "NOTIFY"}) /\ N + Owed <= P + 1
      BY <2>2, <2>4 DEF CountInv
    <3>3. M + Owed <= Cardinality(Passed') + 1
      <4>. HIDE DEF M, N, P
      <4>. QED  BY <2>1, <2>2, <3>1, <3>2
    <3>. QED  BY <1>7, <2>1, <3>1, <3>2, <3>3 DEF CountInv
  <2>5. CASE cpc[Creator] = "wait"
    <3>1. hpc[Creator] # "none" /\ cpc'[Creator] = "wait" /\ pcount' = pcount
      BY <1>3, <1>7, <2>5
    <3>2. /\ OnlyKinds(toClient'[Creator], Kinds \ {"blank"})
          /\ OnlyKinds(toClient'[Creator], {"CG", "NOTIFY", "PI"}) /\ pcount - 1 + N + Owed <= P
      BY <2>2, <2>5 DEF CountInv
    <3>3. pcount - 1 + M + Owed <= Cardinality(Passed')
      <4>. HIDE DEF M, N, P
      <4>. QED  BY <2>1, <2>2, <2>3, <3>1, <3>2
    <3>. QED  BY <1>7, <2>1, <3>1, <3>2, <3>3 DEF CountInv
  <2>6. CASE cpc[Creator] # "wait" /\ ~(cpc[Creator] = "create" /\ Made)
    <3>1. cpc[Creator] \notin {"racing", "updating", "exit"} => OnlyKinds(toClient'[Creator], Kinds \ {"blank"})
      BY <2>2 DEF CountInv
    <3>. QED  BY <1>7, <2>1, <2>6, <3>1 DEF CountInv
  <2>. QED  BY <2>4, <2>5, <2>6
<1>. QED  BY <1>4, <1>5, <1>6, <1>7, CreatorMoves

-----------------------------------------------------------------------------
(* Whether the creator starts with the credentials it was given. *)

\* The creator has its own game ID and password, or somebody has joined.
Explained == credentials \/ JoinTaken # {}

\* Every SG of a queue carries the credentials the creator has, and those are
\* explained.
StartsAs(q, own, why) == \A i \in DOMAIN q : q[i].type = "SG" => q[i].own = own /\ why

CredInv ==
  /\ server \in {"up", "unknownGame", "wrongPassword"}
  /\ server = "wrongPassword" => ~credentials /\ \E j \in Joiners : chosen[j] = 1
  /\ server = "up" =>
       /\ cpc[Creator] = "create" => JoinTaken # {} \/ OnlyKinds(toClient[Creator], {"CG"})
       /\ cpc[Creator] \in {"wait", "start"} => Explained
       /\ StartsAs(toServer[Creator], credentials, Explained)

LEMMA StartsOfQueue ==
  ASSUME NEW q \in Seq(Requests), NEW r \in Requests, NEW own, NEW why
  PROVE  /\ StartsAs(q, own, why) /\ (r.type = "SG" => r.own = own /\ why)
              => StartsAs(Append(q, r), own, why)
         /\ StartsAs(q, own, why) /\ q # <<>>
              => StartsAs(Tail(q), own, why) /\ (Head(q).type = "SG" => Head(q).own = own /\ why)
<1>1. ASSUME StartsAs(q, own, why), r.type = "SG" => r.own = own /\ why
      PROVE  StartsAs(Append(q, r), own, why)
  <2>1. ASSUME NEW i \in DOMAIN Append(q, r), Append(q, r)[i].type = "SG"
        PROVE  Append(q, r)[i].own = own /\ why
    <3>1. CASE i = Len(q) + 1
      BY <1>1, <2>1, <3>1, QueueGrows
    <3>2. CASE i # Len(q) + 1
      BY <1>1, <2>1, <3>2, QueueGrows DEF StartsAs
    <3>. QED  BY <3>1, <3>2
  <2>. QED  BY <2>1 DEF StartsAs
<1>2. ASSUME StartsAs(q, own, why), q # <<>>
      PROVE  StartsAs(Tail(q), own, why) /\ (Head(q).type = "SG" => Head(q).own = own /\ why)
  BY <1>2, QueueShrinks DEF StartsAs
<1>. QED  BY <1>1, <1>2

\* The server exits over a join of no game or over the creator's start.
LEMMA ServerExits ==
  ASSUME SessionInv, server = "up", [Next]_vars
  PROVE  \/ server' \in {"up", "unknownGame"}
         \/ /\ server' = "wrongPassword" /\ StartGame(Creator) /\ ~Head(toServer[Creator]).own
<1>1. ASSUME NEW c \in Clients, StartGame(c) PROVE c = Creator
  <2>1. SUFFICES ASSUME c \in Joiners PROVE FALSE
    BY DEF Clients
  <2>2. /\ toServer[c] \in Seq(Requests) /\ toServer[c] # <<>> /\ Head(toServer[c]).type = "SG"
        /\ OnlyTypes(toServer[c], {"LI", "GI", "JG", "PI"}) /\ Request("PI") \in Requests
    BY <1>1, <2>1, Records DEF StartGame, Take, SessionInv, SessionTypes, JoinersInv, Kinds
  <2>. QED  BY <2>2, TypesOfQueue
<1>2. \/ server' \in {"up", "unknownGame"}
      \/ \E c \in Clients : StartGame(c) /\ server' # server
  BY DEF Next, vars, handlers, users, CreatorStep, ChooseField, Created, WaitForPlayers,
     ResendUntilStart, JoinerStep, ChooseGame, ShowInfo, Joined, WaitForStart, ControlC, ServerGone,
     Connect, UpdatePlayer, HandlerStep, Answer, ListGames, CreateGame, AssignCreated,
     ReplyCreated, GameInfo, ReplyInfo, JoinGame, ReplyJoin, Notify, SendLeftover, StartGame,
     SendStart, EnterGameplay
<1>. QED  BY <1>1, <1>2 DEF StartGame

\* Who has joined has asked for the game.
LEMMA TakenAsked ==
  ASSUME SessionInv, JoinInv, server = "up", NEW j \in JoinTaken
  PROVE  j \in Joiners /\ chosen[j] = 1
<1>1. j \in Joiners /\ JoinStage(j)
  BY DEF JoinTaken, JoinInv
<1>2. JoinSent(j) /\ OnlyTypes(toServer[j], {"PI"})
  BY <1>1, TakenMeansPI DEF SessionInv
<1>3. ~JoinAhead(j)
  <2>1. toServer[j] \in Seq(Requests) /\ Request("PI") \in Requests
    BY <1>1, JoinTypes, Records DEF SessionInv, Kinds
  <2>. QED  BY <1>2, <2>1, TypesOfQueue DEF JoinAhead
<1>. QED  BY <1>1, <1>2, <1>3 DEF JoinStage, Joining

\* What the creator takes for the answer to its CG is that answer, unless
\* somebody has joined.
LEMMA CreatorExplains ==
  ASSUME SessionInv, CountInv, CredInv, server = "up", CreatorStep,
         JoinTaken # {} => JoinTaken' # {}
  PROVE  CredInv'
<1>. DEFINE q == toClient[Creator]  m == Head(q)  s == toServer[Creator]
<1>1. /\ SessionTypes /\ Creator \in Clients /\ q \in Seq(Messages) /\ s \in Seq(Requests)
      /\ q # <<>> /\ credentials \in BOOLEAN
  BY CreatorIsClient DEF SessionInv, SessionTypes, CreatorStep
<1>2. /\ m \in Messages /\ toClient'[Creator] = Tail(q) /\ server' = "up"
      /\ Receive(Creator, m) /\ UNCHANGED handlers
  <2>1. Receive(Creator, m) /\ UNCHANGED handlers
    BY DEF CreatorStep, ChooseField, Created, WaitForPlayers, ResendUntilStart
  <2>2. m \in Messages /\ toClient'[Creator] = Tail(q)
    BY <1>1, <2>1, ReceiveTakes
  <2>. QED  BY <2>1, <2>2 DEF handlers
<1>3. ASSUME NEW r \in Requests, NEW p \in ClientPlaces, Send(Creator, r, p)
      PROVE  cpc'[Creator] = p /\ toServer'[Creator] = Append(s, r)
  BY <1>1, <1>3, SendPuts
<1>4. {"field", "create", "wait", "start"} \subseteq ClientPlaces
  BY DEF ClientPlaces, Waiting
<1>5. \A k \in Kinds : Request(k) \in Requests /\ Request(k).type = k
  BY Records
<1>6. {"FI", "CG", "PI"} \subseteq Kinds
  BY DEF Kinds
<1>7. StartsAs(s, credentials, Explained)
  BY DEF CredInv
<1>8. ASSUME credentials' = credentials, Explained
      PROVE  Explained' /\ \A t : StartsAs(t, credentials, Explained) => StartsAs(t, credentials', Explained')
  BY <1>8 DEF Explained, StartsAs
<1>9. ASSUME credentials' = credentials, NEW t, StartsAs(t, credentials, Explained)
      PROVE  StartsAs(t, credentials', Explained')
  BY <1>9 DEF Explained, StartsAs
<1>. HIDE DEF m
<1>10. CASE ChooseField(m)
  <2>1. /\ cpc[Creator] \in {"fields", "field"} /\ credentials' = credentials
        /\ Send(Creator, Request("FI"), "field") \/ Send(Creator, Request("CG"), "create")
    BY <1>10 DEF ChooseField
  <2>2. PICK k \in {"FI", "CG"} : toServer'[Creator] = Append(s, Request(k))
    BY <1>3, <1>4, <1>5, <1>6, <2>1
  <2>3. cpc'[Creator] \in {"field", "create"}
    BY <1>3, <1>4, <1>5, <1>6, <2>1
  <2>4. Tail(q) = <<>>
    <3>1. Len(q) = 1
      BY <2>1, <1>1 DEF SessionInv, CreatorInv, Sent, Answered
    <3>2. Tail(q) \in Seq(Messages) /\ Len(Tail(q)) = 0
      BY <1>1, <3>1, QueueShrinks
    <3>. QED  BY <3>2, EmptySeq
  <2>5. OnlyKinds(toClient'[Creator], {"CG"})
    BY <1>2, <2>4 DEF OnlyKinds
  <2>6. StartsAs(Append(s, Request(k)), credentials, Explained)
    <3>1. k \in Kinds /\ k # "SG"
      BY <1>6
    <3>. QED  BY <1>1, <1>5, <1>7, <3>1, StartsOfQueue
  <2>7. StartsAs(toServer'[Creator], credentials', Explained')
    BY <1>9, <2>1, <2>2, <2>6
  <2>. QED  BY <1>2, <2>3, <2>5, <2>7 DEF CredInv
<1>11. CASE Created(m)
  <2>1. /\ cpc[Creator] = "create" /\ credentials' = OwnCredentials(m)
        /\ Send(Creator, Request("PI"), "wait")
    BY <1>11 DEF Created
  <2>2. cpc'[Creator] = "wait" /\ toServer'[Creator] = Append(s, Request("PI"))
    BY <1>3, <1>4, <1>5, <1>6, <2>1
  <2>3. s = <<>>
    BY <1>1, <2>1 DEF SessionInv, CreatorInv, Sent, Made
  <2>4. StartsAs(Append(s, Request("PI")), credentials', Explained')
    <3>1. StartsAs(s, credentials', Explained')
      BY <2>3 DEF StartsAs
    <3>2. Request("PI") \in Requests /\ Request("PI").type # "SG"
      BY <1>5, <1>6
    <3>. QED  BY <1>1, <3>1, <3>2, StartsOfQueue
  <2>5. Explained'
    <3>1. CASE JoinTaken # {}
      BY <3>1 DEF Explained
    <3>2. CASE OnlyKinds(q, {"CG"})
      <4>1. m.kind = "CG"
        BY <1>1, <1>2, <3>2, KindsOfQueue DEF m
      <4>. QED  BY <2>1, <4>1, AnswerShowsCredentials DEF Explained
    <3>. QED  BY <2>1, <3>1, <3>2 DEF CredInv
  <2>. QED  BY <1>2, <2>2, <2>4, <2>5 DEF CredInv
<1>12. CASE WaitForPlayers(m)
  <2>. DEFINE r == [type |-> "SG", game |-> 1, own |-> credentials]
  <2>1. /\ cpc[Creator] = "wait" /\ credentials' = credentials
        /\ Send(Creator, r, "start") \/ Send(Creator, Request("PI"), "wait")
    BY <1>12 DEF WaitForPlayers
  <2>2. r \in Requests /\ r.own = credentials
    BY <1>1 DEF Requests, Kinds
  <2>. HIDE DEF r
  <2>3. cpc'[Creator] \in {"wait", "start"} /\ Explained
    BY <1>3, <1>4, <1>5, <1>6, <2>1, <2>2 DEF CredInv
  <2>4. /\ StartsAs(Append(s, r), credentials, Explained)
        /\ StartsAs(Append(s, Request("PI")), credentials, Explained)
    BY <1>1, <1>5, <1>6, <1>7, <2>2, <2>3, StartsOfQueue
  <2>5. toServer'[Creator] = Append(s, r) \/ toServer'[Creator] = Append(s, Request("PI"))
    BY <1>3, <1>4, <1>5, <1>6, <2>1, <2>2
  <2>. QED  BY <1>2, <1>8, <2>1, <2>3, <2>4, <2>5 DEF CredInv
<1>13. CASE ResendUntilStart(m)
  <2>1. /\ cpc[Creator] = "start" /\ credentials' = credentials
        /\ \/ toServer' = toServer /\ cpc' = [cpc EXCEPT ![Creator] = "racing"]
           \/ m.kind # "SG" /\ Send(Creator, Request(TypeOf(m)), "start")
    BY <1>13 DEF ResendUntilStart
  <2>2. m.kind # "SG" => TypeOf(m) # "SG"
    BY DEF TypeOf
  <2>3. TypeOf(m) \in Kinds
    BY <1>2, Records
  <2>4. cpc'[Creator] # "create" /\ Explained
    <3>1. CASE toServer' = toServer /\ cpc' = [cpc EXCEPT ![Creator] = "racing"]
      BY <1>1, <2>1, <3>1 DEF CredInv, SessionTypes
    <3>2. CASE Send(Creator, Request(TypeOf(m)), "start")
      BY <1>3, <1>4, <1>5, <2>1, <2>3, <3>2 DEF CredInv
    <3>. QED  BY <2>1, <3>1, <3>2
  <2>5. \/ toServer'[Creator] = s
        \/ m.kind # "SG" /\ toServer'[Creator] = Append(s, Request(TypeOf(m)))
    BY <1>3, <1>4, <1>5, <2>1, <2>3
  <2>6. m.kind # "SG" => StartsAs(Append(s, Request(TypeOf(m))), credentials, Explained)
    BY <1>1, <1>5, <1>7, <2>2, <2>3, StartsOfQueue
  <2>. QED  BY <1>2, <1>7, <1>8, <2>1, <2>4, <2>5, <2>6 DEF CredInv
<1>. QED  BY <1>10, <1>11, <1>12, <1>13 DEF CreatorStep, m

LEMMA CredInductive ==
  ASSUME SessionInv, ListInv, JoinInv, CountInv, CredInv, [Next]_vars
  PROVE  CredInv'
<1>1. CASE server # "up"
  <2>1. /\ ControlC \/ ServerGone \/ (\E c \in Clients : UpdatePlayer(c)) \/ UNCHANGED vars
    BY <1>1 DEF Next, CreatorStep, JoinerStep, ChooseField, Created, WaitForPlayers,
       ResendUntilStart, ChooseGame, ShowInfo, Joined, WaitForStart, Receive, Connect, HandlerStep,
       Answer, ListGames, CreateGame, AssignCreated, ReplyCreated, GameInfo, ReplyInfo, JoinGame,
       ReplyJoin, Notify, SendLeftover, StartGame, SendStart, EnterGameplay, Take, At
  <2>2. UNCHANGED <<server, credentials, chosen>>
    BY <2>1 DEF ControlC, ServerGone, UpdatePlayer, vars, handlers, users
  <2>. QED  BY <1>1, <2>2 DEF CredInv
<1>. SUFFICES ASSUME server = "up" PROVE CredInv'
  BY <1>1
<1>2. /\ SessionTypes /\ Creator \in Clients /\ toClient[Creator] \in Seq(Messages)
      /\ toServer[Creator] \in Seq(Requests) /\ credentials \in BOOLEAN
  BY CreatorIsClient DEF SessionInv, SessionTypes
<1>3. JoinTaken # {} => JoinTaken' # {}
  BY TakenStays
<1>4. ASSUME credentials' = credentials
      PROVE  /\ Explained => Explained'
             /\ \A t : StartsAs(t, credentials, Explained) => StartsAs(t, credentials', Explained')
  BY <1>3, <1>4 DEF Explained, StartsAs
<1>5. CASE CreatorStep
  BY <1>3, <1>5, CreatorExplains
<1>6. CASE Connect(Creator)
  <2>1. /\ credentials' = credentials /\ server' = "up"
        /\ Send(Creator, Request("NF"), "fields")
    BY <1>6 DEF Connect, At
  <2>2. Request("NF") \in Requests /\ Request("NF").type # "SG" /\ "fields" \in ClientPlaces
    BY Records DEF Kinds, ClientPlaces, Waiting
  <2>3. cpc'[Creator] = "fields" /\ toServer'[Creator] = Append(toServer[Creator], Request("NF"))
    BY <1>2, <2>1, <2>2, SendPuts
  <2>4. StartsAs(toServer'[Creator], credentials, Explained)
    BY <1>2, <2>2, <2>3, StartsOfQueue DEF CredInv
  <2>. QED  BY <1>4, <2>1, <2>3, <2>4 DEF CredInv
<1>7. CASE HandlerStep(Creator)
  <2>1. UNCHANGED users /\ (toServer' = toServer \/ \E t : Take(Creator, t))
    BY <1>7 DEF HandlerStep, Answer, ListGames, CreateGame, AssignCreated,
     ReplyCreated, GameInfo, ReplyInfo, JoinGame, ReplyJoin, Notify, SendLeftover, StartGame,
     SendStart, EnterGameplay, handlers
  <2>2. UNCHANGED <<cpc, credentials, chosen>>
    BY <2>1 DEF users
  <2>3. StartsAs(toServer'[Creator], credentials, Explained)
    <3>1. CASE toServer' = toServer
      BY <3>1 DEF CredInv
    <3>2. CASE \E t : Take(Creator, t)
      <4>1. toServer'[Creator] = Tail(toServer[Creator]) /\ toServer[Creator] # <<>>
        BY <1>2, <3>2, TakeTakes
      <4>2. Request("PI") \in Requests
        BY Records DEF Kinds
      <4>. QED  BY <1>2, <4>1, <4>2, StartsOfQueue DEF CredInv
    <3>. QED  BY <2>1, <3>1, <3>2
  <2>4. cpc[Creator] = "create" => JoinTaken' # {} \/ OnlyKinds(toClient'[Creator], {"CG"})
    <3>1. SUFFICES ASSUME cpc[Creator] = "create", OnlyKinds(toClient[Creator], {"CG"})
                   PROVE  OnlyKinds(toClient'[Creator], {"CG"})
      BY <1>3 DEF CredInv
    <3>2. toClient' = toClient \/ toClient'[Creator] = Append(toClient[Creator], Msg("CG"))
      <4>1. ASSUME NEW t, Take(Creator, t) PROVE t = "CG"
        BY <3>1, <4>1, CreatorTakes
      <4>. QED  BY <1>7, <3>1, <4>1, CreatorServed
    <3>3. Msg("CG") \in Messages /\ Msg("CG").kind = "CG"
      BY DEF Msg, Messages, Kinds
    <3>. QED  BY <1>2, <3>1, <3>2, <3>3, KindsOfQueue
  <2>5. server' = "wrongPassword" => ~credentials /\ \E j \in Joiners : chosen[j] = 1
    <3>1. SUFFICES ASSUME server' = "wrongPassword"
                   PROVE  ~credentials /\ \E j \in Joiners : chosen[j] = 1
      OBVIOUS
    <3>2. StartGame(Creator) /\ ~Head(toServer[Creator]).own
      BY <3>1, ServerExits
    <3>3. toServer[Creator] # <<>> /\ Head(toServer[Creator]).type = "SG"
      BY <3>2 DEF StartGame, Take
    <3>4. Head(toServer[Creator]).own = credentials /\ Explained
      <4>1. Request("PI") \in Requests
        BY Records DEF Kinds
      <4>. QED  BY <1>2, <3>3, <4>1, StartsOfQueue DEF CredInv
    <3>. QED  BY <3>2, <3>4, TakenAsked DEF Explained
  <2>6. server' \in {"up", "unknownGame", "wrongPassword"}
    BY ServerExits
  <2>. QED  BY <1>4, <2>2, <2>3, <2>4, <2>5, <2>6 DEF CredInv
<1>8. CASE /\ toServer'[Creator] = toServer[Creator] /\ hpc'[Creator] = hpc[Creator]
           /\ UNCHANGED <<credentials, pcount>>
           /\ cpc'[Creator] = cpc[Creator] \/ (cpc[Creator] = "racing" /\ cpc'[Creator] = "updating")
           /\ toClient'[Creator] = toClient[Creator] \/ \E j \in Joiners : Notifies(j)
  <2>1. \/ toClient'[Creator] = toClient[Creator] \/ JoinTaken' # {}
    BY <1>8 DEF Notifies, Passed
  <2>2. server' = "wrongPassword" => HandlerStep(Creator)
    BY ServerExits DEF HandlerStep
  <2>3. server' \in {"up", "unknownGame", "wrongPassword"}
    BY ServerExits
  <2>4. CASE server' # "wrongPassword"
    BY <1>3, <1>4, <1>8, <2>1, <2>3, <2>4 DEF CredInv
  <2>. QED  BY <1>7, <2>2, <2>4
<1>. QED  BY <1>5, <1>6, <1>7, <1>8, CreatorMoves

-----------------------------------------------------------------------------
(* That an answer is due to whoever waits for one. *)

AnswerComesTo(c) ==
  \/ toClient[c] # <<>> \/ toServer[c] # <<>>
  \/ hpc[c] \notin {"recv", "gameplay"}

Due(c) == cpc[c] \in Waiting => AnswerComesTo(c) \/ LeftOut(c)

\* A started creator's own start message has not been missed, if it is to get one.
StartComes ==
  hpc[Creator] \in {"sgSend", "gameplay"} /\ cpc[Creator] = "start" =>
    \/ Holds(toClient[Creator], "SG")
    \/ hpc[Creator] = "sgSend" /\ Creator \in ToSet(todo)
    \/ Crowded

\* Who creates a game is a player of it before it can start it.
CreatorPlays ==
  cpc[Creator] \in {"create", "wait", "start"} /\ hpc[Creator] \in {"recv", "cgReply"} =>
    Creator \in members \/ (cpc[Creator] = "create" /\ toServer[Creator] # <<>>)

DueInv ==
  server = "up" => (\A c \in Clients : Due(c)) /\ StartComes /\ CreatorPlays

\* Nobody leaves the game.
LEMMA CrowdStays ==
  ASSUME ListInv, members' = members \/ \E c \in Clients : members' = members \cup {c}
  PROVE  Crowded => Crowded'
<1>1. IsFiniteSet(Clients)
  <2>1. IsFiniteSet(Joiners) /\ Clients = Joiners \cup {Creator}
    BY SessionAssumption DEF SessionAssumption, Clients
  <2>. QED  BY <2>1, FS_AddElement
<1>2. /\ members' \ {Creator} \in SUBSET Clients
      /\ members \ {Creator} \in SUBSET (members' \ {Creator})
  BY DEF ListInv
<1>3. IsFiniteSet(members' \ {Creator})
  BY <1>1, <1>2, FS_Subset
<1>4. /\ Cardinality(members \ {Creator}) <= Cardinality(members' \ {Creator})
      /\ Cardinality(members' \ {Creator}) \in Nat /\ Cardinality(members \ {Creator}) \in Nat
  BY <1>2, <1>3, FS_Subset, FS_CardinalityType
<1>. QED  BY <1>4, SessionAssumption DEF Crowded, SessionAssumption

LEMMA NotEmpty ==
  ASSUME NEW S, NEW q \in Seq(S), NEW x \in S
  PROVE  Append(q, x) # <<>>
<1>1. Len(Append(q, x)) = Len(q) + 1 /\ Len(q) \in Nat
  BY QueueGrows
<1>. QED  BY <1>1

\* Whatever is put into a queue, an SG in it stays.
LEMMA HoldsStays ==
  ASSUME NEW q \in Seq(Messages), NEW m \in Messages, NEW k
  PROVE  /\ Holds(q, k) => Holds(Append(q, m), k)
         /\ m.kind = k => Holds(Append(q, m), k)
         /\ Holds(q, k) => q # <<>>
         /\ Holds(q, k) /\ Head(q).kind # k => Holds(Tail(q), k)
<1>1. /\ DOMAIN q = 1..Len(q) /\ DOMAIN Append(q, m) = 1..Len(q) + 1 /\ Len(q) \in Nat
      /\ \A i \in 1..Len(q) : Append(q, m)[i] = q[i]
      /\ Append(q, m)[Len(q) + 1] = m
  BY QueueGrows
<1>2. Holds(q, k) => Holds(Append(q, m), k)
  BY <1>1 DEF Holds
<1>3. m.kind = k => Holds(Append(q, m), k)
  <2>1. Len(q) + 1 \in DOMAIN Append(q, m)
    BY <1>1
  <2>. QED  BY <1>1, <2>1 DEF Holds
<1>4. Holds(q, k) => q # <<>>
  BY <1>1 DEF Holds
<1>5. ASSUME Holds(q, k), Head(q).kind # k PROVE Holds(Tail(q), k)
  <2>1. PICK i \in DOMAIN q : q[i].kind = k
    BY <1>5 DEF Holds
  <2>2. /\ Head(q) = q[1] /\ DOMAIN Tail(q) = 1..Len(q) - 1
        /\ \A n \in 1..Len(q) - 1 : Tail(q)[n] = q[n + 1]
    BY <1>4, <1>5, QueueShrinks
  <2>3. i - 1 \in 1..Len(q) - 1 /\ (i - 1) + 1 = i
    BY <1>1, <1>5, <2>1, <2>2
  <2>4. i - 1 \in DOMAIN Tail(q) /\ Tail(q)[i - 1].kind = k
    BY <2>1, <2>2, <2>3
  <2>. QED  BY <2>4 DEF Holds
<1>. QED  BY <1>2, <1>3, <1>4, <1>5

\* Handlers only add to what is on the way to a client.
LEMMA HandlerAdds ==
  ASSUME SessionTypes, ListInv, NEW c \in Clients, HandlerStep(c), NEW d \in Clients
  PROVE  toClient'[d] = toClient[d] \/ \E m \in Messages : toClient'[d] = Append(toClient[d], m)
<1>1. ASSUME NEW n, NEW m \in Messages, Reply(n, m)
      PROVE  toClient'[d] = toClient[d] \/ toClient'[d] = Append(toClient[d], m)
  BY <1>1, ReplyPuts
<1>2. /\ \A t \in Kinds : Msg(t) \in Messages
      /\ \A t \in {"NF", "FI", "PI", "CG", "GI", "JG", "NOTIFY", "SG"} : t \in Kinds
      /\ left[c] \in Kinds
  BY Records DEF Kinds, SessionTypes
<1>3. CASE ListGames(c)
  <2>. DEFINE m == [Msg("LI") EXCEPT !.count = IF listed THEN 1 ELSE 0]
  <2>1. m \in Messages
    BY DEF Msg, Messages, Kinds
  <2>2. Reply(c, m)
    BY <1>3 DEF ListGames
  <2>. HIDE DEF m
  <2>. QED  BY <1>1, <2>1, <2>2
<1>4. CASE \/ Answer(c) \/ Notify(c) \/ ReplyCreated(c) \/ ReplyInfo(c) \/ ReplyJoin(c)
           \/ SendLeftover(c) \/ SendStart(c)
  <2>1. toClient' = toClient \/ \E n, t : t \in Kinds /\ Reply(n, Msg(t))
    BY <1>2, <1>4 DEF Answer, Notify, ReplyCreated, ReplyInfo, ReplyJoin, SendLeftover, SendStart
  <2>. QED  BY <1>1, <1>2, <2>1
<1>5. CASE \/ CreateGame(c) \/ AssignCreated(c) \/ GameInfo(c) \/ JoinGame(c) \/ StartGame(c)
           \/ EnterGameplay(c)
  BY <1>5 DEF CreateGame, AssignCreated, GameInfo, JoinGame, StartGame, EnterGameplay
<1>. QED  BY <1>3, <1>4, <1>5 DEF HandlerStep

\* A handler that takes a request up answers it or is at work for it.
LEMMA HandlerOwes ==
  ASSUME SessionTypes, NEW c \in Clients, HandlerStep(c), server' = "up", ~EnterGameplay(c)
  PROVE  toClient'[c] # <<>> \/ hpc'[c] \notin {"recv", "gameplay"}
<1>1. ASSUME NEW m \in Messages, Reply(c, m) PROVE toClient'[c] # <<>>
  BY <1>1, ReplyPuts, NotEmpty DEF SessionTypes
<1>2. /\ \A t \in Kinds : Msg(t) \in Messages
      /\ \A t \in {"NF", "FI", "PI", "CG", "GI", "JG", "NOTIFY", "SG"} : t \in Kinds
      /\ left[c] \in Kinds
  BY Records DEF Kinds, SessionTypes
<1>3. CASE ListGames(c)
  <2>. DEFINE m == [Msg("LI") EXCEPT !.count = IF listed THEN 1 ELSE 0]
  <2>1. m \in Messages
    BY DEF Msg, Messages, Kinds
  <2>2. Reply(c, m)
    BY <1>3 DEF ListGames
  <2>. HIDE DEF m
  <2>. QED  BY <1>1, <2>1, <2>2
<1>4. CASE Answer(c) \/ ReplyCreated(c) \/ ReplyInfo(c) \/ SendLeftover(c)
  <2>1. \E t \in Kinds : Reply(c, Msg(t))
    BY <1>2, <1>4 DEF Answer, ReplyCreated, ReplyInfo, SendLeftover
  <2>. QED  BY <1>1, <1>2, <2>1
<1>5. CASE \/ CreateGame(c) \/ AssignCreated(c) \/ GameInfo(c) \/ JoinGame(c) \/ StartGame(c)
           \/ ReplyJoin(c)
  <2>1. \E p \in {"cgAssign", "cgReply", "giReply", "jgReply", "sgSend", "walk"} : Goto(c, p)
    BY <1>5 DEF CreateGame, AssignCreated, GameInfo, JoinGame, StartGame, ReplyJoin
  <2>. QED  BY <2>1, GoesTo DEF HandlerPlaces
<1>6. CASE Notify(c) \/ SendStart(c)
  BY <1>6 DEF Notify, SendStart, At
<1>. QED  BY <1>3, <1>4, <1>5, <1>6 DEF HandlerStep

\* A client that sends waits for an answer that is due.
LEMMA SenderDue ==
  ASSUME SessionTypes, NEW c \in Clients, NEW r \in Requests, NEW p \in ClientPlaces, Send(c, r, p)
  PROVE  Due(c)' /\ toServer'[c] # <<>> /\ cpc'[c] = p
<1>1. toServer'[c] = Append(toServer[c], r) /\ toServer[c] \in Seq(Requests) /\ cpc'[c] = p
  BY SendPuts DEF SessionTypes
<1>. QED  BY <1>1, NotEmpty DEF Due, AnswerComesTo

\* What others do leaves an answer due.
LEMMA DueAside ==
  ASSUME SessionTypes, NEW c \in Clients, Due(c),
         toServer'[c] = toServer[c], hpc'[c] = hpc[c],
         cpc'[c] = cpc[c] \/ cpc'[c] \notin Waiting,
         toClient'[c] = toClient[c] \/ \E m \in Messages : toClient'[c] = Append(toClient[c], m),
         Crowded => Crowded'
  PROVE  Due(c)'
<1>1. toClient[c] \in Seq(Messages)
  BY DEF SessionTypes
<1>2. toClient[c] # <<>> => toClient'[c] # <<>>
  BY <1>1, NotEmpty
<1>. QED  BY <1>2 DEF Due, AnswerComesTo, LeftOut, Waiting

LEMMA JoinerDue ==
  ASSUME SessionInv, NEW c \in Joiners, JoinInv, JoinerStep(c), server = "up"
  PROVE  Due(c)' /\ \A d \in Clients : d # c => UNCHANGED <<toServer[d], toClient[d], cpc[d]>>
<1>. DEFINE m == Head(toClient[c])
<1>1. /\ toClient[c] # <<>>
      /\ ChooseGame(c, m) \/ ShowInfo(c, m) \/ Joined(c, m) \/ WaitForStart(c, m)
  BY DEF JoinerStep
<1>2. /\ SessionTypes /\ c \in Clients /\ chosen[c] \in 0..1 /\ JoinStage(c)
      /\ toServer \in [Clients -> Seq(Requests)] /\ cpc \in [Clients -> ClientPlaces]
  BY JoinTypes DEF SessionInv, JoinInv, SessionTypes
<1>. HIDE DEF m
<1>3. Receive(c, m)
  BY <1>1 DEF ChooseGame, ShowInfo, Joined, WaitForStart
<1>4. \A d \in Clients : d # c => toClient'[d] = toClient[d]
  BY <1>1, <1>2, <1>3, ReceiveTakes
<1>5. \/ \E r \in Requests, p \in ClientPlaces : Send(c, r, p)
      \/ toServer' = toServer /\ cpc' = [cpc EXCEPT ![c] = "racing"]
  <2>1. /\ \A k \in {"GI", "JG", "PI"} : /\ Request(k) \in Requests
                                         /\ \A n \in 0..1 : [Request(k) EXCEPT !.game = n] \in Requests
        /\ {"join", "info", "joined"} \subseteq ClientPlaces /\ 1 \in 0..1
    BY Records DEF Kinds, ClientPlaces, Waiting
  <2>2. CASE ChooseGame(c, m)
    <3>1. \/ Send(c, Request("JG"), "join")
          \/ Send(c, [Request("GI") EXCEPT !.game = 1], "info")
      BY <2>2 DEF ChooseGame
    <3>. QED  BY <2>1, <3>1
  <2>3. CASE ShowInfo(c, m)
    <3>1. Send(c, [Request("JG") EXCEPT !.game = chosen[c]], "join")
      BY <2>3 DEF ShowInfo
    <3>. QED  BY <1>2, <2>1, <3>1
  <2>4. CASE Joined(c, m) \/ WaitForStart(c, m)
    BY <2>1, <2>4 DEF Joined, WaitForStart
  <2>. QED  BY <1>1, <2>2, <2>3, <2>4
<1>6. CASE \E r \in Requests, p \in ClientPlaces : Send(c, r, p)
  <2>1. PICK r \in Requests, p \in ClientPlaces : Send(c, r, p)
    BY <1>6
  <2>. QED  BY <1>2, <1>4, <2>1, SenderDue, SendPuts
<1>7. CASE toServer' = toServer /\ cpc' = [cpc EXCEPT ![c] = "racing"]
  <2>1. cpc'[c] = "racing" /\ \A d \in Clients : d # c => cpc'[d] = cpc[d]
    BY <1>2, <1>7
  <2>2. "racing" \notin Waiting
    BY DEF Waiting
  <2>. QED  BY <1>4, <1>7, <2>1, <2>2 DEF Due
<1>. QED  BY <1>5, <1>6, <1>7

\* The creator waits for its own start message only when one will come.
LEMMA CreatorDue ==
  ASSUME SessionInv, CountInv, DueInv, server = "up", CreatorStep
  PROVE  /\ Due(Creator)' /\ StartComes' /\ CreatorPlays'
         /\ \A d \in Clients : d # Creator => UNCHANGED <<toServer[d], toClient[d], cpc[d]>>
<1>. DEFINE q == toClient[Creator]  m == Head(q)
<1>1. /\ SessionTypes /\ Creator \in Clients /\ q \in Seq(Messages) /\ q # <<>>
      /\ toServer \in [Clients -> Seq(Requests)] /\ cpc \in [Clients -> ClientPlaces]
      /\ credentials \in BOOLEAN
  BY CreatorIsClient DEF SessionInv, SessionTypes, CreatorStep
<1>2. /\ m \in Messages /\ toClient'[Creator] = Tail(q) /\ UNCHANGED handlers
      /\ \A d \in Clients : d # Creator => toClient'[d] = toClient[d]
  <2>1. Receive(Creator, m) /\ UNCHANGED handlers
    BY DEF CreatorStep, ChooseField, Created, WaitForPlayers, ResendUntilStart
  <2>2. m \in Messages /\ toClient'[Creator] = Tail(q)
        /\ \A d \in Clients : d # Creator => toClient'[d] = toClient[d]
    BY <1>1, <2>1, ReceiveTakes
  <2>. QED  BY <2>1, <2>2
<1>3. UNCHANGED <<hpc, todo, members>>
  BY <1>2 DEF handlers
<1>4. /\ {"field", "create", "wait", "start"} \subseteq ClientPlaces /\ "racing" \notin Waiting
      /\ \A k \in Kinds : Request(k) \in Requests
      /\ {"FI", "CG", "PI"} \subseteq Kinds
  BY Records DEF ClientPlaces, Waiting, Kinds
<1>5. ASSUME NEW r \in Requests, NEW p \in ClientPlaces, Send(Creator, r, p)
      PROVE  /\ Due(Creator)' /\ toServer'[Creator] # <<>> /\ cpc'[Creator] = p
             /\ \A d \in Clients : d # Creator => toServer'[d] = toServer[d] /\ cpc'[d] = cpc[d]
  BY <1>1, <1>5, SenderDue, SendPuts
<1>6. StartComes /\ CreatorPlays
  BY <1>1 DEF DueInv
<1>. HIDE DEF m
<1>7. CASE ChooseField(m)
  <2>1. \/ Send(Creator, Request("FI"), "field")
        \/ Send(Creator, Request("CG"), "create")
    BY <1>7 DEF ChooseField
  <2>2. PICK p \in {"field", "create"} : Send(Creator, Request("FI"), p) \/ Send(Creator, Request("CG"), p)
    BY <2>1
  <2>3. /\ Due(Creator)' /\ toServer'[Creator] # <<>> /\ cpc'[Creator] = p
        /\ \A d \in Clients : d # Creator => toServer'[d] = toServer[d] /\ cpc'[d] = cpc[d]
    BY <1>4, <1>5, <2>2
  <2>. QED  BY <1>2, <2>3 DEF StartComes, CreatorPlays
<1>8. CASE Created(m)
  <2>1. cpc[Creator] = "create" /\ Send(Creator, Request("PI"), "wait")
    BY <1>8 DEF Created
  <2>2. /\ Due(Creator)' /\ cpc'[Creator] = "wait"
        /\ \A d \in Clients : d # Creator => toServer'[d] = toServer[d] /\ cpc'[d] = cpc[d]
    BY <1>4, <1>5, <2>1
  <2>3. toServer[Creator] = <<>>
    BY <1>1, <2>1 DEF SessionInv, CreatorInv, Sent, Made
  <2>. QED  BY <1>2, <1>3, <1>6, <2>1, <2>2, <2>3 DEF StartComes, CreatorPlays
<1>9. CASE WaitForPlayers(m)
  <2>. DEFINE r == [type |-> "SG", game |-> 1, own |-> credentials]
  <2>1. /\ cpc[Creator] = "wait"
        /\ Send(Creator, r, "start") \/ Send(Creator, Request("PI"), "wait")
    BY <1>9 DEF WaitForPlayers
  <2>2. r \in Requests
    BY <1>1 DEF Requests, Kinds
  <2>. HIDE DEF r
  <2>3. /\ Due(Creator)' /\ cpc'[Creator] \in {"wait", "start"}
        /\ \A d \in Clients : d # Creator => toServer'[d] = toServer[d] /\ cpc'[d] = cpc[d]
    BY <1>4, <1>5, <2>1, <2>2
  <2>4. hpc[Creator] \notin {"sgSend", "gameplay"}
    BY <1>1, <2>1 DEF SessionInv, CreatorInv, Creating
  <2>. QED  BY <1>2, <1>3, <1>6, <2>1, <2>3, <2>4 DEF StartComes, CreatorPlays
<1>10. CASE ResendUntilStart(m)
  <2>1. /\ cpc[Creator] = "start"
        /\ \/ toServer' = toServer /\ cpc' = [cpc EXCEPT ![Creator] = "racing"]
           \/ m.kind # "SG" /\ Send(Creator, Request(TypeOf(m)), "start")
    BY <1>10 DEF ResendUntilStart
  <2>2. CASE toServer' = toServer /\ cpc' = [cpc EXCEPT ![Creator] = "racing"]
    <3>1. cpc'[Creator] = "racing" /\ \A d \in Clients : d # Creator => cpc'[d] = cpc[d]
      BY <1>1, <2>2
    <3>. QED  BY <1>2, <1>4, <2>2, <3>1 DEF Due, StartComes, CreatorPlays
  <2>3. CASE m.kind # "SG" /\ Send(Creator, Request(TypeOf(m)), "start")
    <3>1. TypeOf(m) \in Kinds
      BY <1>2, Records
    <3>2. /\ Due(Creator)' /\ cpc'[Creator] = "start"
          /\ \A d \in Clients : d # Creator => toServer'[d] = toServer[d] /\ cpc'[d] = cpc[d]
      BY <1>4, <1>5, <2>3, <3>1
    <3>3. Holds(q, "SG") => Holds(Tail(q), "SG")
      BY <1>1, <1>2, <2>3, HoldsStays DEF m
    <3>. QED  BY <1>2, <1>3, <1>6, <2>1, <3>2, <3>3 DEF StartComes, CreatorPlays, Crowded
  <2>. QED  BY <2>1, <2>2, <2>3
<1>. QED  BY <1>7, <1>8, <1>9, <1>10 DEF CreatorStep, m

\* The start message of a game goes to its creator too, unless it is crowded.
LEMMA CreatorIsStarted ==
  ASSUME SessionInv, ListInv, hpc[Creator] # "none", Creator \in members
  PROVE  Creator \in ToSet(Players) \/ Crowded
<1>. SUFFICES ASSUME Creator \notin ToSet(Players) PROVE Crowded
  OBVIOUS
<1>1. list \in Seq(Clients) /\ Once(list) /\ Creator \in ToSet(list) /\ members \subseteq Clients
  BY CreatorIsClient DEF ListInv
<1>2. /\ Players \in Seq(Clients) /\ ToSet(Players) \subseteq members \ {Creator}
      /\ Once(Players) /\ Len(Players) = MaxPlayers
  BY <1>1, PlayersCollected
<1>. DEFINE others == members \ {Creator}
<1>3. IsFiniteSet(others)
  <2>1. IsFiniteSet(Joiners) /\ Clients = Joiners \cup {Creator}
    BY SessionAssumption DEF SessionAssumption, Clients
  <2>2. others \in SUBSET Joiners
    BY <1>1, <2>1
  <2>. QED  BY <2>1, <2>2, FS_Subset
<1>. HIDE DEF others
<1>4. Players \in Seq(others)
  <2>1. ToSet(Players) \subseteq others
    BY <1>2 DEF others
  <2>2. /\ Len(Players) \in Nat /\ DOMAIN Players = 1..Len(Players)
        /\ Players = [i \in 1..Len(Players) |-> Players[i]]
    BY <1>2
  <2>3. \A i \in 1..Len(Players) : Players[i] \in others
    BY <2>1, <2>2 DEF ToSet
  <2>4. Players \in [1..Len(Players) -> others]
    BY <2>2, <2>3, Zenon
  <2>. QED  BY <2>2, <2>4
<1>5. MaxPlayers <= Cardinality(others) /\ Cardinality(others) \in Nat
  BY <1>2, <1>3, <1>4, ListFits DEF Once
<1>. QED  BY <1>5, SessionAssumption DEF Crowded, others, SessionAssumption

LEMMA CreatorHandlerDue ==
  ASSUME SessionInv, ListInv, CountInv, DueInv, HandlerStep(Creator), server' = "up",
         Crowded => Crowded'
  PROVE  Due(Creator)' /\ StartComes' /\ CreatorPlays'
<1>. DEFINE q == toClient[Creator]
<1>1. /\ SessionTypes /\ Creator \in Clients /\ q \in Seq(Messages)
      /\ cpc' = cpc /\ server = "up"
  <2>1. cpc' = cpc /\ server = "up"
    BY CreatorIsClient DEF HandlerStep, Answer, ListGames, CreateGame, AssignCreated,
     ReplyCreated, GameInfo, ReplyInfo, JoinGame, ReplyJoin, Notify, SendLeftover, StartGame,
     SendStart, EnterGameplay, handlers, users, Take, At
  <2>. QED  BY <2>1, CreatorIsClient DEF SessionInv, SessionTypes
<1>2. CASE cpc[Creator] \in {"racing", "updating", "exit"}
  BY <1>1, <1>2 DEF Due, Waiting, StartComes, CreatorPlays
<1>3. SUFFICES ASSUME cpc[Creator] \in {"fields", "field", "create", "wait", "start"}
               PROVE  Due(Creator)' /\ StartComes' /\ CreatorPlays'
  <2>1. hpc[Creator] # "none"
    BY DEF HandlerStep, Answer, ListGames, CreateGame, AssignCreated, ReplyCreated, GameInfo,
     ReplyInfo, JoinGame, ReplyJoin, Notify, SendLeftover, StartGame, SendStart, EnterGameplay,
     Take, At
  <2>2. cpc[Creator] # "none" /\ cpc[Creator] \in ClientPlaces
    BY <1>1, <2>1 DEF SessionInv, CreatorInv, SessionTypes
  <2>3. cpc[Creator] \notin {"list", "info", "join", "joined"}
    BY DEF CountInv
  <2>. QED  BY <1>2, <2>2, <2>3 DEF ClientPlaces, Waiting
<1>4. StartComes /\ CreatorPlays
  BY <1>1 DEF DueInv
<1>5. /\ cpc[Creator] \in {"fields", "field", "create", "wait"} =>
           hpc[Creator] \notin {"sgSend", "gameplay"}
  BY <1>1 DEF SessionInv, CreatorInv, Sent, Answered, Made, Creating
<1>6. ~EnterGameplay(Creator) => Due(Creator)'
  BY <1>1, HandlerOwes DEF Due, AnswerComesTo
<1>7. /\ {"NF", "FI", "PI", "CG", "SG"} \subseteq Kinds
      /\ \A k \in Kinds : Msg(k) \in Messages /\ Msg(k).kind = k
  BY DEF Kinds, Msg, Messages
<1>8. ASSUME hpc[Creator] = "recv" PROVE ~EnterGameplay(Creator)
  BY <1>8 DEF EnterGameplay, At
<1>9. CASE \E t \in {"NF", "FI", "PI"} :
             /\ Take(Creator, t) /\ UNCHANGED handlers
             /\ toClient'[Creator] = Append(q, Msg(t))
  <2>1. PICK t \in {"NF", "FI", "PI"} : Take(Creator, t) /\ UNCHANGED handlers
    BY <1>9
  <2>2. hpc[Creator] = "recv" /\ cpc[Creator] # "create" /\ UNCHANGED <<hpc, members, todo>>
    BY <2>1, CreatorTakes DEF handlers
  <2>. QED  BY <1>1, <1>4, <1>6, <1>8, <2>2 DEF StartComes, CreatorPlays
<1>10. CASE /\ Take(Creator, "CG") /\ hpc'[Creator] = "cgAssign"
            /\ UNCHANGED <<server, toClient, members>>
  <2>1. hpc[Creator] = "recv"
    BY <1>10 DEF Take, At
  <2>. QED  BY <1>6, <1>8, <1>10, <2>1 DEF StartComes, CreatorPlays
<1>11. CASE /\ hpc[Creator] = "cgAssign" /\ hpc'[Creator] = "cgReply"
            /\ members' = members \cup {Creator} /\ UNCHANGED <<server, toClient, toServer>>
  BY <1>6, <1>11 DEF StartComes, CreatorPlays, EnterGameplay, At
<1>12. CASE /\ hpc[Creator] = "cgReply" /\ hpc'[Creator] = "recv"
            /\ toClient'[Creator] = Append(q, Msg("CG"))
            /\ UNCHANGED <<server, toServer, members>>
  BY <1>1, <1>4, <1>6, <1>12 DEF StartComes, CreatorPlays, EnterGameplay, At
<1>13. CASE cpc[Creator] = "start" /\ StartGame(Creator)
  <2>1. /\ hpc[Creator] = "recv" /\ todo' = Players /\ Goto(Creator, "sgSend")
    BY <1>1, <1>13 DEF StartGame, Take, At
  <2>2. hpc'[Creator] = "sgSend"
    BY <1>1, <2>1, GoesTo DEF HandlerPlaces
  <2>3. Creator \in members
    BY <1>4, <1>13, <2>1 DEF CreatorPlays
  <2>4. Creator \in ToSet(Players) \/ Crowded
    BY <2>1, <2>3, CreatorIsStarted
  <2>5. Creator \in ToSet(todo') \/ Crowded'
    BY <2>1, <2>4
  <2>. QED  BY <1>6, <1>8, <2>1, <2>2, <2>5 DEF StartComes, CreatorPlays
<1>14. CASE cpc[Creator] = "start" /\ SendStart(Creator)
  <2>1. /\ hpc[Creator] = "sgSend" /\ todo # <<>> /\ Reply(Head(todo), Msg("SG"))
        /\ todo' = Tail(todo) /\ hpc' = hpc
    BY <1>14 DEF SendStart, At
  <2>2. \/ Holds(q, "SG")
        \/ Creator \in ToSet(todo)
        \/ Crowded'
    BY <1>4, <1>14, <2>1 DEF StartComes
  <2>3. CASE Head(todo) = Creator
    <3>1. toClient'[Creator] = Append(q, Msg("SG"))
      BY <1>1, <1>7, <2>1, <2>3, ReplyPuts
    <3>2. Holds(toClient'[Creator], "SG")
      BY <1>1, <1>7, <3>1, HoldsStays
    <3>. QED  BY <1>6, <2>1, <3>2 DEF StartComes, CreatorPlays, EnterGameplay
  <2>4. CASE Head(todo) # Creator
    <3>1. toClient'[Creator] = q
      BY <1>1, <1>7, <2>1, <2>4, ReplyPuts
    <3>2. Creator \in ToSet(todo) => Creator \in ToSet(todo')
      <4>1. todo \in Seq(Clients)
        BY DEF ListInv
      <4>2. /\ Head(todo) = todo[1] /\ DOMAIN todo = 1..Len(todo) /\ DOMAIN Tail(todo) = 1..Len(todo) - 1
            /\ Len(todo) \in Nat \ {0} /\ \A i \in 1..Len(todo) - 1 : Tail(todo)[i] = todo[i + 1]
        BY <2>1, <4>1, QueueShrinks
      <4>3. SUFFICES ASSUME NEW i \in DOMAIN todo, todo[i] = Creator PROVE Creator \in ToSet(Tail(todo))
        BY <2>1 DEF ToSet
      <4>4. i - 1 \in 1..Len(todo) - 1 /\ (i - 1) + 1 = i
        BY <2>4, <4>2, <4>3
      <4>5. i - 1 \in DOMAIN Tail(todo) /\ Tail(todo)[i - 1] = Creator
        BY <4>2, <4>3, <4>4
      <4>. QED  BY <4>5 DEF ToSet
    <3>. QED  BY <1>6, <2>1, <2>2, <3>1, <3>2 DEF StartComes, CreatorPlays, EnterGameplay, At
  <2>. QED  BY <2>3, <2>4
<1>15. CASE cpc[Creator] = "start" /\ EnterGameplay(Creator)
  <2>1. /\ hpc[Creator] = "sgSend" /\ todo = <<>> /\ Goto(Creator, "gameplay")
        /\ toClient' = toClient
    BY <1>15 DEF EnterGameplay, At
  <2>2. hpc'[Creator] = "gameplay"
    BY <1>1, <2>1, GoesTo DEF HandlerPlaces
  <2>3. Creator \notin ToSet(todo)
    BY <2>1 DEF ToSet
  <2>4. Holds(q, "SG") \/ Crowded'
    BY <1>4, <1>15, <2>1, <2>3 DEF StartComes
  <2>5. CASE Holds(q, "SG")
    <3>1. q # <<>>
      BY <2>5 DEF Holds
    <3>. QED  BY <2>1, <2>2, <2>5, <3>1 DEF Due, AnswerComesTo, StartComes, CreatorPlays
  <2>6. CASE Crowded'
    <3>1. LeftOut(Creator)'
      BY <1>1, <1>15, <2>2, <2>6 DEF LeftOut
    <3>. QED  BY <2>2, <2>6, <3>1 DEF Due, StartComes, CreatorPlays
  <2>. QED  BY <2>4, <2>5, <2>6
<1>. QED  BY <1>3, <1>9, <1>10, <1>11, <1>12, <1>13, <1>14, <1>15, CreatorServed

\* What others do does not take the creator's start message.
LEMMA StartAside ==
  ASSUME SessionTypes, StartComes, CreatorPlays,
         toServer'[Creator] = toServer[Creator], hpc'[Creator] = hpc[Creator],
         cpc'[Creator] = cpc[Creator] \/ cpc'[Creator] = "updating",
         \/ toClient'[Creator] = toClient[Creator]
         \/ \E m \in Messages : toClient'[Creator] = Append(toClient[Creator], m),
         todo' = todo, Creator \in members => Creator \in members', Crowded => Crowded'
  PROVE  StartComes' /\ CreatorPlays'
<1>1. toClient[Creator] \in Seq(Messages)
  BY CreatorIsClient DEF SessionTypes
<1>2. ASSUME NEW m \in Messages, Holds(toClient[Creator], "SG")
      PROVE  Holds(Append(toClient[Creator], m), "SG")
  BY <1>1, <1>2, HoldsStays
<1>3. Holds(toClient[Creator], "SG") => Holds(toClient'[Creator], "SG")
  BY <1>2
<1>. QED  BY <1>3 DEF StartComes, CreatorPlays

LEMMA DueInductive ==
  ASSUME SessionInv, ListInv, JoinInv, CountInv, DueInv, [Next]_vars
  PROVE  DueInv'
<1>. SUFFICES ASSUME server' = "up" PROVE DueInv'
  BY DEF DueInv
<1>1. server = "up"
  BY DEF Next, vars, handlers, users, CreatorStep, ChooseField, Created, WaitForPlayers,
     ResendUntilStart, JoinerStep, ChooseGame, ShowInfo, Joined, WaitForStart, ControlC, ServerGone,
     Receive, Connect, UpdatePlayer, HandlerStep, Answer, ListGames, CreateGame, AssignCreated,
     ReplyCreated, GameInfo, ReplyInfo, JoinGame, ReplyJoin, Notify, SendLeftover, StartGame,
     SendStart, EnterGameplay, Take, At
<1>2. /\ SessionTypes /\ Creator \in Clients /\ StartComes /\ CreatorPlays
      /\ \A c \in Clients : Due(c)
      /\ toServer \in [Clients -> Seq(Requests)] /\ cpc \in [Clients -> ClientPlaces]
      /\ hpc \in [Clients -> HandlerPlaces]
  BY <1>1, CreatorIsClient DEF SessionInv, SessionTypes, DueInv
<1>3. "updating" \notin Waiting /\ "exit" \notin Waiting
  BY DEF Waiting
<1>9. Crowded => Crowded'
  <2>1. members' = members \/ \E c \in Clients : members' = members \cup {c}
    BY DEF Next, vars, handlers, users, CreatorStep, ChooseField, Created, WaitForPlayers,
     ResendUntilStart, JoinerStep, ChooseGame, ShowInfo, Joined, WaitForStart, ControlC, ServerGone,
     Receive, Connect, UpdatePlayer, HandlerStep, Answer, ListGames, CreateGame, AssignCreated,
     ReplyCreated, GameInfo, ReplyInfo, JoinGame, ReplyJoin, Notify, SendLeftover, StartGame,
     SendStart, EnterGameplay, Take, At
  <2>. QED  BY <2>1, CrowdStays
<1>4. CASE CreatorStep
  <2>1. UNCHANGED handlers
    BY <1>4 DEF CreatorStep, ChooseField, Created, WaitForPlayers, ResendUntilStart
  <2>2. hpc' = hpc
    BY <2>1 DEF handlers
  <2>3. /\ Due(Creator)' /\ StartComes' /\ CreatorPlays'
        /\ \A d \in Clients : d # Creator => UNCHANGED <<toServer[d], toClient[d], cpc[d]>>
    BY <1>1, <1>4, CreatorDue
  <2>4. \A d \in Clients : d # Creator => Due(d)'
    BY <1>2, <1>9, <2>2, <2>3 DEF Due, AnswerComesTo, LeftOut
  <2>. QED  BY <2>3, <2>4 DEF DueInv
<1>5. ASSUME NEW c \in Joiners, JoinerStep(c) PROVE DueInv'
  <2>1. UNCHANGED handlers
    BY <1>5 DEF JoinerStep, ChooseGame, ShowInfo, Joined, WaitForStart
  <2>2. UNCHANGED <<hpc, todo, members>>
    BY <2>1 DEF handlers
  <2>3. /\ Due(c)'
        /\ \A d \in Clients : d # c => UNCHANGED <<toServer[d], toClient[d], cpc[d]>>
    BY <1>1, <1>5, JoinerDue
  <2>4. \A d \in Clients : d # c => Due(d)'
    BY <1>2, <1>9, <2>2, <2>3 DEF Due, AnswerComesTo, LeftOut
  <2>5. StartComes' /\ CreatorPlays'
    BY <1>2, <2>2, <2>3, CreatorIsClient, <1>9, StartAside
  <2>. QED  BY <2>3, <2>4, <2>5 DEF DueInv
<1>6. ASSUME NEW c \in Clients, Connect(c) PROVE DueInv'
  <2>1. /\ UNCHANGED <<toClient, members, todo>> /\ hpc' = [hpc EXCEPT ![c] = "recv"]
        /\ Send(c, Request("NF"), "fields") \/ Send(c, Request("LI"), "list")
    BY <1>6 DEF Connect
  <2>2. /\ Request("NF") \in Requests /\ Request("LI") \in Requests
        /\ {"fields", "list"} \subseteq ClientPlaces
    BY Records DEF Kinds, ClientPlaces, Waiting
  <2>3. /\ Due(c)' /\ cpc'[c] \in {"fields", "list"}
        /\ \A d \in Clients : d # c => toServer'[d] = toServer[d] /\ cpc'[d] = cpc[d]
    BY <1>2, <2>1, <2>2, SenderDue, SendPuts
  <2>4. \A d \in Clients : d # c => hpc'[d] = hpc[d]
    BY <1>2, <2>1
  <2>5. \A d \in Clients : d # c => Due(d)'
    BY <1>2, <1>9, <2>1, <2>3, <2>4 DEF Due, AnswerComesTo, LeftOut
  <2>6. StartComes' /\ CreatorPlays'
    <3>1. CASE c = Creator
      BY <2>3, <3>1 DEF StartComes, CreatorPlays
    <3>2. CASE c # Creator
      BY <1>2, <2>1, <2>3, <2>4, <3>2, <1>9, StartAside
    <3>. QED  BY <3>1, <3>2
  <2>. QED  BY <2>3, <2>5, <2>6 DEF DueInv
<1>7. ASSUME NEW c \in Clients, HandlerStep(c) PROVE DueInv'
  <2>1. /\ Aside(c)
        /\ \A d \in Clients : \/ toClient'[d] = toClient[d]
                              \/ \E m \in Messages : toClient'[d] = Append(toClient[d], m)
    BY <1>2, <1>7, HandlerTypes, HandlerAdds
  <2>2. \A d \in Clients : d # c => Due(d)'
    BY <1>2, <1>9, <2>1, DueAside DEF Aside
  <2>3. CASE c = Creator
    BY <1>7, <1>9, <2>2, <2>3, CreatorHandlerDue DEF DueInv
  <2>4. CASE c # Creator
    <3>1. c \in Joiners /\ hpc[c] \in {"none", "recv", "giReply", "jgReply", "walk"}
      BY <2>4 DEF Clients, SessionInv, JoinersInv
    <3>2. Due(c)'
      <4>1. ~EnterGameplay(c)
        BY <3>1 DEF EnterGameplay, At
      <4>. QED  BY <1>2, <1>7, <4>1, HandlerOwes DEF Due, AnswerComesTo, LeftOut
    <3>3. todo' = todo
      <4>1. ~StartGame(c) /\ ~SendStart(c)
        <5>1. ~Take(c, "SG")
          <6>1. SUFFICES ASSUME Take(c, "SG") PROVE FALSE
            OBVIOUS
          <6>2. JoinStage(c)
            BY <1>1, <3>1 DEF JoinInv
          <6>. QED  BY <1>2, <3>1, <6>1, <6>2, JoinerTakes
        <5>. QED  BY <3>1, <5>1 DEF StartGame, SendStart, At
      <4>. QED  BY <1>7, <4>1 DEF HandlerStep, Answer, ListGames, CreateGame, AssignCreated,
             ReplyCreated, GameInfo, ReplyInfo, JoinGame, ReplyJoin, Notify, SendLeftover,
             EnterGameplay, handlers
    <3>4. StartComes' /\ CreatorPlays'
      BY <1>2, <2>1, <2>4, <3>3, <1>9, StartAside DEF Aside
    <3>. QED  BY <2>2, <3>2, <3>4 DEF DueInv
  <2>. QED  BY <2>3, <2>4
<1>8. ASSUME ControlC \/ UNCHANGED vars \/ \E c \in Clients : UpdatePlayer(c)
      PROVE  DueInv'
  <2>1. UNCHANGED <<hpc, todo, members, toServer, toClient>>
    BY <1>8 DEF ControlC, UpdatePlayer, vars, handlers
  <2>2. \A d \in Clients : cpc'[d] = cpc[d] \/ cpc'[d] = "updating"
    BY <1>2, <1>8 DEF ControlC, UpdatePlayer, vars, users
  <2>3. \A d \in Clients : Due(d)'
    BY <1>2, <1>3, <1>9, <2>1, <2>2 DEF Due, AnswerComesTo, LeftOut
  <2>4. StartComes' /\ CreatorPlays'
    BY <1>2, <2>1, <2>2, <1>9, StartAside
  <2>. QED  BY <2>3, <2>4 DEF DueInv
<1>. QED  BY <1>1, <1>4, <1>5, <1>6, <1>7, <1>8 DEF Next, ServerGone

-----------------------------------------------------------------------------
(* The invariant, and what follows from it. *)

RaceInv == SessionInv /\ ListInv /\ JoinInv /\ CountInv /\ CredInv

LEMMA RaceStarts == Init => RaceInv /\ DueInv
<1>. SUFFICES ASSUME Init PROVE RaceInv /\ DueInv
  OBVIOUS
<1>1. SessionInv
  BY SessionStarts
<1>2. Creator \in Clients /\ Joiners \subseteq Clients
  BY CreatorIsClient
<1>3. ListInv
  <2>1. list = <<>> /\ todo = <<>> /\ \A c \in Clients : hpc[c] = "none"
    BY DEF Init
  <2>2. list \in Seq(Clients) /\ todo \in Seq(Clients) /\ Len(list) = 0 /\ DOMAIN list = {}
    BY <2>1
  <2>3. Once(list) /\ ToSet(list) = {} /\ ToSet(todo) = {}
    BY <2>1 DEF Once, ToSet
  <2>4. pos \in [Clients -> 1..Len(list) + 1]
    BY <2>2 DEF Init
  <2>. QED  BY <2>1, <2>2, <2>3, <2>4 DEF Init, ListInv
<1>4. JoinInv
  BY <1>2 DEF Init, JoinInv, JoinStage, JoinSent
<1>5. 1 \in 1..Cardinality(Clients)
  <2>1. {} \in SUBSET Joiners
    OBVIOUS
  <2>2. Cardinality({}) = 0
    BY FS_EmptySet
  <2>. QED  BY <2>1, <2>2, JoinersFit
<1>6. toServer[Creator] = <<>> /\ toClient[Creator] = <<>> /\ cpc[Creator] = "none"
  BY <1>2 DEF Init
<1>7. CountInv
  <2>1. OnlyTypes(toServer[Creator], Kinds \ {"NOTIFY", "blank"})
    BY <1>6 DEF OnlyTypes
  <2>2. OnlyKinds(toClient[Creator], Kinds \ {"blank"})
    BY <1>6 DEF OnlyKinds
  <2>. QED  BY <1>5, <1>6, <2>1, <2>2 DEF Init, CountInv
<1>8. CredInv
  <2>1. StartsAs(toServer[Creator], credentials, Explained)
    BY <1>6 DEF StartsAs
  <2>. QED  BY <1>6, <2>1 DEF Init, CredInv
<1>9. DueInv
  BY <1>2 DEF Init, DueInv, Due, Waiting, StartComes, CreatorPlays
<1>. QED  BY <1>1, <1>3, <1>4, <1>7, <1>8, <1>9 DEF RaceInv

LEMMA RaceInductive == RaceInv /\ [Next]_vars => RaceInv'
<1>. SUFFICES ASSUME RaceInv, [Next]_vars PROVE RaceInv'
  OBVIOUS
<1>1. SessionInv /\ SessionTypes /\ ListInv /\ JoinInv /\ CountInv /\ CredInv
  BY DEF RaceInv, SessionInv
<1>2. SessionInv'
  BY <1>1, SessionInductive
<1>3. ListInv'
  BY <1>1, ListInductive
<1>4. JoinInv'
  BY <1>1, JoinInductive
<1>5. CountInv'
  BY <1>1, CountInductive
<1>6. CredInv'
  BY <1>1, CredInductive
<1>. QED  BY <1>2, <1>3, <1>4, <1>5, <1>6 DEF RaceInv

LEMMA RaceIsInvariant == Spec => []RaceInv
<1>1. Init => RaceInv
  BY RaceStarts
<1>. QED  BY <1>1, RaceInductive, PTL DEF Spec

\* Every variable keeps to its range; in particular the creator resends
\* nothing that is no request, and no walk leaves the list.
THEOREM SessionTypeCorrect == Spec => []TypeOK
<1>1. RaceInv => TypeOK
  <2>. SUFFICES ASSUME RaceInv PROVE TypeOK
    OBVIOUS
  <2>1. /\ SessionTypes /\ JoinersInv /\ ListInv /\ CountInv /\ CredInv
    BY DEF RaceInv, SessionInv
  <2>2. Len(list) <= Cardinality(Clients) /\ Cardinality(Clients) \in Nat /\ Len(list) \in Nat
    <3>1. IsFiniteSet(Joiners) /\ Clients = Joiners \cup {Creator}
      BY SessionAssumption DEF SessionAssumption, Clients
    <3>2. IsFiniteSet(Clients)
      BY <3>1, FS_AddElement
    <3>3. list \in Seq(Clients) /\ \A i, j \in DOMAIN list : list[i] = list[j] => i = j
      BY <2>1 DEF ListInv, Once
    <3>. QED  BY <3>2, <3>3, ListFits, LenProperties
  <2>3. pos \in [Clients -> 1..Cardinality(Clients) + 1]
    <3>1. 1..Len(list) + 1 \subseteq 1..Cardinality(Clients) + 1
      BY <2>2
    <3>2. pos \in [Clients -> 1..Len(list) + 1]
      BY <2>1 DEF ListInv
    <3>. HIDE <2>1
    <3>. QED  BY <3>1, <3>2
  <2>4. toServer \in [Clients -> Seq([type : Kinds \ {"NOTIFY", "blank"}, game : 0..1, own : BOOLEAN])]
    <3>. DEFINE R == [type : Kinds \ {"NOTIFY", "blank"}, game : 0..1, own : BOOLEAN]
                S == Kinds \ {"NOTIFY", "blank"}
    <3>1. ASSUME NEW c \in Clients PROVE OnlyTypes(toServer[c], S)
      <4>1. CASE c = Creator
        BY <2>1, <4>1 DEF CountInv
      <4>2. CASE c \in Joiners
        BY <2>1, <4>2 DEF JoinersInv, OnlyTypes, Kinds
      <4>. QED  BY <4>1, <4>2 DEF Clients
    <3>2. ASSUME NEW r \in Requests, r.type \in S PROVE r \in R
      BY <3>2 DEF Requests
    <3>. HIDE DEF R, S
    <3>3. ASSUME NEW c \in Clients PROVE toServer[c] \in Seq(R)
      <4>1. toServer[c] \in Seq(Requests)
        BY <2>1 DEF SessionTypes
      <4>2. /\ Len(toServer[c]) \in Nat /\ DOMAIN toServer[c] = 1..Len(toServer[c])
            /\ \A i \in 1..Len(toServer[c]) : toServer[c][i] \in Requests
            /\ toServer[c] = [i \in 1..Len(toServer[c]) |-> toServer[c][i]]
        BY <4>1
      <4>3. \A i \in 1..Len(toServer[c]) : toServer[c][i] \in R
        BY <3>1, <3>2, <4>2 DEF OnlyTypes
      <4>4. toServer[c] \in [1..Len(toServer[c]) -> R]
        BY <4>2, <4>3
      <4>. QED  BY <4>2, <4>4
    <3>4. toServer \in [Clients -> Seq(Requests)]
      BY <2>1 DEF SessionTypes
    <3>5. toServer \in [Clients -> Seq(R)]
      BY <3>3, <3>4
    <3>. QED  BY <3>5 DEF R
  <2>5. toClient \in [Clients -> Seq([kind : Kinds, count : 0..1])]
    BY <2>1 DEF SessionTypes, Messages
  <2>6. /\ hpc \in [Clients -> {"none", "recv", "cgAssign", "cgReply", "giReply", "jgReply",
                                "walk", "sgSend", "gameplay"}]
        /\ cpc \in [Clients -> Waiting \cup {"none", "racing", "updating", "exit"}]
        /\ chosen \in [Joiners -> 0..1] /\ credentials \in BOOLEAN
    BY <2>1 DEF SessionTypes, HandlerPlaces, ClientPlaces
  <2>7. /\ list \in Seq(Clients) /\ listed \in BOOLEAN /\ members \subseteq Clients
        /\ left \in [Clients -> {"blank", "NOTIFY"}] /\ todo \in Seq(Clients) /\ startSig \in BOOLEAN
    BY <2>1 DEF ListInv
  <2>8. /\ server \in {"up", "unknownGame", "wrongPassword"}
        /\ pcount \in 1..Cardinality(Clients)
    BY <2>1 DEF CredInv, CountInv
  <2>. QED  BY <2>3, <2>4, <2>5, <2>6, <2>7, <2>8 DEF TypeOK
<1>. QED  BY <1>1, RaceIsInvariant, PTL

\* However answers and notifications mix, the creator has counted, and will
\* still count, no more players than have joined.
THEOREM NobodyIsCountedAhead == Spec => []CountNeverAhead
<1>1. RaceInv => CountNeverAhead
  <2>. SUFFICES ASSUME RaceInv, server = "up", cpc[Creator] = "wait"
                PROVE  pcount - 1 + Cardinality(ToCount(toClient[Creator])) <= Cardinality(JoinTaken)
    BY DEF CountNeverAhead
  <2>. DEFINE q == toClient[Creator]
  <2>1. /\ q \in Seq(Messages) /\ pcount \in 1..Cardinality(Clients)
        /\ pcount - 1 + Cardinality(NotPI(q)) + Owed <= Cardinality(Passed)
    BY CreatorIsClient DEF RaceInv, SessionInv, SessionTypes, CountInv
  <2>2. /\ Cardinality(ToCount(q)) \in Nat /\ Cardinality(NotPI(q)) \in Nat
        /\ Cardinality(ToCount(q)) <= Cardinality(NotPI(q))
    BY <2>1, CountedIsNotPI
  <2>3. /\ Cardinality(Passed) <= Cardinality(JoinTaken)
        /\ Cardinality(Passed) \in Nat /\ Cardinality(JoinTaken) \in Nat
        /\ Cardinality(Clients) \in Nat
    <3>1. Passed \in SUBSET JoinTaken /\ Passed \in SUBSET Joiners /\ JoinTaken \in SUBSET Joiners
      BY DEF Passed, JoinTaken
    <3>. QED  BY <3>1, JoinersFit, FS_Subset
  <2>4. Owed \in 0..1
    BY DEF Owed
  <2>. HIDE DEF q
  <2>5. pcount - 1 + Cardinality(ToCount(q)) <= Cardinality(JoinTaken)
    BY <2>1, <2>2, <2>3, <2>4
  <2>. QED  BY <2>5 DEF q
<1>. QED  BY <1>1, RaceIsInvariant, PTL

\* Only somebody who joined before the answer to CG was sent can spoil the
\* creator's credentials, and only such a creator ends the server.
THEOREM CredentialsAreExplained == Spec => []CredentialsExplained
<1>1. RaceInv => CredentialsExplained
  BY DEF RaceInv, CredInv, Explained, CredentialsExplained
<1>. QED  BY <1>1, RaceIsInvariant, PTL

\* What one side of a connection reads is what the other has written, whole,
\* exactly as long as there are no more than seven players in the game.
THEOREM SevenPlayersCarryOver == Spec => [](MessagesCarryOver <=> Cardinality(members) <= 7)
<1>1. RaceInv => (MessagesCarryOver <=> Cardinality(members) <= 7)
  <2>. SUFFICES ASSUME RaceInv PROVE Cardinality(members) \in Nat
    BY CarriedOver
  <2>1. members \in SUBSET Clients /\ IsFiniteSet(Clients)
    <3>1. IsFiniteSet(Joiners) /\ Clients = Joiners \cup {Creator}
      BY SessionAssumption DEF SessionAssumption, Clients
    <3>. QED  BY <3>1, FS_AddElement DEF RaceInv, ListInv
  <2>. QED  BY <2>1, FS_Subset, FS_CardinalityType
<1>. QED  BY <1>1, RaceIsInvariant, PTL

\* So they always do where the server sees no more than seven clients: the
\* buffer is never written beyond its end, and no field is misread.
THEOREM MessagesCarryOverIfFew ==
  ASSUME Cardinality(Joiners) < 7
  PROVE  Spec => []MessagesCarryOver
<1>1. RaceInv => MessagesCarryOver
  <2>. SUFFICES ASSUME RaceInv
                PROVE  Cardinality(members) \in Nat /\ Cardinality(members) <= 7
    BY CarriedOver
  <2>1. IsFiniteSet(Joiners) /\ Clients = Joiners \cup {Creator} /\ Creator \notin Joiners
    BY SessionAssumption DEF SessionAssumption, Clients
  <2>2. IsFiniteSet(Clients) /\ Cardinality(Clients) = Cardinality(Joiners) + 1
    BY <2>1, FS_AddElement
  <2>3. members \in SUBSET Clients
    BY DEF RaceInv, ListInv
  <2>4. Cardinality(members) \in Nat /\ Cardinality(members) <= Cardinality(Clients)
        /\ Cardinality(Joiners) \in Nat
    BY <2>1, <2>2, <2>3, FS_Subset, FS_CardinalityType
  <2>. QED  BY <2>2, <2>4
<1>. QED  BY <1>1, RaceIsInvariant, PTL

\* Whatever clients join, in whatever order: no client waits for an answer that
\* nobody is to send, and a handler gets to gameplay only with the start message
\* on its way to its client, but for a creator whose game has MaxPlayers other
\* players: start_game_response collects no more than MAX_CLIENTS_PER_GAME, in
\* the order of the list, so the creator may not be among them.
THEOREM OnlyLeftOutWaitsInVain == Spec => []AnswerDue
<1>1. Init => RaceInv /\ DueInv
  BY RaceStarts
<1>2. RaceInv /\ DueInv /\ [Next]_vars => RaceInv' /\ DueInv'
  <2>. SUFFICES ASSUME RaceInv, DueInv, [Next]_vars PROVE RaceInv' /\ DueInv'
    OBVIOUS
  <2>1. RaceInv'
    BY RaceInductive
  <2>2. DueInv'
    BY DueInductive DEF RaceInv
  <2>. QED  BY <2>1, <2>2
<1>3. RaceInv /\ DueInv => AnswerDue
  <2>. SUFFICES ASSUME RaceInv, DueInv, NEW c \in Clients, cpc[c] \in Waiting, server = "up"
                PROVE  IF hpc[c] = "gameplay"
                       THEN Holds(toClient[c], "SG") \/ LeftOut(c)
                       ELSE toClient[c] # <<>> \/ toServer[c] # <<>> \/ hpc[c] # "recv"
    BY DEF AnswerDue
  <2>1. /\ SessionTypes /\ JoinersInv /\ CreatorInv /\ CountInv
        /\ Due(c) /\ StartComes
    BY DEF RaceInv, SessionInv, DueInv
  <2>2. CASE hpc[c] # "gameplay"
    BY <2>1, <2>2 DEF Due, AnswerComesTo, LeftOut
  <2>3. CASE hpc[c] = "gameplay"
    <3>1. c = Creator
      BY <2>1, <2>3 DEF Clients, JoinersInv
    <3>2. cpc[Creator] \notin {"fields", "field", "create", "wait"}
      BY <2>1, <2>3, <3>1 DEF CreatorInv, Sent, Answered, Made, Creating
    <3>3. cpc[Creator] \notin {"list", "info", "join", "joined"}
      BY <2>1 DEF CountInv
    <3>4. cpc[Creator] = "start"
      BY <3>1, <3>2, <3>3 DEF Waiting
    <3>. QED  BY <2>1, <2>3, <3>1, <3>4 DEF StartComes, LeftOut
  <2>. QED  BY <2>2, <2>3
<1>. QED  BY <1>1, <1>2, <1>3, PTL DEF Spec
================================================================================
