------------------------- MODULE DuplicateFinderProofs -------------------------
(***************************************************************************)
(* DuplicateFinder for every file tree, every content and every table: no  *)
(* file is met twice on the walk, none is lost without a reason, all       *)
(* duplicates are printed, and no search takes more than so many steps.    *)
(***************************************************************************)
EXTENDS DuplicateFinder, SequenceLemmas

\* The file is in a chain.
Entered(f) == \E b \in DOMAIN table : \E i \in DOMAIN table[b] : table[b][i] = f

\* The file has been met and is not a directory.
Met(f) == f = current \/ Entered(f)

StackType ==
  /\ stack \in Seq(Frames)
  /\ current \in Files \cup {None}

\* Every chain holds the files of its bucket, each once.
ChainInv ==
  \A b \in DOMAIN table :
    /\ table[b] \in Seq(Files)
    /\ \A i \in DOMAIN table[b] : Plain(table[b][i]) /\ b = Bucket(table[b][i])
    /\ \A i, j \in DOMAIN table[b] : table[b][i] = table[b][j] => i = j

CurrentInv == current # None => Plain(current) /\ ~Entered(current)

\* What is still to come of a directory has not been met, nor anything below.
RestInv ==
  \A k \in 1..Len(stack) : \A x \in stack[k].rest :
    /\ Parent[x] = stack[k].dir /\ ~Met(x)
    /\ \A f \in Files : Met(f) => x \notin Above[f]

\* What is to come of one directory is not what is to come of another, nor above it.
ApartInv ==
  \A k, m \in 1..Len(stack) : k # m =>
    \A x \in stack[k].rest, y \in stack[m].rest : x # y /\ x \notin Above[y]

WalkInv == StackType /\ ChainInv /\ CurrentInv /\ RestInv /\ ApartInv

-----------------------------------------------------------------------------
(* Paths. *)

LEMMA Siblings ==
  ASSUME NEW x \in Files, NEW y \in Files, Parent[x] = Parent[y]
  PROVE  Above[x] = Above[y] /\ x \notin Above[y]
<1>1. \A f \in Files : Above[f] = IF Parent[f] = Root THEN {} ELSE {Parent[f]} \cup Above[Parent[f]]
  BY FinderAssumption DEF FinderAssumption
<1>2. Above[x] = Above[y]
  BY <1>1
<1>3. x \notin Above[x]
  BY FinderAssumption DEF FinderAssumption
<1>. QED  BY <1>2, <1>3

LEMMA Child ==
  ASSUME NEW f \in Files, NEW y \in Files, Parent[y] = f
  PROVE  Above[y] = {f} \cup Above[f] /\ f \in Above[y]
BY FinderAssumption DEF FinderAssumption

LEMMA Transitive ==
  ASSUME NEW g \in Files, NEW y \in Above[g]
  PROVE  Above[y] \subseteq Above[g]
BY FinderAssumption DEF FinderAssumption

\* What is taken for a directory is itself, no link.
LEMMA DirectoryIsFound ==
  ASSUME NEW f \in Files, LooksLikeDirectory(f)
  PROVE  Found(f) = f /\ Entries(f) = {x \in Files : Parent[x] = f}
<1>1. Target[f] = f
  BY FinderAssumption DEF FinderAssumption, LooksLikeDirectory
<1>2. Found(f) = f
  BY <1>1, FinderAssumption DEF FinderAssumption, Found
<1> QED BY <1>2 DEF Entries

-----------------------------------------------------------------------------
(* The walk. *)

LEMMA StartInv == Init => WalkInv
<1> SUFFICES ASSUME Init PROVE WalkInv
  OBVIOUS
<1> USE DEF Init
<1>1. Frame(Root) \in Frames
  BY DEF Frame, Frames, Entries
<1>2. StackType
  BY <1>1 DEF StackType
<1>3. ChainInv /\ CurrentInv /\ \A f : ~Entered(f)
  BY DEF ChainInv, CurrentInv, Entered
<1>4. Len(stack) = 1 /\ stack[1] = Frame(Root)
  OBVIOUS
<1>5. RestInv
  <2>1. \A x \in Frame(Root).rest : x \in Files /\ Parent[x] = Root
    BY DEF Frame, Entries, Found
  <2>2. \A f \in Files : ~Met(f)
    BY <1>3, FinderAssumption DEF FinderAssumption, Met
  <2> QED BY <1>4, <2>1, <2>2 DEF RestInv, Frame
<1>6. ApartInv
  BY <1>4 DEF ApartInv
<1> QED BY <1>2, <1>3, <1>5, <1>6 DEF WalkInv

\* A step that at most takes from what is to come keeps the invariant.
LEMMA Shrinking ==
  ASSUME WalkInv, UNCHANGED <<current, table, flags>>,
         stack' \in Seq(Frames),
         Len(stack') <= Len(stack),
         \A k \in 1..Len(stack') :
           stack'[k].dir = stack[k].dir /\ stack'[k].rest \subseteq stack[k].rest
  PROVE  WalkInv'
<1> USE DEF WalkInv
<1>1. \A k \in 1..Len(stack') : k \in 1..Len(stack)
  BY DEF StackType
<1>2. (\A f : Met(f)' <=> Met(f)) /\ \A f : Bucket(f)' = Bucket(f)
  BY DEF Met, Entered, Bucket, flags
<1>3. StackType' /\ CurrentInv'
  BY DEF StackType, CurrentInv, Entered
<1>4. ChainInv'
  BY <1>2 DEF ChainInv
<1>5. RestInv'
  BY <1>1, <1>2 DEF RestInv
<1>6. ApartInv'
  BY <1>1 DEF ApartInv
<1> QED BY <1>3, <1>4, <1>5, <1>6

LEMMA StackLength ==
  ASSUME StackType, stack # <<>>
  PROVE  /\ Len(stack) \in Nat \ {0} /\ Len(stack) \in 1..Len(stack)
         /\ \A k \in 1..Len(stack) : stack[k] \in Frames
<1>1. stack \in Seq(Frames)
  BY DEF StackType
<1>2. Len(stack) \in Nat \ {0}
  BY <1>1, EmptySeq
<1> QED BY <1>1, <1>2, ElementOfSeq

LEMMA FrontOfSeq ==
  ASSUME NEW S, NEW s \in Seq(S), s # <<>>
  PROVE  /\ Front(s) \in Seq(S) /\ Len(Front(s)) = Len(s) - 1
         /\ \A k \in 1..Len(s) - 1 : Front(s)[k] = s[k]
<1>1. Len(s) \in Nat \ {0}
  BY EmptySeq
<1>2. ASSUME NEW n \in Nat, n < Len(s)
      PROVE  /\ SubSeq(s, 1, n) \in Seq(S) /\ Len(SubSeq(s, 1, n)) = n
             /\ \A k \in 1..n : SubSeq(s, 1, n)[k] = s[k]
  BY <1>2
<1>3. Len(s) - 1 \in Nat /\ Len(s) - 1 < Len(s)
  BY <1>1
<1> QED BY <1>2, <1>3 DEF Front

LEMMA ExceptAt ==
  ASSUME NEW S, NEW s \in Seq(S), NEW i \in 1..Len(s), NEW e \in S
  PROVE  /\ [s EXCEPT ![i] = e] \in Seq(S) /\ Len([s EXCEPT ![i] = e]) = Len(s)
         /\ [s EXCEPT ![i] = e][i] = e
         /\ \A j \in 1..Len(s) : j # i => [s EXCEPT ![i] = e][j] = s[j]
<1>1. [s EXCEPT ![i] = e] \in Seq(S) /\ Len([s EXCEPT ![i] = e]) = Len(s)
  BY ExceptSeq
<1>2. /\ [s EXCEPT ![i] = e][i] = e
      /\ \A j \in 1..Len(s) : j # i => [s EXCEPT ![i] = e][j] = s[j]
  OBVIOUS
<1> QED BY <1>1, <1>2

LEMMA ReturnShrinks ==
  ASSUME StackType, stack # <<>>, NEW r, Return(r)
  PROVE  /\ stack' \in Seq(Frames) /\ Len(stack') <= Len(stack)
         /\ \A k \in 1..Len(stack') : stack'[k] = stack[k]
<1>1. stack \in Seq(Frames) /\ stack' = Front(stack) /\ Len(stack) \in Nat
  BY StackLength DEF StackType, Return
<1>2. /\ stack' \in Seq(Frames) /\ Len(stack') = Len(stack) - 1
      /\ \A k \in 1..Len(stack) - 1 : stack'[k] = stack[k]
  BY <1>1, FrontOfSeq, Zenon
<1> QED BY <1>1, <1>2

\* The stack with one file taken out of what is to come of the top.
Without(f) == [stack EXCEPT ![Len(stack)].rest = @ \ {f}]

LEMMA RestShrinks ==
  ASSUME StackType, stack # <<>>, NEW f,
         NEW t, t = Without(f)
  PROVE  /\ t \in Seq(Frames) /\ Len(t) = Len(stack)
         /\ \A k \in 1..Len(stack) :
              /\ t[k].dir = stack[k].dir
              /\ t[k].rest \subseteq stack[k].rest
              /\ k = Len(stack) => f \notin t[k].rest
              /\ stack[k].rest \ {f} \subseteq t[k].rest
<1> DEFINE n == Len(stack)
           e == [stack[n] EXCEPT !.rest = @ \ {f}]
<1>1. n \in 1..n /\ stack \in Seq(Frames) /\ stack[n] \in Frames
  BY StackLength DEF StackType
<1>2. e \in Frames /\ e.dir = stack[n].dir /\ e.rest = stack[n].rest \ {f}
  BY <1>1 DEF Frames
<1>3. t = [stack EXCEPT ![n] = e]
  BY DEF Without
<1> HIDE DEF e
<1>4. /\ [stack EXCEPT ![n] = e] \in Seq(Frames) /\ Len([stack EXCEPT ![n] = e]) = n
      /\ [stack EXCEPT ![n] = e][n] = e
      /\ \A k \in 1..n : k # n => [stack EXCEPT ![n] = e][k] = stack[k]
  BY <1>1, <1>2, ExceptAt
<1>5. /\ t \in Seq(Frames) /\ Len(t) = n /\ t[n] = e
      /\ \A k \in 1..n : k # n => t[k] = stack[k]
  BY <1>3, <1>4, Zenon
<1>6. \A k \in 1..n : /\ t[k].dir = stack[k].dir
                      /\ t[k].rest \subseteq stack[k].rest
                      /\ k = n => f \notin t[k].rest
                      /\ stack[k].rest \ {f} \subseteq t[k].rest
  <2>1. ASSUME NEW k \in 1..n, k = n
        PROVE  /\ t[k].dir = stack[k].dir /\ t[k].rest \subseteq stack[k].rest
               /\ f \notin t[k].rest /\ stack[k].rest \ {f} \subseteq t[k].rest
    BY <1>2, <1>5, <2>1, Zenon
  <2>2. ASSUME NEW k \in 1..n, k # n
        PROVE  /\ t[k].dir = stack[k].dir /\ t[k].rest \subseteq stack[k].rest
               /\ stack[k].rest \ {f} \subseteq t[k].rest
    BY <1>5, <2>2, Zenon
  <2> QED BY <2>1, <2>2, Zenon
<1> QED BY <1>5, <1>6, Zenon

\* The directory is open, what is to come of it stays.
LEMMA OpenKeeps ==
  ASSUME StackType, stack # <<>>,
         NEW t, t = [stack EXCEPT ![Len(stack)].open = TRUE]
  PROVE  /\ t \in Seq(Frames) /\ Len(t) = Len(stack)
         /\ \A k \in 1..Len(stack) : t[k].dir = stack[k].dir /\ t[k].rest = stack[k].rest
<1> DEFINE n == Len(stack)
           e == [stack[n] EXCEPT !.open = TRUE]
<1>1. n \in 1..n /\ stack \in Seq(Frames) /\ stack[n] \in Frames
  BY StackLength DEF StackType
<1>2. e \in Frames /\ e.dir = stack[n].dir /\ e.rest = stack[n].rest
  BY <1>1 DEF Frames
<1>3. t = [stack EXCEPT ![n] = e]
  OBVIOUS
<1> HIDE DEF e
<1>4. /\ [stack EXCEPT ![n] = e] \in Seq(Frames) /\ Len([stack EXCEPT ![n] = e]) = n
      /\ [stack EXCEPT ![n] = e][n] = e
      /\ \A k \in 1..n : k # n => [stack EXCEPT ![n] = e][k] = stack[k]
  BY <1>1, <1>2, ExceptAt
<1>5. /\ t \in Seq(Frames) /\ Len(t) = n /\ t[n] = e
      /\ \A k \in 1..n : k # n => t[k] = stack[k]
  BY <1>3, <1>4, Zenon
<1> QED BY <1>2, <1>5

\* A directory opened, left with an error or at its end, or a file passed over.
LEMMA TurningKeeps ==
  ASSUME WalkInv, OpenDirectory \/ CloseDirectory \/ \E f \in Files : MissesFile(f)
  PROVE  WalkInv'
<1>1. StackType /\ stack # <<>> /\ UNCHANGED <<current, table, flags>>
  BY DEF WalkInv, OpenDirectory, CloseDirectory, MissesFile, Walking
<1>2. ASSUME NEW r, Return(r) PROVE WalkInv'
  BY <1>1, <1>2, ReturnShrinks, Shrinking
<1>3. ASSUME stack' = [stack EXCEPT ![Len(stack)].open = TRUE] PROVE WalkInv'
  <2>1. /\ stack' \in Seq(Frames) /\ Len(stack') = Len(stack)
        /\ \A k \in 1..Len(stack) :
             stack'[k].dir = stack[k].dir /\ stack'[k].rest = stack[k].rest
    BY <1>1, <1>3, OpenKeeps
  <2>2. Len(stack) \in Nat
    BY <1>1, StackLength
  <2> QED BY <1>1, <2>1, <2>2, Shrinking
<1>4. ASSUME NEW f, stack' = Without(f) PROVE WalkInv'
  <2>1. /\ stack' \in Seq(Frames) /\ Len(stack') = Len(stack)
        /\ \A k \in 1..Len(stack) :
             stack'[k].dir = stack[k].dir /\ stack'[k].rest \subseteq stack[k].rest
    BY <1>1, <1>4, RestShrinks
  <2>2. Len(stack) \in Nat
    BY <1>1, StackLength
  <2> QED BY <1>1, <2>1, <2>2, Shrinking
<1>5. CASE OpenDirectory
  BY <1>2, <1>3, <1>5 DEF OpenDirectory
<1>6. CASE CloseDirectory
  BY <1>2, <1>6 DEF CloseDirectory
<1>7. CASE \E f \in Files : MissesFile(f)
  BY <1>2, <1>4, <1>7 DEF MissesFile, Without
<1> QED BY <1>5, <1>6, <1>7

\* What readdir returns is not beside, above or below anything that is to come.
LEMMA TakenApart ==
  ASSUME WalkInv, stack # <<>>, NEW f \in stack[Len(stack)].rest
  PROVE  /\ f \in Files /\ ~Met(f) /\ \A g \in Files : Met(g) => f \notin Above[g]
         /\ \A k \in 1..Len(stack) : \A x \in stack[k].rest :
              /\ x \in Files
              /\ x # f \/ k = Len(stack)
              /\ x # f => x \notin Above[f] /\ f \notin Above[x]
<1> DEFINE n == Len(stack)
<1>1. n \in 1..n /\ \A k \in 1..n : stack[k] \in Frames
  BY StackLength DEF WalkInv
<1>2. \A k \in 1..n : \A x \in stack[k].rest : x \in Files
  BY <1>1 DEF Frames
<1>3. /\ f \in Files /\ Parent[f] = stack[n].dir /\ ~Met(f)
      /\ \A g \in Files : Met(g) => f \notin Above[g]
  BY <1>1, <1>2 DEF WalkInv, RestInv
<1>4. ASSUME NEW k \in 1..n, k # n, NEW x \in stack[k].rest
      PROVE  x # f /\ x \notin Above[f] /\ f \notin Above[x]
  BY <1>1, <1>4 DEF WalkInv, ApartInv
<1>5. ASSUME NEW x \in stack[n].rest
      PROVE  x \notin Above[f] /\ f \notin Above[x]
  <2>1. x \in Files /\ Parent[x] = Parent[f]
    BY <1>1, <1>2, <1>3 DEF WalkInv, RestInv
  <2> QED BY <1>3, <2>1, Siblings
<1> QED BY <1>2, <1>3, <1>4, <1>5

\* A file or a directory that comes from readdir.
LEMMA VisitKeeps ==
  ASSUME WalkInv, NEW f \in Files, Visit(f)
  PROVE  WalkInv'
<1> DEFINE n == Len(stack)
           rest == Without(f)
<1>1. /\ StackType /\ stack # <<>> /\ current = None /\ None \notin Files
      /\ f \in stack[n].rest /\ UNCHANGED <<flags, table>>
  BY FinderAssumption DEF FinderAssumption, Visit, Walking, Top, Last, WalkInv
<1>2. n \in Nat \ {0} /\ n \in 1..n /\ \A k \in 1..n : stack[k] \in Frames
  BY <1>1, StackLength
<1>3. /\ rest \in Seq(Frames) /\ Len(rest) = n
      /\ \A k \in 1..n : /\ rest[k].dir = stack[k].dir
                         /\ rest[k].rest \subseteq stack[k].rest
                         /\ k = n => f \notin rest[k].rest
  BY <1>1, RestShrinks
<1>4. /\ \/ LooksLikeDirectory(f) /\ stack' = Append(rest, Frame(f)) /\ current' = None
         \/ ~LooksLikeDirectory(f) /\ stack' = rest /\ current' = f
  BY <1>1 DEF Visit, Without
<1> HIDE DEF rest
<1>5. /\ ~Met(f) /\ \A g \in Files : Met(g) => f \notin Above[g]
      /\ \A k \in 1..n : \A x \in rest[k].rest :
           /\ x \in Files /\ x # f /\ x \notin Above[f] /\ f \notin Above[x]
           /\ x \in stack[k].rest
  BY <1>1, <1>3, TakenApart
<1>6. (\A x : Entered(x)' <=> Entered(x)) /\ \A x : Bucket(x)' = Bucket(x)
  BY <1>1 DEF Entered, Bucket, flags
<1>7. ChainInv'
  BY <1>1, <1>6 DEF ChainInv, WalkInv
<1>8. \A k, m \in 1..n : k # m =>
        \A x \in rest[k].rest, y \in rest[m].rest : x # y /\ x \notin Above[y]
  BY <1>5 DEF ApartInv, WalkInv
<1>9. \A k \in 1..n : \A x \in rest[k].rest :
        /\ Parent[x] = rest[k].dir /\ ~Met(x)
        /\ \A g \in Files : Met(g) => x \notin Above[g]
  BY <1>3, <1>5 DEF RestInv, WalkInv
<1>10. CASE ~LooksLikeDirectory(f)
  <2>1. stack' = rest /\ current' = f
    BY <1>4, <1>10
  <2>2. \A x \in Files : Met(x)' <=> Met(x) \/ x = f
    BY <1>1, <1>6, <2>1 DEF Met
  <2>3. StackType' /\ CurrentInv'
    BY <1>3, <1>5, <1>6, <1>10, <2>1 DEF StackType, CurrentInv, Met, Plain, LooksLikeDirectory
  <2>4. RestInv'
    BY <1>3, <1>5, <1>9, <2>1, <2>2 DEF RestInv
  <2>5. ApartInv'
    BY <1>3, <1>8, <2>1 DEF ApartInv
  <2> QED BY <1>7, <2>3, <2>4, <2>5 DEF WalkInv
<1>11. CASE LooksLikeDirectory(f)
  <2>1. stack' = Append(rest, Frame(f)) /\ current' = None
    BY <1>4, <1>11
  <2>2. \A x : Met(x)' <=> Met(x)
    BY <1>1, <1>6, <2>1 DEF Met
  <2>3. /\ Frame(f) \in Frames /\ Frame(f).dir = f
        /\ \A x \in Frame(f).rest : x \in Files /\ Parent[x] = f
    BY <1>11, DirectoryIsFound DEF Frame, Frames
  <2> DEFINE e == Frame(f)
  <2> HIDE DEF e
  <2>4. /\ stack' \in Seq(Frames) /\ Len(stack') = n + 1
        /\ stack'[n + 1] = e /\ \A k \in 1..n : stack'[k] = rest[k]
    BY <1>2, <1>3, <2>1, <2>3, AppendProperties DEF e
  <2>5. \A x \in e.rest : /\ x \in Files /\ Parent[x] = e.dir
                          /\ Above[x] = {f} \cup Above[f]
                          /\ \A y \in Files : x = y \/ x \in Above[y] => f \in Above[y]
    BY <2>3, Child, Transitive DEF e
  <2>6. \A k \in 1..n + 1 : k \in 1..n \/ k = n + 1
    BY <1>2
  <2>7. StackType' /\ CurrentInv'
    BY <2>1, <2>4 DEF StackType, CurrentInv
  <2>8. RestInv'
    <3>1. ASSUME NEW x \in e.rest
          PROVE  /\ Parent[x] = e.dir /\ ~Met(x)'
                 /\ \A g \in Files : Met(g)' => x \notin Above[g]
      BY <1>5, <2>2, <2>5
    <3> QED BY <1>9, <2>2, <2>4, <2>6, <3>1 DEF RestInv
  <2>9. ApartInv'
    <3>1. ASSUME NEW k \in 1..n, NEW x \in rest[k].rest, NEW y \in e.rest
          PROVE  x # y /\ x \notin Above[y] /\ y \notin Above[x]
      BY <1>5, <2>5
    <3> QED BY <1>8, <2>4, <2>6, <3>1 DEF ApartInv
  <2> QED BY <1>7, <2>7, <2>8, <2>9 DEF WalkInv
<1> QED BY <1>10, <1>11

\* A file at the end of a chain.
LEMMA ChainGrows ==
  ASSUME ChainInv, NEW f \in Files, NEW b
  PROVE  /\ DOMAIN Chained(b, f) = DOMAIN table \cup {b}
         /\ \A c \in DOMAIN table : c # b => Chained(b, f)[c] = table[c]
         /\ Chained(b, f)[b] \in Seq(Files)
         /\ \A i \in DOMAIN Chained(b, f)[b] :
              \/ b \in DOMAIN table /\ i \in DOMAIN table[b] /\ Chained(b, f)[b][i] = table[b][i]
              \/ Chained(b, f)[b][i] = f /\ i = Len(Chained(b, f)[b])
<1>1. CASE b \in DOMAIN table
  <2> DEFINE s == table[b]
             t == Append(s, f)
  <2>1. s \in Seq(Files) /\ Len(s) \in Nat /\ DOMAIN s = 1..Len(s)
    BY <1>1 DEF ChainInv
  <2>2. /\ t \in Seq(Files) /\ Len(t) = Len(s) + 1 /\ DOMAIN t = 1..Len(s) + 1
        /\ \A i \in 1..Len(s) : t[i] = s[i]
        /\ t[Len(s) + 1] = f
    BY <2>1, AppendProperties
  <2> HIDE DEF t
  <2>3. Chained(b, f) = [table EXCEPT ![b] = t]
    BY <1>1 DEF Chained, t
  <2>4. /\ DOMAIN Chained(b, f) = DOMAIN table \cup {b} /\ Chained(b, f)[b] = t
        /\ \A c \in DOMAIN table : c # b => Chained(b, f)[c] = table[c]
    BY <1>1, <2>3
  <2> QED BY <1>1, <2>1, <2>2, <2>4
<1>2. CASE b \notin DOMAIN table
  <2>1. Chained(b, f) = [c \in DOMAIN table \cup {b} |-> IF c = b THEN <<f>> ELSE table[c]]
    BY <1>2 DEF Chained
  <2>2. /\ DOMAIN Chained(b, f) = DOMAIN table \cup {b} /\ Chained(b, f)[b] = <<f>>
        /\ \A c \in DOMAIN table : c # b => Chained(b, f)[c] = table[c]
    BY <2>1
  <2> QED BY <2>2
<1> QED BY <1>1, <1>2

\* What is in a chain stays there, and the new file is in its own.
LEMMA ChainKeeps ==
  ASSUME ChainInv, NEW f \in Files, NEW b
  PROVE  /\ \A c \in DOMAIN table : \A i \in DOMAIN table[c] :
              /\ c \in DOMAIN Chained(b, f) /\ i \in DOMAIN Chained(b, f)[c]
              /\ Chained(b, f)[c][i] = table[c][i]
         /\ b \in DOMAIN Chained(b, f)
         /\ \E i \in DOMAIN Chained(b, f)[b] : Chained(b, f)[b][i] = f
<1>1. /\ DOMAIN Chained(b, f) = DOMAIN table \cup {b}
      /\ \A c \in DOMAIN table : c # b => Chained(b, f)[c] = table[c]
  BY ChainGrows
<1>2. CASE b \in DOMAIN table
  <2>. DEFINE s == table[b]
              t == Append(s, f)
  <2>1. s \in Seq(Files) /\ Len(s) \in Nat /\ DOMAIN s = 1..Len(s)
    BY <1>2 DEF ChainInv
  <2>2. /\ DOMAIN t = 1..Len(s) + 1 /\ t[Len(s) + 1] = f
        /\ \A i \in 1..Len(s) : t[i] = s[i]
    BY <2>1, AppendProperties
  <2>. HIDE DEF t
  <2>3. Chained(b, f)[b] = t
    BY <1>2 DEF Chained, t
  <2>4. \A i \in DOMAIN s : i \in DOMAIN t /\ t[i] = s[i]
    BY <2>1, <2>2
  <2>5. Len(s) + 1 \in DOMAIN t
    BY <2>1, <2>2
  <2>. QED  BY <1>1, <2>2, <2>3, <2>4, <2>5
<1>3. CASE b \notin DOMAIN table
  <2>1. Chained(b, f)[b] = <<f>>
    BY <1>3 DEF Chained
  <2>2. 1 \in DOMAIN <<f>> /\ <<f>>[1] = f
    OBVIOUS
  <2>. QED  BY <1>1, <1>3, <2>1, <2>2
<1>. QED  BY <1>2, <1>3

LEMMA EnterKeeps ==
  ASSUME WalkInv, EnterFile
  PROVE  WalkInv'
<1> DEFINE b == Bucket(current)
           u == Chained(b, current)
<1>1. /\ current \in Files /\ current' = None /\ UNCHANGED <<flags, stack>>
      /\ table' = table \/ table' = u
      /\ Plain(current) /\ ~Entered(current)
  BY DEF EnterFile, WalkInv, StackType, CurrentInv
<1>2. \A x : Bucket(x)' = Bucket(x)
  BY <1>1 DEF Bucket, flags
<1>3. /\ DOMAIN u = DOMAIN table \cup {b}
      /\ \A c \in DOMAIN table : c # b => u[c] = table[c]
      /\ u[b] \in Seq(Files)
      /\ \A i \in DOMAIN u[b] :
           \/ b \in DOMAIN table /\ i \in DOMAIN table[b] /\ u[b][i] = table[b][i]
           \/ u[b][i] = current /\ i = Len(u[b])
  BY <1>1, ChainGrows DEF WalkInv
<1> HIDE DEF u
<1>4. \A x : Entered(x)' => Entered(x) \/ x = current
  <2>1. CASE table' = table
    BY <2>1 DEF Entered
  <2>2. CASE table' = u
    BY <1>3, <2>2 DEF Entered
  <2> QED BY <1>1, <2>1, <2>2
<1>5. \A x \in Files : Met(x)' => Met(x)
  BY <1>1, <1>4, FinderAssumption DEF Met, FinderAssumption
<1>6. ChainInv'
  <2>1. CASE table' = table
    BY <1>2, <2>1 DEF ChainInv, WalkInv
  <2>2. CASE table' = u
    <3>1. ASSUME NEW c \in DOMAIN u, c # b
          PROVE  /\ u[c] \in Seq(Files)
                 /\ \A i \in DOMAIN u[c] : Plain(u[c][i]) /\ c = Bucket(u[c][i])
                 /\ \A i, j \in DOMAIN u[c] : u[c][i] = u[c][j] => i = j
      BY <1>3, <3>1 DEF ChainInv, WalkInv
    <3>2. \A i \in DOMAIN u[b] : Plain(u[b][i]) /\ b = Bucket(u[b][i])
      BY <1>1, <1>3 DEF ChainInv, WalkInv
    <3>3. ASSUME NEW i \in DOMAIN u[b], NEW j \in DOMAIN u[b], u[b][i] = u[b][j]
          PROVE  i = j
      <4>1. b \in DOMAIN table => \A k \in DOMAIN table[b] : table[b][k] # current
        BY <1>1 DEF Entered
      <4> QED BY <1>3, <3>3, <4>1 DEF ChainInv, WalkInv
    <3> QED BY <1>2, <1>3, <2>2, <3>1, <3>2, <3>3 DEF ChainInv
  <2> QED BY <1>1, <2>1, <2>2
<1>7. StackType' /\ CurrentInv' /\ ApartInv'
  BY <1>1 DEF StackType, CurrentInv, ApartInv, WalkInv
<1>8. \A k \in 1..Len(stack) : \A x \in stack[k].rest : x \in Files
  <2>1. \A k \in 1..Len(stack) : stack[k] \in Frames
    BY ElementOfSeq DEF WalkInv, StackType
  <2> QED BY <2>1 DEF Frames
<1>9. RestInv'
  BY <1>1, <1>5, <1>8 DEF RestInv, WalkInv
<1> QED BY <1>6, <1>7, <1>9 DEF WalkInv

LEMMA WalkInductive == WalkInv /\ [Next]_vars => WalkInv'
<1> SUFFICES ASSUME WalkInv, [Next]_vars PROVE WalkInv'
  OBVIOUS
<1>1. ASSUME UNCHANGED <<flags, stack, current, table>> PROVE WalkInv'
  BY <1>1, Shrinking DEF WalkInv, StackType
<1>2. CASE UNCHANGED vars \/ Dump \/ \E f \in Files : Vanish(f)
  BY <1>1, <1>2 DEF vars, Dump, Vanish
<1>3. CASE OpenDirectory \/ CloseDirectory \/ \E f \in Files : MissesFile(f)
  BY <1>3, TurningKeeps
<1>4. CASE \E f \in Files : Visit(f)
  BY <1>4, VisitKeeps
<1>5. CASE EnterFile
  BY <1>5, EnterKeeps
<1> QED BY <1>2, <1>3, <1>4, <1>5 DEF Next, Step

-----------------------------------------------------------------------------
\* Whatever the tree, the links and the table size, no file is entered twice
\* and none outside its bucket (processDirectories, ht_set and its variants).
THEOREM FilesEnteredOnce == Spec => []EachFileOnce
<1>1. WalkInv => EachFileOnce
  <2> SUFFICES ASSUME ChainInv,
                      NEW b \in DOMAIN table, NEW c \in DOMAIN table,
                      NEW i \in DOMAIN table[b], NEW j \in DOMAIN table[c],
                      table[b][i] = table[c][j]
               PROVE  b = c /\ i = j /\ Plain(table[b][i]) /\ b = Bucket(table[b][i])
    BY Zenon DEF WalkInv, EachFileOnce
  <2>1. b = Bucket(table[b][i]) /\ c = Bucket(table[c][j]) /\ Plain(table[b][i])
    BY Zenon DEF ChainInv
  <2>2. b = c
    BY <2>1, Zenon
  <2> QED BY <2>1, <2>2, Zenon DEF ChainInv
<1> QED BY <1>1, StartInv, WalkInductive, PTL DEF Spec

-----------------------------------------------------------------------------
(* Directories above a file. *)

\* Of some files there is one with none of them above it.
LEMMA Topmost ==
  ASSUME NEW A, A \subseteq Files, A # {}
  PROVE  \E y \in A : \A z \in A : z \notin Above[y]
<1>. DEFINE sizes == {Cardinality(Above[y]) : y \in A}
<1>1. ASSUME NEW y \in Files
      PROVE  IsFiniteSet(Above[y]) /\ Cardinality(Above[y]) \in Nat
  <2>1. Above[y] \subseteq Files /\ IsFiniteSet(Files)
    BY FinderAssumption DEF FinderAssumption
  <2>. QED  BY <2>1, FS_Subset, FS_CardinalityType
<1>2. sizes \subseteq Nat /\ sizes # {}
  BY <1>1
<1>3. Min(sizes) \in sizes /\ \A n \in sizes : Min(sizes) <= n
  BY <1>2, MinOfNaturals
<1>4. PICK y \in A : Min(sizes) = Cardinality(Above[y])
  BY <1>3
<1>5. ASSUME NEW z \in A, z \in Above[y] PROVE FALSE
  <2>1. Above[z] \subseteq Above[y] /\ z \notin Above[z]
    BY <1>5, FinderAssumption DEF FinderAssumption
  <2>2. Cardinality(Above[z]) < Cardinality(Above[y])
    BY <1>1, <1>5, <2>1, FS_Subset
  <2>3. Min(sizes) <= Cardinality(Above[z])
    BY <1>3
  <2>. QED  BY <1>1, <1>4, <2>2, <2>3
<1>. QED  BY <1>5

\* On the way from Root to a file, one step below Root.
LEMMA EntryOfRoot ==
  ASSUME NEW f \in Files
  PROVE  \E y \in {f} \cup Above[f] : y \in Files /\ Parent[y] = Root
<1>. DEFINE A == {f} \cup Above[f]
<1>0. Above[f] \subseteq Files
  BY FinderAssumption DEF FinderAssumption
<1>1. A \subseteq Files /\ A # {}
  <2>1. f \in A
    OBVIOUS
  <2>. QED  BY <1>0, <2>1
<1>. HIDE DEF A
<1>2. PICK y \in A : \A z \in A : z \notin Above[y]
  BY <1>1, Topmost
<1>. USE DEF A
<1>3. Above[y] \subseteq A
  BY FinderAssumption DEF FinderAssumption
<1>4. Parent[y] # Root => Parent[y] \in Above[y]
  BY <1>1, FinderAssumption DEF FinderAssumption
<1>. QED  BY <1>1, <1>2, <1>3, <1>4

\* On the way from a directory to a file below it, one step below the directory.
LEMMA EntryOfDirectory ==
  ASSUME NEW f \in Files, NEW d \in Above[f]
  PROVE  \E y \in {f} \cup Above[f] : y \in Files /\ Parent[y] = d
<1>. DEFINE A == {y \in {f} \cup Above[f] : d \in Above[y]}
<1>0. Above[f] \subseteq Files
  BY FinderAssumption DEF FinderAssumption
<1>1. A \subseteq Files /\ A # {}
  <2>1. f \in A
    OBVIOUS
  <2>. QED  BY <1>0, <2>1
<1>. HIDE DEF A
<1>2. PICK y \in A : \A z \in A : z \notin Above[y]
  BY <1>1, Topmost
<1>. USE DEF A
<1>3. Above[y] \subseteq Above[f]
  BY FinderAssumption DEF FinderAssumption
<1>4. Above[y] = IF Parent[y] = Root THEN {} ELSE {Parent[y]} \cup Above[Parent[y]]
  BY <1>1, FinderAssumption DEF FinderAssumption
<1>5. Parent[y] # Root /\ Parent[y] \in Above[y]
  BY <1>4
<1>6. Parent[y] \in A => FALSE
  BY <1>2, <1>5
<1>7. d = Parent[y]
  BY <1>3, <1>4, <1>5, <1>6
<1>. QED  BY <1>1, <1>7

LEMMA AboveAreDirectories ==
  ASSUME NEW f \in Files, NEW d \in Above[f]
  PROVE  d \in Files /\ TypeOf[d] = "directory"
<1>1. PICK y \in Files : Parent[y] = d
  BY EntryOfDirectory
<1>2. d \in Files /\ d # Root
  BY FinderAssumption DEF FinderAssumption
<1>. QED  BY <1>1, <1>2, FinderAssumption DEF FinderAssumption

-----------------------------------------------------------------------------
(* The walk is complete. *)

\* The file, or a directory above it, is still to come from readdir.
Pending(f) ==
  \E k \in 1..Len(stack) : \E x \in stack[k].rest : x = f \/ x \in Above[f]

\* The directories being read lie one in the other, from Root on.
DirectoriesInv ==
  \A k \in 1..Len(stack) :
    /\ stack[k].dir = Root <=> k = 1
    /\ k # 1 => stack[k].dir \in Files /\ LooksLikeDirectory(stack[k].dir)

\* Every file has been met, is to come, or is missed for a reason.
CompleteInv == \A f \in Files : Plain(f) => Missed(f) \/ Met(f) \/ Pending(f)

\* The same of the starting directory alone, and what the walk of it returned.
StatusInv ==
  /\ stack # <<>> => result = 0
  /\ stack = <<>> /\ result = 1 => Root \in Unreadable \/ \E g \in gone : Parent[g] = Root
  /\ \A f \in Entries(Root) \ gone : Plain(f) =>
       \/ Met(f) \/ Skipped(f)
       \/ stack # <<>> /\ f \in stack[1].rest
       \/ stack = <<>> /\ result = 1

\* ht_dump comes last.
DumpInv ==
  printed # None =>
    /\ stack = <<>> /\ current = None
    /\ printed = {table[b] : b \in {c \in DOMAIN table : Len(table[c]) > 1}}

\* Nothing is left below a directory that is gone.
EmptiedInv == \A f \in Files : Above[f] \cap gone # {} => f \in gone

FinderInv ==
  /\ WalkInv /\ DirectoriesInv /\ CompleteInv /\ StatusInv /\ DumpInv /\ EmptiedInv
  /\ md5Flag \in BOOLEAN /\ dateFlag \in BOOLEAN
  /\ gone \subseteq Vanishing /\ result \in 0..1

LEMMA VanishingAreFiles ==
  ASSUME NEW g \in Vanishing
  PROVE  g \in Files /\ g # Root
BY FinderAssumption DEF FinderAssumption

LEMMA FinderStarts == Init => FinderInv
<1>. SUFFICES ASSUME Init PROVE FinderInv
  OBVIOUS
<1>1. WalkInv
  BY StartInv
<1>2. /\ stack = <<Frame(Root)>> /\ Len(stack) = 1 /\ stack[1] = Frame(Root)
      /\ Frame(Root).dir = Root /\ Frame(Root).rest = Entries(Root)
      /\ Entries(Root) = {f \in Files : Parent[f] = Root}
  BY DEF Init, Frame, Entries, Found
<1>3. stack # <<>> /\ result = 0 /\ gone = {} /\ printed = None
  BY DEF Init
<1>4. DirectoriesInv
  BY <1>2 DEF DirectoriesInv
<1>5. CompleteInv
  <2>1. ASSUME NEW f \in Files PROVE Pending(f)
    <3>1. PICK y \in {f} \cup Above[f] : y \in Entries(Root)
      BY <1>2, EntryOfRoot
    <3>2. 1 \in 1..Len(stack)
      BY <1>2
    <3>. QED  BY <1>2, <3>1, <3>2 DEF Pending
  <2>. QED  BY <2>1 DEF CompleteInv
<1>6. StatusInv
  BY <1>2, <1>3 DEF StatusInv
<1>. QED  BY <1>1, <1>3, <1>4, <1>5, <1>6 DEF FinderInv, DumpInv, EmptiedInv, flags, Init

\* What made the walk miss a file stays.
LEMMA MissedStays ==
  ASSUME UNCHANGED flags, gone \subseteq gone', NEW f
  PROVE  (Skipped(f) => Skipped(f)') /\ (Missed(f) => Missed(f)')
BY DEF Skipped, Unopenable, Missed, flags

\* A directory is left for a reason, and with it all that was to come in it.
LEMMA ReturnMisses ==
  ASSUME FinderInv, stack # <<>>, NEW r \in 0..1, Return(r),
         UNCHANGED <<flags, gone, current, table, printed>>, printed = None, WalkInv',
         Top.dir = Root /\ (r = 1 \/ Top.rest # {}) =>
           r = 1 /\ (Root \in Unreadable \/ \E g \in gone : Parent[g] = Root),
         \A f \in Files, x \in Top.rest : x = f \/ x \in Above[f] => Missed(f)
  PROVE  FinderInv'
<1>. DEFINE n == Len(stack)
<1>1. /\ n \in Nat \ {0} /\ stack \in Seq(Frames)
      /\ stack' \in Seq(Frames) /\ Len(stack') = n - 1
      /\ \A k \in 1..n - 1 : stack'[k] = stack[k]
  BY StackLength, FrontOfSeq DEF FinderInv, WalkInv, StackType, Return
<1>2. Top = stack[n] /\ (n = 1 <=> Top.dir = Root)
  <2>1. n \in 1..n
    BY <1>1
  <2>. QED  BY <2>1 DEF Top, Last, FinderInv, DirectoriesInv
<1>3. /\ \A f : Met(f)' <=> Met(f)
      /\ \A f : Skipped(f)' <=> Skipped(f)
      /\ \A f : Missed(f)' <=> Missed(f)
  BY DEF Met, Entered, Skipped, Unopenable, Missed, flags
<1>4. DirectoriesInv'
  BY <1>1 DEF FinderInv, DirectoriesInv
<1>5. CompleteInv'
  <2>1. ASSUME NEW f \in Files, Pending(f), ~Missed(f) PROVE Pending(f)'
    <3>1. PICK k \in 1..n : \E x \in stack[k].rest : x = f \/ x \in Above[f]
      BY <2>1 DEF Pending
    <3>2. k # n
      BY <1>2, <2>1, <3>1
    <3>3. k \in 1..n - 1
      BY <1>1, <3>2
    <3>. QED  BY <1>1, <3>1, <3>3 DEF Pending
  <2>. QED  BY <1>3, <2>1 DEF FinderInv, CompleteInv
<1>6. StatusInv'
  <2>1. result' = IF n = 1 THEN r ELSE result
    BY DEF Return
  <2>2. stack' = <<>> <=> n = 1
    BY <1>1, EmptySeq
  <2>3. CASE n = 1
    <3>1. Top = stack[1]
      BY <1>2, <2>3
    <3>. QED  BY <1>2, <1>3, <2>1, <2>2, <2>3, <3>1 DEF FinderInv, StatusInv
  <2>4. CASE n # 1
    <3>1. stack'[1] = stack[1] /\ stack' # <<>> /\ result' = result
      BY <1>1, <2>1, <2>2, <2>4
    <3>. QED  BY <1>3, <3>1 DEF FinderInv, StatusInv
  <2>. QED  BY <2>3, <2>4
<1>. QED  BY <1>4, <1>5, <1>6 DEF FinderInv, DumpInv, EmptiedInv, Return, flags

\* One file is taken from what is to come of the innermost directory, and it and all
\* below it is missed, met or still to come.
LEMMA TakenCovered ==
  ASSUME FinderInv, stack # <<>>, printed = None, WalkInv', DirectoriesInv',
         UNCHANGED <<flags, gone, table, result, printed>>,
         \A g \in Files : Met(g) => Met(g)',
         NEW f \in Files,
         NEW t, t = Without(f), Len(stack') \in Nat, Len(stack) <= Len(stack'),
         \A k \in 1..Len(stack) : stack'[k] = t[k],
         \A g \in Files : Plain(g) /\ (g = f \/ f \in Above[g]) =>
           Missed(g) \/ Met(g)' \/ Pending(g)',
         Plain(f) => f \in gone \/ Met(f)'
  PROVE  FinderInv'
<1>. DEFINE n == Len(stack)
<1>1. /\ n \in Nat \ {0} /\ n <= Len(stack') /\ stack' # <<>>
      /\ \A k \in 1..n : /\ k \in 1..Len(stack')
                         /\ stack[k].rest \ {f} \subseteq stack'[k].rest
  <2>1. n \in Nat \ {0}
    BY StackLength DEF FinderInv, WalkInv
  <2>2. \A k \in 1..n : stack[k].rest \ {f} \subseteq stack'[k].rest
    BY RestShrinks DEF FinderInv, WalkInv
  <2>3. stack' # <<>>
    BY <2>1
  <2>. QED  BY <2>1, <2>2, <2>3
<1>2. /\ \A g : Skipped(g)' <=> Skipped(g)
      /\ \A g : Missed(g)' <=> Missed(g)
  BY DEF Skipped, Unopenable, Missed, flags
<1>3. CompleteInv'
  <2>1. ASSUME NEW g \in Files, Plain(g), Pending(g)
        PROVE  Missed(g) \/ Met(g)' \/ Pending(g)'
    <3>1. PICK k \in 1..n : \E x \in stack[k].rest : x = g \/ x \in Above[g]
      BY <2>1 DEF Pending
    <3>0. PICK x \in stack[k].rest : x = g \/ x \in Above[g]
      BY <3>1
    <3>2. CASE x = f
      BY <2>1, <3>0, <3>2
    <3>3. CASE x # f
      BY <1>1, <3>0, <3>3 DEF Pending
    <3>. QED  BY <3>2, <3>3
  <2>. QED  BY <1>2, <2>1 DEF FinderInv, CompleteInv
<1>4. StatusInv'
  <2>1. 1 \in 1..n
    BY <1>1
  <2>2. stack[1].rest \ {f} \subseteq stack'[1].rest
    BY <1>1, <2>1
  <2>3. Entries(Root) \subseteq Files
    BY DEF Entries
  <2>. QED  BY <1>1, <1>2, <2>2, <2>3 DEF FinderInv, StatusInv
<1>. QED  BY <1>3, <1>4 DEF FinderInv, DumpInv, EmptiedInv, flags

LEMMA OpenCompletes == ASSUME FinderInv, OpenDirectory PROVE FinderInv'
<1>. DEFINE n == Len(stack)
<1>1. /\ stack # <<>> /\ current = None /\ UNCHANGED <<flags, gone, current, table, printed>>
      /\ WalkInv'
  BY TurningKeeps DEF OpenDirectory, Walking, FinderInv
<1>2. /\ n \in 1..n /\ Top = stack[n] /\ stack[n] \in Frames
      /\ n \in Nat \ {0}
  BY <1>1, StackLength DEF Top, Last, FinderInv, WalkInv
<1>3. printed = None
  BY <1>1 DEF FinderInv, DumpInv
<1>4. CASE Openable(Top.dir)
  <2>1. stack' = [stack EXCEPT ![n].open = TRUE] /\ result' = result
    BY <1>4 DEF OpenDirectory
  <2>2. /\ Len(stack') = n
        /\ \A k \in 1..n : stack'[k].dir = stack[k].dir /\ stack'[k].rest = stack[k].rest
    BY <1>1, <2>1, OpenKeeps DEF FinderInv, WalkInv
  <2>3. stack' # <<>> /\ 1 \in 1..n
    BY <1>2, <2>2
  <2>4. /\ \A f : Met(f)' <=> Met(f)
        /\ \A f : Skipped(f)' <=> Skipped(f)
        /\ \A f : Missed(f)' <=> Missed(f)
        /\ \A f : Pending(f)' <=> Pending(f)
    BY <1>1, <2>2 DEF Met, Entered, Skipped, Unopenable, Missed, Pending, flags
  <2>5. DirectoriesInv'
    BY <2>2 DEF FinderInv, DirectoriesInv
  <2>6. CompleteInv'
    BY <2>4 DEF FinderInv, CompleteInv
  <2>7. StatusInv'
    BY <1>1, <2>1, <2>2, <2>3, <2>4 DEF FinderInv, StatusInv
  <2>. QED  BY <1>1, <1>3, <2>1, <2>5, <2>6, <2>7 DEF FinderInv, DumpInv, EmptiedInv, flags
<1>5. CASE ~Openable(Top.dir)
  <2>1. Return(1)
    BY <1>5 DEF OpenDirectory
  <2>2. \A x \in Top.rest : x \in Files /\ Parent[x] = Top.dir
    BY <1>2 DEF FinderInv, WalkInv, RestInv, Frames
  <2>3. CASE Top.dir = Root
    <3>1. Root \in Unreadable
      <4>1. Root \notin gone
        BY VanishingAreFiles DEF FinderInv
      <4>. QED  BY <1>5, <2>3, <4>1 DEF Openable, Found
    <3>2. \A f : Missed(f)
      BY <3>1 DEF Missed
    <3>. QED  BY <1>1, <1>3, <2>1, <3>1, <3>2, ReturnMisses
  <2>4. CASE Top.dir # Root
    <3>1. Top.dir \in Files /\ LooksLikeDirectory(Top.dir) /\ Found(Top.dir) = Top.dir
      <4>1. Top.dir \in Files /\ LooksLikeDirectory(Top.dir)
        BY <1>2, <2>4 DEF FinderInv, DirectoriesInv
      <4>. QED  BY <4>1, DirectoryIsFound
    <3>2. ASSUME NEW f \in Files, NEW x \in Top.rest, x = f \/ x \in Above[f]
          PROVE  Missed(f)
      <4>1. Top.dir \in Above[x]
        BY <2>2, <3>1, Child
      <4>2. Top.dir \in Above[f]
        BY <3>2, <4>1, Transitive
      <4>3. TypeOf[Top.dir] = "directory"
        BY <4>2, AboveAreDirectories
      <4>4. Top.dir \in Unreadable \cup gone
        BY <1>5, <3>1, <4>3 DEF Openable
      <4>5. CASE Top.dir \in gone
        <5>1. f \in gone
          BY <4>2, <4>5 DEF FinderInv, EmptiedInv
        <5>. QED  BY <5>1 DEF Missed
      <4>. QED  BY <4>2, <4>4, <4>5 DEF Missed
    <3>. QED  BY <1>1, <1>3, <2>1, <2>4, <3>2, ReturnMisses
  <2>. QED  BY <2>3, <2>4
<1>. QED  BY <1>4, <1>5

LEMMA CloseCompletes == ASSUME FinderInv, CloseDirectory PROVE FinderInv'
<1>1. /\ stack # <<>> /\ current = None /\ UNCHANGED <<flags, gone, current, table, printed>>
      /\ WalkInv' /\ Return(0) /\ Top.rest = {}
  BY TurningKeeps DEF CloseDirectory, Walking, FinderInv
<1>2. printed = None
  BY <1>1 DEF FinderInv, DumpInv
<1>. QED  BY <1>1, <1>2, ReturnMisses

LEMMA MissCompletes ==
  ASSUME FinderInv, NEW g \in Files, MissesFile(g)
  PROVE  FinderInv'
<1>. DEFINE n == Len(stack)
<1>1. /\ stack # <<>> /\ current = None /\ UNCHANGED <<flags, gone, current, table, printed>>
      /\ g \in Top.rest \cap gone /\ WalkInv'
  BY TurningKeeps DEF MissesFile, Walking, FinderInv
<1>2. /\ n \in 1..n /\ Top = stack[n] /\ stack[n] \in Frames /\ n \in Nat
  BY <1>1, StackLength DEF Top, Last, FinderInv, WalkInv
<1>3. printed = None
  BY <1>1 DEF FinderInv, DumpInv
<1>4. \A x \in Top.rest : x \in Files /\ Parent[x] = Top.dir
  BY <1>2 DEF FinderInv, WalkInv, RestInv, Frames
<1>5. ASSUME NEW f \in Files, NEW x \in Top.rest, x = f \/ x \in Above[f]
      PROVE  Missed(f)
  <2>1. Parent[g] = Parent[x]
    BY <1>1, <1>4
  <2>. QED  BY <1>1, <1>5, <2>1 DEF Missed
<1>6. CASE Return(1)
  BY <1>1, <1>3, <1>4, <1>5, <1>6, ReturnMisses
<1>7. CASE stack' = Without(g) /\ result' = result
  <2>1. /\ Len(stack') = n /\ \A k \in 1..n : stack'[k].dir = stack[k].dir
    BY <1>1, <1>7, RestShrinks DEF FinderInv, WalkInv
  <2>2. DirectoriesInv'
    BY <2>1 DEF FinderInv, DirectoriesInv
  <2>3. \A f : Met(f)' <=> Met(f)
    BY <1>1 DEF Met, Entered
  <2>4. \A f \in Files : f = g \/ g \in Above[f] => Missed(f)
    BY <1>1, <1>5
  <2>. QED  BY <1>1, <1>2, <1>3, <1>7, <2>1, <2>2, <2>3, <2>4, TakenCovered
<1>. QED  BY <1>6, <1>7 DEF MissesFile, Without

LEMMA VisitCompletes ==
  ASSUME FinderInv, NEW f \in Files, Visit(f)
  PROVE  FinderInv'
<1>. DEFINE n == Len(stack)
            rest == Without(f)
<1>1. /\ stack # <<>> /\ current = None /\ UNCHANGED <<flags, gone, table, result, printed>>
      /\ WalkInv' /\ None \notin Files
      /\ \/ LooksLikeDirectory(f) /\ stack' = Append(rest, Frame(f)) /\ current' = None
         \/ ~LooksLikeDirectory(f) /\ stack' = rest /\ current' = f
  BY VisitKeeps, FinderAssumption DEF Visit, Walking, Without, FinderInv, FinderAssumption
<1>2. n \in 1..n /\ n \in Nat \ {0}
  BY <1>1, StackLength DEF FinderInv, WalkInv
<1>3. printed = None
  BY <1>1 DEF FinderInv, DumpInv
<1>4. /\ rest \in Seq(Frames) /\ Len(rest) = n
      /\ \A k \in 1..n : rest[k].dir = stack[k].dir
  BY <1>1, RestShrinks DEF FinderInv, WalkInv
<1>5. PICK t : t = rest
  OBVIOUS
<1>. HIDE DEF rest
<1>6. \A x : Entered(x)' <=> Entered(x)
  BY <1>1 DEF Entered
<1>7. \A g \in Files : Met(g) => Met(g)'
  BY <1>1, <1>6 DEF Met
<1>8. CASE ~LooksLikeDirectory(f)
  <2>1. stack' = rest /\ current' = f
    BY <1>1, <1>8
  <2>2. DirectoriesInv'
    BY <1>4, <2>1 DEF FinderInv, DirectoriesInv
  <2>3. \A g \in Files : f \notin Above[g]
    BY <1>8, AboveAreDirectories DEF LooksLikeDirectory
  <2>4. Met(f)'
    BY <2>1 DEF Met
  <2>. QED  BY <1>1, <1>2, <1>3, <1>4, <1>5, <1>7, <2>1, <2>2, <2>3, <2>4, TakenCovered DEF rest
<1>9. CASE LooksLikeDirectory(f)
  <2>1. stack' = Append(rest, Frame(f))
    BY <1>1, <1>9
  <2>2. /\ Frame(f) \in Frames /\ Frame(f).dir = f /\ f # Root
        /\ Frame(f).rest = {x \in Files : Parent[x] = f}
    BY <1>9, DirectoryIsFound, FinderAssumption DEF Frame, Frames, FinderAssumption
  <2>3. /\ Len(stack') = n + 1 /\ stack'[n + 1] = Frame(f)
        /\ \A k \in 1..n : stack'[k] = rest[k]
    BY <1>2, <1>4, <2>1, <2>2, AppendProperties
  <2>4. DirectoriesInv'
    <3>1. ASSUME NEW k \in 1..n + 1
          PROVE  /\ stack'[k].dir = Root <=> k = 1
                 /\ k # 1 => stack'[k].dir \in Files /\ LooksLikeDirectory(stack'[k].dir)
      <4>1. CASE k \in 1..n
        BY <1>4, <2>3, <4>1 DEF FinderInv, DirectoriesInv
      <4>2. CASE k = n + 1
        BY <1>2, <1>9, <2>2, <2>3, <4>2
      <4>. QED  BY <1>2, <4>1, <4>2
    <3>. QED  BY <2>3, <3>1 DEF DirectoriesInv
  <2>5. ASSUME NEW g \in Files, f \in Above[g] PROVE Pending(g)'
    <3>1. PICK y \in {g} \cup Above[g] : y \in Files /\ Parent[y] = f
      BY <2>5, EntryOfDirectory
    <3>2. y \in stack'[n + 1].rest /\ n + 1 \in 1..Len(stack')
      BY <1>2, <2>2, <2>3, <3>1
    <3>. QED  BY <3>1, <3>2 DEF Pending
  <2>6. ~Plain(f)
    BY <1>9 DEF Plain, LooksLikeDirectory
  <2>7. Len(stack') \in Nat /\ n <= Len(stack')
    BY <1>2, <2>3
  <2>. QED  BY <1>1, <1>3, <1>5, <1>7, <2>3, <2>4, <2>5, <2>6, <2>7, TakenCovered DEF rest
<1>. QED  BY <1>8, <1>9

LEMMA EnterCompletes == ASSUME FinderInv, EnterFile PROVE FinderInv'
<1>1. /\ current \in Files /\ current # None /\ current' = None /\ WalkInv'
      /\ UNCHANGED <<flags, gone, stack, result, printed>>
      /\ table' = IF Skipped(current) THEN table ELSE Chained(Bucket(current), current)
  BY EnterKeeps DEF EnterFile, FinderInv, WalkInv, StackType
<1>2. printed = None
  BY <1>1 DEF FinderInv, DumpInv
<1>3. /\ \A f : Skipped(f)' <=> Skipped(f)
      /\ \A f : Missed(f)' <=> Missed(f)
      /\ \A f : Pending(f)' <=> Pending(f)
  BY <1>1 DEF Skipped, Unopenable, Missed, Pending, flags
<1>4. \A f : Met(f) => Met(f)' \/ Skipped(f)
  <2>1. CASE Skipped(current)
    BY <1>1, <2>1 DEF Met, Entered
  <2>2. CASE ~Skipped(current)
    <3>1. table' = Chained(Bucket(current), current)
      BY <1>1, <2>2
    <3>. DEFINE u == Chained(Bucket(current), current)
    <3>0. /\ \A c \in DOMAIN table : \A i \in DOMAIN table[c] :
               /\ c \in DOMAIN u /\ i \in DOMAIN u[c] /\ u[c][i] = table[c][i]
          /\ \E c \in DOMAIN u : \E i \in DOMAIN u[c] : u[c][i] = current
      BY <1>1, ChainKeeps DEF FinderInv, WalkInv
    <3>. HIDE DEF u
    <3>2. \A f : Entered(f) => Entered(f)'
      BY <3>0, <3>1 DEF Entered, u
    <3>3. ASSUME NEW f, f = current PROVE Entered(f)'
      BY <3>0, <3>1, <3>3 DEF Entered, u
    <3>. QED  BY <3>2, <3>3 DEF Met
  <2>. QED  BY <2>1, <2>2
<1>5. CompleteInv'
  BY <1>3, <1>4 DEF FinderInv, CompleteInv, Missed
<1>6. StatusInv'
  BY <1>1, <1>3, <1>4 DEF FinderInv, StatusInv
<1>. QED  BY <1>1, <1>2, <1>5, <1>6 DEF FinderInv, DirectoriesInv, DumpInv, EmptiedInv, flags

LEMMA VanishCompletes ==
  ASSUME FinderInv, NEW f \in Files, Vanish(f)
  PROVE  FinderInv'
<1>1. /\ gone' = gone \cup {f} /\ f \in Vanishing /\ printed = None
      /\ UNCHANGED <<flags, stack, current, table, result, printed>>
  BY DEF Vanish
<1>2. WalkInv'
  BY <1>1, WalkInductive DEF FinderInv, Next
<1>3. /\ \A g : Skipped(g) => Skipped(g)'
      /\ \A g : Missed(g) => Missed(g)'
  BY <1>1, MissedStays
<1>4. /\ \A g : Met(g)' <=> Met(g)
      /\ \A g : Pending(g)' <=> Pending(g)
  BY <1>1 DEF Met, Entered, Pending
<1>5. CompleteInv'
  BY <1>3, <1>4 DEF FinderInv, CompleteInv
<1>6. StatusInv'
  BY <1>1, <1>3, <1>4 DEF FinderInv, StatusInv
<1>7. EmptiedInv'
  <2>. SUFFICES ASSUME NEW g \in Files, f \in Above[g] PROVE g \in gone'
    BY <1>1 DEF FinderInv, EmptiedInv
  <2>1. PICK y \in {g} \cup Above[g] : y \in Files /\ Parent[y] = f
    BY EntryOfDirectory
  <2>2. y \in gone
    BY <2>1 DEF Vanish
  <2>. QED  BY <1>1, <2>1, <2>2 DEF FinderInv, EmptiedInv
<1>. QED  BY <1>1, <1>2, <1>5, <1>6, <1>7 DEF FinderInv, DirectoriesInv, DumpInv, EmptiedInv, flags

LEMMA FinderInductive == FinderInv /\ [Next]_vars => FinderInv'
<1>. SUFFICES ASSUME FinderInv, [Next]_vars PROVE FinderInv'
  OBVIOUS
<1>1. ASSUME UNCHANGED <<flags, gone, stack, current, table, result>>, DumpInv'
      PROVE  FinderInv'
  <2>1. WalkInv'
    BY <1>1, Shrinking DEF FinderInv, WalkInv, StackType
  <2>2. /\ \A g : Met(g)' <=> Met(g)
        /\ \A g : Skipped(g)' <=> Skipped(g)
        /\ \A g : Missed(g)' <=> Missed(g)
        /\ \A g : Pending(g)' <=> Pending(g)
    BY <1>1 DEF Met, Entered, Skipped, Unopenable, Missed, Pending, flags
  <2>3. CompleteInv'
    BY <2>2 DEF FinderInv, CompleteInv
  <2>4. StatusInv'
    BY <1>1, <2>2 DEF FinderInv, StatusInv
  <2>. QED  BY <1>1, <2>1, <2>3, <2>4 DEF FinderInv, DirectoriesInv, EmptiedInv, flags
<1>2. CASE UNCHANGED vars
  BY <1>1, <1>2 DEF vars, FinderInv, DumpInv
<1>3. CASE Dump
  BY <1>1, <1>3 DEF Dump, DumpInv
<1>4. CASE OpenDirectory
  BY <1>4, OpenCompletes
<1>5. CASE CloseDirectory
  BY <1>5, CloseCompletes
<1>6. CASE EnterFile
  BY <1>6, EnterCompletes
<1>7. ASSUME NEW f \in Files, Visit(f) PROVE FinderInv'
  BY <1>7, VisitCompletes
<1>8. ASSUME NEW f \in Files, MissesFile(f) PROVE FinderInv'
  BY <1>8, MissCompletes
<1>9. ASSUME NEW f \in Files, Vanish(f) PROVE FinderInv'
  BY <1>9, VanishCompletes
<1>. QED  BY <1>2, <1>3, <1>4, <1>5, <1>6, <1>7, <1>8, <1>9, Zenon DEF Next, Step

LEMMA FinderAlways == Spec => []FinderInv
BY FinderStarts, FinderInductive, PTL DEF Spec

\* Two duplicates hash to the same bucket, whatever the flags.
LEMMA DuplicatesShareBucket ==
  ASSUME NEW f \in Files, NEW g \in Files, Duplicate(f, g),
         md5Flag \in BOOLEAN, dateFlag \in BOOLEAN
  PROVE  Bucket(f) = Bucket(g)
<1>1. CASE md5Flag /\ dateFlag
  BY <1>1 DEF Duplicate, Bucket, hash_md5_date
<1>2. CASE md5Flag /\ ~dateFlag
  BY <1>2 DEF Duplicate, Bucket, hash_md5
<1>3. CASE ~md5Flag
  <2>1. hash(f) = hash(g)
    BY <1>3 DEF Duplicate, hash
  <2>2. dateFlag => hash_date(f) = hash_date(g)
    BY <1>3, <2>1 DEF Duplicate, hash_date
  <2>. QED  BY <1>3, <2>1, <2>2 DEF Bucket
<1>. QED  BY <1>1, <1>2, <1>3

\* Any two duplicates of the tree are printed in one group unless one of them is
\* missed for a reason, whatever the tree, the contents, the order readdir returns
\* files in and the deletions meanwhile.
THEOREM DuplicatesAreFound == Spec => []DuplicatesFound
<1>1. FinderInv => DuplicatesFound
  <2>. SUFFICES ASSUME FinderInv, printed # None,
                       NEW f \in Files, NEW g \in Files, Plain(f), Plain(g),
                       f # g, Duplicate(f, g), ~Missed(f), ~Missed(g)
                PROVE  \E p \in printed : {f, g} \subseteq ToSet(p)
    BY DEF DuplicatesFound
  <2>1. stack = <<>> /\ current = None /\ None \notin Files
    BY FinderAssumption DEF FinderInv, DumpInv, FinderAssumption
  <2>2. Len(stack) = 0
    BY <2>1
  <2>3. Entered(f) /\ Entered(g)
    BY <2>1, <2>2 DEF FinderInv, CompleteInv, Pending, Met
  <2>4. PICK b \in DOMAIN table : \E i \in DOMAIN table[b] : table[b][i] = f
    BY <2>3 DEF Entered
  <2>5. PICK c \in DOMAIN table : \E j \in DOMAIN table[c] : table[c][j] = g
    BY <2>3 DEF Entered
  <2>6. b = Bucket(f) /\ c = Bucket(g)
    BY <2>4, <2>5 DEF FinderInv, WalkInv, ChainInv
  <2>7. b = c
    BY <2>6, DuplicatesShareBucket DEF FinderInv
  <2>8. PICK i \in DOMAIN table[b], j \in DOMAIN table[b] :
              table[b][i] = f /\ table[b][j] = g
    BY <2>4, <2>5, <2>7
  <2>9. Len(table[b]) > 1
    <3>1. table[b] \in Seq(Files) /\ i # j
      BY <2>8 DEF FinderInv, WalkInv, ChainInv
    <3>. QED  BY <3>1, LenProperties
  <2>10. table[b] \in printed
    BY <2>4, <2>9 DEF FinderInv, DumpInv
  <2>11. f \in ToSet(table[b]) /\ g \in ToSet(table[b])
    BY <2>8 DEF ToSet
  <2>. QED  BY <2>10, <2>11
<1>. QED  BY <1>1, FinderAlways, PTL

\* The exit status of the search is 1 only if the starting directory could not be read
\* to its end; with 0 each of its files is entered or left out for its checksum.
THEOREM StatusTells == Spec => []ResultTells
<1>1. FinderInv => ResultTells
  <2>. SUFFICES ASSUME FinderInv, printed # None PROVE ResultTells
    BY DEF ResultTells
  <2>1. stack = <<>> /\ current = None /\ None \notin Files
    BY FinderAssumption DEF FinderInv, DumpInv, FinderAssumption
  <2>2. ASSUME NEW f \in Entries(Root) \ gone, Plain(f), result # 1
        PROVE  f \in Recorded \/ Skipped(f)
    <3>1. Met(f) \/ Skipped(f)
      BY <2>1, <2>2 DEF FinderInv, StatusInv
    <3>2. Entered(f) => f \in Recorded
      BY DEF Entered, Recorded, ToSet
    <3>3. f # current
      BY <2>1 DEF Entries
    <3>. QED  BY <3>1, <3>2, <3>3 DEF Met
  <2>. QED  BY <2>1, <2>2 DEF ResultTells, FinderInv, StatusInv
<1>. QED  BY <1>1, FinderAlways, PTL

-----------------------------------------------------------------------------
(* Types. *)

\* What a hash function computes is a number, whatever the characters.
LEMMA MixIsNumber ==
  ASSUME NEW value \in Int, NEW chars \in Seq(Int), NEW add \in Int
  PROVE  Mix(value, chars, add) \in Int
<1>. DEFINE limit == Len(chars)
            Round(f, n) == IF n = 0 THEN value ELSE (f[n - 1] * 37 + chars[n] + add) % ULong
            Defined == {n \in Nat : \E f : f = [m \in 0..n |-> Round(f, m)]}
            mixed == CHOOSE f : f = [n \in 0..limit |-> Round(f, n)]
            Numbers == {n \in Nat : n <= limit => mixed[n] \in Int}
<1>1. limit \in Nat /\ \A n \in 1..limit : chars[n] \in Int
  BY LenProperties, ElementOfSeq
<1>2. 0 \in Defined
  <2>1. [m \in 0..0 |-> value] = [m \in 0..0 |-> Round([k \in 0..0 |-> value], m)]
    OBVIOUS
  <2>. QED  BY <2>1
<1>3. ASSUME NEW n \in Defined PROVE n + 1 \in Defined
  <2>1. PICK f : f = [m \in 0..n |-> Round(f, m)]
    OBVIOUS
  <2>. DEFINE g == [m \in 0..n + 1 |-> IF m = n + 1 THEN Round(f, m) ELSE f[m]]
  <2>2. ASSUME NEW m \in 0..n + 1 PROVE g[m] = Round(g, m)
    <3>1. CASE m = 0
      <4>1. f[0] = value
        BY <2>1
      <4>. QED  BY <3>1, <4>1
    <3>2. CASE m # 0
      <4>1. m - 1 \in 0..n /\ g[m - 1] = f[m - 1]
        BY <3>2
      <4>2. g[m] = Round(f, m)
        BY <2>1, <3>2
      <4>. QED  BY <3>2, <4>1, <4>2
    <3>. QED  BY <3>1, <3>2
  <2>3. g = [m \in 0..n + 1 |-> Round(g, m)]
    BY <2>2
  <2>. HIDE DEF g, Round
  <2>. QED  BY <2>3
<1>4. limit \in Defined
  BY <1>1, <1>2, <1>3, CountingUp
<1>5. mixed = [n \in 0..limit |-> Round(mixed, n)]
  BY <1>4
<1>6. Mix(value, chars, add) = mixed[limit]
  BY DEF Mix
<1>. HIDE DEF mixed
<1>7. 0 \in Numbers
  <2>1. 0 \in 0..limit
    BY <1>1
  <2>2. mixed[0] = Round(mixed, 0)
    BY <1>5, <2>1
  <2>. QED  BY <2>2
<1>8. ASSUME NEW n \in Numbers PROVE n + 1 \in Numbers
  <2>. SUFFICES ASSUME n + 1 <= limit PROVE mixed[n + 1] \in Int
    OBVIOUS
  <2>1. n + 1 \in 0..limit /\ n + 1 # 0 /\ n + 1 \in 1..limit /\ n <= limit
    BY <1>1
  <2>2. mixed[n + 1] = Round(mixed, n + 1)
    BY <1>5, <2>1
  <2>3. mixed[n + 1] = (mixed[n] * 37 + chars[n + 1] + add) % ULong
    BY <2>1, <2>2
  <2>4. mixed[n] \in Int /\ chars[n + 1] \in Int
    BY <1>1, <2>1
  <2>5. mixed[n] * 37 + chars[n + 1] + add \in Int
    BY <2>4
  <2>. QED  BY <2>3, <2>5, ContentAssumption DEF ContentAssumption
<1>9. limit \in Numbers
  BY <1>1, <1>7, <1>8, CountingUp
<1>. QED  BY <1>1, <1>6, <1>9

\* Every file has its bucket in the table.
LEMMA BucketInTable ==
  ASSUME NEW f \in Files
  PROVE  Bucket(f) \in 0..TABLE_SIZE - 1
<1>1. Found(f) \in Files
  BY FinderAssumption DEF FinderAssumption, Found
<1>2. /\ NameOf[f] \in Seq(0..255) /\ MinuteOf[f] \in Seq(0..255)
      /\ ChecksumOf[Found(f)] \in Seq(0..255) /\ SizeOf[f] \in Int
  BY <1>1, ContentAssumption DEF ContentAssumption
<1>3. ASSUME NEW s \in Seq(0..255)
      PROVE  s \in Seq(Int) /\ Chars(s) \in Seq(Int)
  <2>0. s \in Seq(Int)
    <3>1. 0..255 \subseteq Int
      OBVIOUS
    <3>. QED  BY <3>1, SeqMonotonic
  <2>1. DOMAIN s = 1..Len(s) /\ Len(s) \in Nat /\ \A i \in 1..Len(s) : s[i] \in Int
    BY <2>0, LenProperties, ElementOfSeq
  <2>2. ASSUME NEW i \in 1..Len(s) PROVE Char(s[i]) \in Int
    BY <2>1 DEF Char
  <2>3. Chars(s) \in Seq(Int)
    BY <2>1, <2>2 DEF Chars
  <2>. QED  BY <2>0, <2>3
<1>. 0 \in Int
  OBVIOUS
<1>4. hash(f) \in Int
  BY <1>2, <1>3, MixIsNumber, Zenon DEF hash
<1>5. hash_date(f) \in Int
  BY <1>2, <1>3, <1>4, MixIsNumber DEF hash_date
<1>6. hash_md5(f) \in Int
  BY <1>2, <1>3, MixIsNumber DEF hash_md5
<1>7. hash_md5_date(f) \in Int
  BY <1>2, <1>3, MixIsNumber, Zenon DEF hash_md5_date
<1>8. ASSUME NEW h \in Int PROVE h % TABLE_SIZE \in 0..TABLE_SIZE - 1
  BY ContentAssumption DEF ContentAssumption
<1>. QED  BY <1>4, <1>5, <1>6, <1>7, <1>8 DEF Bucket

\* No chain is empty or outside the table.
TableInv ==
  /\ DOMAIN table \subseteq 0..TABLE_SIZE - 1
  /\ \A b \in DOMAIN table : table[b] # <<>>

LEMMA TableInductive == FinderInv /\ TableInv /\ [Next]_vars => TableInv'
<1>. SUFFICES ASSUME FinderInv, TableInv, [Next]_vars PROVE TableInv'
  OBVIOUS
<1>1. CASE UNCHANGED table
  BY <1>1 DEF TableInv
<1>2. CASE EnterFile /\ ~Skipped(current)
  <2>. DEFINE u == Chained(Bucket(current), current)
  <2>1. current \in Files /\ table' = u
    BY <1>2 DEF EnterFile, FinderInv, WalkInv, StackType
  <2>2. /\ DOMAIN u = DOMAIN table \cup {Bucket(current)}
        /\ \A c \in DOMAIN table : c # Bucket(current) => u[c] = table[c]
    BY <2>1, ChainGrows DEF FinderInv, WalkInv
  <2>5. \E i \in DOMAIN u[Bucket(current)] : u[Bucket(current)][i] = current
    BY <2>1, ChainKeeps DEF FinderInv, WalkInv
  <2>. HIDE DEF u
  <2>3. Bucket(current) \in 0..TABLE_SIZE - 1
    BY <2>1, BucketInTable
  <2>4. u[Bucket(current)] # <<>>
    BY <2>5
  <2>. QED  BY <2>1, <2>2, <2>3, <2>4 DEF TableInv
<1>3. CASE EnterFile /\ Skipped(current)
  BY <1>1, <1>3 DEF EnterFile
<1>. QED
  BY <1>1, <1>2, <1>3
  DEF Next, Step, OpenDirectory, CloseDirectory, Dump, Visit, MissesFile, Vanish, vars

\* The search stays within its types: every chain lies in the table, whatever bytes are
\* hashed, and nothing but lists of files is printed.
THEOREM FinderTypeCorrect == Spec => []TypeOK
<1>1. Init => TableInv
  BY DEF Init, TableInv
<1>2. FinderInv /\ TableInv => TypeOK
  BY DEF FinderInv, WalkInv, StackType, ChainInv, DumpInv, TableInv, TypeOK
<1>. QED  BY <1>1, <1>2, TableInductive, FinderAlways, PTL DEF Spec

-----------------------------------------------------------------------------
(* The search is finite. *)

ToCome == {f \in Files : Pending(f)}
One(p) == IF p THEN 1 ELSE 0
WalkLeft == 2 * Len(stack) + One(stack # <<>> /\ ~Top.open)

\* A bound on the steps still to come: a file to come is read and entered, or
\* becomes a directory that is opened and left.
StepsLeft ==
  4 * Cardinality(ToCome) + WalkLeft + One(current # None) + One(printed = None)
    + Cardinality(Vanishing \ gone)

LEMMA CountingSets ==
  /\ IsFiniteSet(Files)
  /\ \A S \in SUBSET Files : IsFiniteSet(S) /\ Cardinality(S) \in Nat
  /\ \A S, T \in SUBSET Files : S \subseteq T => Cardinality(S) <= Cardinality(T)
  /\ \A S, T \in SUBSET Files : \A x \in T \ S : S \subseteq T => Cardinality(S) <= Cardinality(T) - 1
<1>1. IsFiniteSet(Files)
  BY FinderAssumption DEF FinderAssumption
<1>2. ASSUME NEW S \in SUBSET Files PROVE IsFiniteSet(S) /\ Cardinality(S) \in Nat
  BY <1>1, FS_Subset, FS_CardinalityType
<1>3. ASSUME NEW S \in SUBSET Files, NEW T \in SUBSET Files, S \subseteq T
      PROVE  Cardinality(S) <= Cardinality(T)
  BY <1>2, <1>3, FS_Subset
<1>4. ASSUME NEW S \in SUBSET Files, NEW T \in SUBSET Files, NEW x \in T \ S, S \subseteq T
      PROVE  Cardinality(S) <= Cardinality(T) - 1
  <2>1. T \ {x} \in SUBSET Files /\ S \subseteq T \ {x}
    BY <1>4
  <2>2. Cardinality(T \ {x}) = Cardinality(T) - 1
    BY <1>2, <1>4, FS_RemoveElement
  <2>. QED  BY <1>3, <2>1, <2>2
<1>. QED  BY <1>1, <1>2, <1>3, <1>4

LeftRanges ==
  /\ ToCome \in SUBSET Files /\ Cardinality(ToCome) \in Nat
  /\ Cardinality(Vanishing \ gone) \in Nat
  /\ Len(stack) \in Nat /\ WalkLeft \in Nat
  /\ 2 * Len(stack) <= WalkLeft /\ WalkLeft <= 2 * Len(stack) + 1
  /\ One(current # None) \in 0..1 /\ One(printed = None) \in 0..1

\* The numbers the bound is made of.
LEMMA LeftTypes == FinderInv => LeftRanges
<1>. SUFFICES ASSUME FinderInv PROVE LeftRanges
  OBVIOUS
<1>1. ToCome \in SUBSET Files
  BY DEF ToCome
<1>2. Vanishing \ gone \in SUBSET Files
  BY VanishingAreFiles
<1>3. Cardinality(ToCome) \in Nat /\ Cardinality(Vanishing \ gone) \in Nat
  BY <1>1, <1>2, CountingSets
<1>4. Len(stack) \in Nat
  BY DEF FinderInv, WalkInv, StackType
<1>5. One(stack # <<>> /\ ~Top.open) \in 0..1 /\ One(current # None) \in 0..1 /\ One(printed = None) \in 0..1
  BY DEF One
<1>6. /\ WalkLeft \in Nat /\ 2 * Len(stack) <= WalkLeft /\ WalkLeft <= 2 * Len(stack) + 1
  BY <1>4, <1>5 DEF WalkLeft
<1>. QED  BY <1>1, <1>3, <1>4, <1>5, <1>6 DEF LeftRanges

LEMMA LeftTypesAfter == FinderInv' => LeftRanges'
BY LeftTypes, PTL

\* What has to shrink, and by how much, for the bound to shrink.
LEMMA Shortened ==
  ASSUME LeftRanges, LeftRanges', UNCHANGED <<gone, printed>>,
         \/ /\ Cardinality(ToCome') <= Cardinality(ToCome)
            /\ WalkLeft' + One(current # None)' < WalkLeft + One(current # None)
         \/ /\ Cardinality(ToCome') <= Cardinality(ToCome) - 1
            /\ WalkLeft' + One(current # None)' <= WalkLeft + One(current # None) + 3
  PROVE  StepsLeft' < StepsLeft
<1>1. /\ Cardinality(ToCome) \in Nat /\ Cardinality(ToCome') \in Nat
      /\ WalkLeft \in Nat /\ WalkLeft' \in Nat
      /\ One(current # None) \in 0..1 /\ One(current # None)' \in 0..1
      /\ One(printed = None) \in 0..1 /\ Cardinality(Vanishing \ gone) \in Nat
  BY DEF LeftRanges
<1>2. One(printed = None)' = One(printed = None) /\ Cardinality(Vanishing \ gone)' = Cardinality(Vanishing \ gone)
  OBVIOUS
<1>. QED  BY <1>1, <1>2 DEF StepsLeft

\* A step that only takes from the stack brings no file back.
LEMMA FewerToCome ==
  ASSUME Len(stack) \in Nat, Len(stack') \in Nat, Len(stack') <= Len(stack),
         \A k \in 1..Len(stack') : stack'[k].rest \subseteq stack[k].rest
  PROVE  ToCome' \subseteq ToCome
<1>1. \A k \in 1..Len(stack') : k \in 1..Len(stack)
  OBVIOUS
<1>. QED  BY <1>1 DEF ToCome, Pending

\* A call that returns leaves its directory.
LEMMA ReturnShortens ==
  ASSUME FinderInv, FinderInv', stack # <<>>, NEW r, Return(r),
         UNCHANGED <<current, gone, printed>>
  PROVE  StepsLeft' < StepsLeft
<1>1. /\ Len(stack') = Len(stack) - 1
      /\ \A k \in 1..Len(stack') : stack'[k] = stack[k]
  <2>1. stack \in Seq(Frames) /\ stack' = Front(stack)
    BY DEF FinderInv, WalkInv, StackType, Return
  <2>2. /\ Len(Front(stack)) = Len(stack) - 1
        /\ \A k \in 1..Len(stack) - 1 : Front(stack)[k] = stack[k]
    BY <2>1, FrontOfSeq
  <2>. QED  BY <2>1, <2>2
<1>2. ToCome' \subseteq ToCome
  BY <1>1, LeftTypes, FewerToCome
<1>3. LeftRanges /\ LeftRanges' /\ Cardinality(ToCome') <= Cardinality(ToCome)
  BY <1>2, CountingSets, LeftTypes, LeftTypesAfter DEF LeftRanges
<1>4. WalkLeft' < WalkLeft
  BY <1>1, <1>3 DEF LeftRanges
<1>5. WalkLeft' + One(current # None)' < WalkLeft + One(current # None)
  BY <1>3, <1>4 DEF LeftRanges
<1>. QED  BY <1>3, <1>5, Shortened

\* Its directory is entered: opened or given up.
LEMMA OpenShortens == ASSUME FinderInv, FinderInv', OpenDirectory PROVE StepsLeft' < StepsLeft
<1>1. /\ stack # <<>> /\ ~Top.open /\ UNCHANGED <<gone, current, printed>>
      /\ LeftRanges /\ LeftRanges'
  BY LeftTypes, LeftTypesAfter DEF OpenDirectory, Walking
<1>2. CASE Return(1)
  BY <1>1, <1>2, ReturnShortens
<1>3. CASE stack' = [stack EXCEPT ![Len(stack)].open = TRUE]
  <2>1. /\ Len(stack') = Len(stack)
        /\ \A k \in 1..Len(stack) : stack'[k].rest = stack[k].rest
    BY <1>1, <1>3, OpenKeeps DEF FinderInv, WalkInv
  <2>2. Cardinality(ToCome') <= Cardinality(ToCome)
    BY <1>1, <2>1, FewerToCome, CountingSets DEF LeftRanges
  <2>3. Len(stack) \in 1..Len(stack) /\ stack \in Seq(Frames) /\ stack[Len(stack)] \in Frames
    BY <1>1, StackLength DEF FinderInv, WalkInv, StackType
  <2>4. Top'.open
    BY <1>3, <2>1, <2>3 DEF Top, Last, Frames
  <2>5. One(stack # <<>> /\ ~Top.open) = 1 /\ One(stack # <<>> /\ ~Top.open)' = 0
    BY <1>1, <2>4 DEF One
  <2>6. WalkLeft' < WalkLeft
    BY <1>1, <2>1, <2>5 DEF WalkLeft, LeftRanges
  <2>7. WalkLeft' + One(current # None)' < WalkLeft + One(current # None)
    BY <1>1, <2>6 DEF LeftRanges
  <2>. QED  BY <1>1, <2>2, <2>7, Shortened
<1>. QED  BY <1>2, <1>3 DEF OpenDirectory

\* The file is no longer to come, whatever comes with it.
LEMMA TakenIsPast ==
  ASSUME FinderInv, NEW f \in Files, stack # <<>>, f \in Top.rest,
         NEW t, t = Without(f),
         \/ stack' = t
         \/ LooksLikeDirectory(f) /\ stack' = Append(t, Frame(f))
  PROVE  /\ ToCome' \subseteq ToCome /\ f \in ToCome \ ToCome'
         /\ Len(stack') <= Len(stack) + IF stack' = t THEN 0 ELSE 1
<1>. DEFINE n == Len(stack)
<1>1. /\ StackType /\ n \in Nat \ {0} /\ n \in 1..n /\ f \in stack[n].rest
  BY StackLength DEF FinderInv, WalkInv, Top, Last
<1>2. /\ t \in Seq(Frames) /\ Len(t) = n
      /\ \A k \in 1..n : t[k].rest \subseteq stack[k].rest /\ (k = n => f \notin t[k].rest)
  BY <1>1, RestShrinks
<1>3. \A k \in 1..n : \A x \in t[k].rest : x \in Files /\ x # f /\ x \notin Above[f] /\ x \in stack[k].rest
  BY <1>1, <1>2, TakenApart DEF FinderInv
<1>4. f \in ToCome
  BY <1>1 DEF ToCome, Pending
<1>5. CASE stack' = t
  BY <1>2, <1>3, <1>4, <1>5 DEF ToCome, Pending
<1>6. CASE LooksLikeDirectory(f) /\ stack' = Append(t, Frame(f))
  <2>1. Frame(f).rest = {x \in Files : Parent[x] = f} /\ Frame(f) \in Frames
    BY <1>6, DirectoryIsFound DEF Frame, Frames
  <2>2. /\ Len(stack') = n + 1 /\ stack'[n + 1] = Frame(f)
        /\ \A k \in 1..n : stack'[k] = t[k]
    BY <1>1, <1>2, <1>6, <2>1, AppendProperties
  <2>3. \A x \in stack'[n + 1].rest :
          x \in Files /\ f \in Above[x] /\ x # f /\ x \notin Above[f]
    BY <2>1, <2>2, Child, FinderAssumption DEF FinderAssumption
  <2>4. \A k \in 1..n + 1 : k \in 1..n \/ k = n + 1
    BY <1>1
  <2>5. ASSUME NEW g \in ToCome' PROVE g \in ToCome
    <3>1. PICK k \in 1..n + 1 : \E x \in stack'[k].rest : x = g \/ x \in Above[g]
      BY <2>2, <2>5 DEF ToCome, Pending
    <3>2. g \in Files
      BY <2>5 DEF ToCome
    <3>3. CASE k \in 1..n
      BY <1>3, <2>2, <3>1, <3>2, <3>3 DEF ToCome, Pending
    <3>4. CASE k = n + 1
      <4>1. f \in Above[g]
        BY <2>3, <3>1, <3>2, <3>4, Transitive
      <4>. QED  BY <1>1, <3>2, <4>1 DEF ToCome, Pending
    <3>. QED  BY <2>4, <3>3, <3>4
  <2>6. f \notin ToCome'
    <3>1. ASSUME NEW k \in 1..n + 1, NEW x \in stack'[k].rest PROVE x # f /\ x \notin Above[f]
      BY <1>3, <2>2, <2>3, <2>4
    <3>. QED  BY <2>2, <3>1 DEF ToCome, Pending
  <2>7. Len(stack') <= n + IF stack' = t THEN 0 ELSE 1
    BY <1>1, <1>2, <2>2
  <2>. QED  BY <1>4, <2>5, <2>6, <2>7
<1>. QED  BY <1>5, <1>6

\* Each file comes from readdir once: what it costs to read it, to enter it or to
\* walk it is more than made up for.
LEMMA TakenShortens ==
  ASSUME FinderInv, FinderInv', NEW f \in Files, stack # <<>>, f \in Top.rest,
         NEW t, t = Without(f), UNCHANGED <<gone, printed>>,
         \/ stack' = t
         \/ LooksLikeDirectory(f) /\ stack' = Append(t, Frame(f)) /\ current' = current
  PROVE  StepsLeft' < StepsLeft
<1>1. /\ ToCome' \subseteq ToCome /\ f \in ToCome \ ToCome'
      /\ Len(stack') <= Len(stack) + IF stack' = t THEN 0 ELSE 1
  BY TakenIsPast
<1>2. LeftRanges /\ LeftRanges'
  BY LeftTypes, LeftTypesAfter
<1>3. Cardinality(ToCome') <= Cardinality(ToCome) - 1
  BY <1>1, <1>2, CountingSets DEF LeftRanges
<1>4. CASE stack' = t
  <2>1. WalkLeft' <= WalkLeft + 1
    BY <1>1, <1>2, <1>4 DEF LeftRanges
  <2>2. WalkLeft' + One(current # None)' <= WalkLeft + One(current # None) + 3
    BY <1>2, <2>1 DEF LeftRanges
  <2>. QED  BY <1>2, <1>3, <2>2, Shortened
<1>5. CASE current' = current
  <2>1. WalkLeft' <= WalkLeft + 3
    BY <1>1, <1>2 DEF LeftRanges
  <2>2. WalkLeft' + One(current # None)' <= WalkLeft + One(current # None) + 3
    BY <1>2, <1>5, <2>1 DEF LeftRanges
  <2>. QED  BY <1>2, <1>3, <2>2, Shortened
<1>. QED  BY <1>4, <1>5

LEMMA NextShortens ==
  ASSUME None \notin SUBSET Seq(Files), FinderInv, FinderInv', Next
  PROVE  StepsLeft' < StepsLeft
<1>1. LeftRanges /\ LeftRanges'
  BY LeftTypes, LeftTypesAfter
<1>2. CASE OpenDirectory
  BY <1>2, OpenShortens
<1>3. CASE CloseDirectory
  BY <1>3, ReturnShortens DEF CloseDirectory, Walking
<1>4. CASE EnterFile
  <2>1. UNCHANGED <<gone, stack, printed>> /\ current # None /\ current' = None
    BY <1>4 DEF EnterFile
  <2>2. ToCome' = ToCome /\ WalkLeft' = WalkLeft
    BY <2>1 DEF ToCome, Pending, WalkLeft, Top
  <2>3. One(current # None) = 1 /\ One(current # None)' = 0
    BY <2>1 DEF One
  <2>. QED  BY <1>1, <2>1, <2>2, <2>3, Shortened DEF LeftRanges
<1>5. CASE Dump
  <2>1. UNCHANGED <<gone, stack, current>> /\ printed = None /\ printed' # None
    <3>1. printed' \subseteq Seq(Files)
      BY <1>5 DEF Dump, FinderInv, WalkInv, ChainInv
    <3>. QED  BY <1>5, <3>1 DEF Dump
  <2>2. ToCome' = ToCome /\ WalkLeft' = WalkLeft /\ One(current # None)' = One(current # None)
    BY <2>1 DEF ToCome, Pending, WalkLeft, Top
  <2>3. One(printed = None) = 1 /\ One(printed = None)' = 0
    BY <2>1 DEF One
  <2>. QED  BY <1>1, <2>1, <2>2, <2>3 DEF LeftRanges, StepsLeft
<1>6. ASSUME NEW f \in Files, Visit(f) PROVE StepsLeft' < StepsLeft
  <2>1. PICK t : t = Without(f)
    OBVIOUS
  <2>. QED  BY <1>6, <2>1, TakenShortens DEF Visit, Walking, Without
<1>7. ASSUME NEW f \in Files, MissesFile(f) PROVE StepsLeft' < StepsLeft
  <2>1. PICK t : t = Without(f)
    OBVIOUS
  <2>2. CASE Return(1)
    BY <1>7, <2>2, ReturnShortens DEF MissesFile, Walking
  <2>3. CASE stack' = t
    BY <1>7, <2>1, <2>3, TakenShortens DEF MissesFile, Walking
  <2>. QED  BY <1>7, <2>1, <2>2, <2>3 DEF MissesFile, Without
<1>8. ASSUME NEW f \in Files, Vanish(f) PROVE StepsLeft' < StepsLeft
  <2>1. UNCHANGED <<stack, current, printed>> /\ gone' = gone \cup {f} /\ f \in Vanishing \ gone
    BY <1>8 DEF Vanish
  <2>2. ToCome' = ToCome /\ WalkLeft' = WalkLeft /\ One(current # None)' = One(current # None)
        /\ One(printed = None)' = One(printed = None)
    BY <2>1 DEF ToCome, Pending, WalkLeft, Top
  <2>3. /\ Vanishing \ gone \in SUBSET Files /\ Vanishing \ gone' \in SUBSET Files
        /\ Vanishing \ gone' \subseteq Vanishing \ gone /\ f \in (Vanishing \ gone) \ (Vanishing \ gone')
    BY <2>1, VanishingAreFiles
  <2>4. Cardinality(Vanishing \ gone') <= Cardinality(Vanishing \ gone) - 1
    BY <2>3, CountingSets
  <2>. QED  BY <1>1, <2>2, <2>4 DEF LeftRanges, StepsLeft
<1>. QED  BY <1>2, <1>3, <1>4, <1>5, <1>6, <1>7, <1>8 DEF Next, Step

\* Every step of the search, and every file that vanishes meanwhile, brings the
\* end nearer: no execution has more than four steps for each file below the
\* starting directory, one for each that may vanish, and four more, whatever the
\* links, the order of readdir and the failures (processDirectories, main).  The
\* hypothesis is about the model only: None is no set of chains.
THEOREM SearchIsFinite ==
  ASSUME None \notin SUBSET Seq(Files)
  PROVE  Spec => /\ [](StepsLeft \in 0..4 * Cardinality(Files) + Cardinality(Vanishing) + 4)
                 /\ [][StepsLeft' < StepsLeft]_vars
<1>. DEFINE limit == 4 * Cardinality(Files) + Cardinality(Vanishing) + 4
<1>1. Init => StepsLeft <= limit
  <2>. SUFFICES ASSUME Init PROVE StepsLeft <= limit
    OBVIOUS
  <2>1. FinderInv /\ LeftRanges
    BY FinderStarts, LeftTypes
  <2>2. Len(stack) = 1 /\ current = None /\ gone = {}
    BY DEF Init
  <2>3. One(current # None) = 0 /\ Vanishing \ gone = Vanishing
    BY <2>2 DEF One
  <2>4. Cardinality(ToCome) <= Cardinality(Files) /\ Cardinality(Files) \in Nat
    BY <2>1, CountingSets DEF LeftRanges
  <2>. QED  BY <2>1, <2>2, <2>3, <2>4 DEF LeftRanges, StepsLeft
<1>2. FinderInv => StepsLeft \in Nat
  BY LeftTypes DEF LeftRanges, StepsLeft
<1>3. FinderInv' => StepsLeft' \in Nat
  BY LeftTypesAfter DEF LeftRanges, StepsLeft
<1>4. FinderInv /\ FinderInv' /\ [Next]_vars => [StepsLeft' < StepsLeft]_vars
  BY NextShortens
<1>5. UNCHANGED vars => StepsLeft' = StepsLeft
  BY DEF vars, flags, StepsLeft, ToCome, Pending, WalkLeft, Top
<1>6. limit \in Nat
  <2>1. Vanishing \in SUBSET Files
    BY VanishingAreFiles
  <2>. QED  BY <2>1, CountingSets
<1>. HIDE DEF limit
<1>7. FinderInv /\ FinderInv' /\ [Next]_vars /\ StepsLeft <= limit => (StepsLeft <= limit)'
  <2>. SUFFICES ASSUME FinderInv, FinderInv', [Next]_vars, StepsLeft <= limit
                PROVE  StepsLeft' <= limit
    BY DEF limit
  <2>1. CASE StepsLeft' < StepsLeft
    BY <1>2, <1>3, <1>6, <2>1
  <2>2. CASE UNCHANGED vars
    BY <1>5, <2>2
  <2>. QED  BY <1>4, <2>1, <2>2
<1>8. FinderInv /\ StepsLeft <= limit => StepsLeft \in 0..limit
  BY <1>2, <1>6
<1>9. Spec => [](StepsLeft <= limit)
  BY <1>1, <1>7, FinderAlways, PTL DEF Spec
<1>10. Spec => [][StepsLeft' < StepsLeft]_vars
  BY <1>4, FinderAlways, PTL DEF Spec
<1>11. Spec => [](StepsLeft \in 0..limit)
  BY <1>8, <1>9, FinderAlways, PTL
<1>. QED  BY <1>10, <1>11 DEF limit
=============================================================================
