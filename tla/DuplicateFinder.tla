-------------------------- MODULE DuplicateFinder --------------------------
(***************************************************************************)
(* LSP_MD3: a walk through the directories below the current one puts      *)
(* every file into a hash table of chains, by name and size, by the date   *)
(* too (-d), by the MD5 checksum (-m) or by all of them, and then prints   *)
(* the chains of more than one entry as duplicates.                        *)
(*                                                                         *)
(* The file system goes on meanwhile: files vanish between readdir, lstat, *)
(* fopen and the second lstat of ht_pair, directories once they are empty; *)
(* nothing is renamed or made.  A name, a date and a checksum are short    *)
(* sequences of character codes; a date is kept to the minute by strftime, *)
(* so MinuteOf is all of a modification time the program sees.             *)
(***************************************************************************)
EXTENDS Integers, FiniteSets, Sequences, SequencesExt

CONSTANTS
  Files,        \* everything below the starting directory
  Root,         \* "."
  Parent,       \* the directory each file is in
  Above,        \* the directories on the way to it from Root, which is left out
  TypeOf,       \* the file type in st_mode
  Target,       \* what a link leads to in the end, itself for any other file
  NameOf, SizeOf, MinuteOf, ChecksumOf,
  Unreadable,   \* the files fopen, the directories opendir fails for
  Endless,      \* the character devices fread never comes to the end of
  Vanishing,    \* the files somebody may delete
  TABLE_SIZE,
  ULong,        \* the first value unsigned long does not have
  None

Types == {"regular", "directory", "link", "socket", "block", "character", "fifo"}
ASSUME FinderAssumption ==
  /\ IsFiniteSet(Files) /\ Root \notin Files /\ None \notin Files \cup {Root}
  /\ Parent \in [Files -> Files \cup {Root}] /\ TypeOf \in [Files -> Types]
  /\ Above \in [Files -> SUBSET Files]
  /\ \A f \in Files :
       /\ Above[f] = IF Parent[f] = Root THEN {} ELSE {Parent[f]} \cup Above[Parent[f]]
       /\ f \notin Above[f] /\ \A d \in Above[f] : Above[d] \subseteq Above[f]
       /\ Parent[f] = Root \/ TypeOf[Parent[f]] = "directory"
  /\ Target \in [Files -> Files]
  /\ \A f \in Files : TypeOf[f] = "link" \/ Target[f] = f
  /\ Endless \subseteq {f \in Files : TypeOf[f] = "character"}
  /\ Vanishing \subseteq Files

ASSUME ContentAssumption ==
  /\ NameOf \in [Files -> Seq(0..255)] /\ SizeOf \in [Files -> Nat]
  /\ MinuteOf \in [Files -> Seq(0..255)] /\ ChecksumOf \in [Files -> Seq(0..255)]
  /\ TABLE_SIZE \in Nat \ {0} /\ ULong \in Nat \ {0}

VARIABLES
  md5Flag, dateFlag,
  gone,       \* the files deleted so far
  stack,      \* the directories being read, the innermost last
  current,    \* the file that has been read and is to be entered
  table,      \* the chains that are not empty, by bucket
  result,     \* what processDirectories(".") returned
  printed     \* the chains printed, None before ht_dump

flags == <<md5Flag, dateFlag>>
vars == <<flags, gone, stack, current, table, result, printed>>

\* What opendir and fopen find: they follow links, lstat does not.
Found(f) == IF f = Root THEN Root ELSE Target[f]

Entries(d) == {f \in Files : Parent[f] = Found(d)}
Frames == [dir : Files \cup {Root}, rest : SUBSET Files, open : BOOLEAN]
Frame(d) == [dir |-> d, rest |-> Entries(d), open |-> FALSE]
Recorded == UNION {ToSet(table[b]) : b \in DOMAIN table}

TypeOK ==
  /\ md5Flag \in BOOLEAN /\ dateFlag \in BOOLEAN /\ gone \subseteq Vanishing
  /\ stack \in Seq(Frames)
  /\ current \in Files \cup {None}
  /\ DOMAIN table \subseteq 0..TABLE_SIZE - 1
  /\ \A b \in DOMAIN table : table[b] \in Seq(Files) /\ table[b] # <<>>
  /\ result \in 0..1
  /\ printed = None \/ printed \subseteq Seq(Files)

Init ==
  /\ md5Flag \in BOOLEAN /\ dateFlag \in BOOLEAN /\ gone = {}
  /\ stack = <<Frame(Root)>> /\ current = None
  /\ table = [b \in {} |-> <<>>] /\ result = 0 /\ printed = None

-----------------------------------------------------------------------------
(* The buckets. *)

\* The rounds of a hash function over some characters.
Mix(value, chars, add) ==
  LET mixed[i \in 0..Len(chars)] ==
        IF i = 0 THEN value ELSE (mixed[i - 1] * 37 + chars[i] + add) % ULong
  IN  mixed[Len(chars)]

\* A byte as a char, which is how names and dates are read, and the
\* checksum when the date counts too.
Char(c) == IF c > 127 THEN c - 256 ELSE c
Chars(bytes) == [i \in DOMAIN bytes |-> Char(bytes[i])]

hash(f) == Mix(0, Chars(NameOf[f]), SizeOf[f])
hash_date(f) == Mix(hash(f), Chars(MinuteOf[f]), SizeOf[f])
hash_md5(f) == Mix(0, ChecksumOf[Found(f)], 0)
hash_md5_date(f) ==
  LET md5 == Mix(0, Chars(ChecksumOf[Found(f)]), 0)
      name == Mix(md5, Chars(NameOf[f]), SizeOf[f])
  IN Mix(name, Chars(MinuteOf[f]), SizeOf[f])

BucketUnreduced(f) == IF md5Flag THEN hash_md5_date(f) ELSE hash_date(f) % TABLE_SIZE

Bucket(f) ==
  (CASE md5Flag /\ dateFlag -> hash_md5_date(f)
     [] md5Flag /\ ~dateFlag -> hash_md5(f)
     [] ~md5Flag /\ dateFlag -> hash_date(f)
     [] OTHER -> hash(f)) % TABLE_SIZE

ChainedOver(b, f) ==
  [c \in DOMAIN table \cup {b} |-> IF c = b THEN <<f>> ELSE table[c]]

\* The end of the chain, behind the last entry.
Chained(b, f) ==
  IF b \in DOMAIN table
  THEN [table EXCEPT ![b] = Append(@, f)]
  ELSE [c \in DOMAIN table \cup {b} |-> IF c = b THEN <<f>> ELSE table[c]]

-----------------------------------------------------------------------------
(* processDirectories. *)

Walking == stack # <<>> /\ current = None
Top == Last(stack)

ReturnUp(r) ==
  /\ stack' = Front(stack) /\ result' = IF r = 1 THEN 1 ELSE result

\* The call for the innermost directory returns r; only main looks at it.
Return(r) ==
  /\ stack' = Front(stack)
  /\ result' = IF Len(stack) = 1 THEN r ELSE result

\* What is under a path taken for a directory.
Openable(d) ==
  /\ {d, Found(d)} \cap (Unreadable \cup gone) = {}
  /\ d = Root \/ TypeOf[Found(d)] = "directory"

OpenDirectory ==
  /\ Walking /\ ~Top.open
  /\ IF Openable(Top.dir)
     THEN stack' = [stack EXCEPT ![Len(stack)].open = TRUE] /\ UNCHANGED result
     ELSE Return(1)
  /\ UNCHANGED <<flags, gone, current, table, printed>>

LeadsToDirectory(f) == TypeOf[Found(f)] \in {"directory", "socket", "block"}

\* st_mode & __S_IFDIR: sockets and block devices have that bit as well.
LooksLikeDirectory(f) == TypeOf[f] \in {"directory", "socket", "block"}

\* readdir returns the files in any order; a directory is walked at once.
Visit(f) ==
  /\ Walking /\ Top.open /\ f \in Top.rest \ gone
  /\ LET rest == [stack EXCEPT ![Len(stack)].rest = @ \ {f}] IN
     IF LooksLikeDirectory(f)
     THEN stack' = Append(rest, Frame(f)) /\ UNCHANGED current
     ELSE stack' = rest /\ current' = f
  /\ UNCHANGED <<flags, gone, table, result, printed>>

\* A file that is gone may still come from readdir, and then the whole
\* directory is given up.
MissesFile(f) ==
  /\ Walking /\ Top.open /\ f \in Top.rest \cap gone
  /\ \/ Return(1)
     \/ stack' = [stack EXCEPT ![Len(stack)].rest = @ \ {f}] /\ UNCHANGED result
  /\ UNCHANGED <<flags, gone, current, table, printed>>

CloseDirectory ==
  /\ Walking /\ Top.open /\ Top.rest = {} /\ Return(0)
  /\ UNCHANGED <<flags, gone, current, table, printed>>

-----------------------------------------------------------------------------
(* ht_set and its variants, and ht_dump. *)

\* fopen follows links and fails.
Unopenable(f) == {f, Found(f)} \cap (Unreadable \cup gone) # {}

\* The walk may stop here for ever: fopen waits for a writer of a named pipe, or the loop
\* of fread has no end.  If the file is deleted first, it goes on without it.
Blocked ==
  /\ current # None /\ md5Flag /\ ~Unopenable(current)
  /\ TypeOf[Found(current)] = "fifo" \/ Found(current) \in Endless

\* With a checksum to take, a file that cannot be opened is left out.
Skipped(f) == md5Flag /\ Unopenable(f)

EnterFileRetry ==
  /\ current # None /\ ~Blocked /\ ~Skipped(current)
  /\ table' = Chained(Bucket(current), current) /\ current' = None
  /\ UNCHANGED <<flags, gone, stack, result, printed>>

EnterFile ==
  /\ current # None /\ ~Blocked
  /\ table' = IF Skipped(current) THEN table ELSE Chained(Bucket(current), current)
  /\ current' = None
  /\ UNCHANGED <<flags, gone, stack, result, printed>>

\* main: whatever came back from the walk.
Dump ==
  /\ stack = <<>> /\ current = None /\ printed = None
  /\ printed' = {table[b] : b \in {c \in DOMAIN table : Len(table[c]) > 1}}
  /\ UNCHANGED <<flags, gone, stack, current, table, result>>

\* A directory is deleted when nothing is left in it.
Vanish(f) ==
  /\ f \in Vanishing \ gone /\ {x \in Files : Parent[x] = f} \subseteq gone
  /\ printed = None /\ gone' = gone \cup {f}
  /\ UNCHANGED <<flags, stack, current, table, result, printed>>

Step ==
  \/ OpenDirectory \/ CloseDirectory \/ EnterFile \/ Dump
  \/ \E f \in Files : Visit(f) \/ MissesFile(f)

Next == Step \/ \E f \in Files : Vanish(f)

Spec == Init /\ [][Next]_vars

\* The process runs.
FairSpec == Spec /\ WF_vars(Step)

-----------------------------------------------------------------------------
(* What holds of the search. *)

Plain(f) == TypeOf[f] \notin {"directory", "socket", "block"}

\* Every entry is in the chain of its own bucket and in no other place:
\* no file is met twice, neither through a link nor through the recursion.
EachFileOnce ==
  \A b, c \in DOMAIN table : \A i \in DOMAIN table[b], j \in DOMAIN table[c] :
    table[b][i] = table[c][j] =>
      /\ b = c /\ i = j /\ Plain(table[b][i]) /\ b = Bucket(table[b][i])

\* Why a file is not entered: it, or one beside it or beside a directory
\* above it, has vanished, which ends the loop over that directory; or it or
\* a directory above it cannot be opened.
Missed(f) ==
  \/ \E g \in gone : Parent[g] \in {Parent[f]} \cup {Parent[d] : d \in Above[f]}
  \/ ({Root} \cup Above[f]) \cap Unreadable # {}
  \/ Skipped(f)

\* The help text's notion of a duplicate under the flags given.
Duplicate(f, g) ==
  /\ md5Flag => ChecksumOf[Found(f)] = ChecksumOf[Found(g)]
  /\ ~md5Flag \/ dateFlag => NameOf[f] = NameOf[g] /\ SizeOf[f] = SizeOf[g]
  /\ dateFlag => MinuteOf[f] = MinuteOf[g]

\* Any two duplicates in the tree are printed in one group, unless the walk
\* has missed one of them for a reason (processDirectories, ht_set and its
\* variants, ht_dump).
DuplicatesFound ==
  printed # None => \A f, g \in {x \in Files : Plain(x)} :
    f # g /\ Duplicate(f, g) =>
      \/ Missed(f) \/ Missed(g)
      \/ \E p \in printed : {f, g} \subseteq ToSet(p)

\* The exit status tells whether the starting directory was read to its end
\* and nothing of what went wrong in the directories below it.
ResultTells ==
  printed # None =>
    IF result = 1
    THEN Root \in Unreadable \/ \E g \in gone : Parent[g] = Root
    ELSE \A f \in Entries(Root) \ gone : Plain(f) => f \in Recorded \/ Skipped(f)

\* The walk comes to an end and prints, unless fopen waits in a named pipe or fread reads
\* from a device that has no end.
SearchEnds == <>(printed # None \/ Blocked)
=============================================================================
