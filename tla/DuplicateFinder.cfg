\* Four regular files, three directories, two links, a socket, a named pipe and an
\* endless device.
SPECIFICATION FairSpec
CONSTANTS
  a = a
  b = b
  copy = copy
  dir = dir
  sub = sub
  link = link
  alias = alias
  locked = locked
  hidden = hidden
  sock = sock
  pipe = pipe
  zero = zero
  Root = Root
  None = None
  Files <- Tree
  Parent <- Places
  Above <- Ways
  TypeOf <- Kinds
  Target <- Targets
  NameOf <- Names
  SizeOf <- Sizes
  MinuteOf <- Minutes
  ChecksumOf <- Checksums
  Unreadable = {b, locked}
  Endless = {zero}
  Vanishing = {link, sub, pipe, zero}
  TABLE_SIZE = 10000
  ULong = 1048576
INVARIANTS
  TypeOK
  EachFileOnce
  DuplicatesFound
  ResultTells
PROPERTIES
  SearchEnds
\* The search ends.
CHECK_DEADLOCK FALSE
