---------------------------- MODULE RaceMessages ----------------------------
(***************************************************************************)
(* The messages of race_2 as they lie in the 512 byte buffer: for every    *)
(* message what its serialize function writes and what its deserialize     *)
(* function reads, field by field.  A field is a name and a width; its     *)
(* place is the sum of the widths before it, the pointer both sides move.  *)
(*                                                                         *)
(* The server writes most answers behind the type of the request, which    *)
(* stays in the buffer, and reads requests from behind the type.  So a     *)
(* layout always starts with the type, whoever put it there.               *)
(***************************************************************************)
EXTENDS Naturals, Sequences, SequencesExt

IntLen == 4     \* sizeof(int), copied byte by byte
FloatLen == 4   \* sizeof(float)
MSG_TYPE_LEN == 3
CLIENT_NAME_LEN == 30
CLIENT_PASS_LEN == 10
GAME_NAME_LEN == 20
FIELD_NAME_LEN == 20
MAX_BUFFER_SIZE == 512

\* Fields that repeat carry the number of their player or game in "of".
Fields(fs, w) == [i \in DOMAIN fs |-> [name |-> fs[i], of |-> 0, width |-> w]]
Ints(fs) == Fields(fs, IntLen)
Floats(fs) == Fields(fs, FloatLen)
Field(f, w) == Fields(<<f>>, w)
Type == Field("type", MSG_TYPE_LEN)
Repeat(l, n) == FlattenSeq([k \in 1..n |-> [i \in DOMAIN l |-> [l[i] EXCEPT !.of = k]]])

\* One struct Player_info.
PlayerInfo ==
  Ints(<<"playerId">>) \o Field("playerName", CLIENT_NAME_LEN)
    \o Floats(<<"x", "y", "angle", "speed", "acceleration">>) \o Ints(<<"laps">>)

FieldHeader ==
  Ints(<<"fieldId">>) \o Field("fieldName", FIELD_NAME_LEN) \o Ints(<<"width", "height">>)
Lines ==
  Floats(<<"startX", "startY", "startEndX", "startEndY", "mainX", "mainY", "mainEndX", "mainEndY">>)
    \o Ints(<<"extraLines">>)

-----------------------------------------------------------------------------
(* What the serialize functions write. *)

WriteCG ==
  Type \o Field("clientName", CLIENT_NAME_LEN) \o Field("gameName", GAME_NAME_LEN)
    \o Ints(<<"fieldId">>)
WriteCGResponse == Type \o Ints(<<"gameId", "playerId">>) \o Field("password", CLIENT_PASS_LEN)
WriteNF == Type
WriteNFResponse == Type \o Ints(<<"count">>)
WriteFI == Type \o Ints(<<"fieldId">>)
WriteFIResponse == Type \o FieldHeader \o Lines
WriteLI == Type
WriteLIResponse(n) == Type \o Ints(<<"count">>) \o Repeat(Ints(<<"gameId">>), n)
WriteGI == Type \o Ints(<<"gameId">>)
WriteGIResponse(n) ==
  Type \o Ints(<<"status">>) \o Field("gameName", GAME_NAME_LEN) \o Ints(<<"winner", "count">>)
    \o Repeat(PlayerInfo, n) \o FieldHeader
WriteJG == Type \o Ints(<<"gameId">>) \o Field("clientName", CLIENT_NAME_LEN)
WriteJGResponse == Type \o Ints(<<"playerId">>) \o Field("password", CLIENT_PASS_LEN)
WriteNOTIFY == Type \o Ints(<<"playerId">>) \o Field("playerName", CLIENT_NAME_LEN)
WriteSG == Type \o Ints(<<"gameId">>) \o Field("password", CLIENT_PASS_LEN)
WriteSGResponse(n) == Type \o Ints(<<"count">>) \o Repeat(PlayerInfo, n) \o FieldHeader \o Lines
WriteUP ==
  Type \o Ints(<<"playerId", "gameId">>) \o Field("password", CLIENT_PASS_LEN)
    \o Ints(<<"actionX", "actionY">>)
WriteUPResponse(n) == Type \o Ints(<<"gameId", "count">>) \o Repeat(PlayerInfo, n)

-----------------------------------------------------------------------------
(* What the deserialize functions read; n is the count they have just read. *)

ReadCG ==
  Type \o Field("clientName", CLIENT_NAME_LEN) \o Field("gameName", GAME_NAME_LEN)
    \o Ints(<<"fieldId">>)
ReadCGResponseSwapped == Type \o Field("password", CLIENT_PASS_LEN) \o Ints(<<"gameId", "playerId">>)
ReadCGResponse == Type \o Ints(<<"gameId", "playerId">>) \o Field("password", CLIENT_PASS_LEN)
ReadNFResponse == Type \o Ints(<<"count">>)
ReadFI == Type \o Ints(<<"fieldId">>)
ReadFIResponse == Type \o FieldHeader \o Lines
ReadLIResponse(n) == Type \o Ints(<<"count">>) \o Repeat(Ints(<<"gameId">>), n)
ReadGI == Type \o Ints(<<"gameId">>)
ReadGIResponse(n) ==
  Type \o Ints(<<"status">>) \o Field("gameName", GAME_NAME_LEN) \o Ints(<<"winner", "count">>)
    \o Repeat(PlayerInfo, n) \o FieldHeader
ReadJG == Type \o Ints(<<"gameId">>) \o Field("clientName", CLIENT_NAME_LEN)
ReadJGResponse == Type \o Ints(<<"playerId">>) \o Field("password", CLIENT_PASS_LEN)
ReadNOTIFY == Type \o Ints(<<"playerId">>) \o Field("playerName", CLIENT_NAME_LEN)
ReadSGSwapped == Type \o Field("password", CLIENT_PASS_LEN) \o Ints(<<"gameId">>)
ReadSG == Type \o Ints(<<"gameId">>) \o Field("password", CLIENT_PASS_LEN)
ReadSGResponse(n) == Type \o Ints(<<"count">>) \o Repeat(PlayerInfo, n) \o FieldHeader \o Lines
ReadUP ==
  Type \o Ints(<<"playerId", "gameId">>) \o Field("password", CLIENT_PASS_LEN)
    \o Ints(<<"actionX", "actionY">>)
ReadUPResponse(n) == Type \o Ints(<<"gameId", "count">>) \o Repeat(PlayerInfo, n)

-----------------------------------------------------------------------------
(* Where a field lies, and what a reader of another layout finds there. *)

\* The pointer both sides move, after so many fields.
Pointer(l) ==
  LET bytes[n \in 0..Len(l)] == IF n = 0 THEN 0 ELSE bytes[n - 1] + l[n].width
  IN  bytes

Size(l) == Pointer(l)[Len(l)]
Offset(l, i) == Pointer(l)[i - 1]

\* The i-th field of r is one field of w, whole and of the same name.
ReadWhole(w, r, i) ==
  \E j \in DOMAIN w : w[j] = r[i] /\ Offset(w, j) = Offset(r, i)

Agree(w, r) == \A i \in DOMAIN r : ReadWhole(w, r, i)
=============================================================================
