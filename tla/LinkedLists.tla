---------------------------- MODULE LinkedLists ----------------------------
(***************************************************************************)
(* linked_list.c of race_2: the lists of clients, games and tracks, node   *)
(* by node in one heap whose addresses are reused.  A record is the struct *)
(* a node points to, with the inner fields its init function allocates.    *)
(* Calls are whole: the lock that has to be around them is RaceServer's.   *)
(* The three lists differ in little more than the type, so each function   *)
(* is written once; where a client, a game or a track is treated           *)
(* differently, a definition named for the difference says so.             *)
(***************************************************************************)
EXTENDS Naturals, FiniteSets, Sequences, SequencesExt, NodeChains

CONSTANTS
  Addr,          \* the addresses malloc has for nodes
  Clients, Games, Tracks,
  Unconnected,   \* the clients whose sock_fd is -1
  IdOf,          \* player->ID, game->ID, track->field->ID; two records may share one
  NULL

ASSUME ListAssumption ==
  /\ IsFiniteSet(Addr) /\ NULL \notin Addr \cup Clients \cup Games \cup Tracks
  /\ Clients \cap Games = {} /\ Clients \cap Tracks = {} /\ Games \cap Tracks = {}
  /\ Unconnected \subseteq Clients /\ DOMAIN IdOf = Clients \cup Games \cup Tracks

VARIABLES
  head,      \* clients_start, games_start, tracks_start
  next,      \* next_client, next_game, next_track of each node
  held,      \* client, game, track of each node
  used,      \* the allocated nodes
  live,      \* the allocated records
  fields,    \* the allocated fields of each record
  open,      \* the clients whose socket is open
  answer,    \* what the last call returned
  sweeping,  \* the kind remove_all is at work on
  crashed    \* a NULL pointer or a stray address has been written or read

heap == <<head, next, held, used>>
memory == <<live, fields, open>>
vars == <<heap, memory, answer, sweeping, crashed>>

Kinds == {"client", "game", "track"}
Records == Clients \cup Games \cup Tracks
Ids == {IdOf[r] : r \in Records}
RecordsOf(k) == CASE k = "client" -> Clients [] k = "game" -> Games [] k = "track" -> Tracks

\* What init_client, init_game and init_tracks allocate with the record; the
\* dummy game of a client is the handlers' to free.
Inner(k) ==
  CASE k = "client" -> {"player", "password", "ip", "action"}
    [] k = "game" -> {"game_h"}
    [] k = "track" -> {"field", "start_line", "main_line"}

\* free_inner_client_fields forgets the action.
FreedInner(k) == IF k = "client" THEN Inner(k) \ {"action"} ELSE Inner(k)

\* Where the ID and the name of a record are kept; a game's ID is its own.
IdField(k) == CASE k = "client" -> {"player"} [] k = "game" -> {} [] k = "track" -> {"field"}
NameField(k) == CASE k = "game" -> {"game_h"} [] OTHER -> IdField(k)

Codes == {"RGOOD", "MFAIL", "HNULL", "NFND"}

\* A pointer to a record is not mistaken for a return code: the searches
\* return the one, everything else the other.
ASSUME CodesAssumption == Codes \cap (Records \cup {NULL}) = {}

TypeOK ==
  /\ head \in [Kinds -> Addr \cup {NULL}]
  /\ next \in [Addr -> Addr \cup {NULL}] /\ held \in [Addr -> Records \cup {NULL}]
  /\ used \subseteq Addr /\ live \subseteq Records /\ open \subseteq Clients
  /\ fields \in [Records -> SUBSET UNION {Inner(k) : k \in Kinds}]
  /\ answer \in Codes \cup Records \cup {NULL}
  /\ sweeping \in Kinds \cup {NULL} /\ crashed \in BOOLEAN

Init ==
  /\ head = [k \in Kinds |-> NULL] /\ next = [n \in Addr |-> NULL]
  /\ held = [n \in Addr |-> NULL] /\ used = {}
  /\ live = {} /\ fields = [r \in Records |-> {}] /\ open = {}
  /\ answer = "RGOOD" /\ sweeping = NULL /\ crashed = FALSE

-----------------------------------------------------------------------------
(* Walking a list. *)

\* The nodes from the head on, as the while loops meet them.
Path(k) == Chain(head[k], next, NULL, Cardinality(Addr))
Listed(k) == LET p == Path(k) IN [n \in DOMAIN p |-> held[p[n]]]

\* A search by ID reads the ID of every record up to the first match.
Has(r, f) == f \subseteq fields[r]
Matches(l, i) == {n \in DOMAIN l : IdOf[l[n]] = i}
Before(l, n, k) == \A m \in 1..n - 1 : Has(l[m], IdField(k))

FirstMatch(k, i, n) ==
  LET l == Listed(k) IN
  /\ n \in Matches(l, i) /\ \A m \in Matches(l, i) : n <= m
  /\ Before(l, n + 1, k)
NoMatch(k, i) == LET l == Listed(k) IN Matches(l, i) = {} /\ Before(l, Len(l) + 1, k)

\* The search comes to a record whose field with the ID has been freed and set to NULL.
SearchCrashes(k, i) ==
  LET l == Listed(k) IN
  \E n \in DOMAIN l :
    ~Has(l[n], IdField(k)) /\ Before(l, n, k) /\ \A m \in Matches(l, i) : n <= m

Running == ~crashed /\ sweeping = NULL
Return(a) == answer' = a /\ UNCHANGED <<sweeping, crashed>>
Crash == crashed' = TRUE /\ UNCHANGED <<heap, memory, answer, sweeping>>

-----------------------------------------------------------------------------
(* Pushing. *)

LinkAtHead(k, n) ==
  head' = [head EXCEPT ![k] = n] /\ next' = [next EXCEPT ![n] = head[k]]

Link(k, n) ==
  IF head[k] = NULL
  THEN head' = [head EXCEPT ![k] = n] /\ next' = [next EXCEPT ![n] = NULL]
  ELSE next' = [next EXCEPT ![n] = NULL, ![Last(Path(k))] = n] /\ UNCHANGED head

\* What init_client, init_game and init_tracks make is new: not a record that
\* has left fields behind.
Fresh(k) == {r \in RecordsOf(k) \ live : fields[r] \cap FreedInner(k) = {}}

\* The socket a record comes with.
Socket(r) == {r} \cap (Clients \ Unconnected)

\* A record has been made and is appended.  Nobody looks at the code if
\* malloc fails: the record lives on without a node.
Push(k, r) ==
  /\ Running /\ r \in Fresh(k)
  /\ live' = live \cup {r} /\ fields' = [fields EXCEPT ![r] = Inner(k)]
  /\ open' = open \cup Socket(r)
  /\ \/ \E n \in Addr \ used :
          /\ Link(k, n) /\ held' = [held EXCEPT ![n] = r] /\ used' = used \cup {n}
          /\ Return("RGOOD")
     \/ used = Addr /\ UNCHANGED heap /\ Return("MFAIL")

-----------------------------------------------------------------------------
(* Removing. *)

\* The n-th node leaves the list.
UnlinkHeadOnly(k, n) ==
  LET p == Path(k) IN
  IF n = 1
  THEN head' = [head EXCEPT ![k] = next[p[1]]] /\ next' = [next EXCEPT ![p[1]] = NULL]
  ELSE UNCHANGED <<head, next>>

Unlink(k, n) ==
  LET p == Path(k) IN
  IF n = 1
  THEN head' = [head EXCEPT ![k] = next[p[1]]] /\ next' = [next EXCEPT ![p[1]] = NULL]
  ELSE next' = [next EXCEPT ![p[n - 1]] = next[p[n]], ![p[n]] = NULL] /\ UNCHANGED head

\* The n-th node and its record are freed after the name has been logged,
\* the inner fields of record s are, and the socket is closed if closing.
Free(k, n, s, closing) ==
  LET a == Path(k)[n] r == held[a] IN
  /\ Has(r, NameField(k))
  /\ Unlink(k, n)
  /\ used' = used \ {a} /\ held' = [held EXCEPT ![a] = NULL]
  /\ live' = live \ {r} /\ fields' = [fields EXCEPT ![s] = @ \ FreedInner(k)]
  /\ open' = IF closing THEN open \ {r} ELSE open

\* The test of sock_fd against -1: the node's own, or the head's.
OwnReversed(k, n) == Listed(k)[n] \in Unconnected
Own(k, n) == Listed(k)[n] \notin Unconnected
Heads(k) == Own(k, 1)

PopFirst(k) ==
  /\ head[k] # NULL /\ Free(k, 1, Listed(k)[1], Own(k, 1))

LogCrashes(k, n) == n \in DOMAIN Listed(k) /\ ~Has(Listed(k)[n], NameField(k))

Pop(k) ==
  /\ Running
  /\ \/ PopFirst(k) /\ Return("RGOOD")
     \/ head[k] = NULL /\ UNCHANGED <<heap, memory>> /\ Return("HNULL")
     \/ LogCrashes(k, 1) /\ Crash

\* remove_last: a single node's socket is closed without a look at it, and of
\* a longer list the head's is looked at.
RemoveLast(k) ==
  LET n == Len(Path(k)) IN
  /\ Running
  /\ \/ n > 0 /\ Free(k, n, Listed(k)[n], n = 1 \/ Heads(k)) /\ Return("RGOOD")
     \/ n = 0 /\ UNCHANGED <<heap, memory>> /\ Return("HNULL")
     \/ LogCrashes(k, n) /\ Crash

InnerOf(k, n) == IF k = "track" /\ n = 1 THEN 2 ELSE n

RemoveById(k, i) ==
  /\ Running
  /\ \/ \E n \in DOMAIN Path(k) :
          /\ FirstMatch(k, i, n)
          /\ IF InnerOf(k, n) \in DOMAIN Listed(k)
             THEN /\ Free(k, n, Listed(k)[InnerOf(k, n)], IF n = 1 THEN Own(k, 1) ELSE Heads(k))
                  /\ Return("RGOOD")
             ELSE Crash
     \/ head[k] = NULL /\ UNCHANGED <<heap, memory>> /\ Return("HNULL")
     \/ head[k] # NULL /\ NoMatch(k, i) /\ UNCHANGED <<heap, memory>> /\ Return("NFND")
     \/ SearchCrashes(k, i) /\ Crash

\* remove_all: pop until the head is NULL.
RemoveAll(k) ==
  Running /\ sweeping' = k /\ UNCHANGED <<heap, memory, answer, crashed>>

Swept(k) == head[k] = NULL
Sweep ==
  \E k \in Kinds :
    /\ sweeping = k /\ ~crashed
    /\ \/ PopFirst(k) /\ Return("RGOOD")
       \/ /\ Swept(k) /\ sweeping' = NULL /\ answer' = "HNULL"
          /\ UNCHANGED <<heap, memory, crashed>>
       \/ LogCrashes(k, 1) /\ Crash

-----------------------------------------------------------------------------
(* Searching. *)

GetNodeById(k, i) ==
  /\ Running
  /\ \/ \E n \in DOMAIN Path(k) : FirstMatch(k, i, n) /\ Return(Path(k)[n])
     \/ NoMatch(k, i) /\ Return(NULL)
     \/ SearchCrashes(k, i) /\ crashed' = TRUE /\ UNCHANGED <<answer, sweeping>>
  /\ UNCHANGED <<heap, memory>>

GetById(k, i) ==
  /\ Running
  /\ \/ \E n \in DOMAIN Path(k) : FirstMatch(k, i, n) /\ Return(Listed(k)[n])
     \/ NoMatch(k, i) /\ Return(NULL)
     \/ SearchCrashes(k, i) /\ crashed' = TRUE /\ UNCHANGED <<answer, sweeping>>
  /\ UNCHANGED <<heap, memory>>

\* get_game_ids: the ID of the first game is stored in the array, those of
\* the others through whatever lies behind the caller's pointer to it.
StrayWritesAlways == Listed("game") # <<>>
StrayWrites == Len(Listed("game")) > 1
GetGameIds ==
  /\ Running /\ answer' = "RGOOD"
  /\ \/ UNCHANGED crashed
     \/ StrayWrites /\ crashed' = TRUE
  /\ UNCHANGED <<heap, memory, sweeping>>

Next ==
  \/ GetGameIds \/ Sweep
  \/ \E k \in Kinds :
       \/ \E r \in RecordsOf(k) : Push(k, r)
       \/ Pop(k) \/ RemoveLast(k) \/ RemoveAll(k)
       \/ \E i \in Ids : RemoveById(k, i) \/ GetById(k, i)

Spec == Init /\ [][Next]_vars

-----------------------------------------------------------------------------
(* What holds of the lists. *)

\* No node is lost or listed twice, and no listed node points to a record
\* that has been freed or is listed elsewhere, however nodes and records come
\* and go (the pointer exchanges and frees of linked_list.c).
NodesExact ==
  LET all == Path("client") \o Path("game") \o Path("track")
  IN  /\ \A m, n \in DOMAIN all : m # n => all[m] # all[n] /\ held[all[m]] # held[all[n]]
      /\ ToSet(all) = used
      /\ \A n \in DOMAIN all : held[all[n]] \in live

\* A listed client or game has all its fields, and of a removed one nothing
\* stays allocated but the action of a client.
FieldsIntact ==
  \A k \in {"client", "game"} :
    /\ \A r \in ToSet(Listed(k)) : fields[r] = Inner(k)
    /\ \A r \in RecordsOf(k) \ live : fields[r] \subseteq Inner(k) \ FreedInner(k)

\* Both: what the lists point to is there, whole, and in one place.
HeapExact == NodesExact /\ FieldsIntact

\* A track was removed without its fields.
TrackLost == \E t \in Tracks : t \notin live /\ fields[t] # {}

\* The lists run into NULL or a stray address only by get_game_ids over two
\* games and by remove_by_track_id, when the head is the only track or has
\* gone before with the fields of its successor freed in place of its own.
CrashExplained ==
  /\ crashed => Len(Listed("game")) > 1 \/ TrackLost \/ Len(Listed("track")) = 1
  /\ (\E t \in ToSet(Listed("track")) : fields[t] # Inner("track")) => TrackLost

\* A removal closes the socket of the client it removes and no other; it
\* leaves it open only if the head of the list has none of its own.
SocketsClosed ==
  [][/\ open \ open' \subseteq live \ live'
     /\ \A c \in Clients : c \in live \ live' /\ c \in open' =>
           held[head["client"]] \in Unconnected \ {c}]_vars

\* The nodes implement three sequences, with every return code right.
Lists == INSTANCE RecordLists WITH lists <- [k \in Kinds |-> Listed(k)], Nobody <- NULL
ImplementsLists == Lists!Spec
=============================================================================
