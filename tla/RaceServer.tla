------------------------------ MODULE RaceServer ------------------------------
(***************************************************************************)
(* The race game server of race_2: the accept loop of main, one            *)
(* handle_client thread per connection, and the three pieces of state they *)
(* share: the client list, the game list and the counters beside them.     *)
(*                                                                         *)
(* A step is what one thread does between two points where another thread  *)
(* can see or disturb it: taking clients_mutex, an access to a list or a   *)
(* counter that no lock protects, and every send or recv.  A client_t, its *)
(* list node and its thread are one element of Conns; a game_t is named by *)
(* the connection that created it.  Requests come in the order client.c    *)
(* issues them (NF FI CG PI* SG for CREATE, LI GI JG PI* for JOIN).        *)
(***************************************************************************)
EXTENDS Naturals, Sequences, FiniteSets, SequencesExt

CONSTANTS
  Conns,       \* the calls of accept, with the connection each returns
  Creators,    \* the connections whose user answers CREATE (the others JOIN)
  Quitters,    \* the connections whose client process may exit
  Failing,     \* the calls of accept that may return -1
  MaxClients,  \* MAX_CLIENTS_ON_SERVER
  MaxPerGame,  \* MAX_CLIENTS_PER_GAME
  NoConn       \* NULL, and the owner of a free mutex

Main == "main"   \* the thread of main() as a mutex owner

ASSUME ConstantsAssumption ==
  /\ Creators \subseteq Conns /\ Quitters \subseteq Conns
  /\ Failing \subseteq Conns \ Quitters
  /\ IsFiniteSet(Conns)
  /\ MaxClients \in Nat \ {0} /\ MaxPerGame \in Nat \ {0}
  /\ NoConn \notin Conns /\ Main \notin Conns /\ NoConn # Main

VARIABLES
  server,       \* "up", or why the process exited
  mutex,        \* the owner of clients_mutex
  mainpc,       \* where main is
  newConn,      \* the connection main is registering
  clients,      \* clients_start, the list of client records
  clientCount,  \* client_count
  clientId,     \* client_id, the last player ID given out
  pid,          \* client->player->ID
  game,         \* client->game (NoConn: the dummy game, whose ID is 0)
  freed,        \* the client records that were freed
  games,        \* games_start
  gameCount,    \* game_count
  gameId,       \* the global game_id
  gid,          \* game->ID
  pc,           \* where the thread of each connection is
  stage,        \* the next request its client will send
  pick,         \* the game ID its client uses in its requests
  loaded,       \* the value of game_id a ++game_id has read
  cursor,       \* the node a walk of join_game_response is at
  found,        \* chosen_game of the thread
  team,         \* g_clients of the thread
  unsent,       \* the part of team the loop of start_game_response has yet to visit
  buf,          \* the two IDs deserialize_msg_UP would read from the buffer
  started,      \* the clients an SG message was sent to
  listening,    \* the thread that listens on port + 1
  gone          \* who has nobody at the other end: the client process has
                \* exited, or accept has returned -1

registry == <<clients, clientCount, clientId, freed>>
gameList == <<games, gameCount>>
locals   == <<loaded, cursor, found, team, unsent, buf>>
script   == <<stage, pick>>
vars == <<server, mutex, mainpc, newConn, registry, pid, game, gameList, gameId,
          gid, pc, script, locals, started, listening, gone>>

Causes == {"noGame", "password", "port", "recv", "send", "notFound", "segv"}
PcSet  == {"none", "denied", "new", "idle", "reply",
           "cgStore", "cgLink", "cgFill", "cgAssign",
           "giCollect", "giAssign", "jgAssign", "jgReply", "jgVisit", "jgNext",
           "sgSend", "gp", "leave", "leaving", "done"}
Stages == {"NF", "FI", "CG", "SG", "LI", "GI", "JG", "PI"}

TypeOK ==
  /\ server \in {"up"} \cup Causes
  /\ mutex \in Conns \cup {Main, NoConn}
  /\ mainpc \in {"accept", "link", "fill"}
  /\ newConn \in Conns \cup {NoConn}
  /\ clients \in Seq(Conns) /\ clientCount \in Nat /\ clientId \in Nat
  /\ pid \in [Conns -> Nat]
  /\ game \in [Conns -> Conns \cup {NoConn}]
  /\ freed \subseteq Conns
  /\ games \in Seq(Conns) /\ gameCount \in Nat /\ gameId \in Nat
  /\ gid \in [Conns -> Nat]
  /\ pc \in [Conns -> PcSet] /\ stage \in [Conns -> Stages]
  /\ pick \in [Conns -> Nat]
  /\ loaded \in [Conns -> Nat]
  /\ cursor \in [Conns -> Conns \cup {NoConn}]
  /\ found \in [Conns -> Conns \cup {NoConn}]
  /\ team \in [Conns -> SUBSET Conns] /\ unsent \in [Conns -> SUBSET Conns]
  /\ buf \in [Conns -> [pid : Nat, gid : Nat]]
  /\ started \subseteq Conns /\ gone \subseteq Conns
  /\ listening \in Conns \cup {NoConn}

Init ==
  /\ server = "up" /\ mutex = NoConn /\ mainpc = "accept" /\ newConn = NoConn
  /\ clients = <<>> /\ clientCount = 0 /\ clientId = 0 /\ freed = {}
  /\ pid = [c \in Conns |-> 0] /\ game = [c \in Conns |-> NoConn]
  /\ games = <<>> /\ gameCount = 0 /\ gameId = 0 /\ gid = [c \in Conns |-> 0]
  /\ pc = [c \in Conns |-> "none"]
  /\ stage = [c \in Conns |-> IF c \in Creators THEN "NF" ELSE "LI"]
  /\ pick = [c \in Conns |-> 0]
  /\ loaded = [c \in Conns |-> 0]
  /\ cursor = [c \in Conns |-> NoConn] /\ found = [c \in Conns |-> NoConn]
  /\ team = [c \in Conns |-> {}] /\ unsent = [c \in Conns |-> {}]
  /\ buf = [c \in Conns |-> [pid |-> 0, gid |-> 0]]
  /\ started = {} /\ listening = NoConn /\ gone = {}

-------------------------------------------------------------------------------
(* Reading the shared lists. *)

\* client->game->ID.
GameIdOf(c) == IF game[c] = NoConn THEN 0 ELSE gid[game[c]]

\* get_game_by_id: the first game of the list with the wanted ID.
GameById(id) ==
  LET i == SelectInSeq(games, LAMBDA g : gid[g] = id)
  IN  IF i = 0 THEN NoConn ELSE games[i]

\* The places in the client list of the clients whose game has this ID.
Members(id) == {i \in DOMAIN clients : GameIdOf(clients[i]) = id}

\* The node after n.
NextNode(n) ==
  LET i == SelectInSeq(clients, LAMBDA x : x = n)
  IN  IF i \in 1..(Len(clients) - 1) THEN clients[i + 1] ELSE NoConn

\* push_client and push_game link a node before they fill it, and a removal
\* frees the node it unlinks: a traversal without the lock may follow either.
ClientListUnstable == mainpc = "fill" \/ \E x \in Conns : pc[x] = "leaving"
GameListUnstable   == \E x \in Conns : pc[x] = "cgFill"

\* err_die_server, or the process killed by a signal.
Die(cause) ==
  /\ server' = cause
  /\ UNCHANGED <<mutex, mainpc, newConn, registry, pid, game, gameList, gameId, gid,
                 pc, script, locals, started, listening, gone>>

\* The thread of c is at p and the server is up.
At(c, p) == server = "up" /\ pc[c] = p
Goto(c, p) == pc' = [pc EXCEPT ![c] = p]
SetStage(c, s) == stage' = [stage EXCEPT ![c] = s]

\* pthread_mutex_lock and pthread_mutex_unlock of clients_mutex by thread t.
LockUnchecked(t) == mutex' = t
Lock(t) == mutex = NoConn /\ mutex' = t
UnlockForgotten == UNCHANGED mutex
Unlock == mutex' = NoConn

\* push_client and push_game at the end of a list; pushing over its head instead.
PushOverHead(list, x) == <<x>>
Push(list, x) == Append(list, x)

\* The records whose sock_fd is -1.
NoSocket == Failing \cap gone

\* A send to the socket of n fails only once its client process has exited, and
\* always without a socket: the process is killed by SIGPIPE or err_die_server
\* is called.
SendFails(n) == n \in gone /\ Die("send")

-------------------------------------------------------------------------------
(* main: accept, init_client, pthread_create. *)

\* The test of main, on client_count as it is without the lock.
FullOneLater == clientCount >= MaxClients
Full == clientCount + 1 >= MaxClients

\* ++client_id; a new ID taken from the number of clients can be in use.
PlayerIdFromCount == clientCount + 1
NewPlayerId == clientId + 1

\* A new connection is refused.
Deny(c) ==
  /\ At(c, "none") /\ mainpc = "accept"
  /\ Full
  /\ Goto(c, "denied")
  /\ UNCHANGED <<server, mutex, mainpc, newConn, registry, pid, game, gameList,
                 gameId, gid, script, locals, started, listening, gone>>

\* init_client up to the lock: the record with its player ID and dummy game.
\* Whether accept has returned a descriptor is not tested.
Accept(c) ==
  /\ At(c, "none") /\ mainpc = "accept"
  /\ ~Full
  /\ mainpc' = "link" /\ newConn' = c /\ Goto(c, "new")
  /\ clientId' = clientId + 1
  /\ pid' = [pid EXCEPT ![c] = NewPlayerId]
  /\ UNCHANGED gone \/ (c \in Failing /\ gone' = gone \cup {c})
  /\ UNCHANGED <<server, mutex, clients, clientCount, freed, game, gameList, gameId,
                 gid, script, locals, started, listening>>

\* Lock, client_count++, and push_client as far as linking the new node.
LinkClientUncounted ==
  /\ server = "up" /\ mainpc = "link" /\ Lock(Main) /\ mainpc' = "fill"
  /\ clients' = Push(clients, newConn)
  /\ UNCHANGED <<server, newConn, clientCount, clientId, freed, pid, game, gameList,
                 gameId, gid, pc, script, locals, started, listening, gone>>
LinkClient ==
  /\ server = "up" /\ mainpc = "link" /\ Lock(Main) /\ mainpc' = "fill"
  /\ clientCount' = clientCount + 1
  /\ clients' = Push(clients, newConn)
  /\ UNCHANGED <<server, newConn, clientId, freed, pid, game, gameList, gameId, gid,
                 pc, script, locals, started, listening, gone>>

\* The node gets its client, unlock, and pthread_create starts the thread.
StartThread ==
  /\ server = "up" /\ mainpc = "fill"
  /\ Unlock /\ mainpc' = "accept" /\ newConn' = NoConn
  /\ Goto(newConn, "idle")
  /\ UNCHANGED <<server, registry, pid, game, gameList, gameId, gid, script, locals,
                 started, listening, gone>>

MainStep == LinkClient \/ StartThread

-------------------------------------------------------------------------------
(* handle_client: recv, the reply after every handler, the end of a thread. *)

\* handle_client's own send after handle_message has returned.
Reply(c) ==
  /\ At(c, "reply") /\ Goto(c, "idle")
  /\ UNCHANGED <<server, mutex, mainpc, newConn, registry, pid, game, gameList, gameId,
                 gid, script, locals, started, listening, gone>>
ReplyDies(c) == At(c, "reply") /\ SendFails(c)

\* The client of c has sent the request r.
Request(c, r) == At(c, "idle") /\ c \notin gone /\ stage[c] = r

\* get_number_of_fields_response, field_info_response: the track list never
\* changes once main has made it, so these only move the client along.
ReadTracks(c, r, next) ==
  /\ Request(c, r)
  /\ SetStage(c, next) /\ Goto(c, "reply")
  /\ UNCHANGED <<server, mutex, mainpc, newConn, registry, pid, game, gameList, gameId,
                 gid, pick, locals, started, listening, gone>>
GetNumberOfFields(c) == ReadTracks(c, "NF", "FI")
FieldInfo(c)         == ReadTracks(c, "FI", "CG")

\* A PI request is sent back as it is while the client waits for the start.
Ping(c) ==
  /\ \E r \in {"SG", "PI"} : Request(c, r)
  /\ Goto(c, "reply")
  /\ UNCHANGED <<server, mutex, mainpc, newConn, registry, pid, game, gameList, gameId,
                 gid, script, locals, started, listening, gone>>

\* recv returns 0, or fails when the connection was reset or there is none.
ConnectionLost(c) ==
  /\ At(c, "idle") /\ c \in gone \ NoSocket /\ Goto(c, "leave")
  /\ UNCHANGED <<server, mutex, mainpc, newConn, registry, pid, game, gameList, gameId,
                 gid, script, locals, started, listening, gone>>
ReceiveDies(c) == At(c, "idle") /\ c \in gone /\ Die("recv")

\* remove_by_client_id, under the lock: the first node whose player has the ID of
\* this thread's client is unlinked, its socket closed and its record freed.  Without
\* such a node the process exits.
FirstRecord(id) == SelectInSeq(clients, LAMBDA x : pid[x] = id)
RemoveClient(c) ==
  /\ At(c, "leave") /\ Lock(c) /\ Goto(c, "leaving")
  /\ IF FirstRecord(pid[c]) # 0
     THEN /\ clients' = RemoveAt(clients, FirstRecord(pid[c]))
          /\ freed' = freed \cup {clients[FirstRecord(pid[c])]}
          /\ UNCHANGED server
     ELSE server' = "notFound" /\ UNCHANGED <<clients, freed>>
  /\ UNCHANGED <<mainpc, newConn, clientCount, clientId, pid, game, gameList, gameId, gid,
                 script, locals, started, listening, gone>>

\* client_count--, unlock, and the thread ends.
Leave(c) ==
  /\ At(c, "leaving")
  /\ clientCount' = clientCount - 1
  /\ Unlock /\ Goto(c, "done")
  /\ UNCHANGED <<server, mainpc, newConn, clients, clientId, freed, pid, game, gameList,
                 gameId, gid, script, locals, started, listening, gone>>

-------------------------------------------------------------------------------
(* CREATE GAME: create_game_response and init_game. *)

\* ++game_id is a load and a store, and no lock covers them.
CreateGame(c) ==
  /\ Request(c, "CG")
  /\ loaded' = [loaded EXCEPT ![c] = gameId]
  /\ Goto(c, "cgStore")
  /\ UNCHANGED <<server, mutex, mainpc, newConn, registry, pid, game, gameList, gameId,
                 gid, script, cursor, found, team, unsent, buf, started, listening, gone>>

StoreGameId(c) ==
  /\ At(c, "cgStore")
  /\ gameId' = loaded[c] + 1
  /\ gid' = [gid EXCEPT ![c] = loaded[c] + 1]
  /\ Goto(c, "cgLink")
  /\ UNCHANGED <<server, mutex, mainpc, newConn, registry, pid, game, gameList, script,
                 locals, started, listening, gone>>

\* Lock, game_count++, and push_game as far as linking the new node.
LinkGame(c) ==
  /\ At(c, "cgLink") /\ Lock(c) /\ Goto(c, "cgFill")
  /\ gameCount' = gameCount + 1
  /\ games' = Push(games, c)
  /\ UNCHANGED <<server, mainpc, newConn, registry, pid, game, gameId, gid, script,
                 locals, started, listening, gone>>

FillGame(c) ==
  /\ At(c, "cgFill")
  /\ Unlock /\ Goto(c, "cgAssign")
  /\ UNCHANGED <<server, mainpc, newConn, registry, pid, game, gameList, gameId, gid,
                 script, locals, started, listening, gone>>

\* The ID serialize_msg_CG_response sends, game->ID; the global game_id may by now
\* be that of a later game.
GlobalGameId(c) == gameId
CreatedId(c) == gid[c]

\* Under the lock the creator's record gets the new game in place of the dummy.
AssignNewGame(c) ==
  /\ At(c, "cgAssign") /\ mutex = NoConn
  /\ game' = [game EXCEPT ![c] = c]
  /\ pick' = [pick EXCEPT ![c] = CreatedId(c)]
  /\ SetStage(c, "SG") /\ Goto(c, "reply")
  /\ UNCHANGED <<server, mutex, mainpc, newConn, registry, pid, gameList, gameId, gid,
                 locals, started, listening, gone>>

-------------------------------------------------------------------------------
(* LIST GAMES, GAME INFO, JOIN GAME. *)

\* get_game_ids, as the client may read it.  It writes *gid_arr[i], which from the
\* second game on goes through a word of the stack, and the answer is written from
\* there too: if the process survives it, every game may be listed.
NewestListed == IF games = <<>> THEN {} ELSE {gameId}
ListedIds == {gid[g] : g \in ToSet(games)}

\* The user chooses among the listed games; with none client.c joins game 0 at once.
ListGames(c) ==
  /\ Request(c, "LI")
  /\ \/ games = <<>> /\ pick' = [pick EXCEPT ![c] = 0] /\ SetStage(c, "JG")
     \/ \E id \in ListedIds : pick' = [pick EXCEPT ![c] = id] /\ SetStage(c, "GI")
  /\ Goto(c, "reply")
  /\ UNCHANGED <<server, mutex, mainpc, newConn, registry, pid, game, gameList, gameId,
                 gid, locals, started, listening, gone>>
ListGamesDies(c) ==
  Request(c, "LI") /\ (Len(games) > 1 \/ GameListUnstable) /\ Die("segv")

\* get_game_by_id of the requested game, on a list that no lock protects.
FindGame(c, r, next) ==
  /\ Request(c, r) /\ GameById(pick[c]) # NoConn
  /\ found' = [found EXCEPT ![c] = GameById(pick[c])]
  /\ Goto(c, next)
  /\ UNCHANGED <<server, mutex, mainpc, newConn, registry, pid, game, gameList, gameId,
                 gid, script, loaded, cursor, team, unsent, buf, started, listening, gone>>
GameInfo(c) == FindGame(c, "GI", "giCollect")
JoinGame(c) == FindGame(c, "JG", "jgAssign")
FindGameDies(c) ==
  /\ \E r \in {"GI", "JG"} : Request(c, r)
  /\ \/ GameById(pick[c]) = NoConn /\ Die("noGame")
     \/ GameListUnstable /\ Die("segv")

\* Every client of the game goes into g_clients, which has MaxPerGame slots.
CollectPlayers(c) ==
  /\ At(c, "giCollect")
  /\ team' = [team EXCEPT ![c] = {clients[i] : i \in Members(pick[c])}]
  /\ Goto(c, "giAssign")
  /\ UNCHANGED <<server, mutex, mainpc, newConn, registry, pid, game, gameList, gameId,
                 gid, script, loaded, cursor, found, unsent, buf, started, listening, gone>>
CollectDies(c) ==
  /\ At(c, "giCollect")
  /\ Cardinality(Members(pick[c])) > MaxPerGame \/ ClientListUnstable
  /\ Die("segv")

\* Asking for the info already makes the client a member of the game; the
\* records collected before are serialized after the lock was released.
AssignShownGame(c) ==
  /\ At(c, "giAssign") /\ mutex = NoConn
  /\ game' = [game EXCEPT ![c] = found[c]]
  /\ SetStage(c, "JG") /\ Goto(c, "reply")
  /\ UNCHANGED <<server, mutex, mainpc, newConn, registry, pid, gameList, gameId, gid,
                 pick, locals, started, listening, gone>>
ShowGameDies(c) ==
  At(c, "giAssign") /\ mutex = NoConn /\ team[c] \cap freed # {} /\ Die("segv")

AssignJoinedGame(c) ==
  /\ At(c, "jgAssign") /\ mutex = NoConn
  /\ game' = [game EXCEPT ![c] = found[c]]
  /\ Goto(c, "jgReply")
  /\ UNCHANGED <<server, mutex, mainpc, newConn, registry, pid, gameList, gameId, gid,
                 script, locals, started, listening, gone>>

\* The JG message goes out; then the list is walked from its head, unlocked.
ReplyJoin(c) ==
  /\ At(c, "jgReply")
  /\ cursor' = [cursor EXCEPT ![c] = IF clients = <<>> THEN NoConn ELSE Head(clients)]
  /\ Goto(c, "jgVisit")
  /\ UNCHANGED <<server, mutex, mainpc, newConn, registry, pid, game, gameList, gameId,
                 gid, script, loaded, found, team, unsent, buf, started, listening, gone>>
ReplyJoinDies(c) == At(c, "jgReply") /\ SendFails(c)

\* A node is a live record of the list, or the walk has stepped on freed memory
\* or on a node that is linked and not filled.
Dangling(n) == n \in freed \/ (mainpc = "fill" /\ n = newConn)

\* One node of the walk: a NOTIFY to another player of the same game.
Notified(c, n) == ~Dangling(n) /\ pid[n] # pid[c] /\ GameIdOf(n) = GameIdOf(c)
NotifyPlayer(c) ==
  /\ At(c, "jgVisit") /\ cursor[c] # NoConn
  /\ cursor[c] \in NoSocket => ~Notified(c, cursor[c])
  /\ Goto(c, "jgNext")
  /\ UNCHANGED <<server, mutex, mainpc, newConn, registry, pid, game, gameList, gameId,
                 gid, script, locals, started, listening, gone>>
NotifyDies(c) ==
  /\ At(c, "jgVisit") /\ cursor[c] # NoConn
  /\ LET n == cursor[c] IN
     \/ Dangling(n) /\ Die("segv")
     \/ Notified(c, n) /\ SendFails(n)

NextPlayer(c) ==
  /\ At(c, "jgNext")
  /\ cursor' = [cursor EXCEPT ![c] = NextNode(cursor[c])]
  /\ Goto(c, "jgVisit")
  /\ UNCHANGED <<server, mutex, mainpc, newConn, registry, pid, game, gameList, gameId,
                 gid, script, loaded, found, team, unsent, buf, started, listening, gone>>
NextPlayerDies(c) == At(c, "jgNext") /\ Dangling(cursor[c]) /\ Die("segv")

\* The walk is over.
EndNotify(c) ==
  /\ At(c, "jgVisit") /\ cursor[c] = NoConn
  /\ SetStage(c, "PI") /\ Goto(c, "reply")
  /\ UNCHANGED <<server, mutex, mainpc, newConn, registry, pid, game, gameList, gameId,
                 gid, pick, locals, started, listening, gone>>

-------------------------------------------------------------------------------
(* START GAME: start_game_response and the gameplay loop it never leaves. *)

\* The first MaxPerGame players of the game, in list order.
FirstMembers(id) ==
  {i \in Members(id) : Cardinality({j \in Members(id) : j < i}) < MaxPerGame}

\* What follows the player count in the SG message: the first player's ID or,
\* with no player, the ID of the only track.
FirstIdSent(id) == IF Members(id) = {} THEN 1 ELSE pid[clients[Min(Members(id))]]

\* The first MaxPerGame clients of the game are collected and the SG message written:
\* its count and its first player ID stand where deserialize_msg_UP will look for a
\* player ID and a game ID.
StartGame(c) ==
  /\ Request(c, "SG")
  /\ LET g == {clients[i] : i \in FirstMembers(pick[c])} IN
     /\ team' = [team EXCEPT ![c] = g] /\ unsent' = [unsent EXCEPT ![c] = g]
     /\ buf' = [buf EXCEPT ![c] = [pid |-> Cardinality(g), gid |-> FirstIdSent(pick[c])]]
  /\ Goto(c, "sgSend")
  /\ UNCHANGED <<server, mutex, mainpc, newConn, registry, pid, game, gameList, gameId,
                 gid, script, loaded, cursor, found, started, listening, gone>>

\* A client whose replies were displaced has another password than its record.
StartGameDies(c) ==
  /\ Request(c, "SG")
  /\ Die("password") \/ (ClientListUnstable /\ Die("segv"))

\* The next turn of the loop that sends SG to the collected clients.
Addressed(c, n) == n \notin freed /\ GameIdOf(n) = GameIdOf(c)
SendStart(c) ==
  /\ At(c, "sgSend")
  /\ \E n \in unsent[c] :
       /\ n \in NoSocket => ~Addressed(c, n)
       /\ unsent' = [unsent EXCEPT ![c] = unsent[c] \ {n}]
       /\ started' = started \cup {x \in {n} : Addressed(c, x)}
  /\ UNCHANGED <<server, mutex, mainpc, newConn, registry, pid, game, gameList, gameId,
                 gid, pc, script, loaded, cursor, found, team, buf, listening, gone>>
SendStartDies(c) ==
  /\ At(c, "sgSend")
  /\ \E n \in unsent[c] : \/ Addressed(c, n) /\ SendFails(n)
                          \/ n \in freed /\ Die("segv")

\* gameplay binds and listens on port + 1, which one thread only can do, and sets
\* the global game_id.
OpenGameplay(c) ==
  /\ At(c, "sgSend") /\ unsent[c] = {} /\ listening = NoConn
  /\ listening' = c /\ gameId' = GameIdOf(c)
  /\ Goto(c, "gp")
  /\ UNCHANGED <<server, mutex, mainpc, newConn, registry, pid, game, gameList, gid,
                 script, locals, started, gone>>
OpenGameplayDies(c) ==
  At(c, "sgSend") /\ unsent[c] = {} /\ listening # NoConn /\ Die("port")

\* select times out after five seconds with no socket ready, and the loop parses
\* its own buffer as an UP message into the client's record, then writes the
\* next UP response over it, reading the record of every collected player.
ParseBuffer(c) ==
  /\ At(c, "gp")
  /\ pid' = [pid EXCEPT ![c] = buf[c].pid]
  /\ gid' = IF game[c] = NoConn THEN gid ELSE [gid EXCEPT ![game[c]] = buf[c].gid]
  /\ buf' = [buf EXCEPT ![c] = [pid |-> gameId, gid |-> Cardinality(team[c])]]
  /\ UNCHANGED <<server, mutex, mainpc, newConn, registry, game, gameList, gameId, pc,
                 script, loaded, cursor, found, team, unsent, started, listening, gone>>
ParseBufferDies(c) ==
  At(c, "gp") /\ (c \in freed \/ team[c] \cap freed # {}) /\ Die("segv")

-------------------------------------------------------------------------------
\* A client process exits: its user quits, or err_die_client.
ClientExits(c) ==
  /\ server = "up" /\ c \in Quitters \ gone /\ pc[c] \notin {"none", "denied"}
  /\ gone' = gone \cup {c}
  /\ UNCHANGED <<server, mutex, mainpc, newConn, registry, pid, game, gameList, gameId,
                 gid, pc, script, locals, started, listening>>

\* What the thread of c does of its own accord.
ThreadStep(c) ==
  \/ Reply(c) \/ RemoveClient(c) \/ Leave(c)
  \/ StoreGameId(c) \/ LinkGame(c) \/ FillGame(c) \/ AssignNewGame(c)
  \/ CollectPlayers(c) \/ AssignShownGame(c)
  \/ AssignJoinedGame(c) \/ ReplyJoin(c) \/ NotifyPlayer(c) \/ NextPlayer(c)
  \/ EndNotify(c)
  \/ SendStart(c) \/ OpenGameplay(c) \/ ParseBuffer(c)

\* A request wakes the thread of c out of recv.
RequestStep(c) ==
  \/ GetNumberOfFields(c) \/ FieldInfo(c) \/ CreateGame(c) \/ Ping(c)
  \/ ListGames(c) \/ GameInfo(c) \/ JoinGame(c) \/ StartGame(c)

\* The thread of c ends the server process: on its own accord, or over a request.
ThreadDies(c) ==
  \/ ReplyDies(c) \/ CollectDies(c) \/ ShowGameDies(c)
  \/ ReplyJoinDies(c) \/ NotifyDies(c) \/ NextPlayerDies(c)
  \/ SendStartDies(c) \/ OpenGameplayDies(c) \/ ParseBufferDies(c)
RequestDies(c) == ListGamesDies(c) \/ FindGameDies(c) \/ StartGameDies(c)

Next ==
  \/ MainStep
  \/ \E c \in Conns :
       \/ Deny(c) \/ Accept(c)
       \/ ThreadStep(c) \/ RequestStep(c) \/ ConnectionLost(c)
       \/ ThreadDies(c) \/ RequestDies(c) \/ ReceiveDies(c)
       \/ ClientExits(c)

Spec == Init /\ [][Next]_vars

\* The operating system keeps scheduling main and every thread.
FairSpec ==
  /\ Spec /\ WF_vars(MainStep)
  /\ \A c \in Conns : /\ WF_vars(ThreadStep(c) \/ ThreadDies(c))
                      /\ WF_vars(ConnectionLost(c) \/ ReceiveDies(c))
-------------------------------------------------------------------------------
(* Correctness. *)

Critical == {"leaving", "cgFill"}          \* the thread holds clients_mutex
Serving  == PcSet \ {"none", "denied", "new", "leaving", "done"}
Settled  == {"none", "denied", "idle", "gp", "done"}

\* clients_mutex excludes main and every handler from one another while a list
\* and its counter are being changed, and outside those sections each counter
\* is the length of its list (init_client, init_game, the end of handle_client).
RegistryConsistent ==
  /\ mutex = Main <=> mainpc = "fill"
  /\ \A c \in Conns : mutex = c <=> pc[c] \in Critical
  /\ clientCount = Len(clients) + (IF \E c \in Conns : pc[c] = "leaving" THEN 1 ELSE 0)
  /\ gameCount = Len(games)

\* main decides on client_count without the lock while handlers are leaving, and
\* never registers more clients than the check at the accept allows.
Capacity == Len(clients) < MaxClients

\* The record a handler works on is in the list, once, and not freed, whatever
\* the other handlers register or remove meanwhile; only the client whose thread
\* runs gameplay, which rewrites its player ID, can be removed by another thread.
OwnRecord ==
  /\ \A c \in Conns : pc[c] \in Serving /\ c # listening => c \in ToSet(clients)
  /\ \A i, j \in DOMAIN clients : clients[i] = clients[j] => i = j
  /\ ToSet(clients) \cap freed = {}

\* The removal at the end of a handler always finds a record with its player ID,
\* so err_die_server is never called for it.
RemovalFindsRecord == server # "notFound"

\* The game a client plays in is on the game list: no record points at a game
\* that GI, JG and LI cannot find, and a new game is listed before it is played.
GamePointersListed ==
  \A c \in Conns :
    /\ game[c] # NoConn => game[c] \in ToSet(games)
    /\ pc[c] \in {"giCollect", "giAssign", "jgAssign"} => found[c] \in ToSet(games)

\* A game ID the server has handed out stays valid between the LI, GI, JG and SG
\* requests that carry it until a gameplay starts to overwrite the IDs.
HandedOutIdResolves ==
  listening = NoConn =>
    \A c \in Conns : pick[c] # 0 => \E g \in ToSet(games) : gid[g] = pick[c]

\* What it takes for a walk without the lock (get_game_ids, the players of a game, the
\* notifications, the start loop) to crash: a client has left, so that a record may have
\* been freed; a record or game is being linked; there are several games; or a game has
\* more players than the array has slots.
CrashDue ==
  \/ gone \ NoSocket # {}
  \/ mainpc = "fill" \/ GameListUnstable
  \/ Len(games) > 1
  \/ \E c \in Conns : pc[c] = "giCollect" /\ Cardinality(Members(pick[c])) > MaxPerGame

\* Why the server exits, and with it every session.  Over an unknown game: a client
\* has joined with no game on the server, or a gameplay has overwritten game IDs.
\* In a recv or send: a client has left, or an accept has failed.  In a walk: see above.
ExitExplained ==
  /\ server = "noGame" =>
       listening # NoConn \/ \E c \in Conns : stage[c] = "JG" /\ pick[c] = 0
  /\ server \in {"recv", "send"} => gone # {}
  /\ server = "segv" => CrashDue

\* The list as the rest of the server relies on it: a roster of at most
\* MaxClients - 1 connections that changes by one at a time, with no way back in.
Roster == INSTANCE ClientRoster WITH
  Limit <- MaxClients - 1, present <- ToSet(clients), departed <- freed
ImplementsRoster == Roster!Spec

\* A thread that has a request to answer, or a client to remove, gets through
\* every lock it needs and settles, unless the server process exits.
HandlersSettle ==
  \A c \in Conns : pc[c] \notin Settled ~> (pc[c] \in Settled \/ server # "up")

\* The thread of a client that has exited ends, unless it plays or the server exits.
LostClientsEnd ==
  \A c \in Conns : c \in gone ~> (pc[c] \in {"gp", "done"} \/ server # "up")

-------------------------------------------------------------------------------
(* What comments of the repository say and the code does not do. *)

\* server.c:221, start_game_response: "send info about the started game to every
\* client of the game."  The loop collects at most MaxPerGame of them.
StartReachesEveryPlayer ==
  [][\A c \in Conns : pc[c] = "idle" /\ pc'[c] = "sgSend" =>
       {n \in ToSet(clients) : game[n] = game[c]} \subseteq unsent'[c]]_vars

\* server.c:274-275: the SG message goes "to all players of the game"; the test is
\* on game IDs, and two games can have the same one.
StartStaysInGame ==
  [][\A n \in started' \ started :
       \E c \in Conns : n \in unsent[c] \ unsent'[c] /\ game[n] = game[c]]_vars

\* server.c:630: "Remove the client from the global LL": a handler that ends
\* removes the record of its own client.
RemovesItsOwnClient ==
  [][\A c \in Conns : pc[c] = "leave" /\ pc'[c] = "leaving" => freed' = freed \cup {c}]_vars
===============================================================================
