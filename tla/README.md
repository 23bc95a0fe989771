# Verification of the LU_C_LSP programs

The repository is a Linux programming course: a race game played over TCP
(`race_2`, the largest program), an earlier version of it (`race`), a chat room
(`chat_room`), a thread-pool server (`client_server_threads`, with the queue of
`data_structures`), a select server, and homework exercises, of which the duplicate
file finder of `md3` is the most substantial. This directory holds TLA+ models of
the concurrent programs, of the data structures and messages they share and of the
duplicate finder, TLC configurations that check them on small instances, and TLAPS
proofs of what matters most for instances of every size.

## 1. Inventory

### race_2 server (`src/race_2/src/server.c`)

| | |
|---|---|
| State | `clients_start`, `client_count`, `client_id`; `games_start`, `game_count`, `game_id`; `tracks_start`; one mutex, `clients_mutex`; one `client_t` (player ID, game pointer, password, socket) per connection |
| Threads | `main` (accept loop), one `handle_client` per connection |
| Operations | accept or deny, `init_client`; NF, FI, CG, LI, GI, JG, SG, PI requests; `gameplay`; removal when the connection ends; `err_die_server` |
| Interaction | the lists, the counters and `client_t`s are shared; join and start send on the sockets of other handlers' clients; any `err_die_server` ends all |
| Hard | list walks and `++game_id` outside the lock; records freed while others hold pointers to them; IDs looked up again between requests; the capacity check on a counter read without the lock; a gameplay loop that parses its own buffer |
| Correct when | lists and counters agree; nobody loses a record it works on; a game ID handed out stays usable; at most the allowed clients are registered; every handler settles; a lost client is let go |

### race_2 client (`src/race_2/src/client.c`)

| | |
|---|---|
| State | its `client_t`: game ID, player ID and password as parsed from the answers; `p_count`; `control_c_safe` and `start_game_sig`; one 512 byte buffer |
| Operations | create: NF, FI, CG, then PI until the game is full or CTRL+C, then SG; join: LI, GI, JG, then PI until an SG comes; `start_game`: UP datagrams |
| Interaction | one TCP connection to its handler; the handlers of other clients put notifications and start messages on the same stream |
| Hard | each `recv` is taken for the answer to the last `send`, whatever it is; JG is answered twice, so every later answer lags; the start loop sends what it received as a request; a notification may arrive before the CG answer |
| Correct when | client and handler never wait for each other; a start asked for is honoured and reaches the players; the creator counts no player who is not there; what a message says is read as it was written |

### race_2 lists (`linked_list.c`) and messages (`serialization.c`)

The lists of clients, games and tracks are singly linked, and a removal frees the node,
the record and the record's inner fields, and closes a client's socket. Hard: head
and single node are cases of their own, the removals look at the wrong node's fields
or socket here and there, a push that fails goes unnoticed, `get_game_ids` writes
through an uninitialized pointer. Correct when the pointers stay a sequence,
nothing freed is reachable and nothing unreachable stays allocated. Each message has a
function that writes it and one that reads it, by moving a pointer through one fixed
buffer; correct when both walk the same fields, and no message is longer than the buffer.

### Thread pool (`client_server_threads/server_multi_threaded.c`, `data_structures/myqueue.c`)

State: the linked queue (`head`, `tail`), `mutex`, `condition_var`, 20 threads.
`main` accepts, enqueues and signals; a thread waits, dequeues, reads until a
newline, answers and closes. Hard: a wait without a predicate (lost signals,
spurious returns), failed reads that end the process, silent clients. Correct when
the queue is first-in first-out, each connection is served by one thread, and a
queued connection is found by an available thread.

### Chat room (`chat_room/chat_server.c`), race (`race/server.c`)

State: a table of clients, `cli_count`, one mutex. A handler thread broadcasts each
message it receives. Hard: the count is raised in the thread and tested in the
accept loop, a full table drops a client silently, a descriptor is closed before its
entry leaves the table, a failed write ends a broadcast, a blocked one keeps the lock.
Correct when all clients hear one order of messages, a broadcast skips nobody without a
lost connection, a record leaves the table before it is freed, and whoever leaves is let
go.

### Duplicate finder (`md3/LSP_MD3_andris_lapins.c`)

One process. State: a hash table of chains, the flags `-d` and `-m`, and the
recursion of `processDirectories`. Hard: the file system changes between `readdir`,
`lstat` and `fopen`; `lstat` does not follow links while `opendir` and `fopen` do; the
test for a directory is a bit test that other types pass; a named pipe or a device may
never end; every bucket's chain counts as a group of duplicates. Correct when each file is entered once, duplicates are printed
together, the exit status tells how the search went, and the search ends.

### Select server (`thread_to_many_sockets/selectserver.c`)

Meant to multiplex sockets with `select`. The highest descriptor is never raised from 0,
so the first call watches no socket and waits for ever.

### The rest

`race/client.c` sends and receives one player record in two threads without end.
`server.c`, `client.c` and the `ncurses` files of `client_server_threads` are
single-connection loops. `md1`, `md4`, `md5`, `prakt*`, `LSP_KD1*`, `misc` and `helper`
are sequential programs that read input and print: `prakt6` experiments with `malloc`
and `alloca`, and `md5` reads the data of an allocator that is not written; `slaidi`,
`internet` and `web.archive.org` hold collected examples.

## 2. Modules

| Module | Models |
|---|---|
| `RaceServer` | the race_2 server: main, every handler, gameplay, removal, exit |
| `ClientRoster` | what the client list promises: a bounded roster that changes by one |
| `RaceServerProofs` | its inductive invariant: types, registry, capacity, removal, ownership, roster refinement, games and game IDs, exits, starts |
| `RaceMessages` | the layout of every race_2 message, as written and as read |
| `RaceSession` | race_2 clients and handlers joined by their byte streams |
| `RaceSessionProofs` | the creator's start is handled first; the list, the walks and the stages of a join |
| `RaceSessionCounts` | the lengths of messages, types, the creator's count and credentials, answers that are due |
| `LinkedLists` | the three lists of race_2, node by node in one heap |
| `NodeChains` | the walk along next pointers, for every linked list here |
| `RecordLists` | what the lists promise: three sequences with the right answers |
| `LinkedListsProofs` | types, the heap, crashes, sockets, refinement to sequences |
| `ThreadPool` | main, the pool's threads and the queue of `myqueue.c` |
| `ConnectionLine` | what the queue promises: a first-in first-out line |
| `ThreadPoolProofs` | types, the queue and its lock, one place per connection, line refinement, signals heard |
| `ChatServer` | the chat room server: main, the table, handlers and broadcasts |
| `ChatRoom` | what the room promises: one order of messages for everybody |
| `ChatServerProofs` | types, records and descriptors, broadcasts, room refinement, the limit of clients |
| `DuplicateFinder` | the walk, the hash table and the printing of `LSP_MD3` |
| `DuplicateFinderProofs` | types, no file entered twice, duplicates found, exit status, a bound on the steps |
| `SequenceLemmas` | facts about sequences, walks and linked chains the proofs share |
| `MCRaceServer`, `MCThreadPool`, `MCChatServer` | instances for TLC |
| `MCRaceSession` | the same, with symmetry and an order of receives |
| `MCLinkedLists` | records that share IDs, symmetry of the nodes |
| `MCDuplicateFinder` | a directory tree |

### RaceServer

One step is what a thread does between two points at which another thread can
see or disturb it: taking the lock, an access to shared data that no lock covers,
a send or a `recv`. A locked section that only writes one field of the handler's own
record is one step guarded by a free mutex; `init_client`'s and `init_game`'s pushes
are two, because a push links its node (`LinkClient`, `LinkGame`) before filling it
(`StartThread`, `FillGame`), and unlocked walks see the difference.

| State | Code |
|---|---|
| `clients`, `clientCount`, `clientId` | `clients_start`, `client_count`, `client_id` |
| `games`, `gameCount`, `gameId`, `gid` | `games_start`, `game_count`, `game_id`, `game->ID` |
| `mutex` | `clients_mutex` |
| `pid`, `game` | `client->player->ID`, `client->game`; the dummy game with ID 0 is `NoConn` |
| `freed` | the records `remove_by_client_id` has freed |
| `pc`, `loaded`, `cursor`, `found`, `team`, `unsent`, `buf` | where a handler is and its locals: the value `++game_id` read, the node of a walk, `chosen_game`, `g_clients`, the clients the start loop has yet to visit, the two IDs at the start of the buffer |
| `stage`, `pick` | which request the client sends next, with which game ID |
| `server` | up, or why the process exited |

`CreateGame StoreGameId LinkGame FillGame AssignNewGame` are `create_game_response`
with `init_game`; `GameInfo CollectPlayers AssignShownGame` are
`game_info_response`; `JoinGame AssignJoinedGame ReplyJoin NotifyPlayer NextPlayer
EndNotify` are `join_game_response`; `StartGame SendStart OpenGameplay ParseBuffer`
are `start_game_response` and `gameplay`; `ConnectionLost RemoveClient Leave` are the
end of `handle_client`. Each has a `...Dies` companion where the code can end the
process: an unknown game, a password that does not match, the second bind of
port + 1, a failed `recv` or `send` (or SIGPIPE), or undefined behaviour. The exit
of `handle_client` over a record that is not found is the ELSE of `RemoveClient`,
and `RemovalFindsRecord` says it is never taken. Undefined behaviour - a walk over a
freed or unfilled node, too many players in `g_clients`, `*gid_arr[i]` with several
games - is a choice between going on and `segv`; where the process survives several games, a client may choose any
of their IDs (`ListedIds`). main does not look at the result of `accept`: for a
connection in `Failing` it may be -1, and then a record without a socket is registered
(`NoSocket`), which is sent to and received from like any other until a call on it fails.

Left out of it: names and passwords as text, logs, the passage of time other than
the timeout, allocation failure, the SIGINT handler (it only ends the process),
connections to port + 1 (`client.c` sends datagrams there, `gameplay` listens with
TCP, so none arrives), and what a client parses (`RaceSession` is about that). `Causes`
keeps the process stopped where it died; `err_die_server` frees the lists before
`exit`, which no thread outlives for long.

### RaceMessages and RaceSession

`RaceMessages` writes down each serialize and each deserialize function as a
sequence of fields with names and widths; a field's place is the sum of the widths
before it, which is the pointer the code moves. `ReadWhole` says that a field is read
where it was written. What `serialization.c` writes byte by byte has the order of the
machine on both sides and is not part of a layout.

`RaceSession` has both ends of one game: `Creator`, `Joiners`, and a handler for each.

| State | Code |
|---|---|
| `toServer`, `toClient` | the two directions of each TCP connection |
| `cpc` | which `send_n_recv` of `create_game`, `list_games`, `join_game` or their loops a client is in |
| `chosen`, `credentials`, `pcount`, `startSig` | what the client has parsed: the game ID it asks for, whether game ID and password are its own, `p_count`; `start_game_sig` |
| `hpc`, `pos`, `left`, `todo` | where a handler is, its place in the walk over the clients, what its buffer holds, the players yet to be sent SG |
| `list`, `listed`, `members` | the client list, whether the game is listed, the clients that point to it |

A client's step is one receive, the parse and the next send: nothing another process
does can come between in a way anybody sees. A message is its kind; what a client
finds in a message of another kind follows from the two layouts: `OwnCredentials` asks
whether game ID and password lie in it where the CG answer has them, and `ShowsName`
whether a name begins where a notification has one, which is also true of the JG
answer and of others, so the creator's count can rise on them.
`ResendUntilStart` is the start loop, which sends the received buffer back. `ReplyJoin`,
`Notify` and `SendLeftover` are `join_game_response` and the second send of
`handle_client`, whose buffer holds the last notification or nothing.

Assumed: one `send` is one `recv` (the 512 byte buffers are sent whole; a stream that
splits them is outside the model). A datagram to the TCP port is never answered, so a
client in the race waits there (`UpdatePlayer`). One game and no leaving clients: that is
`RaceServer`. Names are shorter than 20 bytes: a notification or start message that is
parsed as a GI answer then shows no players, whereas a longer name (client.c:317-332 reads
its bytes as counts) could crash the client, which would end it as if it had left
(`ShowInfo`).

The number of players a start goes to is `MaxPlayers` (`MAX_CLIENTS_PER_GAME`), the count at
which a creator starts is `FullCount`, a literal of client.c:501; both are 4 in the code and
neither limits the joins. A creator behind `MaxPlayers` joiners in the list gets no SG of its
own and stays in its start loop, while its handler is in gameplay and reads nothing
(`LeftOut`): another side of what `race_start_reach` shows. `session_two` has a start for two
players and two joiners, so it has that case; section 4 proves that it is the only way to
wait in vain.

### LinkedLists

One heap of nodes with `head`, `next` and `held`; the allocated records with the inner
fields their init function allocates; the open sockets. Each call of `linked_list.c` is
one step (the lock that has to be around it is `RaceServer`'s matter): `Push`, `Pop`,
`RemoveLast`, `RemoveById`, `RemoveAll` with its `Sweep`s, `GetById`, `GetGameIds`. The
three lists have the same code but for the type; where they differ, a definition is named
for the difference: `InnerOf` (`remove_by_track_id` frees the fields of the new head),
`Heads` (removals behind the head test the head's socket), `FreedInner` (a client's
`action` is forgotten), `StrayWrites`. `crashed` is a read or write through NULL or
through an uninitialized pointer. Some functions have no caller in the program
(`remove_last_*`, `remove_by_game_id`, `remove_by_track_id`, `get_client_by_id`);
`spot_and_delete_client_duplicate` is declared and has no definition.

### DuplicateFinder

`stack` is the recursion of `processDirectories`, with the entries each level has yet to
read; `current` the file between `readdir` and its entry; `table` the chains. `readdir`
gives any order. `OpenDirectory CloseDirectory Visit MissesFile` are the walk: a
file that has vanished fails `lstat` and ends the loop over its directory. `EnterFile` is
`ht_set` and its variants, `Dump` is `ht_dump`. `hash` and its variants are the code's
rounds over characters, with `char` signed where the code reads signed characters. Files
of `Vanishing`, whatever their type, vanish at any moment (`Vanish`), directories once
they are empty; nothing is renamed or made during a search. The walk is `Blocked` in an
`fopen` of a named pipe and in the `fread` loop over an endless device, if the file can
be opened at all and is still there. Left out: the headings of a group, paths of more than 1000 bytes, exhausted descriptors; `ULong` is
the modulus of `unsigned long` and is small in the run, which changes the buckets and
nothing else.

### ThreadPool

`Accept MainLocks LinkNode MoveTail SignalAndUnlock` are one turn of main's loop;
`LockQueue Wait Relock TakeHead|FindEmpty ResetTail UnlockQueue Read Answer` one turn
of `thread_function`. A pointer write is a step, so that only the mutex keeps two
operations on the queue apart. A signal wakes one waiting thread, chosen freely; a
wait may return without one (`SpuriousWake`, at most `MaxSpurious` times).
`accept` may fail (its address length is never set) and its -1 is queued like a
descriptor (`badFd`).

### ChatServer

A connection, its record and its thread are one element, which also stands for the
`uid` (only main hands them out, so none is given twice). The table is touched under
`clients_mutex` only: `QueueAdd` and `QueueRemove` are one step each. `send_message` is
one step per slot (`SendMessage Pass Write WriteFails EndSend`), because `close` is not
under the lock and the descriptor of a listed record can change its meaning between two
writes. `files` is the process's descriptor table: `accept` returns the lowest
free descriptor, or -1 (always possible for the connections in `Failing`), and `Close`
frees it before `QueueRemove`. `Accept` is followed by `Admit` or by `Refuse`: a connection
that is refused holds its descriptor until main closes it. A write goes to whatever connection the descriptor
refers to; to a client that has exited it may succeed once more or fail. `CountUp` and
`FreeRecord` are `cli_count++` in the new thread and `free` with `cli_count--`.
`ReceiveName ReceiveLine ConnectionLost` are the outcomes of `recv`. A message is its
speaker and a number; `post` and `heard` record what has been broadcast last and what
each client has got last. Left out: text, a `pthread_create` that fails, main's
`sleep(1)` (it only delays), a stream that splits or joins messages. `race/server.c` is
the same program with another backlog.

## 3. Runs

| Run | Instance | Shows |
|---|---|---|
| `race_leavers` | 3 connections, 2 creators, 2 may exit, 1 may get no socket, room for 2, 1 slot per game, fair; 106 067 states | `TypeOK`, `RegistryConsistent`, `Capacity`, `OwnRecord`, `RemovalFindsRecord`, `GamePointersListed`, `HandedOutIdResolves`, `ExitExplained`, the roster refinement, `HandlersSettle`, `LostClientsEnd` |
| `pool_queue` | 2 threads, 3 connections, 1 silent, it and another may exit, 1 spurious return, fair; 189 199 states | `TypeOK`, `QueueConsistent`, `OnePlace`, the line refinement, `TakenIsAnswered` |
| `chat_room` | 3 clients, 3 slots, 3 descriptors, 1 line, 1 may exit, 1 may stop reading, 1 may get no descriptor, fair; 346 104 states | `TypeOK`, `RecordsConsistent`, `MissedExplained`, `EchoExplained`, the room refinement, `LeaverIsRemoved` |
| `session_live` | a creator and a joiner, fair; 4 757 states | `TypeOK`, `StartHandledFirst`, `MessagesCarryOver`, `StartHonoured`, `StartDelivered` |
| `session_two` | a creator and 2 joiners, a start for 2 players, symmetric; 225 234 states | `AnswerDue`, `CountNeverAhead`, `CredentialsExplained` |
| `lists` | 3 clients, one without a socket, 2 games, 2 tracks, 3 nodes, symmetric; 241 618 states | `TypeOK`, `HeapExact`, `CrashExplained`, `SocketsClosed`, the refinement to sequences |
| `duplicates` | a tree of 12 files, 4 of which may vanish, every pair of flags, fair; 228 626 states | `TypeOK`, `EachFileOnce`, `DuplicatesFound`, `ResultTells`, `SearchEnds` |

What the less obvious properties say:

- `ExitExplained`: the server exits over an unknown game only after a join with no game
  listed or a gameplay that has overwritten game IDs, over a `recv` or `send` only after a
  client has left or an accept has failed, and in a walk only when `CrashDue` names the
  cause: a client has left (records may be freed), a node is linked and not filled,
  several games are listed, or more players are collected than `g_clients` has slots.
- `MissedExplained`: when a broadcast ends, a client of the table that has not got the
  message is in the slot of a lost record or behind it (`Lost`: no descriptor, a client that
  has exited, a connection its thread has closed). The first failed write ends the loop, so
  clients behind it are missed; nobody is missed for another reason.
- `TakenIsAnswered`: a thread with a connection gets back to waiting, unless the client keeps
  silent for ever without closing or the process has exited, and that only over a bad
  descriptor or a client that is gone (`Hopeless`).
- `AnswerDue`: a client in its `recv` has a message on the way, a request on the way to a
  handler that will read it or a handler at work for it, so the two never wait for each
  other, although answers lag and notifications come in between. A handler in gameplay
  reads nothing, so what is resent to it does not count: there the SG itself must be on
  the way, unless the creator is left out of its own start.
- `CountNeverAhead`: counting what it will still take for a notification, the creator
  counts no more players than have asked to join. `CredentialsExplained`: its game ID and
  password are wrong only if somebody joined before its CG was answered, and only then
  does the server exit over a wrong password.
- `StartHandledFirst`, `StartHonoured`, `StartDelivered`: the SG is ahead of everything the
  start loop resends, the creator that asks for the start gets into the race, and so does
  each joiner that waits when an SG is on its way. A joiner that is still before its JG
  answer takes the SG for that answer and loses it; no text of the repository
  speaks of that case.
- `MessagesCarryOver`: each deserialize function reads whole fields where the serialize
  function put them, for all counts up to a full game, and every message fits into the
  buffer for that many players.
- `HeapExact`: no node or record is lost, listed twice or listed after it was freed, and of
  removed clients and games no field but the client's `action` stays allocated.
  `CrashExplained` names the only two ways to a stray access, `SocketsClosed` the only way
  a removal leaves a socket open.
- `DuplicatesFound`: two duplicates, in the sense of the help text under the flags given,
  are printed in one group unless one was missed for a reason `Missed` lists.
  The converse does not hold: files with equal hashes are printed together, such as
  a file `a` of two bytes and a file `b` of one. `ResultTells`: the exit status is about the
  starting directory only.

Why these bounds are enough to be interesting. Room for two of three connections
makes accepts, denials and removals overlap at the limit. One slot per game lets two
players already overflow `g_clients`; one creator may get no socket, so sends fail
without a client that leaves. Two creators are what the `++game_id` race, two
listed games and the second bind need. A third pooled connection waits while both
threads are busy; with two in the queue head and tail differ. The IDs need no bound:
each connection is accepted once and creates at most one game. In the chat room a client
whose name is refused closes its descriptor while a second one accepts it and a third one
speaks, which is all a reused descriptor needs; the echo that `EchoExplained` speaks of
does occur in that run. Two joiners of one creator cross their notifications with the
answers to each other and to the creator. Three nodes are a head, a middle and an end; with
more records than nodes `malloc` can fail, and two records with one ID
make a search stop at the first. The tree has a link to a directory above it, a link to a file, a
directory that cannot be opened, a nested one, a socket, a pipe, an endless device, a file
that cannot be opened, two equal files with different dates, and two that only
hash alike; the first link, its directory, the pipe and the device may vanish. `MaxSpurious` and `MaxLines` are the only bounds on counters. All safety
properties of these runs are also proved for all sizes (section 4).

Symmetry is used in `session_two` (joiners) and `lists` (nodes), where only invariants and
safety properties are checked. `session_two` also restricts the order of steps
(`ClientsFirst`): a client's receive touches only its own end of its connection, so it
commutes with every step of a handler, and it suffices to explore the orders in which
handlers wait until clients have received; CTRL+C may come before or after each receive. The
instance without it has more than 13 million states; `session_live` has every order of
one joiner's steps, and the theorems of section 4 are about `Spec` itself: nothing they
say rests on the reduction. `CHECK_DEADLOCK FALSE` everywhere: the server's process may exit, all
clients may be idle or gone, all threads of the pool may wait, the search ends.

Fairness. `FairSpec` of each server module gives weak fairness to `main` and to each
thread's own steps, taking a mutex included: the scheduler runs every thread, and in
these instances the mutex is held only for bounded sections. Nothing is assumed of
clients: requests, exits and spurious returns need not happen. In `RaceServer` the
delivery of an end of connection is fair (the kernel reports it to a pending `recv`).
`HandlersSettle` and `LostClientsEnd` except the handler that has gone into gameplay,
whose loop never ends, and an exited process. In `ChatServer` a write to a client that
has stopped reading is not fair (`PromptStep`), so `LeaverIsRemoved` says what remains:
removed, or blocked forever. Weak fairness suffices for its mutex because the
lines are bounded; a room that never falls silent could starve a waiting thread. In
`RaceSession` each handler and each client is weakly fair (they are scheduled and TCP
delivers), while nobody has to connect or to press CTRL+C. In `DuplicateFinder` the process
runs (`Step`), and no file has to vanish; nothing writes into a named pipe, so a
search that opens one has stopped for good, as has one that reads an endless device, which
`SearchEnds` excepts.

### Disagreements between code and comments

| Run | What the repository says | What the code does |
|---|---|---|
| `race_start_reach` | server.c:221, the start goes "to every client of the game" | collects at most `MAX_CLIENTS_PER_GAME`, while joins are unlimited |
| `race_start_stray` | server.c:274-275, "to all players of the game" | `++game_id` races, two games share an ID, and the start reaches a player of the other one |
| `race_wrong_removal` | server.c:630, "Remove the client" | removes the first record with the player ID, which can be another client's: the select of gameplay, said at server.c:141-142 to have no timeout, times out after five seconds, and the loop parses its own buffer into the client's player ID |
| `chat_queued` | chat_server.c:211, "Add client to queue." | the count is raised by the threads and compared for equality, so accepts can run past it; the table fills up and a client is served without being in it |
| `pool_available` | server_multi_threaded.c:64, "so that an available thread can find it" | the wait does not test the queue; a signal nobody waits for is lost and the connection stays queued |

## 4. Proofs

TLAPS proves, of the `Spec` of each module and for every value of its constants that
meets the assumptions:

| Module | Assumptions | Properties |
|---|---|---|
| `RaceServer` | `ConstantsAssumption`: finitely many connections, positive limits, distinct mutex owners | `TypeOK`, `RegistryConsistent`, `Capacity`, `OwnRecord`, `RemovalFindsRecord`, `GamePointersListed`, `HandedOutIdResolves`, `ExitExplained`, `ImplementsRoster` |
| `RaceSession` | `SessionAssumption`: finitely many joiners, a start for at least two players, asked for at a count of at least two | `TypeOK`, `StartHandledFirst`, `CountNeverAhead`, `CredentialsExplained`, `AnswerDue`; `MessagesCarryOver` exactly up to seven players in the game |
| `LinkedLists` | `ListAssumption`: finitely many nodes; clients, games and tracks are different structs, none is `NULL`. `CodesAssumption`: a return code is no pointer | `TypeOK`, `HeapExact`, `CrashExplained`, `SocketsClosed`, `ImplementsLists` |
| `ThreadPool` | `PoolAssumption`: the owners of the mutex are distinct; any finite pool, any number of connections | `TypeOK`, `QueueConsistent`, `OnePlace`, `ImplementsLine`; a thread for each queued connection if every signal is heard |
| `ChatServer` | `ChatAssumption`: finitely many connections, at least one slot and one descriptor | `TypeOK`, `RecordsConsistent`, `MissedExplained`, `EchoExplained`, `ImplementsRoom` |
| `DuplicateFinder` | `FinderAssumption`: a finite tree, links with targets, any files that vanish. `ContentAssumption`: any names, sizes, dates and checksums, any table size | `TypeOK`, `EachFileOnce`, `DuplicatesFound`, `ResultTells`; a bound on the steps of a search |

### The race server

The inductive invariant of `RaceServer` is `TypeOK` and

- `LockInv`: the mutex is held exactly by the thread in a critical section;
- `CountInv`: each counter is the length of its list, one more while a handler that
  has unlinked its record has not decremented yet;
- `MainInv`: the one connection main is registering has no thread yet;
- `RoomInv`: the count, plus one from `Accept` to `LinkClient`, is below the limit.
  Between the check and the increment nobody but main can raise the count, so
  `Capacity` needs no lock at the check;
- `ListInv`: a record is linked once, freed only after that, and stays listed while
  its handler runs (`OwnRecord`);
- `IdInv`: player IDs of records that gameplay has not touched are distinct and at most
  `clientId`. `OwnRecord` needs it: the removal goes by ID, so a handler loses its
  record to another one only if two records have one ID;
- `GameplayInv`: the handler in gameplay is the one that listens, so only its player ID
  may have been overwritten;
- `GamesInv`, for the games: a connection's game is on the list from its push on, has a
  positive ID from its store on, and is pushed once per CREATE request.

Most steps change none of this: `StepKinds` and `GameStepKinds` split `Next` into quiet
steps and the few that touch the registry or the games, and the proof treats the latter
one by one. `ServerImplementsRoster` shows that `LinkClient` is `Enter`, `RemoveClient` is
`Depart` and every other step a stutter.

`ExitsExplained` goes through the steps that end the process (`ExitSteps`): each fails in
its own way, and the only fact about the past it needs is `LeftInv`, that a handler is at
its end, and a record freed, only after a client has left.

Of the three disagreements section 3 lists for this server, theorems say what is left of
what the comments promise. `RemovalsExplained`: a handler removes its own client or, once a
gameplay has started, the one client whose player ID that gameplay rewrites.
`StartsReachUnlessCrowded`: a start visits every registered player of its game, unless more
than `MaxPerGame` records have the game's ID or a gameplay has overwritten IDs.
`StraysExplained`: a start leaves its game only for a player of another listed game with the
same ID, again gameplays aside. That it does only because of `++game_id`, `SerialCreationsStayInGame`
says: if no creation begins between the load and the store of another (`OneAtATime`, which
a lock would ensure and the code does not), starts stay in their game until a gameplay
starts. Their invariants are `StartInv` (a client about to start holds the ID of the game it
created, which is still its own) and `SerialInv` (IDs in use are distinct and at most
`game_id`).

### Clients and handlers

`SessionInv` of `RaceSessionProofs` follows the creator through its phases. Until its
game is made it is lock step and nobody else writes to it, because only members of the
game are notified or sent SG: one request (`Sent`) or one answer (`Answered`) is on the
way. From then on only PI requests of its own are ahead of the SG, and the start
loop appends behind it (`StartAhead`): whatever the notifications and lagging answers
are, resending them comes too late to be read before the SG (`Starting`). Joiners
neither create nor start (`JoinersInv`). `StartStaysAhead` is the lemma about queues that
carries it.

The other properties need four more parts:

- `ListInv`: every connection is listed once, a walk stays on the list, a start message
  goes to members;
- `JoinInv`: the stage of each joiner (`Listing`, `Asking`, `Joining`): which requests lie in
  its queue and where its handler is. From the JG on, everything behind it is PI, so a
  handler takes at most one JG from each joiner;
- `CountInv`: while the creator waits, its count, what lies in its stream and is no PI
  answer (`NotPI`), and the CG answer if it is still to be written (`Owed`), together do
  not exceed one more than the joiners whose handlers are past the creator in their walk
  (`Passed`). Each notification belongs to a joiner that has passed, and the creator does
  not count the first message it gets, which it takes for its CG answer, so that lets
  the CG answer itself be counted later. `CountNeverAhead` follows because who has passed
  has had its JG taken;
- `CredInv`: whatever the creator has parsed, it has its own credentials or somebody has
  joined (`Explained`), and each SG on the way carries the credentials it has now.

`AnswerDue` needs the invariant `DueInv` besides: a waiting client has something on the way or
a handler at work (`Due`); the creator is a member before it can start (`CreatorPlays`),
so that a start message to the members reaches the creator too (`StartComes`), unless
`MaxPlayers` others are in the game (`Crowded`): `start_game_response` takes players in the
order of the list and the creator may be behind. So the theorem, `OnlyLeftOutWaitsInVain`,
holds for any number of joiners: a creator left out of its own start is the only client that
ever waits for an answer nobody is to send.

`MessagesCarryOver` is proved from the layouts. A layout is a sequence of fields and the
pointer the sum of their widths, a recursive function over the fields already walked; the
proofs get its equation, and that concatenations add and repetitions multiply (`SizeOfBoth`,
`RepeatSize`), from `CountingUp` and `FlattenEquation`. `HowManyFit` gives the
lengths for every number of games and players: the 512 byte buffer holds a list of 126
games, an UP answer for 8 players, a GI or SG answer for 7. `MAX_CLIENTS_PER_GAME` is 4,
which keeps the answers with players in the buffer wherever the code respects it; games are
never removed from their list, so nothing but the number of clients a server has seen keeps
the list answer there. Reading where it was written (`LayoutsAgree`) holds for every
number; `SevenPlayersCarryOver` joins the two.

### Linked structures

`NodeChains` defines the walk along the next pointers as a recursive function over the
number of nodes walked. What it finds is not provable by the induction theorems of the
library (they take the property as an operator), so `SequenceLemmas` has an induction of
its own: `CountingUp` takes the property as the set of the numbers that have it, and gets
the least number outside from the order of the naturals. From it come `WalkEquation`,
that the walk satisfies its recursive equation, and `ChainIsList`: the chain behind a head
pointer (`IsChain`) is the one list of distinct nodes. So each invariant below speaks of
a sequence of nodes, and `ChainIsList` turns it into the walk the model is written
with. `ChainPush`, `ChainShift`, `ChainUnlink` and `ChainKept` say what one pointer
write does to a chain.

`PoolInv` of the thread pool adds to `TypeOK` what head and tail are between two pointer
writes; `LineInv` that the nodes from `head` on are a list without duplicates (`Linked`)
and that each connection that entered is in it, with one thread or answered (`Placed`).
Each step lets the list rest, appends one node or takes the first (`LineStep`), which is
`OnePlace` and the refinement of `ConnectionLine` at once.

`HeardSignalsReachAll` is about `AvailableThreadFinds`, which `pool_available` refutes: as
long as every signal finds a thread that waits (`Heard`), at least as many threads are on
their way to the queue, woken or about to dequeue, as connections lie in it; while main is
between linking a connection and its signal, one fewer (`Announced`). A thread that finds
the queue empty costs nobody a thread, because then no connection lies in it. So the signal
sent while all threads are busy is the whole cause.

`ListsInv` of `LinkedListsProofs` is `TypeOK` and

- `ShapeInv`: the heap is three chains without a common node or record, which have all
  allocated nodes, each with an allocated record of its kind;
- `MemoryInv`: the fields of clients and games come and go with the record; a track
  lacks fields only after another has left its own behind (`TrackLost`);
- `CrashInv`: the ways to a stray access that `CrashExplained` names.

Each call is a push, a removal of one node or neither (`Push`, `Removed`, `Rested`); the
head, the single node and the node behind another are the cases of `Removed`. The
refinement of `RecordLists` reads the records off the nodes (`Contents`).

### Chat room

The invariant of `ChatServer`, `ChatInv`, says besides the properties: the count is the
number of threads between increment and decrement (`CountInv`, without which the
unsigned counter could wrap), a descriptor refers only to a connection whose record has
it (`FilesInv`, which turns a stale record into the reason of an echo), a thread
broadcasts once more after its last line (`SaidInv`), and the record main has in hand is
not listed yet (`MainInv`). `WhileSending` says what any step may do to a thread in the
middle of a broadcast. From it follow `BroadcastStep`, that every slot passed has got the
message, and the refinement; `MissedIsExplained` adds that a broadcast ends before the last
slot only with a failed write, and that only a write to a lost record fails
(`EndOfSending`, `FailedWriteIsLost`).

`ClientIsQueued`, which `chat_queued` refutes, holds of every execution in which main admits
only when each thread it has created has raised the count (`RestedClientIsQueued`; the
`sleep(1)` of main makes this likely and nothing ensures it). Then the count the guard
reads is that of all clients, so there are fewer of them than slots, and `queue_add` finds
one (`FreeSlotForNew`, by the pigeonhole principle). So the early read of the count is the
whole cause.

### Duplicate finder

`WalkInv` says why the recursion meets nothing twice: what is
still to come of a directory on the stack has not been met, and no file met lies below it
(`RestInv`); what is to come of one directory on the stack is neither to come of another
nor above it (`ApartInv`); a chain holds files of its bucket, each once (`ChainInv`). A link
is not walked, because the bit test is made on the link itself (`DirectoryIsFound`).

`FinderInv` adds why it misses nothing without a reason: every file has been met, is to
come from a directory on the stack, or is missed as `Missed` says (`CompleteInv`; the
directories on the stack lie one in the other, `DirectoriesInv`), and the same of the
starting directory alone with what the walk of it returns (`StatusInv`). When the table
is dumped nothing is to come any more (`DumpInv`). A directory vanishes only with all that was
below it (`EmptiedInv`), so what is missed behind it is gone as well. Two duplicates get the
same hash and so lie in one chain, which is printed because it holds both. For the types, the
hash functions are folds over the bytes whose every round ends in a number (`MixIsNumber`),
so that a bucket lies in the table (`TableInv`).

`SearchIsFinite` bounds every execution, whatever the links and the order of `readdir`:
`StepsLeft` counts four steps for each file still to come, two for each directory on the
stack and one for each file that may yet vanish, and every step decreases it. So the search
cannot run for ever; that it goes on until it has ended is `SearchEnds`, under fairness.
The theorem assumes that `None` is no set of chains, so that it tells a search that has
not printed from one that has.

### What is only model-checked

- Liveness, because it needs ENABLED: `HandlersSettle`, `LostClientsEnd`,
  `TakenIsAnswered`, `LeaverIsRemoved`, `StartHonoured`, `StartDelivered`, `SearchEnds`.
- The five disagreements, each a counterexample on a concrete instance.

## 5. Not modelled, and what could follow

- The branch of `gameplay` that accepts a connection on port + 1: no client of the
  repository makes one. The race itself beyond the first UP datagram, drawing, the choice of
  files, log lines, argument parsing, allocation failure outside the lists: what the race
  server does after a push that failed is not modelled, and no text says what it should do.
- Player names of 20 bytes and more in a message parsed as a GI answer (`ShowInfo`): a
  client could crash over them, and a leaving client is `RaceServer`'s case.
- Renames and files made during a search: what `readdir` says of an entry renamed while
  it reads is not determined, and a directory moved to a place still to be read may be
  walked twice, which is not a question about this code.
- Behaviour the properties except because the code has it and no text promises
  otherwise: a blocked write keeps the room's lock, a count of players stays behind, an
  opened pipe or an endless device stops a search, a lost client ends the race server.
- An SG that overtakes a joiner's GI or JG answer is in `RaceSession` as a behaviour; no
  property speaks of it.
- The name length on which chat client and chat server disagree (`chat_client.c:116`,
  `chat_server.c:106`): a name is good or bad in the model.
- The select server: one reachable state, waiting.
- `race`: its server is the code of `ChatServer` with another backlog; its client is two
  endless loops over one record under one mutex.
- The single-connection programs, the exercises other than the duplicate finder and the
  collected material keep no state between steps that another actor could disturb.

What could follow: a model of sends that TCP splits, under which the 512 byte buffers no
longer keep messages apart; `RaceSession` with players who leave; a composition of
`LinkedLists` with the locks of `RaceServer`, whose client and game lists are sequences with
a push in two steps.
