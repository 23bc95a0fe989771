----------------------------- MODULE RaceSession -----------------------------
(***************************************************************************)
(* One session of race_2 from both ends: a client that creates a game, the *)
(* clients that join it, and the server's handler threads, joined by TCP   *)
(* connections that keep order.  A client is lock step: it sends one       *)
(* buffer and takes whatever buffer comes next for the answer.  The server *)
(* is not: it sends notifications, join answers and start messages on its  *)
(* own, so what a client takes for an answer may be something else.        *)
(*                                                                         *)
(* A client's step is one receive, its parse and the next send.  A         *)
(* handler's step ends wherever another thread can tell a difference.      *)
(* Leaving clients, a second game and the list nodes are RaceServer's.     *)
(***************************************************************************)
EXTENDS RaceMessages, Naturals, FiniteSets, Sequences, SequencesExt

CONSTANTS
  Creator,     \* the client whose user answers CREATE
  Joiners,     \* the clients whose users answer JOIN
  MaxPlayers,  \* MAX_CLIENTS_PER_GAME: the players a start message goes to
  FullCount    \* the 4 of client.c: the p_count at which the creator starts

Clients == {Creator} \cup Joiners

ASSUME SessionAssumption ==
  /\ Creator \notin Joiners /\ IsFiniteSet(Joiners)
  /\ {MaxPlayers, FullCount} \subseteq Nat \ {0, 1}

VARIABLES
  server,       \* "up", or why the process exited
  list,         \* clients_start: the connections in order
  listed,       \* whether the game is on games_start
  members,      \* the clients whose record on the server points to the game
  hpc,          \* where the handler of a client is
  pos,          \* the place in the list of a join's notifications
  left,         \* the kind of message left in the buffer of a handler
  todo,         \* the players a start message still has to be sent to
  toServer,     \* the requests on the way, per client
  toClient,     \* the messages on the way, per client
  cpc,          \* which answer a client waits for
  chosen,       \* the game ID a joiner asks for, 0 without games
  credentials,  \* whether game ID and password of the creator are its own
  pcount,       \* p_count of the creator
  startSig      \* start_game_sig: the creator's user has pressed CTRL+C

handlers == <<server, list, listed, members, hpc, pos, left, todo>>
users == <<cpc, chosen, credentials, pcount, startSig>>
vars == <<handlers, toServer, toClient, users>>

Kinds == {"NF", "FI", "CG", "LI", "GI", "JG", "PI", "NOTIFY", "SG", "blank"}
Msg(k) == [kind |-> k, count |-> 0]
Request(t) == [type |-> t, game |-> 0, own |-> FALSE]
Waiting == {"fields", "field", "create", "wait", "start", "list", "info", "join", "joined"}

TypeOK ==
  /\ server \in {"up", "unknownGame", "wrongPassword"}
  /\ list \in Seq(Clients) /\ listed \in BOOLEAN /\ members \subseteq Clients
  /\ hpc \in [Clients -> {"none", "recv", "cgAssign", "cgReply", "giReply", "jgReply",
                          "walk", "sgSend", "gameplay"}]
  /\ pos \in [Clients -> 1..Cardinality(Clients) + 1]
  /\ left \in [Clients -> {"blank", "NOTIFY"}]
  /\ todo \in Seq(Clients)
  /\ toServer \in [Clients -> Seq([type : Kinds \ {"NOTIFY", "blank"}, game : 0..1, own : BOOLEAN])]
  /\ toClient \in [Clients -> Seq([kind : Kinds, count : 0..1])]
  /\ cpc \in [Clients -> Waiting \cup {"none", "racing", "updating", "exit"}]
  /\ chosen \in [Joiners -> 0..1]
  /\ credentials \in BOOLEAN /\ startSig \in BOOLEAN
  /\ pcount \in 1..Cardinality(Clients)

Init ==
  /\ server = "up" /\ list = <<>> /\ listed = FALSE /\ members = {}
  /\ hpc = [c \in Clients |-> "none"] /\ pos = [c \in Clients |-> 1]
  /\ left = [c \in Clients |-> "blank"] /\ todo = <<>>
  /\ toServer = [c \in Clients |-> <<>>] /\ toClient = [c \in Clients |-> <<>>]
  /\ cpc = [c \in Clients |-> "none"] /\ chosen = [c \in Joiners |-> 0]
  /\ credentials = FALSE /\ pcount = 1 /\ startSig = FALSE

-----------------------------------------------------------------------------
(* What a buffer shows to whoever reads it. *)

\* The layout of a message the server sends; the parts that do not matter to
\* a misreading client are left at no players and no games.
Layout(m) ==
  CASE m.kind = "NF" -> WriteNFResponse
    [] m.kind = "FI" -> WriteFIResponse
    [] m.kind = "CG" -> WriteCGResponse
    [] m.kind = "LI" -> WriteLIResponse(m.count)
    [] m.kind = "GI" -> WriteGIResponse(0)
    [] m.kind = "JG" -> WriteJGResponse
    [] m.kind = "NOTIFY" -> WriteNOTIFY
    [] m.kind = "SG" -> WriteSGResponse(1)
    [] OTHER -> Type

\* The first two bytes: join_game_response notifies under the type NF.
TypeOfItsOwn(m) == m.kind
TypeOf(m) == IF m.kind = "NOTIFY" THEN "NF" ELSE m.kind

\* deserialize_msg_CG_response finds the game ID and the password it needs.
OwnCredentials(m) ==
  \A i \in DOMAIN ReadCGResponse :
     ReadCGResponse[i].name \in {"gameId", "password"}
       => ReadWhole(Layout(m), ReadCGResponse, i)

\* deserialize_msg_NOTIFY finds a name that is not empty: some field of the
\* message covers its first byte.
ShowsName(m) ==
  LET name == CHOOSE i \in DOMAIN ReadNOTIFY : ReadNOTIFY[i].name = "playerName"
      first == Offset(ReadNOTIFY, name)
  IN  \E j \in DOMAIN Layout(m) : /\ Offset(Layout(m), j) <= first
                                  /\ first < Offset(Layout(m), j) + Layout(m)[j].width

-----------------------------------------------------------------------------
(* The handler of a client: where it is, and what it sends. *)

At(c, p) == server = "up" /\ hpc[c] = p
Goto(c, p) == hpc' = [hpc EXCEPT ![c] = p]
Reply(c, m) == toClient' = [toClient EXCEPT ![c] = Append(@, m)]

-----------------------------------------------------------------------------
(* The clients. *)

\* send_n_recv: the next buffer that arrives is the answer to the last one.
Receive(c, m) ==
  /\ server = "up" /\ m = Head(toClient[c])
  /\ toClient' = [toClient EXCEPT ![c] = Tail(@)]

Send(c, r, next) ==
  /\ toServer' = [toServer EXCEPT ![c] = Append(@, r)]
  /\ cpc' = [cpc EXCEPT ![c] = next]

\* connect and accept; the user of the client has chosen what to do.
Connect(c) ==
  /\ At(c, "none")
  /\ list' = Append(list, c) /\ hpc' = [hpc EXCEPT ![c] = "recv"]
  /\ IF c = Creator THEN Send(c, Request("NF"), "fields") ELSE Send(c, Request("LI"), "list")
  /\ UNCHANGED <<server, listed, members, pos, left, todo, toClient, chosen, credentials,
                 pcount, startSig>>

\* get_number_of_fields and the first half of create_game.
ChooseField(m) ==
  /\ \/ cpc[Creator] = "fields" /\ Send(Creator, Request("FI"), "field")
     \/ cpc[Creator] = "field" /\ Send(Creator, Request("CG"), "create")
  /\ Receive(Creator, m)
  /\ UNCHANGED <<handlers, chosen, credentials, pcount, startSig>>

\* The answer to CG is taken, and the creator starts to wait for players.
Created(m) ==
  /\ cpc[Creator] = "create" /\ Receive(Creator, m)
  /\ credentials' = OwnCredentials(m)
  /\ Send(Creator, Request("PI"), "wait")
  /\ UNCHANGED <<handlers, chosen, pcount, startSig>>

\* CTRL+C while control_c_safe is set asks for the start.
ControlC ==
  /\ cpc[Creator] = "wait" /\ ~startSig /\ startSig' = TRUE
  /\ UNCHANGED <<handlers, toServer, toClient, cpc, chosen, credentials, pcount>>

CountedAlways(m) == pcount + 1
Counted(m) == IF ShowsName(m) THEN pcount + 1 ELSE pcount

StartDue(n) == n = FullCount \/ startSig

WaitForPlayersNoStart(m) ==
  /\ cpc[Creator] = "wait" /\ Receive(Creator, m)
  /\ pcount' = Counted(m)
  /\ Send(Creator, Request("PI"), IF StartDue(Counted(m)) THEN "start" ELSE "wait")
  /\ UNCHANGED <<handlers, chosen, credentials, startSig>>

\* One round of the creator's waiting loop: a notification is counted, and
\* either another PI goes out or the start.
WaitForPlayers(m) ==
  /\ cpc[Creator] = "wait" /\ Receive(Creator, m)
  /\ pcount' = Counted(m)
  /\ IF StartDue(Counted(m))
     THEN Send(Creator, [type |-> "SG", game |-> 1, own |-> credentials], "start")
     ELSE Send(Creator, Request("PI"), "wait")
  /\ UNCHANGED <<handlers, chosen, credentials, startSig>>

\* The start loop sends the buffer again, which by now holds what came last.
ResendUntilStart(m) ==
  /\ cpc[Creator] = "start" /\ Receive(Creator, m)
  /\ IF m.kind = "SG"
     THEN cpc' = [cpc EXCEPT ![Creator] = "racing"] /\ UNCHANGED toServer
     ELSE Send(Creator, Request(TypeOf(m)), "start")
  /\ UNCHANGED <<handlers, chosen, credentials, pcount, startSig>>

\* list_games up to the request for more about the chosen game; without a
\* game it returns 0, which join_game then asks for.
ChooseGame(c, m) ==
  /\ cpc[c] = "list" /\ Receive(c, m)
  /\ chosen' = [chosen EXCEPT ![c] = m.count]
  /\ IF m.count = 0
     THEN Send(c, Request("JG"), "join")
     ELSE Send(c, [Request("GI") EXCEPT !.game = 1], "info")
  /\ UNCHANGED <<handlers, credentials, pcount, startSig>>

\* Whatever comes is parsed as the game info, and the join goes out.  A
\* notification or start message shows bytes of a player's name for the number
\* of players: 0 for names of less than 20 bytes.  With a longer one the loop
\* over the players may crash the client, which then leaves as RaceServer's do.
ShowInfo(c, m) ==
  /\ cpc[c] = "info" /\ Receive(c, m)
  /\ Send(c, [Request("JG") EXCEPT !.game = chosen[c]], "join")
  /\ UNCHANGED <<handlers, chosen, credentials, pcount, startSig>>

Joined(c, m) ==
  /\ cpc[c] = "join" /\ Receive(c, m)
  /\ Send(c, Request("PI"), "joined")
  /\ UNCHANGED <<handlers, chosen, credentials, pcount, startSig>>

WaitForStartDeaf(c, m) ==
  /\ cpc[c] = "joined" /\ Receive(c, m)
  /\ Send(c, Request("PI"), "joined")
  /\ UNCHANGED <<handlers, chosen, credentials, pcount, startSig>>

\* One round of the joiner's waiting loop.
WaitForStart(c, m) ==
  /\ cpc[c] = "joined" /\ Receive(c, m)
  /\ IF m.kind = "SG"
     THEN cpc' = [cpc EXCEPT ![c] = "racing"] /\ UNCHANGED toServer
     ELSE Send(c, Request("PI"), "joined")
  /\ UNCHANGED <<handlers, chosen, credentials, pcount, startSig>>

\* start_game: the update is a datagram to a port on which the server only
\* listens for connections, and recvfrom waits for its answer.
UpdatePlayer(c) ==
  /\ cpc[c] = "racing" /\ cpc' = [cpc EXCEPT ![c] = "updating"]
  /\ UNCHANGED <<handlers, toServer, toClient, chosen, credentials, pcount, startSig>>

\* The server has exited: the next sends fail, and with them the clients, in
\* an order nobody can observe.
ServerGone ==
  /\ server # "up" /\ \E c \in Clients : cpc[c] \in Waiting
  /\ cpc' = [c \in Clients |-> IF cpc[c] \in Waiting THEN "exit" ELSE cpc[c]]
  /\ UNCHANGED <<handlers, toServer, toClient, chosen, credentials, pcount, startSig>>

CreatorStep ==
  toClient[Creator] # <<>> /\ LET m == Head(toClient[Creator]) IN
     ChooseField(m) \/ Created(m) \/ WaitForPlayers(m) \/ ResendUntilStart(m)

JoinerStep(c) ==
  toClient[c] # <<>> /\ LET m == Head(toClient[c]) IN
     ChooseGame(c, m) \/ ShowInfo(c, m) \/ Joined(c, m) \/ WaitForStart(c, m)

-----------------------------------------------------------------------------
(* The handlers of the server. *)

Take(c, t) ==
  /\ At(c, "recv") /\ toServer[c] # <<>> /\ Head(toServer[c]).type = t
  /\ toServer' = [toServer EXCEPT ![c] = Tail(@)]

\* Requests answered from what does not change, and PI, which is sent back.
Answer(c) ==
  /\ \E t \in {"NF", "FI", "PI"} : Take(c, t) /\ Reply(c, Msg(t))
  /\ UNCHANGED <<handlers, users>>

ListGames(c) ==
  /\ Take(c, "LI")
  /\ Reply(c, [Msg("LI") EXCEPT !.count = IF listed THEN 1 ELSE 0])
  /\ UNCHANGED <<handlers, users>>

\* init_game has put the game on the list; only then is it assigned to its
\* creator, and only then is the answer sent.
CreateGame(c) ==
  /\ Take(c, "CG") /\ listed' = TRUE /\ Goto(c, "cgAssign")
  /\ UNCHANGED <<server, list, members, pos, left, todo, toClient, users>>

AssignCreated(c) ==
  /\ At(c, "cgAssign") /\ members' = members \cup {c} /\ Goto(c, "cgReply")
  /\ UNCHANGED <<server, list, listed, pos, left, todo, toServer, toClient, users>>

ReplyCreated(c) ==
  /\ At(c, "cgReply") /\ Reply(c, Msg("CG")) /\ Goto(c, "recv")
  /\ UNCHANGED <<server, list, listed, members, pos, left, todo, toServer, users>>

\* game_info_response already makes the client a player of the game.
GameInfo(c) ==
  /\ Take(c, "GI") /\ Head(toServer[c]).game = 1
  /\ members' = members \cup {c} /\ Goto(c, "giReply")
  /\ UNCHANGED <<server, list, listed, pos, left, todo, toClient, users>>

ReplyInfoForgotten(c) ==
  /\ At(c, "giReply") /\ Goto(c, "recv")
  /\ UNCHANGED <<server, list, listed, members, pos, left, todo, toServer, toClient, users>>

ReplyInfo(c) ==
  /\ At(c, "giReply") /\ Reply(c, Msg("GI")) /\ Goto(c, "recv")
  /\ UNCHANGED <<server, list, listed, members, pos, left, todo, toServer, users>>

JoinGame(c) ==
  /\ Take(c, "JG")
  /\ IF Head(toServer[c]).game = 1
     THEN members' = members \cup {c} /\ Goto(c, "jgReply") /\ UNCHANGED server
     ELSE server' = "unknownGame" /\ UNCHANGED <<members, hpc>>
  /\ UNCHANGED <<list, listed, pos, left, todo, toClient, users>>

\* join_game_response sends its answer itself.
ReplyJoin(c) ==
  /\ At(c, "jgReply") /\ Reply(c, Msg("JG")) /\ Goto(c, "walk")
  /\ UNCHANGED <<server, list, listed, members, pos, left, todo, toServer, users>>

\* The next client of the list: the buffer is cleared, and a notification is
\* written into it and sent if the client is another player of the game.
Notified(c, n) == n # c /\ n \in members

Notify(c) ==
  /\ At(c, "walk") /\ pos[c] <= Len(list)
  /\ pos' = [pos EXCEPT ![c] = @ + 1]
  /\ LET n == list[pos[c]] IN
     IF Notified(c, n)
     THEN left' = [left EXCEPT ![c] = "NOTIFY"] /\ Reply(n, Msg("NOTIFY"))
     ELSE left' = [left EXCEPT ![c] = "blank"] /\ UNCHANGED toClient
  /\ UNCHANGED <<server, list, listed, members, hpc, todo, toServer, users>>

\* Back in handle_client the buffer is sent once more, whatever is in it, and
\* cleared.
SendLeftover(c) ==
  /\ At(c, "walk") /\ pos[c] > Len(list)
  /\ Reply(c, Msg(left[c])) /\ Goto(c, "recv")
  /\ pos' = [pos EXCEPT ![c] = 1] /\ left' = [left EXCEPT ![c] = "blank"]
  /\ UNCHANGED <<server, list, listed, members, todo, toServer, users>>

PlayersButStarter ==
  SelectSeq(list, LAMBDA n : n \in members \ {Creator})

\* The players start_game_response collects: the first of the list.
Players ==
  LET collected[n \in 0..Len(list)] ==
        IF n = 0 THEN <<>>
        ELSE IF list[n] \in members /\ Len(collected[n - 1]) < MaxPlayers
             THEN Append(collected[n - 1], list[n])
             ELSE collected[n - 1]
  IN  collected[Len(list)]

StartGame(c) ==
  /\ Take(c, "SG")
  /\ IF Head(toServer[c]).own
     THEN todo' = Players /\ Goto(c, "sgSend") /\ UNCHANGED server
     ELSE server' = "wrongPassword" /\ UNCHANGED <<todo, hpc>>
  /\ UNCHANGED <<list, listed, members, pos, left, toClient, users>>

SendStart(c) ==
  /\ At(c, "sgSend") /\ todo # <<>>
  /\ Reply(Head(todo), Msg("SG")) /\ todo' = Tail(todo)
  /\ UNCHANGED <<server, list, listed, members, hpc, pos, left, toServer, users>>

\* gameplay never returns: this client's requests are not read any more.
EnterGameplay(c) ==
  /\ At(c, "sgSend") /\ todo = <<>> /\ Goto(c, "gameplay")
  /\ UNCHANGED <<server, list, listed, members, pos, left, todo, toServer, toClient, users>>

HandlerStep(c) ==
  \/ Answer(c) \/ ListGames(c)
  \/ CreateGame(c) \/ AssignCreated(c) \/ ReplyCreated(c)
  \/ GameInfo(c) \/ ReplyInfo(c)
  \/ JoinGame(c) \/ ReplyJoin(c) \/ Notify(c) \/ SendLeftover(c)
  \/ StartGame(c) \/ SendStart(c) \/ EnterGameplay(c)

Next ==
  \/ CreatorStep \/ ControlC \/ ServerGone
  \/ \E c \in Joiners : JoinerStep(c)
  \/ \E c \in Clients : Connect(c) \/ HandlerStep(c) \/ UpdatePlayer(c)

Spec == Init /\ [][Next]_vars

\* The threads of the server and the client processes are scheduled, and TCP
\* delivers; nobody has to connect or to press CTRL+C.
FairSpec ==
  /\ Spec
  /\ WF_vars(CreatorStep) /\ WF_vars(ServerGone)
  /\ \A c \in Joiners : WF_vars(JoinerStep(c))
  /\ \A c \in Clients : WF_vars(HandlerStep(c)) /\ WF_vars(UpdatePlayer(c))

-----------------------------------------------------------------------------
(* What holds of the session. *)

Holds(q, k) == \E i \in DOMAIN q : q[i].kind = k

\* The joiners whose JG the server has taken up.
JoinTaken ==
  {j \in Joiners : /\ cpc[j] \in {"join", "joined", "racing", "updating"}
                   /\ \A i \in DOMAIN toServer[j] : toServer[j][i].type # "JG"}

\* The places in a queue of what the creator counts.
ToCount(q) == {i \in DOMAIN q : ShowsName(q[i])}

\* The game has more players besides its creator than a start message goes to.
Crowded == Cardinality(members \ {Creator}) >= MaxPlayers

\* The creator was not among the players its start was sent to, and its
\* handler reads no more: the one client that waits in vain.
LeftOut(c) == c = Creator /\ cpc[c] = "start" /\ hpc[c] = "gameplay" /\ Crowded

\* No client and handler wait for each other: a client in its recv has a
\* message on the way, a request on the way to a handler that will read it, or
\* a handler at work for it, although answers, notifications and start
\* messages share one stream (send_n_recv against handle_client).  A handler
\* in gameplay reads nothing, so what the start loop resends there does not
\* count: the start message itself has to be on the way, unless the creator
\* is left out of its own start.
AnswerDue ==
  \A c \in Clients : cpc[c] \in Waiting /\ server = "up" =>
     IF hpc[c] = "gameplay"
     THEN Holds(toClient[c], "SG") \/ LeftOut(c)
     ELSE toClient[c] # <<>> \/ toServer[c] # <<>> \/ hpc[c] # "recv"

\* The start loop resends answers as if they were requests; the SG it sent
\* first is ahead of all of them, and once it is taken none is ever read.
StartHandledFirst ==
  cpc[Creator] = "start" /\ server = "up" =>
     \/ hpc[Creator] \in {"sgSend", "gameplay"}
     \/ \E i \in DOMAIN toServer[Creator] :
           /\ toServer[Creator][i].type = "SG"
           /\ \A k \in 1..i - 1 : toServer[Creator][k].type = "PI"

\* The creator never counts more players than have joined, counting what it
\* will still take for a notification: a join's notification, a lagging
\* answer and the creator's own CG answer go through the same parse.
CountNeverAhead ==
  server = "up" /\ cpc[Creator] = "wait" =>
     pcount - 1 + Cardinality(ToCount(toClient[Creator])) <= Cardinality(JoinTaken)

\* The creator's game ID and password are the ones the server gave it unless
\* somebody joined before its CG was answered; and the server exits over a
\* wrong password for no other reason.
CredentialsExplained ==
  /\ server = "up" /\ cpc[Creator] \in {"wait", "start"} /\ ~credentials => JoinTaken # {}
  /\ server = "wrongPassword" => ~credentials /\ \E j \in Joiners : chosen[j] = 1

\* The counts of players and games a message may carry: those of a full game
\* (MAX_CLIENTS_PER_GAME is 4) and of the game as it is.
Counts == 0..4 \cup {Cardinality(members)}

\* Every deserialize function reads whole fields, each where the serialize
\* function of the same message puts it, for every number of players.
LayoutsAgree ==
  /\ Agree(WriteCG, ReadCG) /\ Agree(WriteCGResponse, ReadCGResponse)
  /\ Agree(WriteNFResponse, ReadNFResponse)
  /\ Agree(WriteFI, ReadFI) /\ Agree(WriteFIResponse, ReadFIResponse)
  /\ Agree(WriteGI, ReadGI) /\ Agree(WriteJG, ReadJG) /\ Agree(WriteJGResponse, ReadJGResponse)
  /\ Agree(WriteNOTIFY, ReadNOTIFY) /\ Agree(WriteSG, ReadSG) /\ Agree(WriteUP, ReadUP)
  /\ \A n \in Counts :
        /\ Agree(WriteLIResponse(n), ReadLIResponse(n)) /\ Agree(WriteGIResponse(n), ReadGIResponse(n))
        /\ Agree(WriteSGResponse(n), ReadSGResponse(n)) /\ Agree(WriteUPResponse(n), ReadUPResponse(n))

\* Every message fits into the buffer of MAX_BUFFER_SIZE bytes with as many
\* players as a game has (serialize functions test no length).
MessagesFit ==
  /\ \A l \in {WriteCG, WriteFIResponse, WriteSG, WriteUP, WriteNOTIFY, WriteJGResponse} :
        Size(l) <= MAX_BUFFER_SIZE
  /\ \A n \in Counts : \A l \in {WriteGIResponse(n), WriteSGResponse(n), WriteUPResponse(n)} :
        Size(l) <= MAX_BUFFER_SIZE

\* What a client or handler reads is what the other side wrote, whole.
MessagesCarryOver == LayoutsAgree /\ MessagesFit

\* A creator that wants to start gets into the race, whatever it still has to
\* read before the SG, unless the server exits.
StartHonoured ==
  cpc[Creator] = "start" ~> cpc[Creator] \in {"racing", "updating"} \/ server # "up"

\* A joiner that waits when a start message is sent to it gets into the race,
\* however far its answers lag behind its requests, unless the server exits.
StartDelivered ==
  \A c \in Joiners :
     cpc[c] = "joined" /\ (c \in ToSet(todo) \/ Holds(toClient[c], "SG"))
       ~> cpc[c] \in {"racing", "updating"} \/ server # "up"
=============================================================================
