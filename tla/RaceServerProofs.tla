--------------------------- MODULE RaceServerProofs ---------------------------
(***************************************************************************)
(* Proofs about RaceServer for any number of connections, any capacity and *)
(* any choice of creators and quitters.  First the inductive invariant,    *)
(* part by part, and the proof that every step keeps the types; then the   *)
(* registry: the client list with its lock, its counter and its player     *)
(* IDs; then the game list: the games that records point at, the game IDs  *)
(* clients hold, and why the server ever exits over an unknown game; last  *)
(* removals and starts: whose record goes and whom a start reaches.        *)
(***************************************************************************)
EXTENDS RaceServer, SequenceLemmas, TLAPS

Unseen == {"none", "denied"}

\* The owner of clients_mutex, and the counters beside the lists.
LockInv ==
  /\ mutex = Main <=> mainpc = "fill"
  /\ \A c \in Conns : mutex = c <=> pc[c] \in Critical
CountInv ==
  /\ clientCount = Len(clients) + (IF \E c \in Conns : pc[c] = "leaving" THEN 1 ELSE 0)
  /\ gameCount = Len(games)

\* The one connection main is registering has no thread yet.
MainInv ==
  /\ mainpc = "accept" => newConn = NoConn
  /\ mainpc # "accept" => newConn \in Conns /\ pc[newConn] = "new"
  /\ \A c \in Conns : pc[c] = "new" => newConn = c

\* One place of the last slot is taken from the accept until the record is linked.
RoomInv == clientCount + (IF mainpc = "link" THEN 1 ELSE 0) < MaxClients

\* A record is linked once, when main fills its node, and freed after that only.
ListInv ==
  /\ \A c \in ToSet(clients) \cup freed :
       pc[c] \notin Unseen /\ (pc[c] = "new" => mainpc = "fill")
  /\ mainpc = "fill" => newConn \in ToSet(clients)
  /\ OwnRecord

\* Player IDs are distinct, those gameplay has overwritten aside.
IdInv ==
  /\ \A c \in Conns : pc[c] \notin Unseen /\ c # listening => pid[c] <= clientId
  /\ \A c, d \in Conns :
       /\ pc[c] \notin Unseen /\ pc[d] \notin Unseen
       /\ c # listening /\ d # listening /\ pid[c] = pid[d]
       => c = d

GameplayInv == \A c \in Conns : pc[c] = "gp" <=> listening = c

RegistryInv == LockInv /\ CountInv /\ MainInv /\ RoomInv /\ ListInv /\ IdInv /\ GameplayInv

\* A connection is on the game list from the push of its game on.
GamesInv ==
  \A c \in Conns :
    /\ c \in ToSet(games) => \/ pc[c] \in {"cgFill", "cgAssign"}
                             \/ pc[c] \notin {"cgStore", "cgLink"} /\ stage[c] # "CG"
    /\ pc[c] \in {"cgFill", "cgAssign"} => c \in ToSet(games)
    /\ pc[c] \in {"cgStore", "cgLink", "cgFill", "cgAssign"} => stage[c] = "CG"
    /\ stage[c] \in {"NF", "FI"} => c \notin ToSet(games)
    /\ pc[c] = "cgLink" \/ c \in ToSet(games) => listening # NoConn \/ gid[c] > 0
    /\ listening = NoConn /\ stage[c] = "GI" => pick[c] # 0

GameInv == GamesInv /\ GamePointersListed /\ HandedOutIdResolves

\* The program counters by name.
LEMMA Places ==
  /\ "denied" \in PcSet /\ "new" \in PcSet /\ "idle" \in PcSet /\ "reply" \in PcSet
  /\ "cgStore" \in PcSet /\ "cgLink" \in PcSet /\ "cgFill" \in PcSet
  /\ "cgAssign" \in PcSet /\ "giCollect" \in PcSet /\ "giAssign" \in PcSet
  /\ "jgAssign" \in PcSet /\ "jgReply" \in PcSet /\ "jgVisit" \in PcSet
  /\ "jgNext" \in PcSet /\ "sgSend" \in PcSet /\ "gp" \in PcSet
  /\ "leave" \in PcSet /\ "leaving" \in PcSet /\ "done" \in PcSet
  /\ "FI" \in Stages /\ "CG" \in Stages /\ "SG" \in Stages /\ "GI" \in Stages
  /\ "JG" \in Stages /\ "PI" \in Stages
BY DEF PcSet, Stages

\* The process exits.
Dies == \E x \in Causes : Die(x)

LEMMA DyingSteps ==
  ASSUME NEW c \in Conns, ThreadDies(c) \/ RequestDies(c) \/ ReceiveDies(c)
  PROVE  Dies
<1>1. \A x \in {"noGame", "password", "port", "recv", "send", "notFound", "segv"} : Die(x) => Dies
  BY DEF Dies, Causes
<1>2. \A n : SendFails(n) => Dies
  BY <1>1 DEF SendFails
<1>. QED
  BY <1>1, <1>2 DEF ThreadDies, RequestDies, ReceiveDies, ReplyDies, CollectDies,
       ShowGameDies, ReplyJoinDies, NotifyDies, NextPlayerDies, SendStartDies, OpenGameplayDies,
       ParseBufferDies, ListGamesDies, FindGameDies, StartGameDies

\* A game ID is a number.
LEMMA GameIdType == ASSUME TypeOK, NEW c \in Conns PROVE GameIdOf(c) \in Nat
BY DEF TypeOK, GameIdOf

\* get_game_by_id returns a listed game with the wanted ID, or none when there is none.
LEMMA GameByIdFinds ==
  ASSUME TypeOK, NEW id
  PROVE  /\ GameById(id) # NoConn =>
              \E i \in DOMAIN games : games[i] = GameById(id) /\ gid[games[i]] = id
         /\ (\E i \in DOMAIN games : gid[games[i]] = id) => GameById(id) # NoConn
         /\ GameById(id) \in Conns \cup {NoConn}
<1>. DEFINE I == {i \in 1..Len(games) : gid[games[i]] = id}
<1>1. DOMAIN games = 1..Len(games) /\ \A i \in 1..Len(games) : games[i] \in Conns
  BY LenProperties, ElementOfSeq DEF TypeOK
<1>2. I \subseteq Nat
  BY LenProperties DEF TypeOK
<1>3. I # {} => Min(I) \in I
  BY <1>2, MinOfNaturals, Zenon
<1>4. SelectInSeq(games, LAMBDA g : gid[g] = id) = IF I # {} THEN Min(I) ELSE 0
  BY Zenon DEF SelectInSeq
<1>. DEFINE m == Min(I)
<1>5. I # {} => m \in 1..Len(games) /\ gid[games[m]] = id /\ m # 0
  <2>1. \A i \in I : i \in 1..Len(games) /\ gid[games[i]] = id /\ i # 0
    BY LenProperties DEF TypeOK
  <2>2. I # {} => m \in I
    BY <1>3
  <2>. HIDE DEF I, m
  <2>. QED  BY <2>1, <2>2
<1>6. I = {} => \A i \in 1..Len(games) : gid[games[i]] # id
  OBVIOUS
<1>7. SelectInSeq(games, LAMBDA g : gid[g] = id) = IF I # {} THEN m ELSE 0
  BY <1>4
<1>. HIDE DEF m
<1>8. I # {} => GameById(id) = games[m]
  BY <1>5, <1>7 DEF GameById
<1>9. I = {} => GameById(id) = NoConn
  BY <1>7 DEF GameById
<1>. HIDE DEF I
<1>. QED  BY <1>1, <1>5, <1>6, <1>8, <1>9, ConstantsAssumption DEF ConstantsAssumption

\* remove_by_client_id finds a record with the wanted ID when there is one.
LEMMA FirstRecordFinds ==
  ASSUME TypeOK, NEW id
  PROVE  /\ FirstRecord(id) # 0 =>
              FirstRecord(id) \in 1..Len(clients) /\ pid[clients[FirstRecord(id)]] = id
         /\ (\E i \in 1..Len(clients) : pid[clients[i]] = id) => FirstRecord(id) # 0
<1>. DEFINE I == {i \in 1..Len(clients) : pid[clients[i]] = id}
            m == Min(I)
<1>1. FirstRecord(id) = IF I # {} THEN m ELSE 0
  BY Zenon DEF FirstRecord, SelectInSeq
<1>2. I \subseteq Nat
  BY LenProperties DEF TypeOK
<1>3. I # {} => m \in I
  BY <1>2, MinOfNaturals, Zenon
<1>. HIDE DEF m
<1>4. I # {} => m \in 1..Len(clients) /\ pid[clients[m]] = id /\ m # 0
  <2>1. \A i \in I : i \in 1..Len(clients) /\ pid[clients[i]] = id /\ i # 0
    BY LenProperties DEF TypeOK
  <2>. HIDE DEF I
  <2>. QED  BY <1>3, <2>1
<1>5. I = {} => \A i \in 1..Len(clients) : pid[clients[i]] # id
  OBVIOUS
<1>. HIDE DEF I
<1>. QED  BY <1>1, <1>4, <1>5

\* The walk over the client list meets records only.
LEMMA NextNodeType == ASSUME TypeOK, NEW n PROVE NextNode(n) \in Conns \cup {NoConn}
<1>1. \A i \in 1..(Len(clients) - 1) : clients[i + 1] \in Conns
  <2>1. ASSUME NEW i \in 1..(Len(clients) - 1) PROVE clients[i + 1] \in Conns
    <3>1. i + 1 \in 1..Len(clients)  BY LenProperties DEF TypeOK
    <3>. QED  BY <3>1, ElementOfSeq DEF TypeOK
  <2>. QED  BY <2>1
<1>. QED  BY <1>1 DEF NextNode

\* The numbers of the SG message are numbers.
LEMMA FirstIdSentType == ASSUME TypeOK, NEW id PROVE FirstIdSent(id) \in Nat
<1>1. Members(id) \subseteq 1..Len(clients)
  BY LenProperties DEF Members, TypeOK
<1>2. Members(id) # {} => Min(Members(id)) \in 1..Len(clients)
  <2>1. Members(id) \subseteq Nat
    BY <1>1, LenProperties DEF TypeOK
  <2>. QED  BY <1>1, <2>1, MinOfNaturals
<1>3. \A i \in 1..Len(clients) : pid[clients[i]] \in Nat
  BY ElementOfSeq DEF TypeOK
<1>. QED  BY <1>2, <1>3 DEF FirstIdSent

\* The records collected from the list are records.
LEMMA PlayersType ==
  ASSUME TypeOK, NEW P, P \subseteq DOMAIN clients
  PROVE  {clients[i] : i \in P} \subseteq Conns
BY ElementOfSeq, LenProperties DEF TypeOK

LEMMA SubsetSize == ASSUME NEW T, T \subseteq Conns PROVE Cardinality(T) \in Nat
BY ConstantsAssumption, FS_Subset, FS_CardinalityType DEF ConstantsAssumption

LEMMA TypeStep ==
  ASSUME TypeOK, MainInv, CountInv, ListInv, [Next]_vars, ~Dies
  PROVE  TypeOK'
<1>. USE Places DEF At, Goto, SetStage, Request, Lock, Unlock, Push, registry, gameList,
           locals, script, TypeOK
<1>1. ASSUME NEW c \in Conns, Deny(c) PROVE TypeOK'
  BY <1>1 DEF Deny
<1>2. ASSUME NEW c \in Conns, Accept(c) PROVE TypeOK'
  <2>1. clientId + 1 \in Nat
    BY <1>2
  <2>2. pid' \in [Conns -> Nat] /\ clientId' \in Nat
    BY <1>2, <2>1 DEF Accept, NewPlayerId
  <2>. QED  BY <1>2, <2>1, <2>2 DEF Accept
<1>3. CASE LinkClient
  <2>1. newConn \in Conns
    BY <1>3 DEF LinkClient, MainInv
  <2>2. clients' \in Seq(Conns) /\ clientCount' \in Nat
    BY <1>3, <2>1, AppendElements DEF LinkClient
  <2>. QED  BY <1>3, <2>1, <2>2 DEF LinkClient
<1>4. CASE StartThread
  BY <1>4 DEF StartThread
<1>5. ASSUME NEW c \in Conns, Reply(c) PROVE TypeOK'
  BY <1>5 DEF Reply
<1>6. ASSUME NEW c \in Conns, GetNumberOfFields(c) PROVE TypeOK'
  BY <1>6 DEF GetNumberOfFields, ReadTracks
<1>7. ASSUME NEW c \in Conns, FieldInfo(c) PROVE TypeOK'
  BY <1>7 DEF FieldInfo, ReadTracks
<1>8. ASSUME NEW c \in Conns, Ping(c) PROVE TypeOK'
  BY <1>8 DEF Ping
<1>9. ASSUME NEW c \in Conns, ConnectionLost(c) PROVE TypeOK'
  BY <1>9 DEF ConnectionLost
<1>10. ASSUME NEW c \in Conns, RemoveClient(c) PROVE TypeOK'
  <2>. DEFINE k == FirstRecord(pid[c])
  <2>0. CASE k = 0
    BY <1>10, <2>0 DEF RemoveClient, Causes
  <2>. SUFFICES ASSUME k # 0 PROVE TypeOK'
    BY <2>0
  <2>1. k \in 1..Len(clients) /\ clients' = RemoveAt(clients, k) /\ freed' = freed \cup {clients[k]}
    BY <1>10, FirstRecordFinds DEF RemoveClient
  <2>6. UNCHANGED server
    BY <1>10 DEF RemoveClient
  <2>. HIDE DEF k
  <2>2. \A i, j \in DOMAIN clients : clients[i] = clients[j] => i = j
    BY DEF ListInv, OwnRecord
  <2>3. clients' \in Seq(Conns)
    BY <2>1, <2>2, RemoveAtElements
  <2>4. clients[k] \in Conns
    BY <2>1, ElementOfSeq
  <2>5. freed' \subseteq Conns
    BY <2>1, <2>4
  <2>. QED  BY <1>10, <2>3, <2>5, <2>6 DEF RemoveClient
<1>11. ASSUME NEW c \in Conns, Leave(c) PROVE TypeOK'
  <2>1. clientCount' \in Nat
    BY <1>11, LenProperties DEF Leave, CountInv
  <2>. QED  BY <1>11, <2>1 DEF Leave
<1>12. ASSUME NEW c \in Conns, CreateGame(c) PROVE TypeOK'
  BY <1>12 DEF CreateGame
<1>13. ASSUME NEW c \in Conns, StoreGameId(c) PROVE TypeOK'
  <2>1. loaded[c] \in Nat
    BY <1>13, Zenon
  <2>. DEFINE n == loaded[c] + 1
  <2>2. \A k \in Nat : k + 1 \in Nat
    OBVIOUS
  <2>3. n \in Nat
    BY <2>1, <2>2, Zenon
  <2>4. gameId' = n /\ gid' = [gid EXCEPT ![c] = n]
    BY <1>13 DEF StoreGameId
  <2>. HIDE DEF n
  <2>5. gameId' \in Nat /\ gid' \in [Conns -> Nat]
    BY <2>3, <2>4
  <2>. QED  BY <1>13, <2>5 DEF StoreGameId
<1>14. ASSUME NEW c \in Conns, LinkGame(c) PROVE TypeOK'
  <2>1. games' \in Seq(Conns) /\ gameCount' \in Nat
    BY <1>14, AppendElements DEF LinkGame
  <2>. QED  BY <1>14, <2>1 DEF LinkGame
<1>15. ASSUME NEW c \in Conns, FillGame(c) PROVE TypeOK'
  BY <1>15 DEF FillGame
<1>16. ASSUME NEW c \in Conns, AssignNewGame(c) PROVE TypeOK'
  <2>1. CreatedId(c) \in Nat
    BY DEF CreatedId
  <2>2. pick' \in [Conns -> Nat]
    BY <1>16, <2>1 DEF AssignNewGame
  <2>. QED  BY <1>16, <2>2 DEF AssignNewGame
<1>17. ASSUME NEW c \in Conns, ListGames(c) PROVE TypeOK'
  <2>1. ListedIds \subseteq Nat /\ {0} \subseteq Nat
    BY DEF ListedIds, ToSet
  <2>2. PICK n \in ListedIds \cup {0}, s \in {"JG", "GI"} :
          pick' = [pick EXCEPT ![c] = n] /\ SetStage(c, s)
    BY <1>17 DEF ListGames
  <2>3. pick' \in [Conns -> Nat] /\ stage' \in [Conns -> Stages]
    BY <2>1, <2>2
  <2>4. pc' \in [Conns -> PcSet]
    BY <1>17 DEF ListGames
  <2>. QED  BY <1>17, <2>3, <2>4 DEF ListGames
<1>18. ASSUME NEW c \in Conns, GameInfo(c) PROVE TypeOK'
  <2>1. found' \in [Conns -> Conns \cup {NoConn}]
    BY <1>18, GameByIdFinds DEF GameInfo, FindGame
  <2>. QED  BY <1>18, <2>1 DEF GameInfo, FindGame
<1>19. ASSUME NEW c \in Conns, JoinGame(c) PROVE TypeOK'
  <2>1. found' \in [Conns -> Conns \cup {NoConn}]
    BY <1>19, GameByIdFinds DEF JoinGame, FindGame
  <2>. QED  BY <1>19, <2>1 DEF JoinGame, FindGame
<1>20. ASSUME NEW c \in Conns, CollectPlayers(c) PROVE TypeOK'
  <2>1. {clients[i] : i \in Members(pick[c])} \subseteq Conns
    BY <1>20, PlayersType DEF Members
  <2>2. team' \in [Conns -> SUBSET Conns]
    BY <1>20, <2>1 DEF CollectPlayers
  <2>. QED  BY <1>20, <2>1, <2>2 DEF CollectPlayers
<1>21. ASSUME NEW c \in Conns, AssignShownGame(c) PROVE TypeOK'
  BY <1>21 DEF AssignShownGame
<1>22. ASSUME NEW c \in Conns, AssignJoinedGame(c) PROVE TypeOK'
  BY <1>22 DEF AssignJoinedGame
<1>23. ASSUME NEW c \in Conns, ReplyJoin(c) PROVE TypeOK'
  <2>1. clients = <<>> \/ Head(clients) \in Conns
    BY <1>23, HeadTailProperties
  <2>2. cursor' \in [Conns -> Conns \cup {NoConn}]
    BY <1>23, <2>1 DEF ReplyJoin
  <2>. QED  BY <1>23, <2>1, <2>2 DEF ReplyJoin
<1>24. ASSUME NEW c \in Conns, NotifyPlayer(c) PROVE TypeOK'
  BY <1>24 DEF NotifyPlayer
<1>25. ASSUME NEW c \in Conns, NextPlayer(c) PROVE TypeOK'
  <2>1. cursor' \in [Conns -> Conns \cup {NoConn}]
    BY <1>25, NextNodeType DEF NextPlayer
  <2>. QED  BY <1>25, <2>1 DEF NextPlayer
<1>26. ASSUME NEW c \in Conns, EndNotify(c) PROVE TypeOK'
  BY <1>26 DEF EndNotify
<1>27. ASSUME NEW c \in Conns, StartGame(c) PROVE TypeOK'
  <2>. DEFINE g == {clients[i] : i \in FirstMembers(pick[c])}
  <2>1. g \subseteq Conns /\ Cardinality(g) \in Nat
    BY PlayersType, SubsetSize DEF FirstMembers, Members
  <2>2. FirstIdSent(pick[c]) \in Nat
    BY FirstIdSentType
  <2>3. /\ team' = [team EXCEPT ![c] = g] /\ unsent' = [unsent EXCEPT ![c] = g]
        /\ buf' = [buf EXCEPT ![c] = [pid |-> Cardinality(g), gid |-> FirstIdSent(pick[c])]]
    BY <1>27 DEF StartGame
  <2>. HIDE DEF g
  <2>4. team' \in [Conns -> SUBSET Conns] /\ unsent' \in [Conns -> SUBSET Conns]
    BY <2>1, <2>3
  <2>5. buf' \in [Conns -> [pid : Nat, gid : Nat]]
    BY <2>1, <2>2, <2>3
  <2>6. pc' \in [Conns -> PcSet]
    BY <1>27 DEF StartGame
  <2>7. UNCHANGED <<server, mutex, mainpc, newConn, registry, pid, game, gameList, gameId, gid,
                    script, loaded, cursor, found, started, listening, gone>>
    BY <1>27 DEF StartGame
  <2>. QED  BY <2>4, <2>5, <2>6, <2>7
<1>28. ASSUME NEW c \in Conns, SendStart(c) PROVE TypeOK'
  <2>. PICK n \in unsent[c] :
         /\ unsent' = [unsent EXCEPT ![c] = unsent[c] \ {n}]
         /\ started' = started \cup {x \in {n} : Addressed(c, x)}
    BY <1>28 DEF SendStart
  <2>. DEFINE rest == unsent[c] \ {n}
              sent == {x \in {n} : Addressed(c, x)}
  <2>1. n \in Conns /\ rest \in SUBSET Conns /\ sent \subseteq Conns
    OBVIOUS
  <2>2. unsent' = [unsent EXCEPT ![c] = rest] /\ started' = started \cup sent
    OBVIOUS
  <2>. HIDE DEF rest, sent
  <2>3. unsent' \in [Conns -> SUBSET Conns] /\ started' \subseteq Conns
    BY <2>1, <2>2
  <2>. QED  BY <1>28, <2>3 DEF SendStart
<1>29. ASSUME NEW c \in Conns, OpenGameplay(c) PROVE TypeOK'
  <2>1. GameIdOf(c) \in Nat
    BY <1>29, GameIdType
  <2>2. listening' = c /\ gameId' \in Nat
    BY <1>29, <2>1 DEF OpenGameplay
  <2>. QED  BY <1>29, <2>1, <2>2 DEF OpenGameplay
<1>30. ASSUME NEW c \in Conns, ParseBuffer(c) PROVE TypeOK'
  <2>1. buf[c].pid \in Nat /\ buf[c].gid \in Nat
    BY Zenon
  <2>2. Cardinality(team[c]) \in Nat
    BY SubsetSize
  <2>3. pid' \in [Conns -> Nat] /\ gid' \in [Conns -> Nat]
    BY <1>30, <2>1 DEF ParseBuffer
  <2>4. buf' \in [Conns -> [pid : Nat, gid : Nat]]
    <3>. DEFINE n == Cardinality(team[c])
    <3>1. buf' = [buf EXCEPT ![c] = [pid |-> gameId, gid |-> n]] /\ n \in Nat
      BY <1>30, <2>2 DEF ParseBuffer
    <3>. HIDE DEF n
    <3>. QED  BY <3>1
  <2>. QED  BY <1>30, <2>3, <2>4 DEF ParseBuffer
<1>31. ASSUME NEW c \in Conns, ClientExits(c) PROVE TypeOK'
  BY <1>31 DEF ClientExits
<1>32. CASE UNCHANGED vars
  BY <1>32 DEF vars
<1>. QED
  BY <1>1, <1>2, <1>3, <1>4, <1>5, <1>6, <1>7, <1>8, <1>9, <1>10, <1>11, <1>12,
     <1>13, <1>14, <1>15, <1>16, <1>17, <1>18, <1>19, <1>20, <1>21, <1>22, <1>23,
     <1>24, <1>25, <1>26, <1>27, <1>28, <1>29, <1>30, <1>31, <1>32, DyingSteps DEF
     Next, MainStep, ThreadStep, RequestStep

-----------------------------------------------------------------------------
(* The registry: lock, counter, records and player IDs. *)

\* The places of a thread that neither holds the lock nor plays.
Working == PcSet \ {"none", "denied", "new", "cgFill", "leaving", "gp", "done"}

\* A step that leaves the registry alone: at most one thread moves on.
Quiet ==
  /\ UNCHANGED <<mutex, mainpc, newConn, registry, pid, gameList, listening>>
  /\ \/ pc' = pc
     \/ \E c \in Conns, p \in Working : pc[c] \in Working /\ pc' = [pc EXCEPT ![c] = p]

LEMMA WorkingPlaces ==
  /\ "idle" \in Working /\ "reply" \in Working
  /\ "cgStore" \in Working /\ "cgLink" \in Working
  /\ "cgAssign" \in Working /\ "giCollect" \in Working /\ "giAssign" \in Working
  /\ "jgAssign" \in Working /\ "jgReply" \in Working /\ "jgVisit" \in Working
  /\ "jgNext" \in Working /\ "sgSend" \in Working /\ "leave" \in Working
  /\ {"none", "denied", "new", "cgFill", "leaving", "gp", "done"} \cap Working = {}
BY DEF Working, PcSet

\* The steps that change the registry, and the others.
LEMMA StepKinds ==
  ASSUME [Next]_vars
  PROVE  \/ Quiet \/ LinkClient \/ StartThread
         \/ \E c \in Conns :
              \/ Deny(c) \/ Accept(c) \/ RemoveClient(c) \/ Leave(c) \/ LinkGame(c)
              \/ FillGame(c) \/ OpenGameplay(c) \/ ParseBuffer(c)
<1>. USE WorkingPlaces DEF Quiet, At, Goto, SetStage, Request, registry, gameList
<1>1. CASE Dies
  BY <1>1 DEF Dies, Die
<1>2. ASSUME NEW c \in Conns, Reply(c) PROVE Quiet
  BY <1>2 DEF Reply
<1>3. ASSUME NEW c \in Conns, GetNumberOfFields(c) \/ FieldInfo(c) PROVE Quiet
  BY <1>3 DEF GetNumberOfFields, FieldInfo, ReadTracks
<1>4. ASSUME NEW c \in Conns, Ping(c) PROVE Quiet
  BY <1>4 DEF Ping
<1>5. ASSUME NEW c \in Conns, ConnectionLost(c) PROVE Quiet
  BY <1>5 DEF ConnectionLost
<1>6. ASSUME NEW c \in Conns, CreateGame(c) PROVE Quiet
  BY <1>6 DEF CreateGame
<1>7. ASSUME NEW c \in Conns, StoreGameId(c) PROVE Quiet
  BY <1>7 DEF StoreGameId
<1>8. ASSUME NEW c \in Conns, AssignNewGame(c) PROVE Quiet
  BY <1>8 DEF AssignNewGame
<1>9. ASSUME NEW c \in Conns, ListGames(c) PROVE Quiet
  BY <1>9 DEF ListGames
<1>10. ASSUME NEW c \in Conns, GameInfo(c) \/ JoinGame(c) PROVE Quiet
  BY <1>10 DEF GameInfo, JoinGame, FindGame
<1>11. ASSUME NEW c \in Conns, CollectPlayers(c) PROVE Quiet
  BY <1>11 DEF CollectPlayers
<1>12. ASSUME NEW c \in Conns, AssignShownGame(c) PROVE Quiet
  BY <1>12 DEF AssignShownGame
<1>13. ASSUME NEW c \in Conns, AssignJoinedGame(c) PROVE Quiet
  BY <1>13 DEF AssignJoinedGame
<1>14. ASSUME NEW c \in Conns, ReplyJoin(c) PROVE Quiet
  BY <1>14 DEF ReplyJoin
<1>15. ASSUME NEW c \in Conns, NotifyPlayer(c) PROVE Quiet
  BY <1>15 DEF NotifyPlayer
<1>16. ASSUME NEW c \in Conns, NextPlayer(c) PROVE Quiet
  BY <1>16 DEF NextPlayer
<1>17. ASSUME NEW c \in Conns, EndNotify(c) PROVE Quiet
  BY <1>17 DEF EndNotify
<1>18. ASSUME NEW c \in Conns, StartGame(c) PROVE Quiet
  BY <1>18 DEF StartGame
<1>19. ASSUME NEW c \in Conns, SendStart(c) PROVE Quiet
  BY <1>19 DEF SendStart
<1>20. ASSUME NEW c \in Conns, ClientExits(c) PROVE Quiet
  BY <1>20 DEF ClientExits
<1>21. CASE UNCHANGED vars
  BY <1>21 DEF vars
<1>. QED
  BY <1>1, <1>2, <1>3, <1>4, <1>5, <1>6, <1>7, <1>8, <1>9, <1>10, <1>11, <1>12, <1>13, <1>14,
     <1>15, <1>16, <1>17, <1>18, <1>19, <1>20, <1>21, DyingSteps, Zenon
     DEF Next, MainStep, ThreadStep, RequestStep

\* The lock is never free and owned, nor owned by a handler and by main.
LEMMA Owners == NoConn \notin Conns /\ Main \notin Conns /\ NoConn # Main
BY ConstantsAssumption DEF ConstantsAssumption

LEMMA ListElements ==
  ASSUME TypeOK
  PROVE  /\ ToSet(clients) \subseteq Conns /\ ToSet(games) \subseteq Conns
         /\ Len(clients) \in Nat /\ Len(games) \in Nat
         /\ DOMAIN clients = 1..Len(clients)
         /\ \A i \in 1..Len(clients) : clients[i] \in ToSet(clients)
<1>1. clients \in Seq(Conns) /\ games \in Seq(Conns)
  BY DEF TypeOK
<1>2. /\ Len(clients) \in Nat /\ DOMAIN clients = 1..Len(clients)
      /\ Len(games) \in Nat /\ DOMAIN games = 1..Len(games)
  BY <1>1, LenProperties
<1>3. /\ \A i \in 1..Len(clients) : clients[i] \in Conns
      /\ \A i \in 1..Len(games) : games[i] \in Conns
  BY <1>1, ElementOfSeq
<1>. QED  BY <1>2, <1>3 DEF ToSet

\* A step that leaves the registry alone and moves threads only within the places
\* that the registry does not tell apart.
Framed ==
  /\ UNCHANGED <<mainpc, newConn, registry, pid, listening>>
  /\ \A x \in Conns : /\ pc'[x] = "leaving" <=> pc[x] = "leaving"
                      /\ pc'[x] = "new" <=> pc[x] = "new"
                      /\ pc'[x] = "gp" <=> pc[x] = "gp"
                      /\ pc'[x] \in Unseen <=> pc[x] \in Unseen
                      /\ pc'[x] \in Serving => pc[x] \in Serving

LEMMA FrameKeeps ==
  ASSUME TypeOK, RegistryInv, Framed
  PROVE  /\ MainInv' /\ RoomInv' /\ ListInv' /\ IdInv' /\ GameplayInv'
         /\ clientCount' = Len(clients') + (IF \E c \in Conns : pc'[c] = "leaving" THEN 1 ELSE 0)
<1>1. /\ mainpc' = mainpc /\ newConn' = newConn /\ pid' = pid
      /\ clients' = clients /\ clientCount' = clientCount /\ clientId' = clientId
      /\ freed' = freed /\ listening' = listening
  BY DEF Framed, registry
<1>2. \A x \in Conns : /\ pc'[x] = "leaving" <=> pc[x] = "leaving"
                       /\ pc'[x] = "new" <=> pc[x] = "new"
                       /\ pc'[x] = "gp" <=> pc[x] = "gp"
                       /\ pc'[x] \in Unseen <=> pc[x] \in Unseen
                       /\ pc'[x] \in Serving => pc[x] \in Serving
  BY DEF Framed
<1>3. clientCount' = Len(clients') + (IF \E c \in Conns : pc'[c] = "leaving" THEN 1 ELSE 0)
  BY <1>1, <1>2 DEF RegistryInv, CountInv
<1>4. MainInv'
  BY <1>1, <1>2 DEF RegistryInv, MainInv
<1>5. RoomInv'
  BY <1>1 DEF RegistryInv, RoomInv
<1>6. ListInv'
  <2>1. ToSet(clients') = ToSet(clients)
    BY <1>1
  <2>2. freed \subseteq Conns
    BY DEF TypeOK
  <2>. QED  BY <1>1, <1>2, <2>1, <2>2, ListElements DEF RegistryInv, ListInv, OwnRecord
<1>7. IdInv'
  BY <1>1, <1>2 DEF RegistryInv, IdInv
<1>8. GameplayInv'
  BY <1>1, <1>2 DEF RegistryInv, GameplayInv
<1>. QED  BY <1>3, <1>4, <1>5, <1>6, <1>7, <1>8

LEMMA QuietKeeps == ASSUME TypeOK, RegistryInv, Quiet PROVE RegistryInv'
<1>1. \A x \in Conns : pc'[x] = pc[x] \/ (pc[x] \in Working /\ pc'[x] \in Working)
  BY Zenon DEF Quiet, TypeOK
<1>2. Framed
  BY <1>1 DEF Framed, Quiet, Working, Unseen, Serving
<1>3. LockInv'
  <2>1. \A x \in Conns : pc'[x] \in Critical <=> pc[x] \in Critical
    BY <1>1 DEF Working, Critical
  <2>. QED  BY <2>1 DEF Quiet, RegistryInv, LockInv
<1>4. gameCount' = Len(games')
  BY DEF Quiet, RegistryInv, CountInv, gameList
<1>. QED  BY <1>2, <1>3, <1>4, FrameKeeps DEF RegistryInv, CountInv

LEMMA DenyKeeps == ASSUME TypeOK, RegistryInv, NEW c \in Conns, Deny(c) PROVE RegistryInv'
<1>1. pc[c] = "none" /\ pc'[c] = "denied" /\ \A x \in Conns \ {c} : pc'[x] = pc[x]
  BY Zenon DEF Deny, At, Goto, TypeOK
<1>2. Framed
  BY <1>1 DEF Framed, Deny, Unseen, Serving
<1>3. LockInv'
  BY <1>1 DEF Deny, RegistryInv, LockInv, Critical
<1>4. gameCount' = Len(games')
  BY DEF Deny, RegistryInv, CountInv, gameList
<1>. QED  BY <1>2, <1>3, <1>4, FrameKeeps DEF RegistryInv, CountInv

LEMMA LinkGameKeeps == ASSUME TypeOK, RegistryInv, NEW c \in Conns, LinkGame(c) PROVE RegistryInv'
<1>1. pc[c] = "cgLink" /\ pc'[c] = "cgFill" /\ \A x \in Conns \ {c} : pc'[x] = pc[x]
  BY Zenon DEF LinkGame, At, Goto, TypeOK
<1>2. Framed
  BY <1>1 DEF Framed, LinkGame, Unseen, Serving, PcSet
<1>3. LockInv'
  BY <1>1, Owners DEF LinkGame, Lock, RegistryInv, LockInv, Critical
<1>4. gameCount' = Len(games')
  <2>1. games' = Append(games, c) /\ gameCount' = gameCount + 1
    BY DEF LinkGame, Push
  <2>2. gameCount = Len(games) /\ games \in Seq(Conns)
    BY DEF RegistryInv, CountInv, TypeOK
  <2>. QED  BY <2>1, <2>2, AppendElements
<1>. QED  BY <1>2, <1>3, <1>4, FrameKeeps DEF RegistryInv, CountInv

LEMMA FillGameKeeps == ASSUME TypeOK, RegistryInv, NEW c \in Conns, FillGame(c) PROVE RegistryInv'
<1>1. pc[c] = "cgFill" /\ pc'[c] = "cgAssign" /\ \A x \in Conns \ {c} : pc'[x] = pc[x]
  BY Zenon DEF FillGame, At, Goto, TypeOK
<1>2. Framed
  BY <1>1 DEF Framed, FillGame, Unseen, Serving, PcSet
<1>3. LockInv'
  BY <1>1, Owners DEF FillGame, Unlock, RegistryInv, LockInv, Critical
<1>4. gameCount' = Len(games')
  BY DEF FillGame, RegistryInv, CountInv, gameList
<1>. QED  BY <1>2, <1>3, <1>4, FrameKeeps DEF RegistryInv, CountInv

LEMMA AcceptKeeps == ASSUME TypeOK, RegistryInv, NEW c \in Conns, Accept(c) PROVE RegistryInv'
<1>1. pc[c] = "none" /\ pc'[c] = "new" /\ \A x \in Conns \ {c} : pc'[x] = pc[x]
  BY Zenon DEF Accept, At, Goto, TypeOK
<1>2. /\ mutex' = mutex /\ mainpc = "accept" /\ mainpc' = "link" /\ newConn' = c
      /\ clients' = clients /\ clientCount' = clientCount /\ freed' = freed
      /\ games' = games /\ gameCount' = gameCount /\ listening' = listening
      /\ ~(clientCount + 1 >= MaxClients)
  BY DEF Accept, gameList, Full
<1>3. /\ clientId' = clientId + 1 /\ pid'[c] = clientId + 1
      /\ \A x \in Conns \ {c} : pid'[x] = pid[x]
  BY DEF Accept, NewPlayerId, TypeOK
<1>4. c \notin ToSet(clients) \cup freed
  BY <1>1 DEF RegistryInv, ListInv, Unseen
<1>5. LockInv'
  BY <1>1, <1>2 DEF RegistryInv, LockInv, Critical
<1>6. CountInv'
  BY <1>1, <1>2 DEF RegistryInv, CountInv
<1>7. MainInv'
  <2>1. newConn = NoConn /\ \A x \in Conns : pc[x] # "new"
    BY <1>2, Owners DEF RegistryInv, MainInv
  <2>. QED  BY <1>1, <1>2, <2>1 DEF MainInv
<1>8. RoomInv'
  BY <1>2, ConstantsAssumption DEF RoomInv, TypeOK, ConstantsAssumption
<1>9. ListInv'
  <2>1. ToSet(clients') = ToSet(clients)
    BY <1>2
  <2>2. \A x \in ToSet(clients) \cup freed : x \in Conns /\ pc'[x] = pc[x]
    BY <1>1, <1>4, ListElements DEF TypeOK
  <2>3. \A x \in Conns : pc'[x] \in Serving => pc[x] \in Serving
    BY <1>1 DEF Serving
  <2>4. \A x \in ToSet(clients) \cup freed : pc[x] # "new"
    BY <1>2 DEF RegistryInv, ListInv
  <2>. QED  BY <1>2, <2>1, <2>2, <2>3, <2>4 DEF RegistryInv, ListInv, OwnRecord
<1>10. IdInv'
  <2>1. \A x \in Conns : pid[x] \in Nat
    BY DEF TypeOK
  <2>2. clientId \in Nat
    BY DEF TypeOK
  <2>. QED  BY <1>1, <1>2, <1>3, <2>1, <2>2 DEF RegistryInv, IdInv, Unseen
<1>11. GameplayInv'
  BY <1>1, <1>2 DEF RegistryInv, GameplayInv
<1>. QED  BY <1>5, <1>6, <1>7, <1>8, <1>9, <1>10, <1>11 DEF RegistryInv

LEMMA LinkClientKeeps == ASSUME TypeOK, RegistryInv, LinkClient PROVE RegistryInv'
<1>1. /\ mutex = NoConn /\ mutex' = Main /\ mainpc = "link" /\ mainpc' = "fill"
      /\ newConn' = newConn /\ pc' = pc /\ pid' = pid /\ clientId' = clientId
      /\ clients' = Append(clients, newConn) /\ clientCount' = clientCount + 1
      /\ freed' = freed /\ games' = games /\ gameCount' = gameCount
      /\ listening' = listening
  BY DEF LinkClient, Lock, Push, gameList
<1>2. newConn \in Conns /\ pc[newConn] = "new" /\ \A x \in Conns : pc[x] = "new" => x = newConn
  BY <1>1 DEF RegistryInv, MainInv
<1>3. newConn \notin ToSet(clients) \cup freed
  BY <1>1, <1>2 DEF RegistryInv, ListInv
<1>4. \A i, j \in DOMAIN clients : clients[i] = clients[j] => i = j
  BY DEF RegistryInv, ListInv, OwnRecord
<1>5. clients \in Seq(Conns)
  BY DEF TypeOK
<1>6. /\ Len(clients') = Len(clients) + 1
      /\ ToSet(clients') = ToSet(clients) \cup {newConn}
      /\ \A i, j \in DOMAIN clients' : clients'[i] = clients'[j] => i = j
  BY <1>1, <1>2, <1>3, <1>4, <1>5, AppendElements
<1>7. LockInv'
  BY <1>1, Owners DEF RegistryInv, LockInv
<1>8. CountInv'
  <2>1. \A x \in Conns : pc[x] # "leaving"
    BY <1>1, Owners DEF RegistryInv, LockInv, Critical
  <2>2. clientCount = Len(clients) /\ gameCount = Len(games)
    BY <2>1 DEF RegistryInv, CountInv
  <2>3. clientCount' = Len(clients') /\ gameCount' = Len(games') /\ pc' = pc
    BY <1>1, <1>6, <2>2
  <2>. QED  BY <2>1, <2>3, ListElements DEF CountInv
<1>9. MainInv'
  BY <1>1 DEF RegistryInv, MainInv
<1>10. RoomInv'
  BY <1>1, ConstantsAssumption DEF RegistryInv, RoomInv, TypeOK, ConstantsAssumption
<1>11. ListInv'
  <2>1. \A x \in ToSet(clients') \cup freed' : pc'[x] \notin Unseen
    BY <1>1, <1>2, <1>6 DEF RegistryInv, ListInv, Unseen
  <2>2. OwnRecord'
    <3>1. \A x \in Conns : pc'[x] \in Serving /\ x # listening' => x \in ToSet(clients')
      BY <1>1, <1>6 DEF RegistryInv, ListInv, OwnRecord
    <3>2. ToSet(clients') \cap freed' = {}
      BY <1>1, <1>3, <1>6 DEF RegistryInv, ListInv, OwnRecord
    <3>. QED  BY <1>6, <3>1, <3>2 DEF OwnRecord
  <2>. QED  BY <1>1, <1>6, <2>1, <2>2 DEF ListInv
<1>12. IdInv'
  BY <1>1 DEF RegistryInv, IdInv
<1>13. GameplayInv'
  BY <1>1 DEF RegistryInv, GameplayInv
<1>. QED  BY <1>7, <1>8, <1>9, <1>10, <1>11, <1>12, <1>13 DEF RegistryInv

LEMMA StartThreadKeeps == ASSUME TypeOK, RegistryInv, StartThread PROVE RegistryInv'
<1>1. /\ mutex' = NoConn /\ mainpc = "fill" /\ mainpc' = "accept"
      /\ newConn' = NoConn /\ pc' = [pc EXCEPT ![newConn] = "idle"] /\ pid' = pid
      /\ clientId' = clientId /\ clients' = clients /\ clientCount' = clientCount
      /\ freed' = freed /\ games' = games /\ gameCount' = gameCount
      /\ listening' = listening
  BY DEF StartThread, Unlock, Goto, registry, gameList
<1>2. newConn \in Conns /\ pc[newConn] = "new" /\ \A x \in Conns : pc[x] = "new" => x = newConn
  BY <1>1 DEF RegistryInv, MainInv
<1>3. pc'[newConn] = "idle" /\ \A x \in Conns \ {newConn} : pc'[x] = pc[x]
  BY <1>1, <1>2, Zenon DEF TypeOK
<1>4. LockInv'
  <2>1. mutex = Main
    BY <1>1 DEF RegistryInv, LockInv
  <2>2. \A x \in Conns : pc[x] \notin Critical
    BY <2>1, Owners DEF RegistryInv, LockInv
  <2>. QED  BY <1>1, <1>2, <1>3, <2>2, Owners DEF LockInv, Critical
<1>5. CountInv'
  BY <1>1, <1>2, <1>3 DEF RegistryInv, CountInv
<1>6. MainInv'
  BY <1>1, <1>2, <1>3 DEF MainInv
<1>7. RoomInv'
  BY <1>1 DEF RegistryInv, RoomInv
<1>8. ListInv'
  <2>1. ToSet(clients') = ToSet(clients) /\ newConn \in ToSet(clients)
    BY <1>1 DEF RegistryInv, ListInv
  <2>2. \A x \in ToSet(clients) \cup freed : x \in Conns
    BY ListElements DEF TypeOK
  <2>3. \A x \in ToSet(clients') \cup freed' : pc'[x] \notin Unseen /\ pc'[x] # "new"
    BY <1>1, <1>2, <1>3, <2>1, <2>2 DEF RegistryInv, ListInv, Unseen
  <2>4. OwnRecord'
    BY <1>1, <1>3, <2>1 DEF RegistryInv, ListInv, OwnRecord
  <2>. QED  BY <1>1, <2>3, <2>4 DEF ListInv
<1>9. IdInv'
  BY <1>1, <1>2, <1>3 DEF RegistryInv, IdInv, Unseen
<1>10. GameplayInv'
  BY <1>1, <1>2, <1>3 DEF RegistryInv, GameplayInv
<1>. QED  BY <1>4, <1>5, <1>6, <1>7, <1>8, <1>9, <1>10 DEF RegistryInv

\* The thread at the end of its handler finds at least its own record.
LEMMA RemovalSucceeds ==
  ASSUME TypeOK, RegistryInv, NEW c \in Conns, pc[c] = "leave"
  PROVE  FirstRecord(pid[c]) # 0
<1>1. c # listening
  BY DEF RegistryInv, GameplayInv
<1>2. c \in ToSet(clients)
  BY <1>1 DEF RegistryInv, ListInv, OwnRecord, Serving, PcSet
<1>3. \E i \in 1..Len(clients) : clients[i] = c
  BY <1>2, ListElements DEF ToSet
<1>4. \E i \in 1..Len(clients) : pid[clients[i]] = pid[c]
  BY <1>3
<1>. QED  BY <1>4, FirstRecordFinds

\* So the step of the removal is the removal of a record.
LEMMA RemovalProceeds ==
  ASSUME TypeOK, RegistryInv, NEW c \in Conns, RemoveClient(c)
  PROVE  /\ FirstRecord(pid[c]) \in 1..Len(clients)
         /\ pid[clients[FirstRecord(pid[c])]] = pid[c]
         /\ clients' = RemoveAt(clients, FirstRecord(pid[c]))
         /\ freed' = freed \cup {clients[FirstRecord(pid[c])]}
         /\ UNCHANGED server
<1>1. FirstRecord(pid[c]) # 0
  BY RemovalSucceeds DEF RemoveClient, At
<1>. QED  BY <1>1, FirstRecordFinds DEF RemoveClient

LEMMA RemoveClientKeeps ==
  ASSUME TypeOK, RegistryInv, NEW c \in Conns, RemoveClient(c) PROVE RegistryInv'
<1>. DEFINE k == FirstRecord(pid[c])
            d == clients[k]
<1>1. /\ mutex = NoConn /\ mutex' = c /\ mainpc' = mainpc /\ newConn' = newConn
      /\ pid' = pid /\ clientId' = clientId /\ clientCount' = clientCount
      /\ games' = games /\ gameCount' = gameCount /\ listening' = listening
  BY DEF RemoveClient, Lock, gameList
<1>2. pc[c] = "leave" /\ pc'[c] = "leaving" /\ \A x \in Conns \ {c} : pc'[x] = pc[x]
  BY Zenon DEF RemoveClient, At, Goto, TypeOK
<1>3. k \in 1..Len(clients) /\ pid[d] = pid[c]
  BY RemovalProceeds
<1>4. clients' = RemoveAt(clients, k) /\ freed' = freed \cup {d}
  BY RemovalProceeds
<1>. HIDE DEF k
<1>5. d \in ToSet(clients) /\ d \in Conns /\ pc[d] \notin Unseen
  BY <1>3, ListElements DEF RegistryInv, ListInv
<1>. HIDE DEF d
<1>6. d = c \/ d = listening
  <2>1. c # listening
    BY <1>2 DEF RegistryInv, GameplayInv
  <2>. QED  BY <1>2, <1>3, <1>5, <2>1 DEF RegistryInv, IdInv, Unseen
<1>7. \A i, j \in DOMAIN clients : clients[i] = clients[j] => i = j
  BY DEF RegistryInv, ListInv, OwnRecord
<1>8. clients \in Seq(Conns)
  BY DEF TypeOK
<1>9. /\ Len(clients') = Len(clients) - 1
      /\ ToSet(clients') = ToSet(clients) \ {d}
      /\ \A i, j \in DOMAIN clients' : clients'[i] = clients'[j] => i = j
  BY <1>3, <1>4, <1>7, <1>8, RemoveAtElements DEF d
<1>10. mainpc # "fill" /\ \A x \in Conns : pc[x] # "leaving"
  BY <1>1, Owners DEF RegistryInv, LockInv, Critical
<1>11. LockInv'
  BY <1>1, <1>2, Owners DEF RegistryInv, LockInv, Critical
<1>12. CountInv'
  <2>1. clientCount = Len(clients) /\ gameCount = Len(games)
    BY <1>10 DEF RegistryInv, CountInv
  <2>2. clientCount' = Len(clients') + 1
    BY <1>1, <1>9, <2>1, ListElements
  <2>. QED  BY <1>1, <1>2, <2>1, <2>2 DEF CountInv
<1>13. MainInv'
  BY <1>1, <1>2 DEF RegistryInv, MainInv
<1>14. RoomInv'
  BY <1>1 DEF RegistryInv, RoomInv
<1>15. ListInv'
  <2>1. \A x \in ToSet(clients') \cup freed' : x \in ToSet(clients) \cup freed /\ x \in Conns
    BY <1>4, <1>5, <1>9, ListElements DEF TypeOK
  <2>2. \A x \in ToSet(clients') \cup freed' :
          pc'[x] \notin Unseen /\ (pc'[x] = "new" => mainpc' = "fill")
    BY <1>1, <1>2, <2>1 DEF RegistryInv, ListInv, Unseen
  <2>3. \A x \in Conns : pc'[x] \in Serving /\ x # listening' => x \in ToSet(clients')
    <3>1. \A x \in Conns : pc'[x] \in Serving => x # c /\ pc[x] \in Serving
      BY <1>2 DEF Serving
    <3>. QED  BY <1>1, <1>6, <1>9, <3>1 DEF RegistryInv, ListInv, OwnRecord
  <2>4. ToSet(clients') \cap freed' = {}
    BY <1>4, <1>9 DEF RegistryInv, ListInv, OwnRecord
  <2>. QED  BY <1>1, <1>9, <1>10, <2>2, <2>3, <2>4 DEF ListInv, OwnRecord
<1>16. IdInv'
  BY <1>1, <1>2 DEF RegistryInv, IdInv, Unseen
<1>17. GameplayInv'
  BY <1>1, <1>2 DEF RegistryInv, GameplayInv
<1>. QED  BY <1>11, <1>12, <1>13, <1>14, <1>15, <1>16, <1>17 DEF RegistryInv

LEMMA LeaveKeeps == ASSUME TypeOK, RegistryInv, NEW c \in Conns, Leave(c) PROVE RegistryInv'
<1>1. /\ mutex' = NoConn /\ mainpc' = mainpc /\ newConn' = newConn
      /\ pid' = pid /\ clientId' = clientId /\ clientCount' = clientCount - 1
      /\ clients' = clients /\ freed' = freed
      /\ games' = games /\ gameCount' = gameCount /\ listening' = listening
  BY DEF Leave, Unlock, gameList
<1>2. pc[c] = "leaving" /\ pc'[c] = "done" /\ \A x \in Conns \ {c} : pc'[x] = pc[x]
  BY Zenon DEF Leave, At, Goto, TypeOK
<1>3. mutex = c
  BY <1>2 DEF RegistryInv, LockInv, Critical
<1>4. mainpc # "fill" /\ \A x \in Conns \ {c} : pc[x] \notin Critical
  BY <1>3, Owners DEF RegistryInv, LockInv
<1>5. LockInv'
  BY <1>1, <1>2, <1>4, Owners DEF LockInv, Critical
<1>6. CountInv'
  <2>1. clientCount = Len(clients) + 1 /\ gameCount = Len(games)
    BY <1>2 DEF RegistryInv, CountInv
  <2>2. clientCount' = Len(clients')
    BY <1>1, <2>1, ListElements
  <2>3. \A x \in Conns : pc'[x] # "leaving"
    BY <1>2, <1>4 DEF Critical
  <2>. QED  BY <1>1, <2>1, <2>2, <2>3, ListElements DEF CountInv
<1>7. MainInv'
  BY <1>1, <1>2 DEF RegistryInv, MainInv
<1>8. RoomInv'
  BY <1>1, ConstantsAssumption DEF RegistryInv, RoomInv, TypeOK, ConstantsAssumption
<1>9. ListInv'
  <2>1. \A x \in ToSet(clients) \cup freed : x \in Conns
    BY ListElements DEF TypeOK
  <2>2. \A x \in ToSet(clients') \cup freed' :
          pc'[x] \notin Unseen /\ (pc'[x] = "new" => mainpc' = "fill")
    BY <1>1, <1>2, <2>1 DEF RegistryInv, ListInv, Unseen
  <2>3. \A x \in Conns : pc'[x] \in Serving => pc[x] \in Serving
    BY <1>2 DEF Serving
  <2>4. ToSet(clients') = ToSet(clients)
    BY <1>1
  <2>. QED  BY <1>1, <2>2, <2>3, <2>4 DEF RegistryInv, ListInv, OwnRecord
<1>10. IdInv'
  BY <1>1, <1>2 DEF RegistryInv, IdInv, Unseen
<1>11. GameplayInv'
  BY <1>1, <1>2 DEF RegistryInv, GameplayInv
<1>. QED  BY <1>5, <1>6, <1>7, <1>8, <1>9, <1>10, <1>11 DEF RegistryInv

LEMMA OpenGameplayKeeps ==
  ASSUME TypeOK, RegistryInv, NEW c \in Conns, OpenGameplay(c) PROVE RegistryInv'
<1>1. /\ mutex' = mutex /\ mainpc' = mainpc /\ newConn' = newConn
      /\ pid' = pid /\ clientId' = clientId /\ clientCount' = clientCount
      /\ clients' = clients /\ freed' = freed
      /\ games' = games /\ gameCount' = gameCount
      /\ listening = NoConn /\ listening' = c
  BY DEF OpenGameplay, registry, gameList
<1>2. pc[c] = "sgSend" /\ pc'[c] = "gp" /\ \A x \in Conns \ {c} : pc'[x] = pc[x]
  BY Zenon DEF OpenGameplay, At, Goto, TypeOK
<1>3. LockInv'
  BY <1>1, <1>2 DEF RegistryInv, LockInv, Critical
<1>4. CountInv'
  BY <1>1, <1>2 DEF RegistryInv, CountInv
<1>5. MainInv'
  BY <1>1, <1>2 DEF RegistryInv, MainInv
<1>6. RoomInv'
  BY <1>1 DEF RegistryInv, RoomInv
<1>7. ListInv'
  <2>1. \A x \in ToSet(clients) \cup freed : x \in Conns
    BY ListElements DEF TypeOK
  <2>2. \A x \in ToSet(clients') \cup freed' :
          pc'[x] \notin Unseen /\ (pc'[x] = "new" => mainpc' = "fill")
    BY <1>1, <1>2, <2>1 DEF RegistryInv, ListInv, Unseen
  <2>3. ToSet(clients') = ToSet(clients)
    BY <1>1
  <2>4. \A x \in Conns : pc'[x] \in Serving /\ x # listening' => x \in ToSet(clients')
    BY <1>1, <1>2, <2>3, Owners DEF RegistryInv, ListInv, OwnRecord
  <2>. QED  BY <1>1, <2>2, <2>3, <2>4 DEF RegistryInv, ListInv, OwnRecord
<1>8. IdInv'
  BY <1>1, <1>2, Owners DEF RegistryInv, IdInv, Unseen
<1>9. GameplayInv'
  BY <1>1, <1>2, Owners DEF RegistryInv, GameplayInv
<1>. QED  BY <1>3, <1>4, <1>5, <1>6, <1>7, <1>8, <1>9 DEF RegistryInv

LEMMA ParseBufferKeeps ==
  ASSUME TypeOK, RegistryInv, NEW c \in Conns, ParseBuffer(c) PROVE RegistryInv'
<1>1. /\ mutex' = mutex /\ mainpc' = mainpc /\ newConn' = newConn /\ pc' = pc
      /\ clientId' = clientId /\ clientCount' = clientCount
      /\ clients' = clients /\ freed' = freed
      /\ games' = games /\ gameCount' = gameCount /\ listening' = listening
  BY DEF ParseBuffer, registry, gameList
<1>2. pc[c] = "gp" /\ \A x \in Conns \ {c} : pid'[x] = pid[x]
  BY DEF ParseBuffer, At, TypeOK
<1>3. listening = c
  BY <1>2 DEF RegistryInv, GameplayInv
<1>4. LockInv' /\ CountInv' /\ MainInv' /\ RoomInv' /\ GameplayInv'
  BY <1>1 DEF RegistryInv, LockInv, CountInv, MainInv, RoomInv, GameplayInv
<1>5. ListInv'
  BY <1>1 DEF RegistryInv, ListInv, OwnRecord
<1>6. IdInv'
  BY <1>1, <1>2, <1>3 DEF RegistryInv, IdInv
<1>. QED  BY <1>4, <1>5, <1>6 DEF RegistryInv

\* Every step keeps the registry invariant.
LEMMA RegistryStep ==
  ASSUME TypeOK, RegistryInv, [Next]_vars
  PROVE  RegistryInv'
BY StepKinds, QuietKeeps, LinkClientKeeps, StartThreadKeeps, DenyKeeps, AcceptKeeps,
   RemoveClientKeeps, LeaveKeeps, LinkGameKeeps, FillGameKeeps, OpenGameplayKeeps,
   ParseBufferKeeps, Zenon

LEMMA InitRegistry == ASSUME Init PROVE TypeOK /\ RegistryInv
<1>1. TypeOK
  <2>1. clients \in Seq(Conns) /\ games \in Seq(Conns)
    BY EmptySeq DEF Init
  <2>2. "none" \in PcSet /\ "NF" \in Stages /\ "LI" \in Stages
    BY DEF PcSet, Stages
  <2>3. stage \in [Conns -> Stages] /\ pc \in [Conns -> PcSet]
    BY <2>2 DEF Init
  <2>. QED  BY <2>1, <2>3 DEF Init, TypeOK
<1>2. ToSet(clients) = {} /\ DOMAIN clients = {} /\ Len(clients) = 0 /\ Len(games) = 0
  BY EmptySeq DEF Init, ToSet
<1>3. LockInv /\ CountInv /\ MainInv /\ RoomInv /\ GameplayInv
  BY <1>2, Owners, ConstantsAssumption
     DEF Init, LockInv, CountInv, MainInv, RoomInv, GameplayInv, Critical, ConstantsAssumption
<1>4. ListInv
  BY <1>2 DEF Init, ListInv, OwnRecord, Serving
<1>5. IdInv
  BY DEF Init, IdInv, Unseen
<1>. QED  BY <1>1, <1>3, <1>4, <1>5 DEF RegistryInv

\* A step in which the process exits changes nothing but why it exited.
LEMMA DyingKeepsTypes == ASSUME TypeOK, Dies PROVE TypeOK'
BY DEF TypeOK, Dies, Die, registry, gameList, locals, script

LEMMA Inductive == Spec => [](TypeOK /\ RegistryInv)
<1>1. Init => TypeOK /\ RegistryInv
  BY InitRegistry
<1>2. TypeOK /\ RegistryInv /\ [Next]_vars => TypeOK' /\ RegistryInv'
  BY TypeStep, DyingKeepsTypes, RegistryStep DEF RegistryInv
<1>. QED  BY <1>1, <1>2, PTL DEF Spec

\* Each part of the server's state stays within its type: in particular the counters
\* stay natural numbers, so client_count never goes below zero.
THEOREM TypeCorrect == Spec => []TypeOK
BY Inductive, PTL

\* client_count counts at least the listed clients.
LEMMA CountBounds ==
  ASSUME TypeOK, CountInv
  PROVE  Len(clients) <= clientCount /\ clientCount \in Nat /\ Len(clients) \in Nat
<1>. DEFINE leaver == IF \E c \in Conns : pc[c] = "leaving" THEN 1 ELSE 0
<1>1. clientCount = Len(clients) + leaver /\ clientCount \in Nat
  BY DEF CountInv, TypeOK
<1>2. leaver \in {0, 1}
  OBVIOUS
<1>3. Len(clients) \in Nat
  BY ListElements
<1>. HIDE DEF leaver
<1>. QED  BY <1>1, <1>2, <1>3

\* clients_mutex excludes, and each counter is the length of its list outside the
\* critical sections (init_client, init_game, the end of handle_client).
THEOREM RegistryIsConsistent == Spec => []RegistryConsistent
<1>1. TypeOK /\ RegistryInv => RegistryConsistent
  BY DEF RegistryInv, LockInv, CountInv, RegistryConsistent
<1>. QED  BY <1>1, Inductive, PTL

\* However many handlers leave while main decides on client_count without the lock,
\* the list has less than MAX_CLIENTS_ON_SERVER clients.
THEOREM CapacityHolds == Spec => []Capacity
<1>1. TypeOK /\ RegistryInv => Capacity
  <2>. SUFFICES ASSUME TypeOK, RegistryInv PROVE Capacity
    OBVIOUS
  <2>1. Len(clients) <= clientCount /\ clientCount \in Nat /\ Len(clients) \in Nat
    BY CountBounds DEF RegistryInv
  <2>2. clientCount + (IF mainpc = "link" THEN 1 ELSE 0) < MaxClients
    BY DEF RegistryInv, RoomInv
  <2>3. clientCount < MaxClients
    BY <2>1, <2>2, ConstantsAssumption DEF ConstantsAssumption
  <2>. QED  BY <2>1, <2>3, ConstantsAssumption DEF Capacity, ConstantsAssumption
<1>. QED  BY <1>1, Inductive, PTL

\* A handler's own record is listed once and not freed under it, that of the player
\* in gameplay aside.
THEOREM HandlersKeepTheirRecord == Spec => []OwnRecord
<1>1. RegistryInv => OwnRecord
  BY DEF RegistryInv, ListInv
<1>. QED  BY <1>1, Inductive, PTL

\* Only one of the steps in which the process exits changes whether it is up.
LEMMA DyingActor ==
  ASSUME TypeOK, RegistryInv, [Next]_vars, server' # server
  PROVE  \E c \in Conns : ThreadDies(c) \/ RequestDies(c) \/ ReceiveDies(c)
<1>1. ~MainStep /\ ~UNCHANGED vars
  BY DEF MainStep, LinkClient, StartThread, vars
<1>2. \A c \in Conns : ~Deny(c) /\ ~Accept(c) /\ ~ConnectionLost(c) /\ ~ClientExits(c)
  BY DEF Deny, Accept, ConnectionLost, ClientExits
<1>3. \A c \in Conns : /\ ~Reply(c) /\ ~RemoveClient(c) /\ ~Leave(c) /\ ~StoreGameId(c)
                       /\ ~LinkGame(c) /\ ~FillGame(c) /\ ~AssignNewGame(c)
  BY RemovalProceeds DEF Reply, Leave, StoreGameId, LinkGame, FillGame, AssignNewGame
<1>4. \A c \in Conns : /\ ~CollectPlayers(c) /\ ~AssignShownGame(c) /\ ~AssignJoinedGame(c)
                       /\ ~ReplyJoin(c) /\ ~NotifyPlayer(c) /\ ~NextPlayer(c) /\ ~EndNotify(c)
  BY DEF CollectPlayers, AssignShownGame, AssignJoinedGame, ReplyJoin, NotifyPlayer,
         NextPlayer, EndNotify
<1>5. \A c \in Conns : ~SendStart(c) /\ ~OpenGameplay(c) /\ ~ParseBuffer(c)
  BY DEF SendStart, OpenGameplay, ParseBuffer
<1>6. \A c \in Conns : /\ ~GetNumberOfFields(c) /\ ~FieldInfo(c) /\ ~CreateGame(c) /\ ~Ping(c)
                       /\ ~ListGames(c) /\ ~GameInfo(c) /\ ~JoinGame(c) /\ ~StartGame(c)
  BY DEF GetNumberOfFields, FieldInfo, ReadTracks, CreateGame, Ping, ListGames,
         GameInfo, JoinGame, FindGame, StartGame
<1>. QED  BY <1>1, <1>2, <1>3, <1>4, <1>5, <1>6, Zenon
          DEF Next, ThreadStep, RequestStep

\* No other exit of the process has this cause.
LEMMA OtherCauses ==
  ASSUME NEW c \in Conns, ThreadDies(c) \/ RequestDies(c) \/ ReceiveDies(c)
  PROVE  server' # "notFound"
<1>1. ASSUME NEW x, x # "notFound", Die(x) PROVE server' # "notFound"
  BY <1>1 DEF Die
<1>2. ASSUME NEW n, SendFails(n) PROVE server' # "notFound"
  BY <1>1, <1>2 DEF SendFails
<1>. QED
  BY <1>1, <1>2
     DEF ThreadDies, RequestDies, ReceiveDies, ReplyDies, CollectDies, ShowGameDies,
         ReplyJoinDies, NotifyDies, NextPlayerDies, SendStartDies, OpenGameplayDies,
         ParseBufferDies, ListGamesDies, FindGameDies, StartGameDies

\* No interleaving of accepts, removals and gameplays leaves a handler without a
\* record to remove: the err_die_server of handle_client is dead code.
THEOREM RemovalAlwaysFinds == Spec => []RemovalFindsRecord
<1>1. Init => RemovalFindsRecord
  BY DEF Init, RemovalFindsRecord
<1>2. TypeOK /\ RegistryInv /\ RemovalFindsRecord /\ [Next]_vars => RemovalFindsRecord'
  BY DyingActor, OtherCauses DEF RemovalFindsRecord
<1>. QED  BY <1>1, <1>2, Inductive, PTL DEF Spec

\* Registering a client enters it in the roster, which has room for it.
LEMMA LinkEnters ==
  ASSUME TypeOK, RegistryInv, LinkClient
  PROVE  Roster!Enter(newConn)
<1>1. /\ mainpc = "link" /\ clients' = Append(clients, newConn) /\ freed' = freed
  BY DEF LinkClient, Push
<1>2. newConn \in Conns /\ pc[newConn] = "new"
  BY <1>1 DEF RegistryInv, MainInv
<1>3. newConn \notin ToSet(clients) \cup freed
  BY <1>1, <1>2 DEF RegistryInv, ListInv
<1>4. ToSet(clients') = ToSet(clients) \cup {newConn}
  BY <1>1, <1>2, AppendElements DEF TypeOK
<1>5. Cardinality(ToSet(clients)) < MaxClients - 1
  <2>1. /\ Cardinality(ToSet(clients)) \in Nat
        /\ Cardinality(ToSet(clients)) <= Len(clients)
    BY ElementsOfList DEF TypeOK
  <2>2. clientCount + 1 < MaxClients
    BY <1>1 DEF RegistryInv, RoomInv
  <2>3. Len(clients) <= clientCount /\ clientCount \in Nat /\ Len(clients) \in Nat
    BY CountBounds DEF RegistryInv
  <2>. DEFINE n == Cardinality(ToSet(clients))
              l == Len(clients)
  <2>4. n \in Nat /\ l \in Nat /\ n <= l /\ l <= clientCount
    BY <2>1, <2>3
  <2>. HIDE DEF n, l
  <2>5. n < MaxClients - 1
    BY <2>2, <2>3, <2>4, ConstantsAssumption DEF ConstantsAssumption
  <2>. QED  BY <2>5 DEF n
<1>6. Roster!Cardinality(ToSet(clients)) = Cardinality(ToSet(clients))
  BY Zenon DEF Cardinality, Roster!Cardinality
<1>. QED  BY <1>1, <1>3, <1>4, <1>5, <1>6 DEF Roster!Enter

\* The end of a handler makes one client depart: its own, or the player in gameplay.
LEMMA RemovalDeparts ==
  ASSUME TypeOK, RegistryInv, NEW c \in Conns, RemoveClient(c)
  PROVE  \E d \in Conns : Roster!Depart(d)
<1>. DEFINE k == FirstRecord(pid[c])
            d == clients[k]
<1>1. k \in 1..Len(clients)
  BY RemovalProceeds
<1>2. clients' = RemoveAt(clients, k) /\ freed' = freed \cup {d}
  BY RemovalProceeds
<1>. HIDE DEF k
<1>3. d \in ToSet(clients) /\ d \in Conns
  BY <1>1, ListElements
<1>4. \A i, j \in DOMAIN clients : clients[i] = clients[j] => i = j
  BY DEF RegistryInv, ListInv, OwnRecord
<1>5. ToSet(clients') = ToSet(clients) \ {d}
  BY <1>1, <1>2, <1>4, RemoveAtElements DEF TypeOK
<1>. HIDE DEF d
<1>. QED  BY <1>2, <1>3, <1>5 DEF Roster!Depart

\* Every other step leaves the list alone.
LEMMA OthersStutter ==
  ASSUME [Next]_vars, ~LinkClient, \A c \in Conns : ~RemoveClient(c)
  PROVE  UNCHANGED <<clients, freed>>
<1>1. CASE Quiet
  BY <1>1 DEF Quiet, registry
<1>2. CASE StartThread
  BY <1>2 DEF StartThread, registry
<1>3. ASSUME NEW c \in Conns,
             Deny(c) \/ Accept(c) \/ Leave(c) \/ LinkGame(c) \/ FillGame(c)
             \/ OpenGameplay(c) \/ ParseBuffer(c)
      PROVE  UNCHANGED <<clients, freed>>
  BY <1>3 DEF Deny, Accept, Leave, LinkGame, FillGame, OpenGameplay, ParseBuffer, registry
<1>. QED  BY <1>1, <1>2, <1>3, StepKinds, Zenon

\* The client list implements the roster: no connection is registered twice, none is
\* lost from the list otherwise than by a removal, and the limit holds at every entry.
THEOREM ServerImplementsRoster == Spec => ImplementsRoster
<1>1. Init => Roster!Init
  BY EmptySeq DEF Init, Roster!Init, ToSet
<1>2. TypeOK /\ RegistryInv /\ [Next]_vars => [Roster!Next]_<<ToSet(clients), freed>>
  <2>. SUFFICES ASSUME TypeOK, RegistryInv, [Next]_vars
                PROVE  Roster!Next \/ UNCHANGED <<ToSet(clients), freed>>
    OBVIOUS
  <2>1. CASE LinkClient
    <3>1. newConn \in Conns
      BY <2>1 DEF RegistryInv, MainInv, LinkClient
    <3>. QED  BY <2>1, <3>1, LinkEnters DEF Roster!Next
  <2>2. CASE \E c \in Conns : RemoveClient(c)
    BY <2>2, RemovalDeparts DEF Roster!Next
  <2>3. CASE ~LinkClient /\ \A c \in Conns : ~RemoveClient(c)
    <3>1. clients' = clients /\ freed' = freed
      BY <2>3, OthersStutter
    <3>. QED  BY <3>1
  <2>. QED  BY <2>1, <2>2, <2>3
<1>. QED  BY <1>1, <1>2, Inductive, PTL DEF Spec, ImplementsRoster, Roster!Spec

-----------------------------------------------------------------------------
(* The game list and the game IDs. *)

Creating == {"cgStore", "cgLink", "cgFill", "cgAssign"}   \* within CREATE GAME
Choosing == {"giCollect", "giAssign", "jgAssign"}         \* with a chosen_game in hand

\* A step that leaves the games, their IDs and those in the clients' hands alone.
GameQuiet ==
  /\ UNCHANGED <<games, gid, game, pick, stage, found, listening>>
  /\ \A x \in Conns :
       \/ pc'[x] = pc[x]
       \/ /\ pc[x] \notin Creating /\ pc'[x] \notin Creating
          /\ pc'[x] \in Choosing => pc[x] \in Choosing

\* A move of one thread.
LEMMA Moves ==
  ASSUME TypeOK, NEW c \in Conns, NEW p, Goto(c, p)
  PROVE  pc'[c] = p /\ \A x \in Conns \ {c} : pc'[x] = pc[x]
BY DEF TypeOK, Goto

\* The steps that matter to the game list, and the others.
LEMMA GameStepKinds ==
  ASSUME TypeOK, RegistryInv, [Next]_vars
  PROVE  \/ GameQuiet
         \/ \E c \in Conns :
              \/ GetNumberOfFields(c) \/ FieldInfo(c) \/ CreateGame(c) \/ StoreGameId(c)
              \/ LinkGame(c) \/ FillGame(c) \/ AssignNewGame(c) \/ ListGames(c)
              \/ GameInfo(c) \/ JoinGame(c) \/ AssignShownGame(c) \/ AssignJoinedGame(c)
              \/ EndNotify(c) \/ OpenGameplay(c) \/ ParseBuffer(c)
<1>. USE DEF GameQuiet, Creating, Choosing, At, Request, locals, script, gameList
<1>1. CASE Dies
  BY <1>1 DEF Dies, Die
<1>2. ASSUME NEW c \in Conns, Deny(c) \/ Accept(c) PROVE GameQuiet
  BY <1>2, Moves DEF Deny, Accept
<1>3. CASE LinkClient
  BY <1>3 DEF LinkClient
<1>4. CASE StartThread
  <2>1. newConn \in Conns /\ pc[newConn] = "new"
    BY <1>4 DEF StartThread, RegistryInv, MainInv
  <2>. QED  BY <1>4, <2>1, Moves DEF StartThread
<1>5. ASSUME NEW c \in Conns, Reply(c) PROVE GameQuiet
  BY <1>5, Moves DEF Reply
<1>6. ASSUME NEW c \in Conns, Ping(c) PROVE GameQuiet
  BY <1>6, Moves DEF Ping
<1>7. ASSUME NEW c \in Conns, ConnectionLost(c) PROVE GameQuiet
  BY <1>7, Moves DEF ConnectionLost
<1>8. ASSUME NEW c \in Conns, RemoveClient(c) PROVE GameQuiet
  BY <1>8, Moves DEF RemoveClient
<1>9. ASSUME NEW c \in Conns, Leave(c) PROVE GameQuiet
  BY <1>9, Moves DEF Leave
<1>10. ASSUME NEW c \in Conns, CollectPlayers(c) PROVE GameQuiet
  BY <1>10, Moves DEF CollectPlayers
<1>11. ASSUME NEW c \in Conns, ReplyJoin(c) PROVE GameQuiet
  BY <1>11, Moves DEF ReplyJoin
<1>12. ASSUME NEW c \in Conns, NotifyPlayer(c) PROVE GameQuiet
  BY <1>12, Moves DEF NotifyPlayer
<1>13. ASSUME NEW c \in Conns, NextPlayer(c) PROVE GameQuiet
  BY <1>13, Moves DEF NextPlayer
<1>14. ASSUME NEW c \in Conns, StartGame(c) PROVE GameQuiet
  BY <1>14, Moves DEF StartGame
<1>15. ASSUME NEW c \in Conns, SendStart(c) PROVE GameQuiet
  BY <1>15 DEF SendStart
<1>16. ASSUME NEW c \in Conns, ClientExits(c) PROVE GameQuiet
  BY <1>16 DEF ClientExits
<1>17. CASE UNCHANGED vars
  BY <1>17 DEF vars
<1>. QED
  BY <1>1, <1>2, <1>3, <1>4, <1>5, <1>6, <1>7, <1>8, <1>9, <1>10, <1>11, <1>12, <1>13, <1>14,
     <1>15, <1>16, <1>17, DyingSteps, Zenon DEF Next, MainStep, ThreadStep, RequestStep

-------------------------------------------------------------------------------
LEMMA GameQuietKeeps == ASSUME TypeOK, GameInv, GameQuiet PROVE GameInv'
<1>1. /\ games' = games /\ gid' = gid /\ game' = game /\ pick' = pick /\ stage' = stage
      /\ found' = found /\ listening' = listening
  BY DEF GameQuiet
<1>2. GamesInv'
  BY <1>1 DEF GameQuiet, GameInv, GamesInv, Creating
<1>3. GamePointersListed'
  BY <1>1 DEF GameQuiet, GameInv, GamePointersListed, Choosing
<1>4. HandedOutIdResolves'
  BY <1>1 DEF GameInv, HandedOutIdResolves
<1>. QED  BY <1>2, <1>3, <1>4 DEF GameInv

LEMMA ReadTracksKeeps ==
  ASSUME TypeOK, GameInv, NEW c \in Conns, GetNumberOfFields(c) \/ FieldInfo(c)
  PROVE  GameInv'
<1>1. PICK r \in {"NF", "FI"}, next \in {"FI", "CG"} : ReadTracks(c, r, next)
  BY DEF GetNumberOfFields, FieldInfo
<1>2. /\ games' = games /\ gid' = gid /\ game' = game /\ pick' = pick
      /\ found' = found /\ listening' = listening
  BY <1>1 DEF ReadTracks, gameList, locals
<1>3. pc[c] = "idle" /\ pc'[c] = "reply" /\ \A x \in Conns \ {c} : pc'[x] = pc[x]
  BY <1>1, Moves DEF ReadTracks, Request, At
<1>4. stage[c] \in {"NF", "FI"} /\ stage'[c] \in {"FI", "CG"}
      /\ \A x \in Conns \ {c} : stage'[x] = stage[x]
  BY <1>1 DEF ReadTracks, Request, SetStage, TypeOK
<1>5. GamesInv'
  BY <1>2, <1>3, <1>4 DEF GameInv, GamesInv
<1>6. GamePointersListed'
  BY <1>2, <1>3 DEF GameInv, GamePointersListed
<1>7. HandedOutIdResolves'
  BY <1>2 DEF GameInv, HandedOutIdResolves
<1>. QED  BY <1>5, <1>6, <1>7 DEF GameInv

LEMMA CreateGameKeeps ==
  ASSUME TypeOK, GameInv, NEW c \in Conns, CreateGame(c)
  PROVE  GameInv'
<1>1. /\ games' = games /\ gid' = gid /\ game' = game /\ pick' = pick /\ stage' = stage
      /\ found' = found /\ listening' = listening
  BY DEF CreateGame, gameList, script
<1>2. /\ pc[c] = "idle" /\ stage[c] = "CG"
      /\ pc'[c] = "cgStore" /\ \A x \in Conns \ {c} : pc'[x] = pc[x]
  BY Moves DEF CreateGame, Request, At
<1>3. GamesInv'
  BY <1>1, <1>2 DEF GameInv, GamesInv
<1>4. GamePointersListed'
  BY <1>1, <1>2 DEF GameInv, GamePointersListed
<1>5. HandedOutIdResolves'
  BY <1>1 DEF GameInv, HandedOutIdResolves
<1>. QED  BY <1>3, <1>4, <1>5 DEF GameInv

LEMMA StoreGameIdKeeps ==
  ASSUME TypeOK, GameInv, NEW c \in Conns, StoreGameId(c)
  PROVE  GameInv'
<1>1. /\ games' = games /\ game' = game /\ pick' = pick /\ stage' = stage
      /\ found' = found /\ listening' = listening
  BY DEF StoreGameId, gameList, script, locals
<1>2. pc[c] = "cgStore" /\ pc'[c] = "cgLink" /\ \A x \in Conns \ {c} : pc'[x] = pc[x]
  BY Moves DEF StoreGameId, At
<1>3. gid'[c] = loaded[c] + 1 /\ \A x \in Conns \ {c} : gid'[x] = gid[x]
  BY DEF StoreGameId, TypeOK
<1>4. gid'[c] > 0
  <2>1. loaded[c] \in Nat
    BY DEF TypeOK
  <2>. QED  BY <1>3, <2>1
<1>5. c \notin ToSet(games)
  BY <1>2 DEF GameInv, GamesInv
<1>6. GamesInv'
  BY <1>1, <1>2, <1>3, <1>4, <1>5 DEF GameInv, GamesInv
<1>7. GamePointersListed'
  BY <1>1, <1>2 DEF GameInv, GamePointersListed
<1>8. HandedOutIdResolves'
  BY <1>1, <1>3, <1>5, ListElements DEF GameInv, HandedOutIdResolves
<1>. QED  BY <1>6, <1>7, <1>8 DEF GameInv

LEMMA LinkGameLists ==
  ASSUME TypeOK, GameInv, NEW c \in Conns, LinkGame(c)
  PROVE  GameInv'
<1>1. /\ gid' = gid /\ game' = game /\ pick' = pick /\ stage' = stage
      /\ found' = found /\ listening' = listening
  BY DEF LinkGame, script, locals
<1>2. pc[c] = "cgLink" /\ pc'[c] = "cgFill" /\ \A x \in Conns \ {c} : pc'[x] = pc[x]
  BY Moves DEF LinkGame, At
<1>3. ToSet(games') = ToSet(games) \cup {c}
  <2>1. games' = Append(games, c) /\ games \in Seq(Conns)
    BY DEF LinkGame, Push, TypeOK
  <2>. QED  BY <2>1, AppendElements
<1>4. GamesInv'
  BY <1>1, <1>2, <1>3 DEF GameInv, GamesInv
<1>5. GamePointersListed'
  BY <1>1, <1>2, <1>3 DEF GameInv, GamePointersListed
<1>6. HandedOutIdResolves'
  BY <1>1, <1>3 DEF GameInv, HandedOutIdResolves
<1>. QED  BY <1>4, <1>5, <1>6 DEF GameInv

LEMMA FillGameLists ==
  ASSUME TypeOK, GameInv, NEW c \in Conns, FillGame(c)
  PROVE  GameInv'
<1>1. /\ games' = games /\ gid' = gid /\ game' = game /\ pick' = pick /\ stage' = stage
      /\ found' = found /\ listening' = listening
  BY DEF FillGame, gameList, script, locals
<1>2. pc[c] = "cgFill" /\ pc'[c] = "cgAssign" /\ \A x \in Conns \ {c} : pc'[x] = pc[x]
  BY Moves DEF FillGame, At
<1>3. GamesInv'
  BY <1>1, <1>2 DEF GameInv, GamesInv
<1>4. GamePointersListed'
  BY <1>1, <1>2 DEF GameInv, GamePointersListed
<1>5. HandedOutIdResolves'
  BY <1>1 DEF GameInv, HandedOutIdResolves
<1>. QED  BY <1>3, <1>4, <1>5 DEF GameInv

LEMMA AssignNewGameKeeps ==
  ASSUME TypeOK, GameInv, NEW c \in Conns, AssignNewGame(c)
  PROVE  GameInv'
<1>1. games' = games /\ gid' = gid /\ found' = found /\ listening' = listening
  BY DEF AssignNewGame, gameList, locals
<1>2. pc[c] = "cgAssign" /\ pc'[c] = "reply" /\ \A x \in Conns \ {c} : pc'[x] = pc[x]
  BY Moves DEF AssignNewGame, At
<1>3. /\ game'[c] = c /\ pick'[c] = gid[c] /\ stage'[c] = "SG"
      /\ \A x \in Conns \ {c} : game'[x] = game[x] /\ pick'[x] = pick[x] /\ stage'[x] = stage[x]
  BY DEF AssignNewGame, CreatedId, SetStage, TypeOK
<1>4. c \in ToSet(games)
  BY <1>2 DEF GameInv, GamesInv
<1>5. GamesInv'
  BY <1>1, <1>2, <1>3 DEF GameInv, GamesInv
<1>6. GamePointersListed'
  BY <1>1, <1>2, <1>3, <1>4 DEF GameInv, GamePointersListed
<1>7. HandedOutIdResolves'
  BY <1>1, <1>3, <1>4 DEF GameInv, HandedOutIdResolves
<1>. QED  BY <1>5, <1>6, <1>7 DEF GameInv

LEMMA ListGamesKeeps ==
  ASSUME TypeOK, GameInv, NEW c \in Conns, ListGames(c)
  PROVE  GameInv'
<1>1. /\ games' = games /\ gid' = gid /\ game' = game /\ found' = found
      /\ listening' = listening
  BY DEF ListGames, gameList, locals
<1>2. /\ pc[c] = "idle" /\ stage[c] = "LI"
      /\ pc'[c] = "reply" /\ \A x \in Conns \ {c} : pc'[x] = pc[x]
  BY Moves DEF ListGames, Request, At
<1>3. /\ \/ pick'[c] = 0 /\ stage'[c] = "JG"
         \/ pick'[c] \in ListedIds /\ stage'[c] = "GI"
      /\ \A x \in Conns \ {c} : pick'[x] = pick[x] /\ stage'[x] = stage[x]
  BY DEF ListGames, SetStage, TypeOK
<1>5. listening = NoConn => 0 \notin ListedIds
  <2>1. \A g \in ToSet(games) : g \in Conns /\ gid[g] \in Nat
    BY ListElements DEF TypeOK
  <2>2. listening = NoConn => \A g \in ToSet(games) : gid[g] > 0
    BY <2>1 DEF GameInv, GamesInv
  <2>. QED  BY <2>1, <2>2 DEF ListedIds
<1>6. GamesInv'
  BY <1>1, <1>2, <1>3, <1>5 DEF GameInv, GamesInv
<1>7. GamePointersListed'
  BY <1>1, <1>2 DEF GameInv, GamePointersListed
<1>8. HandedOutIdResolves'
  <2>1. \A n \in ListedIds : \E g \in ToSet(games) : gid[g] = n
    BY DEF ListedIds
  <2>. QED  BY <1>1, <1>3, <2>1 DEF GameInv, HandedOutIdResolves
<1>. QED  BY <1>6, <1>7, <1>8 DEF GameInv

LEMMA FindGameKeeps ==
  ASSUME TypeOK, GameInv, NEW c \in Conns, GameInfo(c) \/ JoinGame(c)
  PROVE  GameInv'
<1>1. PICK r \in {"GI", "JG"}, next \in Choosing : FindGame(c, r, next)
  BY DEF GameInfo, JoinGame, Choosing
<1>2. /\ games' = games /\ gid' = gid /\ game' = game /\ pick' = pick /\ stage' = stage
      /\ listening' = listening
  BY <1>1 DEF FindGame, gameList, script
<1>3. pc[c] = "idle" /\ pc'[c] \in Choosing /\ \A x \in Conns \ {c} : pc'[x] = pc[x]
  BY <1>1, Moves DEF FindGame, Request, At
<1>4. found'[c] = GameById(pick[c]) /\ \A x \in Conns \ {c} : found'[x] = found[x]
  BY <1>1 DEF FindGame, TypeOK
<1>5. found'[c] \in ToSet(games)
  BY <1>1, <1>4, GameByIdFinds DEF FindGame, ToSet
<1>6. GamesInv'
  BY <1>2, <1>3 DEF GameInv, GamesInv, Choosing
<1>7. GamePointersListed'
  BY <1>2, <1>3, <1>4, <1>5 DEF GameInv, GamePointersListed
<1>8. HandedOutIdResolves'
  BY <1>2 DEF GameInv, HandedOutIdResolves
<1>. QED  BY <1>6, <1>7, <1>8 DEF GameInv

LEMMA AssignKeeps ==
  ASSUME TypeOK, GameInv, NEW c \in Conns, AssignShownGame(c) \/ AssignJoinedGame(c)
  PROVE  GameInv'
<1>1. /\ games' = games /\ gid' = gid /\ pick' = pick /\ found' = found
      /\ listening' = listening
  BY DEF AssignShownGame, AssignJoinedGame, gameList, script, locals
<1>2. /\ pc[c] \in {"giAssign", "jgAssign"} /\ pc'[c] \in {"reply", "jgReply"}
      /\ \A x \in Conns \ {c} : pc'[x] = pc[x]
  BY Moves DEF AssignShownGame, AssignJoinedGame, At
<1>3. /\ game'[c] = found[c] /\ stage'[c] \in {stage[c], "JG"}
      /\ \A x \in Conns \ {c} : game'[x] = game[x] /\ stage'[x] = stage[x]
  BY DEF AssignShownGame, AssignJoinedGame, SetStage, script, TypeOK
<1>4. found[c] \in ToSet(games)
  BY <1>2 DEF GameInv, GamePointersListed
<1>5. GamesInv'
  BY <1>1, <1>2, <1>3 DEF GameInv, GamesInv
<1>6. GamePointersListed'
  BY <1>1, <1>2, <1>3, <1>4 DEF GameInv, GamePointersListed
<1>7. HandedOutIdResolves'
  BY <1>1 DEF GameInv, HandedOutIdResolves
<1>. QED  BY <1>5, <1>6, <1>7 DEF GameInv

LEMMA EndNotifyKeeps ==
  ASSUME TypeOK, GameInv, NEW c \in Conns, EndNotify(c)
  PROVE  GameInv'
<1>1. /\ games' = games /\ gid' = gid /\ game' = game /\ pick' = pick /\ found' = found
      /\ listening' = listening
  BY DEF EndNotify, gameList, locals
<1>2. pc[c] = "jgVisit" /\ pc'[c] = "reply" /\ \A x \in Conns \ {c} : pc'[x] = pc[x]
  BY Moves DEF EndNotify, At
<1>3. stage'[c] = "PI" /\ \A x \in Conns \ {c} : stage'[x] = stage[x]
  BY DEF EndNotify, SetStage, TypeOK
<1>4. GamesInv'
  BY <1>1, <1>2, <1>3 DEF GameInv, GamesInv
<1>5. GamePointersListed'
  BY <1>1, <1>2 DEF GameInv, GamePointersListed
<1>6. HandedOutIdResolves'
  BY <1>1 DEF GameInv, HandedOutIdResolves
<1>. QED  BY <1>4, <1>5, <1>6 DEF GameInv

LEMMA OpenGameplayLists ==
  ASSUME TypeOK, GameInv, NEW c \in Conns, OpenGameplay(c)
  PROVE  GameInv'
<1>1. /\ games' = games /\ gid' = gid /\ game' = game /\ pick' = pick /\ stage' = stage
      /\ found' = found /\ listening' = c
  BY DEF OpenGameplay, gameList, script, locals
<1>2. pc[c] = "sgSend" /\ pc'[c] = "gp" /\ \A x \in Conns \ {c} : pc'[x] = pc[x]
  BY Moves DEF OpenGameplay, At
<1>3. GamesInv'
  BY <1>1, <1>2, Owners DEF GameInv, GamesInv
<1>4. GamePointersListed'
  BY <1>1, <1>2 DEF GameInv, GamePointersListed
<1>5. HandedOutIdResolves'
  BY <1>1, Owners DEF HandedOutIdResolves
<1>. QED  BY <1>3, <1>4, <1>5 DEF GameInv

LEMMA ParseBufferLists ==
  ASSUME TypeOK, RegistryInv, GameInv, NEW c \in Conns, ParseBuffer(c)
  PROVE  GameInv'
<1>1. /\ games' = games /\ game' = game /\ pick' = pick /\ stage' = stage /\ pc' = pc
      /\ found' = found /\ listening' = listening
  BY DEF ParseBuffer, gameList, script
<1>2. listening = c
  BY DEF ParseBuffer, At, RegistryInv, GameplayInv
<1>3. GamesInv'
  BY <1>1, <1>2, Owners DEF GameInv, GamesInv
<1>4. GamePointersListed'
  BY <1>1 DEF GameInv, GamePointersListed
<1>5. HandedOutIdResolves'
  BY <1>1, <1>2, Owners DEF HandedOutIdResolves
<1>. QED  BY <1>3, <1>4, <1>5 DEF GameInv

\* Every step keeps the invariant of the game list.
LEMMA GameStep ==
  ASSUME TypeOK, RegistryInv, GameInv, [Next]_vars
  PROVE  GameInv'
BY GameStepKinds, GameQuietKeeps, ReadTracksKeeps, CreateGameKeeps, StoreGameIdKeeps,
   LinkGameLists, FillGameLists, AssignNewGameKeeps, ListGamesKeeps, FindGameKeeps,
   AssignKeeps, EndNotifyKeeps, OpenGameplayLists, ParseBufferLists, Zenon

LEMMA InitGames == ASSUME Init PROVE GameInv
<1>1. ToSet(games) = {}
  BY EmptySeq DEF Init, ToSet
<1>. QED  BY <1>1 DEF Init, GameInv, GamesInv, GamePointersListed, HandedOutIdResolves

LEMMA GamesInductive == Spec => [](TypeOK /\ RegistryInv /\ GameInv)
<1>1. Init => GameInv
  BY InitGames
<1>2. TypeOK /\ RegistryInv /\ GameInv /\ [Next]_vars => GameInv'
  BY GameStep
<1>. QED  BY <1>1, <1>2, Inductive, PTL DEF Spec

\* No record points at a game that is not on the game list, from the dummy game to
\* the created or joined one.
THEOREM GamePointersAreListed == Spec => []GamePointersListed
<1>1. GameInv => GamePointersListed
  BY DEF GameInv
<1>. QED  BY <1>1, GamesInductive, PTL

\* A game ID a client got from LI or CG names a listed game until a gameplay starts,
\* although ++game_id is not atomic and two games may share an ID.
THEOREM HandedOutIdsResolve == Spec => []HandedOutIdResolves
<1>1. GameInv => HandedOutIdResolves
  BY DEF GameInv
<1>. QED  BY <1>1, GamesInductive, PTL

\* Nothing happens after the process has exited.
LEMMA DeadServerStops == ASSUME [Next]_vars, server # "up" PROVE UNCHANGED vars
<1>. USE DEF At, Request
<1>1. ~MainStep
  BY DEF MainStep, LinkClient, StartThread
<1>2. \A c \in Conns : ~Deny(c) /\ ~Accept(c) /\ ~ConnectionLost(c) /\ ~ClientExits(c)
  BY DEF Deny, Accept, ConnectionLost, ClientExits
<1>3. \A c \in Conns : ~ThreadStep(c)
  BY DEF ThreadStep, Reply, RemoveClient, Leave, StoreGameId, LinkGame, FillGame, AssignNewGame,
         CollectPlayers, AssignShownGame, AssignJoinedGame, ReplyJoin, NotifyPlayer,
         NextPlayer, EndNotify, SendStart, OpenGameplay, ParseBuffer
<1>4. \A c \in Conns : ~RequestStep(c)
  BY DEF RequestStep, GetNumberOfFields, FieldInfo, ReadTracks, CreateGame, Ping, ListGames,
         GameInfo, JoinGame, FindGame, StartGame
<1>5. \A c \in Conns : ~ThreadDies(c)
  BY DEF ThreadDies, ReplyDies, CollectDies, ShowGameDies, ReplyJoinDies,
         NotifyDies, NextPlayerDies, SendStartDies, OpenGameplayDies, ParseBufferDies
<1>6. \A c \in Conns : ~RequestDies(c) /\ ~ReceiveDies(c)
  BY DEF RequestDies, ReceiveDies, ListGamesDies, FindGameDies, StartGameDies
<1>. QED  BY <1>1, <1>2, <1>3, <1>4, <1>5, <1>6, Zenon DEF Next

\* err_die_server over an unknown game is only called by get_game_by_id's callers.
LEMMA UnknownGameSteps ==
  ASSUME TypeOK, RegistryInv, [Next]_vars, server # "noGame", server' = "noGame"
  PROVE  \E c \in Conns :
           /\ \E r \in {"GI", "JG"} : Request(c, r)
           /\ GameById(pick[c]) = NoConn /\ Die("noGame")
<1>1. ASSUME NEW x, x # "noGame", Die(x) PROVE FALSE
  BY <1>1 DEF Die
<1>2. ASSUME NEW n, SendFails(n) PROVE FALSE
  BY <1>1, <1>2 DEF SendFails
<1>3. ASSUME NEW c \in Conns, ThreadDies(c) \/ ListGamesDies(c) \/ StartGameDies(c) \/ ReceiveDies(c)
      PROVE  FALSE
  BY <1>1, <1>2, <1>3
     DEF ThreadDies, ReceiveDies, ReplyDies, CollectDies, ShowGameDies,
         ReplyJoinDies, NotifyDies, NextPlayerDies, SendStartDies, OpenGameplayDies,
         ParseBufferDies, ListGamesDies, StartGameDies
<1>4. \E c \in Conns : FindGameDies(c)
  BY <1>3, DyingActor, Zenon DEF RequestDies
<1>. QED  BY <1>1, <1>4 DEF FindGameDies

\* A handler is at its end, and a record is freed, only after a client has left.
Ending == {"leave", "leaving"}
LeftInv ==
  freed # {} \/ (\E c \in Conns : pc[c] \in Ending) => gone \ NoSocket # {}

LEMMA LeftKept ==
  ASSUME LeftInv, gone \subseteq gone',
         freed' = freed \/ \E c \in Conns : pc[c] \in Ending,
         \A c \in Conns : pc'[c] \in Ending => pc[c] \in Ending \/ gone \ NoSocket # {}
  PROVE  LeftInv'
<1>1. gone \ NoSocket = gone \ Failing /\ gone' \ NoSocket' = gone' \ Failing
  BY DEF NoSocket
<1>. QED  BY <1>1 DEF LeftInv

LEMMA LeftStep ==
  ASSUME TypeOK, RegistryInv, LeftInv, [Next]_vars
  PROVE  LeftInv'
<1>. DEFINE G == LeftInv'
<1>. USE DEF registry
<1>1. ASSUME UNCHANGED <<freed, gone, pc>> PROVE G
  BY <1>1, LeftKept
<1>2. ASSUME NEW d \in Conns, NEW p \in PcSet \ Ending, Goto(d, p), UNCHANGED freed,
             gone \subseteq gone'
      PROVE G
  BY <1>2, LeftKept, Moves
<1>3. ASSUME NEW d \in Conns, RemoveClient(d) PROVE G
  <2>1. pc[d] \in Ending /\ UNCHANGED gone
    BY <1>3 DEF RemoveClient, At, Ending
  <2>2. gone \ NoSocket # {}
    BY <2>1 DEF LeftInv
  <2>. QED  BY <2>1, <2>2, LeftKept
<1>4. ASSUME NEW d \in Conns, ConnectionLost(d) PROVE G
  <2>1. gone \ NoSocket # {} /\ UNCHANGED <<freed, gone>>
    BY <1>4 DEF ConnectionLost
  <2>. QED  BY <2>1, LeftKept
<1>5. ASSUME NEW d \in Conns, ClientExits(d) PROVE G
  <2>1. UNCHANGED <<freed, pc>> /\ gone \subseteq gone'
    BY <1>5 DEF ClientExits
  <2>. QED  BY <2>1, LeftKept
<1>6. PcSet \ Ending = PcSet \ {"leave", "leaving"}
  BY DEF Ending
<1>. HIDE DEF G
<1>. USE Places, <1>1, <1>2, <1>6
<1>7. ASSUME Dies \/ LinkClient \/ UNCHANGED vars PROVE G
  BY <1>7 DEF Dies, Die, LinkClient, vars
<1>8. ASSUME StartThread PROVE G
  <2>1. newConn \in Conns /\ Goto(newConn, "idle") /\ UNCHANGED <<freed, gone>>
    BY <1>8 DEF StartThread, RegistryInv, MainInv
  <2>2. "idle" \in PcSet \ Ending /\ gone \subseteq gone'
    BY <2>1
  <2>. QED  BY <1>2, <2>1, <2>2, Zenon
<1>9. ASSUME NEW d \in Conns, Deny(d) \/ Accept(d) PROVE G
  BY <1>9 DEF Deny, Accept
<1>10. ASSUME NEW d \in Conns, Reply(d) \/ Leave(d) \/ StoreGameId(d) \/ LinkGame(d) \/ FillGame(d)
              \/ AssignNewGame(d)
       PROVE  G
  BY <1>10 DEF Reply, Leave, StoreGameId, LinkGame, FillGame, AssignNewGame
<1>11. ASSUME NEW d \in Conns, CollectPlayers(d) \/ AssignShownGame(d) \/ AssignJoinedGame(d)
              \/ ReplyJoin(d) \/ NotifyPlayer(d) \/ NextPlayer(d) \/ EndNotify(d)
       PROVE  G
  BY <1>11 DEF CollectPlayers, AssignShownGame, AssignJoinedGame, ReplyJoin, NotifyPlayer,
               NextPlayer, EndNotify
<1>12. ASSUME NEW d \in Conns, SendStart(d) \/ OpenGameplay(d) \/ ParseBuffer(d) \/ StartGame(d)
       PROVE  G
  BY <1>12 DEF SendStart, OpenGameplay, ParseBuffer, StartGame
<1>13. ASSUME NEW d \in Conns, GetNumberOfFields(d) \/ FieldInfo(d) \/ CreateGame(d) \/ Ping(d)
              \/ ListGames(d) \/ GameInfo(d) \/ JoinGame(d)
       PROVE  G
  BY <1>13 DEF GetNumberOfFields, FieldInfo, ReadTracks, CreateGame, Ping, ListGames,
               GameInfo, JoinGame, FindGame
<1>. QED
  BY <1>3, <1>4, <1>5, <1>7, <1>8, <1>9, <1>10, <1>11, <1>12, <1>13, DyingSteps, Zenon
     DEF G, Next, MainStep, ThreadStep, RequestStep

\* What the steps that end the process need, where its end is a failed recv or send or a
\* crash; they change nothing else.
LEMMA ExitSteps ==
  ASSUME LeftInv, NEW c \in Conns, ThreadDies(c) \/ RequestDies(c) \/ ReceiveDies(c),
         server' \in {"recv", "send", "segv"}
  PROVE  /\ server' \in {"recv", "send"} => gone # {}
         /\ server' = "segv" => CrashDue
         /\ Die(server')
<1>. DEFINE E(x) == Die(x) /\ (x \in {"recv", "send"} => gone # {}) /\ (x = "segv" => CrashDue)
<1>1. ASSUME NEW x \in {"noGame", "password", "port"}, Die(x) PROVE FALSE
  BY <1>1 DEF Die
<1>2. ASSUME NEW n, SendFails(n) PROVE E("send")
  BY <1>2 DEF SendFails
<1>3. ASSUME ReceiveDies(c) PROVE E("recv")
  BY <1>3 DEF ReceiveDies
<1>4. ASSUME Die("segv"), CrashDue PROVE E("segv")
  BY <1>4
<1>5. freed # {} \/ ClientListUnstable => CrashDue
  BY DEF LeftInv, CrashDue, ClientListUnstable, Ending
<1>6. ASSUME NEW n, Dangling(n) PROVE CrashDue
  BY <1>5, <1>6 DEF Dangling, CrashDue
<1>7. ASSUME ThreadDies(c) PROVE E("send") \/ E("segv")
  <2>1. CASE ReplyDies(c) \/ ReplyJoinDies(c)
    BY <1>2, <2>1 DEF ReplyDies, ReplyJoinDies
  <2>2. CASE CollectDies(c)
    BY <1>4, <1>5, <2>2 DEF CollectDies, CrashDue, At
  <2>3. CASE ShowGameDies(c)
    BY <1>4, <1>5, <2>3 DEF ShowGameDies
  <2>4. CASE NotifyDies(c)
    BY <1>2, <1>4, <1>6, <2>4 DEF NotifyDies
  <2>5. CASE NextPlayerDies(c)
    BY <1>4, <1>6, <2>5 DEF NextPlayerDies
  <2>6. CASE SendStartDies(c)
    BY <1>2, <1>4, <1>5, <2>6 DEF SendStartDies
  <2>7. CASE ParseBufferDies(c)
    BY <1>4, <1>5, <2>7 DEF ParseBufferDies
  <2>8. ~OpenGameplayDies(c)
    BY <1>1 DEF OpenGameplayDies
  <2>. QED  BY <1>7, <2>1, <2>2, <2>3, <2>4, <2>5, <2>6, <2>7, <2>8 DEF ThreadDies
<1>8. ASSUME RequestDies(c) PROVE E("segv")
  BY <1>1, <1>4, <1>5, <1>8
     DEF RequestDies, ListGamesDies, FindGameDies, StartGameDies, CrashDue
<1>9. \E x \in {"recv", "send", "segv"} : E(x)
  BY <1>3, <1>7, <1>8
<1>. QED  BY <1>9 DEF Die

\* The server exits over an unknown game only when a client joins on a server without
\* games, which client.c:277-279 does, or once a gameplay has overwritten game IDs; over a
\* failed recv or send only when somebody has left or no connection was accepted; and it
\* crashes in a walk only by what the walks without a lock are open to.
THEOREM ExitsExplained == Spec => []ExitExplained
<1>1. Init => LeftInv /\ ExitExplained
  BY DEF Init, ExitExplained, LeftInv, Ending
<1>2. /\ TypeOK /\ RegistryInv /\ GameInv /\ LeftInv /\ ExitExplained /\ [Next]_vars
      => LeftInv' /\ ExitExplained'
  <2>. SUFFICES ASSUME TypeOK, RegistryInv, GameInv, LeftInv, ExitExplained, [Next]_vars
                PROVE  ExitExplained'
    BY LeftStep
  <2>1. CASE server # "up"
    <3>1. UNCHANGED vars
      BY <2>1, DeadServerStops
    <3>2. UNCHANGED <<server, listening, stage, pick, gone, mainpc, games, pc, clients, gid, game>>
      BY <3>1 DEF vars, script, registry, gameList
    <3>3. UNCHANGED CrashDue
      BY <3>2 DEF CrashDue, NoSocket, GameListUnstable, Members, GameIdOf
    <3>. QED  BY <3>2, <3>3 DEF ExitExplained
  <2>2. CASE server = "up" /\ server' = "noGame"
    <3>1. PICK c \in Conns : /\ \E r \in {"GI", "JG"} : Request(c, r)
                             /\ GameById(pick[c]) = NoConn /\ Die("noGame")
      BY <2>2, UnknownGameSteps
    <3>2. listening' = listening /\ stage' = stage /\ pick' = pick
      BY <3>1 DEF Die, script
    <3>3. listening = NoConn => pick[c] = 0
      <4>1. \A i \in DOMAIN games : gid[games[i]] # pick[c]
        BY <3>1, GameByIdFinds
      <4>. QED  BY <4>1 DEF GameInv, HandedOutIdResolves, ToSet
    <3>4. listening = NoConn => stage[c] = "JG"
      BY <3>1, <3>3 DEF Request, GameInv, GamesInv
    <3>. QED  BY <2>2, <3>2, <3>3, <3>4 DEF ExitExplained
  <2>3. CASE server = "up" /\ server' \in {"recv", "send", "segv"}
    <3>1. PICK c \in Conns : ThreadDies(c) \/ RequestDies(c) \/ ReceiveDies(c)
      BY <2>3, DyingActor
    <3>2. /\ server' \in {"recv", "send"} => gone # {}
          /\ server' = "segv" => CrashDue
          /\ Die(server')
      BY <2>3, <3>1, ExitSteps
    <3>3. UNCHANGED <<gone, mainpc, games, pc, pick, clients, gid, game>>
      BY <3>2 DEF Die, registry, gameList, script
    <3>4. UNCHANGED CrashDue
      BY <3>3 DEF CrashDue, NoSocket, GameListUnstable, Members, GameIdOf
    <3>. QED  BY <2>3, <3>2, <3>3, <3>4 DEF ExitExplained
  <2>. QED  BY <2>1, <2>2, <2>3 DEF ExitExplained
<1>. QED  BY <1>1, <1>2, GamesInductive, PTL DEF Spec

-------------------------------------------------------------------------------
(* Removals and starts: what RemovesItsOwnClient, StartReachesEveryPlayer and   *)
(* StartStaysInGame fail of, and what is left of them.                          *)

\* Which steps bring a thread to the end of its handler and to the sends of SG, and which
\* steps send SG, take a game ID and load one.
LEMMA StartMovers ==
  ASSUME TypeOK, RegistryInv, [Next]_vars, NEW c \in Conns
  PROVE  /\ pc'[c] = "leaving" /\ pc[c] # "leaving" => RemoveClient(c)
         /\ pc'[c] = "sgSend" /\ pc[c] # "sgSend" => StartGame(c)
<1>. DEFINE G == /\ pc'[c] = "leaving" /\ pc[c] # "leaving" => RemoveClient(c)
                 /\ pc'[c] = "sgSend" /\ pc[c] # "sgSend" => StartGame(c)
<1>1. ASSUME UNCHANGED pc PROVE G
  BY <1>1
<1>2. ASSUME NEW d \in Conns, NEW p \in PcSet \ {"leaving", "sgSend"}, Goto(d, p) PROVE G
  BY <1>2, Moves
<1>3. ASSUME NEW d \in Conns, RemoveClient(d) PROVE G
  BY <1>3, Moves DEF RemoveClient
<1>4. ASSUME NEW d \in Conns, StartGame(d) PROVE G
  BY <1>4, Moves DEF StartGame
<1>. HIDE DEF G
<1>. USE Places, <1>1, <1>2
<1>5. CASE Dies
  BY <1>5 DEF Dies, Die
<1>6. CASE LinkClient \/ UNCHANGED vars
  BY <1>6 DEF LinkClient, vars
<1>7. ASSUME StartThread PROVE G
  <2>1. newConn \in Conns /\ Goto(newConn, "idle")
    BY <1>7 DEF StartThread, RegistryInv, MainInv
  <2>2. "idle" \in PcSet \ {"leaving", "sgSend"}
    BY Places
  <2>. QED  BY <1>2, <2>1, <2>2, Zenon
<1>8. ASSUME NEW d \in Conns, Deny(d) \/ Accept(d) \/ ConnectionLost(d) \/ ClientExits(d) PROVE G
  BY <1>8 DEF Deny, Accept, ConnectionLost, ClientExits
<1>9. ASSUME NEW d \in Conns, Reply(d) \/ Leave(d) \/ StoreGameId(d) \/ LinkGame(d) \/ FillGame(d)
             \/ AssignNewGame(d)
      PROVE  G
  BY <1>9 DEF Reply, Leave, StoreGameId, LinkGame, FillGame, AssignNewGame
<1>10. ASSUME NEW d \in Conns, CollectPlayers(d) \/ AssignShownGame(d) \/ AssignJoinedGame(d)
              \/ ReplyJoin(d) \/ NotifyPlayer(d) \/ NextPlayer(d) \/ EndNotify(d)
       PROVE  G
  BY <1>10 DEF CollectPlayers, AssignShownGame, AssignJoinedGame, ReplyJoin, NotifyPlayer,
               NextPlayer, EndNotify
<1>11. ASSUME NEW d \in Conns, SendStart(d) \/ OpenGameplay(d) \/ ParseBuffer(d) PROVE G
  BY <1>11 DEF SendStart, OpenGameplay, ParseBuffer
<1>12. ASSUME NEW d \in Conns, GetNumberOfFields(d) \/ FieldInfo(d) \/ CreateGame(d) \/ Ping(d)
              \/ ListGames(d) \/ GameInfo(d) \/ JoinGame(d)
       PROVE  G
  BY <1>12 DEF GetNumberOfFields, FieldInfo, ReadTracks, CreateGame, Ping, ListGames,
               GameInfo, JoinGame, FindGame
<1>. QED
  BY <1>3, <1>4, <1>5, <1>6, <1>7, <1>8, <1>9, <1>10, <1>11, <1>12, DyingSteps, Zenon
     DEF G, Next, MainStep, ThreadStep, RequestStep

LEMMA StartWriters ==
  ASSUME [Next]_vars
  PROVE  /\ (\E c \in Conns : SendStart(c)) \/ UNCHANGED started
         /\ (\E c \in Conns : StoreGameId(c) \/ OpenGameplay(c)) \/ UNCHANGED gameId
         /\ (\E c \in Conns : CreateGame(c)) \/ UNCHANGED loaded
<1>. DEFINE S == (\E c \in Conns : SendStart(c)) \/ UNCHANGED started
            I == (\E c \in Conns : StoreGameId(c) \/ OpenGameplay(c)) \/ UNCHANGED gameId
            L == (\E c \in Conns : CreateGame(c)) \/ UNCHANGED loaded
            G == S /\ I /\ L
<1>. USE DEF locals
<1>1. ASSUME Dies \/ UNCHANGED vars \/ LinkClient \/ StartThread PROVE G
  BY <1>1 DEF Dies, Die, vars, LinkClient, StartThread
<1>2. ASSUME NEW d \in Conns, Deny(d) \/ Accept(d) \/ ConnectionLost(d) \/ ClientExits(d) PROVE G
  BY <1>2 DEF Deny, Accept, ConnectionLost, ClientExits
<1>3. ASSUME NEW d \in Conns, Reply(d) \/ RemoveClient(d) \/ Leave(d) \/ LinkGame(d)
             \/ FillGame(d) \/ AssignNewGame(d)
      PROVE  G
  BY <1>3 DEF Reply, RemoveClient, Leave, LinkGame, FillGame, AssignNewGame
<1>4. ASSUME NEW d \in Conns, CollectPlayers(d) \/ AssignShownGame(d) \/ AssignJoinedGame(d)
             \/ ReplyJoin(d) \/ NotifyPlayer(d) \/ NextPlayer(d) \/ EndNotify(d) \/ ParseBuffer(d)
      PROVE  G
  BY <1>4 DEF CollectPlayers, AssignShownGame, AssignJoinedGame, ReplyJoin, NotifyPlayer,
              NextPlayer, EndNotify, ParseBuffer
<1>5. ASSUME NEW d \in Conns, GetNumberOfFields(d) \/ FieldInfo(d) \/ Ping(d) \/ ListGames(d)
             \/ GameInfo(d) \/ JoinGame(d) \/ StartGame(d)
      PROVE  G
  BY <1>5 DEF GetNumberOfFields, FieldInfo, ReadTracks, Ping, ListGames, GameInfo, JoinGame,
              FindGame, StartGame
<1>6. ASSUME NEW d \in Conns, StoreGameId(d) \/ OpenGameplay(d) \/ CreateGame(d) \/ SendStart(d)
      PROVE  G
  BY <1>6 DEF StoreGameId, OpenGameplay, CreateGame, SendStart
<1>7. G
  <2>. HIDE DEF G
  <2>. QED  BY <1>1, <1>2, <1>3, <1>4, <1>5, <1>6, DyingSteps, Zenon
            DEF Next, MainStep, ThreadStep, RequestStep
<1>. QED  BY <1>7

\* A handler that ends removes the record of its own client, or that of the one client
\* whose player ID a gameplay has overwritten: so until a gameplay starts, its own.
THEOREM RemovalsExplained ==
  Spec => [][\A c \in Conns : pc[c] = "leave" /\ pc'[c] = "leaving" =>
               \/ freed' = freed \cup {c}
               \/ listening # NoConn /\ freed' = freed \cup {listening}]_vars
<1>. DEFINE Explained ==
       \A c \in Conns : pc[c] = "leave" /\ pc'[c] = "leaving" =>
         \/ freed' = freed \cup {c}
         \/ listening # NoConn /\ freed' = freed \cup {listening}
<1>1. TypeOK /\ RegistryInv /\ [Next]_vars => [Explained]_vars
  <2>. SUFFICES ASSUME TypeOK, RegistryInv, [Next]_vars, NEW c \in Conns,
                       pc[c] = "leave", pc'[c] = "leaving"
                PROVE  \/ freed' = freed \cup {c}
                       \/ listening # NoConn /\ freed' = freed \cup {listening}
    OBVIOUS
  <2>1. RemoveClient(c)
    BY StartMovers
  <2>2. PICK k \in 1..Len(clients) : pid[clients[k]] = pid[c] /\ freed' = freed \cup {clients[k]}
    BY <2>1, RemovalProceeds
  <2>3. clients[k] \in Conns /\ pc[clients[k]] \notin Unseen
    BY ListElements DEF TypeOK, RegistryInv, ListInv
  <2>4. clients[k] \in {c, listening}
    BY <2>2, <2>3 DEF RegistryInv, GameplayInv, IdInv, Unseen
  <2>. QED  BY <2>2, <2>3, <2>4, Owners
<1>. QED  BY <1>1, Inductive, PTL DEF Spec

\* From the choice of a game to its start: the client that starts a game has created it,
\* and asks for it by its ID until a gameplay overwrites that.
StartInv ==
  \A c \in Conns :
    /\ stage[c] = "SG" => game[c] = c /\ (listening = NoConn => pick[c] = gid[c])
    /\ pc[c] = "sgSend" => stage[c] = "SG"
    /\ pc[c] \in Choosing => stage[c] \in {"GI", "JG"}

\* A step of one thread, the others left as they are.
LEMMA StartKept ==
  ASSUME StartInv, NEW c \in Conns, listening' = listening \/ listening' # NoConn,
         /\ stage'[c] = "SG" => game'[c] = c /\ (listening' = NoConn => pick'[c] = gid'[c])
         /\ pc'[c] = "sgSend" => stage'[c] = "SG"
         /\ pc'[c] \in Choosing => stage'[c] \in {"GI", "JG"},
         \A x \in Conns \ {c} :
           /\ pc'[x] = pc[x] /\ stage'[x] = stage[x] /\ game'[x] = game[x]
           /\ pick'[x] = pick[x] /\ gid'[x] = gid[x]
  PROVE  StartInv'
BY DEF StartInv

\* Only START GAME leads to the sends of SG.
LEMMA StartStep ==
  ASSUME TypeOK, RegistryInv, GameInv, StartInv, [Next]_vars
  PROVE  StartInv'
<1>. USE DEF At, Request, SetStage, gameList, locals, script
<1>1. CASE GameQuiet
  <2>1. UNCHANGED <<games, gid, game, pick, stage, found, listening>>
    BY <1>1 DEF GameQuiet
  <2>2. ASSUME NEW c \in Conns, pc'[c] = "sgSend" PROVE stage[c] = "SG"
    BY <2>2, StartMovers DEF StartInv, StartGame
  <2>3. ASSUME NEW c \in Conns, pc'[c] \in Choosing PROVE stage[c] \in {"GI", "JG"}
    BY <1>1, <2>3 DEF GameQuiet, StartInv
  <2>. QED  BY <2>1, <2>2, <2>3 DEF StartInv
<1>2. ASSUME NEW c \in Conns, GetNumberOfFields(c) \/ FieldInfo(c) PROVE StartInv'
  <2>1. /\ pc'[c] = "reply" /\ stage'[c] \in {"FI", "CG"}
        /\ UNCHANGED <<game, pick, gid, listening>>
        /\ \A x \in Conns \ {c} : pc'[x] = pc[x] /\ stage'[x] = stage[x]
    BY <1>2, Moves DEF GetNumberOfFields, FieldInfo, ReadTracks, TypeOK
  <2>. QED  BY <2>1, StartKept DEF Choosing
<1>3. ASSUME NEW c \in Conns, CreateGame(c) PROVE StartInv'
  <2>1. /\ pc'[c] = "cgStore" /\ UNCHANGED <<stage, game, pick, gid, listening>>
        /\ \A x \in Conns \ {c} : pc'[x] = pc[x]
    BY <1>3, Moves DEF CreateGame
  <2>. QED  BY <2>1, StartKept DEF Choosing, StartInv
<1>4. ASSUME NEW c \in Conns, StoreGameId(c) PROVE StartInv'
  <2>1. /\ pc[c] = "cgStore" /\ pc'[c] = "cgLink" /\ UNCHANGED <<stage, game, pick, listening>>
        /\ \A x \in Conns \ {c} : pc'[x] = pc[x]
    BY <1>4, Moves DEF StoreGameId
  <2>2. \A x \in Conns \ {c} : gid'[x] = gid[x]
    BY <1>4 DEF StoreGameId, TypeOK
  <2>3. stage[c] = "CG"
    BY <2>1 DEF GameInv, GamesInv
  <2>. QED  BY <2>1, <2>2, <2>3, StartKept DEF Choosing
<1>5. ASSUME NEW c \in Conns, LinkGame(c) \/ FillGame(c) PROVE StartInv'
  <2>1. /\ pc'[c] \in {"cgFill", "cgAssign"} /\ UNCHANGED <<stage, game, pick, gid, listening>>
        /\ \A x \in Conns \ {c} : pc'[x] = pc[x]
    BY <1>5, Moves DEF LinkGame, FillGame
  <2>. QED  BY <2>1, StartKept DEF Choosing, StartInv
<1>6. ASSUME NEW c \in Conns, AssignNewGame(c) PROVE StartInv'
  <2>1. /\ pc'[c] = "reply" /\ UNCHANGED <<gid, listening>>
        /\ \A x \in Conns \ {c} : pc'[x] = pc[x]
    BY <1>6, Moves DEF AssignNewGame
  <2>2. /\ game'[c] = c /\ pick'[c] = gid[c]
        /\ \A x \in Conns \ {c} :
             game'[x] = game[x] /\ pick'[x] = pick[x] /\ stage'[x] = stage[x]
    BY <1>6 DEF AssignNewGame, CreatedId, TypeOK
  <2>. QED  BY <2>1, <2>2, StartKept DEF Choosing
<1>7. ASSUME NEW c \in Conns, ListGames(c) PROVE StartInv'
  <2>1. /\ pc'[c] = "reply" /\ UNCHANGED <<game, gid, listening>>
        /\ \A x \in Conns \ {c} : pc'[x] = pc[x]
    BY <1>7, Moves DEF ListGames
  <2>2. /\ stage'[c] \in {"JG", "GI"}
        /\ \A x \in Conns \ {c} : pick'[x] = pick[x] /\ stage'[x] = stage[x]
    BY <1>7 DEF ListGames, TypeOK
  <2>. QED  BY <2>1, <2>2, StartKept DEF Choosing
<1>8. ASSUME NEW c \in Conns, GameInfo(c) \/ JoinGame(c) PROVE StartInv'
  <2>1. /\ pc'[c] \in Choosing /\ stage[c] \in {"GI", "JG"}
        /\ UNCHANGED <<stage, game, pick, gid, listening>>
        /\ \A x \in Conns \ {c} : pc'[x] = pc[x]
    BY <1>8, Moves DEF GameInfo, JoinGame, FindGame, Choosing
  <2>. QED  BY <2>1, StartKept DEF Choosing
<1>9. ASSUME NEW c \in Conns, AssignShownGame(c) \/ AssignJoinedGame(c) PROVE StartInv'
  <2>1. /\ pc[c] \in Choosing /\ pc'[c] \in {"reply", "jgReply"}
        /\ UNCHANGED <<pick, gid, listening>>
        /\ \A x \in Conns \ {c} : pc'[x] = pc[x]
    BY <1>9, Moves DEF AssignShownGame, AssignJoinedGame, Choosing
  <2>2. /\ stage'[c] \in {stage[c], "JG"}
        /\ \A x \in Conns \ {c} : game'[x] = game[x] /\ stage'[x] = stage[x]
    BY <1>9 DEF AssignShownGame, AssignJoinedGame, TypeOK
  <2>3. stage[c] \in {"GI", "JG"}
    BY <2>1 DEF StartInv
  <2>. QED  BY <2>1, <2>2, <2>3, StartKept DEF Choosing
<1>10. ASSUME NEW c \in Conns, EndNotify(c) PROVE StartInv'
  <2>1. /\ pc'[c] = "reply" /\ UNCHANGED <<game, pick, gid, listening>>
        /\ \A x \in Conns \ {c} : pc'[x] = pc[x]
    BY <1>10, Moves DEF EndNotify
  <2>2. stage'[c] = "PI" /\ \A x \in Conns \ {c} : stage'[x] = stage[x]
    BY <1>10 DEF EndNotify, TypeOK
  <2>. QED  BY <2>1, <2>2, StartKept DEF Choosing
<1>11. ASSUME NEW c \in Conns, OpenGameplay(c) PROVE StartInv'
  <2>1. /\ pc'[c] = "gp" /\ listening' # NoConn /\ UNCHANGED <<stage, game, pick, gid>>
        /\ \A x \in Conns \ {c} : pc'[x] = pc[x]
    BY <1>11, Moves, Owners DEF OpenGameplay
  <2>. QED  BY <2>1, StartKept DEF Choosing, StartInv
<1>12. ASSUME NEW c \in Conns, ParseBuffer(c) PROVE StartInv'
  <2>1. listening = c /\ UNCHANGED <<pc, stage, game, pick, listening>>
    BY <1>12 DEF ParseBuffer, RegistryInv, GameplayInv
  <2>. QED  BY <2>1, Owners DEF StartInv
<1>. QED
  BY <1>1, <1>2, <1>3, <1>4, <1>5, <1>6, <1>7, <1>8, <1>9, <1>10, <1>11, <1>12,
     GameStepKinds, Zenon

LEMMA StartInductive == Spec => [](TypeOK /\ RegistryInv /\ GameInv /\ StartInv)
<1>1. Init => StartInv
  BY DEF Init, StartInv, Choosing
<1>2. TypeOK /\ RegistryInv /\ GameInv /\ StartInv /\ [Next]_vars => StartInv'
  BY StartStep
<1>. QED  BY <1>1, <1>2, GamesInductive, PTL DEF Spec

\* A start reaches every registered player of the game, unless the game has more players
\* than MAX_CLIENTS_PER_GAME or a gameplay has overwritten IDs.
THEOREM StartsReachUnlessCrowded ==
  Spec => [][\A c \in Conns : pc[c] = "idle" /\ pc'[c] = "sgSend" =>
               \/ {n \in ToSet(clients) : game[n] = game[c]} \subseteq unsent'[c]
               \/ listening # NoConn
               \/ Cardinality(Members(gid[c])) > MaxPerGame]_vars
<1>. DEFINE Reaches ==
       \A c \in Conns : pc[c] = "idle" /\ pc'[c] = "sgSend" =>
         \/ {n \in ToSet(clients) : game[n] = game[c]} \subseteq unsent'[c]
         \/ listening # NoConn
         \/ Cardinality(Members(gid[c])) > MaxPerGame
<1>1. TypeOK /\ RegistryInv /\ GameInv /\ StartInv /\ [Next]_vars => [Reaches]_vars
  <2>. SUFFICES ASSUME TypeOK, RegistryInv, StartInv, [Next]_vars, NEW c \in Conns,
                       pc[c] = "idle", pc'[c] = "sgSend", listening = NoConn,
                       ~ (Cardinality(Members(gid[c])) > MaxPerGame),
                       NEW n \in ToSet(clients), game[n] = game[c]
                PROVE  n \in unsent'[c]
    OBVIOUS
  <2>1. StartGame(c)
    BY StartMovers
  <2>2. game[c] = c /\ pick[c] = gid[c]
    BY <2>1 DEF StartGame, Request, StartInv
  <2>3. PICK i \in 1..Len(clients) : clients[i] = n
    BY ListElements DEF ToSet
  <2>4. i \in Members(gid[c])
    BY <2>2, <2>3, ListElements, Owners DEF Members, GameIdOf
  <2>5. i \in FirstMembers(gid[c])
    <3>. DEFINE M == Members(gid[c])
                E == {j \in M : j < i}
    <3>1. IsFiniteSet(M) /\ M \subseteq 1..Len(clients)
      <4>1. M \in SUBSET (1..Len(clients)) /\ IsFiniteSet(1..Len(clients))
        BY ListElements, FS_Interval DEF Members
      <4>. QED  BY <4>1, FS_Subset
    <3>2. E \subseteq M /\ i \notin E /\ i \in M
      BY <2>4, <3>1
    <3>. HIDE DEF M, E
    <3>3. E \in SUBSET M /\ E # M /\ IsFiniteSet(M)
      BY <3>1, <3>2
    <3>4. /\ IsFiniteSet(E)
          /\ Cardinality(E) <= Cardinality(M)
          /\ Cardinality(M) = Cardinality(E) => M = E
      BY <3>3, FS_Subset
    <3>5. Cardinality(M) \in Nat
      BY <3>3, FS_CardinalityType
    <3>6. Cardinality(E) \in Nat
      BY <3>4, FS_CardinalityType
    <3>7. Cardinality(E) < Cardinality(M)
      BY <3>3, <3>4, <3>5, <3>6
    <3>8. Cardinality(M) <= MaxPerGame
      BY <3>5, ConstantsAssumption DEF M
    <3>9. Cardinality(E) < MaxPerGame
      BY <3>5, <3>6, <3>7, <3>8, ConstantsAssumption
    <3>. QED  BY <3>2, <3>9 DEF FirstMembers, E, M
  <2>6. unsent'[c] = {clients[j] : j \in FirstMembers(pick[c])}
    BY <2>1 DEF StartGame, TypeOK
  <2>. QED  BY <2>2, <2>3, <2>5, <2>6
<1>. QED  BY <1>1, StartInductive, PTL DEF Spec

\* SG goes to players whose game has the ID of the one that starts.
LEMMA SendsByGameId ==
  ASSUME TypeOK, RegistryInv, GameInv, StartInv, [Next]_vars, NEW n \in started' \ started
  PROVE  \E c \in Conns :
           /\ n \in unsent[c] \ unsent'[c]
           /\ listening = NoConn =>
                /\ game[n] \in ToSet(games) /\ game[c] \in ToSet(games)
                /\ gid[game[n]] = gid[game[c]]
<1>1. PICK c \in Conns : SendStart(c)
  BY StartWriters
<1>2. n \in unsent[c] \ unsent'[c] /\ GameIdOf(n) = GameIdOf(c)
  BY <1>1 DEF SendStart, Addressed, TypeOK
<1>3. n \in Conns /\ game[c] = c
  BY <1>1, <1>2 DEF TypeOK, StartInv, SendStart, At
<1>4. CASE listening = NoConn
  <2>1. c \in ToSet(games) /\ gid[c] > 0
    BY <1>3, <1>4, Owners DEF GameInv, GamePointersListed, GamesInv
  <2>2. GameIdOf(c) = gid[c]
    BY <1>3, Owners DEF GameIdOf
  <2>3. game[n] # NoConn /\ gid[game[n]] = gid[c]
    BY <1>2, <2>1, <2>2 DEF GameIdOf
  <2>4. game[n] \in ToSet(games)
    BY <1>3, <2>3 DEF GameInv, GamePointersListed
  <2>. QED  BY <1>2, <1>3, <2>1, <2>3, <2>4
<1>. QED  BY <1>2, <1>4

\* SG leaves the game it starts only for a player of another listed game with the same
\* ID, or once a gameplay has overwritten IDs.
THEOREM StraysExplained ==
  Spec => [][\A n \in started' \ started : \E c \in Conns :
               /\ n \in unsent[c] \ unsent'[c]
               /\ \/ game[n] = game[c] \/ listening # NoConn
                  \/ \E g, h \in ToSet(games) :
                       game[n] = g /\ game[c] = h /\ g # h /\ gid[g] = gid[h]]_vars
<1>. DEFINE Explained ==
       \A n \in started' \ started : \E c \in Conns :
         /\ n \in unsent[c] \ unsent'[c]
         /\ \/ game[n] = game[c] \/ listening # NoConn
            \/ \E g, h \in ToSet(games) :
                 game[n] = g /\ game[c] = h /\ g # h /\ gid[g] = gid[h]
<1>1. TypeOK /\ RegistryInv /\ GameInv /\ StartInv /\ [Next]_vars => [Explained]_vars
  BY SendsByGameId
<1>. QED  BY <1>1, StartInductive, PTL DEF Spec

\* No creation begins while another is between the load and the store of ++game_id.
OneAtATime == \A c \in Conns : CreateGame(c) => \A d \in Conns : pc[d] # "cgStore"

\* Then the IDs of games are distinct, and the next one is larger.
Made == {c \in Conns : c \in ToSet(games) \/ pc[c] = "cgLink"}
SerialInv ==
  listening = NoConn =>
    /\ \A c \in Made : gid[c] <= gameId
    /\ \A c, d \in Made : gid[c] = gid[d] => c = d
    /\ \A c, d \in Conns :
         pc[c] = "cgStore" => loaded[c] = gameId /\ (pc[d] = "cgStore" => c = d)

LEMMA SerialKept ==
  ASSUME TypeOK, SerialInv, UNCHANGED <<gid, gameId, loaded>>, listening' = listening,
         Made' = Made, \A x \in Conns : pc'[x] = "cgStore" => pc[x] = "cgStore"
  PROVE  SerialInv'
BY DEF SerialInv

LEMMA SerialStore ==
  ASSUME TypeOK, GameInv, SerialInv, NEW c \in Conns, StoreGameId(c) PROVE SerialInv'
<1>1. pc[c] = "cgStore" /\ pc'[c] = "cgLink" /\ \A x \in Conns \ {c} : pc'[x] = pc[x]
  BY Moves DEF StoreGameId, At
<1>2. games' = games /\ listening' = listening
  BY DEF StoreGameId, gameList
<1>3. SUFFICES ASSUME listening = NoConn PROVE SerialInv'
  BY <1>2 DEF SerialInv
<1>4. loaded[c] = gameId /\ \A d \in Conns : pc[d] = "cgStore" => d = c
  BY <1>1, <1>3 DEF SerialInv
<1>5. gameId' = gameId + 1 /\ gid'[c] = gameId + 1 /\ \A x \in Conns \ {c} : gid'[x] = gid[x]
  BY <1>4 DEF StoreGameId, TypeOK
<1>6. Made' = Made \cup {c}
  BY <1>1, <1>2 DEF Made
<1>7. \A x \in Made : gid[x] \in Nat /\ gid[x] <= gameId
  BY <1>3 DEF SerialInv, TypeOK, Made
<1>8. gameId \in Nat
  BY DEF TypeOK
<1>9. c \notin Made
  BY <1>1 DEF GameInv, GamesInv, Made
<1>10. \A x \in Conns : pc'[x] # "cgStore"
  BY <1>1, <1>4
<1>11. \A x \in Made' : gid'[x] <= gameId'
  BY <1>5, <1>6, <1>7, <1>8 DEF Made
<1>12. ASSUME NEW x \in Made', NEW y \in Made', gid'[x] = gid'[y] PROVE x = y
  BY <1>3, <1>5, <1>6, <1>7, <1>8, <1>12 DEF SerialInv, Made
<1>. QED  BY <1>10, <1>11, <1>12 DEF SerialInv

LEMMA SerialStep ==
  ASSUME TypeOK, RegistryInv, GameInv, SerialInv, [Next]_vars, [OneAtATime]_vars
  PROVE  SerialInv'
<1>. USE DEF At, Request, gameList, locals
<1>. DEFINE Frame == gameId' = gameId /\ loaded' = loaded
<1>1. CASE GameQuiet
  <2>1. \A c \in Conns : ~ StoreGameId(c) /\ ~ CreateGame(c)
    BY <1>1, Moves DEF GameQuiet, StoreGameId, CreateGame, Creating
  <2>2. \A c \in Conns : ~ OpenGameplay(c) \/ SerialInv'
    BY Owners DEF OpenGameplay, SerialInv
  <2>3. Frame \/ SerialInv'
    BY <2>1, <2>2, StartWriters
  <2>4. UNCHANGED <<gid, listening>> /\ Made' = Made
        /\ \A x \in Conns : pc'[x] = "cgStore" => pc[x] = "cgStore"
    BY <1>1 DEF GameQuiet, Made, Creating
  <2>. QED  BY <2>3, <2>4, SerialKept
<1>2. ASSUME NEW c \in Conns, CreateGame(c) PROVE SerialInv'
  <2>1. /\ pc[c] = "idle" /\ pc'[c] = "cgStore" /\ \A x \in Conns \ {c} : pc'[x] = pc[x]
        /\ UNCHANGED <<games, gid, gameId, listening>>
    BY <1>2, Moves DEF CreateGame
  <2>2. loaded'[c] = gameId
    BY <1>2 DEF CreateGame, TypeOK
  <2>3. OneAtATime
    BY <2>1 DEF vars
  <2>4. \A d \in Conns : pc[d] # "cgStore"
    BY <1>2, <2>3 DEF OneAtATime
  <2>5. Made' = Made
    BY <2>1 DEF Made
  <2>. QED  BY <2>1, <2>2, <2>4, <2>5 DEF SerialInv
<1>3. ASSUME NEW c \in Conns, LinkGame(c) PROVE SerialInv'
  <2>1. /\ pc[c] = "cgLink" /\ pc'[c] = "cgFill" /\ \A x \in Conns \ {c} : pc'[x] = pc[x]
        /\ UNCHANGED <<gid, gameId, loaded, listening>>
    BY <1>3, Moves DEF LinkGame
  <2>2. ToSet(games') = ToSet(games) \cup {c}
    BY <1>3, AppendElements DEF LinkGame, Push, TypeOK
  <2>3. Made' = Made
    BY <2>1, <2>2 DEF Made
  <2>. QED  BY <2>1, <2>3, SerialKept
<1>4. ASSUME NEW c \in Conns,
             \/ GetNumberOfFields(c) \/ FieldInfo(c) \/ FillGame(c) \/ AssignNewGame(c)
             \/ ListGames(c) \/ GameInfo(c) \/ JoinGame(c) \/ AssignShownGame(c)
             \/ AssignJoinedGame(c) \/ EndNotify(c)
      PROVE  SerialInv'
  <2>1. /\ \E p \in {"reply", "cgAssign", "giCollect", "jgAssign", "jgReply"} : Goto(c, p)
        /\ pc[c] # "cgLink" /\ UNCHANGED <<games, gid, gameId, loaded, listening>>
    BY <1>4 DEF GetNumberOfFields, FieldInfo, ReadTracks, FillGame, AssignNewGame, ListGames,
       GameInfo, JoinGame, FindGame, AssignShownGame, AssignJoinedGame, EndNotify
  <2>2. /\ pc'[c] \notin {"cgStore", "cgLink"} /\ \A x \in Conns \ {c} : pc'[x] = pc[x]
    BY <2>1, Moves
  <2>3. Made' = Made
    BY <2>1, <2>2 DEF Made
  <2>. QED  BY <2>1, <2>2, <2>3, SerialKept
<1>5. ASSUME NEW c \in Conns, OpenGameplay(c) \/ ParseBuffer(c) PROVE SerialInv'
  <2>1. listening' \in Conns
    BY <1>5 DEF OpenGameplay, ParseBuffer, RegistryInv, GameplayInv
  <2>. QED  BY <2>1, Owners DEF SerialInv
<1>. QED  BY <1>1, <1>2, <1>3, <1>4, <1>5, SerialStore, GameStepKinds, Zenon

\* As long as creations do not overlap and no gameplay has started, SG goes to players of
\* the game that starts and to nobody else: that StartStaysInGame fails is due to the
\* unprotected ++game_id.
THEOREM SerialCreationsStayInGame ==
  Spec /\ [][OneAtATime]_vars =>
    [][listening = NoConn => \A n \in started' \ started :
         \E c \in Conns : n \in unsent[c] \ unsent'[c] /\ game[n] = game[c]]_vars
<1>. DEFINE Stays == listening = NoConn => \A n \in started' \ started :
                       \E c \in Conns : n \in unsent[c] \ unsent'[c] /\ game[n] = game[c]
<1>1. Init => SerialInv
  <2>1. Init => Made = {}
    BY EmptySeq DEF Init, Made, ToSet
  <2>. QED  BY <2>1 DEF Init, SerialInv
<1>2. TypeOK /\ RegistryInv /\ GameInv /\ SerialInv /\ [Next]_vars /\ [OneAtATime]_vars
        => SerialInv'
  BY SerialStep
<1>3. TypeOK /\ RegistryInv /\ GameInv /\ StartInv /\ SerialInv /\ [Next]_vars => [Stays]_vars
  <2>. SUFFICES ASSUME TypeOK, RegistryInv, GameInv, StartInv, SerialInv, [Next]_vars,
                       listening = NoConn, NEW n \in started' \ started
                PROVE  \E c \in Conns : n \in unsent[c] \ unsent'[c] /\ game[n] = game[c]
    OBVIOUS
  <2>1. PICK c \in Conns :
          /\ n \in unsent[c] \ unsent'[c]
          /\ game[n] \in ToSet(games) /\ game[c] \in ToSet(games)
          /\ gid[game[n]] = gid[game[c]]
    BY SendsByGameId
  <2>2. game[n] \in Made /\ game[c] \in Made
    BY <2>1, ListElements DEF Made
  <2>. QED  BY <2>1, <2>2 DEF SerialInv
<1>. QED  BY <1>1, <1>2, <1>3, StartInductive, PTL DEF Spec
=============================================================================
