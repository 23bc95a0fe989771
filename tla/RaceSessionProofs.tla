--------------------------- MODULE RaceSessionProofs ---------------------------
(***************************************************************************)
(* RaceSession for every number of joiners and every size of a game: the   *)
(* start loop of the creator may resend what it likes, its SG comes first. *)
(* And the parts of the invariant RaceSessionCounts goes on from: the list *)
(* of connections, and the joiners from their LI to the start.             *)
(***************************************************************************)
EXTENDS RaceSession, SequenceLemmas, SequenceTheorems, TLAPS

Requests == [type : Kinds, game : 0..1, own : BOOLEAN]
Messages == [kind : Kinds, count : 0..1]

HandlerPlaces ==
  {"none", "recv", "cgAssign", "cgReply", "giReply", "jgReply", "walk", "sgSend", "gameplay"}
ClientPlaces == Waiting \cup {"none", "racing", "updating", "exit"}

SessionTypes ==
  /\ toServer \in [Clients -> Seq(Requests)] /\ toClient \in [Clients -> Seq(Messages)]
  /\ hpc \in [Clients -> HandlerPlaces] /\ cpc \in [Clients -> ClientPlaces]
  /\ left \in [Clients -> Kinds] /\ chosen \in [Joiners -> 0..1] /\ credentials \in BOOLEAN

\* The requests of a queue have these types.
OnlyTypes(q, T) == \A i \in DOMAIN q : q[i].type \in T

\* An SG with nothing but PI before it.
StartAhead(q) ==
  \E i \in DOMAIN q : q[i].type = "SG" /\ \A k \in 1..i - 1 : q[k].type = "PI"

\* Joiners neither create nor start games.
JoinersInv ==
  \A j \in Joiners :
    /\ hpc[j] \in {"none", "recv", "giReply", "jgReply", "walk"}
    /\ OnlyTypes(toServer[j], {"LI", "GI", "JG", "PI"})

\* The creator's one request is on the way, and nothing comes to it yet.
Sent(k) ==
  /\ Len(toServer[Creator]) = 1 /\ toServer[Creator][1].type = k
  /\ toClient[Creator] = <<>> /\ hpc[Creator] = "recv" /\ Creator \notin members

\* The answer is on the way, and nothing else.
Answered ==
  /\ toServer[Creator] = <<>> /\ Len(toClient[Creator]) = 1
  /\ hpc[Creator] = "recv" /\ Creator \notin members

\* The handler of the creator has the game to make, or has made it.
Creating == hpc[Creator] \in {"recv", "cgAssign", "cgReply"}

\* Its request for a game has been taken up.
Made == toServer[Creator] = <<>> /\ Creating

\* Its start has been taken up, or is ahead of what it resends.
Starting ==
  \/ hpc[Creator] \in {"sgSend", "gameplay"}
  \/ StartAhead(toServer[Creator]) /\ Creating

CreatorInv ==
  server = "up" =>
    /\ hpc[Creator] = "none" =>
         /\ cpc[Creator] = "none" /\ Creator \notin members
         /\ toServer[Creator] = <<>> /\ toClient[Creator] = <<>>
    /\ cpc[Creator] = "none" => hpc[Creator] = "none"
    /\ cpc[Creator] = "fields" => Sent("NF") \/ Answered
    /\ cpc[Creator] = "field" => Sent("FI") \/ Answered
    /\ cpc[Creator] = "create" => Sent("CG") \/ Made
    /\ cpc[Creator] = "wait" => OnlyTypes(toServer[Creator], {"PI"}) /\ Creating
    /\ cpc[Creator] = "start" => Starting

SessionInv == SessionTypes /\ JoinersInv /\ CreatorInv

-----------------------------------------------------------------------------
(* Queues. *)

LEMMA QueueGrows ==
  ASSUME NEW S, NEW q \in Seq(S), NEW x \in S
  PROVE  /\ Append(q, x) \in Seq(S) /\ Len(Append(q, x)) = Len(q) + 1
         /\ DOMAIN Append(q, x) = 1..Len(q) + 1 /\ DOMAIN q = 1..Len(q) /\ Len(q) \in Nat
         /\ \A i \in 1..Len(q) : Append(q, x)[i] = q[i]
         /\ Append(q, x)[Len(q) + 1] = x
BY AppendProperties

LEMMA QueueShrinks ==
  ASSUME NEW S, NEW q \in Seq(S), q # <<>>
  PROVE  /\ Tail(q) \in Seq(S) /\ Len(Tail(q)) = Len(q) - 1 /\ Head(q) \in S /\ Head(q) = q[1]
         /\ Len(q) \in Nat \ {0} /\ DOMAIN q = 1..Len(q) /\ DOMAIN Tail(q) = 1..Len(q) - 1
         /\ \A i \in 1..Len(q) - 1 : Tail(q)[i] = q[i + 1]
BY HeadTailProperties, EmptySeq

LEMMA TypesOfQueue ==
  ASSUME NEW q \in Seq(Requests), NEW r \in Requests, NEW T
  PROVE  /\ OnlyTypes(q, T) /\ r.type \in T => OnlyTypes(Append(q, r), T)
         /\ OnlyTypes(q, T) /\ q # <<>> => OnlyTypes(Tail(q), T) /\ Head(q).type \in T
<1>1. ASSUME OnlyTypes(q, T), r.type \in T PROVE OnlyTypes(Append(q, r), T)
  BY <1>1, QueueGrows DEF OnlyTypes
<1>2. ASSUME OnlyTypes(q, T), q # <<>> PROVE OnlyTypes(Tail(q), T) /\ Head(q).type \in T
  <2>1. \A i \in 1..Len(q) - 1 : i + 1 \in DOMAIN q
    BY <1>2, QueueShrinks
  <2> QED BY <1>2, <2>1, QueueShrinks DEF OnlyTypes
<1> QED BY <1>1, <1>2

LEMMA StartStaysAhead ==
  ASSUME NEW q \in Seq(Requests), NEW r \in Requests
  PROVE  /\ StartAhead(q) => StartAhead(Append(q, r))
         /\ OnlyTypes(q, {"PI"}) /\ r.type = "SG" => StartAhead(Append(q, r))
         /\ StartAhead(q) => q # <<>> /\ Head(q).type \in {"PI", "SG"}
         /\ StartAhead(q) /\ Head(q).type = "PI" => StartAhead(Tail(q))
<1>1. ASSUME StartAhead(q) PROVE StartAhead(Append(q, r))
  <2>1. PICK i \in DOMAIN q : q[i].type = "SG" /\ \A k \in 1..i - 1 : q[k].type = "PI"
    BY <1>1 DEF StartAhead
  <2>2. i \in DOMAIN Append(q, r) /\ Append(q, r)[i] = q[i]
        /\ \A k \in 1..i - 1 : Append(q, r)[k] = q[k]
    BY QueueGrows
  <2> QED BY <2>1, <2>2 DEF StartAhead
<1>2. ASSUME OnlyTypes(q, {"PI"}), r.type = "SG" PROVE StartAhead(Append(q, r))
  <2>1. /\ Len(q) + 1 \in DOMAIN Append(q, r) /\ Append(q, r)[Len(q) + 1].type = "SG"
        /\ \A k \in 1..Len(q) + 1 - 1 : k \in DOMAIN q /\ Append(q, r)[k] = q[k]
    BY <1>2, QueueGrows
  <2> QED BY <1>2, <2>1 DEF StartAhead, OnlyTypes
<1>3. ASSUME StartAhead(q)
      PROVE  /\ q # <<>> /\ Head(q).type \in {"PI", "SG"}
             /\ Head(q).type = "PI" => StartAhead(Tail(q))
  <2>1. PICK i \in DOMAIN q : q[i].type = "SG" /\ \A k \in 1..i - 1 : q[k].type = "PI"
    BY <1>3 DEF StartAhead
  <2>2. q # <<>>
    OBVIOUS
  <2>3. i = 1 \/ 1 \in 1..i - 1
    BY <2>2, QueueShrinks
  <2>4. Head(q).type \in {"PI", "SG"}
    BY <2>1, <2>2, <2>3, QueueShrinks
  <2>5. ASSUME Head(q).type = "PI" PROVE StartAhead(Tail(q))
    <3>1. i # 1
      BY <2>1, <2>2, <2>5, QueueShrinks
    <3>2. /\ i - 1 \in DOMAIN Tail(q) /\ Tail(q)[i - 1] = q[i]
          /\ \A k \in 1..(i - 1) - 1 : k + 1 \in 1..i - 1 /\ Tail(q)[k] = q[k + 1]
      BY <2>2, <3>1, QueueShrinks
    <3> QED BY <2>1, <3>2 DEF StartAhead
  <2> QED BY <2>2, <2>4, <2>5
<1> QED BY <1>1, <1>2, <1>3

LEMMA PutAt ==
  ASSUME NEW D, NEW S, NEW f \in [D -> Seq(S)], NEW c, NEW x \in S
  PROVE  /\ [f EXCEPT ![c] = Append(@, x)] \in [D -> Seq(S)]
         /\ c \in D => [f EXCEPT ![c] = Append(@, x)][c] = Append(f[c], x)
         /\ \A d \in D : d # c => [f EXCEPT ![c] = Append(@, x)][d] = f[d]
<1>1. c \in D => Append(f[c], x) \in Seq(S)
  BY QueueGrows
<1> QED BY <1>1

LEMMA DropAt ==
  ASSUME NEW D, NEW S, NEW f \in [D -> Seq(S)], NEW c \in D, f[c] # <<>>
  PROVE  /\ [f EXCEPT ![c] = Tail(@)] \in [D -> Seq(S)]
         /\ [f EXCEPT ![c] = Tail(@)][c] = Tail(f[c])
         /\ \A d \in D : d # c => [f EXCEPT ![c] = Tail(@)][d] = f[d]
<1>1. Tail(f[c]) \in Seq(S)
  BY QueueShrinks
<1> QED BY <1>1

-----------------------------------------------------------------------------
(* What the clients and the handlers do to the queues. *)

LEMMA SendPuts ==
  ASSUME SessionTypes, NEW c \in Clients, NEW r \in Requests, NEW p \in ClientPlaces, Send(c, r, p)
  PROVE  /\ toServer' \in [Clients -> Seq(Requests)] /\ cpc' \in [Clients -> ClientPlaces]
         /\ toServer'[c] = Append(toServer[c], r) /\ cpc'[c] = p
         /\ \A d \in Clients : d # c => toServer'[d] = toServer[d] /\ cpc'[d] = cpc[d]
<1>1. toServer \in [Clients -> Seq(Requests)] /\ cpc \in [Clients -> ClientPlaces]
  BY DEF SessionTypes
<1>2. toServer' = [toServer EXCEPT ![c] = Append(@, r)] /\ cpc' = [cpc EXCEPT ![c] = p]
  BY DEF Send
<1>3. cpc' \in [Clients -> ClientPlaces] /\ cpc'[c] = p /\ \A d \in Clients : d # c => cpc'[d] = cpc[d]
  BY <1>1, <1>2
<1> QED BY <1>1, <1>2, <1>3, PutAt

LEMMA ReceiveTakes ==
  ASSUME SessionTypes, NEW c \in Clients, toClient[c] # <<>>, NEW m, Receive(c, m)
  PROVE  /\ server = "up" /\ m \in Messages /\ toClient' \in [Clients -> Seq(Messages)]
         /\ toClient'[c] = Tail(toClient[c])
         /\ \A d \in Clients : d # c => toClient'[d] = toClient[d]
<1>1. toClient \in [Clients -> Seq(Messages)]
  BY DEF SessionTypes
<1> QED BY <1>1, DropAt, QueueShrinks DEF Receive

LEMMA TakeTakes ==
  ASSUME SessionTypes, NEW c \in Clients, NEW t, Take(c, t)
  PROVE  /\ server = "up" /\ hpc[c] = "recv" /\ toServer[c] # <<>>
         /\ Head(toServer[c]) \in Requests /\ Head(toServer[c]).type = t
         /\ toServer' \in [Clients -> Seq(Requests)] /\ toServer'[c] = Tail(toServer[c])
         /\ \A d \in Clients : d # c => toServer'[d] = toServer[d]
<1>1. toServer \in [Clients -> Seq(Requests)]
  BY DEF SessionTypes
<1> QED BY <1>1, DropAt, QueueShrinks DEF Take, At

LEMMA ReplyPuts ==
  ASSUME SessionTypes, NEW c, NEW m \in Messages, Reply(c, m)
  PROVE  /\ toClient' \in [Clients -> Seq(Messages)]
         /\ c \in Clients => toClient'[c] = Append(toClient[c], m)
         /\ \A d \in Clients : d # c => toClient'[d] = toClient[d]
<1>1. toClient \in [Clients -> Seq(Messages)]
  BY DEF SessionTypes
<1> QED BY <1>1, PutAt DEF Reply

LEMMA Records ==
  /\ \A k \in Kinds : Msg(k) \in Messages /\ Request(k) \in Requests /\ Request(k).type = k
  /\ \A n \in 0..1 : [Msg("LI") EXCEPT !.count = n] \in Messages
  /\ \A k \in Kinds, n \in 0..1 : /\ [Request(k) EXCEPT !.game = n] \in Requests
                                  /\ [Request(k) EXCEPT !.game = n].type = k
  /\ \A m \in Messages : TypeOf(m) \in Kinds /\ m.count \in 0..1 /\ m.kind \in Kinds
<1>1. ASSUME NEW k \in Kinds
      PROVE  Msg(k) \in Messages /\ Request(k) \in Requests /\ Request(k).type = k
  BY DEF Msg, Request, Requests, Messages
<1>2. ASSUME NEW n \in 0..1 PROVE [Msg("LI") EXCEPT !.count = n] \in Messages
  BY DEF Msg, Messages, Kinds
<1>3. ASSUME NEW k \in Kinds, NEW n \in 0..1
      PROVE  [Request(k) EXCEPT !.game = n] \in Requests /\ [Request(k) EXCEPT !.game = n].type = k
  BY DEF Request, Requests
<1>4. ASSUME NEW m \in Messages
      PROVE  TypeOf(m) \in Kinds /\ m.count \in 0..1 /\ m.kind \in Kinds
  BY DEF Messages, Kinds, TypeOf
<1> QED BY <1>1, <1>2, <1>3, <1>4

-----------------------------------------------------------------------------
(* The creator. *)

LEMMA CreatorIsClient == Creator \in Clients /\ Creator \notin Joiners /\ Joiners \subseteq Clients
BY SessionAssumption DEF SessionAssumption, Clients

\* The joiners' part does not depend on what anybody else does.
LEMMA JoinersKept ==
  ASSUME JoinersInv,
         \A j \in Joiners : toServer'[j] = toServer[j] /\ hpc'[j] = hpc[j]
  PROVE  JoinersInv'
BY DEF JoinersInv, OnlyTypes

LEMMA CreatorKeeps ==
  ASSUME SessionInv, CreatorStep
  PROVE  SessionInv'
<1> DEFINE m == Head(toClient[Creator])
<1>1. /\ toClient[Creator] # <<>>
      /\ ChooseField(m) \/ Created(m) \/ WaitForPlayers(m) \/ ResendUntilStart(m)
  BY DEF CreatorStep
<1> HIDE DEF m
<1>2. SessionTypes /\ JoinersInv /\ CreatorInv /\ Receive(Creator, m)
  BY <1>1 DEF SessionInv, ChooseField, Created, WaitForPlayers, ResendUntilStart
<1>3. /\ server = "up" /\ m \in Messages /\ toClient' \in [Clients -> Seq(Messages)]
      /\ toClient'[Creator] = Tail(toClient[Creator])
  BY <1>1, <1>2, CreatorIsClient, ReceiveTakes
<1>4. UNCHANGED <<server, hpc, members, left, chosen>>
  BY <1>1 DEF ChooseField, Created, WaitForPlayers, ResendUntilStart, handlers
<1> {"field", "create", "wait", "start", "racing"} \subseteq ClientPlaces
  BY DEF ClientPlaces, Waiting
<1>5. toServer[Creator] \in Seq(Requests)
  BY <1>2, CreatorIsClient DEF SessionTypes
<1>6. ASSUME NEW r \in Requests, NEW w \in ClientPlaces,
             Send(Creator, r, w), credentials' \in BOOLEAN,
             CreatorInv => CreatorInv'
      PROVE  SessionInv'
  <2>1. /\ toServer' \in [Clients -> Seq(Requests)] /\ cpc' \in [Clients -> ClientPlaces]
        /\ \A d \in Clients : d # Creator => toServer'[d] = toServer[d]
    BY <1>2, <1>6, SendPuts, CreatorIsClient
  <2>2. SessionTypes'
    BY <1>2, <1>3, <1>4, <1>6, <2>1 DEF SessionTypes
  <2>3. JoinersInv'
    BY <1>2, <1>4, <2>1, JoinersKept, CreatorIsClient
  <2> QED BY <1>2, <1>6, <2>2, <2>3 DEF SessionInv
<1>7. ASSUME NEW r \in Requests, NEW w \in ClientPlaces,
             Send(Creator, r, w)
      PROVE  toServer'[Creator] = Append(toServer[Creator], r) /\ cpc'[Creator] = w
  BY <1>2, <1>7, SendPuts, CreatorIsClient
<1>8. CASE ChooseField(m)
  <2>1. /\ Answered /\ credentials' = credentials
        /\ \/ cpc[Creator] = "fields" /\ Send(Creator, Request("FI"), "field")
           \/ cpc[Creator] = "field" /\ Send(Creator, Request("CG"), "create")
    BY <1>1, <1>2, <1>3, <1>8 DEF ChooseField, CreatorInv, Sent
  <2>2. /\ Len(toServer[Creator]) = 0 /\ Len(toClient[Creator]) = 1
        /\ hpc[Creator] = "recv" /\ Creator \notin members
    BY <2>1 DEF Answered
  <2>3. toClient'[Creator] = <<>>
    <3>1. toClient[Creator] \in Seq(Messages)
      BY <1>2, CreatorIsClient DEF SessionTypes
    <3>2. Len(Tail(toClient[Creator])) = 0 /\ Tail(toClient[Creator]) \in Seq(Messages)
      BY <1>1, <2>2, <3>1, QueueShrinks
    <3> QED BY <1>3, <3>2, EmptySeq
  <2>4. ASSUME NEW r \in Requests, toServer'[Creator] = Append(toServer[Creator], r)
        PROVE  Sent(r.type)'
    <3>1. Len(toServer'[Creator]) = 1 /\ toServer'[Creator][1] = r
      BY <1>5, <2>2, <2>4, QueueGrows
    <3> QED BY <1>4, <2>2, <2>3, <3>1 DEF Sent
  <2>5. /\ Request("FI") \in Requests /\ Request("FI").type = "FI"
        /\ Request("CG") \in Requests /\ Request("CG").type = "CG"
    BY Records DEF Kinds
  <2>6. credentials' \in BOOLEAN
    BY <1>2, <2>1 DEF SessionTypes
  <2>7. CASE cpc[Creator] = "fields" /\ Send(Creator, Request("FI"), "field")
    <3>1. cpc'[Creator] = "field" /\ Sent("FI")' /\ hpc'[Creator] = "recv"
      BY <1>4, <1>7, <2>2, <2>4, <2>5, <2>7
    <3>2. CreatorInv'
      BY <3>1 DEF CreatorInv
    <3> QED BY <1>6, <2>5, <2>6, <2>7, <3>2
  <2>8. CASE cpc[Creator] = "field" /\ Send(Creator, Request("CG"), "create")
    <3>1. cpc'[Creator] = "create" /\ Sent("CG")' /\ hpc'[Creator] = "recv"
      BY <1>4, <1>7, <2>2, <2>4, <2>5, <2>8
    <3>2. CreatorInv'
      BY <3>1 DEF CreatorInv
    <3> QED BY <1>6, <2>5, <2>6, <2>8, <3>2
  <2> QED BY <2>1, <2>7, <2>8
<1>9. Request("PI") \in Requests /\ Request("PI").type = "PI"
  BY Records DEF Kinds
<1>10. CASE Created(m)
  <2>1. /\ toServer[Creator] = <<>> /\ Creating /\ Send(Creator, Request("PI"), "wait")
        /\ credentials' \in BOOLEAN
    BY <1>1, <1>2, <1>3, <1>10 DEF Created, CreatorInv, Sent, Made, OwnCredentials
  <2>2. toServer'[Creator] = Append(toServer[Creator], Request("PI")) /\ cpc'[Creator] = "wait"
    BY <1>7, <1>9, <2>1
  <2>3. OnlyTypes(toServer'[Creator], {"PI"})
    <3>1. OnlyTypes(toServer[Creator], {"PI"})
      BY <2>1 DEF OnlyTypes
    <3> QED BY <1>5, <1>9, <2>2, <3>1, TypesOfQueue
  <2>4. CreatorInv'
    BY <1>4, <2>1, <2>2, <2>3 DEF CreatorInv, Creating
  <2> QED BY <1>6, <1>9, <2>1, <2>4
<1>11. CASE WaitForPlayers(m)
  <2> DEFINE sg == [type |-> "SG", game |-> 1, own |-> credentials]
  <2>1. OnlyTypes(toServer[Creator], {"PI"}) /\ Creating /\ credentials' = credentials
    BY <1>2, <1>3, <1>11 DEF WaitForPlayers, CreatorInv
  <2>2. credentials \in BOOLEAN
    BY <1>2 DEF SessionTypes
  <2>3. sg \in Requests /\ sg.type = "SG"
    BY <2>2 DEF Requests, Kinds
  <2>4. Send(Creator, sg, "start") \/ Send(Creator, Request("PI"), "wait")
    BY <1>11 DEF WaitForPlayers
  <2> HIDE DEF sg
  <2>5. CASE Send(Creator, sg, "start")
    <3>1. toServer'[Creator] = Append(toServer[Creator], sg) /\ cpc'[Creator] = "start"
      BY <1>7, <2>3, <2>5
    <3>2. StartAhead(toServer'[Creator])
      BY <1>5, <2>1, <2>3, <3>1, StartStaysAhead
    <3>3. Starting'
      BY <1>4, <2>1, <3>2 DEF Starting, Creating
    <3>4. hpc'[Creator] # "none"
      BY <1>4, <2>1 DEF Creating
    <3>5. CreatorInv'
      BY <3>1, <3>3, <3>4 DEF CreatorInv
    <3> QED BY <1>6, <2>1, <2>2, <2>3, <2>5, <3>5
  <2>6. CASE Send(Creator, Request("PI"), "wait")
    <3>1. toServer'[Creator] = Append(toServer[Creator], Request("PI")) /\ cpc'[Creator] = "wait"
      BY <1>7, <1>9, <2>6
    <3>2. OnlyTypes(toServer'[Creator], {"PI"})
      BY <1>5, <1>9, <2>1, <3>1, TypesOfQueue
    <3>3. CreatorInv'
      BY <1>4, <2>1, <3>1, <3>2 DEF CreatorInv, Creating
    <3> QED BY <1>6, <1>9, <2>1, <2>2, <2>6, <3>3
  <2> QED BY <2>4, <2>5, <2>6
<1>12. CASE ResendUntilStart(m)
  <2>1. Starting /\ credentials' = credentials /\ credentials \in BOOLEAN
    BY <1>2, <1>3, <1>12 DEF ResendUntilStart, CreatorInv, SessionTypes
  <2>4. hpc'[Creator] # "none"
    BY <1>4, <2>1 DEF Starting, Creating
  <2>2. CASE m.kind = "SG"
    <3>1. cpc' = [cpc EXCEPT ![Creator] = "racing"] /\ toServer' = toServer
      BY <1>12, <2>2 DEF ResendUntilStart
    <3>2. cpc' \in [Clients -> ClientPlaces] /\ cpc'[Creator] = "racing"
      BY <1>2, <3>1, CreatorIsClient DEF SessionTypes
    <3>3. SessionTypes'
      BY <1>2, <1>3, <1>4, <2>1, <3>1, <3>2 DEF SessionTypes
    <3>4. JoinersInv' /\ CreatorInv'
      BY <1>2, <1>4, <2>4, <3>1, <3>2, JoinersKept DEF CreatorInv
    <3> QED BY <3>3, <3>4 DEF SessionInv
  <2>3. CASE m.kind # "SG"
    <3> DEFINE r == Request(TypeOf(m))
    <3>1. Send(Creator, r, "start") /\ r \in Requests
      BY <1>3, <1>12, <2>3, Records DEF ResendUntilStart
    <3> HIDE DEF r
    <3>2. toServer'[Creator] = Append(toServer[Creator], r) /\ cpc'[Creator] = "start"
      BY <1>7, <3>1
    <3>3. StartAhead(toServer[Creator]) => StartAhead(toServer'[Creator])
      BY <1>5, <3>1, <3>2, StartStaysAhead
    <3>4. Starting'
      BY <1>4, <2>1, <3>3 DEF Starting, Creating
    <3>5. CreatorInv'
      BY <2>4, <3>2, <3>4 DEF CreatorInv
    <3> QED BY <1>6, <2>1, <3>1, <3>5
  <2> QED BY <2>2, <2>3
<1> QED BY <1>1, <1>8, <1>10, <1>11, <1>12

-----------------------------------------------------------------------------
(* The joiners. *)

\* What others may do without an effect on the creator's part: a message to it
\* is possible once it is a player.
LEMMA OthersKeep ==
  ASSUME CreatorInv,
         toServer'[Creator] = toServer[Creator], cpc'[Creator] = cpc[Creator],
         hpc'[Creator] = hpc[Creator], server' = server \/ server' # "up",
         Creator \in members' <=> Creator \in members,
         toClient'[Creator] = toClient[Creator] \/ Creator \in members
  PROVE  CreatorInv'
<1> SUFFICES ASSUME server = "up", server' = "up" PROVE CreatorInv'
  BY DEF CreatorInv
<1>1. CASE Creator \in members
  <2>1. /\ hpc[Creator] # "none" /\ cpc[Creator] \notin {"none", "fields", "field"}
        /\ cpc[Creator] = "create" => Made
        /\ cpc[Creator] = "wait" => OnlyTypes(toServer[Creator], {"PI"}) /\ Creating
        /\ cpc[Creator] = "start" => Starting
    BY <1>1 DEF CreatorInv, Sent, Answered
  <2>2. (Creating <=> Creating') /\ (Made <=> Made') /\ (Starting <=> Starting')
    BY DEF Creating, Made, Starting
  <2>3. /\ OnlyTypes(toServer'[Creator], {"PI"}) <=> OnlyTypes(toServer[Creator], {"PI"})
        /\ StartAhead(toServer'[Creator]) <=> StartAhead(toServer[Creator])
    OBVIOUS
  <2> QED BY <2>1, <2>2, <2>3 DEF CreatorInv
<1>2. CASE Creator \notin members
  <2>1. toClient'[Creator] = toClient[Creator]
    BY <1>2
  <2>2. /\ Creating <=> Creating'
        /\ \A k : Sent(k) <=> Sent(k)'
        /\ Answered <=> Answered'
        /\ toServer[Creator] = <<>> <=> toServer'[Creator] = <<>>
    BY <2>1 DEF Creating, Sent, Answered
  <2>3. (Made <=> Made') /\ (Starting <=> Starting')
    BY <2>2 DEF Made, Starting
  <2>4. /\ OnlyTypes(toServer'[Creator], {"PI"}) <=> OnlyTypes(toServer[Creator], {"PI"})
        /\ StartAhead(toServer'[Creator]) <=> StartAhead(toServer[Creator])
    OBVIOUS
  <2> QED BY <2>1, <2>2, <2>3, <2>4 DEF CreatorInv
<1> QED BY <1>1, <1>2

LEMMA JoinerKeeps ==
  ASSUME SessionInv, NEW c \in Joiners, JoinerStep(c)
  PROVE  SessionInv'
<1> DEFINE m == Head(toClient[c])
<1>1. toClient[c] # <<>> /\ (ChooseGame(c, m) \/ ShowInfo(c, m) \/ Joined(c, m) \/ WaitForStart(c, m))
  BY DEF JoinerStep
<1> HIDE DEF m
<1>2. SessionTypes /\ JoinersInv /\ CreatorInv /\ Receive(c, m)
  BY <1>1 DEF SessionInv, ChooseGame, ShowInfo, Joined, WaitForStart
<1>3. c \in Clients /\ c # Creator
  BY CreatorIsClient
<1>4. /\ m \in Messages /\ toClient' \in [Clients -> Seq(Messages)]
      /\ toClient'[Creator] = toClient[Creator]
  BY <1>1, <1>2, <1>3, CreatorIsClient, ReceiveTakes
<1>5. UNCHANGED <<server, hpc, members, left, credentials>>
  BY <1>1 DEF ChooseGame, ShowInfo, Joined, WaitForStart, handlers
<1>6. chosen' \in [Joiners -> 0..1]
  <2>1. chosen \in [Joiners -> 0..1] /\ m.count \in 0..1
    BY <1>2, <1>4, Records DEF SessionTypes
  <2> QED BY <1>1, <2>1 DEF ChooseGame, ShowInfo, Joined, WaitForStart
<1>7. /\ {"info", "join", "joined", "racing"} \subseteq ClientPlaces
      /\ {"GI", "JG", "PI"} \subseteq Kinds
  BY DEF ClientPlaces, Waiting, Kinds
<1>8. \/ \E r \in Requests, w \in ClientPlaces : r.type \in {"GI", "JG", "PI"} /\ Send(c, r, w)
      \/ toServer' = toServer /\ cpc' = [cpc EXCEPT ![c] = "racing"]
  <2>1. CASE ChooseGame(c, m)
    <3>1. /\ Request("JG") \in Requests /\ Request("JG").type = "JG"
          /\ [Request("GI") EXCEPT !.game = 1] \in Requests
          /\ [Request("GI") EXCEPT !.game = 1].type = "GI"
      <4>1. "GI" \in Kinds /\ "JG" \in Kinds /\ 1 \in 0..1
        BY <1>7
      <4> QED BY <4>1, Records, Zenon
    <3>2. Send(c, Request("JG"), "join") \/ Send(c, [Request("GI") EXCEPT !.game = 1], "info")
      BY <2>1, Zenon DEF ChooseGame
    <3> QED BY <1>7, <3>1, <3>2, Zenon
  <2>2. CASE ShowInfo(c, m)
    <3> DEFINE r == [Request("JG") EXCEPT !.game = chosen[c]]
    <3>1. chosen[c] \in 0..1
      BY <1>2 DEF SessionTypes
    <3>2. r \in Requests /\ r.type = "JG"
      BY <1>7, <3>1 DEF Request, Requests
    <3>3. Send(c, r, "join")
      BY <2>2 DEF ShowInfo
    <3> HIDE DEF r
    <3> QED BY <1>7, <3>2, <3>3
  <2>3. Request("PI") \in Requests /\ Request("PI").type = "PI"
    BY <1>7, Records
  <2>4. CASE Joined(c, m) \/ WaitForStart(c, m)
    BY <1>7, <2>3, <2>4 DEF Joined, WaitForStart
  <2> QED BY <1>1, <2>1, <2>2, <2>4
<1>9. CASE \E r \in Requests, w \in ClientPlaces : r.type \in {"GI", "JG", "PI"} /\ Send(c, r, w)
  <2>1. PICK r \in Requests, w \in ClientPlaces : r.type \in {"GI", "JG", "PI"} /\ Send(c, r, w)
    BY <1>9
  <2>2. /\ toServer' \in [Clients -> Seq(Requests)] /\ cpc' \in [Clients -> ClientPlaces]
        /\ toServer'[c] = Append(toServer[c], r)
        /\ \A d \in Clients : d # c => toServer'[d] = toServer[d] /\ cpc'[d] = cpc[d]
    BY <1>2, <1>3, <2>1, SendPuts
  <2>3. SessionTypes'
    BY <1>2, <1>4, <1>5, <1>6, <2>2 DEF SessionTypes
  <2>4. CreatorInv'
    BY <1>2, <1>3, <1>4, <1>5, <2>2, CreatorIsClient, OthersKeep
  <2>5. OnlyTypes(toServer'[c], {"LI", "GI", "JG", "PI"})
    <3>1. toServer[c] \in Seq(Requests) /\ OnlyTypes(toServer[c], {"LI", "GI", "JG", "PI"})
      BY <1>2, <1>3 DEF SessionTypes, JoinersInv
    <3> QED BY <2>1, <2>2, <3>1, TypesOfQueue
  <2>6. JoinersInv'
    BY <1>2, <1>5, <2>2, <2>5, CreatorIsClient DEF JoinersInv
  <2> QED BY <2>3, <2>4, <2>6 DEF SessionInv
<1>10. CASE toServer' = toServer /\ cpc' = [cpc EXCEPT ![c] = "racing"]
  <2>1. cpc' \in [Clients -> ClientPlaces] /\ cpc'[Creator] = cpc[Creator]
    BY <1>2, <1>3, <1>7, <1>10, CreatorIsClient DEF SessionTypes
  <2>2. SessionTypes'
    BY <1>2, <1>4, <1>5, <1>6, <1>10, <2>1 DEF SessionTypes
  <2>3. CreatorInv'
    BY <1>2, <1>4, <1>5, <1>10, <2>1, OthersKeep
  <2>4. JoinersInv'
    BY <1>2, <1>5, <1>10, JoinersKept
  <2> QED BY <2>2, <2>3, <2>4 DEF SessionInv
<1> QED BY <1>8, <1>9, <1>10

-----------------------------------------------------------------------------
(* The handlers. *)

LEMMA GoesTo ==
  ASSUME SessionTypes, NEW c \in Clients, NEW p \in HandlerPlaces, Goto(c, p)
  PROVE  /\ hpc' \in [Clients -> HandlerPlaces] /\ hpc'[c] = p
         /\ \A d \in Clients : d # c => hpc'[d] = hpc[d]
<1>1. hpc \in [Clients -> HandlerPlaces]
  BY DEF SessionTypes
<1> QED BY <1>1 DEF Goto

\* What an action of c's handler leaves alone of the others.
Aside(c) ==
  /\ \A d \in Clients : d # c => toServer'[d] = toServer[d] /\ hpc'[d] = hpc[d]
  /\ server' = server \/ server' # "up"
  /\ \A d \in Clients : d # c => (d \in members' <=> d \in members)
  /\ UNCHANGED cpc

LEMMA HandlerTypes ==
  ASSUME SessionTypes, NEW c \in Clients, HandlerStep(c)
  PROVE  SessionTypes' /\ Aside(c)
<1> USE CreatorIsClient
<1>1. UNCHANGED users /\ server = "up"
  BY DEF HandlerStep, Answer, ListGames, CreateGame, AssignCreated, ReplyCreated, GameInfo,
         ReplyInfo, JoinGame, ReplyJoin, Notify, SendLeftover, StartGame, SendStart,
         EnterGameplay, Take, At
<1>2. UNCHANGED <<cpc, chosen, credentials>>
  BY <1>1 DEF users
<1>3. /\ hpc \in [Clients -> HandlerPlaces] /\ left \in [Clients -> Kinds]
      /\ toServer \in [Clients -> Seq(Requests)] /\ toClient \in [Clients -> Seq(Messages)]
      /\ cpc \in [Clients -> ClientPlaces] /\ chosen \in [Joiners -> 0..1]
      /\ credentials \in BOOLEAN
  BY DEF SessionTypes
<1>4. /\ \A p \in {"recv", "cgAssign", "cgReply", "giReply", "jgReply", "walk", "sgSend",
                   "gameplay"} : p \in HandlerPlaces
      /\ \A t \in {"NF", "FI", "PI", "CG", "GI", "JG", "LI", "SG", "NOTIFY", "blank"} : t \in Kinds
  BY DEF HandlerPlaces, Kinds
<1>5. ASSUME hpc' = hpc \/ \E p \in HandlerPlaces : Goto(c, p)
      PROVE  hpc' \in [Clients -> HandlerPlaces] /\ \A d \in Clients : d # c => hpc'[d] = hpc[d]
  BY <1>3, <1>5, GoesTo
<1>6. ASSUME toServer' = toServer \/ \E t : Take(c, t)
      PROVE  /\ toServer' \in [Clients -> Seq(Requests)]
             /\ \A d \in Clients : d # c => toServer'[d] = toServer[d]
  BY <1>3, <1>6, TakeTakes
<1>7. ASSUME toClient' = toClient \/ \E n, m : m \in Messages /\ Reply(n, m)
      PROVE  toClient' \in [Clients -> Seq(Messages)]
  BY <1>3, <1>7, ReplyPuts
<1>8. ASSUME left' = left \/ \E t \in Kinds : left' = [left EXCEPT ![c] = t]
      PROVE  left' \in [Clients -> Kinds]
  BY <1>3, <1>8
<1>9. ASSUME hpc' = hpc \/ \E p \in HandlerPlaces : Goto(c, p),
             toServer' = toServer \/ \E t : Take(c, t),
             toClient' = toClient \/ \E n, m : m \in Messages /\ Reply(n, m),
             left' = left \/ \E t \in Kinds : left' = [left EXCEPT ![c] = t],
             members' = members \/ members' = members \cup {c},
             server' = server \/ server' # "up"
      PROVE  SessionTypes' /\ Aside(c)
  BY <1>2, <1>3, <1>5, <1>6, <1>7, <1>8, <1>9 DEF SessionTypes, Aside
<1>10. \A t \in Kinds : Msg(t) \in Messages
  BY Records
<1>11. CASE Answer(c)
  <2>1. PICK t \in {"NF", "FI", "PI"} : Take(c, t) /\ Reply(c, Msg(t))
    BY <1>11 DEF Answer
  <2>2. Msg(t) \in Messages
    BY <1>4, <1>10
  <2> QED BY <1>9, <1>11, <2>1, <2>2 DEF Answer, handlers
<1>12. CASE ListGames(c)
  <2> DEFINE m == [Msg("LI") EXCEPT !.count = IF listed THEN 1 ELSE 0]
  <2>1. m \in Messages
    BY DEF Msg, Messages, Kinds
  <2>2. Take(c, "LI") /\ Reply(c, m) /\ UNCHANGED handlers
    BY <1>12 DEF ListGames
  <2> HIDE DEF m
  <2> QED BY <1>9, <2>1, <2>2 DEF handlers
<1>13. CASE CreateGame(c) \/ GameInfo(c) \/ JoinGame(c) \/ StartGame(c)
  BY <1>4, <1>9, <1>13 DEF CreateGame, GameInfo, JoinGame, StartGame
<1>14. CASE AssignCreated(c) \/ EnterGameplay(c)
  BY <1>4, <1>9, <1>14 DEF AssignCreated, EnterGameplay
<1>15. CASE ReplyCreated(c) \/ ReplyInfo(c) \/ ReplyJoin(c)
  BY <1>4, <1>9, <1>10, <1>15 DEF ReplyCreated, ReplyInfo, ReplyJoin
<1>16. CASE Notify(c)
  BY <1>4, <1>9, <1>10, <1>16 DEF Notify
<1>17. CASE SendLeftover(c)
  <2>1. Msg(left[c]) \in Messages
    BY <1>3, <1>10
  <2> QED BY <1>4, <1>9, <1>17, <2>1 DEF SendLeftover
<1>18. CASE SendStart(c)
  BY <1>4, <1>9, <1>10, <1>18 DEF SendStart
<1> QED BY <1>11, <1>12, <1>13, <1>14, <1>15, <1>16, <1>17, <1>18 DEF HandlerStep

\* A joiner's handler asks, joins and notifies; it writes to the creator only
\* as to a player.
LEMMA JoinerHandlerKeeps ==
  ASSUME SessionInv, NEW c \in Joiners, HandlerStep(c)
  PROVE  SessionInv'
<1>1. /\ SessionTypes /\ JoinersInv /\ CreatorInv /\ c \in Clients /\ c # Creator
      /\ Creator \in Clients /\ Joiners \subseteq Clients
  BY CreatorIsClient DEF SessionInv
<1>2. SessionTypes' /\ Aside(c)
  BY <1>1, HandlerTypes
<1>3. /\ hpc[c] \in {"none", "recv", "giReply", "jgReply", "walk"}
      /\ OnlyTypes(toServer[c], {"LI", "GI", "JG", "PI"})
      /\ toServer[c] \in Seq(Requests)
  BY <1>1 DEF JoinersInv, SessionTypes
<1>4. ASSUME NEW t, Take(c, t)
      PROVE  /\ t \in {"LI", "GI", "JG", "PI"}
             /\ OnlyTypes(toServer'[c], {"LI", "GI", "JG", "PI"})
  <2>1. Request("PI") \in Requests
    BY Records DEF Kinds
  <2> QED BY <1>1, <1>3, <1>4, <2>1, TakeTakes, TypesOfQueue
<1>5. \/ Answer(c) \/ ListGames(c) \/ GameInfo(c) \/ ReplyInfo(c) \/ JoinGame(c) \/ ReplyJoin(c)
      \/ Notify(c) \/ SendLeftover(c)
  <2>1. ~CreateGame(c) /\ ~StartGame(c)
    BY <1>4 DEF CreateGame, StartGame
  <2>2. ~AssignCreated(c) /\ ~ReplyCreated(c) /\ ~SendStart(c) /\ ~EnterGameplay(c)
    BY <1>3 DEF AssignCreated, ReplyCreated, SendStart, EnterGameplay, At
  <2> QED BY <2>1, <2>2 DEF HandlerStep
<1>6. OnlyTypes(toServer'[c], {"LI", "GI", "JG", "PI"})
  <2>1. toServer' = toServer \/ \E t : Take(c, t)
    BY <1>5 DEF Answer, ListGames, GameInfo, ReplyInfo, JoinGame, ReplyJoin, Notify, SendLeftover
  <2> QED BY <1>3, <1>4, <2>1
<1>7. hpc'[c] \in {"none", "recv", "giReply", "jgReply", "walk"}
  <2>1. \/ hpc' = hpc
        \/ \E p \in {"recv", "giReply", "jgReply", "walk"} : Goto(c, p)
    BY <1>5 DEF Answer, ListGames, GameInfo, ReplyInfo, JoinGame, ReplyJoin, Notify,
                SendLeftover, handlers
  <2>2. {"recv", "giReply", "jgReply", "walk"} \subseteq HandlerPlaces
    BY DEF HandlerPlaces
  <2>3. ASSUME NEW p \in {"recv", "giReply", "jgReply", "walk"}, Goto(c, p) PROVE hpc'[c] = p
    BY <1>1, <2>2, <2>3, GoesTo
  <2> QED BY <1>3, <2>1, <2>3
<1>8. JoinersInv'
  BY <1>1, <1>2, <1>6, <1>7 DEF JoinersInv, Aside
<1>9. toClient'[Creator] = toClient[Creator] \/ Creator \in members
  <2>1. ASSUME NEW n, NEW k \in Kinds, Reply(n, Msg(k)), n # Creator
        PROVE  toClient'[Creator] = toClient[Creator]
    BY <1>1, <2>1, ReplyPuts, Records
  <2>2. ASSUME NEW m \in Messages, Reply(c, m) PROVE toClient'[Creator] = toClient[Creator]
    BY <1>1, <2>2, ReplyPuts
  <2>3. {"NF", "FI", "PI", "LI", "GI", "JG", "NOTIFY"} \subseteq Kinds /\ left[c] \in Kinds
    BY <1>1 DEF Kinds, SessionTypes
  <2>4. CASE Answer(c)
    BY <1>1, <2>1, <2>3, <2>4 DEF Answer
  <2>5. CASE ListGames(c)
    <3> DEFINE m == [Msg("LI") EXCEPT !.count = IF listed THEN 1 ELSE 0]
    <3>1. m \in Messages
      BY DEF Msg, Messages, Kinds
    <3>2. Reply(c, m)
      BY <2>5 DEF ListGames
    <3> HIDE DEF m
    <3> QED BY <2>2, <3>1, <3>2
  <2>6. CASE GameInfo(c) \/ JoinGame(c)
    BY <2>6 DEF GameInfo, JoinGame
  <2>7. CASE ReplyInfo(c) \/ ReplyJoin(c) \/ SendLeftover(c)
    BY <1>1, <2>1, <2>3, <2>7 DEF ReplyInfo, ReplyJoin, SendLeftover
  <2>8. CASE Notify(c)
    <3>1. \/ toClient' = toClient
          \/ list[pos[c]] \in members /\ Reply(list[pos[c]], Msg("NOTIFY"))
      BY <2>8 DEF Notify, Notified
    <3> QED BY <2>1, <2>3, <3>1
  <2> QED BY <1>5, <2>4, <2>5, <2>6, <2>7, <2>8
<1>10. CreatorInv'
  BY <1>1, <1>2, <1>9, OthersKeep DEF Aside
<1> QED BY <1>2, <1>8, <1>10 DEF SessionInv

\* Which request the creator's handler takes up when.
LEMMA CreatorTakes ==
  ASSUME SessionInv, NEW t, Take(Creator, t)
  PROVE  /\ cpc[Creator] # "none" /\ hpc[Creator] = "recv"
         /\ cpc[Creator] = "fields" => t = "NF"
         /\ cpc[Creator] = "field" => t = "FI"
         /\ cpc[Creator] \in {"fields", "field"} =>
              toServer'[Creator] = <<>> /\ toClient[Creator] = <<>> /\ Creator \notin members
         /\ cpc[Creator] = "create" => t = "CG" /\ toServer'[Creator] = <<>>
         /\ cpc[Creator] = "wait" => t = "PI" /\ OnlyTypes(toServer'[Creator], {"PI"})
         /\ cpc[Creator] = "start" => t = "SG" \/ (t = "PI" /\ StartAhead(toServer'[Creator]))
<1> DEFINE q == toServer[Creator]
<1>1. /\ SessionTypes /\ CreatorInv /\ Creator \in Clients /\ q \in Seq(Requests)
  BY CreatorIsClient DEF SessionInv, SessionTypes
<1>2. /\ server = "up" /\ hpc[Creator] = "recv" /\ q # <<>>
      /\ Head(q).type = t /\ toServer'[Creator] = Tail(q)
  BY <1>1, TakeTakes
<1>3. ASSUME NEW k, Sent(k) PROVE t = k /\ Tail(q) = <<>>
  <2>1. Len(Tail(q)) = 0 /\ Head(q) = q[1] /\ Tail(q) \in Seq(Requests)
    BY <1>1, <1>2, <1>3, QueueShrinks DEF Sent
  <2> QED BY <1>2, <1>3, <2>1, EmptySeq DEF Sent
<1>4. ~Answered /\ ~Made
  BY <1>2 DEF Answered, Made
<1>5. Request("PI") \in Requests
  BY Records DEF Kinds
<1> HIDE DEF q
<1>6. CASE cpc[Creator] \in {"none", "fields", "field", "create"}
  <2>1. /\ cpc[Creator] # "none"
        /\ cpc[Creator] = "fields" => Sent("NF")
        /\ cpc[Creator] = "field" => Sent("FI")
        /\ cpc[Creator] = "create" => Sent("CG")
    BY <1>1, <1>2, <1>4 DEF CreatorInv
  <2>2. \A k : Sent(k) => toClient[Creator] = <<>> /\ Creator \notin members
    BY DEF Sent
  <2> QED BY <1>2, <1>3, <1>6, <2>1, <2>2
<1>7. CASE cpc[Creator] = "wait"
  <2>1. OnlyTypes(q, {"PI"})
    BY <1>1, <1>2, <1>7 DEF CreatorInv, q
  <2> QED BY <1>1, <1>2, <1>5, <1>7, <2>1, TypesOfQueue
<1>8. CASE cpc[Creator] = "start"
  <2>1. StartAhead(q)
    BY <1>1, <1>2, <1>8 DEF CreatorInv, Starting, q
  <2>2. Head(q).type \in {"PI", "SG"} /\ (Head(q).type = "PI" => StartAhead(Tail(q)))
    BY <1>1, <1>5, <2>1, StartStaysAhead DEF q
  <2> QED BY <1>2, <1>8, <2>2
<1>9. CASE cpc[Creator] \notin {"none", "fields", "field", "create", "wait", "start"}
  BY <1>2, <1>9
<1> QED BY <1>6, <1>7, <1>8, <1>9

LEMMA CreatorHandlerKeeps ==
  ASSUME SessionInv, HandlerStep(Creator)
  PROVE  SessionInv'
<1>1. SessionTypes /\ JoinersInv /\ CreatorInv /\ Creator \in Clients /\ Creator \notin Joiners
  BY CreatorIsClient DEF SessionInv
<1>2. SessionTypes' /\ Aside(Creator) /\ cpc' = cpc
  BY <1>1, HandlerTypes DEF Aside
<1>3. JoinersInv'
  BY <1>1, <1>2, CreatorIsClient, JoinersKept DEF Aside
<1>4. {"recv", "cgAssign", "cgReply", "giReply", "jgReply", "walk", "sgSend", "gameplay"}
        \subseteq HandlerPlaces
  BY DEF HandlerPlaces
<1>5. \A p \in HandlerPlaces : Goto(Creator, p) => hpc'[Creator] = p
  BY <1>1, GoesTo
<1>6. CreatorInv'
  <2>1. CASE Answer(Creator)
    <3>1. PICK t \in {"NF", "FI", "PI"} : Take(Creator, t) /\ Reply(Creator, Msg(t))
      BY <2>1 DEF Answer
    <3>2. UNCHANGED <<hpc, members>>
      BY <2>1 DEF Answer, handlers
    <3>3. toClient'[Creator] = Append(toClient[Creator], Msg(t)) /\ Msg(t) \in Messages
      <4>1. Msg(t) \in Messages
        BY Records DEF Kinds
      <4> QED BY <1>1, <3>1, <4>1, ReplyPuts
    <3>4. toClient[Creator] = <<>> => Len(toClient'[Creator]) = 1
      <4>1. toClient[Creator] \in Seq(Messages)
        BY <1>1 DEF SessionTypes
      <4> QED BY <3>3, <4>1, QueueGrows
    <3>5. cpc[Creator] \in {"fields", "field"} => Answered'
      BY <3>1, <3>2, <3>4, CreatorTakes DEF Answered
    <3>6. Creating'
      BY <3>1, <3>2, CreatorTakes DEF Creating
    <3>7. cpc[Creator] # "create" /\ cpc[Creator] # "none" /\ hpc'[Creator] = "recv"
      BY <3>1, <3>2, CreatorTakes
    <3>8. /\ cpc[Creator] = "wait" => OnlyTypes(toServer'[Creator], {"PI"})
          /\ cpc[Creator] = "start" => StartAhead(toServer'[Creator])
      BY <3>1, CreatorTakes
    <3>9. StartAhead(toServer'[Creator]) => Starting'
      BY <3>6 DEF Starting
    <3> QED BY <1>2, <3>5, <3>6, <3>7, <3>8, <3>9 DEF CreatorInv
  <2>2. CASE ListGames(Creator) \/ GameInfo(Creator) \/ JoinGame(Creator)
    <3>1. PICK t \in {"LI", "GI", "JG"} : Take(Creator, t)
      BY <2>2 DEF ListGames, GameInfo, JoinGame
    <3>2. /\ hpc[Creator] = "recv"
          /\ cpc[Creator] \notin {"none", "fields", "field", "create", "wait", "start"}
      BY <3>1, CreatorTakes
    <3>3. server' # "up" \/ hpc' = hpc \/ Goto(Creator, "giReply") \/ Goto(Creator, "jgReply")
      BY <2>2 DEF ListGames, GameInfo, JoinGame, handlers
    <3>4. server' = "up" => hpc'[Creator] # "none"
      BY <1>4, <1>5, <3>2, <3>3
    <3> QED BY <1>2, <3>2, <3>4 DEF CreatorInv
  <2>3. CASE CreateGame(Creator)
    <3>1. Take(Creator, "CG") /\ hpc'[Creator] = "cgAssign"
      BY <1>4, <1>5, <2>3 DEF CreateGame
    <3>2. /\ cpc[Creator] \notin {"none", "fields", "field", "wait", "start"}
          /\ cpc[Creator] = "create" => Made'
      BY <3>1, CreatorTakes DEF Made, Creating
    <3> QED BY <1>2, <3>1, <3>2 DEF CreatorInv
  <2>4. CASE AssignCreated(Creator) \/ ReplyCreated(Creator)
    <3>1. /\ server = "up" /\ hpc[Creator] \in {"cgAssign", "cgReply"} /\ toServer' = toServer
          /\ Goto(Creator, "cgReply") \/ Goto(Creator, "recv")
      BY <2>4 DEF AssignCreated, ReplyCreated, At
    <3>2. hpc'[Creator] \in {"cgReply", "recv"}
      BY <1>4, <1>5, <3>1
    <3>3. /\ cpc[Creator] \notin {"none", "fields", "field"}
          /\ cpc[Creator] = "create" => Made
          /\ cpc[Creator] = "wait" => OnlyTypes(toServer[Creator], {"PI"})
          /\ cpc[Creator] = "start" => Starting
      BY <1>1, <3>1 DEF CreatorInv, Sent, Answered
    <3>4. Creating' /\ (Made => Made') /\ (Starting => Starting')
      BY <3>1, <3>2 DEF Creating, Made, Starting
    <3> QED BY <1>2, <3>1, <3>2, <3>3, <3>4 DEF CreatorInv
  <2>5. CASE ReplyInfo(Creator) \/ ReplyJoin(Creator) \/ Notify(Creator) \/ SendLeftover(Creator)
    <3>1. /\ server = "up" /\ hpc[Creator] \in {"giReply", "jgReply", "walk"}
          /\ hpc' = hpc \/ Goto(Creator, "walk") \/ Goto(Creator, "recv")
      BY <2>5 DEF ReplyInfo, ReplyJoin, Notify, SendLeftover, At
    <3>2. cpc[Creator] \notin {"none", "fields", "field", "create", "wait", "start"}
      BY <1>1, <3>1 DEF CreatorInv, Sent, Answered, Made, Creating, Starting
    <3>3. hpc'[Creator] # "none"
      BY <1>4, <1>5, <3>1
    <3> QED BY <1>2, <3>2, <3>3 DEF CreatorInv
  <2>6. CASE StartGame(Creator)
    <3>1. Take(Creator, "SG") /\ (server' # "up" \/ hpc'[Creator] = "sgSend")
      BY <1>4, <1>5, <2>6 DEF StartGame
    <3>2. cpc[Creator] \notin {"none", "fields", "field", "create", "wait"}
      BY <3>1, CreatorTakes
    <3>3. CASE server' # "up"
      BY <3>3 DEF CreatorInv
    <3>4. CASE hpc'[Creator] = "sgSend"
      BY <1>2, <3>2, <3>4 DEF CreatorInv, Starting
    <3> QED BY <3>1, <3>3, <3>4
  <2>7. CASE SendStart(Creator) \/ EnterGameplay(Creator)
    <3>1. /\ server = "up" /\ hpc[Creator] = "sgSend"
          /\ hpc' = hpc \/ Goto(Creator, "gameplay")
      BY <2>7 DEF SendStart, EnterGameplay, At
    <3>2. cpc[Creator] \notin {"none", "fields", "field", "create", "wait"}
      BY <1>1, <3>1 DEF CreatorInv, Sent, Answered, Made, Creating
    <3>3. hpc'[Creator] \in {"sgSend", "gameplay"}
      BY <1>4, <1>5, <3>1
    <3> QED BY <1>2, <3>2, <3>3 DEF CreatorInv, Starting
  <2> QED BY <2>1, <2>2, <2>3, <2>4, <2>5, <2>6, <2>7 DEF HandlerStep
<1> QED BY <1>2, <1>3, <1>6 DEF SessionInv

-----------------------------------------------------------------------------
(* The rest, and the theorem. *)

LEMMA ConnectKeeps ==
  ASSUME SessionInv, NEW c \in Clients, Connect(c)
  PROVE  SessionInv'
<1>1. /\ SessionTypes /\ JoinersInv /\ CreatorInv /\ Creator \in Clients
      /\ Creator \notin Joiners /\ Joiners \subseteq Clients
  BY CreatorIsClient DEF SessionInv
<1>2. /\ server = "up" /\ hpc[c] = "none" /\ Goto(c, "recv")
      /\ UNCHANGED <<server, members, left, toClient, chosen, credentials>>
      /\ \/ c = Creator /\ Send(c, Request("NF"), "fields")
         \/ c # Creator /\ Send(c, Request("LI"), "list")
  BY DEF Connect, At, Goto
<1>3. /\ Request("NF") \in Requests /\ Request("NF").type = "NF"
      /\ Request("LI") \in Requests /\ Request("LI").type = "LI"
  BY Records DEF Kinds
<1>4. {"fields", "list"} \subseteq ClientPlaces /\ "recv" \in HandlerPlaces
  BY DEF ClientPlaces, HandlerPlaces, Waiting
<1>5. /\ hpc' \in [Clients -> HandlerPlaces] /\ hpc'[c] = "recv"
      /\ \A d \in Clients : d # c => hpc'[d] = hpc[d]
  BY <1>1, <1>2, <1>4, GoesTo
<1>6. /\ toServer' \in [Clients -> Seq(Requests)] /\ cpc' \in [Clients -> ClientPlaces]
      /\ \A d \in Clients : d # c => toServer'[d] = toServer[d] /\ cpc'[d] = cpc[d]
      /\ c = Creator => toServer'[c] = Append(toServer[c], Request("NF")) /\ cpc'[c] = "fields"
      /\ c # Creator => toServer'[c] = Append(toServer[c], Request("LI"))
  BY <1>1, <1>2, <1>3, <1>4, SendPuts
<1>7. SessionTypes'
  BY <1>1, <1>2, <1>5, <1>6 DEF SessionTypes
<1>8. toServer[c] \in Seq(Requests)
  BY <1>1 DEF SessionTypes
<1>9. CASE c = Creator
  <2>1. JoinersInv'
    BY <1>1, <1>5, <1>6, <1>9, JoinersKept
  <2>2. toServer[Creator] = <<>> /\ toClient[Creator] = <<>> /\ Creator \notin members
    <3>1. server = "up" /\ hpc[Creator] = "none"
      BY <1>2, <1>9
    <3> QED BY <1>1, <3>1 DEF CreatorInv
  <2>3. Len(toServer'[Creator]) = 1 /\ toServer'[Creator][1] = Request("NF")
    <3>1. toServer[c] = <<>> /\ Len(toServer[c]) = 0
      BY <1>9, <2>2
    <3>2. LET q == Append(toServer[c], Request("NF")) IN Len(q) = 1 /\ q[1] = Request("NF")
      BY <1>3, <1>8, <3>1, QueueGrows
    <3> QED BY <1>6, <1>9, <3>2
  <2>4. Sent("NF")' /\ cpc'[Creator] = "fields" /\ hpc'[Creator] = "recv"
    BY <1>2, <1>3, <1>5, <1>6, <1>9, <2>2, <2>3 DEF Sent
  <2>5. CreatorInv'
    BY <2>4 DEF CreatorInv
  <2> QED BY <1>7, <2>1, <2>5 DEF SessionInv
<1>10. CASE c # Creator
  <2>1. c \in Joiners
    BY <1>10 DEF Clients
  <2>2. OnlyTypes(toServer'[c], {"LI", "GI", "JG", "PI"})
    <3>1. OnlyTypes(toServer[c], {"LI", "GI", "JG", "PI"})
      BY <1>1, <2>1 DEF JoinersInv
    <3> QED BY <1>3, <1>6, <1>8, <1>10, <3>1, TypesOfQueue
  <2>3. JoinersInv'
    BY <1>1, <1>5, <1>6, <2>2 DEF JoinersInv
  <2>4. CreatorInv'
    BY <1>1, <1>2, <1>5, <1>6, <1>10, OthersKeep
  <2> QED BY <1>7, <2>3, <2>4 DEF SessionInv
<1> QED BY <1>9, <1>10

LEMMA RestKeeps ==
  ASSUME SessionInv,
         ControlC \/ ServerGone \/ UNCHANGED vars \/ \E c \in Clients : UpdatePlayer(c)
  PROVE  SessionInv'
<1>1. SessionTypes /\ JoinersInv /\ CreatorInv /\ Creator \in Clients
  BY CreatorIsClient DEF SessionInv
<1>2. UNCHANGED <<handlers, toServer, toClient, chosen, credentials>>
  BY DEF ControlC, ServerGone, UpdatePlayer, vars, users
<1>3. UNCHANGED <<server, hpc, members, left>>
  BY <1>2 DEF handlers
<1>4. JoinersInv'
  BY <1>1, <1>2, <1>3, JoinersKept
<1>5. ASSUME cpc' \in [Clients -> ClientPlaces], CreatorInv' PROVE SessionInv'
  BY <1>1, <1>2, <1>3, <1>4, <1>5 DEF SessionInv, SessionTypes
<1>6. CASE ControlC \/ UNCHANGED vars
  <2>1. cpc' = cpc
    BY <1>6 DEF ControlC, vars, users
  <2> QED BY <1>1, <1>2, <1>3, <1>5, <2>1, OthersKeep DEF SessionTypes
<1>7. CASE ServerGone
  <2>1. server # "up" /\ cpc' = [c \in Clients |-> IF cpc[c] \in Waiting THEN "exit" ELSE cpc[c]]
    BY <1>7 DEF ServerGone
  <2>2. cpc' \in [Clients -> ClientPlaces]
    BY <1>1, <2>1 DEF SessionTypes, ClientPlaces
  <2> QED BY <1>3, <1>5, <2>1, <2>2 DEF CreatorInv
<1>8. CASE \E c \in Clients : UpdatePlayer(c)
  <2>1. PICK c \in Clients : cpc[c] = "racing" /\ cpc' = [cpc EXCEPT ![c] = "updating"]
    BY <1>8 DEF UpdatePlayer
  <2>2. /\ cpc' \in [Clients -> ClientPlaces]
        /\ \/ cpc'[Creator] = cpc[Creator]
           \/ cpc'[Creator] = "updating" /\ cpc[Creator] = "racing"
    <3>1. "updating" \in ClientPlaces /\ cpc \in [Clients -> ClientPlaces]
      BY <1>1 DEF SessionTypes, ClientPlaces
    <3> QED BY <1>1, <2>1, <3>1
  <2>3. CASE cpc'[Creator] = cpc[Creator]
    BY <1>1, <1>2, <1>3, <1>5, <2>2, <2>3, OthersKeep
  <2>4. CASE cpc'[Creator] = "updating" /\ cpc[Creator] = "racing"
    <3>1. server = "up" => hpc'[Creator] # "none"
      BY <1>1, <1>3, <2>4 DEF CreatorInv
    <3> QED BY <1>3, <1>5, <2>2, <2>4, <3>1 DEF CreatorInv
  <2> QED BY <2>2, <2>3, <2>4
<1> QED BY <1>6, <1>7, <1>8

LEMMA SessionStarts == Init => SessionInv
<1> SUFFICES ASSUME Init PROVE SessionInv
  OBVIOUS
<1>1. "none" \in HandlerPlaces /\ "none" \in ClientPlaces /\ "blank" \in Kinds
  BY DEF HandlerPlaces, ClientPlaces, Kinds
<1>2. SessionTypes
  <2>1. <<>> \in Seq(Requests) /\ <<>> \in Seq(Messages)
    OBVIOUS
  <2>2. /\ hpc = [c \in Clients |-> "none"] /\ cpc = [c \in Clients |-> "none"]
        /\ toServer = [c \in Clients |-> <<>>] /\ toClient = [c \in Clients |-> <<>>]
        /\ left = [c \in Clients |-> "blank"] /\ chosen = [c \in Joiners |-> 0]
        /\ credentials = FALSE
    BY DEF Init
  <2>3. toServer \in [Clients -> Seq(Requests)] /\ toClient \in [Clients -> Seq(Messages)]
    BY <2>1, <2>2
  <2>4. /\ hpc \in [Clients -> HandlerPlaces] /\ cpc \in [Clients -> ClientPlaces]
        /\ left \in [Clients -> Kinds] /\ chosen \in [Joiners -> 0..1]
    BY <1>1, <2>2
  <2>5. credentials \in BOOLEAN
    BY <2>2
  <2> QED BY <2>3, <2>4, <2>5 DEF SessionTypes
<1>3. JoinersInv
  BY CreatorIsClient DEF Init, JoinersInv, OnlyTypes
<1>4. CreatorInv
  BY CreatorIsClient DEF Init, CreatorInv
<1> QED BY <1>2, <1>3, <1>4 DEF SessionInv

LEMMA SessionInductive == SessionInv /\ [Next]_vars => SessionInv'
<1> SUFFICES ASSUME SessionInv, [Next]_vars PROVE SessionInv'
  OBVIOUS
<1>1. CASE CreatorStep
  BY <1>1, CreatorKeeps
<1>2. CASE \E c \in Joiners : JoinerStep(c)
  BY <1>2, JoinerKeeps
<1>3. CASE \E c \in Clients : Connect(c)
  BY <1>3, ConnectKeeps
<1>4. CASE \E c \in Clients : HandlerStep(c)
  BY <1>4, CreatorHandlerKeeps, JoinerHandlerKeeps DEF Clients
<1>5. CASE ControlC \/ ServerGone \/ UNCHANGED vars \/ \E c \in Clients : UpdatePlayer(c)
  BY <1>5, RestKeeps
<1> QED BY <1>1, <1>2, <1>3, <1>4, <1>5 DEF Next

\* However many join and whatever the start loop resends, the SG of the creator
\* is handled before anything that was sent behind it (client.c start loop,
\* handle_client).
THEOREM StartIsHandledFirst == Spec => []StartHandledFirst
<1>1. SessionInv => StartHandledFirst
  BY DEF SessionInv, CreatorInv, Starting, StartAhead, StartHandledFirst
<1> QED BY <1>1, SessionStarts, SessionInductive, PTL DEF Spec

-----------------------------------------------------------------------------
(* The list of connections, and the players of a start message. *)

Once(s) == \A i, j \in DOMAIN s : s[i] = s[j] => i = j

\* Every connection is listed once, a walk stays on the list, and a start
\* message goes to members.
ListInv ==
  /\ list \in Seq(Clients) /\ Once(list)
  /\ \A c \in Clients : hpc[c] # "none" <=> c \in ToSet(list)
  /\ pos \in [Clients -> 1..Len(list) + 1]
  /\ left \in [Clients -> {"blank", "NOTIFY"}]
  /\ listed \in BOOLEAN /\ startSig \in BOOLEAN
  /\ members \subseteq Clients /\ todo \in Seq(Clients) /\ ToSet(todo) \subseteq members

\* What the loop of start_game_response collects are members, nobody twice,
\* and all of them that are connected unless the start message is full.
LEMMA PlayersCollected ==
  ASSUME list \in Seq(Clients), Once(list)
  PROVE  /\ Players \in Seq(Clients) /\ ToSet(Players) \subseteq members
         /\ Once(Players) /\ Len(Players) <= MaxPlayers
         /\ \A c \in ToSet(list) \cap members : c \in ToSet(Players) \/ Len(Players) = MaxPlayers
<1>. DEFINE limit == Len(list)
            Round(f, n) == IF n = 0 THEN <<>>
                           ELSE IF list[n] \in members /\ Len(f[n - 1]) < MaxPlayers
                                THEN Append(f[n - 1], list[n])
                                ELSE f[n - 1]
            Defined == {n \in Nat : \E f : f = [m \in 0..n |-> Round(f, m)]}
            collected == CHOOSE f : f = [n \in 0..limit |-> Round(f, n)]
            All(n) == \A i \in 1..n : list[i] \in members =>
                         list[i] \in ToSet(collected[n]) \/ Len(collected[n]) = MaxPlayers
            Behind(n) == {list[i] : i \in 1..n}
            Right == {n \in Nat : n <= limit =>
                         /\ collected[n] \in Seq(Clients) /\ ToSet(collected[n]) \subseteq members
                         /\ Once(collected[n]) /\ Len(collected[n]) <= MaxPlayers
                         /\ ToSet(collected[n]) \subseteq Behind(n) /\ All(n)}
<1>1. limit \in Nat /\ DOMAIN list = 1..limit /\ \A n \in 1..limit : list[n] \in Clients
  BY LenProperties, ElementOfSeq
<1>2. 0 \in Defined
  <2>1. [m \in 0..0 |-> <<>>] = [m \in 0..0 |-> Round([k \in 0..0 |-> <<>>], m)]
    OBVIOUS
  <2>. QED  BY <2>1
<1>3. ASSUME NEW n \in Defined PROVE n + 1 \in Defined
  <2>1. PICK f : f = [m \in 0..n |-> Round(f, m)]
    OBVIOUS
  <2>. DEFINE g == [m \in 0..n + 1 |-> IF m = n + 1 THEN Round(f, m) ELSE f[m]]
  <2>2. ASSUME NEW m \in 0..n + 1 PROVE g[m] = Round(g, m)
    <3>1. CASE m = 0
      <4>1. f[0] = <<>>
        BY <2>1
      <4>. QED  BY <3>1, <4>1
    <3>2. CASE m # 0
      <4>1. m - 1 \in 0..n /\ g[m - 1] = f[m - 1]
        BY <3>2
      <4>2. g[m] = Round(f, m)
        <5>1. m = n + 1 \/ m \in 0..n
          OBVIOUS
        <5>. HIDE DEF Round, Defined
        <5>2. m \in 0..n => f[m] = Round(f, m)
          BY <2>1
        <5>. QED  BY <5>1, <5>2
      <4>. QED  BY <3>2, <4>1, <4>2
    <3>. QED  BY <3>1, <3>2
  <2>3. g = [m \in 0..n + 1 |-> Round(g, m)]
    BY <2>2
  <2>. HIDE DEF g, Round
  <2>. QED  BY <2>3
<1>4. limit \in Defined
  BY <1>1, <1>2, <1>3, CountingUp
<1>5. collected = [n \in 0..limit |-> Round(collected, n)]
  BY <1>4
<1>6. Players = collected[limit]
  BY DEF Players
<1>. HIDE DEF collected
<1>7. 0 \in Right
  <2>1. 0 \in 0..limit
    BY <1>1
  <2>2. collected[0] = <<>>
    BY <1>5, <2>1
  <2>3. /\ collected[0] \in Seq(Clients) /\ Len(collected[0]) <= MaxPlayers
        /\ ToSet(collected[0]) = {} /\ Once(collected[0])
    BY <2>2, SessionAssumption DEF ToSet, Once, SessionAssumption
  <2>4. All(0)
    OBVIOUS
  <2>. HIDE DEF All, Behind
  <2>. QED  BY <2>3, <2>4
<1>8. ASSUME NEW n \in Right PROVE n + 1 \in Right
  <2>. DEFINE before == collected[n]  after == collected[n + 1]  next == list[n + 1]
  <2>. SUFFICES ASSUME n + 1 <= limit
                PROVE  /\ after \in Seq(Clients) /\ ToSet(after) \subseteq members
                       /\ Once(after) /\ Len(after) <= MaxPlayers
                       /\ ToSet(after) \subseteq Behind(n + 1) /\ All(n + 1)
    OBVIOUS
  <2>1. n + 1 \in 0..limit /\ n + 1 # 0 /\ n + 1 \in 1..limit /\ n <= limit /\ (n + 1) - 1 = n
    BY <1>1
  <2>2. after = Round(collected, n + 1)
    BY <1>5, <2>1
  <2>3. after = IF next \in members /\ Len(before) < MaxPlayers
                THEN Append(before, next) ELSE before
    BY <2>1, <2>2
  <2>4. /\ before \in Seq(Clients) /\ ToSet(before) \subseteq members
        /\ Once(before) /\ Len(before) <= MaxPlayers /\ ToSet(before) \subseteq Behind(n) /\ All(n)
    BY <2>1
  <2>5. Len(before) \in Nat /\ next \in Clients /\ MaxPlayers \in Nat
    BY <1>1, <2>1, <2>4, LenProperties, SessionAssumption DEF SessionAssumption
  <2>6. next \notin Behind(n) /\ Behind(n + 1) = Behind(n) \cup {next}
    <3>1. \A i \in 1..n : i \in DOMAIN list /\ n + 1 \in DOMAIN list /\ i # n + 1
      BY <1>1, <2>1
    <3>2. next \notin Behind(n)
      BY <3>1 DEF Once
    <3>3. 1..n + 1 = 1..n \cup {n + 1}
      OBVIOUS
    <3>. QED  BY <3>2, <3>3
  <2>. HIDE DEF before, after, Behind, next
  <2>7. ASSUME after = Append(before, next)
        PROVE  /\ after \in Seq(Clients) /\ ToSet(after) = ToSet(before) \cup {next}
               /\ Len(after) = Len(before) + 1 /\ Once(after)
    <3>1. next \notin ToSet(before)
      BY <2>4, <2>6
    <3>. QED  BY <2>4, <2>5, <2>7, <3>1, AppendElements DEF Once
  <2>8. /\ after \in Seq(Clients) /\ ToSet(after) \subseteq members /\ Len(after) <= MaxPlayers
        /\ Once(after) /\ ToSet(after) \subseteq Behind(n + 1)
        /\ ToSet(before) \subseteq ToSet(after)
        /\ Len(before) = MaxPlayers => after = before
    BY <2>3, <2>4, <2>5, <2>6, <2>7
  <2>9. ASSUME NEW i \in 1..n + 1, list[i] \in members
        PROVE  list[i] \in ToSet(after) \/ Len(after) = MaxPlayers
    <3>1. CASE i = n + 1
      BY <2>3, <2>4, <2>5, <2>7, <2>9, <3>1 DEF next
    <3>2. CASE i # n + 1
      <4>1. i \in 1..n
        BY <3>2
      <4>2. list[i] \in ToSet(before) \/ Len(before) = MaxPlayers
        BY <2>4, <2>9, <4>1 DEF before
      <4>. QED  BY <2>8, <4>2
    <3>. QED  BY <3>1, <3>2
  <2>. QED  BY <2>8, <2>9 DEF after
<1>9. /\ collected[limit] \in Seq(Clients) /\ ToSet(collected[limit]) \subseteq members
      /\ Once(collected[limit]) /\ Len(collected[limit]) <= MaxPlayers /\ All(limit)
  <2>1. Right \in SUBSET Nat
    OBVIOUS
  <2>2. Right = Nat
    <3>. HIDE DEF Right
    <3>. QED  BY <1>7, <1>8, <2>1, CountingUp
  <2>. HIDE DEF All
  <2>. QED  BY <1>1, <2>2
<1>10. ASSUME NEW c \in ToSet(list), c \in members
       PROVE  c \in ToSet(Players) \/ Len(Players) = MaxPlayers
  <2>1. PICK i \in 1..limit : c = list[i]
    BY <1>1 DEF ToSet
  <2>. QED  BY <1>6, <1>9, <1>10, <2>1
<1>. QED  BY <1>6, <1>9, <1>10

LEMMA ListKept ==
  ASSUME ListInv, UNCHANGED handlers, startSig' \in BOOLEAN
  PROVE  ListInv'
BY DEF ListInv, handlers, Once

LEMMA ListConnect ==
  ASSUME SessionTypes, ListInv, NEW c \in Clients, Connect(c)
  PROVE  ListInv'
<1>1. /\ list' = Append(list, c) /\ hpc' = [hpc EXCEPT ![c] = "recv"] /\ hpc[c] = "none"
      /\ UNCHANGED <<pos, left, listed, startSig, members, todo>>
  BY DEF Connect, At
<1>2. c \notin ToSet(list) /\ hpc \in [Clients -> HandlerPlaces]
  BY <1>1 DEF ListInv, SessionTypes
<1>3. /\ list' \in Seq(Clients) /\ Len(list') = Len(list) + 1
      /\ ToSet(list') = ToSet(list) \cup {c} /\ Once(list')
  BY <1>1, <1>2, AppendElements DEF ListInv, Once
<1>4. \A d \in Clients : hpc'[d] # "none" <=> d \in ToSet(list')
  BY <1>1, <1>2, <1>3 DEF ListInv
<1>5. pos' \in [Clients -> 1..Len(list') + 1]
  <2>1. Len(list) \in Nat /\ pos \in [Clients -> 1..Len(list) + 1]
    BY LenProperties DEF ListInv
  <2>. QED  BY <1>1, <1>3, <2>1
<1>. QED  BY <1>1, <1>3, <1>4, <1>5 DEF ListInv, Once

LEMMA ListHandler ==
  ASSUME SessionTypes, ListInv, NEW c \in Clients, HandlerStep(c)
  PROVE  ListInv'
<1>. USE DEF Take, At
<1>1. list' = list /\ UNCHANGED users
  BY DEF HandlerStep, Answer, ListGames, CreateGame, AssignCreated, ReplyCreated, GameInfo,
         ReplyInfo, JoinGame, ReplyJoin, Notify, SendLeftover, StartGame, SendStart,
         EnterGameplay, handlers
<1>2. /\ hpc \in [Clients -> HandlerPlaces] /\ Len(list) \in Nat /\ list \in Seq(Clients)
      /\ pos \in [Clients -> 1..Len(list) + 1] /\ todo \in Seq(Clients)
  BY LenProperties DEF SessionTypes, ListInv
<1>3. \A d \in Clients : hpc'[d] # "none" <=> hpc[d] # "none"
  <2>1. /\ hpc[c] # "none"
        /\ \/ hpc' = hpc
           \/ \E p \in HandlerPlaces \ {"none"} : hpc' = [hpc EXCEPT ![c] = p]
    BY DEF HandlerStep, Answer, ListGames, CreateGame, AssignCreated, ReplyCreated, GameInfo,
           ReplyInfo, JoinGame, ReplyJoin, Notify, SendLeftover, StartGame, SendStart,
           EnterGameplay, handlers, Goto, HandlerPlaces
  <2>. QED  BY <1>2, <2>1
<1>4. pos' \in [Clients -> 1..Len(list) + 1]
  <2>1. \/ pos' = pos
        \/ pos[c] <= Len(list) /\ pos' = [pos EXCEPT ![c] = @ + 1]
        \/ pos' = [pos EXCEPT ![c] = 1]
    BY DEF HandlerStep, Answer, ListGames, CreateGame, AssignCreated, ReplyCreated, GameInfo,
           ReplyInfo, JoinGame, ReplyJoin, Notify, SendLeftover, StartGame, SendStart,
           EnterGameplay, handlers
  <2>2. \A n \in 1..Len(list) + 1 : n <= Len(list) => n + 1 \in 1..Len(list) + 1
    BY <1>2
  <2>3. 1 \in 1..Len(list) + 1 /\ pos[c] \in 1..Len(list) + 1
    BY <1>2
  <2>. QED  BY <1>2, <2>1, <2>2, <2>3
<1>5. left' \in [Clients -> {"blank", "NOTIFY"}]
  <2>1. \/ left' = left
        \/ left' = [left EXCEPT ![c] = "blank"] \/ left' = [left EXCEPT ![c] = "NOTIFY"]
    BY DEF HandlerStep, Answer, ListGames, CreateGame, AssignCreated, ReplyCreated, GameInfo,
           ReplyInfo, JoinGame, ReplyJoin, Notify, SendLeftover, StartGame, SendStart,
           EnterGameplay, handlers
  <2>. QED  BY <2>1 DEF ListInv
<1>6. listed' \in BOOLEAN /\ (members' = members \/ members' = members \cup {c})
  BY DEF HandlerStep, Answer, ListGames, CreateGame, AssignCreated, ReplyCreated, GameInfo,
         ReplyInfo, JoinGame, ReplyJoin, Notify, SendLeftover, StartGame, SendStart,
         EnterGameplay, handlers, ListInv
<1>7. todo' \in Seq(Clients) /\ ToSet(todo') \subseteq members'
  <2>1. \/ todo' = todo
        \/ todo # <<>> /\ todo' = Tail(todo)
        \/ todo' = Players /\ members' = members
    BY DEF HandlerStep, Answer, ListGames, CreateGame, AssignCreated, ReplyCreated, GameInfo,
           ReplyInfo, JoinGame, ReplyJoin, Notify, SendLeftover, StartGame, SendStart,
           EnterGameplay, handlers
  <2>2. ASSUME todo # <<>> PROVE Tail(todo) \in Seq(Clients) /\ ToSet(Tail(todo)) \subseteq ToSet(todo)
    <3>1. \A i \in DOMAIN Tail(todo) : i + 1 \in DOMAIN todo /\ Tail(todo)[i] = todo[i + 1]
      BY <1>2, <2>2, QueueShrinks
    <3>. QED  BY <1>2, <2>2, <3>1, QueueShrinks DEF ToSet
  <2>. QED  BY <1>2, <1>6, <2>1, <2>2, PlayersCollected DEF ListInv
<1>8. startSig' \in BOOLEAN /\ members' \subseteq Clients
  BY <1>1, <1>6 DEF users, ListInv
<1>. QED  BY <1>1, <1>3, <1>4, <1>5, <1>6, <1>7, <1>8 DEF ListInv, Once

LEMMA ListInductive ==
  ASSUME SessionTypes, ListInv, [Next]_vars
  PROVE  ListInv'
<1>1. \/ \E c \in Clients : Connect(c) \/ HandlerStep(c)
      \/ UNCHANGED handlers /\ startSig' \in BOOLEAN
  <2>1. CASE CreatorStep
    BY <2>1 DEF CreatorStep, ChooseField, Created, WaitForPlayers, ResendUntilStart, ListInv
  <2>2. CASE ControlC \/ ServerGone \/ UNCHANGED vars
    BY <2>2 DEF ControlC, ServerGone, vars, users, ListInv
  <2>3. CASE \E c \in Joiners : JoinerStep(c)
    BY <2>3 DEF JoinerStep, ChooseGame, ShowInfo, Joined, WaitForStart, ListInv
  <2>4. CASE \E c \in Clients : UpdatePlayer(c)
    BY <2>4 DEF UpdatePlayer, ListInv
  <2>. QED  BY <2>1, <2>2, <2>3, <2>4 DEF Next
<1>. QED  BY <1>1, ListKept, ListConnect, ListHandler

-----------------------------------------------------------------------------
(* The joiners, from their LI to the start. *)

JoinSent(j) == cpc[j] \in {"join", "joined", "racing", "updating"}

\* The JG is the next request of j.
JoinAhead(j) == toServer[j] # <<>> /\ Head(toServer[j]).type = "JG"

\* Nothing but the LI or its answer is on the way.
Listing(j) ==
  /\ hpc[j] = "recv" /\ j \notin members
  /\ OnlyTypes(toServer[j], {"LI"})
  /\ \/ Len(toServer[j]) = 1 /\ toClient[j] = <<>>
     \/ toServer[j] = <<>> /\ Len(toClient[j]) = 1 /\ (toClient[j][1].count = 1 => listed)

\* The GI is on the way, or is taken up and its answer may be overtaken.
Asking(j) ==
  \/ /\ hpc[j] = "recv" /\ j \notin members /\ toClient[j] = <<>>
     /\ OnlyTypes(toServer[j], {"GI"}) /\ Len(toServer[j]) = 1
  \/ hpc[j] \in {"recv", "giReply"} /\ toServer[j] = <<>>

\* The JG is still ahead of the PI, or is taken up.
Joining(j) ==
  /\ \A i \in DOMAIN toServer[j] : i # 1 => toServer[j][i].type = "PI"
  /\ \/ JoinAhead(j) /\ Head(toServer[j]).game = chosen[j] /\ hpc[j] \in {"recv", "giReply"}
     \/ OnlyTypes(toServer[j], {"PI"}) /\ hpc[j] \in {"recv", "jgReply", "walk"} /\ chosen[j] = 1

JoinStage(j) ==
  /\ cpc[j] \in {"none", "list", "info"} \/ JoinSent(j)
  /\ cpc[j] = "none" <=> hpc[j] = "none"
  /\ hpc[j] = "none" => toServer[j] = <<>> /\ toClient[j] = <<>> /\ j \notin members
  /\ cpc[j] = "list" => Listing(j)
  /\ cpc[j] = "info" => Asking(j) /\ chosen[j] = 1
  /\ JoinSent(j) => Joining(j)
  /\ chosen[j] = 1 => listed

JoinInv == server = "up" => \A j \in Joiners : JoinStage(j)

LEMMA JoinTypes ==
  ASSUME SessionTypes, NEW j \in Joiners
  PROVE  /\ j \in Clients /\ toServer[j] \in Seq(Requests) /\ toClient[j] \in Seq(Messages)
         /\ hpc[j] \in HandlerPlaces /\ cpc[j] \in ClientPlaces /\ chosen[j] \in 0..1
BY CreatorIsClient DEF SessionTypes

\* Once its JG is taken up, a joiner has sent nothing but PI.
LEMMA TakenMeansPI ==
  ASSUME SessionTypes, NEW j \in Joiners, JoinStage(j)
  PROVE  j \in JoinTaken <=> JoinSent(j) /\ OnlyTypes(toServer[j], {"PI"})
<1>1. toServer[j] \in Seq(Requests)
  BY JoinTypes
<1>2. ASSUME JoinSent(j), JoinAhead(j) PROVE j \notin JoinTaken /\ ~OnlyTypes(toServer[j], {"PI"})
  <2>1. 1 \in DOMAIN toServer[j] /\ toServer[j][1].type = "JG"
    BY <1>1, <1>2, QueueShrinks DEF JoinAhead
  <2>. QED  BY <2>1 DEF JoinTaken, OnlyTypes
<1>3. ASSUME JoinSent(j), OnlyTypes(toServer[j], {"PI"}) PROVE j \in JoinTaken
  BY <1>3 DEF JoinTaken, JoinSent, OnlyTypes
<1>. QED  BY <1>2, <1>3 DEF JoinStage, Joining, JoinTaken, JoinSent

\* What others may do without an effect on a joiner's part: a message to it is
\* possible once it is a player.
LEMMA StageKept ==
  ASSUME NEW j \in Joiners, JoinStage(j),
         toServer'[j] = toServer[j], cpc'[j] = cpc[j], hpc'[j] = hpc[j], chosen'[j] = chosen[j],
         j \in members' <=> j \in members, listed => listed',
         toClient'[j] = toClient[j] \/ j \in members
  PROVE  JoinStage(j)'
<1>1. \A T : OnlyTypes(toServer'[j], T) <=> OnlyTypes(toServer[j], T)
  OBVIOUS
<1>2. Listing(j) => Listing(j)'
  BY <1>1 DEF Listing
<1>3. Asking(j) => Asking(j)'
  BY <1>1 DEF Asking
<1>4. Joining(j) => Joining(j)'
  BY <1>1 DEF Joining, JoinAhead
<1>. QED  BY <1>2, <1>3, <1>4 DEF JoinStage, JoinSent

\* A joiner takes an answer, or what it takes for one, and goes on.
LEMMA JoinerSends ==
  ASSUME SessionTypes, NEW c \in Joiners, JoinStage(c), server = "up", listed \in BOOLEAN,
         toClient[c] # <<>>, JoinerStep(c)
  PROVE  JoinStage(c)'
<1>. DEFINE m == Head(toClient[c])
<1>1. ChooseGame(c, m) \/ ShowInfo(c, m) \/ Joined(c, m) \/ WaitForStart(c, m)
  BY DEF JoinerStep
<1>2. /\ toServer[c] \in Seq(Requests) /\ toClient[c] \in Seq(Messages) /\ c \in Clients
      /\ chosen \in [Joiners -> 0..1] /\ cpc \in [Clients -> ClientPlaces]
  BY JoinTypes DEF SessionTypes
<1>3. m \in Messages /\ m = toClient[c][1] /\ 1 \in DOMAIN toClient[c]
  BY <1>2, QueueShrinks
<1>. HIDE DEF m
<1>4. UNCHANGED handlers
  BY <1>1 DEF ChooseGame, ShowInfo, Joined, WaitForStart
<1>5. UNCHANGED <<hpc, members, listed, server>>
  BY <1>4 DEF handlers
<1>6. ASSUME NEW r \in Requests, NEW p \in ClientPlaces, Send(c, r, p)
      PROVE  toServer'[c] = Append(toServer[c], r) /\ cpc'[c] = p
  BY <1>2, <1>6, SendPuts
<1>7. /\ {"info", "join", "joined", "racing"} \subseteq ClientPlaces
      /\ {"GI", "JG", "PI"} \subseteq Kinds /\ 1 \in 0..1
  BY DEF ClientPlaces, Waiting, Kinds
\* A joiner whose one request was answered sends the next.
<1>8. ASSUME toServer[c] = <<>>, NEW r \in Requests, toServer'[c] = Append(toServer[c], r)
      PROVE  /\ toServer'[c] # <<>> /\ Head(toServer'[c]) = r /\ Len(toServer'[c]) = 1
             /\ DOMAIN toServer'[c] = {1} /\ toServer'[c][1] = r
  <2>1. /\ Append(toServer[c], r) \in Seq(Requests) /\ Len(Append(toServer[c], r)) = 1
        /\ DOMAIN Append(toServer[c], r) = 1..1 /\ Append(toServer[c], r)[1] = r
    <3>1. Len(toServer[c]) = 0
      BY <1>8
    <3>. QED  BY <1>2, <3>1, QueueGrows
  <2>2. Append(toServer[c], r) # <<>>
    BY <2>1
  <2>. QED  BY <1>8, <2>1, <2>2, QueueShrinks
<1>9. CASE ChooseGame(c, m)
  <2>1. cpc[c] = "list" /\ Listing(c) /\ toServer[c] = <<>> /\ hpc[c] = "recv"
    BY <1>2, <1>9 DEF ChooseGame, JoinStage, Listing
  <2>2. chosen'[c] = m.count /\ m.count \in 0..1 /\ (m.count = 1 => listed)
    BY <1>2, <1>3, <1>9, <2>1, Records DEF ChooseGame, Listing
  <2>3. CASE m.count = 0
    <3>. DEFINE r == Request("JG")
    <3>1. Send(c, r, "join") /\ r \in Requests /\ r.type = "JG" /\ r.game = 0
      BY <1>7, <1>9, <2>3, Records DEF ChooseGame, Request
    <3>. HIDE DEF r
    <3>2. cpc'[c] = "join" /\ toServer'[c] = Append(toServer[c], r)
      BY <1>6, <1>7, <3>1
    <3>3. Joining(c)'
      BY <1>5, <1>8, <2>1, <2>2, <2>3, <3>1, <3>2 DEF Joining, JoinAhead
    <3>. QED  BY <1>5, <2>1, <2>2, <2>3, <3>2, <3>3 DEF JoinStage, JoinSent
  <2>5. toClient'[c] = <<>>
    <3>1. toClient'[c] = Tail(toClient[c])
      BY <1>2, <1>9, ReceiveTakes DEF ChooseGame
    <3>2. Len(toClient[c]) = 1
      BY <2>1, <1>2 DEF Listing
    <3>3. Tail(toClient[c]) \in Seq(Messages) /\ Len(Tail(toClient[c])) = 0
      BY <1>2, <3>2, QueueShrinks
    <3>. QED  BY <3>1, <3>3, EmptySeq
  <2>4. CASE m.count # 0
    <3>. DEFINE r == [Request("GI") EXCEPT !.game = 1]
    <3>1. Send(c, r, "info") /\ r \in Requests /\ r.type = "GI"
      <4>1. Send(c, r, "info")
        BY <1>9, <2>4 DEF ChooseGame
      <4>2. r \in Requests /\ r.type = "GI"
        BY <1>7 DEF Request, Requests
      <4>. QED  BY <4>1, <4>2
    <3>. HIDE DEF r
    <3>2. cpc'[c] = "info" /\ toServer'[c] = Append(toServer[c], r)
      BY <1>6, <1>7, <3>1
    <3>3. OnlyTypes(toServer'[c], {"GI"}) /\ Len(toServer'[c]) = 1
      BY <1>8, <2>1, <3>1, <3>2 DEF OnlyTypes
    <3>4. Asking(c)' /\ chosen'[c] = 1 /\ listed'
      BY <1>5, <2>1, <2>2, <2>4, <2>5, <3>3 DEF Asking, Listing
    <3>. QED  BY <1>5, <2>1, <3>2, <3>4 DEF JoinStage, JoinSent
  <2>. QED  BY <2>2, <2>3, <2>4
<1>10. CASE ShowInfo(c, m)
  <2>. DEFINE r == [Request("JG") EXCEPT !.game = chosen[c]]
  <2>1. /\ cpc[c] = "info" /\ toServer[c] = <<>> /\ hpc[c] \in {"recv", "giReply"}
        /\ chosen[c] = 1 /\ listed /\ chosen' = chosen
    BY <1>2, <1>10 DEF ShowInfo, JoinStage, Asking
  <2>2. Send(c, r, "join") /\ r \in Requests /\ r.type = "JG" /\ r.game = chosen[c]
    <3>1. Send(c, r, "join")
      BY <1>10 DEF ShowInfo
    <3>2. r \in Requests /\ r.type = "JG" /\ r.game = chosen[c]
      BY <1>7, <2>1 DEF Request, Requests
    <3>. QED  BY <3>1, <3>2
  <2>. HIDE DEF r
  <2>3. cpc'[c] = "join" /\ toServer'[c] = Append(toServer[c], r)
    BY <1>6, <1>7, <2>2
  <2>4. Joining(c)'
    BY <1>5, <1>8, <2>1, <2>2, <2>3 DEF Joining, JoinAhead
  <2>. QED  BY <1>5, <2>1, <2>3, <2>4 DEF JoinStage, JoinSent
<1>11. CASE Joined(c, m) \/ WaitForStart(c, m)
  <2>1. /\ cpc[c] \in {"join", "joined"} /\ Joining(c) /\ hpc[c] # "none" /\ chosen' = chosen
        /\ \/ Send(c, Request("PI"), "joined")
           \/ toServer' = toServer /\ cpc' = [cpc EXCEPT ![c] = "racing"]
    BY <1>11 DEF Joined, WaitForStart, JoinStage, JoinSent, Joining
  <2>2. Request("PI") \in Requests /\ Request("PI").type = "PI"
    BY <1>7, Records
  <2>3. CASE Send(c, Request("PI"), "joined")
    <3>1. cpc'[c] = "joined" /\ toServer'[c] = Append(toServer[c], Request("PI"))
      BY <1>6, <1>7, <2>2, <2>3
    <3>2. OnlyTypes(toServer[c], {"PI"}) => OnlyTypes(toServer'[c], {"PI"})
      BY <1>2, <2>2, <3>1, TypesOfQueue
    <3>3. /\ JoinAhead(c) => JoinAhead(c)' /\ Head(toServer'[c]) = Head(toServer[c])
          /\ (\A i \in DOMAIN toServer[c] : i # 1 => toServer[c][i].type = "PI")
               => \A i \in DOMAIN toServer'[c] : i # 1 => toServer'[c][i].type = "PI"
      <4>. DEFINE q == toServer[c]  t == Append(q, Request("PI"))
      <4>1. /\ t \in Seq(Requests) /\ Len(t) = Len(q) + 1 /\ DOMAIN t = 1..Len(q) + 1
            /\ DOMAIN q = 1..Len(q) /\ Len(q) \in Nat /\ t[Len(q) + 1] = Request("PI")
            /\ \A i \in 1..Len(q) : t[i] = q[i]
        BY <1>2, <2>2, QueueGrows
      <4>. HIDE DEF t
      <4>2. t # <<>> /\ Head(t) = t[1]
        BY <4>1, QueueShrinks
      <4>3. JoinAhead(c) => Head(q) = q[1] /\ 1 \in 1..Len(q)
        BY <1>2, <4>1, QueueShrinks DEF JoinAhead
      <4>4. ASSUME \A i \in DOMAIN q : i # 1 => q[i].type = "PI", NEW i \in DOMAIN t, i # 1
            PROVE  t[i].type = "PI"
        <5>1. CASE i = Len(q) + 1
          BY <2>2, <4>1, <5>1
        <5>2. CASE i # Len(q) + 1
          BY <4>1, <4>4, <5>2
        <5>. QED  BY <5>1, <5>2
      <4>5. toServer'[c] = t
        BY <3>1 DEF t
      <4>. QED  BY <4>2, <4>3, <4>1, <4>4, <4>5 DEF JoinAhead
    <3>4. Joining(c)'
      BY <1>5, <2>1, <3>2, <3>3 DEF Joining
    <3>. QED  BY <1>5, <2>1, <3>1, <3>4, <1>11 DEF JoinStage, JoinSent
  <2>4. CASE toServer' = toServer /\ cpc' = [cpc EXCEPT ![c] = "racing"]
    <3>1. cpc'[c] = "racing"
      BY <1>2, <2>4
    <3>2. Joining(c)'
      BY <1>5, <2>1, <2>4 DEF Joining, JoinAhead, OnlyTypes
    <3>. QED  BY <1>5, <2>1, <3>1, <3>2 DEF JoinStage, JoinSent
  <2>. QED  BY <2>1, <2>3, <2>4
<1>. QED  BY <1>1, <1>9, <1>10, <1>11

\* Which request a joiner's handler takes up when.
LEMMA JoinerTakes ==
  ASSUME SessionTypes, NEW c \in Joiners, JoinStage(c), NEW t, Take(c, t)
  PROVE  /\ hpc[c] = "recv" /\ c \in Clients
         /\ \/ /\ cpc[c] = "list" /\ t = "LI" /\ toServer'[c] = <<>> /\ toClient[c] = <<>>
                /\ c \notin members
            \/ cpc[c] = "info" /\ t = "GI" /\ toServer'[c] = <<>>
            \/ /\ JoinSent(c) /\ t = "JG" /\ OnlyTypes(toServer'[c], {"PI"})
               /\ Head(toServer[c]).game = chosen[c] /\ c \notin JoinTaken
            \/ /\ JoinSent(c) /\ t = "PI" /\ OnlyTypes(toServer'[c], {"PI"}) /\ chosen[c] = 1
<1>. DEFINE q == toServer[c]
<1>1. q \in Seq(Requests) /\ c \in Clients
  BY JoinTypes
<1>2. hpc[c] = "recv" /\ q # <<>> /\ Head(q).type = t /\ toServer'[c] = Tail(q)
  BY <1>1, TakeTakes
<1>3. /\ Len(q) \in Nat \ {0} /\ DOMAIN q = 1..Len(q) /\ Head(q) = q[1] /\ 1 \in DOMAIN q
      /\ Tail(q) \in Seq(Requests) /\ DOMAIN Tail(q) = 1..Len(q) - 1 /\ Len(Tail(q)) = Len(q) - 1
      /\ \A i \in DOMAIN Tail(q) : i + 1 \in DOMAIN q /\ i + 1 # 1 /\ Tail(q)[i] = q[i + 1]
  BY <1>1, <1>2, QueueShrinks
<1>4. Len(q) = 1 => Tail(q) = <<>>
  BY <1>3, EmptySeq
<1>5. \A T : OnlyTypes(q, T) => t \in T
  BY <1>2, <1>3 DEF OnlyTypes
<1>6. (\A i \in DOMAIN q : i # 1 => q[i].type = "PI") => OnlyTypes(Tail(q), {"PI"})
  BY <1>3 DEF OnlyTypes
<1>. HIDE DEF q
<1>7. CASE cpc[c] = "list"
  BY <1>1, <1>2, <1>4, <1>5, <1>7 DEF JoinStage, Listing, q
<1>8. CASE cpc[c] = "info"
  BY <1>1, <1>2, <1>4, <1>5, <1>8 DEF JoinStage, Asking, q
<1>9. CASE JoinSent(c)
  <2>1. OnlyTypes(toServer'[c], {"PI"}) /\ Joining(c)
    BY <1>2, <1>6, <1>9 DEF JoinStage, Joining, q
  <2>2. JoinAhead(c) => c \notin JoinTaken
    BY <1>2, <1>3 DEF JoinAhead, JoinTaken, q
  <2>. QED  BY <1>1, <1>2, <1>5, <1>9, <2>1, <2>2 DEF Joining, JoinAhead, q
<1>. QED  BY <1>2, <1>7, <1>8, <1>9 DEF JoinStage

LEMMA JoinerHandled ==
  ASSUME SessionInv, NEW c \in Joiners, JoinStage(c), listed \in BOOLEAN,
         HandlerStep(c), server' = "up"
  PROVE  JoinStage(c)'
<1>1. /\ SessionTypes /\ JoinersInv /\ c \in Clients /\ c # Creator /\ SessionTypes' /\ Aside(c)
      /\ hpc[c] \in {"none", "recv", "giReply", "jgReply", "walk"}
  BY CreatorIsClient, HandlerTypes DEF SessionInv, JoinersInv
<1>2. UNCHANGED <<cpc, chosen>>
  BY DEF HandlerStep, Answer, ListGames, CreateGame, AssignCreated, ReplyCreated, GameInfo,
         ReplyInfo, JoinGame, ReplyJoin, Notify, SendLeftover, StartGame, SendStart,
         EnterGameplay, users
<1>3. \A p \in {"recv", "giReply", "jgReply", "walk"} : Goto(c, p) => hpc'[c] = p
  BY <1>1, GoesTo DEF HandlerPlaces
<1>4. OnlyTypes(toServer'[c], {"PI"}) =>
        \A i \in DOMAIN toServer'[c] : i # 1 => toServer'[c][i].type = "PI"
  BY DEF OnlyTypes
<1>5. CASE Answer(c)
  <2>1. PICK t \in {"NF", "FI", "PI"} : Take(c, t)
    BY <1>5 DEF Answer
  <2>2. UNCHANGED <<hpc, listed>>
    BY <1>5 DEF Answer, handlers
  <2>3. JoinSent(c) /\ hpc[c] = "recv" /\ OnlyTypes(toServer'[c], {"PI"}) /\ chosen[c] = 1
    BY <1>1, <2>1, JoinerTakes
  <2>4. Joining(c)'
    BY <1>2, <1>4, <2>2, <2>3 DEF Joining
  <2>. QED  BY <1>2, <2>2, <2>3, <2>4 DEF JoinStage, JoinSent
<1>6. CASE ListGames(c)
  <2>. DEFINE m == [Msg("LI") EXCEPT !.count = IF listed THEN 1 ELSE 0]
  <2>1. /\ cpc[c] = "list" /\ hpc[c] = "recv" /\ toServer'[c] = <<>> /\ toClient[c] = <<>>
        /\ c \notin members
    BY <1>1, <1>6, JoinerTakes DEF ListGames, JoinSent
  <2>2. UNCHANGED <<hpc, listed, members>>
    BY <1>6 DEF ListGames, handlers
  <2>3. m \in Messages /\ (m.count = 1 => listed)
    BY DEF Msg, Messages, Kinds
  <2>4. Reply(c, m)
    BY <1>6 DEF ListGames
  <2>. HIDE DEF m
  <2>5. Len(toClient'[c]) = 1 /\ toClient'[c][1] = m
    <3>1. toClient'[c] = Append(toClient[c], m) /\ toClient[c] \in Seq(Messages)
      BY <1>1, <2>3, <2>4, ReplyPuts, JoinTypes
    <3>2. Len(toClient[c]) = 0
      BY <2>1
    <3>3. Len(Append(toClient[c], m)) = 1 /\ Append(toClient[c], m)[1] = m
      BY <2>3, <3>1, <3>2, QueueGrows
    <3>. QED  BY <3>1, <3>3
  <2>6. Listing(c)'
    BY <2>1, <2>2, <2>3, <2>5 DEF Listing, OnlyTypes
  <2>. QED  BY <1>2, <2>1, <2>2, <2>6 DEF JoinStage, JoinSent
<1>7. CASE GameInfo(c)
  <2>1. cpc[c] = "info" /\ toServer'[c] = <<>>
    BY <1>1, <1>7, JoinerTakes DEF GameInfo, JoinSent
  <2>2. hpc'[c] = "giReply" /\ listed' = listed
    BY <1>3, <1>7 DEF GameInfo
  <2>. QED  BY <1>2, <2>1, <2>2 DEF JoinStage, JoinSent, Asking
<1>8. CASE JoinGame(c)
  <2>1. JoinSent(c) /\ OnlyTypes(toServer'[c], {"PI"}) /\ Head(toServer[c]).game = chosen[c]
    BY <1>1, <1>8, JoinerTakes DEF JoinGame, JoinSent
  <2>2. chosen[c] = 1 /\ hpc'[c] = "jgReply" /\ listed' = listed
    BY <1>3, <1>8, <2>1 DEF JoinGame
  <2>3. Joining(c)'
    BY <1>2, <1>4, <2>1, <2>2 DEF Joining
  <2>. QED  BY <1>2, <2>1, <2>2, <2>3 DEF JoinStage, JoinSent
<1>9. CASE CreateGame(c) \/ StartGame(c)
  BY <1>1, <1>9, JoinerTakes DEF CreateGame, StartGame
<1>10. CASE ReplyInfo(c)
  <2>1. hpc[c] = "giReply" /\ hpc'[c] = "recv" /\ UNCHANGED <<listed, toServer>>
    BY <1>3, <1>10 DEF ReplyInfo, At
  <2>2. Asking(c) => Asking(c)'
    BY <2>1 DEF Asking
  <2>3. Joining(c) => Joining(c)'
    BY <1>2, <2>1 DEF Joining, JoinAhead
  <2>4. ~Listing(c)
    BY <2>1 DEF Listing
  <2>. QED  BY <1>2, <2>1, <2>2, <2>3, <2>4 DEF JoinStage, JoinSent
<1>11. CASE ReplyJoin(c) \/ Notify(c) \/ SendLeftover(c)
  <2>1. /\ hpc[c] \in {"jgReply", "walk"} /\ hpc'[c] \in {"walk", "recv"}
        /\ UNCHANGED <<listed, toServer>>
    BY <1>3, <1>11 DEF ReplyJoin, Notify, SendLeftover, At
  <2>2. JoinSent(c) /\ Joining(c)
    BY <2>1 DEF JoinStage, Listing, Asking
  <2>3. Joining(c)'
    BY <1>2, <2>1, <2>2 DEF Joining, JoinAhead, OnlyTypes
  <2>. QED  BY <1>2, <2>1, <2>2, <2>3 DEF JoinStage, JoinSent
<1>12. ~AssignCreated(c) /\ ~ReplyCreated(c) /\ ~SendStart(c) /\ ~EnterGameplay(c)
  BY <1>1 DEF AssignCreated, ReplyCreated, SendStart, EnterGameplay, At
<1>. QED  BY <1>5, <1>6, <1>7, <1>8, <1>9, <1>10, <1>11, <1>12 DEF HandlerStep

\* A handler writes to others only as to players.
LEMMA OthersArePlayers ==
  ASSUME SessionTypes, ListInv, NEW c \in Clients, HandlerStep(c), NEW d \in Clients, d # c
  PROVE  toClient'[d] = toClient[d] \/ d \in members
<1>1. ASSUME NEW n, NEW m \in Messages, Reply(n, m), n # d PROVE toClient'[d] = toClient[d]
  BY <1>1, ReplyPuts
<1>2. /\ \A t \in Kinds : Msg(t) \in Messages
      /\ \A t \in {"NF", "FI", "PI", "CG", "GI", "JG", "NOTIFY", "SG"} : t \in Kinds
      /\ left[c] \in Kinds
  BY Records DEF Kinds, SessionTypes
<1>3. CASE ListGames(c)
  <2>. DEFINE m == [Msg("LI") EXCEPT !.count = IF listed THEN 1 ELSE 0]
  <2>1. m \in Messages
    BY DEF Msg, Messages, Kinds
  <2>2. Reply(c, m)
    BY <1>3 DEF ListGames
  <2>. HIDE DEF m
  <2>. QED  BY <1>1, <2>1, <2>2
<1>4. CASE Notify(c)
  <2>1. \/ toClient' = toClient
        \/ list[pos[c]] \in members /\ Reply(list[pos[c]], Msg("NOTIFY"))
    BY <1>4 DEF Notify, Notified
  <2>. QED  BY <1>1, <1>2, <2>1
<1>5. CASE SendStart(c)
  <2>1. Reply(Head(todo), Msg("SG")) /\ todo # <<>>
    BY <1>5 DEF SendStart
  <2>2. Head(todo) \in members
    <3>1. todo \in Seq(Clients) /\ ToSet(todo) \subseteq members
      BY DEF ListInv
    <3>. QED  BY <2>1, <3>1, QueueShrinks DEF ToSet
  <2>. QED  BY <1>1, <1>2, <2>1, <2>2
<1>6. CASE Answer(c)
  <2>1. PICK t \in {"NF", "FI", "PI"} : Reply(c, Msg(t))
    BY <1>6 DEF Answer
  <2>. QED  BY <1>1, <1>2, <2>1
<1>7. CASE ReplyCreated(c) \/ ReplyInfo(c) \/ ReplyJoin(c) \/ SendLeftover(c)
  BY <1>1, <1>2, <1>7 DEF ReplyCreated, ReplyInfo, ReplyJoin, SendLeftover
<1>8. CASE \/ CreateGame(c) \/ AssignCreated(c) \/ GameInfo(c) \/ JoinGame(c) \/ StartGame(c)
           \/ EnterGameplay(c)
  BY <1>8 DEF CreateGame, AssignCreated, GameInfo, JoinGame, StartGame, EnterGameplay
<1>. QED  BY <1>3, <1>4, <1>5, <1>6, <1>7, <1>8 DEF HandlerStep

LEMMA JoinInductive ==
  ASSUME SessionInv, ListInv, JoinInv, [Next]_vars
  PROVE  JoinInv'
<1>1. SessionTypes /\ Creator \in Clients /\ Creator \notin Joiners /\ Joiners \subseteq Clients
      /\ listed \in BOOLEAN
  BY CreatorIsClient DEF SessionInv, ListInv
<1>. SUFFICES ASSUME server' = "up", NEW j \in Joiners PROVE JoinStage(j)'
  BY DEF JoinInv
<1>2. server = "up" => JoinStage(j)
  BY DEF JoinInv
<1>. USE DEF handlers, users
<1>3. CASE CreatorStep
  <2>. DEFINE m == Head(toClient[Creator])
  <2>1. /\ toClient[Creator] # <<>>
        /\ ChooseField(m) \/ Created(m) \/ WaitForPlayers(m) \/ ResendUntilStart(m)
    BY <1>3 DEF CreatorStep
  <2>. HIDE DEF m
  <2>2. Receive(Creator, m) /\ UNCHANGED <<handlers, chosen>>
    BY <2>1 DEF ChooseField, Created, WaitForPlayers, ResendUntilStart
  <2>3. server = "up" /\ toClient'[j] = toClient[j]
    BY <1>1, <2>1, <2>2, ReceiveTakes
  <2>4. toServer'[j] = toServer[j] /\ cpc'[j] = cpc[j]
    <3>1. \/ toServer' = toServer \/ \E r : toServer' = [toServer EXCEPT ![Creator] = Append(@, r)]
      BY <2>1 DEF ChooseField, Created, WaitForPlayers, ResendUntilStart, Send
    <3>2. \E p : cpc' = [cpc EXCEPT ![Creator] = p]
      BY <2>1 DEF ChooseField, Created, WaitForPlayers, ResendUntilStart, Send
    <3>. QED  BY <1>1, <3>1, <3>2 DEF SessionTypes
  <2>. QED  BY <1>2, <2>2, <2>3, <2>4, StageKept
<1>4. CASE \E c \in Joiners : JoinerStep(c)
  <2>1. PICK c \in Joiners : JoinerStep(c)
    BY <1>4
  <2>. DEFINE m == Head(toClient[c])
  <2>2. /\ toClient[c] # <<>>
        /\ ChooseGame(c, m) \/ ShowInfo(c, m) \/ Joined(c, m) \/ WaitForStart(c, m)
    BY <2>1 DEF JoinerStep
  <2>. HIDE DEF m
  <2>3. Receive(c, m) /\ UNCHANGED handlers
    BY <2>2 DEF ChooseGame, ShowInfo, Joined, WaitForStart
  <2>4. server = "up"
    BY <2>3 DEF Receive
  <2>5. CASE c = j
    BY <1>1, <1>2, <2>1, <2>2, <2>4, <2>5, JoinerSends
  <2>6. CASE c # j
    <3>1. toClient'[j] = toClient[j]
      BY <1>1, <2>2, <2>3, <2>6, ReceiveTakes
    <3>2. toServer'[j] = toServer[j] /\ cpc'[j] = cpc[j] /\ chosen'[j] = chosen[j]
      <4>1. \/ toServer' = toServer \/ \E r : toServer' = [toServer EXCEPT ![c] = Append(@, r)]
        BY <2>2 DEF ChooseGame, ShowInfo, Joined, WaitForStart, Send
      <4>2. \E p : cpc' = [cpc EXCEPT ![c] = p]
        BY <2>2 DEF ChooseGame, ShowInfo, Joined, WaitForStart, Send
      <4>3. chosen' = chosen \/ chosen' = [chosen EXCEPT ![c] = m.count]
        BY <2>2 DEF ChooseGame, ShowInfo, Joined, WaitForStart
      <4>. QED  BY <1>1, <2>6, <4>1, <4>2, <4>3 DEF SessionTypes
    <3>. QED  BY <1>2, <2>3, <2>4, <3>1, <3>2, StageKept
  <2>. QED  BY <2>5, <2>6
<1>5. CASE \E c \in Clients : Connect(c)
  <2>1. PICK c \in Clients : Connect(c)
    BY <1>5
  <2>2. /\ server = "up" /\ hpc[c] = "none" /\ hpc' = [hpc EXCEPT ![c] = "recv"]
        /\ UNCHANGED <<server, listed, members, toClient, chosen>>
        /\ IF c = Creator THEN Send(c, Request("NF"), "fields") ELSE Send(c, Request("LI"), "list")
    BY <2>1 DEF Connect, At
  <2>3. CASE c = j
    <3>1. /\ c # Creator /\ Request("LI") \in Requests /\ Request("LI").type = "LI"
          /\ "list" \in ClientPlaces
      BY <1>1, <2>3, Records DEF Kinds, ClientPlaces, Waiting
    <3>2. toServer'[j] = Append(toServer[j], Request("LI")) /\ cpc'[j] = "list"
      BY <1>1, <2>2, <2>3, <3>1, SendPuts
    <3>3. toServer[j] = <<>> /\ toClient[j] = <<>> /\ j \notin members
      BY <1>2, <2>2, <2>3 DEF JoinStage
    <3>4. Len(toServer'[j]) = 1 /\ OnlyTypes(toServer'[j], {"LI"})
      <4>1. toServer[j] \in Seq(Requests) /\ Len(toServer[j]) = 0 /\ OnlyTypes(toServer[j], {"LI"})
        BY <1>1, <3>3 DEF OnlyTypes
      <4>. QED  BY <3>1, <3>2, <4>1, QueueGrows, TypesOfQueue
    <3>5. hpc'[j] = "recv"
      BY <1>1, <2>2, <2>3 DEF SessionTypes
    <3>6. Listing(j)'
      BY <2>2, <3>3, <3>4, <3>5 DEF Listing
    <3>. QED  BY <1>2, <2>2, <3>2, <3>5, <3>6 DEF JoinStage, JoinSent
  <2>4. CASE c # j
    <3>1. toServer'[j] = toServer[j] /\ cpc'[j] = cpc[j] /\ hpc'[j] = hpc[j]
      BY <1>1, <2>2, <2>4 DEF SessionTypes, Send
    <3>. QED  BY <1>2, <2>2, <3>1, StageKept
  <2>. QED  BY <2>3, <2>4
<1>6. CASE \E c \in Clients : HandlerStep(c)
  <2>1. PICK c \in Clients : HandlerStep(c)
    BY <1>6
  <2>2. server = "up"
    BY <2>1 DEF HandlerStep, Answer, ListGames, CreateGame, AssignCreated, ReplyCreated, GameInfo,
         ReplyInfo, JoinGame, ReplyJoin, Notify, SendLeftover, StartGame, SendStart,
         EnterGameplay, Take, At
  <2>3. CASE c = j
    BY <1>1, <1>2, <2>1, <2>2, <2>3, JoinerHandled
  <2>4. CASE c # j
    <3>1. toClient'[j] = toClient[j] \/ j \in members
      BY <1>1, <2>1, <2>4, OthersArePlayers
    <3>2. Aside(c)
      BY <1>1, <2>1, HandlerTypes
    <3>3. chosen' = chosen /\ (listed => listed')
      BY <2>1 DEF HandlerStep, Answer, ListGames, CreateGame, AssignCreated, ReplyCreated, GameInfo,
         ReplyInfo, JoinGame, ReplyJoin, Notify, SendLeftover, StartGame, SendStart, EnterGameplay
    <3>. QED  BY <1>1, <1>2, <2>2, <2>4, <3>1, <3>2, <3>3, StageKept DEF Aside
  <2>. QED  BY <2>3, <2>4
<1>7. CASE ControlC \/ ServerGone \/ UNCHANGED vars \/ \E c \in Clients : UpdatePlayer(c)
  <2>1. UNCHANGED <<handlers, toServer, toClient, chosen>>
    BY <1>7 DEF ControlC, ServerGone, UpdatePlayer, vars
  <2>2. server = "up"
    BY <2>1
  <2>3. \/ cpc' = cpc
        \/ \E c \in Clients : cpc[c] = "racing" /\ cpc' = [cpc EXCEPT ![c] = "updating"]
    BY <1>7, <2>2 DEF ControlC, ServerGone, UpdatePlayer, vars
  <2>4. CASE cpc'[j] = cpc[j]
    BY <1>2, <2>1, <2>2, <2>4, StageKept
  <2>5. CASE cpc[j] = "racing" /\ cpc'[j] = "updating"
    <3>1. Joining(j) /\ (Joining(j) => Joining(j)')
      BY <1>2, <2>1, <2>2, <2>5 DEF JoinStage, JoinSent, Joining, JoinAhead, OnlyTypes
    <3>. QED  BY <1>2, <2>1, <2>2, <2>5, <3>1 DEF JoinStage, JoinSent
  <2>. QED  BY <1>1, <2>3, <2>4, <2>5 DEF SessionTypes
<1>. QED  BY <1>3, <1>4, <1>5, <1>6, <1>7 DEF Next

\* What a step may do to a joiner's requests and to where it is.
LEMMA JoinerMoves ==
  ASSUME SessionTypes, NEW j \in Joiners, [Next]_vars, server = "up"
  PROVE  \/ toServer'[j] = toServer[j] /\ cpc'[j] = cpc[j]
         \/ hpc[j] = "none"
         \/ JoinerStep(j)
         \/ toServer[j] # <<>> /\ toServer'[j] = Tail(toServer[j]) /\ cpc'[j] = cpc[j]
         \/ toServer'[j] = toServer[j] /\ cpc[j] = "racing" /\ cpc'[j] = "updating"
<1>1. /\ j \in Clients /\ j # Creator /\ Creator \in Clients /\ Joiners \subseteq Clients
      /\ cpc \in [Clients -> ClientPlaces] /\ toServer \in [Clients -> Seq(Requests)]
  BY CreatorIsClient DEF SessionTypes
<1>2. ASSUME NEW c \in Clients, c # j,
             toServer' = toServer \/ (\E r : toServer' = [toServer EXCEPT ![c] = Append(@, r)]),
             \E p : cpc' = [cpc EXCEPT ![c] = p]
      PROVE  toServer'[j] = toServer[j] /\ cpc'[j] = cpc[j]
  BY <1>1, <1>2
<1>3. CASE CreatorStep
  <2>1. /\ toServer' = toServer \/ \E r : toServer' = [toServer EXCEPT ![Creator] = Append(@, r)]
        /\ \E p : cpc' = [cpc EXCEPT ![Creator] = p]
    BY <1>3 DEF CreatorStep, ChooseField, Created, WaitForPlayers, ResendUntilStart, Send
  <2>. QED  BY <1>1, <1>2, <2>1
<1>4. ASSUME NEW c \in Joiners, JoinerStep(c), c # j PROVE toServer'[j] = toServer[j] /\ cpc'[j] = cpc[j]
  <2>1. /\ toServer' = toServer \/ \E r : toServer' = [toServer EXCEPT ![c] = Append(@, r)]
        /\ \E p : cpc' = [cpc EXCEPT ![c] = p]
    BY <1>4 DEF JoinerStep, ChooseGame, ShowInfo, Joined, WaitForStart, Send
  <2>. QED  BY <1>1, <1>2, <1>4, <2>1
<1>5. ASSUME NEW c \in Clients, Connect(c), c # j PROVE toServer'[j] = toServer[j] /\ cpc'[j] = cpc[j]
  <2>1. \E r, p : toServer' = [toServer EXCEPT ![c] = Append(@, r)] /\ cpc' = [cpc EXCEPT ![c] = p]
    BY <1>5 DEF Connect, Send
  <2>. QED  BY <1>2, <1>5, <2>1
<1>6. ASSUME NEW c \in Clients, HandlerStep(c)
      PROVE  \/ toServer'[j] = toServer[j] /\ cpc'[j] = cpc[j]
             \/ toServer[j] # <<>> /\ toServer'[j] = Tail(toServer[j]) /\ cpc'[j] = cpc[j]
  <2>1. cpc' = cpc
    BY <1>6, HandlerTypes DEF Aside
  <2>2. toServer' = toServer \/ \E t : Take(c, t)
    BY <1>6 DEF HandlerStep, Answer, ListGames, CreateGame, AssignCreated, ReplyCreated, GameInfo,
       ReplyInfo, JoinGame, ReplyJoin, Notify, SendLeftover, StartGame, SendStart, EnterGameplay
  <2>3. ASSUME NEW t, Take(c, t)
        PROVE  toServer[c] # <<>> /\ toServer'[c] = Tail(toServer[c]) /\ (c # j => toServer'[j] = toServer[j])
    BY <1>1, <2>3, TakeTakes
  <2>. QED  BY <2>1, <2>2, <2>3
<1>7. ASSUME ControlC \/ ServerGone \/ UNCHANGED vars \/ \E c \in Clients : UpdatePlayer(c)
      PROVE  \/ toServer'[j] = toServer[j] /\ cpc'[j] = cpc[j]
             \/ toServer'[j] = toServer[j] /\ cpc[j] = "racing" /\ cpc'[j] = "updating"
  <2>1. toServer' = toServer
    BY <1>7 DEF ControlC, ServerGone, UpdatePlayer, vars
  <2>2. \/ cpc' = cpc
        \/ \E c \in Clients : cpc[c] = "racing" /\ cpc' = [cpc EXCEPT ![c] = "updating"]
    BY <1>7 DEF ControlC, ServerGone, UpdatePlayer, vars, users
  <2>. QED  BY <1>1, <2>1, <2>2
<1>8. ASSUME Connect(j) PROVE hpc[j] = "none"
  BY <1>8 DEF Connect, At
<1>. QED  BY <1>3, <1>4, <1>5, <1>6, <1>7, <1>8 DEF Next

\* Whoever's JG is taken up stays so.
LEMMA TakenStays ==
  ASSUME SessionInv, JoinInv, server = "up", [Next]_vars, NEW j \in JoinTaken
  PROVE  j \in JoinTaken'
<1>1. /\ SessionTypes /\ j \in Joiners /\ JoinStage(j) /\ JoinSent(j)
      /\ toServer[j] \in Seq(Requests) /\ OnlyTypes(toServer[j], {"PI"})
  <2>1. j \in Joiners /\ JoinStage(j) /\ SessionTypes
    BY DEF JoinTaken, JoinInv, SessionInv
  <2>. QED  BY <2>1, JoinTypes, TakenMeansPI
<1>2. ASSUME JoinSent(j)', OnlyTypes(toServer'[j], {"PI"})
      PROVE  j \in JoinTaken'
  BY <1>1, <1>2 DEF JoinTaken, JoinSent, OnlyTypes
<1>3. CASE toServer'[j] = toServer[j] /\ (cpc'[j] = cpc[j] \/ cpc'[j] = "updating")
  BY <1>1, <1>2, <1>3 DEF JoinSent, OnlyTypes
<1>4. hpc[j] # "none"
  BY <1>1 DEF JoinStage, Joining
<1>5. Request("PI") \in Requests /\ Request("PI").type = "PI" /\ {"joined", "racing"} \subseteq ClientPlaces
  BY Records DEF Kinds, ClientPlaces, Waiting
<1>6. CASE JoinerStep(j)
  <2>1. \/ Send(j, Request("PI"), "joined")
        \/ toServer' = toServer /\ cpc' = [cpc EXCEPT ![j] = "racing"]
    BY <1>1, <1>6 DEF JoinerStep, ChooseGame, ShowInfo, Joined, WaitForStart, JoinSent
  <2>2. CASE Send(j, Request("PI"), "joined")
    <3>1. toServer'[j] = Append(toServer[j], Request("PI")) /\ cpc'[j] = "joined"
      BY <1>1, <1>5, <2>2, SendPuts, JoinTypes
    <3>. QED  BY <1>1, <1>2, <1>5, <3>1, TypesOfQueue DEF JoinSent
  <2>3. CASE toServer' = toServer /\ cpc' = [cpc EXCEPT ![j] = "racing"]
    <3>1. cpc'[j] = "racing"
      BY <1>1, <2>3, JoinTypes DEF SessionTypes
    <3>. QED  BY <1>1, <1>2, <2>3, <3>1 DEF JoinSent, OnlyTypes
  <2>. QED  BY <2>1, <2>2, <2>3
<1>7. CASE toServer[j] # <<>> /\ toServer'[j] = Tail(toServer[j]) /\ cpc'[j] = cpc[j]
  BY <1>1, <1>2, <1>5, <1>7, TypesOfQueue DEF JoinSent
<1>. QED  BY <1>1, <1>3, <1>4, <1>6, <1>7, JoinerMoves
================================================================================
