------------------------------ MODULE ChatServer ------------------------------
(***************************************************************************)
(* The server of chat_room: main accepts connections, enters a record in   *)
(* the table clients and starts a thread, which broadcasts what its client *)
(* says to every other record of the table.                                *)
(*                                                                         *)
(* A connection, its record and its thread are one element of Conns, which *)
(* also stands for the uid only main hands out.  The table is touched      *)
(* under clients_mutex only, so adding and removing a record are one step  *)
(* each; a broadcast is one step per slot, since close() is not under the  *)
(* lock.                                                                   *)
(***************************************************************************)
EXTENDS Naturals, FiniteSets

CONSTANTS
  Conns,       \* the connections clients open, each once
  MaxClients,  \* MAX_CLIENTS, the slots of the table
  MaxFd,       \* descriptors are 1..MaxFd
  Talkers,     \* the connections whose client says something after its name...
  MaxLines,    \* ... and how many lines
  Quitters,    \* the connections whose client may exit
  Failing,     \* those for which accept may return -1
  Deaf,        \* those whose client may stop reading, so that a write may block
  None         \* NULL, the owner of a free mutex, the file of a free descriptor

ASSUME ChatAssumption ==
  /\ MaxClients \in Nat \ {0} /\ MaxFd \in Nat \ {0} /\ MaxLines \in Nat
  /\ None \notin Conns /\ IsFiniteSet(Conns)
  /\ Talkers \subseteq Conns /\ Quitters \subseteq Conns /\ Failing \subseteq Conns /\ Deaf \subseteq Conns

VARIABLES
  cli_count,      \* cli_count
  clients,        \* the table
  clients_mutex,  \* the owner of clients_mutex
  mainpc,         \* where main is
  newConn,        \* cli of main
  accepted,       \* the connections accept has returned for
  pc,             \* where the thread of each connection is
  sockfd,         \* the descriptor in each record, 0 for -1
  files,          \* the connection each descriptor refers to
  slot,           \* i of send_message of the thread that holds the mutex, else 1
  leave_flag,     \* leave_flag of each thread
  said,           \* how many messages each connection has had broadcast; the latest of
                  \* them is what its thread has in buffer
  post,           \* the message broadcast last
  heard,          \* the last message written to each connection
  gone            \* the connections whose client has exited

table == <<clients, clients_mutex, slot>>
talk == <<said, post, heard>>
vars == <<cli_count, table, mainpc, newConn, accepted, pc, sockfd, files, leave_flag,
          talk, gone>>

Slots == 1..MaxClients
Fds == 1..MaxFd

\* "none" before the record is made, "made" before its thread runs.
Places == {"none", "made", "start", "name", "lock", "send", "recv", "close", "remove",
           "free", "done"}

TypeOK ==
  /\ cli_count \in Nat
  /\ clients \in [Slots -> Conns \cup {None}]
  /\ clients_mutex \in Conns \cup {None}
  /\ mainpc \in {"accept", "check", "add", "create"}
  /\ newConn \in Conns \cup {None}
  /\ accepted \subseteq Conns /\ gone \subseteq Conns
  /\ pc \in [Conns -> Places]
  /\ sockfd \in [Conns -> Fds \cup {0}]
  /\ files \in [Fds -> Conns \cup {None}]
  /\ slot \in 1..MaxClients + 1
  /\ leave_flag \in [Conns -> BOOLEAN]
  /\ said \in [Conns -> 0..MaxLines + 2]
  /\ post \in (Conns \X Nat) \cup {None}
  /\ heard \in [Conns -> (Conns \X Nat) \cup {None}]

Init ==
  /\ cli_count = 0
  /\ clients = [i \in Slots |-> None] /\ clients_mutex = None /\ slot = 1
  /\ mainpc = "accept" /\ newConn = None /\ accepted = {}
  /\ pc = [c \in Conns |-> "none"]
  /\ sockfd = [c \in Conns |-> 0] /\ files = [f \in Fds |-> None]
  /\ leave_flag = [c \in Conns |-> FALSE]
  /\ said = [c \in Conns |-> 0] /\ post = None /\ heard = [c \in Conns |-> None]
  /\ gone = {}

Goto(c, p) == pc' = [pc EXCEPT ![c] = p]
First(S) == {s \in S : \A r \in S : s <= r}
FreeSlots == {i \in Slots : clients[i] = None}
FreeFds == {f \in Fds : files[f] = None}

-------------------------------------------------------------------------------
(* main. *)

\* The count is read without the lock, before the threads of earlier clients may have
\* raised it, and compared for equality.
Full == cli_count + 1 = MaxClients

\* accept returns the lowest free descriptor, or -1, which main does not test.
Accept(c) ==
  /\ mainpc = "accept" /\ c \notin accepted
  /\ accepted' = accepted \cup {c}
  /\ \/ \E f \in First(FreeFds) :
          sockfd' = [sockfd EXCEPT ![c] = f] /\ files' = [files EXCEPT ![f] = c]
     \/ /\ c \in Failing \/ FreeFds = {}
        /\ UNCHANGED <<sockfd, files>>
  /\ newConn' = c /\ mainpc' = "check"
  /\ UNCHANGED <<cli_count, table, pc, leave_flag, talk, gone>>

\* A client over the limit: its connection is closed at once.
Refuse ==
  /\ mainpc = "check" /\ Full /\ mainpc' = "accept"
  /\ files' = [f \in Fds |-> IF f = sockfd[newConn] THEN None ELSE files[f]]
  /\ newConn' = None
  /\ UNCHANGED <<cli_count, table, accepted, pc, sockfd, leave_flag, talk, gone>>

\* Any other gets a record.
Admit ==
  /\ mainpc = "check" /\ ~ Full /\ mainpc' = "add"
  /\ Goto(newConn, "made")
  /\ UNCHANGED <<cli_count, table, newConn, accepted, sockfd, files, leave_flag, talk, gone>>

\* queue_add: the record goes to the first free slot, and nowhere if there is none.
QueueAdd ==
  /\ mainpc = "add" /\ clients_mutex = None
  /\ \/ \E i \in First(FreeSlots) : clients' = [clients EXCEPT ![i] = newConn]
     \/ FreeSlots = {} /\ UNCHANGED clients
  /\ mainpc' = "create"
  /\ UNCHANGED <<cli_count, clients_mutex, slot, newConn, accepted, pc, sockfd, files,
                 leave_flag, talk, gone>>

CreateThread ==
  /\ mainpc = "create" /\ mainpc' = "accept"
  /\ Goto(newConn, "start") /\ newConn' = None
  /\ UNCHANGED <<cli_count, table, accepted, sockfd, files, leave_flag, talk, gone>>

MainStep == Refuse \/ Admit \/ QueueAdd \/ CreateThread

-------------------------------------------------------------------------------
(* handle_client. *)

CountUp(c) ==
  /\ pc[c] = "start" /\ Goto(c, "name")
  /\ cli_count' = cli_count + 1
  /\ UNCHANGED <<table, mainpc, newConn, accepted, sockfd, files, leave_flag, talk, gone>>

\* The name is good, and "has joined" is to be sent, or bad, and the thread leaves.
ReceiveName(c) ==
  /\ pc[c] = "name" /\ sockfd[c] # 0
  /\ \/ Goto(c, "lock") /\ UNCHANGED leave_flag
     \/ Goto(c, "close") /\ leave_flag' = [leave_flag EXCEPT ![c] = TRUE]
  /\ UNCHANGED <<cli_count, table, mainpc, newConn, accepted, sockfd, files, talk, gone>>

\* A line of the client is to be sent.
ReceiveLine(c) ==
  /\ pc[c] = "recv" /\ c \in Talkers /\ said[c] <= MaxLines
  /\ Goto(c, "lock")
  /\ UNCHANGED <<cli_count, table, mainpc, newConn, accepted, sockfd, files, leave_flag,
                 talk, gone>>

\* recv returns 0 or -1: before the name and at an error the thread leaves silently, at
\* the end of the input "has left" is to be sent first.
ConnectionLost(c) ==
  /\ c \in gone \/ sockfd[c] = 0
  /\ \/ pc[c] \in {"name", "recv"} /\ Goto(c, "close")
     \/ pc[c] = "recv" /\ Goto(c, "lock")
  /\ leave_flag' = [leave_flag EXCEPT ![c] = TRUE]
  /\ UNCHANGED <<cli_count, table, mainpc, newConn, accepted, sockfd, files, talk, gone>>

\* send_message locks the table...
LockUnchecked(c) == clients_mutex' = c
Lock(c) == clients_mutex = None /\ clients_mutex' = c
SendMessage(c) ==
  /\ pc[c] = "lock" /\ Lock(c) /\ Goto(c, "send")
  /\ said' = [said EXCEPT ![c] = @ + 1] /\ post' = <<c, said'[c]>>
  /\ UNCHANGED <<cli_count, clients, slot, mainpc, newConn, accepted, sockfd, files,
                 leave_flag, heard, gone>>

\* ... passes over the empty slots and its own record...
AddressedAll(c, i) == clients[i] # None
Addressed(c, i) == clients[i] \notin {None, c}
Pass(c) ==
  /\ pc[c] = "send" /\ slot \in Slots /\ ~ Addressed(c, slot)
  /\ slot' = slot + 1
  /\ UNCHANGED <<cli_count, clients, clients_mutex, mainpc, newConn, accepted, pc, sockfd,
                 files, leave_flag, talk, gone>>

\* The connection a write to the descriptor of record r goes to.
WrittenTo(r) == IF sockfd[r] = 0 THEN None ELSE files[sockfd[r]]

\* ... writes to the others, which goes to whatever connection the descriptor now
\* refers to; a write to one whose client has exited may still succeed...
Write(c) ==
  /\ pc[c] = "send" /\ slot \in Slots /\ Addressed(c, slot)
  /\ LET p == WrittenTo(clients[slot])
     IN  /\ p # None
         /\ heard' = IF p \in gone THEN heard ELSE [heard EXCEPT ![p] = <<c, said[c]>>]
  /\ slot' = slot + 1
  /\ UNCHANGED <<cli_count, clients, clients_mutex, mainpc, newConn, accepted, pc, sockfd,
                 files, leave_flag, said, post, gone>>

\* Where a thread goes after a broadcast, with the mutex released.
UnlockForgotten == UNCHANGED clients_mutex
Unlock == clients_mutex' = None
LeaveForgotten(c) == "recv"
AfterSend(c) == IF leave_flag[c] THEN "close" ELSE "recv"

\* ... gives up at the first write that fails...
WriteFails(c) ==
  /\ pc[c] = "send" /\ slot \in Slots /\ Addressed(c, slot)
  /\ WrittenTo(clients[slot]) \in gone \cup {None}
  /\ Unlock /\ slot' = 1 /\ Goto(c, AfterSend(c))
  /\ UNCHANGED <<cli_count, clients, mainpc, newConn, accepted, sockfd, files, leave_flag,
                 talk, gone>>

\* ... and ends after the last slot.
EndSend(c) ==
  /\ pc[c] = "send" /\ slot = MaxClients + 1
  /\ Unlock /\ slot' = 1 /\ Goto(c, AfterSend(c))
  /\ UNCHANGED <<cli_count, clients, mainpc, newConn, accepted, sockfd, files, leave_flag,
                 talk, gone>>

\* close, after which queue_remove follows.  The descriptor is free for the next accept
\* while the record is still in the table.
RemoveForgotten(c) == "free"
AfterClose(c) == "remove"
Close(c) ==
  /\ pc[c] = "close" /\ Goto(c, AfterClose(c))
  /\ files' = [f \in Fds |-> IF f = sockfd[c] THEN None ELSE files[f]]
  /\ UNCHANGED <<cli_count, table, mainpc, newConn, accepted, sockfd, leave_flag, talk, gone>>

\* queue_remove: the first record with the uid; a client that found no slot has none.
QueueRemove(c) ==
  /\ pc[c] = "remove" /\ clients_mutex = None /\ Goto(c, "free")
  /\ clients' = [i \in Slots |-> IF clients[i] = c THEN None ELSE clients[i]]
  /\ UNCHANGED <<cli_count, clients_mutex, slot, mainpc, newConn, accepted, sockfd, files,
                 leave_flag, talk, gone>>

\* free, and the count: a record in the table would dangle from here on.
FreeRecord(c) ==
  /\ pc[c] = "free" /\ Goto(c, "done")
  /\ cli_count' = cli_count - 1
  /\ UNCHANGED <<table, mainpc, newConn, accepted, sockfd, files, leave_flag, talk, gone>>

\* A client exits.
ClientExits(c) ==
  /\ c \in (accepted \cap Quitters) \ gone
  /\ gone' = gone \cup {c}
  /\ UNCHANGED <<cli_count, table, mainpc, newConn, accepted, pc, sockfd, files, leave_flag,
                 talk>>

ThreadStep(c) ==
  \/ CountUp(c) \/ ConnectionLost(c) \/ SendMessage(c) \/ Pass(c) \/ Write(c)
  \/ WriteFails(c) \/ EndSend(c) \/ Close(c) \/ QueueRemove(c) \/ FreeRecord(c)

Next ==
  \/ MainStep
  \/ \E c \in Conns :
       \/ Accept(c) \/ ReceiveName(c) \/ ReceiveLine(c) \/ ThreadStep(c)
       \/ ClientExits(c)

Spec == Init /\ [][Next]_vars

\* The steps of a thread that come to an end whatever clients do: all but a write to a
\* client that has stopped reading, which may block.
PromptStep(c) ==
  \/ CountUp(c) \/ ConnectionLost(c) \/ SendMessage(c) \/ Pass(c) \/ WriteFails(c)
  \/ (Write(c) /\ WrittenTo(clients[slot]) \notin Deaf)
  \/ EndSend(c) \/ Close(c) \/ QueueRemove(c) \/ FreeRecord(c)

\* The operating system keeps scheduling main and the threads.  Nothing is assumed of
\* what clients say and when.
FairSpec == Spec /\ WF_vars(MainStep) /\ \A c \in Conns : WF_vars(PromptStep(c))
-------------------------------------------------------------------------------
(* Correctness. *)

\* clients_mutex is held exactly while a thread broadcasts, no record is in two slots,
\* none stays in the table when it is freed, and the descriptor of a record refers to its
\* own connection as long as its thread uses it: no thread reads from or closes a
\* connection that a later accept put on the same descriptor.
RecordsConsistent ==
  /\ \A c \in Conns : clients_mutex = c <=> pc[c] = "send"
  /\ \A i, j \in Slots : clients[i] = clients[j] /\ clients[i] # None => i = j
  /\ \A i \in Slots :
       clients[i] # None => pc[clients[i]] \notin {"none", "free", "done"}
  /\ \A c \in Conns :
       pc[c] \notin {"none", "remove", "free", "done"} /\ sockfd[c] # 0 =>
         files[sockfd[c]] = c

\* Thread c's message has been written to the record in slot i, unless its client has
\* exited or its thread has closed the connection.
Reached(c, i) ==
  LET r == clients[i]
  IN  Addressed(c, i) => heard[r] = <<c, said[c]>> \/ r \in gone \/ pc[r] = "remove"

\* A broadcast that has come to a slot has reached every earlier one with this very
\* message.
BroadcastReaches ==
  \A c \in Conns : pc[c] = "send" => \A i \in 1..slot - 1 : Reached(c, i)

\* A record whose connection takes no more: accept failed for it, or its client has
\* exited, or its thread has closed the connection.
Lost(r) == sockfd[r] = 0 \/ r \in gone \/ pc[r] = "remove"

\* chat_server.c:85: the first write that fails ends the broadcast.  A client of the table
\* that has not got the message when the broadcast ends is in the slot of such a lost
\* record or behind it; nobody is missed because the table, the descriptors or another
\* broadcast changed on the way.
MissedExplained ==
  [][\A c \in Conns : pc[c] = "send" /\ pc'[c] # "send" =>
       \A j \in Slots :
         \/ Reached(c, j)
         \/ \E i \in 1..j : Addressed(c, i) /\ Lost(clients[i])]_vars

\* A client gets back what it said itself only while the table still holds the record of
\* a closed connection whose descriptor the client has inherited.
EchoExplained ==
  [][\A p \in Conns : heard'[p] # heard[p] /\ heard'[p][1] = p =>
       \E i \in Slots :
         clients[i] \notin {None, p} /\ pc[clients[i]] = "remove"
           /\ sockfd[clients[i]] = sockfd[p]]_vars

\* The room the clients see: every client hears messages in the one order in which they
\* were posted, those of one speaker in the order of speaking.
Room == INSTANCE ChatRoom WITH People <- Conns, Nothing <- None
ImplementsRoom == Room!Spec

\* The holder of the mutex writes to a client that has stopped reading.
Blocked ==
  \E c \in Conns :
    /\ pc[c] = "send" /\ slot \in Slots /\ Addressed(c, slot)
    /\ WrittenTo(clients[slot]) \in Deaf \ gone

\* Once the client of an admitted connection has exited, its record is removed and
\* freed, unless a broadcast blocks forever with the mutex held.
LeaverIsRemoved ==
  \A c \in Conns : c \in gone /\ pc[c] # "none" ~> (pc[c] = "done" \/ []Blocked)

\* chat_server.c:211: "Add client to queue."  The record of every client whose thread
\* runs is in the table until the thread takes it out.
ClientIsQueued ==
  \A c \in Conns :
    pc[c] \notin {"none", "made", "free", "done"} => \E i \in Slots : clients[i] = c
===============================================================================
