--------------------------- MODULE ChatServerProofs ---------------------------
(***************************************************************************)
(* Proofs about ChatServer for any number of clients, slots, descriptors   *)
(* and lines: the records, the broadcasts, the room the clients see, and   *)
(* what the limit of clients keeps when main accepts no sooner than it may. *)
(***************************************************************************)
EXTENDS ChatServer, FiniteSetTheorems, TLAPS

\* Where a record is in the table or about to be, where its thread uses the descriptor,
\* and where the thread is counted.
Kept    == Places \ {"none", "free", "done"}
Open    == Kept \ {"remove"}
Counted == {c \in Conns : pc[c] \notin {"none", "made", "start", "done"}}

\* cli_count counts the threads between its increment and its decrement, so that the
\* unsigned counter never goes below zero.
CountInv == cli_count = Cardinality(Counted)

\* What main has in hand.
MainInv ==
  /\ \A c \in Conns : c \notin accepted => pc[c] = "none"
  /\ mainpc = "check" => newConn \in accepted /\ pc[newConn] = "none"
  /\ mainpc \in {"add", "create"} => newConn \in Conns /\ pc[newConn] = "made"
  /\ mainpc = "add" => \A i \in Slots : clients[i] # newConn

\* A thread broadcasts once more after the limit of lines, when it leaves.
SaidInv ==
  \A c \in Conns :
    /\ ~ leave_flag[c] => said[c] <= MaxLines + 1
    /\ pc[c] = "lock" => said[c] <= MaxLines + (IF leave_flag[c] THEN 1 ELSE 0)
    /\ pc[c] \in {"none", "made", "start", "name"} => said[c] = 0 /\ ~ leave_flag[c]
    /\ pc[c] = "recv" => ~ leave_flag[c]

\* The four parts of RecordsConsistent.
MutexInv == \A c \in Conns : clients_mutex = c <=> pc[c] = "send"
SlotInv  == \A i, j \in Slots : clients[i] = clients[j] /\ clients[i] # None => i = j
KeptInv  == \A i \in Slots : clients[i] # None => pc[clients[i]] \in Kept
OpenInv  ==
  \A c \in Conns :
    (pc[c] \in Open \/ (mainpc = "check" /\ newConn = c)) /\ sockfd[c] # 0 =>
      files[sockfd[c]] = c

\* A descriptor refers only to the connection it was made for, whose record has it.
FilesInv ==
  /\ \A f \in Fds : files[f] # None => sockfd[files[f]] = f /\ files[f] \in accepted
  /\ \A c \in Conns \ accepted : sockfd[c] = 0

\* The sender has posted its latest message; a free mutex leaves no broadcast half done.
SendInv ==
  /\ clients_mutex = None => slot = 1
  /\ \A c \in Conns : pc[c] = "send" => post = <<c, said[c]>>

RecordInv == MutexInv /\ SlotInv /\ KeptInv /\ OpenInv /\ FilesInv
ChatInv == CountInv /\ MainInv /\ SaidInv /\ RecordInv /\ SendInv /\ BroadcastReaches

LEMMA NoneIsNoConn == None \notin Conns /\ IsFiniteSet(Conns)
BY ChatAssumption DEF ChatAssumption

LEMMA FirstElement == ASSUME NEW S, NEW x \in First(S) PROVE x \in S
BY DEF First

\* A move of one thread.
LEMMA ChatMoves ==
  ASSUME TypeOK, NEW c \in Conns, NEW p, Goto(c, p)
  PROVE  pc'[c] = p /\ \A d \in Conns \ {c} : pc'[d] = pc[d]
BY DEF TypeOK, Goto

\* As long as a thread is counted the count is not zero.
LEMMA SomeCounted ==
  ASSUME CountInv, NEW c \in Conns, pc[c] = "free" PROVE cli_count # 0
<1>1. c \in Counted /\ IsFiniteSet(Counted)
  BY NoneIsNoConn, FS_Subset DEF Counted
<1>2. Cardinality(Counted) # 0
  BY <1>1, FS_EmptySet
<1>. QED  BY <1>2 DEF CountInv

LEMMA ChatTypeStep == ASSUME TypeOK, ChatInv, [Next]_vars PROVE TypeOK'
<1>. USE NoneIsNoConn DEF TypeOK, table, talk, Slots, Fds
<1>1. CASE QueueAdd
  <2>1. newConn \in Conns
    BY <1>1 DEF QueueAdd, ChatInv, MainInv
  <2>2. clients' \in [Slots -> Conns \cup {None}]
    BY <1>1, <2>1, FirstElement DEF QueueAdd, FreeSlots
  <2>. QED  BY <1>1, <2>2 DEF QueueAdd
<1>2. CASE CreateThread
  <2>1. pc' \in [Conns -> Places]
    BY <1>2 DEF CreateThread, Goto, AfterSend, AfterClose, Places
  <2>. QED  BY <1>2, <2>1 DEF CreateThread
<1>3. CASE Refuse
  BY <1>3 DEF Refuse
<1>3a. CASE Admit
  <2>1. pc' \in [Conns -> Places]
    BY <1>3a DEF Admit, Goto, Places
  <2>. QED  BY <1>3a, <2>1 DEF Admit
<1>4. ASSUME NEW c \in Conns, Accept(c) PROVE TypeOK'
  <2>1. pc' \in [Conns -> Places]
    BY <1>4 DEF Accept, Goto, Places
  <2>2. ASSUME NEW f \in First(FreeFds), sockfd' = [sockfd EXCEPT ![c] = f],
               files' = [files EXCEPT ![f] = c]
        PROVE  sockfd' \in [Conns -> Fds \cup {0}] /\ files' \in [Fds -> Conns \cup {None}]
    <3>1. f \in Fds
      BY FirstElement DEF FreeFds, Fds
    <3>. QED  BY <2>2, <3>1
  <2>3. sockfd' \in [Conns -> Fds \cup {0}] /\ files' \in [Fds -> Conns \cup {None}]
    BY <1>4, <2>2 DEF Accept
  <2>. QED  BY <1>4, <2>1, <2>3 DEF Accept
<1>5. ASSUME NEW c \in Conns, ReceiveName(c) PROVE TypeOK'
  <2>1. Goto(c, "lock") \/ Goto(c, "close")
    BY <1>5 DEF ReceiveName
  <2>2. pc' \in [Conns -> Places]
    BY <2>1 DEF Goto, Places
  <2>. QED  BY <1>5, <2>2 DEF ReceiveName
<1>6. ASSUME NEW c \in Conns, ReceiveLine(c) PROVE TypeOK'
  <2>1. pc' \in [Conns -> Places]
    BY <1>6 DEF ReceiveLine, Goto, AfterSend, AfterClose, Places
  <2>. QED  BY <1>6, <2>1 DEF ReceiveLine
<1>7. ASSUME NEW c \in Conns, CountUp(c) PROVE TypeOK'
  <2>1. pc' \in [Conns -> Places]
    BY <1>7 DEF CountUp, Goto, AfterSend, AfterClose, Places
  <2>. QED  BY <1>7, <2>1 DEF CountUp
<1>8. ASSUME NEW c \in Conns, ConnectionLost(c) PROVE TypeOK'
  <2>1. pc' \in [Conns -> Places]
    BY <1>8 DEF ConnectionLost, Goto, AfterSend, AfterClose, Places
  <2>. QED  BY <1>8, <2>1 DEF ConnectionLost
<1>9. ASSUME NEW c \in Conns, SendMessage(c) PROVE TypeOK'
  <2>1. pc' \in [Conns -> Places]
    BY <1>9 DEF SendMessage, Goto, Places
  <2>0. said[c] \in 0..MaxLines + 2 /\ said[c] <= MaxLines + 1
    BY <1>9, ChatAssumption DEF SendMessage, ChatInv, SaidInv, ChatAssumption
  <2>2. said[c] \in Nat /\ said[c] + 1 \in 0..MaxLines + 2
    BY <2>0, ChatAssumption DEF ChatAssumption
  <2>3. said' \in [Conns -> 0..MaxLines + 2] /\ said'[c] \in Nat
    BY <1>9, <2>2 DEF SendMessage
  <2>4. post' \in Conns \X Nat
    BY <1>9, <2>3 DEF SendMessage
  <2>. QED  BY <1>9, <2>1, <2>3, <2>4 DEF SendMessage, Lock
<1>10. ASSUME NEW c \in Conns, Pass(c) PROVE TypeOK'
  <2>1. slot' \in 1..MaxClients + 1
    BY <1>10, ChatAssumption DEF Pass, ChatAssumption
  <2>. QED  BY <1>10, <2>1 DEF Pass
<1>11. ASSUME NEW c \in Conns, Write(c) PROVE TypeOK'
  <2>1. slot' \in 1..MaxClients + 1
    BY <1>11, ChatAssumption DEF Write, ChatAssumption
  <2>2. clients[slot] \in Conns
    BY <1>11 DEF Write, Addressed
  <2>3. WrittenTo(clients[slot]) \in Conns
    BY <1>11, <2>2 DEF Write, WrittenTo
  <2>4. <<c, said[c]>> \in Conns \X Nat
    BY ChatAssumption DEF ChatAssumption
  <2>5. heard' \in [Conns -> (Conns \X Nat) \cup {None}]
    BY <1>11, <2>3, <2>4 DEF Write
  <2>. QED  BY <1>11, <2>1, <2>5 DEF Write
<1>12. ASSUME NEW c \in Conns, WriteFails(c) PROVE TypeOK'
  <2>1. pc' \in [Conns -> Places]
    BY <1>12 DEF WriteFails, Goto, AfterSend, Places
  <2>2. slot' \in 1..MaxClients + 1
    BY <1>12, ChatAssumption DEF WriteFails, ChatAssumption
  <2>. QED  BY <1>12, <2>1, <2>2 DEF WriteFails, Unlock
<1>13. ASSUME NEW c \in Conns, EndSend(c) PROVE TypeOK'
  <2>1. pc' \in [Conns -> Places]
    BY <1>13 DEF EndSend, Goto, AfterSend, Places
  <2>2. slot' \in 1..MaxClients + 1
    BY <1>13, ChatAssumption DEF EndSend, ChatAssumption
  <2>. QED  BY <1>13, <2>1, <2>2 DEF EndSend, Unlock
<1>14. ASSUME NEW c \in Conns, Close(c) PROVE TypeOK'
  <2>1. pc' \in [Conns -> Places]
    BY <1>14 DEF Close, Goto, AfterSend, AfterClose, Places
  <2>. QED  BY <1>14, <2>1 DEF Close
<1>15. ASSUME NEW c \in Conns, QueueRemove(c) PROVE TypeOK'
  <2>1. pc' \in [Conns -> Places]
    BY <1>15 DEF QueueRemove, Goto, AfterSend, AfterClose, Places
  <2>. QED  BY <1>15, <2>1 DEF QueueRemove
<1>16. ASSUME NEW c \in Conns, FreeRecord(c) PROVE TypeOK'
  <2>1. pc' \in [Conns -> Places]
    BY <1>16 DEF FreeRecord, Goto, Places
  <2>2. cli_count # 0
    BY <1>16, SomeCounted DEF FreeRecord, ChatInv
  <2>3. cli_count - 1 \in Nat
    BY <2>2
  <2>. QED  BY <1>16, <2>1, <2>3 DEF FreeRecord
<1>17. ASSUME NEW c \in Conns, ClientExits(c) PROVE TypeOK'
  BY <1>17 DEF ClientExits
<1>18. CASE UNCHANGED vars
  BY <1>18 DEF vars
<1>. QED
  BY <1>1, <1>2, <1>3, <1>3a, <1>4, <1>5, <1>6, <1>7, <1>8, <1>9,
     <1>10, <1>11, <1>12, <1>13, <1>14, <1>15, <1>16, <1>17, <1>18,
     Zenon DEF Next, MainStep, ThreadStep

-------------------------------------------------------------------------------
(* Every part of the invariant is kept by every step. *)

LEMMA MainInvStep == ASSUME TypeOK, MainInv, KeptInv, [Next]_vars PROVE MainInv'
<1>. USE NoneIsNoConn DEF TypeOK, Goto, MainInv, KeptInv, Kept, table, talk
<1>1. CASE QueueAdd
  BY <1>1 DEF QueueAdd
<1>2. CASE CreateThread
  BY <1>2 DEF CreateThread
<1>3. CASE Refuse
  BY <1>3 DEF Refuse
<1>3a. CASE Admit
  BY <1>3a DEF Admit
<1>4. ASSUME NEW c \in Conns, Accept(c) PROVE MainInv'
  BY <1>4 DEF Accept
<1>5. ASSUME NEW c \in Conns, ReceiveName(c) PROVE MainInv'
  BY <1>5 DEF ReceiveName
<1>6. ASSUME NEW c \in Conns, ReceiveLine(c) PROVE MainInv'
  BY <1>6 DEF ReceiveLine
<1>7. ASSUME NEW c \in Conns, CountUp(c) PROVE MainInv'
  BY <1>7 DEF CountUp
<1>8. ASSUME NEW c \in Conns, ConnectionLost(c) PROVE MainInv'
  BY <1>8 DEF ConnectionLost
<1>9. ASSUME NEW c \in Conns, SendMessage(c) PROVE MainInv'
  BY <1>9 DEF SendMessage
<1>10. ASSUME NEW c \in Conns, Pass(c) PROVE MainInv'
  BY <1>10 DEF Pass
<1>11. ASSUME NEW c \in Conns, Write(c) PROVE MainInv'
  BY <1>11 DEF Write
<1>12. ASSUME NEW c \in Conns, WriteFails(c) PROVE MainInv'
  BY <1>12 DEF WriteFails
<1>13. ASSUME NEW c \in Conns, EndSend(c) PROVE MainInv'
  BY <1>13 DEF EndSend
<1>14. ASSUME NEW c \in Conns, Close(c) PROVE MainInv'
  BY <1>14 DEF Close
<1>15. ASSUME NEW c \in Conns, QueueRemove(c) PROVE MainInv'
  BY <1>15 DEF QueueRemove
<1>16. ASSUME NEW c \in Conns, FreeRecord(c) PROVE MainInv'
  BY <1>16 DEF FreeRecord
<1>17. ASSUME NEW c \in Conns, ClientExits(c) PROVE MainInv'
  BY <1>17 DEF ClientExits
<1>18. CASE UNCHANGED vars
  BY <1>18 DEF vars
<1>. QED
  BY <1>1, <1>2, <1>3, <1>3a, <1>4, <1>5, <1>6, <1>7, <1>8, <1>9,
     <1>10, <1>11, <1>12, <1>13, <1>14, <1>15, <1>16, <1>17, <1>18,
     Zenon DEF Next, MainStep, ThreadStep

LEMMA SaidInvStep == ASSUME TypeOK, SaidInv, MainInv, [Next]_vars PROVE SaidInv'
<1>. USE ChatAssumption DEF ChatAssumption, TypeOK, Goto, SaidInv, MainInv,
      AfterSend, table, talk
<1>1. CASE QueueAdd
  BY <1>1 DEF QueueAdd
<1>2. CASE CreateThread
  BY <1>2 DEF CreateThread
<1>3. CASE Refuse
  BY <1>3 DEF Refuse
<1>3a. CASE Admit
  BY <1>3a DEF Admit
<1>4. ASSUME NEW c \in Conns, Accept(c) PROVE SaidInv'
  BY <1>4 DEF Accept
<1>5. ASSUME NEW c \in Conns, ReceiveName(c) PROVE SaidInv'
  BY <1>5 DEF ReceiveName
<1>6. ASSUME NEW c \in Conns, ReceiveLine(c) PROVE SaidInv'
  BY <1>6 DEF ReceiveLine
<1>7. ASSUME NEW c \in Conns, CountUp(c) PROVE SaidInv'
  BY <1>7 DEF CountUp
<1>8. ASSUME NEW c \in Conns, ConnectionLost(c) PROVE SaidInv'
  BY <1>8 DEF ConnectionLost
<1>9. ASSUME NEW c \in Conns, SendMessage(c) PROVE SaidInv'
  BY <1>9 DEF SendMessage
<1>10. ASSUME NEW c \in Conns, Pass(c) PROVE SaidInv'
  BY <1>10 DEF Pass
<1>11. ASSUME NEW c \in Conns, Write(c) PROVE SaidInv'
  BY <1>11 DEF Write
<1>12. ASSUME NEW c \in Conns, WriteFails(c) PROVE SaidInv'
  BY <1>12 DEF WriteFails
<1>13. ASSUME NEW c \in Conns, EndSend(c) PROVE SaidInv'
  BY <1>13 DEF EndSend
<1>14. ASSUME NEW c \in Conns, Close(c) PROVE SaidInv'
  BY <1>14 DEF Close, AfterClose
<1>15. ASSUME NEW c \in Conns, QueueRemove(c) PROVE SaidInv'
  BY <1>15 DEF QueueRemove
<1>16. ASSUME NEW c \in Conns, FreeRecord(c) PROVE SaidInv'
  BY <1>16 DEF FreeRecord
<1>17. ASSUME NEW c \in Conns, ClientExits(c) PROVE SaidInv'
  BY <1>17 DEF ClientExits
<1>18. CASE UNCHANGED vars
  BY <1>18 DEF vars
<1>. QED
  BY <1>1, <1>2, <1>3, <1>3a, <1>4, <1>5, <1>6, <1>7, <1>8, <1>9,
     <1>10, <1>11, <1>12, <1>13, <1>14, <1>15, <1>16, <1>17, <1>18,
     Zenon DEF Next, MainStep, ThreadStep

LEMMA MutexInvStep == ASSUME TypeOK, MutexInv, MainInv, [Next]_vars PROVE MutexInv'
<1>. USE NoneIsNoConn DEF TypeOK, Goto, MutexInv, MainInv, AfterSend, AfterClose,
      Lock, Unlock, table, talk
<1>1. CASE QueueAdd
  BY <1>1 DEF QueueAdd
<1>2. CASE CreateThread
  BY <1>2 DEF CreateThread
<1>3. CASE Refuse
  BY <1>3 DEF Refuse
<1>3a. CASE Admit
  BY <1>3a DEF Admit
<1>4. ASSUME NEW c \in Conns, Accept(c) PROVE MutexInv'
  BY <1>4 DEF Accept
<1>5. ASSUME NEW c \in Conns, ReceiveName(c) PROVE MutexInv'
  BY <1>5 DEF ReceiveName
<1>6. ASSUME NEW c \in Conns, ReceiveLine(c) PROVE MutexInv'
  BY <1>6 DEF ReceiveLine
<1>7. ASSUME NEW c \in Conns, CountUp(c) PROVE MutexInv'
  BY <1>7 DEF CountUp
<1>8. ASSUME NEW c \in Conns, ConnectionLost(c) PROVE MutexInv'
  BY <1>8 DEF ConnectionLost
<1>9. ASSUME NEW c \in Conns, SendMessage(c) PROVE MutexInv'
  BY <1>9 DEF SendMessage
<1>10. ASSUME NEW c \in Conns, Pass(c) PROVE MutexInv'
  BY <1>10 DEF Pass
<1>11. ASSUME NEW c \in Conns, Write(c) PROVE MutexInv'
  BY <1>11 DEF Write
<1>12. ASSUME NEW c \in Conns, WriteFails(c) PROVE MutexInv'
  BY <1>12 DEF WriteFails
<1>13. ASSUME NEW c \in Conns, EndSend(c) PROVE MutexInv'
  BY <1>13 DEF EndSend
<1>14. ASSUME NEW c \in Conns, Close(c) PROVE MutexInv'
  BY <1>14 DEF Close
<1>15. ASSUME NEW c \in Conns, QueueRemove(c) PROVE MutexInv'
  BY <1>15 DEF QueueRemove
<1>16. ASSUME NEW c \in Conns, FreeRecord(c) PROVE MutexInv'
  BY <1>16 DEF FreeRecord
<1>17. ASSUME NEW c \in Conns, ClientExits(c) PROVE MutexInv'
  BY <1>17 DEF ClientExits
<1>18. CASE UNCHANGED vars
  BY <1>18 DEF vars
<1>. QED
  BY <1>1, <1>2, <1>3, <1>3a, <1>4, <1>5, <1>6, <1>7, <1>8, <1>9,
     <1>10, <1>11, <1>12, <1>13, <1>14, <1>15, <1>16, <1>17, <1>18,
     Zenon DEF Next, MainStep, ThreadStep

\* Only queue_add and queue_remove change the table, only accept and close descriptors,
\* and only a write that succeeds lets somebody hear something.
LEMMA Writers ==
  ASSUME [Next]_vars
  PROVE  /\ QueueAdd \/ (\E c \in Conns : QueueRemove(c)) \/ UNCHANGED clients
         /\ Refuse \/ (\E c \in Conns : Accept(c) \/ Close(c)) \/ UNCHANGED <<sockfd, files>>
         /\ accepted \subseteq accepted'
         /\ (\E c \in Conns : Write(c)) \/ UNCHANGED heard
         /\ (\E c \in Conns : SendMessage(c)) \/ UNCHANGED <<said, post>>
BY DEF vars, table, talk, Next, MainStep, ThreadStep, QueueAdd, CreateThread, Refuse,
   Admit, Accept, ReceiveName, ReceiveLine, CountUp, ConnectionLost, SendMessage, Pass, Write,
   WriteFails, EndSend, Close, QueueRemove, FreeRecord, ClientExits

LEMMA SlotInvStep == ASSUME TypeOK, SlotInv, MainInv, [Next]_vars PROVE SlotInv'
<1>. USE NoneIsNoConn DEF TypeOK, SlotInv, MainInv
<1>1. CASE QueueAdd
  BY <1>1 DEF QueueAdd
<1>2. ASSUME NEW c \in Conns, QueueRemove(c) PROVE SlotInv'
  BY <1>2 DEF QueueRemove
<1>3. CASE UNCHANGED clients
  BY <1>3
<1>. QED  BY <1>1, <1>2, <1>3, Writers

LEMMA FilesInvStep == ASSUME TypeOK, FilesInv, MainInv, OpenInv, [Next]_vars PROVE FilesInv'
<1>. USE NoneIsNoConn DEF TypeOK, FilesInv, Fds
<1>1. ASSUME NEW c \in Conns, Accept(c) PROVE FilesInv'
  <2>1. CASE UNCHANGED <<sockfd, files>>
    BY <1>1, <2>1 DEF Accept
  <2>2. ASSUME NEW f \in First(FreeFds), sockfd' = [sockfd EXCEPT ![c] = f],
               files' = [files EXCEPT ![f] = c]
        PROVE  FilesInv'
    <3>1. f \in Fds /\ files[f] = None
      BY FirstElement DEF FreeFds
    <3>2. \A g \in Fds : files[g] # c
      BY <1>1 DEF Accept, MainInv, FilesInv
    <3>. QED  BY <1>1, <2>2, <3>1, <3>2 DEF Accept
  <2>. QED  BY <1>1, <2>1, <2>2 DEF Accept
<1>2. ASSUME NEW c \in Conns, Close(c) PROVE FilesInv'
  BY <1>2 DEF Close
<1>3. CASE Refuse
  BY <1>3 DEF Refuse
<1>4. CASE UNCHANGED <<sockfd, files>>
  BY <1>4, Writers
<1>. QED  BY <1>1, <1>2, <1>3, <1>4, Writers

LEMMA KeptInvStep == ASSUME TypeOK, KeptInv, MainInv, [Next]_vars PROVE KeptInv'
<1>. USE NoneIsNoConn DEF TypeOK, Goto, KeptInv, Kept, Places, MainInv, AfterSend,
      AfterClose, table, talk
<1>1. CASE QueueAdd
  BY <1>1 DEF QueueAdd
<1>2. CASE CreateThread
  BY <1>2 DEF CreateThread
<1>3. CASE Refuse
  BY <1>3 DEF Refuse
<1>3a. CASE Admit
  BY <1>3a DEF Admit
<1>4. ASSUME NEW c \in Conns, Accept(c) PROVE KeptInv'
  BY <1>4 DEF Accept
<1>5. ASSUME NEW c \in Conns, ReceiveName(c) PROVE KeptInv'
  BY <1>5 DEF ReceiveName
<1>6. ASSUME NEW c \in Conns, ReceiveLine(c) PROVE KeptInv'
  BY <1>6 DEF ReceiveLine
<1>7. ASSUME NEW c \in Conns, CountUp(c) PROVE KeptInv'
  BY <1>7 DEF CountUp
<1>8. ASSUME NEW c \in Conns, ConnectionLost(c) PROVE KeptInv'
  BY <1>8 DEF ConnectionLost
<1>9. ASSUME NEW c \in Conns, SendMessage(c) PROVE KeptInv'
  BY <1>9 DEF SendMessage
<1>10. ASSUME NEW c \in Conns, Pass(c) PROVE KeptInv'
  BY <1>10 DEF Pass
<1>11. ASSUME NEW c \in Conns, Write(c) PROVE KeptInv'
  BY <1>11 DEF Write
<1>12. ASSUME NEW c \in Conns, WriteFails(c) PROVE KeptInv'
  BY <1>12 DEF WriteFails
<1>13. ASSUME NEW c \in Conns, EndSend(c) PROVE KeptInv'
  BY <1>13 DEF EndSend
<1>14. ASSUME NEW c \in Conns, Close(c) PROVE KeptInv'
  BY <1>14 DEF Close
<1>15. ASSUME NEW c \in Conns, QueueRemove(c) PROVE KeptInv'
  BY <1>15 DEF QueueRemove
<1>16. ASSUME NEW c \in Conns, FreeRecord(c) PROVE KeptInv'
  BY <1>16 DEF FreeRecord
<1>17. ASSUME NEW c \in Conns, ClientExits(c) PROVE KeptInv'
  BY <1>17 DEF ClientExits
<1>18. CASE UNCHANGED vars
  BY <1>18 DEF vars
<1>. QED
  BY <1>1, <1>2, <1>3, <1>3a, <1>4, <1>5, <1>6, <1>7, <1>8, <1>9,
     <1>10, <1>11, <1>12, <1>13, <1>14, <1>15, <1>16, <1>17, <1>18,
     Zenon DEF Next, MainStep, ThreadStep

LEMMA OpenInvStep == ASSUME TypeOK, OpenInv, MainInv, FilesInv, [Next]_vars PROVE OpenInv'
<1>. USE NoneIsNoConn DEF TypeOK, Goto, OpenInv, Open, Kept, Places, MainInv,
      AfterSend, AfterClose, table, talk
<1>1. CASE QueueAdd
  BY <1>1 DEF QueueAdd
<1>2. CASE CreateThread
  BY <1>2 DEF CreateThread
<1>3. CASE Refuse
  BY <1>3 DEF Refuse
<1>3a. CASE Admit
  BY <1>3a DEF Admit
<1>4. ASSUME NEW c \in Conns, Accept(c) PROVE OpenInv'
  <2>1. CASE UNCHANGED <<sockfd, files>>
    <3>1. sockfd[c] # 0 => files[sockfd[c]] = c
      BY <1>4 DEF Accept, FilesInv
    <3>. QED  BY <1>4, <2>1, <3>1 DEF Accept
  <2>2. ASSUME NEW f \in First(FreeFds), sockfd' = [sockfd EXCEPT ![c] = f],
               files' = [files EXCEPT ![f] = c]
        PROVE  OpenInv'
    <3>1. f \in Fds /\ files[f] = None
      BY FirstElement DEF FreeFds
    <3>. QED  BY <1>4, <2>2, <3>1 DEF Accept, Fds
  <2>. QED  BY <1>4, <2>1, <2>2 DEF Accept
<1>5. ASSUME NEW c \in Conns, ReceiveName(c) PROVE OpenInv'
  BY <1>5 DEF ReceiveName
<1>6. ASSUME NEW c \in Conns, ReceiveLine(c) PROVE OpenInv'
  BY <1>6 DEF ReceiveLine
<1>7. ASSUME NEW c \in Conns, CountUp(c) PROVE OpenInv'
  BY <1>7 DEF CountUp
<1>8. ASSUME NEW c \in Conns, ConnectionLost(c) PROVE OpenInv'
  BY <1>8 DEF ConnectionLost
<1>9. ASSUME NEW c \in Conns, SendMessage(c) PROVE OpenInv'
  BY <1>9 DEF SendMessage
<1>10. ASSUME NEW c \in Conns, Pass(c) PROVE OpenInv'
  BY <1>10 DEF Pass
<1>11. ASSUME NEW c \in Conns, Write(c) PROVE OpenInv'
  BY <1>11 DEF Write
<1>12. ASSUME NEW c \in Conns, WriteFails(c) PROVE OpenInv'
  BY <1>12 DEF WriteFails
<1>13. ASSUME NEW c \in Conns, EndSend(c) PROVE OpenInv'
  BY <1>13 DEF EndSend
<1>14. ASSUME NEW c \in Conns, Close(c) PROVE OpenInv'
  BY <1>14 DEF Close
<1>15. ASSUME NEW c \in Conns, QueueRemove(c) PROVE OpenInv'
  BY <1>15 DEF QueueRemove
<1>16. ASSUME NEW c \in Conns, FreeRecord(c) PROVE OpenInv'
  BY <1>16 DEF FreeRecord
<1>17. ASSUME NEW c \in Conns, ClientExits(c) PROVE OpenInv'
  BY <1>17 DEF ClientExits
<1>18. CASE UNCHANGED vars
  BY <1>18 DEF vars
<1>. QED
  BY <1>1, <1>2, <1>3, <1>3a, <1>4, <1>5, <1>6, <1>7, <1>8, <1>9,
     <1>10, <1>11, <1>12, <1>13, <1>14, <1>15, <1>16, <1>17, <1>18,
     Zenon DEF Next, MainStep, ThreadStep

LEMMA SendInvStep == ASSUME TypeOK, SendInv, MutexInv, MainInv, [Next]_vars PROVE SendInv'
<1>. USE NoneIsNoConn DEF TypeOK, Goto, SendInv, MutexInv, MainInv, AfterSend,
      AfterClose, Lock, Unlock, table, talk
<1>1. CASE QueueAdd
  BY <1>1 DEF QueueAdd
<1>2. CASE CreateThread
  BY <1>2 DEF CreateThread
<1>3. CASE Refuse
  BY <1>3 DEF Refuse
<1>3a. CASE Admit
  BY <1>3a DEF Admit
<1>4. ASSUME NEW c \in Conns, Accept(c) PROVE SendInv'
  BY <1>4 DEF Accept
<1>5. ASSUME NEW c \in Conns, ReceiveName(c) PROVE SendInv'
  BY <1>5 DEF ReceiveName
<1>6. ASSUME NEW c \in Conns, ReceiveLine(c) PROVE SendInv'
  BY <1>6 DEF ReceiveLine
<1>7. ASSUME NEW c \in Conns, CountUp(c) PROVE SendInv'
  BY <1>7 DEF CountUp
<1>8. ASSUME NEW c \in Conns, ConnectionLost(c) PROVE SendInv'
  BY <1>8 DEF ConnectionLost
<1>9. ASSUME NEW c \in Conns, SendMessage(c) PROVE SendInv'
  BY <1>9 DEF SendMessage
<1>10. ASSUME NEW c \in Conns, Pass(c) PROVE SendInv'
  BY <1>10 DEF Pass
<1>11. ASSUME NEW c \in Conns, Write(c) PROVE SendInv'
  BY <1>11 DEF Write
<1>12. ASSUME NEW c \in Conns, WriteFails(c) PROVE SendInv'
  BY <1>12 DEF WriteFails
<1>13. ASSUME NEW c \in Conns, EndSend(c) PROVE SendInv'
  BY <1>13 DEF EndSend
<1>14. ASSUME NEW c \in Conns, Close(c) PROVE SendInv'
  BY <1>14 DEF Close
<1>15. ASSUME NEW c \in Conns, QueueRemove(c) PROVE SendInv'
  BY <1>15 DEF QueueRemove
<1>16. ASSUME NEW c \in Conns, FreeRecord(c) PROVE SendInv'
  BY <1>16 DEF FreeRecord
<1>17. ASSUME NEW c \in Conns, ClientExits(c) PROVE SendInv'
  BY <1>17 DEF ClientExits
<1>18. CASE UNCHANGED vars
  BY <1>18 DEF vars
<1>. QED
  BY <1>1, <1>2, <1>3, <1>3a, <1>4, <1>5, <1>6, <1>7, <1>8, <1>9,
     <1>10, <1>11, <1>12, <1>13, <1>14, <1>15, <1>16, <1>17, <1>18,
     Zenon DEF Next, MainStep, ThreadStep

LEMMA CountInvStep == ASSUME TypeOK, CountInv, MainInv, [Next]_vars PROVE CountInv'
<1>. USE NoneIsNoConn DEF TypeOK, Goto, CountInv, Counted, MainInv, AfterSend,
      AfterClose, table, talk
<1>1. CASE QueueAdd
  BY <1>1 DEF QueueAdd
<1>2. CASE CreateThread
  BY <1>2 DEF CreateThread
<1>3. CASE Refuse
  BY <1>3 DEF Refuse
<1>3a. CASE Admit
  BY <1>3a DEF Admit
<1>4. ASSUME NEW c \in Conns, Accept(c) PROVE CountInv'
  BY <1>4 DEF Accept
<1>5. ASSUME NEW c \in Conns, ReceiveName(c) PROVE CountInv'
  BY <1>5 DEF ReceiveName
<1>6. ASSUME NEW c \in Conns, ReceiveLine(c) PROVE CountInv'
  BY <1>6 DEF ReceiveLine
<1>7. ASSUME NEW c \in Conns, CountUp(c) PROVE CountInv'
  <2>1. Counted' = Counted \cup {c} /\ c \notin Counted
    BY <1>7, ChatMoves DEF CountUp
  <2>2. IsFiniteSet(Counted)
    BY FS_Subset DEF Counted
  <2>. QED  BY <1>7, <2>1, <2>2, FS_AddElement DEF CountUp
<1>8. ASSUME NEW c \in Conns, ConnectionLost(c) PROVE CountInv'
  BY <1>8 DEF ConnectionLost
<1>9. ASSUME NEW c \in Conns, SendMessage(c) PROVE CountInv'
  BY <1>9 DEF SendMessage
<1>10. ASSUME NEW c \in Conns, Pass(c) PROVE CountInv'
  BY <1>10 DEF Pass
<1>11. ASSUME NEW c \in Conns, Write(c) PROVE CountInv'
  BY <1>11 DEF Write
<1>12. ASSUME NEW c \in Conns, WriteFails(c) PROVE CountInv'
  BY <1>12 DEF WriteFails
<1>13. ASSUME NEW c \in Conns, EndSend(c) PROVE CountInv'
  BY <1>13 DEF EndSend
<1>14. ASSUME NEW c \in Conns, Close(c) PROVE CountInv'
  BY <1>14 DEF Close
<1>15. ASSUME NEW c \in Conns, QueueRemove(c) PROVE CountInv'
  BY <1>15 DEF QueueRemove
<1>16. ASSUME NEW c \in Conns, FreeRecord(c) PROVE CountInv'
  <2>1. Counted' = Counted \ {c} /\ c \in Counted
    BY <1>16, ChatMoves DEF FreeRecord
  <2>2. IsFiniteSet(Counted)
    BY FS_Subset DEF Counted
  <2>3. Cardinality(Counted \ {c}) = Cardinality(Counted) - 1
    <3>. HIDE DEF Counted
    <3>. QED  BY <2>1, <2>2, FS_RemoveElement
  <2>. QED  BY <1>16, <2>1, <2>3 DEF FreeRecord
<1>17. ASSUME NEW c \in Conns, ClientExits(c) PROVE CountInv'
  BY <1>17 DEF ClientExits
<1>18. CASE UNCHANGED vars
  BY <1>18 DEF vars
<1>. QED
  BY <1>1, <1>2, <1>3, <1>3a, <1>4, <1>5, <1>6, <1>7, <1>8, <1>9,
     <1>10, <1>11, <1>12, <1>13, <1>14, <1>15, <1>16, <1>17, <1>18,
     Zenon DEF Next, MainStep, ThreadStep

-------------------------------------------------------------------------------
(* Broadcasts. *)

\* What a step does to a thread that sends after it: the thread has just locked the
\* table, or it goes on in an unchanged table, in which no record disappears.
Sending(c) ==
  \/ SendMessage(c)
  \/ /\ pc[c] = "send" /\ UNCHANGED <<clients, said, post>>
     /\ gone \subseteq gone'
     /\ UNCHANGED <<slot, heard>> \/ Pass(c) \/ Write(c)
     /\ \A r \in Conns : pc[r] = "remove" => pc'[r] = "remove"

LEMMA WhileSending ==
  ASSUME TypeOK, MutexInv, MainInv, NEW c \in Conns, pc'[c] = "send", [Next]_vars
  PROVE  Sending(c)
<1>. USE NoneIsNoConn DEF TypeOK, Goto, MutexInv, MainInv, AfterSend, AfterClose,
      Lock, Sending, table, talk
<1>1. CASE QueueAdd
  BY <1>1 DEF QueueAdd
<1>2. CASE CreateThread
  BY <1>2 DEF CreateThread
<1>3. CASE Refuse
  BY <1>3 DEF Refuse
<1>3a. CASE Admit
  BY <1>3a DEF Admit
<1>4. ASSUME NEW d \in Conns, Accept(d) PROVE Sending(c)
  BY <1>4 DEF Accept
<1>5. ASSUME NEW d \in Conns, ReceiveName(d) PROVE Sending(c)
  BY <1>5 DEF ReceiveName
<1>6. ASSUME NEW d \in Conns, ReceiveLine(d) PROVE Sending(c)
  BY <1>6 DEF ReceiveLine
<1>7. ASSUME NEW d \in Conns, CountUp(d) PROVE Sending(c)
  BY <1>7 DEF CountUp
<1>8. ASSUME NEW d \in Conns, ConnectionLost(d) PROVE Sending(c)
  BY <1>8 DEF ConnectionLost
<1>9. ASSUME NEW d \in Conns, SendMessage(d) PROVE Sending(c)
  BY <1>9 DEF SendMessage
<1>10. ASSUME NEW d \in Conns, Pass(d) PROVE Sending(c)
  BY <1>10 DEF Pass
<1>11. ASSUME NEW d \in Conns, Write(d) PROVE Sending(c)
  BY <1>11 DEF Write
<1>12. ASSUME NEW d \in Conns, WriteFails(d) PROVE Sending(c)
  BY <1>12 DEF WriteFails
<1>13. ASSUME NEW d \in Conns, EndSend(d) PROVE Sending(c)
  BY <1>13 DEF EndSend
<1>14. ASSUME NEW d \in Conns, Close(d) PROVE Sending(c)
  BY <1>14 DEF Close
<1>15. ASSUME NEW d \in Conns, QueueRemove(d) PROVE Sending(c)
  BY <1>15 DEF QueueRemove
<1>16. ASSUME NEW d \in Conns, FreeRecord(d) PROVE Sending(c)
  BY <1>16 DEF FreeRecord
<1>17. ASSUME NEW d \in Conns, ClientExits(d) PROVE Sending(c)
  BY <1>17 DEF ClientExits
<1>18. CASE UNCHANGED vars
  BY <1>18 DEF vars
<1>. QED
  BY <1>1, <1>2, <1>3, <1>3a, <1>4, <1>5, <1>6, <1>7, <1>8, <1>9,
     <1>10, <1>11, <1>12, <1>13, <1>14, <1>15, <1>16, <1>17, <1>18,
     Zenon DEF Next, MainStep, ThreadStep

\* A write to the record in a slot reaches its client, unless the descriptor now refers
\* to another connection, and then the record is about to be removed.
LEMMA WriteReaches ==
  ASSUME TypeOK, KeptInv, OpenInv, NEW c \in Conns, Write(c),
         NEW i, i = slot
  PROVE  Reached(c, i)'
<1>. DEFINE r == clients[i]
            p == WrittenTo(r)
<1>1. i \in Slots /\ r \in Conns /\ p # None
  BY NoneIsNoConn DEF TypeOK, Write, Addressed
<1>2. sockfd[r] # 0 /\ p = files[sockfd[r]]
  BY <1>1 DEF WrittenTo
<1>3. pc[r] = "remove" \/ p = r
  BY <1>1, <1>2, NoneIsNoConn DEF KeptInv, OpenInv, Open, Kept
<1>4. p = r => heard'[r] = <<c, said[c]>> \/ r \in gone
  BY <1>1 DEF Write, TypeOK
<1>. QED  BY <1>1, <1>3, <1>4 DEF Write, Reached, Addressed

LEMMA BroadcastStep ==
  ASSUME TypeOK, MainInv, MutexInv, KeptInv, OpenInv, SendInv, BroadcastReaches, [Next]_vars
  PROVE  BroadcastReaches'
<1>. SUFFICES ASSUME NEW c \in Conns, pc'[c] = "send", NEW i \in 1..slot' - 1
              PROVE  Reached(c, i)'
  BY DEF BroadcastReaches
<1>1. Sending(c)
  BY WhileSending
<1>2. CASE SendMessage(c)
  BY <1>2, NoneIsNoConn DEF SendMessage, Lock, SendInv
<1>3. CASE pc[c] = "send" /\ ~ SendMessage(c)
  <2>1. CASE i \in 1..slot - 1
    <3>1. Reached(c, i)
      BY <1>3, <2>1 DEF BroadcastReaches
    <3>2. Addressed(c, i)' = Addressed(c, i) /\ clients'[i] = clients[i]
      BY <1>1, <1>3 DEF Sending, Addressed
    <3>3. clients[i] \in Conns \/ ~ Addressed(c, i)
      BY <2>1, ChatAssumption DEF TypeOK, Addressed, Slots, ChatAssumption
    <3>4. heard'[clients[i]] \in {heard[clients[i]], <<c, said[c]>>} \/ ~ Addressed(c, i)
      BY <1>1, <1>3, <3>3 DEF Sending, TypeOK, Pass, Write, talk
    <3>. QED  BY <1>1, <1>3, <3>1, <3>2, <3>3, <3>4 DEF Sending, Reached
  <2>2. CASE i \notin 1..slot - 1
    <3>1. (Pass(c) \/ Write(c)) /\ i = slot
      BY <1>1, <1>3, <2>2 DEF Sending, TypeOK, Pass, Write
    <3>2. CASE Pass(c)
      BY <3>1, <3>2 DEF Pass, Reached, Addressed
    <3>. QED  BY <3>1, <3>2, WriteReaches
  <2>. QED  BY <2>1, <2>2
<1>. QED  BY <1>1, <1>2, <1>3 DEF Sending

\* A write fails only at a record whose connection is lost.
LEMMA FailedWriteIsLost ==
  ASSUME TypeOK, KeptInv, OpenInv, NEW c \in Conns, WriteFails(c)
  PROVE  Lost(clients[slot])
<1>. DEFINE r == clients[slot]
            p == WrittenTo(r)
<1>1. r \in Conns /\ pc[r] \in Kept /\ p \in gone \cup {None}
  BY NoneIsNoConn DEF TypeOK, WriteFails, Addressed, KeptInv
<1>2. CASE sockfd[r] = 0
  BY <1>2 DEF Lost
<1>3. CASE sockfd[r] # 0 /\ pc[r] # "remove"
  <2>1. p = r
    BY <1>1, <1>3 DEF OpenInv, Open, WrittenTo
  <2>. QED  BY <1>1, <2>1, NoneIsNoConn DEF Lost
<1>4. CASE pc[r] = "remove"
  BY <1>4 DEF Lost
<1>. QED  BY <1>2, <1>3, <1>4

\* A thread stops sending by a failed write or after the last slot.
LEMMA EndOfSending ==
  ASSUME TypeOK, MainInv, NEW c \in Conns, pc[c] = "send", pc'[c] # "send", [Next]_vars
  PROVE  WriteFails(c) \/ EndSend(c)
BY DEF TypeOK, MainInv, Goto, AfterSend, AfterClose, vars, Next, MainStep, ThreadStep,
   QueueAdd, CreateThread, Refuse, Admit, Accept, ReceiveName, ReceiveLine, CountUp,
   ConnectionLost, SendMessage, Pass, Write, WriteFails, EndSend, Close, QueueRemove,
   FreeRecord, ClientExits

-------------------------------------------------------------------------------
(* The theorems. *)

LEMMA ChatInductive == Spec => [](TypeOK /\ ChatInv)
<1>1. Init => TypeOK /\ ChatInv
  <2>. SUFFICES ASSUME Init PROVE TypeOK /\ ChatInv
    OBVIOUS
  <2>1. TypeOK
    BY ChatAssumption DEF Init, TypeOK, Places, Slots, Fds, ChatAssumption
  <2>2. CountInv
    <3>1. Counted = {}
      BY DEF Init, Counted
    <3>. QED  BY <3>1, FS_EmptySet DEF Init, CountInv
  <2>3. MainInv /\ SaidInv /\ RecordInv
    BY NoneIsNoConn, ChatAssumption DEF Init, MainInv, SaidInv, RecordInv, MutexInv, SlotInv,
       KeptInv, OpenInv, FilesInv, Open, Kept, ChatAssumption
  <2>4. SendInv /\ BroadcastReaches
    BY DEF Init, SendInv, BroadcastReaches
  <2>. QED  BY <2>1, <2>2, <2>3, <2>4 DEF ChatInv
<1>2. TypeOK /\ ChatInv /\ [Next]_vars => TypeOK' /\ ChatInv'
  <2>. SUFFICES ASSUME TypeOK, ChatInv, [Next]_vars PROVE TypeOK' /\ ChatInv'
    OBVIOUS
  <2>1. CountInv /\ MainInv /\ SaidInv /\ RecordInv /\ SendInv /\ BroadcastReaches
    BY DEF ChatInv
  <2>2. MutexInv /\ SlotInv /\ KeptInv /\ OpenInv /\ FilesInv
    BY <2>1 DEF RecordInv
  <2>3. RecordInv'
    BY <2>1, <2>2, MutexInvStep, SlotInvStep, KeptInvStep, OpenInvStep, FilesInvStep
       DEF RecordInv
  <2>. QED  BY <2>1, <2>2, <2>3, ChatTypeStep, CountInvStep, MainInvStep, SaidInvStep,
                SendInvStep, BroadcastStep DEF ChatInv
<1>. QED  BY <1>1, <1>2, PTL DEF Spec

\* Every variable of the chat server keeps its type: the unsigned count of clients never
\* goes below zero, and a broadcast never runs past the table.
THEOREM ChatTypeCorrect == Spec => []TypeOK
BY ChatInductive, PTL

\* For any number of clients, slots and descriptors: nothing freed stays in the table,
\* and no thread uses a descriptor that has come to another connection.
THEOREM RecordsAreConsistent == Spec => []RecordsConsistent
<1>1. TypeOK /\ ChatInv => RecordsConsistent
  <2>. SUFFICES ASSUME TypeOK, ChatInv PROVE RecordsConsistent
    OBVIOUS
  <2>. QED  BY DEF ChatInv, RecordInv, MutexInv, SlotInv, KeptInv, OpenInv, RecordsConsistent,
               Open, Kept, TypeOK
<1>. QED  BY <1>1, ChatInductive, PTL

\* A client of the table that has not got a message when its broadcast ends sits in or
\* behind the slot of a record whose connection is lost, however the closing and accepting
\* of connections interleave with the writes.
THEOREM MissedIsExplained == Spec => MissedExplained
<1>. DEFINE Explained(c) ==
              \A j \in Slots :
                \/ Reached(c, j)
                \/ \E i \in 1..j : Addressed(c, i) /\ Lost(clients[i])
            Ends == \A c \in Conns : pc[c] = "send" /\ pc'[c] # "send" => Explained(c)
<1>1. TypeOK /\ ChatInv /\ [Next]_vars => [Ends]_vars
  <2>. SUFFICES ASSUME TypeOK, ChatInv, [Next]_vars, NEW c \in Conns, pc[c] = "send",
                       pc'[c] # "send", NEW j \in Slots
                PROVE  \/ Reached(c, j)
                       \/ \E i \in 1..j : Addressed(c, i) /\ Lost(clients[i])
    OBVIOUS
  <2>1. WriteFails(c) \/ EndSend(c)
    BY EndOfSending DEF ChatInv
  <2>2. j \in 1..slot - 1 => Reached(c, j)
    BY DEF ChatInv, BroadcastReaches
  <2>3. j \in 1..MaxClients /\ slot \in 1..MaxClients + 1
    BY DEF Slots, TypeOK
  <2>4. CASE EndSend(c)
    <3>1. j \in 1..slot - 1
      BY <2>3, <2>4, ChatAssumption DEF EndSend, ChatAssumption
    <3>. QED  BY <2>2, <3>1
  <2>5. CASE WriteFails(c)
    <3>1. j \in 1..slot - 1 \/ slot \in 1..j
      BY <2>3, ChatAssumption DEF ChatAssumption
    <3>2. Addressed(c, slot) /\ Lost(clients[slot])
      BY <2>5, FailedWriteIsLost DEF ChatInv, RecordInv, WriteFails
    <3>. QED  BY <2>2, <3>1, <3>2
  <2>. QED  BY <2>1, <2>4, <2>5
<1>. QED  BY <1>1, ChatInductive, PTL DEF Spec, MissedExplained

\* A client hears itself only through the descriptor of a record that is still to be
\* removed.
THEOREM EchoIsExplained == Spec => EchoExplained
<1>. DEFINE Inherits(p) ==
       \E i \in Slots : clients[i] \notin {None, p} /\ pc[clients[i]] = "remove"
                         /\ sockfd[clients[i]] = sockfd[p]
            Echo == \A p \in Conns : heard'[p] # heard[p] /\ heard'[p][1] = p => Inherits(p)
<1>1. TypeOK /\ ChatInv /\ [Next]_vars => [Echo]_vars
  <2>. SUFFICES ASSUME TypeOK, ChatInv, [Next]_vars, NEW p \in Conns,
                       heard'[p] # heard[p], heard'[p][1] = p
                PROVE  Inherits(p)
    OBVIOUS
  <2>1. PICK c \in Conns : Write(c)
    BY Writers
  <2>2. slot \in Slots /\ clients[slot] \in Conns \ {c}
    BY <2>1 DEF Write, Addressed, TypeOK
  <2>3. p = WrittenTo(clients[slot]) /\ p = c
    BY <2>1 DEF Write, TypeOK
  <2>4. sockfd[clients[slot]] \in Fds /\ files[sockfd[clients[slot]]] = c
    BY <2>2, <2>3, NoneIsNoConn DEF WrittenTo, TypeOK
  <2>5. pc[clients[slot]] = "remove"
    BY <2>2, <2>4, NoneIsNoConn DEF ChatInv, RecordInv, KeptInv, OpenInv, Open, Kept, Fds
  <2>6. sockfd[c] = sockfd[clients[slot]]
    BY <2>4, NoneIsNoConn DEF ChatInv, RecordInv, FilesInv
  <2>. QED  BY <2>2, <2>3, <2>5, <2>6, NoneIsNoConn
<1>. QED  BY <1>1, ChatInductive, PTL DEF Spec, EchoExplained

\* The server implements the abstract room: one order of messages for all clients.
THEOREM ServerImplementsRoom == Spec => ImplementsRoom
<1>1. Init => Room!Init
  BY DEF Init, Room!Init
<1>2. TypeOK /\ ChatInv /\ [Next]_vars => [Room!Next]_<<said, post, heard>>
  <2>. SUFFICES ASSUME TypeOK, ChatInv, [Next]_vars
                PROVE  Room!Next \/ UNCHANGED <<said, post, heard>>
    OBVIOUS
  <2>1. ASSUME NEW c \in Conns, SendMessage(c) PROVE Room!Next
    BY <2>1 DEF SendMessage, Room!Next, Room!Post
  <2>2. ASSUME NEW c \in Conns, Write(c) PROVE Room!Next \/ UNCHANGED <<said, post, heard>>
    <3>1. post = <<c, said[c]>>
      BY <2>2 DEF ChatInv, SendInv, Write
    <3>2. clients[slot] \in Conns
      BY <2>2 DEF Write, Addressed, TypeOK
    <3>3. WrittenTo(clients[slot]) \in Conns
      BY <2>2, <3>2 DEF Write, WrittenTo, TypeOK
    <3>. QED  BY <2>2, <3>1, <3>3 DEF Write, Room!Next, Room!Hear
  <2>. QED  BY <2>1, <2>2, Writers
<1>. QED  BY <1>1, <1>2, ChatInductive, PTL DEF Spec, ImplementsRoom, Room!Spec

-------------------------------------------------------------------------------
(* The limit of clients.  main compares the count for equality and may read it before the *)
(* thread it created last has raised it; its sleep(1) makes that unlikely.                *)

\* main admits a client only when every thread it has created has raised the count.
Rested == Admit => \A c \in Conns : pc[c] # "start"

Live == {c \in Conns : pc[c] \notin {"none", "done"}}

\* What main has in hand is all that is made and not started; there are fewer clients than
\* slots; each has its record in a slot from queue_add to queue_remove.
RestedInv ==
  /\ \A c \in Conns : pc[c] = "made" => mainpc \in {"add", "create"} /\ newConn = c
  /\ Cardinality(Live) < MaxClients
  /\ \A c \in Conns : pc[c] \in Kept =>
       (\E i \in Slots : clients[i] = c) \/ (mainpc = "add" /\ newConn = c)

LEMMA LiveIsFinite == IsFiniteSet(Live) /\ Cardinality(Live) \in Nat
BY NoneIsNoConn, FS_Subset, FS_CardinalityType DEF Live

\* When all created threads are counted, the count the guard reads is that of all clients.
LEMMA AdmitKeepsLimit ==
  ASSUME TypeOK, ChatInv, RestedInv, Rested, Admit
  PROVE  Cardinality(Live') < MaxClients
<1>0. newConn \in Conns /\ pc[newConn] = "none"
  BY DEF Admit, ChatInv, MainInv, TypeOK
<1>1. Live' = Live \cup {newConn} /\ newConn \notin Live
  BY <1>0, ChatMoves DEF Admit, Live
<1>2. Live = Counted
  BY DEF Admit, Rested, RestedInv, Live, Counted
<1>3. Cardinality(Live) + 1 < MaxClients
  BY <1>2, LiveIsFinite, ChatAssumption
     DEF Admit, Full, RestedInv, ChatInv, CountInv, ChatAssumption
<1>4. Cardinality(Live \cup {newConn}) = Cardinality(Live) + 1
  <2>. HIDE DEF Live
  <2>. QED  BY <1>1, LiveIsFinite, FS_AddElement
<1>5. Cardinality(Live') = Cardinality(Live \cup {newConn})
  BY <1>1
<1>. QED  BY <1>3, <1>4, <1>5

LEMMA FreeSlotForNew ==
  ASSUME TypeOK, ChatInv, RestedInv, mainpc = "add"
  PROVE  FreeSlots # {}
<1>. SUFFICES ASSUME FreeSlots = {} PROVE FALSE
  OBVIOUS
<1>1. clients \in [Slots -> Live]
  BY NoneIsNoConn DEF TypeOK, FreeSlots, ChatInv, RecordInv, KeptInv, Live, Kept
<1>2. \A i, j \in Slots : clients[i] = clients[j] => i = j
  BY DEF FreeSlots, ChatInv, RecordInv, SlotInv
<1>3. IsFiniteSet(Slots) /\ Cardinality(Slots) = MaxClients
  BY ChatAssumption, FS_Interval DEF ChatAssumption, Slots
<1>4. Cardinality(Live) < Cardinality(Slots)
  BY <1>3 DEF RestedInv
<1>. QED  BY <1>1, <1>2, <1>3, <1>4, LiveIsFinite, FS_PigeonHole

\* Nobody but main lets a client in.
LEMMA LiveShrinks ==
  ASSUME TypeOK, ChatInv, [Next]_vars
  PROVE  Live' \subseteq Live \/ Admit
BY DEF TypeOK, ChatInv, MainInv, Goto, AfterSend, AfterClose, Live, vars, Next, MainStep,
   ThreadStep, QueueAdd, CreateThread, Refuse, Admit, Accept, ReceiveName, ReceiveLine, CountUp,
   ConnectionLost, SendMessage, Pass, Write, WriteFails, EndSend, Close, QueueRemove,
   FreeRecord, ClientExits

\* The table changes by queue_add, which finds a slot, and by queue_remove.
LEMMA RecordsStay ==
  ASSUME TypeOK, ChatInv, RestedInv, [Next]_vars, NEW c \in Conns, pc'[c] \in Kept
  PROVE  \/ \E i \in Slots : clients'[i] = c
         \/ mainpc' = "add" /\ newConn' = c
<1>. USE NoneIsNoConn DEF TypeOK, Kept
<1>1. CASE QueueAdd
  <2>1. mainpc = "add" /\ pc' = pc
    BY <1>1 DEF QueueAdd
  <2>2. PICK i \in First(FreeSlots) : clients' = [clients EXCEPT ![i] = newConn]
    BY <1>1, <2>1, FreeSlotForNew DEF QueueAdd
  <2>3. i \in Slots /\ clients[i] = None
    BY FirstElement DEF FreeSlots
  <2>. QED  BY <2>1, <2>2, <2>3 DEF RestedInv
<1>2. ASSUME NEW d \in Conns, QueueRemove(d)
      PROVE  (\E i \in Slots : clients'[i] = c) \/ (mainpc' = "add" /\ newConn' = c)
  <2>1. c # d /\ pc[c] \in Kept
    BY <1>2, ChatMoves DEF QueueRemove
  <2>2. CASE mainpc = "add" /\ newConn = c
    BY <1>2, <2>2 DEF QueueRemove
  <2>3. ASSUME NEW i \in Slots, clients[i] = c PROVE clients'[i] = c
    BY <1>2, <2>1, <2>3 DEF QueueRemove
  <2>. QED  BY <2>1, <2>2, <2>3 DEF RestedInv
<1>3. CASE Admit
  BY <1>3 DEF Admit, Goto, ChatInv, MainInv, RestedInv, table
<1>4. ASSUME NEW d \in Conns, Accept(d)
      PROVE  (\E i \in Slots : clients'[i] = c) \/ (mainpc' = "add" /\ newConn' = c)
  BY <1>4 DEF Accept, RestedInv, table
<1>5. CASE Refuse
  BY <1>5 DEF Refuse, RestedInv, table
<1>6. CASE CreateThread
  BY <1>6 DEF CreateThread, Goto, ChatInv, MainInv, RestedInv, table
<1>7. CASE UNCHANGED clients /\ ~ QueueAdd /\ ~ CreateThread /\ ~ Admit /\ ~ Refuse
              /\ ~ \E d \in Conns : Accept(d)
  <2>1. UNCHANGED <<mainpc, newConn>>
    BY <1>7 DEF vars, Next, MainStep, ThreadStep, ReceiveName, ReceiveLine, CountUp,
       ConnectionLost, SendMessage, Pass, Write, WriteFails, EndSend, Close, QueueRemove,
       FreeRecord, ClientExits
  <2>2. pc[c] \in Kept
    BY <1>7 DEF Goto, AfterSend, AfterClose, vars, Next, MainStep, ThreadStep,
       ReceiveName, ReceiveLine, CountUp, ConnectionLost, SendMessage, Pass, Write,
       WriteFails, EndSend, Close, QueueRemove, FreeRecord, ClientExits
  <2>. QED  BY <1>7, <2>1, <2>2 DEF RestedInv
<1>. QED  BY <1>1, <1>2, <1>3, <1>4, <1>5, <1>6, <1>7, Writers

LEMMA RestedStep ==
  ASSUME TypeOK, ChatInv, RestedInv, [Next]_vars, [Rested]_vars
  PROVE  RestedInv'
<1>1. \A c \in Conns : pc'[c] = "made" => mainpc' \in {"add", "create"} /\ newConn' = c
  BY DEF TypeOK, ChatInv, MainInv, RestedInv, Goto, AfterSend, AfterClose, vars, Next, MainStep,
   ThreadStep, QueueAdd, CreateThread, Refuse, Admit, Accept, ReceiveName, ReceiveLine, CountUp,
   ConnectionLost, SendMessage, Pass, Write, WriteFails, EndSend, Close, QueueRemove,
   FreeRecord, ClientExits
<1>2. Cardinality(Live') < MaxClients
  <2>1. CASE Live' \subseteq Live
    <3>1. Cardinality(Live') <= Cardinality(Live) /\ Cardinality(Live') \in Nat
      BY <2>1, LiveIsFinite, FS_Subset, FS_CardinalityType
    <3>. QED  BY <3>1, LiveIsFinite, ChatAssumption DEF RestedInv, ChatAssumption
  <2>2. CASE Admit
    <3>1. Rested
      BY <2>2 DEF Admit, vars
    <3>. QED  BY <2>2, <3>1, AdmitKeepsLimit
  <2>. QED  BY <2>1, <2>2, LiveShrinks
<1>. QED  BY <1>1, <1>2, RecordsStay DEF RestedInv

\* As long as main never admits a client while a thread it has created is still to raise the count,
\* every client whose thread runs is in the table: that ClientIsQueued fails is due to
\* nothing but the count read too early.
THEOREM RestedClientIsQueued == Spec /\ [][Rested]_vars => []ClientIsQueued
<1>1. Init => RestedInv
  <2>. SUFFICES ASSUME Init PROVE RestedInv
    OBVIOUS
  <2>1. Live = {}
    BY DEF Init, Live
  <2>2. Cardinality(Live) < MaxClients
    BY <2>1, FS_EmptySet, ChatAssumption DEF ChatAssumption
  <2>. QED  BY <2>2 DEF Init, RestedInv, Kept
<1>2. TypeOK /\ ChatInv /\ RestedInv /\ [Next]_vars /\ [Rested]_vars => RestedInv'
  BY RestedStep
<1>3. TypeOK /\ ChatInv /\ RestedInv => ClientIsQueued
  BY DEF TypeOK, ChatInv, MainInv, RestedInv, ClientIsQueued, Kept, Places
<1>. QED  BY <1>1, <1>2, <1>3, ChatInductive, PTL DEF Spec
===============================================================================
