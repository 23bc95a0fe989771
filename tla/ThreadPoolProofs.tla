--------------------------- MODULE ThreadPoolProofs ---------------------------
(***************************************************************************)
(* Proofs about ThreadPool for any pool and any number of connections: the *)
(* mutex excludes, the queue is a first-in first-out line, and a thread    *)
(* comes for each connection in it whenever the signals are heard.         *)
(***************************************************************************)
EXTENDS ThreadPool, SequenceLemmas

\* The places at which a thread of the pool holds the mutex, and those of main.
Holding     == {"locked", "dequeue", "tail", "unlock"}
MainHolding == {"link", "tail", "signal"}

\* Within the critical sections: the tail lags behind the head while main appends and
\* while a thread empties the queue.
PoolInv ==
  /\ mutex = Main <=> mainpc \in MainHolding
  /\ \A t \in Threads : mutex = t <=> pc[t] \in Holding
  /\ mainpc # "accept" => newConn \in Conns
  /\ \A t \in Threads : pc[t] \in {"read", "write"} => pclient[t] # NoConn
  /\ mainpc = "tail" => head # NoConn
  /\ \A t \in Threads : pc[t] = "tail" => tail # NoConn
  /\ mainpc # "tail" /\ (\A t \in Threads : pc[t] # "tail") => (head = NoConn <=> tail = NoConn)

LEMMA PoolPlaces ==
  /\ "start" \in Places /\ "locked" \in Places /\ "waiting" \in Places
  /\ "woken" \in Places /\ "dequeue" \in Places /\ "tail" \in Places
  /\ "unlock" \in Places /\ "read" \in Places /\ "write" \in Places
BY DEF Places

LEMMA PoolOwners == NoConn \notin Conns \cup Threads /\ Main \notin Threads /\ NoConn # Main
BY PoolAssumption DEF PoolAssumption

\* A move of one thread.
LEMMA ThreadMoves ==
  ASSUME TypeOK, NEW t \in Threads, NEW p, Goto(t, p)
  PROVE  pc'[t] = p /\ \A u \in Threads \ {t} : pc'[u] = pc[u]
BY DEF TypeOK, Goto

LEMMA PoolTypeStep == ASSUME TypeOK, PoolInv, [Next]_vars PROVE TypeOK'
<1>. USE PoolPlaces DEF TypeOK, At, Goto, Lock, Unlock, queue
<1>1. ASSUME NEW c \in Conns, Accept(c) PROVE TypeOK'
  BY <1>1 DEF Accept
<1>2. CASE MainLocks
  BY <1>2 DEF MainLocks
<1>3. CASE LinkNode
  <2>1. newConn \in Conns
    BY <1>3 DEF LinkNode, PoolInv
  <2>2. next' \in [Conns -> Conns \cup {NoConn}] /\ head' \in Conns \cup {NoConn}
    BY <1>3, <2>1 DEF LinkNode
  <2>. QED  BY <1>3, <2>2 DEF LinkNode
<1>4. CASE MoveTail
  BY <1>4 DEF MoveTail
<1>5. CASE SignalAndUnlock
  <2>1. pc' \in [Threads -> Places]
    BY <1>5 DEF SignalAndUnlock
  <2>. QED  BY <1>5, <2>1 DEF SignalAndUnlock
<1>6. ASSUME NEW t \in Threads, LockQueue(t) PROVE TypeOK'
  BY <1>6 DEF LockQueue
<1>7. ASSUME NEW t \in Threads, Wait(t) PROVE TypeOK'
  BY <1>7 DEF Wait
<1>8. ASSUME NEW t \in Threads, SpuriousWake(t) PROVE TypeOK'
  <2>1. spurious' \in 0..MaxSpurious
    BY <1>8, PoolAssumption DEF SpuriousWake, PoolAssumption
  <2>. QED  BY <1>8, <2>1 DEF SpuriousWake
<1>9. ASSUME NEW t \in Threads, Relock(t) PROVE TypeOK'
  BY <1>9 DEF Relock
<1>10. ASSUME NEW t \in Threads, FindEmpty(t) PROVE TypeOK'
  BY <1>10 DEF FindEmpty
<1>11. ASSUME NEW t \in Threads, TakeHead(t) PROVE TypeOK'
  <2>1. head \in Conns /\ next[head] \in Conns \cup {NoConn}
    BY <1>11 DEF TakeHead
  <2>. QED  BY <1>11, <2>1 DEF TakeHead
<1>12. ASSUME NEW t \in Threads, ResetTail(t) PROVE TypeOK'
  BY <1>12 DEF ResetTail, TailAfter
<1>13. ASSUME NEW t \in Threads, UnlockQueue(t) PROVE TypeOK'
  BY <1>13 DEF UnlockQueue, AfterUnlock
<1>14. ASSUME NEW t \in Threads, Read(t) PROVE TypeOK'
  BY <1>14 DEF Read
<1>15. ASSUME NEW t \in Threads, Answer(t) PROVE TypeOK'
  <2>1. pclient[t] \in Conns
    BY <1>15 DEF Answer, PoolInv
  <2>. QED  BY <1>15, <2>1 DEF Answer
<1>16. ASSUME NEW t \in Threads, HandlerDies(t) PROVE TypeOK'
  BY <1>16 DEF HandlerDies
<1>17. ASSUME NEW c \in Conns, ClientExits(c) PROVE TypeOK'
  BY <1>17 DEF ClientExits
<1>18. CASE UNCHANGED vars
  BY <1>18 DEF vars
<1>. QED
  BY <1>1, <1>2, <1>3, <1>4, <1>5, <1>6, <1>7, <1>8, <1>9, <1>10, <1>11, <1>12, <1>13,
     <1>14, <1>15, <1>16, <1>17, <1>18, Zenon DEF Next, MainStep, ThreadStep

\* A step that leaves the queue and main alone, and in which one thread moves between
\* two places at which the invariant asks the same of it.
LEMMA OutsideKeeps ==
  ASSUME TypeOK, PoolInv, NEW t \in Threads, NEW p,
         UNCHANGED <<mutex, mainpc, newConn, head, tail>>, Goto(t, p),
         pc[t] # "tail", p # "tail", pc[t] \in Holding <=> p \in Holding,
         p \in {"read", "write"} => pclient'[t] # NoConn,
         \A u \in Threads \ {t} : pclient'[u] = pclient[u]
  PROVE  PoolInv'
<1>1. pc'[t] = p /\ \A u \in Threads \ {t} : pc'[u] = pc[u]
  BY ThreadMoves
<1>. QED  BY <1>1 DEF PoolInv

LEMMA PoolInvStep == ASSUME TypeOK, PoolInv, [Next]_vars PROVE PoolInv'
<1>. USE DEF At, queue
<1>1. ASSUME NEW c \in Conns, Accept(c) PROVE PoolInv'
  BY <1>1 DEF Accept, PoolInv, MainHolding
<1>2. CASE MainLocks
  BY <1>2, PoolOwners DEF MainLocks, Lock, PoolInv, MainHolding
<1>3. CASE LinkNode
  <2>1. newConn \in Conns /\ newConn # NoConn
    BY <1>3, PoolOwners DEF LinkNode, PoolInv
  <2>2. mutex = Main
    BY <1>3 DEF LinkNode, PoolInv, MainHolding
  <2>3. \A t \in Threads : pc[t] # "tail"
    BY <2>2, PoolOwners DEF PoolInv, Holding
  <2>4. head' # NoConn
    BY <1>3, <2>1, <2>3 DEF LinkNode, PoolInv
  <2>. QED  BY <1>3, <2>1, <2>3, <2>4 DEF LinkNode, PoolInv, MainHolding
<1>4. CASE MoveTail
  <2>1. newConn \in Conns /\ newConn # NoConn /\ head # NoConn
    BY <1>4, PoolOwners DEF MoveTail, PoolInv
  <2>. QED  BY <1>4, <2>1 DEF MoveTail, PoolInv, MainHolding
<1>5. CASE SignalAndUnlock
  <2>1. mutex = Main /\ mutex' = NoConn /\ mainpc = "signal" /\ mainpc' = "accept"
        /\ head' = head /\ tail' = tail /\ pclient' = pclient /\ newConn' = NoConn
    BY <1>5 DEF SignalAndUnlock, Unlock, PoolInv, MainHolding
  <2>2. \A t \in Threads : pc[t] \notin Holding
    BY <2>1, PoolOwners DEF PoolInv
  <2>3. \A t \in Threads : pc'[t] = pc[t] \/ pc'[t] = "woken"
    BY <1>5, ThreadMoves DEF SignalAndUnlock
  <2>4. \A t \in Threads : pc'[t] \notin Holding
    BY <2>2, <2>3 DEF Holding
  <2>. QED  BY <2>1, <2>2, <2>3, <2>4, PoolOwners DEF PoolInv, MainHolding, Holding
<1>6. ASSUME NEW t \in Threads, LockQueue(t) \/ Relock(t) PROVE PoolInv'
  <2>1. mutex = NoConn /\ mutex' = t /\ UNCHANGED <<mainpc, newConn, head, tail, pclient>>
    BY <1>6 DEF LockQueue, Relock, Lock
  <2>2. pc'[t] \in {"locked", "dequeue"} /\ \A u \in Threads \ {t} : pc'[u] = pc[u]
    BY <1>6, ThreadMoves DEF LockQueue, Relock
  <2>3. pc[t] # "tail"
    BY <1>6 DEF LockQueue, Relock
  <2>4. mainpc \notin MainHolding /\ \A u \in Threads : pc[u] \notin Holding
    BY <2>1, PoolOwners DEF PoolInv
  <2>. QED  BY <2>1, <2>2, <2>3, <2>4, PoolOwners DEF PoolInv, MainHolding, Holding
<1>7. ASSUME NEW t \in Threads, Wait(t) \/ UnlockQueue(t) PROVE PoolInv'
  <2>1. /\ pc[t] \in {"locked", "unlock"} /\ mutex' = NoConn
        /\ UNCHANGED <<mainpc, newConn, head, tail, pclient>>
    BY <1>7 DEF Wait, UnlockQueue, Unlock
  <2>2. /\ pc'[t] \in {"waiting", "start"} \/ (pc'[t] = "read" /\ pclient[t] # NoConn)
        /\ \A u \in Threads \ {t} : pc'[u] = pc[u]
    BY <1>7, ThreadMoves DEF Wait, UnlockQueue, AfterUnlock
  <2>3. mutex = t
    BY <2>1 DEF PoolInv, Holding
  <2>4. mainpc \notin MainHolding /\ \A u \in Threads \ {t} : pc[u] \notin Holding
    BY <2>3, PoolOwners DEF PoolInv
  <2>. QED  BY <2>1, <2>2, <2>4, PoolOwners DEF PoolInv, MainHolding, Holding
<1>8. ASSUME NEW t \in Threads, SpuriousWake(t) PROVE PoolInv'
  BY <1>8, OutsideKeeps DEF SpuriousWake, Holding
<1>9. ASSUME NEW t \in Threads, FindEmpty(t) PROVE PoolInv'
  BY <1>9, OutsideKeeps DEF FindEmpty, Holding
<1>10. ASSUME NEW t \in Threads, Read(t) PROVE PoolInv'
  BY <1>10, OutsideKeeps DEF Read, Holding, PoolInv
<1>11. ASSUME NEW t \in Threads, Answer(t) PROVE PoolInv'
  <2>1. \A u \in Threads \ {t} : pclient'[u] = pclient[u]
    BY <1>11 DEF Answer, TypeOK
  <2>. QED  BY <1>11, <2>1, OutsideKeeps DEF Answer, Holding
<1>12. ASSUME NEW t \in Threads, TakeHead(t) PROVE PoolInv'
  <2>1. /\ pc[t] = "dequeue" /\ head # NoConn
        /\ UNCHANGED <<mutex, mainpc, newConn, tail>>
    BY <1>12 DEF TakeHead
  <2>2. pc'[t] = "tail" /\ \A u \in Threads \ {t} : pc'[u] = pc[u]
    BY <1>12, ThreadMoves DEF TakeHead
  <2>3. \A u \in Threads \ {t} : pclient'[u] = pclient[u]
    BY <1>12 DEF TakeHead, TypeOK
  <2>4. mutex = t
    BY <2>1 DEF PoolInv, Holding
  <2>5. mainpc \notin MainHolding /\ \A u \in Threads \ {t} : pc[u] \notin Holding
    BY <2>4, PoolOwners DEF PoolInv
  <2>6. tail # NoConn
    BY <2>1, <2>5 DEF PoolInv, MainHolding, Holding
  <2>. QED  BY <2>1, <2>2, <2>3, <2>4, <2>5, <2>6 DEF PoolInv, MainHolding, Holding
<1>13. ASSUME NEW t \in Threads, ResetTail(t) PROVE PoolInv'
  <2>1. /\ pc[t] = "tail" /\ UNCHANGED <<mutex, mainpc, newConn, head, pclient>>
        /\ tail' = IF head = NoConn THEN NoConn ELSE tail
    BY <1>13 DEF ResetTail, TailAfter
  <2>2. pc'[t] = "unlock" /\ \A u \in Threads \ {t} : pc'[u] = pc[u]
    BY <1>13, ThreadMoves DEF ResetTail
  <2>3. mutex = t /\ tail # NoConn
    BY <2>1 DEF PoolInv, Holding
  <2>4. mainpc \notin MainHolding /\ \A u \in Threads \ {t} : pc[u] \notin Holding
    BY <2>3, PoolOwners DEF PoolInv
  <2>. QED  BY <2>1, <2>2, <2>3, <2>4 DEF PoolInv, MainHolding, Holding
<1>14. ASSUME NEW t \in Threads, HandlerDies(t) PROVE PoolInv'
  BY <1>14 DEF HandlerDies, PoolInv
<1>15. ASSUME NEW c \in Conns, ClientExits(c) PROVE PoolInv'
  BY <1>15 DEF ClientExits, PoolInv
<1>16. CASE UNCHANGED vars
  BY <1>16 DEF vars, PoolInv
<1>. QED
  BY <1>1, <1>2, <1>3, <1>4, <1>5, <1>6, <1>7, <1>8, <1>9, <1>10, <1>11, <1>12, <1>13,
     <1>14, <1>15, <1>16, Zenon DEF Next, MainStep, ThreadStep

LEMMA PoolInductive == Spec => [](TypeOK /\ PoolInv)
<1>1. Init => TypeOK
  BY PoolPlaces, PoolAssumption DEF Init, TypeOK, PoolAssumption
<1>2. Init => PoolInv
  BY PoolOwners DEF Init, PoolInv, Holding, MainHolding
<1>3. TypeOK /\ PoolInv /\ [Next]_vars => TypeOK' /\ PoolInv'
  BY PoolTypeStep, PoolInvStep
<1>. QED  BY <1>1, <1>2, <1>3, PTL DEF Spec

\* The pool stays within its types: a thread never answers NULL, and the links of the
\* queue lead to nodes.
THEOREM PoolTypeCorrect == Spec => []TypeOK
BY PoolInductive, PTL

\* One thread at a time is between a lock, or a wait that returned, and the following
\* unlock or wait; whoever comes next finds both ends of the queue NULL or neither.
THEOREM QueueIsConsistent == Spec => []QueueConsistent
<1>1. TypeOK /\ PoolInv => QueueConsistent
  <2>. SUFFICES ASSUME TypeOK, PoolInv PROVE QueueConsistent
    OBVIOUS
  <2>1. mutex = NoConn => mainpc \notin MainHolding /\ \A t \in Threads : pc[t] \notin Holding
    BY PoolOwners DEF PoolInv
  <2>2. mutex = NoConn => (head = NoConn <=> tail = NoConn)
    BY <2>1 DEF PoolInv, MainHolding, Holding
  <2>. QED  BY <2>2 DEF PoolInv, MainHolding, Holding, QueueConsistent
<1>. QED  BY <1>1, PoolInductive, PTL

-------------------------------------------------------------------------------
(* The queue as a line. *)

\* The nodes are linked as the list s of connections.  The tail is the last of them
\* except while main appends, and stale only while a thread empties the queue.
Linked(s) ==
  /\ s \in Seq(accepted)
  /\ \A i, j \in DOMAIN s : s[i] = s[j] => i = j
  /\ head = IF s = <<>> THEN NoConn ELSE s[1]
  /\ \A i \in DOMAIN s : next[s[i]] = IF i = Len(s) THEN NoConn ELSE s[i + 1]
  /\ mainpc # "tail" => (s # <<>> => tail = s[Len(s)])
  /\ mainpc = "tail" => s # <<>> /\ s[Len(s)] = newConn

\* A connection that entered is in the line s, held by one thread or answered.
Placed(s) ==
  /\ ToSet(s) \subseteq Entered /\ answered \subseteq Entered \ ToSet(s)
  /\ \A t \in Threads :
       pclient[t] # NoConn => pclient[t] \in Entered \ (ToSet(s) \cup answered)
  /\ \A t, u \in Threads : pclient[t] = pclient[u] /\ pclient[t] # NoConn => t = u
  /\ \A c \in Entered \ (ToSet(s) \cup answered) : \E t \in Threads : pclient[t] = c
  /\ \A t \in Threads :
       pc[t] \notin {"tail", "unlock", "read", "write"} => pclient[t] = NoConn
  /\ mainpc # "accept" => newConn \in accepted

LineInv(s) == IsFiniteSet(accepted) /\ Linked(s) /\ Placed(s)

\* The chain of nodes behind head is that list.
LEMMA LineIsList ==
  ASSUME NEW s, IsFiniteSet(accepted), accepted \subseteq Conns, Linked(s)
  PROVE  Line = s
<1>1. NoConn \notin accepted
  BY PoolOwners
<1>. QED  BY <1>1, ChainIsList DEF Linked, Line

LEMMA LineIsListAfter ==
  ASSUME NEW s, IsFiniteSet(accepted'), accepted' \subseteq Conns, Linked(s)'
  PROVE  Line' = s
<1>1. NoConn \notin accepted'
  BY PoolOwners
<1>. QED  BY <1>1, ChainIsList DEF Linked, Line

\* A step that leaves the nodes alone leaves the list.
LEMMA LinkedKept ==
  ASSUME NEW s, Linked(s), UNCHANGED <<head, tail, next, accepted, newConn>>,
         mainpc = "tail" <=> mainpc' = "tail"
  PROVE  Linked(s)'
BY DEF Linked

\* A step of one thread that leaves the connections where they are.
LEMMA PlacedKept ==
  ASSUME NEW s, TypeOK, Placed(s),
         UNCHANGED <<accepted, newConn, mainpc, pclient, answered>>,
         NEW t \in Threads, NEW p, Goto(t, p),
         p \in {"tail", "unlock", "read", "write"} \/ pclient[t] = NoConn
  PROVE  Placed(s)'
<1>1. pc'[t] = p /\ \A u \in Threads \ {t} : pc'[u] = pc[u]
  BY ThreadMoves
<1>2. Entered' = Entered
  BY DEF Entered
<1>3. \A u \in Threads :
        pc'[u] \notin {"tail", "unlock", "read", "write"} => pclient[u] = NoConn
  BY <1>1 DEF Placed
<1>. QED  BY <1>2, <1>3 DEF Placed

\* The three things a step may do to the line and to the connections that entered it.
Rests(s, r)    == r = s /\ Entered' = Entered
Enqueues(s, r) == /\ newConn \in Conns \ Entered
                  /\ r = Append(s, newConn) /\ Entered' = Entered \cup {newConn}
Dequeues(s, r) == s # <<>> /\ r = Tail(s) /\ Entered' = Entered

\* enqueue links the new node behind the last one.
LEMMA LinkNodeEnters ==
  ASSUME NEW s, TypeOK, PoolInv, LineInv(s), LinkNode, NEW c, c = newConn
  PROVE  Enqueues(s, Append(s, c)) /\ LineInv(Append(s, c))'
<1>. DEFINE r == Append(s, c)
<1>1. /\ mainpc = "link" /\ mainpc' = "tail"
      /\ UNCHANGED <<newConn, accepted, tail, pc, pclient, answered>>
  BY DEF LinkNode
<1>2. c \in Conns /\ c \in accepted /\ c \notin Entered /\ c # NoConn
  BY <1>1, PoolOwners DEF PoolInv, LineInv, Placed, Entered
<1>3. /\ s \in Seq(accepted) /\ c \notin ToSet(s) /\ ToSet(s) \subseteq Entered
      /\ \A i, j \in DOMAIN s : s[i] = s[j] => i = j
  BY <1>2 DEF LineInv, Linked, Placed
<1>4. /\ r \in Seq(accepted) /\ Len(r) = Len(s) + 1 /\ r # <<>>
      /\ \A i \in 1..Len(s) : r[i] = s[i]
      /\ r[Len(s) + 1] = c
  BY <1>2, <1>3, AppendProperties
<1>5. /\ ToSet(r) = ToSet(s) \cup {c}
      /\ \A i, j \in DOMAIN r : r[i] = r[j] => i = j
  BY <1>2, <1>3, AppendElements
<1>. HIDE DEF r
<1>6. /\ Len(s) \in Nat /\ DOMAIN s = 1..Len(s) /\ DOMAIN r = 1..(Len(s) + 1)
      /\ s = <<>> <=> Len(s) = 0
  BY <1>3, <1>4, LenProperties, EmptySeq
<1>7. mutex = Main /\ \A t \in Threads : pc[t] # "tail"
  BY <1>1, PoolOwners DEF PoolInv, MainHolding, Holding
<1>8. tail = NoConn <=> s = <<>>
  <2>1. head = NoConn <=> tail = NoConn
    BY <1>1, <1>7 DEF PoolInv
  <2>2. s # <<>> => s[1] \in accepted
    BY <1>3, <1>6, ElementOfSeq
  <2>. QED  BY <2>1, <2>2, PoolOwners DEF LineInv, Linked, TypeOK
<1>9. Linked(r)'
  <2>1. /\ \A i \in DOMAIN s : next[s[i]] = IF i = Len(s) THEN NoConn ELSE s[i + 1]
        /\ head = IF s = <<>> THEN NoConn ELSE s[1]
        /\ s # <<>> => tail = s[Len(s)]
    BY <1>1 DEF LineInv, Linked
  <2>2. \A i \in DOMAIN s : s[i] \in Conns /\ s[i] # c
    BY <1>3, <1>6, ElementOfSeq DEF ToSet, TypeOK
  <2>3. CASE s = <<>>
    <3>1. head' = c /\ next' = [next EXCEPT ![c] = NoConn]
      BY <1>8, <2>3 DEF LinkNode
    <3>2. next'[c] = NoConn
      BY <1>2, <3>1 DEF TypeOK
    <3>3. Len(r) = 1 /\ r[1] = c /\ DOMAIN r = {1}
      BY <1>4, <1>6, <2>3
    <3>. QED  BY <1>1, <1>4, <1>5, <3>1, <3>2, <3>3 DEF Linked
  <2>4. CASE s # <<>>
    <3>1. /\ head' = head /\ tail \in Conns /\ tail # c /\ tail = s[Len(s)]
          /\ next' = [next EXCEPT ![c] = NoConn, ![tail] = c]
      BY <1>8, <2>1, <2>2, <2>4, <1>6 DEF LinkNode, TypeOK
    <3>2. next'[c] = NoConn /\ next'[tail] = c
          /\ \A d \in Conns \ {c, tail} : next'[d] = next[d]
      BY <1>2, <3>1 DEF TypeOK
    <3>3. head' = r[1]
      BY <1>4, <1>6, <2>1, <2>4, <3>1
    <3>4. ASSUME NEW i \in DOMAIN r
          PROVE  next'[r[i]] = IF i = Len(r) THEN NoConn ELSE r[i + 1]
      <4>1. CASE i = Len(s) + 1
        BY <1>4, <3>2, <4>1
      <4>2. CASE i = Len(s)
        <5>0. Len(s) # 0 /\ Len(s) \in Nat /\ Len(r) = Len(s) + 1
          BY <1>4, <1>6, <2>4
        <5>1. Len(s) \in 1..Len(s) /\ Len(s) # Len(r)
          BY <5>0
        <5>2. r[i] = tail /\ r[i + 1] = c /\ i # Len(r)
          BY <1>4, <3>1, <4>2, <5>1
        <5>. QED  BY <3>2, <5>2
      <4>3. CASE i < Len(s)
        <5>1. i \in DOMAIN s /\ i + 1 \in DOMAIN s /\ Len(s) \in DOMAIN s /\ i # Len(s)
          BY <1>6, <4>3
        <5>2. s[i] \in Conns \ {c, tail}
          BY <1>3, <2>2, <3>1, <5>1
        <5>3. next'[s[i]] = s[i + 1]
          BY <2>1, <3>2, <5>1, <5>2
        <5>. QED  BY <1>4, <1>6, <5>1, <5>3
      <4>. QED  BY <1>6, <4>1, <4>2, <4>3
    <3>. QED  BY <1>1, <1>4, <1>5, <3>3, <3>4 DEF Linked
  <2>. QED  BY <2>3, <2>4
<1>10. Entered' = Entered \cup {c} /\ Enqueues(s, r)
  <2>1. Entered' = Entered \cup {c}
    BY <1>1, <1>2 DEF Entered
  <2>. QED  BY <1>2, <2>1 DEF Enqueues, r
<1>11. Placed(r)'
  <2>1. answered \subseteq Entered \ ToSet(s)
        /\ \A t \in Threads : pclient[t] # NoConn => pclient[t] \in Entered \ (ToSet(s) \cup answered)
    BY DEF LineInv, Placed
  <2>2. /\ ToSet(r) \subseteq Entered' /\ answered \subseteq Entered' \ ToSet(r)
    BY <1>2, <1>3, <1>5, <1>10, <2>1
  <2>3. \A t \in Threads :
          pclient[t] # NoConn => pclient[t] \in Entered' \ (ToSet(r) \cup answered)
    BY <1>2, <1>5, <1>10, <2>1
  <2>4. \A d \in Entered' \ (ToSet(r) \cup answered) : \E t \in Threads : pclient[t] = d
    BY <1>5, <1>10 DEF LineInv, Placed
  <2>. QED  BY <1>1, <1>2, <2>2, <2>3, <2>4 DEF LineInv, Placed
<1>. QED  BY <1>1, <1>9, <1>10, <1>11 DEF LineInv, r

\* dequeue takes the first node out of the line and into the hands of the thread.
LEMMA TakeHeadTakesFirst ==
  ASSUME NEW s, TypeOK, PoolInv, LineInv(s), NEW t \in Threads, TakeHead(t)
  PROVE  Dequeues(s, Tail(s)) /\ LineInv(Tail(s))'
<1>. DEFINE r == Tail(s)
<1>1. /\ pc[t] = "dequeue" /\ head # NoConn /\ head' = next[head]
      /\ pclient' = [pclient EXCEPT ![t] = head] /\ Goto(t, "tail")
      /\ UNCHANGED <<mainpc, newConn, accepted, tail, next, answered>>
  BY DEF TakeHead, At
<1>2. /\ s \in Seq(accepted) /\ s # <<>> /\ head = s[1]
      /\ \A i, j \in DOMAIN s : s[i] = s[j] => i = j
  BY <1>1 DEF LineInv, Linked
<1>3. /\ r \in Seq(accepted) /\ Len(r) = Len(s) - 1
      /\ \A i \in DOMAIN r : i + 1 \in DOMAIN s /\ r[i] = s[i + 1]
      /\ s[1] \in ToSet(s) /\ ToSet(r) = ToSet(s) \ {s[1]}
      /\ \A i, j \in DOMAIN r : r[i] = r[j] => i = j
  BY <1>2, TailElements
<1>. HIDE DEF r
<1>4. /\ Len(s) \in Nat /\ Len(s) > 0 /\ DOMAIN s = 1..Len(s) /\ DOMAIN r = 1..Len(r)
      /\ r = <<>> <=> Len(r) = 0
  BY <1>2, <1>3, LenProperties, EmptySeq
<1>5. mainpc # "tail"
  <2>1. mutex = t
    BY <1>1 DEF PoolInv, Holding
  <2>. QED  BY <2>1, PoolOwners DEF PoolInv, MainHolding
<1>6. Linked(r)'
  <2>1. \A i \in DOMAIN s : next[s[i]] = IF i = Len(s) THEN NoConn ELSE s[i + 1]
    BY DEF LineInv, Linked
  <2>2. head' = IF r = <<>> THEN NoConn ELSE r[1]
    <3>1. next[s[1]] = IF 1 = Len(s) THEN NoConn ELSE s[1 + 1]
      BY <1>4, <2>1
    <3>2. r # <<>> => r[1] = s[1 + 1]
      BY <1>3, <1>4
    <3>. QED  BY <1>1, <1>2, <1>3, <1>4, <3>1, <3>2
  <2>3. ASSUME NEW i \in DOMAIN r
        PROVE  next'[r[i]] = IF i = Len(r) THEN NoConn ELSE r[i + 1]
    <3>1. i \in Nat /\ i + 1 \in DOMAIN s /\ r[i] = s[i + 1]
      BY <1>3, <1>4
    <3>2. next[s[i + 1]] = IF i + 1 = Len(s) THEN NoConn ELSE s[(i + 1) + 1]
      BY <2>1, <3>1
    <3>3. i # Len(r) => r[i + 1] = s[(i + 1) + 1]
      BY <1>3, <1>4
    <3>4. i = Len(r) <=> i + 1 = Len(s)
      BY <1>3, <1>4
    <3>. QED  BY <1>1, <3>1, <3>2, <3>3, <3>4
  <2>4. r # <<>> => tail' = r[Len(r)]
    <3>1. tail = s[Len(s)]
      BY <1>2, <1>5 DEF LineInv, Linked
    <3>2. r # <<>> => r[Len(r)] = s[Len(s)]
      BY <1>3, <1>4
    <3>. QED  BY <1>1, <3>1, <3>2
  <2>. QED  BY <1>1, <1>3, <1>5, <2>2, <2>3, <2>4 DEF Linked
<1>7. Entered' = Entered
  BY <1>1 DEF Entered
<1>8. Placed(r)'
  <2>1. pc'[t] = "tail" /\ \A u \in Threads \ {t} : pc'[u] = pc[u]
    BY <1>1, ThreadMoves
  <2>2. pclient'[t] = s[1] /\ \A u \in Threads \ {t} : pclient'[u] = pclient[u]
    BY <1>1, <1>2 DEF TypeOK
  <2>3. pclient[t] = NoConn /\ \A u \in Threads : pclient[u] # s[1] \/ s[1] = NoConn
    BY <1>1, <1>3 DEF LineInv, Placed
  <2>4. s[1] # NoConn /\ s[1] \in Entered /\ s[1] \notin answered
    BY <1>1, <1>2, <1>3 DEF LineInv, Placed
  <2>5. \A u \in Threads : u # t => pclient'[u] # s[1]
    BY <2>2, <2>3, <2>4
  <2>6. /\ ToSet(r) \subseteq Entered /\ answered \subseteq Entered \ ToSet(r)
    BY <1>3 DEF LineInv, Placed
  <2>7. \A u \in Threads :
          pclient'[u] # NoConn => pclient'[u] \in Entered \ (ToSet(r) \cup answered)
    BY <1>3, <2>2, <2>4 DEF LineInv, Placed
  <2>8. \A u, v \in Threads : pclient'[u] = pclient'[v] /\ pclient'[u] # NoConn => u = v
    BY <2>2, <2>5 DEF LineInv, Placed
  <2>9. ASSUME NEW c \in Entered \ (ToSet(r) \cup answered)
        PROVE  \E u \in Threads : pclient'[u] = c
    <3>1. CASE c = s[1]
      BY <2>2, <3>1
    <3>2. CASE c # s[1]
      <4>1. PICK u \in Threads : pclient[u] = c
        BY <1>3, <3>2 DEF LineInv, Placed
      <4>2. c # NoConn
        BY PoolOwners DEF Entered, TypeOK
      <4>. QED  BY <2>2, <2>3, <4>1, <4>2
    <3>. QED  BY <3>1, <3>2
  <2>10. \A u \in Threads :
           pc'[u] \notin {"tail", "unlock", "read", "write"} => pclient'[u] = NoConn
    BY <2>1, <2>2 DEF LineInv, Placed
  <2>11. mainpc' # "accept" => newConn' \in accepted'
    BY <1>1 DEF LineInv, Placed
  <2>. QED  BY <1>1, <1>7, <2>6, <2>7, <2>8, <2>9, <2>10, <2>11 DEF Placed
<1>. QED  BY <1>1, <1>2, <1>6, <1>7, <1>8 DEF r, LineInv, Dequeues

\* Every other step leaves the line and what entered it alone.
LEMMA OthersRest ==
  ASSUME NEW s, TypeOK, PoolInv, LineInv(s), [Next]_vars,
         ~LinkNode, \A t \in Threads : ~TakeHead(t)
  PROVE  Rests(s, s) /\ LineInv(s)'
<1>. SUFFICES Entered' = Entered /\ LineInv(s)'
  BY DEF Rests
<1>. USE DEF At, queue, LineInv
<1>1. ASSUME NEW c \in Conns, Accept(c) PROVE Entered' = Entered /\ LineInv(s)'
  <2>1. /\ mainpc = "accept" /\ mainpc' = "lock" /\ c \notin accepted /\ newConn' = c
        /\ accepted' = accepted \cup {c}
        /\ UNCHANGED <<head, tail, next, pc, pclient, answered>>
    BY <1>1 DEF Accept
  <2>2. Entered' = Entered
    BY <2>1 DEF Entered
  <2>3. IsFiniteSet(accepted')
    BY <2>1, FS_AddElement
  <2>4. Linked(s)'
    <3>1. s \in Seq(accepted')
      BY <2>1, SeqMonotonic DEF Linked
    <3>. QED  BY <2>1, <3>1 DEF Linked
  <2>5. Placed(s)'
    BY <2>1, <2>2 DEF Placed
  <2>. QED  BY <2>2, <2>3, <2>4, <2>5
<1>2. CASE MainLocks
  <2>1. Entered' = Entered
    BY <1>2 DEF MainLocks, Entered
  <2>. QED  BY <1>2, <2>1, LinkedKept DEF MainLocks, Placed
<1>3. CASE MoveTail
  <2>1. Entered' = Entered
    BY <1>3 DEF MoveTail, Entered
  <2>2. Linked(s)'
    BY <1>3 DEF MoveTail, Linked
  <2>. QED  BY <1>3, <2>1, <2>2 DEF MoveTail, Placed
<1>4. CASE SignalAndUnlock
  <2>1. /\ mainpc = "signal" /\ mainpc' = "accept"
        /\ UNCHANGED <<head, tail, next, accepted, pclient, answered>>
    BY <1>4 DEF SignalAndUnlock
  <2>2. Entered' = Entered
    BY <2>1 DEF Entered
  <2>3. Linked(s)'
    BY <2>1 DEF Linked
  <2>4. \A t \in Threads : pc'[t] = pc[t] \/ pc[t] = "waiting"
    BY <1>4, ThreadMoves DEF SignalAndUnlock
  <2>5. \A t \in Threads :
          pc'[t] \notin {"tail", "unlock", "read", "write"} => pclient[t] = NoConn
    BY <2>4 DEF Placed
  <2>. QED  BY <2>1, <2>2, <2>3, <2>5 DEF Placed
<1>5. ASSUME NEW t \in Threads, NEW p, Goto(t, p),
             UNCHANGED <<mainpc, newConn, accepted, head, tail, next, pclient, answered>>,
             p \in {"tail", "unlock", "read", "write"} \/ pclient[t] = NoConn
      PROVE  Entered' = Entered /\ LineInv(s)'
  BY <1>5, LinkedKept, PlacedKept DEF Entered
<1>6. ASSUME NEW t \in Threads,
             LockQueue(t) \/ Wait(t) \/ SpuriousWake(t) \/ Relock(t)
      PROVE  Entered' = Entered /\ LineInv(s)'
  <2>1. pclient[t] = NoConn
    BY <1>6 DEF LockQueue, Wait, SpuriousWake, Relock, Placed
  <2>. QED  BY <1>5, <1>6, <2>1 DEF LockQueue, Wait, SpuriousWake, Relock
<1>7. ASSUME NEW t \in Threads, FindEmpty(t) \/ UnlockQueue(t) \/ Read(t)
      PROVE  Entered' = Entered /\ LineInv(s)'
  BY <1>5, <1>7 DEF FindEmpty, UnlockQueue, AfterUnlock, Read
<1>8. ASSUME NEW t \in Threads, ResetTail(t) PROVE Entered' = Entered /\ LineInv(s)'
  <2>1. /\ pc[t] = "tail" /\ Goto(t, "unlock")
        /\ UNCHANGED <<mainpc, newConn, accepted, head, next, pclient, answered>>
        /\ tail' = IF head = NoConn THEN NoConn ELSE tail
    BY <1>8 DEF ResetTail, TailAfter
  <2>2. s # <<>> => head # NoConn
    <3>1. ASSUME s # <<>> PROVE s[1] \in accepted
      <4>1. Len(s) > 0 /\ 1 \in DOMAIN s
        BY <3>1, LenProperties, EmptySeq DEF Linked
      <4>. QED  BY <4>1, LenProperties, ElementOfSeq DEF Linked
    <3>. QED  BY <3>1, PoolOwners DEF Linked, TypeOK
  <2>3. mainpc # "tail"
    BY <2>1, PoolOwners DEF PoolInv, MainHolding, Holding
  <2>4. Linked(s)'
    BY <2>1, <2>2, <2>3 DEF Linked
  <2>. QED  BY <2>1, <2>4, PlacedKept DEF Entered
<1>9. ASSUME NEW t \in Threads, Answer(t) PROVE Entered' = Entered /\ LineInv(s)'
  <2>1. /\ pc[t] = "write" /\ Goto(t, "start")
        /\ answered' = answered \cup {pclient[t]}
        /\ pclient' = [pclient EXCEPT ![t] = NoConn]
        /\ UNCHANGED <<mainpc, newConn, accepted, head, tail, next>>
    BY <1>9 DEF Answer
  <2>2. Linked(s)'
    BY <2>1, LinkedKept
  <2>3. Entered' = Entered
    BY <2>1 DEF Entered
  <2>4. pclient[t] # NoConn /\ pclient[t] \in Entered \ (ToSet(s) \cup answered)
    BY <2>1 DEF PoolInv, Placed
  <2>5. /\ pclient'[t] = NoConn /\ pc'[t] = "start"
        /\ \A u \in Threads \ {t} : pclient'[u] = pclient[u] /\ pc'[u] = pc[u]
    BY <2>1, ThreadMoves DEF TypeOK
  <2>6. answered' \subseteq Entered \ ToSet(s)
    BY <2>1, <2>4 DEF Placed
  <2>7. ASSUME NEW u \in Threads, pclient'[u] # NoConn
        PROVE  pclient'[u] \in Entered \ (ToSet(s) \cup answered')
    <3>1. u # t /\ pclient'[u] = pclient[u] /\ pclient[u] # pclient[t]
      BY <2>5, <2>7 DEF Placed
    <3>2. pclient[u] \in Entered \ (ToSet(s) \cup answered)
      BY <2>7, <3>1 DEF Placed
    <3>. QED  BY <2>1, <3>1, <3>2
  <2>8. \A u, v \in Threads : pclient'[u] = pclient'[v] /\ pclient'[u] # NoConn => u = v
    BY <2>5 DEF Placed
  <2>9. ASSUME NEW c \in Entered \ (ToSet(s) \cup answered')
        PROVE  \E u \in Threads : pclient'[u] = c
    <3>1. PICK u \in Threads : pclient[u] = c
      BY <2>1 DEF Placed
    <3>2. u # t
      BY <2>1, <3>1
    <3>. QED  BY <2>5, <3>1, <3>2
  <2>10. \A u \in Threads :
           pc'[u] \notin {"tail", "unlock", "read", "write"} => pclient'[u] = NoConn
    BY <2>5 DEF Placed
  <2>11. Placed(s)'
    BY <2>1, <2>3, <2>6, <2>7, <2>8, <2>9, <2>10 DEF Placed
  <2>. QED  BY <2>1, <2>2, <2>3, <2>11
<1>10. ASSUME NEW t \in Threads, HandlerDies(t) PROVE Entered' = Entered /\ LineInv(s)'
  BY <1>10 DEF HandlerDies, Entered, Linked, Placed
<1>11. ASSUME NEW c \in Conns, ClientExits(c) PROVE Entered' = Entered /\ LineInv(s)'
  BY <1>11 DEF ClientExits, Entered, Linked, Placed
<1>12. CASE UNCHANGED vars
  BY <1>12 DEF vars, Entered, Linked, Placed
<1>. HIDE DEF At, queue, LineInv
<1>. QED  BY <1>1, <1>2, <1>3, <1>4, <1>6, <1>7, <1>8, <1>9, <1>10, <1>11, <1>12, Zenon
            DEF Next, MainStep, ThreadStep

\* Whatever step is taken, the nodes are a list again, and what happened to it is one
\* of the three things.
LEMMA LineStep ==
  ASSUME NEW s, TypeOK, PoolInv, LineInv(s), [Next]_vars
  PROVE  \E r : LineInv(r)' /\ (Rests(s, r) \/ Enqueues(s, r) \/ Dequeues(s, r))
<1>1. CASE LinkNode
  <2>1. PICK c : c = newConn
    OBVIOUS
  <2>. QED  BY <1>1, <2>1, LinkNodeEnters
<1>2. ASSUME NEW t \in Threads, TakeHead(t)
      PROVE  \E r : LineInv(r)' /\ (Rests(s, r) \/ Enqueues(s, r) \/ Dequeues(s, r))
  BY <1>2, TakeHeadTakesFirst
<1>3. CASE ~LinkNode /\ \A t \in Threads : ~TakeHead(t)
  BY <1>3, OthersRest
<1>. QED  BY <1>1, <1>2, <1>3

LEMMA LineInductive == Spec => [](TypeOK /\ PoolInv /\ LineInv(Line))
<1>. DEFINE QueueInv == LineInv(Line)
<1>1. Init => QueueInv
  <2>. SUFFICES ASSUME Init PROVE LineInv(Line)
    OBVIOUS
  <2>1. IsFiniteSet(accepted) /\ accepted \subseteq Conns
    BY FS_EmptySet DEF Init
  <2>2. DOMAIN <<>> = {} /\ <<>> \in Seq(accepted)
    OBVIOUS
  <2>3. Linked(<<>>)
    BY <2>2 DEF Init, Linked
  <2>4. ToSet(<<>>) = {}
    BY <2>2 DEF ToSet
  <2>5. Placed(<<>>)
    BY <2>4 DEF Init, Placed, Entered
  <2>6. Line = <<>>
    BY <2>1, <2>3, LineIsList
  <2>. QED  BY <2>1, <2>3, <2>5, <2>6 DEF LineInv
<1>2. TypeOK /\ PoolInv /\ QueueInv /\ TypeOK' /\ [Next]_vars => QueueInv'
  <2>. SUFFICES ASSUME TypeOK, PoolInv, LineInv(Line), TypeOK', [Next]_vars
                PROVE  LineInv(Line)'
    OBVIOUS
  <2>1. PICK s : s = Line
    OBVIOUS
  <2>2. PICK r : LineInv(r)'
    BY <2>1, LineStep
  <2>3. Line' = r
    BY <2>2, LineIsListAfter DEF LineInv, TypeOK
  <2>. QED  BY <2>2, <2>3
<1>. HIDE DEF QueueInv
<1>3. Spec => []QueueInv
  BY <1>1, <1>2, PoolInductive, PTL DEF Spec
<1>4. QueueInv <=> LineInv(Line)
  BY DEF QueueInv
<1>. QED  BY <1>3, <1>4, PoolInductive, PTL

\* Each connection that entered the queue is in it, with one thread or answered, and in
\* one of these places only, however main, the threads and the clients interleave.
THEOREM EveryConnectionHasOnePlace == Spec => []OnePlace
<1>1. TypeOK /\ LineInv(Line) => OnePlace
  <2>. SUFFICES ASSUME TypeOK, LineInv(Line), NEW c \in Entered
                PROVE  Cardinality({t \in Threads : pclient[t] = c})
                         + (IF c \in ToSet(Line) THEN 1 ELSE 0)
                         + (IF c \in answered THEN 1 ELSE 0) = 1
    BY Zenon DEF OnePlace
  <2>. DEFINE holders == {t \in Threads : pclient[t] = c}
  <2>0. c # NoConn
    BY PoolOwners DEF Entered, TypeOK
  <2>1. CASE c \in ToSet(Line) \cup answered
    <3>1. holders = {}
      BY <2>0, <2>1 DEF LineInv, Placed
    <3>2. Cardinality(holders) = 0
      BY <3>1, FS_EmptySet
    <3>3. c \in ToSet(Line) <=> c \notin answered
      BY <2>1 DEF LineInv, Placed
    <3>. QED  BY <2>1, <3>2, <3>3
  <2>2. CASE c \notin ToSet(Line) \cup answered
    <3>1. PICK t \in Threads : pclient[t] = c
      BY <2>2 DEF LineInv, Placed
    <3>2. holders = {t}
      BY <2>0, <3>1 DEF LineInv, Placed
    <3>3. Cardinality(holders) = 1
      BY <3>2, FS_Singleton
    <3>. QED  BY <2>2, <3>3
  <2>. QED  BY <2>1, <2>2
<1>. QED  BY <1>1, LineInductive, PTL

\* The queue of nodes, shared by main and any number of threads, is the line of
\* ConnectionLine: enqueue enters a connection once and at the end, dequeue takes the
\* first, and nothing else touches it.
THEOREM QueueIsALine == Spec => ImplementsLine
<1>1. Init => QueueLine!Init
  <2>. SUFFICES ASSUME Init PROVE Line = <<>> /\ Entered = {}
    BY DEF QueueLine!Init
  <2>1. IsFiniteSet(accepted) /\ accepted \subseteq Conns
    BY FS_EmptySet DEF Init
  <2>2. Linked(<<>>)
    <3>1. DOMAIN <<>> = {} /\ <<>> \in Seq(accepted)
      OBVIOUS
    <3>. QED  BY <3>1 DEF Init, Linked
  <2>. QED  BY <2>1, <2>2, LineIsList DEF Init, Entered
<1>2. TypeOK /\ PoolInv /\ LineInv(Line) /\ TypeOK' /\ [Next]_vars
        => [QueueLine!Next]_<<Line, Entered>>
  <2>. SUFFICES ASSUME TypeOK, PoolInv, LineInv(Line), TypeOK', [Next]_vars
                PROVE  [QueueLine!Next]_<<Line, Entered>>
    OBVIOUS
  <2>1. PICK s : s = Line
    OBVIOUS
  <2>2. PICK r : LineInv(r)' /\ (Rests(s, r) \/ Enqueues(s, r) \/ Dequeues(s, r))
    BY <2>1, LineStep
  <2>3. Line' = r
    BY <2>2, LineIsListAfter DEF LineInv, TypeOK
  <2>. QED  BY <2>1, <2>2, <2>3
              DEF Rests, Enqueues, Dequeues, QueueLine!Next, QueueLine!Enter, QueueLine!TakeFirst
<1>. QED  BY <1>1, <1>2, LineInductive, PoolInductive, PTL DEF Spec, ImplementsLine, QueueLine!Spec

-------------------------------------------------------------------------------
(* Signals and waiting threads. *)

\* A signal is heard when a thread waits for it.
Heard == SignalAndUnlock => \E t \in Threads : pc[t] = "waiting"

\* The threads whose wait has returned and that are to take a connection.
Coming == {t \in Threads : pc[t] \in {"woken", "dequeue"}}

\* Main between linking a connection and signalling it.
ToAnnounce == IF mainpc \in {"tail", "signal"} THEN 1 ELSE 0

\* Every connection in the line has a thread coming for it, or main is about to wake one.
Announced == Len(Line) <= Cardinality(Coming) + ToAnnounce

LEMMA ComingIsFinite == IsFiniteSet(Coming) /\ Cardinality(Coming) \in Nat
<1>1. IsFiniteSet(Threads) /\ Coming \in SUBSET Threads
  BY PoolAssumption DEF PoolAssumption, Coming
<1>2. IsFiniteSet(Coming)
  BY <1>1, FS_Subset
<1>. QED  BY <1>2, FS_CardinalityType

LEMMA ComingIsFiniteAfter == IsFiniteSet(Coming') /\ Cardinality(Coming') \in Nat
<1>1. IsFiniteSet(Threads) /\ Coming' \in SUBSET Threads
  BY PoolAssumption DEF PoolAssumption, Coming
<1>2. IsFiniteSet(Coming')
  BY <1>1, FS_Subset
<1>. QED  BY <1>2, FS_CardinalityType

\* A thread stops coming only by what it finds in the queue, and main is done announcing
\* only with a signal.
LEMMA ComingKept ==
  ASSUME TypeOK, [Next]_vars, ~SignalAndUnlock, ~LinkNode,
         \A t \in Threads : ~TakeHead(t) /\ ~FindEmpty(t)
  PROVE  Coming \subseteq Coming' /\ ToAnnounce' = ToAnnounce
<1>. USE DEF At, Coming, ToAnnounce
<1>1. ASSUME NEW c \in Conns, Accept(c) \/ ClientExits(c)
      PROVE  Coming \subseteq Coming' /\ ToAnnounce' = ToAnnounce
  BY <1>1 DEF Accept, ClientExits
<1>2. CASE MainLocks \/ MoveTail
  BY <1>2 DEF MainLocks, MoveTail
<1>3. ASSUME NEW t \in Threads, NEW p, Goto(t, p), UNCHANGED mainpc,
             pc[t] \in {"woken", "dequeue"} => p \in {"woken", "dequeue"}
      PROVE  Coming \subseteq Coming' /\ ToAnnounce' = ToAnnounce
  BY <1>3, ThreadMoves
<1>4. ASSUME NEW t \in Threads, ThreadStep(t) \/ SpuriousWake(t)
      PROVE  Coming \subseteq Coming' /\ ToAnnounce' = ToAnnounce
  <2>1. CASE HandlerDies(t)
    BY <2>1 DEF HandlerDies
  <2>2. CASE LockQueue(t) \/ Wait(t) \/ SpuriousWake(t) \/ Relock(t)
    BY <1>3, <2>2 DEF LockQueue, Wait, SpuriousWake, Relock
  <2>3. CASE ResetTail(t) \/ UnlockQueue(t) \/ Read(t) \/ Answer(t)
    BY <1>3, <2>3 DEF ResetTail, UnlockQueue, Read, Answer
  <2>. QED  BY <1>4, <2>1, <2>2, <2>3 DEF ThreadStep
<1>5. CASE UNCHANGED vars
  BY <1>5 DEF vars
<1>. QED  BY <1>1, <1>2, <1>4, <1>5 DEF Next, MainStep

\* What each of the other steps does to the threads that are coming.
LEMMA SignalSendsOne ==
  ASSUME TypeOK, Heard, SignalAndUnlock
  PROVE  Cardinality(Coming') + ToAnnounce' = Cardinality(Coming) + ToAnnounce
<1>1. PICK t \in Threads : pc[t] = "waiting" /\ Goto(t, "woken")
  BY DEF Heard, SignalAndUnlock
<1>2. t \notin Coming /\ Coming' = Coming \cup {t}
  BY <1>1, ThreadMoves DEF Coming
<1>3. Cardinality(Coming') = Cardinality(Coming) + 1
  BY <1>2, ComingIsFinite, FS_AddElement
<1>4. ToAnnounce = 1 /\ ToAnnounce' = 0
  BY DEF SignalAndUnlock, ToAnnounce
<1>. QED  BY <1>3, <1>4, ComingIsFinite

LEMMA TakerHasCome ==
  ASSUME TypeOK, NEW t \in Threads, TakeHead(t)
  PROVE  Cardinality(Coming') = Cardinality(Coming) - 1 /\ ToAnnounce' = ToAnnounce
<1>1. pc[t] = "dequeue" /\ Goto(t, "tail") /\ UNCHANGED mainpc
  BY DEF TakeHead, At
<1>2. t \in Coming /\ Coming' = Coming \ {t}
  BY <1>1, ThreadMoves DEF Coming
<1>3. Cardinality(Coming') = Cardinality(Coming) - 1
  BY <1>2, ComingIsFinite, FS_RemoveElement
<1>. QED  BY <1>1, <1>3 DEF ToAnnounce

\* With every signal heard, each step leaves a thread for each connection in the line.
LEMMA AnnouncedStep ==
  ASSUME TypeOK, PoolInv, LineInv(Line), TypeOK', Announced, [Next]_vars, [Heard]_vars
  PROVE  Announced'
<1>1. PICK s : s = Line
  OBVIOUS
<1>2. /\ LineInv(s) /\ s \in Seq(accepted) /\ Len(s) \in Nat
      /\ Len(s) <= Cardinality(Coming) + ToAnnounce
  BY <1>1, LenProperties DEF LineInv, Linked, Announced
<1>3. /\ ToAnnounce \in Nat /\ ToAnnounce' \in Nat
      /\ Cardinality(Coming) \in Nat /\ Cardinality(Coming') \in Nat
  BY ComingIsFinite, ComingIsFiniteAfter DEF ToAnnounce
<1>4. ASSUME NEW r, LineInv(r)' PROVE Line' = r
  BY <1>4, LineIsListAfter DEF LineInv, TypeOK
<1>5. ASSUME LinkNode PROVE Announced'
  <2>1. PICK c : c = newConn
    OBVIOUS
  <2>2. LineInv(Append(s, c))'
    BY <1>2, <1>5, <2>1, LinkNodeEnters
  <2>3. Line' = Append(s, c)
    BY <1>4, <2>2
  <2>4. Append(s, c) \in Seq(accepted \cup {c}) /\ Len(Append(s, c)) = Len(s) + 1
    BY <1>2
  <2>5. Coming' = Coming /\ ToAnnounce = 0 /\ ToAnnounce' = 1
    BY <1>5 DEF LinkNode, Coming, ToAnnounce
  <2>. QED  BY <1>2, <1>3, <2>3, <2>4, <2>5 DEF Announced
<1>6. ASSUME NEW t \in Threads, TakeHead(t) PROVE Announced'
  <2>1. Dequeues(s, Tail(s)) /\ LineInv(Tail(s))'
    BY <1>2, <1>6, TakeHeadTakesFirst
  <2>2. Line' = Tail(s)
    BY <1>4, <2>1
  <2>3. Len(Tail(s)) = Len(s) - 1
    BY <1>2, <2>1 DEF Dequeues
  <2>4. Cardinality(Coming') = Cardinality(Coming) - 1 /\ ToAnnounce' = ToAnnounce
    BY <1>6, TakerHasCome
  <2>. QED  BY <1>2, <1>3, <2>2, <2>3, <2>4 DEF Announced
<1>7. ASSUME ~LinkNode, \A t \in Threads : ~TakeHead(t) PROVE Announced'
  <2>1. Line' = s
    BY <1>2, <1>4, <1>7, OthersRest
  <2>2. ASSUME SignalAndUnlock PROVE Announced'
    <3>1. Heard
      BY <2>2 DEF SignalAndUnlock, vars
    <3>. QED  BY <1>2, <1>3, <2>1, <2>2, <3>1, SignalSendsOne DEF Announced
  <2>3. ASSUME NEW t \in Threads, FindEmpty(t) PROVE Announced'
    <3>1. head = NoConn
      BY <2>3 DEF FindEmpty
    <3>2. s = <<>>
      <4>1. ASSUME s # <<>> PROVE FALSE
        <5>1. Len(s) > 0 /\ 1 \in DOMAIN s
          BY <1>2, <4>1, LenProperties, EmptySeq
        <5>2. s[1] \in accepted
          BY <1>2, <5>1, LenProperties, ElementOfSeq
        <5>. QED  BY <1>2, <3>1, <4>1, <5>2, PoolOwners DEF LineInv, Linked, TypeOK
      <4>. QED  BY <4>1
    <3>3. Len(s) = 0
      BY <3>2
    <3>. QED  BY <1>3, <2>1, <3>3 DEF Announced
  <2>4. ASSUME ~SignalAndUnlock, \A t \in Threads : ~FindEmpty(t) PROVE Announced'
    <3>1. Coming \subseteq Coming' /\ ToAnnounce' = ToAnnounce
      BY <1>7, <2>4, ComingKept
    <3>2. Cardinality(Coming) <= Cardinality(Coming')
      BY <3>1, ComingIsFiniteAfter, FS_Subset
    <3>. QED  BY <1>2, <1>3, <2>1, <3>1, <3>2 DEF Announced
  <2>. QED  BY <2>2, <2>3, <2>4
<1>. QED  BY <1>5, <1>6, <1>7

\* As long as every signal finds a thread that waits, there are at least as many threads
\* on their way to the queue as connections in it: that AvailableThreadFinds fails is due
\* to nothing but signals sent while no thread waits.
THEOREM HeardSignalsReachAll == Spec /\ [][Heard]_vars => []Announced
<1>1. Init => Announced
  <2>. SUFFICES ASSUME Init PROVE Announced
    OBVIOUS
  <2>1. IsFiniteSet(accepted) /\ accepted \subseteq Conns
    BY FS_EmptySet DEF Init
  <2>2. DOMAIN <<>> = {} /\ <<>> \in Seq(accepted)
    OBVIOUS
  <2>3. Linked(<<>>)
    BY <2>2 DEF Init, Linked
  <2>4. Line = <<>>
    BY <2>1, <2>3, LineIsList
  <2>5. Len(Line) = 0 /\ ToAnnounce \in Nat
    BY <2>4 DEF ToAnnounce
  <2>. QED  BY <2>5, ComingIsFinite DEF Announced
<1>2. TypeOK /\ PoolInv /\ LineInv(Line) /\ TypeOK' /\ Announced /\ [Next]_vars /\ [Heard]_vars
        => Announced'
  BY AnnouncedStep
<1>. QED  BY <1>1, <1>2, LineInductive, PTL DEF Spec
===============================================================================
