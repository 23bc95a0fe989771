------------------------------ MODULE ThreadPool ------------------------------
(***************************************************************************)
(* The thread pool server of client_server_threads: main accepts           *)
(* connections and puts them in the queue of myqueue.c, the threads of the *)
(* pool wait on condition_var, take one connection each and answer it.     *)
(*                                                                         *)
(* A step is what one thread does between two accesses to shared state.    *)
(* The node of a connection and the int that holds its descriptor are one  *)
(* element of Conns.                                                       *)
(***************************************************************************)
EXTENDS Naturals, Sequences, FiniteSets, SequencesExt, NodeChains

CONSTANTS
  Threads,      \* thread_pool
  Conns,        \* the connections clients open, each once
  Silent,       \* those whose client sends no newline as long as it lives
  Quitters,     \* those whose client may exit
  MaxSpurious,  \* how often a wait may return without a signal
  NoConn        \* NULL, and the owner of a free mutex

Main == "main"   \* the thread of main() as a mutex owner

ASSUME PoolAssumption ==
  /\ Silent \subseteq Conns /\ Quitters \subseteq Conns
  /\ IsFiniteSet(Threads)
  /\ MaxSpurious \in Nat
  /\ NoConn \notin Conns \cup Threads /\ Main \notin Threads /\ NoConn # Main

VARIABLES
  server,    \* "up", or "died" by err_n_die or a signal
  mutex,     \* the owner of mutex
  mainpc,    \* where main is
  newConn,   \* pclient of main
  accepted,  \* the connections accept has returned for
  badFd,     \* those for which it returned -1
  head, tail, next,   \* the queue
  pc,        \* where each thread is; at "waiting" it waits on condition_var
  pclient,   \* pclient of each thread
  answered,  \* the connections answered and closed
  gone,      \* the connections whose client has exited
  spurious   \* how many waits have returned without a signal

queue == <<head, tail, next>>
vars == <<server, mutex, mainpc, newConn, accepted, badFd, queue, pc, pclient,
          answered, gone, spurious>>

Places == {"start", "locked", "waiting", "woken", "dequeue", "tail", "unlock",
           "read", "write"}

TypeOK ==
  /\ server \in {"up", "died"}
  /\ mutex \in Threads \cup {Main, NoConn}
  /\ mainpc \in {"accept", "lock", "link", "tail", "signal"}
  /\ newConn \in Conns \cup {NoConn}
  /\ accepted \subseteq Conns /\ badFd \subseteq accepted
  /\ head \in Conns \cup {NoConn} /\ tail \in Conns \cup {NoConn}
  /\ next \in [Conns -> Conns \cup {NoConn}]
  /\ pc \in [Threads -> Places]
  /\ pclient \in [Threads -> Conns \cup {NoConn}]
  /\ answered \subseteq Conns /\ gone \subseteq Conns
  /\ spurious \in 0..MaxSpurious

Init ==
  /\ server = "up" /\ mutex = NoConn /\ mainpc = "accept" /\ newConn = NoConn
  /\ accepted = {} /\ badFd = {}
  /\ head = NoConn /\ tail = NoConn /\ next = [c \in Conns |-> NoConn]
  /\ pc = [t \in Threads |-> "start"] /\ pclient = [t \in Threads |-> NoConn]
  /\ answered = {} /\ gone = {} /\ spurious = 0

At(t, p) == server = "up" /\ pc[t] = p
Goto(t, p) == pc' = [pc EXCEPT ![t] = p]

\* pthread_mutex_lock and pthread_mutex_unlock of mutex by thread t.
LockUnchecked(t) == mutex' = t
Lock(t) == mutex = NoConn /\ mutex' = t
UnlockForgotten == UNCHANGED mutex
Unlock == mutex' = NoConn

-------------------------------------------------------------------------------
(* main. *)

\* accept is given a length it never set, so it may fail with any connection; main
\* queues what it returns unchecked.
Accept(c) ==
  /\ server = "up" /\ mainpc = "accept" /\ c \notin accepted
  /\ accepted' = accepted \cup {c}
  /\ badFd' \in {badFd, badFd \cup {c}}
  /\ newConn' = c /\ mainpc' = "lock"
  /\ UNCHANGED <<server, mutex, queue, pc, pclient, answered, gone, spurious>>

MainLocks ==
  /\ server = "up" /\ mainpc = "lock" /\ Lock(Main) /\ mainpc' = "link"
  /\ UNCHANGED <<server, newConn, accepted, badFd, queue, pc, pclient, answered,
                 gone, spurious>>

\* enqueue: the new node becomes the head, or the successor of the tail...
LinkNode ==
  /\ server = "up" /\ mainpc = "link" /\ mainpc' = "tail"
  /\ IF tail = NoConn THEN head' = newConn /\ next' = [next EXCEPT ![newConn] = NoConn]
     ELSE head' = head /\ next' = [next EXCEPT ![newConn] = NoConn, ![tail] = newConn]
  /\ UNCHANGED <<server, mutex, newConn, accepted, badFd, tail, pc, pclient, answered,
                 gone, spurious>>

\* ... and then the tail.
MoveTail ==
  /\ server = "up" /\ mainpc = "tail" /\ mainpc' = "signal"
  /\ tail' = newConn
  /\ UNCHANGED <<server, mutex, newConn, accepted, badFd, head, next, pc, pclient,
                 answered, gone, spurious>>

\* pthread_cond_signal wakes one of the waiting threads; with none it does nothing.
SignalAndUnlock ==
  /\ server = "up" /\ mainpc = "signal" /\ mainpc' = "accept"
  /\ \/ \E t \in Threads : pc[t] = "waiting" /\ Goto(t, "woken")
     \/ (\A t \in Threads : pc[t] # "waiting") /\ UNCHANGED pc
  /\ Unlock /\ newConn' = NoConn
  /\ UNCHANGED <<server, accepted, badFd, queue, pclient, answered, gone, spurious>>

MainStep == MainLocks \/ LinkNode \/ MoveTail \/ SignalAndUnlock

-------------------------------------------------------------------------------
(* thread_function. *)

LockQueue(t) ==
  /\ At(t, "start") /\ Lock(t) /\ Goto(t, "locked")
  /\ UNCHANGED <<server, mainpc, newConn, accepted, badFd, queue, pclient, answered,
                 gone, spurious>>

\* pthread_cond_wait releases the mutex, whether or not a connection is queued.
Wait(t) ==
  /\ At(t, "locked") /\ Unlock /\ Goto(t, "waiting")
  /\ UNCHANGED <<server, mainpc, newConn, accepted, badFd, queue, pclient, answered,
                 gone, spurious>>

\* A wait may return without a signal.
SpuriousWake(t) ==
  /\ At(t, "waiting") /\ spurious < MaxSpurious
  /\ spurious' = spurious + 1 /\ Goto(t, "woken")
  /\ UNCHANGED <<server, mutex, mainpc, newConn, accepted, badFd, queue, pclient,
                 answered, gone>>

Relock(t) ==
  /\ At(t, "woken") /\ Lock(t) /\ Goto(t, "dequeue")
  /\ UNCHANGED <<server, mainpc, newConn, accepted, badFd, queue, pclient, answered,
                 gone, spurious>>

\* dequeue of an empty queue: another thread has taken the connection.
FindEmpty(t) ==
  /\ At(t, "dequeue") /\ head = NoConn
  /\ Goto(t, "unlock")
  /\ UNCHANGED <<server, mutex, mainpc, newConn, accepted, badFd, queue, pclient,
                 answered, gone, spurious>>

\* dequeue: the head moves on, and the tail is reset when the queue is empty.
TakeHead(t) ==
  /\ At(t, "dequeue") /\ head # NoConn
  /\ pclient' = [pclient EXCEPT ![t] = head]
  /\ head' = next[head]
  /\ Goto(t, "tail")
  /\ UNCHANGED <<server, mutex, mainpc, newConn, accepted, badFd, tail, next, answered,
                 gone, spurious>>

\* The tail after a removal; a stale one would point at the freed node.
TailKept == tail
TailAfter == IF head = NoConn THEN NoConn ELSE tail
ResetTail(t) ==
  /\ At(t, "tail") /\ Goto(t, "unlock")
  /\ tail' = TailAfter
  /\ UNCHANGED <<server, mutex, mainpc, newConn, accepted, badFd, head, next, pclient,
                 answered, gone, spurious>>

\* thread_function handles what it got from dequeue unless that is NULL.
HandleUnchecked(t) == "read"
AfterUnlock(t) == IF pclient[t] = NoConn THEN "start" ELSE "read"
UnlockQueue(t) ==
  /\ At(t, "unlock") /\ Unlock
  /\ Goto(t, AfterUnlock(t))
  /\ UNCHANGED <<server, mainpc, newConn, accepted, badFd, queue, pclient, answered,
                 gone, spurious>>

-------------------------------------------------------------------------------
(* handle_connection. *)

\* The read loop ends at a newline, which a silent client never sends, and at the end
\* of the input.
EndsAtEof(c) == c \in gone
MessageEnds(c) == c \notin Silent \/ c \in gone

\* read has returned the end of a message.  Until then the client keeps its thread.
Read(t) ==
  /\ At(t, "read") /\ pclient[t] \notin badFd
  /\ MessageEnds(pclient[t])
  /\ Goto(t, "write")
  /\ UNCHANGED <<server, mutex, mainpc, newConn, accepted, badFd, queue, pclient,
                 answered, gone, spurious>>

\* The response is written and the connection closed.
Answer(t) ==
  /\ At(t, "write") /\ Goto(t, "start")
  /\ answered' = answered \cup {pclient[t]}
  /\ pclient' = [pclient EXCEPT ![t] = NoConn]
  /\ UNCHANGED <<server, mutex, mainpc, newConn, accepted, badFd, queue, gone, spurious>>

\* A read that fails calls err_n_die, a write to a reset connection raises SIGPIPE:
\* either ends the process with every other connection.
HandlerDies(t) ==
  /\ \/ At(t, "read") /\ pclient[t] \in badFd \cup gone
     \/ At(t, "write") /\ pclient[t] \in gone
  /\ server' = "died"
  /\ UNCHANGED <<mutex, mainpc, newConn, accepted, badFd, queue, pc, pclient, answered,
                 gone, spurious>>

\* A client exits, maybe while its connection is still in the queue.
ClientExits(c) ==
  /\ server = "up" /\ c \in (Quitters \cap accepted) \ (gone \cup badFd)
  /\ gone' = gone \cup {c}
  /\ UNCHANGED <<server, mutex, mainpc, newConn, accepted, badFd, queue, pc, pclient,
                 answered, spurious>>

ThreadStep(t) ==
  \/ LockQueue(t) \/ Wait(t) \/ Relock(t) \/ FindEmpty(t) \/ TakeHead(t) \/ ResetTail(t)
  \/ UnlockQueue(t) \/ Read(t) \/ Answer(t) \/ HandlerDies(t)

Next ==
  \/ MainStep
  \/ \E t \in Threads : ThreadStep(t) \/ SpuriousWake(t)
  \/ \E c \in Conns : Accept(c) \/ ClientExits(c)

Spec == Init /\ [][Next]_vars

\* The operating system keeps scheduling main and every thread of the pool.  Nothing
\* is assumed of clients, nor of waits returning without a signal.
FairSpec == Spec /\ WF_vars(MainStep) /\ \A t \in Threads : WF_vars(ThreadStep(t))
-------------------------------------------------------------------------------
(* Correctness. *)

\* mutex is held exactly by the thread between a lock or a wait that returned and the
\* following unlock or wait, and whoever gets it finds head and tail in agreement:
\* both NULL, or neither.
QueueConsistent ==
  /\ mutex = Main <=> mainpc \in {"link", "tail", "signal"}
  /\ \A t \in Threads : mutex = t <=> pc[t] \in {"locked", "dequeue", "tail", "unlock"}
  /\ mutex = NoConn => (head = NoConn <=> tail = NoConn)

\* The nodes from head on.
Line == Chain(head, next, NoConn, Cardinality(accepted))

\* The connections enqueue has linked.
Entered == accepted \ (IF mainpc \in {"lock", "link"} THEN {newConn} ELSE {})

\* The queue as main and the threads share it is a first-in first-out line: none of
\* their interleavings loses a connection, lets one overtake or enters it twice.
QueueLine == INSTANCE ConnectionLine WITH line <- Line, entered <- Entered
ImplementsLine == QueueLine!Spec

\* A connection that entered the queue is in it, in the hands of one thread or
\* answered, and in one of these places only: no two threads answer the same client,
\* and none closes a connection that is still to be served.
OnePlace ==
  \A c \in Entered :
    LET holders == {t \in Threads : pclient[t] = c}
    IN  Cardinality(holders) + (IF c \in ToSet(Line) THEN 1 ELSE 0)
          + (IF c \in answered THEN 1 ELSE 0) = 1

\* A thread with a connection in hand answers it and goes back to wait for another.  Only
\* two things are in the way: the client keeps silent for ever without closing, and then
\* the thread is lost to the pool; or the process exits, and then because some handler's
\* connection was bad or its client gone.
Hopeless == \E t \in Threads : pclient[t] \in badFd \cup gone
TakenIsAnswered ==
  \A t \in Threads :
    pclient[t] # NoConn ~>
      \/ pc[t] = "waiting"
      \/ server = "died" /\ Hopeless
      \/ [](pclient[t] \in Silent \ gone)

\* server_multi_threaded.c:64: "Put the connection somewhere so that an available
\* thread can find it."  A connection in the queue is some time taken by a thread,
\* given that every thread becomes available again.
AvailableThreadFinds ==
  \A c \in Conns : c \in ToSet(Line) ~> (c \notin ToSet(Line) \/ server = "died")
===============================================================================
