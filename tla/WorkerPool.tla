----------------------------- MODULE WorkerPool -----------------------------
(***************************************************************************)
(* The threads in which every request to utuputki runs: the master thread  *)
(* and the workers of the HTTP library (civetweb.c, built without          *)
(* ALTERNATIVE_QUEUE), with the ring buffer of accepted connections        *)
(* between them and its two condition variables, from mg_start to mg_stop. *)
(*                                                                         *)
(* A section under thread_mutex is one action.  stop_flag is written and   *)
(* read without the mutex.                                                 *)
(***************************************************************************)
EXTENDS Integers, Sequences, FiniteSets

CONSTANTS
  Worker,
  QueueSize,  \* sq_size
  MaxConns    \* bound of the number of connections that are accepted

ASSUME PoolBounds ==
  /\ IsFiniteSet(Worker) /\ Worker # {}
  /\ QueueSize \in Nat \ {0}
  /\ MaxConns \in Nat

VARIABLES
  sqHead, sqTail, squeue,
  stopFlag,   \* 0; 1 when mg_stop has been called; 2 when all have stopped
  master,     \* [pc, conn]
  worker,     \* [pc, conn] of each
  accepted    \* connections so far, by which they are numbered

poolVars == <<sqHead, sqTail, squeue, stopFlag, master, worker, accepted>>
queueVars == <<sqHead, sqTail, squeue>>

NoConn == 0
Conn == 1 .. MaxConns

At(pc) == [pc |-> pc, conn |-> NoConn]

PoolInit ==
  /\ sqHead = 0 /\ sqTail = 0 /\ squeue = [i \in 0 .. QueueSize - 1 |-> NoConn]
  /\ stopFlag = 0 /\ accepted = 0
  /\ master = At("absent") /\ worker = [w \in Worker |-> At("absent")]

(* All threads are created; each begins when it is scheduled.              *)
MgStart ==
  /\ master.pc = "absent"
  /\ master' = At("accept") /\ worker' = [w \in Worker |-> At("consume")]
  /\ UNCHANGED <<queueVars, stopFlag, accepted>>

-----------------------------------------------------------------------------
(* The master thread.                                                      *)

QueueFilled == sqHead - sqTail

QueueFull == QueueFilled >= QueueSize

Waiting == {w \in Worker : worker[w].pc = "waiting"}

(* Mutant: the signal is forgotten.                                        *)
SignalFull_Forgotten == UNCHANGED worker

(* pthread_cond_signal(&sq_full)                                           *)
SignalFull ==
  IF Waiting = {} THEN UNCHANGED worker
  ELSE \E w \in Waiting : worker' = [worker EXCEPT ![w].pc = "consume"]

AcceptNewConnection ==
  /\ master.pc = "accept" /\ stopFlag = 0
  /\ accepted < MaxConns
  /\ accepted' = accepted + 1
  /\ master' = [pc |-> "produce", conn |-> accepted']
  /\ UNCHANGED <<queueVars, stopFlag, worker>>

(* produce_socket: the queue is full, wait for a worker to take something. *)
WaitEmpty ==
  /\ master.pc = "produce" /\ QueueFull /\ stopFlag = 0
  /\ master' = [master EXCEPT !.pc = "blocked"]
  /\ UNCHANGED <<queueVars, stopFlag, worker, accepted>>

ProduceSocket ==
  /\ master.pc = "produce" /\ ~QueueFull
  /\ squeue' = [squeue EXCEPT ![sqHead % QueueSize] = master.conn]
  /\ sqHead' = sqHead + 1
  /\ SignalFull
  /\ master' = At("accept")
  /\ UNCHANGED <<sqTail, stopFlag, accepted>>

(* Still full, and the server stops: the connection is forgotten.          *)
DropSocket ==
  /\ master.pc = "produce" /\ QueueFull /\ stopFlag # 0
  /\ SignalFull
  /\ master' = At("accept")
  /\ UNCHANGED <<queueVars, stopFlag, accepted>>

(* Mutant: nobody is woken.                                                *)
StopWorkers_NoBroadcast ==
  /\ master.pc = "accept" /\ stopFlag # 0
  /\ master' = At("join")
  /\ UNCHANGED <<queueVars, stopFlag, worker, accepted>>

(* The accept loop sees stop_flag: broadcast, and join the workers.        *)
StopWorkers ==
  /\ master.pc = "accept" /\ stopFlag # 0
  /\ worker' = [w \in Worker |-> IF w \in Waiting THEN At("consume") ELSE worker[w]]
  /\ master' = At("join")
  /\ UNCHANGED <<queueVars, stopFlag, accepted>>

JoinWorkers ==
  /\ master.pc = "join" /\ \A w \in Worker : worker[w].pc = "exited"
  /\ stopFlag' = 2
  /\ master' = At("exited")
  /\ UNCHANGED <<queueVars, worker, accepted>>

-----------------------------------------------------------------------------
(* A worker.                                                               *)

(* consume_socket: the queue is empty, wait.                               *)
WaitFull(w) ==
  /\ worker[w].pc = "consume" /\ sqHead = sqTail /\ stopFlag = 0
  /\ worker' = [worker EXCEPT ![w].pc = "waiting"]
  /\ UNCHANGED <<queueVars, stopFlag, master, accepted>>

(* pthread_cond_signal(&sq_empty)                                          *)
SignalEmpty ==
  master' = IF master.pc = "blocked" THEN [master EXCEPT !.pc = "produce"] ELSE master

(* Mutant: only sqTail is wrapped.                                         *)
WrapPointers_TailOnly(tail) ==
  /\ sqTail' = IF tail > QueueSize THEN tail - QueueSize ELSE tail
  /\ UNCHANGED sqHead

(* Mutant: nothing is wrapped.                                             *)
WrapPointers_Never(tail) == sqTail' = tail /\ UNCHANGED sqHead

(* Once is enough, since sqTail was not above QueueSize.                   *)
WrapPointers(tail) ==
  LET by == IF tail > QueueSize THEN QueueSize ELSE 0
  IN  sqTail' = tail - by /\ sqHead' = sqHead - by

ConsumeSocket(w) ==
  /\ worker[w].pc = "consume" /\ sqHead > sqTail
  /\ worker' = [worker EXCEPT ![w] = [pc   |-> "return",
                                      conn |-> squeue[sqTail % QueueSize]]]
  /\ WrapPointers(sqTail + 1)
  /\ SignalEmpty
  /\ UNCHANGED <<squeue, stopFlag, accepted>>

(* The server stops and the queue is empty.                                *)
ConsumeNothing(w) ==
  /\ worker[w].pc = "consume" /\ sqHead = sqTail /\ stopFlag # 0
  /\ worker' = [worker EXCEPT ![w].pc = "return"]
  /\ SignalEmpty
  /\ UNCHANGED <<queueVars, stopFlag, accepted>>

(* stop_flag is read again, the mutex released: a connection that was      *)
(* taken is not served any more.                                           *)
ReturnSocket(w) ==
  /\ worker[w].pc = "return"
  /\ worker' = [worker EXCEPT ![w] = IF stopFlag = 0 THEN [@ EXCEPT !.pc = "busy"]
                                     ELSE At("exited")]
  /\ UNCHANGED <<queueVars, stopFlag, master, accepted>>

(* process_new_connection: the handlers of WebServer.cpp run, and return.  *)
ProcessConnection(w) ==
  /\ worker[w].pc = "busy"
  /\ worker' = [worker EXCEPT ![w] = At("consume")]
  /\ UNCHANGED <<queueVars, stopFlag, master, accepted>>

(* A condition variable may wake for no reason.                            *)
SpuriousWakeup ==
  /\ \/ master.pc = "blocked" /\ SignalEmpty /\ UNCHANGED worker
     \/ Waiting # {} /\ SignalFull /\ UNCHANGED master
  /\ UNCHANGED <<queueVars, stopFlag, accepted>>

(* mg_stop sets the flag, without the mutex, and waits for stopFlag = 2.   *)
MgStop ==
  /\ stopFlag = 0 /\ master.pc # "absent"
  /\ stopFlag' = 1
  /\ UNCHANGED <<queueVars, master, worker, accepted>>

-----------------------------------------------------------------------------
MasterStep ==
  ProduceSocket \/ DropSocket \/ WaitEmpty \/ StopWorkers \/ JoinWorkers

WorkerStep(w) ==
  ConsumeSocket(w) \/ ConsumeNothing(w) \/ WaitFull(w) \/ ReturnSocket(w)

PoolNext ==
  \/ MgStart \/ MgStop
  \/ AcceptNewConnection \/ MasterStep
  \/ \E w \in Worker : WorkerStep(w) \/ ProcessConnection(w)
  \/ SpuriousWakeup

PoolSpec == PoolInit /\ [][PoolNext]_poolVars

-----------------------------------------------------------------------------
PoolTypeOK ==
  /\ sqHead \in 0 .. 2 * QueueSize /\ sqTail \in 0 .. QueueSize
  /\ squeue \in [0 .. QueueSize - 1 -> {NoConn} \cup Conn]
  /\ stopFlag \in 0 .. 2 /\ accepted \in 0 .. MaxConns
  /\ master \in [pc : {"absent", "accept", "produce", "blocked", "join", "exited"},
                 conn : {NoConn} \cup Conn]
  /\ worker \in [Worker -> [pc : {"absent", "consume", "waiting", "return", "busy",
                                  "exited"},
                            conn : {NoConn} \cup Conn]]

(* No wakeup is lost on either condition variable (civetweb.c:19634 and    *)
(* 19678).  While workers sleep, as many others are on their way to the    *)
(* queue as there are connections in it, although a busy worker may take   *)
(* what another one was woken for; and the master waits only for a queue   *)
(* that is full.                                                           *)
Consuming == {w \in Worker : worker[w].pc = "consume"}

NoConnectionForgotten ==
  /\ Waiting # {} => Cardinality(Consuming) >= QueueFilled
  /\ master.pc = "blocked" => QueueFilled = QueueSize

(* The ring buffer is a bounded queue, first in first out, from which each *)
(* connection goes to one worker.                                          *)
Queued == [i \in 1 .. QueueFilled |-> squeue[(sqTail + i - 1) % QueueSize]]

Queue == INSTANCE ConnectionQueue WITH
  Capacity <- QueueSize,
  arriving <- master.conn,
  queue    <- Queued,
  serving  <- [w \in Worker |-> worker[w].conn]

ServedInOrder == Queue!Spec
=============================================================================
