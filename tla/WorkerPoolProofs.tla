-------------------------- MODULE WorkerPoolProofs --------------------------
(***************************************************************************)
(* Proofs about WorkerPool, for any number of workers and any size of the  *)
(* ring: the indices stay in bounds, no connection is forgotten, and the   *)
(* ring is a bounded queue (ConnectionQueue).                              *)
(***************************************************************************)
EXTENDS WorkerPool, FiniteSetTheorems, SequenceTheorems, TLAPS

(* Who has a connection in hand, by where it is; and nobody is there       *)
(* before mg_start.                                                        *)
HandsInv ==
  /\ master.pc \in {"absent", "accept", "join", "exited"} => master.conn = NoConn
  /\ master.pc \in {"produce", "blocked"} => master.conn # NoConn
  /\ \A w \in Worker :
       /\ worker[w].pc \in {"absent", "consume", "waiting", "exited"} =>
            worker[w].conn = NoConn
       /\ master.pc = "absent" => worker[w].pc = "absent"
       /\ worker[w].pc = "return" /\ worker[w].conn = NoConn => stopFlag # 0
       /\ worker[w].pc = "busy" => worker[w].conn # NoConn

RingInv ==
  /\ QueueFilled \in 0 .. QueueSize
  /\ \A i \in 1 .. QueueFilled : squeue[(sqTail + i - 1) % QueueSize] # NoConn

PoolInv == PoolTypeOK /\ RingInv /\ HandsInv /\ NoConnectionForgotten

-----------------------------------------------------------------------------
(* Arithmetic of the ring: the indices in use go round at most once.       *)
LEMMA Slot ==
  ASSUME NEW i \in 0 .. 2 * QueueSize - 1
  PROVE  /\ i < QueueSize => i % QueueSize = i
         /\ i >= QueueSize => i % QueueSize = i - QueueSize
         /\ i % QueueSize = i \/ i % QueueSize = i - QueueSize
         /\ i % QueueSize \in 0 .. QueueSize - 1
<1>1. QueueSize \in Nat \ {0} /\ i \in Nat
  BY PoolBounds
<1>2. CASE i < QueueSize
  BY <1>1, <1>2
<1>3. CASE i >= QueueSize
  BY <1>1, <1>3
<1> QED
  BY <1>1, <1>2, <1>3

(* Taking one away wraps both indices or none, and leaves every slot where *)
(* it is.                                                                  *)
LEMMA Wrapped ==
  ASSUME PoolTypeOK, RingInv, sqHead > sqTail, WrapPointers(sqTail + 1)
  PROVE  /\ sqHead' - sqTail' = sqHead - sqTail - 1
         /\ sqTail' \in 0 .. QueueSize /\ sqHead' \in 0 .. 2 * QueueSize
         /\ \A i \in 1 .. sqHead - sqTail - 1 :
              (sqTail' + i - 1) % QueueSize = (sqTail + i) % QueueSize
<1>1. QueueSize \in Nat \ {0} /\ sqTail \in 0 .. QueueSize /\ sqHead \in Int
      /\ sqHead - sqTail \in 1 .. QueueSize
  BY PoolBounds DEF PoolTypeOK, RingInv, QueueFilled
<1>2. CASE sqTail < QueueSize
  <2>1. sqTail' = sqTail + 1 /\ sqHead' = sqHead
    BY <1>1, <1>2 DEF WrapPointers
  <2> QED
    BY <1>1, <1>2, <2>1
<1>3. CASE sqTail = QueueSize
  <2>1. sqTail' = 1 /\ sqHead' = sqHead - QueueSize
    BY <1>1, <1>3 DEF WrapPointers
  <2>2. ASSUME NEW i \in 1 .. sqHead - sqTail - 1
        PROVE  (sqTail' + i - 1) % QueueSize = (sqTail + i) % QueueSize
    <3>1. i \in 0 .. 2 * QueueSize - 1 /\ sqTail + i \in 0 .. 2 * QueueSize - 1
          /\ i < QueueSize /\ sqTail' + i - 1 = i
      BY <1>1, <1>3, <2>1
    <3>2. i % QueueSize = i
      BY <3>1, Slot
    <3>3. (sqTail + i) % QueueSize = i
      BY <1>1, <1>3, <3>1, Slot
    <3> QED
      BY <3>1, <3>2, <3>3
  <2> QED
    BY <1>1, <1>3, <2>1, <2>2
<1> QED
  BY <1>1, <1>2, <1>3

(* A value put into the slot at sqHead follows the ones that are there.    *)
LEMMA Produced ==
  ASSUME PoolTypeOK, RingInv, ~QueueFull, NEW conn,
         squeue' = [squeue EXCEPT ![sqHead % QueueSize] = conn]
  PROVE  /\ \A i \in 1 .. QueueFilled :
              squeue'[(sqTail + i - 1) % QueueSize] = squeue[(sqTail + i - 1) % QueueSize]
         /\ squeue'[sqHead % QueueSize] = conn
         /\ sqHead % QueueSize \in 0 .. QueueSize - 1
<1>1. QueueSize \in Nat \ {0} /\ sqTail \in 0 .. QueueSize /\ sqHead \in Int
      /\ sqHead - sqTail \in 0 .. QueueSize - 1
      /\ squeue \in [0 .. QueueSize - 1 -> {NoConn} \cup Conn]
  BY PoolBounds DEF PoolTypeOK, RingInv, QueueFilled, QueueFull
<1>2. sqHead \in 0 .. 2 * QueueSize - 1
  BY <1>1
<1>3. sqHead % QueueSize \in 0 .. QueueSize - 1
  BY <1>2, Slot
<1>4. ASSUME NEW i \in 1 .. QueueFilled
      PROVE  (sqTail + i - 1) % QueueSize # sqHead % QueueSize
  <2>1. PICK k \in 0 .. 2 * QueueSize - 1 : k = sqTail + i - 1
    BY <1>1 DEF QueueFilled
  <2>2. k < sqHead /\ sqHead < k + QueueSize
    BY <1>1, <2>1 DEF QueueFilled
  <2>3. k % QueueSize = k \/ k % QueueSize = k - QueueSize
    BY Slot
  <2>4. sqHead % QueueSize = sqHead \/ sqHead % QueueSize = sqHead - QueueSize
    BY <1>2, Slot
  <2>5. k % QueueSize \in 0 .. QueueSize - 1
    BY Slot
  <2>6. k % QueueSize # sqHead % QueueSize
    BY <1>1, <1>2, <1>3, <2>2, <2>3, <2>4, <2>5
  <2> QED
    BY <2>1, <2>6
<1>5. \A i \in 1 .. QueueFilled : (sqTail + i - 1) % QueueSize \in 0 .. QueueSize - 1
  <2>1. ASSUME NEW i \in 1 .. QueueFilled PROVE sqTail + i - 1 \in 0 .. 2 * QueueSize - 1
    BY <1>1 DEF QueueFilled
  <2> QED
    BY <2>1, Slot
<1> QED
  BY <1>1, <1>3, <1>4, <1>5

-----------------------------------------------------------------------------
(* SignalFull moves one worker that waits to those that consume, and no    *)
(* other.                                                                  *)
LEMMA SignalFullWakes ==
  ASSUME PoolTypeOK, HandsInv, SignalFull
  PROVE  /\ worker' \in [Worker -> [pc : {"absent", "consume", "waiting", "return", "busy",
                                          "exited"},
                                    conn : {NoConn} \cup Conn]]
         /\ \A w \in Worker :
              /\ worker'[w].conn = worker[w].conn
              /\ \/ worker'[w].pc = worker[w].pc
                 \/ worker[w].pc = "waiting" /\ worker'[w].pc = "consume"
         /\ Waiting # {} => \E w \in Waiting : /\ w \notin Consuming
                                              /\ Consuming' = Consuming \cup {w}
         /\ Waiting = {} => Waiting' = {} /\ Consuming' = Consuming
<1>1. CASE Waiting = {}
  BY <1>1 DEF SignalFull, PoolTypeOK, Waiting, Consuming
<1>2. CASE Waiting # {}
  <2>1. PICK w \in Waiting : worker' = [worker EXCEPT ![w].pc = "consume"]
    BY <1>2 DEF SignalFull
  <2>2. w \in Worker /\ worker[w].pc = "waiting"
    BY <2>1 DEF Waiting
  <2>3. Consuming' = Consuming \cup {w} /\ w \notin Consuming
    BY <2>1, <2>2 DEF Consuming, PoolTypeOK
  <2>4. /\ worker' \in [Worker -> [pc : {"absent", "consume", "waiting", "return", "busy",
                                          "exited"},
                                    conn : {NoConn} \cup Conn]]
        /\ \A x \in Worker :
              /\ worker'[x].conn = worker[x].conn
              /\ \/ worker'[x].pc = worker[x].pc
                 \/ worker[x].pc = "waiting" /\ worker'[x].pc = "consume"
    BY <2>1, <2>2 DEF PoolTypeOK
  <2> QED
    BY <1>2, <2>1, <2>3, <2>4
<1> QED
  BY <1>1, <1>2

(* The part of NoConnectionForgotten about workers that sleep.             *)
SleepersCovered == Waiting # {} => Cardinality(Consuming) >= QueueFilled

(* There are finitely many workers that consume.                           *)
LEMMA ConsumingFinite ==
  /\ IsFiniteSet(Consuming) /\ Cardinality(Consuming) \in Nat
  /\ IsFiniteSet(Consuming') /\ Cardinality(Consuming') \in Nat
<1>1. Consuming \in SUBSET Worker /\ Consuming' \in SUBSET Worker
  BY DEF Consuming
<1> QED
  BY <1>1, FS_Subset, FS_CardinalityType, PoolBounds

(* With one more on its way to the queue, one more connection in it is     *)
(* covered.                                                                *)
LEMMA SignalCovers ==
  ASSUME PoolTypeOK, HandsInv, SleepersCovered, SignalFull,
         QueueFilled \in Nat, QueueFilled' \in Nat, QueueFilled' <= QueueFilled + 1
  PROVE  SleepersCovered'
<1>1. CASE Waiting = {}
  BY <1>1, SignalFullWakes DEF SleepersCovered
<1>2. CASE Waiting # {}
  <2>1. PICK w \in Waiting : w \notin Consuming /\ Consuming' = Consuming \cup {w}
    BY <1>2, SignalFullWakes
  <2>2. Cardinality(Consuming') = Cardinality(Consuming) + 1
    BY <2>1, ConsumingFinite, FS_AddElement
  <2> QED
    BY <1>2, <2>2, ConsumingFinite DEF SleepersCovered
<1> QED
  BY <1>1, <1>2

-----------------------------------------------------------------------------
(* What the invariant says of the ring, with the state before the step.    *)
LEMMA RingFacts ==
  ASSUME PoolTypeOK, RingInv
  PROVE  /\ QueueSize \in Nat \ {0} /\ QueueFilled \in 0 .. QueueSize
         /\ sqTail \in 0 .. QueueSize /\ sqHead = sqTail + QueueFilled
  BY PoolBounds DEF PoolTypeOK, RingInv, QueueFilled

(* Steps that leave the ring as it is.                                     *)
LEMMA RingUnchanged ==
  ASSUME PoolTypeOK, RingInv, UNCHANGED queueVars
  PROVE  RingInv' /\ QueueFilled' = QueueFilled
  BY DEF RingInv, QueueFilled, queueVars

(* mg_start, with all threads created.                                     *)
LEMMA StartKeeps == ASSUME PoolInv, MgStart PROVE PoolInv'
<1>1. PoolTypeOK'
  BY DEF PoolInv, PoolTypeOK, MgStart, queueVars, At, NoConn
<1>2. RingInv' /\ HandsInv'
  BY RingUnchanged DEF PoolInv, MgStart, HandsInv, At
<1>3. NoConnectionForgotten'
  BY DEF MgStart, NoConnectionForgotten, Waiting, At
<1> QED
  BY <1>1, <1>2, <1>3 DEF PoolInv

(* The master puts a connection into the ring.                             *)
LEMMA ProduceKeeps == ASSUME PoolInv, ProduceSocket PROVE PoolInv'
<1> USE DEF PoolInv
<1>1. /\ \A i \in 1 .. QueueFilled :
              squeue'[(sqTail + i - 1) % QueueSize] = squeue[(sqTail + i - 1) % QueueSize]
      /\ squeue'[sqHead % QueueSize] = master.conn
      /\ sqHead % QueueSize \in 0 .. QueueSize - 1
  BY Produced DEF ProduceSocket
<1>2. QueueFilled < QueueSize /\ QueueFilled' = QueueFilled + 1 /\ sqTail' = sqTail
  BY RingFacts DEF ProduceSocket, QueueFull, QueueFilled
<1>3. master.conn # NoConn /\ master.conn \in {NoConn} \cup Conn /\ SignalFull
  BY DEF ProduceSocket, HandsInv, PoolTypeOK
<1>4. PoolTypeOK'
  BY <1>1, <1>2, <1>3, RingFacts, SignalFullWakes DEF ProduceSocket, PoolTypeOK, At
<1>5. RingInv'
  <2>1. ASSUME NEW i \in 1 .. QueueFilled'
        PROVE  squeue'[(sqTail' + i - 1) % QueueSize] # NoConn
    <3>1. CASE i = QueueFilled'
      BY <1>1, <1>2, <1>3, <3>1, RingFacts
    <3>2. CASE i # QueueFilled'
      BY <1>1, <1>2, <3>2, RingFacts DEF RingInv
    <3> QED
      BY <3>1, <3>2
  <2> QED
    BY <1>2, <2>1, RingFacts DEF RingInv
<1>6. HandsInv'
  BY SignalFullWakes DEF ProduceSocket, HandsInv, At, PoolTypeOK
<1>7. NoConnectionForgotten'
  <2>1. SleepersCovered'
    BY <1>2, <1>3, RingFacts, SignalCovers DEF NoConnectionForgotten, SleepersCovered
  <2> QED
    BY <2>1 DEF SleepersCovered, NoConnectionForgotten, ProduceSocket, At
<1> QED
  BY <1>4, <1>5, <1>6, <1>7

(* The master gives a connection up while the server stops.                *)
LEMMA DropKeeps == ASSUME PoolInv, DropSocket PROVE PoolInv'
<1> USE DEF PoolInv
<1>1. RingInv' /\ QueueFilled' = QueueFilled /\ SignalFull
  BY RingUnchanged DEF DropSocket
<1>2. PoolTypeOK'
  BY <1>1, SignalFullWakes DEF DropSocket, PoolTypeOK, At, queueVars
<1>3. HandsInv'
  BY <1>1, SignalFullWakes DEF DropSocket, HandsInv, At, PoolTypeOK
<1>4. SleepersCovered'
  BY <1>1, RingFacts, SignalCovers DEF NoConnectionForgotten, SleepersCovered
<1> QED
  BY <1>1, <1>2, <1>3, <1>4 DEF SleepersCovered, NoConnectionForgotten, DropSocket, At

(* A wakeup for no reason: the condition is looked at again.               *)
LEMMA WakeupKeeps == ASSUME PoolInv, SpuriousWakeup PROVE PoolInv'
<1> USE DEF PoolInv
<1>1. RingInv' /\ QueueFilled' = QueueFilled
  BY RingUnchanged DEF SpuriousWakeup
<1>2. CASE master.pc = "blocked" /\ SignalEmpty /\ UNCHANGED worker
  <2>1. master' = [master EXCEPT !.pc = "produce"]
    BY <1>2 DEF SignalEmpty
  <2>2. PoolTypeOK'
    BY <1>2, <2>1 DEF SpuriousWakeup, PoolTypeOK, queueVars
  <2>3. HandsInv'
    BY <1>2, <2>1 DEF SpuriousWakeup, HandsInv, PoolTypeOK
  <2>4. NoConnectionForgotten'
    BY <1>1, <1>2, <2>1 DEF NoConnectionForgotten, Waiting, Consuming, PoolTypeOK
  <2> QED
    BY <1>1, <2>2, <2>3, <2>4
<1>3. CASE Waiting # {} /\ SignalFull /\ UNCHANGED master
  <2>1. PoolTypeOK'
    BY <1>3, SignalFullWakes DEF SpuriousWakeup, PoolTypeOK, queueVars
  <2>2. HandsInv'
    BY <1>3, SignalFullWakes DEF SpuriousWakeup, HandsInv
  <2>3. SleepersCovered'
    BY <1>1, <1>3, RingFacts, SignalCovers DEF NoConnectionForgotten, SleepersCovered
  <2> QED
    BY <1>1, <1>3, <2>1, <2>2, <2>3 DEF SleepersCovered, NoConnectionForgotten
<1> QED
  BY <1>2, <1>3 DEF SpuriousWakeup

(* The other steps of the master thread, and mg_stop.                      *)
LEMMA MasterKeeps ==
  ASSUME PoolInv, AcceptNewConnection \/ WaitEmpty \/ StopWorkers \/ JoinWorkers \/ MgStop
  PROVE  PoolInv'
<1> USE DEF PoolInv
<1>1. RingInv' /\ QueueFilled' = QueueFilled
  BY RingUnchanged
  DEF AcceptNewConnection, WaitEmpty, StopWorkers, JoinWorkers, MgStop
<1>2. CASE AcceptNewConnection
  <2>1. accepted' \in Conn /\ accepted' # NoConn
    BY <1>2, PoolBounds DEF AcceptNewConnection, PoolTypeOK, Conn, NoConn
  <2>2. PoolTypeOK'
    BY <1>2, <2>1 DEF AcceptNewConnection, PoolTypeOK, Conn, queueVars
  <2>3. HandsInv'
    BY <1>2, <2>1 DEF AcceptNewConnection, HandsInv
  <2> QED
    BY <1>1, <1>2, <2>2, <2>3
    DEF AcceptNewConnection, NoConnectionForgotten, Waiting, Consuming
<1>3. CASE WaitEmpty
  <2>1. PoolTypeOK' /\ HandsInv'
    BY <1>3 DEF WaitEmpty, PoolTypeOK, HandsInv, queueVars
  <2> QED
    BY <1>1, <1>3, <2>1, RingFacts
    DEF WaitEmpty, QueueFull, NoConnectionForgotten, Waiting, Consuming
<1>4. CASE StopWorkers
  <2>1. PoolTypeOK'
    BY <1>4 DEF StopWorkers, PoolTypeOK, At, queueVars, NoConn
  <2>2. HandsInv'
    BY <1>4 DEF StopWorkers, HandsInv, At
  <2>3. Waiting' = {} /\ master'.pc = "join"
    BY <1>4 DEF StopWorkers, Waiting, At
  <2> QED
    BY <1>1, <2>1, <2>2, <2>3 DEF NoConnectionForgotten
<1>5. CASE JoinWorkers
  <2>1. PoolTypeOK' /\ HandsInv'
    BY <1>5 DEF JoinWorkers, PoolTypeOK, HandsInv, At, queueVars
  <2> QED
    BY <1>1, <1>5, <2>1 DEF JoinWorkers, NoConnectionForgotten, Waiting, Consuming, At
<1>6. CASE MgStop
  <2>1. PoolTypeOK' /\ HandsInv'
    BY <1>6 DEF MgStop, PoolTypeOK, HandsInv, queueVars
  <2> QED
    BY <1>1, <1>6, <2>1 DEF MgStop, NoConnectionForgotten, Waiting, Consuming
<1> QED
  BY <1>2, <1>3, <1>4, <1>5, <1>6

(* SignalEmpty wakes the master if it waits, and changes nothing else.     *)
LEMMA SignalEmptyWakes ==
  ASSUME PoolTypeOK, HandsInv, SignalEmpty
  PROVE  /\ master' \in [pc : {"absent", "accept", "produce", "blocked", "join", "exited"},
                         conn : {NoConn} \cup Conn]
         /\ master'.conn = master.conn /\ master'.pc # "blocked"
         /\ \/ master'.pc = master.pc
            \/ master.pc = "blocked" /\ master'.pc = "produce"
  BY DEF SignalEmpty, PoolTypeOK

(* A worker takes a connection out of the ring.                            *)
LEMMA ConsumeKeeps ==
  ASSUME PoolInv, NEW w \in Worker, ConsumeSocket(w) PROVE PoolInv'
<1> USE DEF PoolInv
<1>1. /\ sqHead > sqTail /\ WrapPointers(sqTail + 1) /\ SignalEmpty
      /\ worker[w].pc = "consume" /\ squeue' = squeue
  BY DEF ConsumeSocket
<1>2. /\ QueueFilled' = QueueFilled - 1
      /\ sqTail' \in 0 .. QueueSize /\ sqHead' \in 0 .. 2 * QueueSize
      /\ \A i \in 1 .. QueueFilled - 1 :
           (sqTail' + i - 1) % QueueSize = (sqTail + i) % QueueSize
  BY <1>1, Wrapped DEF QueueFilled
<1>3. QueueFilled \in 1 .. QueueSize
  BY <1>1, RingFacts
<1>4. squeue[sqTail % QueueSize] \in Conn /\ squeue[sqTail % QueueSize] # NoConn
  <2>1. sqTail \in 0 .. 2 * QueueSize - 1
    BY RingFacts
  <2>2. sqTail % QueueSize \in 0 .. QueueSize - 1
    BY <2>1, Slot
  <2>3. squeue[(sqTail + 1 - 1) % QueueSize] # NoConn
    BY <1>3 DEF RingInv
  <2>4. sqTail + 1 - 1 = sqTail
    BY RingFacts
  <2> QED
    BY <2>2, <2>3, <2>4 DEF PoolTypeOK
<1>5. PoolTypeOK'
  BY <1>1, <1>2, <1>4, SignalEmptyWakes DEF ConsumeSocket, PoolTypeOK
<1>6. RingInv'
  <2>1. ASSUME NEW i \in 1 .. QueueFilled'
        PROVE  squeue'[(sqTail' + i - 1) % QueueSize] # NoConn
    <3>1. i \in 1 .. QueueFilled - 1 /\ i + 1 \in 1 .. QueueFilled
          /\ sqTail + (i + 1) - 1 = sqTail + i
      BY <1>2, <1>3, RingFacts
    <3>2. squeue[(sqTail + (i + 1) - 1) % QueueSize] # NoConn
      BY <3>1 DEF RingInv
    <3> QED
      BY <1>1, <1>2, <3>1, <3>2
  <2> QED
    BY <1>2, <1>3, <2>1, RingFacts DEF RingInv
<1>7. HandsInv'
  BY <1>1, <1>4, SignalEmptyWakes DEF ConsumeSocket, HandsInv, PoolTypeOK
<1>8. NoConnectionForgotten'
  <2>1. Consuming' = Consuming \ {w} /\ w \in Consuming /\ Waiting' = Waiting
    BY DEF ConsumeSocket, Consuming, Waiting, PoolTypeOK
  <2>2. Cardinality(Consuming') = Cardinality(Consuming) - 1
    BY <2>1, ConsumingFinite, FS_RemoveElement
  <2> QED
    BY <1>1, <1>2, <1>3, <2>1, <2>2, ConsumingFinite, SignalEmptyWakes
    DEF NoConnectionForgotten
<1> QED
  BY <1>5, <1>6, <1>7, <1>8

(* The other steps of a worker.                                            *)
LEMMA WorkerKeeps ==
  ASSUME PoolInv, NEW w \in Worker,
         WaitFull(w) \/ ConsumeNothing(w) \/ ReturnSocket(w) \/ ProcessConnection(w)
  PROVE  PoolInv'
<1> USE DEF PoolInv
<1>1. RingInv' /\ QueueFilled' = QueueFilled
  BY RingUnchanged DEF WaitFull, ConsumeNothing, ReturnSocket, ProcessConnection
<1>2. CASE WaitFull(w)
  <2>1. PoolTypeOK' /\ HandsInv'
    BY <1>2 DEF WaitFull, PoolTypeOK, HandsInv, queueVars
  <2>2. QueueFilled = 0
    BY <1>2, RingFacts DEF WaitFull
  <2> QED
    BY <1>1, <1>2, <2>1, <2>2, ConsumingFinite DEF WaitFull, NoConnectionForgotten
<1>3. CASE ConsumeNothing(w)
  <2>1. PoolTypeOK' /\ HandsInv'
    BY <1>3, SignalEmptyWakes DEF ConsumeNothing, PoolTypeOK, HandsInv, queueVars
  <2>2. QueueFilled = 0 /\ master'.pc # "blocked"
    BY <1>3, RingFacts, SignalEmptyWakes DEF ConsumeNothing
  <2> QED
    BY <1>1, <2>1, <2>2, ConsumingFinite DEF NoConnectionForgotten
<1>4. CASE ReturnSocket(w)
  <2>1. PoolTypeOK'
    BY <1>4 DEF ReturnSocket, PoolTypeOK, queueVars, At, NoConn
  <2>2. HandsInv'
    BY <1>4 DEF ReturnSocket, HandsInv, PoolTypeOK, At
  <2>3. Consuming' = Consuming /\ Waiting' = Waiting
    BY <1>4 DEF ReturnSocket, Consuming, Waiting, PoolTypeOK, At
  <2> QED
    BY <1>1, <1>4, <2>1, <2>2, <2>3 DEF ReturnSocket, NoConnectionForgotten
<1>5. CASE ProcessConnection(w)
  <2>1. PoolTypeOK'
    BY <1>5 DEF ProcessConnection, PoolTypeOK, queueVars, At, NoConn
  <2>2. HandsInv'
    BY <1>5 DEF ProcessConnection, HandsInv, PoolTypeOK, At
  <2>3. Consuming' = Consuming \cup {w} /\ w \notin Consuming /\ Waiting' = Waiting
    BY <1>5 DEF ProcessConnection, Consuming, Waiting, PoolTypeOK, At
  <2>4. Cardinality(Consuming') = Cardinality(Consuming) + 1
    BY <2>3, ConsumingFinite, FS_AddElement
  <2> QED
    BY <1>1, <1>5, <2>1, <2>2, <2>3, <2>4, ConsumingFinite, RingFacts
    DEF ProcessConnection, NoConnectionForgotten
<1> QED
  BY <1>2, <1>3, <1>4, <1>5

-----------------------------------------------------------------------------
(* Before mg_start.                                                        *)
LEMMA PoolInvInit == PoolInit => PoolInv
<1> SUFFICES ASSUME PoolInit PROVE PoolInv
  OBVIOUS
<1>1. PoolTypeOK
  BY PoolBounds DEF PoolInit, PoolTypeOK, At, NoConn
<1>2. RingInv /\ HandsInv /\ NoConnectionForgotten
  BY PoolBounds
  DEF PoolInit, RingInv, HandsInv, NoConnectionForgotten, QueueFilled, Waiting, At
<1> QED
  BY <1>1, <1>2 DEF PoolInv

(* Every step keeps the invariant.                                         *)
LEMMA PoolInvStep == PoolInv /\ [PoolNext]_poolVars => PoolInv'
<1> SUFFICES ASSUME PoolInv, [PoolNext]_poolVars PROVE PoolInv'
  OBVIOUS
<1>1. CASE MgStart
  BY <1>1, StartKeeps
<1>2. CASE AcceptNewConnection \/ WaitEmpty \/ StopWorkers \/ JoinWorkers \/ MgStop
  BY <1>2, MasterKeeps
<1>3. CASE ProduceSocket
  BY <1>3, ProduceKeeps
<1>4. CASE DropSocket
  BY <1>4, DropKeeps
<1>5. ASSUME NEW w \in Worker, WorkerStep(w) \/ ProcessConnection(w)
      PROVE  PoolInv'
  BY <1>5, ConsumeKeeps, WorkerKeeps DEF WorkerStep
<1>6. CASE SpuriousWakeup
  BY <1>6, WakeupKeeps
<1>7. CASE UNCHANGED poolVars
  BY <1>7 DEF poolVars, queueVars, PoolInv, PoolTypeOK, RingInv, HandsInv,
     NoConnectionForgotten, QueueFilled, Waiting, Consuming
<1> QED
  BY <1>1, <1>2, <1>3, <1>4, <1>5, <1>6, <1>7 DEF PoolNext, MasterStep

(* The inductive invariant of the threads of the HTTP library holds, for   *)
(* any number of workers and any size of the ring.                         *)
THEOREM PoolInvariant == PoolSpec => []PoolInv
<1> QED
  BY PoolInvInit, PoolInvStep, PTL DEF PoolSpec

(* The indices of the ring stay in bounds, though both only ever grow      *)
(* between two wraps.                                                      *)
THEOREM PoolTypeCorrect == PoolSpec => []PoolTypeOK
<1>1. PoolInv => PoolTypeOK
  BY DEF PoolInv
<1> QED
  BY <1>1, PoolInvariant, PTL

(* No connection stays in the queue while workers sleep that nobody will   *)
(* wake, and the master never waits for a queue that has room.             *)
THEOREM NoConnectionIsForgotten == PoolSpec => []NoConnectionForgotten
<1>1. PoolInv => NoConnectionForgotten
  BY DEF PoolInv
<1> QED
  BY <1>1, PoolInvariant, PTL

-----------------------------------------------------------------------------
(* The refinement.                                                         *)

(* What the queue of the abstract specification looks like.                *)
LEMMA QueuedIsSeq ==
  ASSUME PoolTypeOK, RingInv
  PROVE  /\ Queued \in Seq({NoConn} \cup Conn) /\ Len(Queued) = QueueFilled
         /\ \A i \in 1 .. QueueFilled :
              Queued[i] = squeue[(sqTail + i - 1) % QueueSize]
<1>1. ASSUME NEW i \in 1 .. QueueFilled
      PROVE  squeue[(sqTail + i - 1) % QueueSize] \in {NoConn} \cup Conn
  <2>1. PICK k \in 0 .. 2 * QueueSize - 1 : k = sqTail + i - 1
    BY RingFacts
  <2>2. k % QueueSize \in 0 .. QueueSize - 1
    BY Slot
  <2> QED
    BY <2>1, <2>2 DEF PoolTypeOK
<1>2. QueueFilled \in Nat
  BY RingFacts
<1> QED
  BY <1>1, <1>2 DEF Queued

(* A ring and a signal that are left alone leave the abstract queue alone. *)
LEMMA QueuedUnchanged ==
  ASSUME UNCHANGED queueVars PROVE Queued' = Queued
BY DEF Queued, QueueFilled, queueVars

(* What the workers have in hand, as ConnectionQueue sees it.              *)
Serving == [w \in Worker |-> worker[w].conn]

(* SignalFull gives nobody a connection, and takes none away.              *)
LEMMA ServingSignalled ==
  ASSUME PoolTypeOK, HandsInv, SignalFull PROVE Serving' = Serving
BY SignalFullWakes DEF Serving

(* The mapped variables of the abstract specification.                     *)
LEMMA MappedUnchanged ==
  ASSUME UNCHANGED <<accepted, queueVars>>, master'.conn = master.conn, Serving' = Serving
  PROVE  UNCHANGED Queue!vars
BY QueuedUnchanged DEF Queue!vars, Serving

(* Into the ring: the connection becomes the last one of the queue.        *)
LEMMA ProduceRefines ==
  ASSUME PoolInv, PoolInv', ProduceSocket PROVE Queue!Put
<1> USE DEF PoolInv
<1>1. QueueFilled < QueueSize /\ QueueFilled' = QueueFilled + 1 /\ sqTail' = sqTail
      /\ sqHead = sqTail + QueueFilled
  BY RingFacts DEF ProduceSocket, QueueFull, QueueFilled
<1>2. /\ \A i \in 1 .. QueueFilled :
              squeue'[(sqTail + i - 1) % QueueSize] = squeue[(sqTail + i - 1) % QueueSize]
      /\ squeue'[sqHead % QueueSize] = master.conn
  BY Produced DEF ProduceSocket
<1>3. Queued' = Append(Queued, master.conn)
  <2>1. Queued' = [i \in 1 .. QueueFilled + 1 |->
                     squeue'[(sqTail + i - 1) % QueueSize]]
    BY <1>1 DEF Queued
  <2>2. Append(Queued, master.conn) = [i \in 1 .. QueueFilled + 1 |->
           IF i = QueueFilled + 1 THEN master.conn ELSE Queued[i]]
    BY QueuedIsSeq, RingFacts, Z3
  <2>3. ASSUME NEW i \in 1 .. QueueFilled + 1
        PROVE  squeue'[(sqTail + i - 1) % QueueSize]
                 = IF i = QueueFilled + 1 THEN master.conn ELSE Queued[i]
    <3>1. CASE i = QueueFilled + 1
      <4>1. sqTail + i - 1 = sqHead
        BY <1>1, <3>1, RingFacts
      <4> QED
        BY <1>2, <3>1, <4>1
    <3>2. CASE i # QueueFilled + 1
      <4>1. i \in 1 .. QueueFilled
        BY <3>2, RingFacts
      <4> QED
        BY <1>2, <3>2, <4>1, QueuedIsSeq
    <3> QED
      BY <3>1, <3>2
  <2> QED
    BY <2>1, <2>2, <2>3, Zenon
<1>4. Serving' = Serving
  BY ServingSignalled DEF ProduceSocket
<1>5. master.conn # NoConn /\ Len(Queued) < QueueSize /\ master'.conn = NoConn
      /\ accepted' = accepted
  BY <1>1, QueuedIsSeq DEF ProduceSocket, HandsInv, At
<1> QED
  BY <1>3, <1>4, <1>5 DEF Queue!Put, Serving

(* Out of the ring: a worker gets the first one, and the wrapping of the   *)
(* indices is not seen.                                                    *)
LEMMA ConsumeRefines ==
  ASSUME PoolInv, PoolInv', NEW w \in Worker, ConsumeSocket(w) PROVE Queue!Take(w)
<1> USE DEF PoolInv
<1>1. /\ sqHead > sqTail /\ WrapPointers(sqTail + 1) /\ SignalEmpty
      /\ worker[w].pc = "consume" /\ squeue' = squeue /\ accepted' = accepted
  BY DEF ConsumeSocket
<1>2. /\ QueueFilled' = QueueFilled - 1
      /\ \A i \in 1 .. QueueFilled - 1 :
           (sqTail' + i - 1) % QueueSize = (sqTail + i) % QueueSize
  BY <1>1, Wrapped DEF QueueFilled
<1>3. QueueFilled \in 1 .. QueueSize
  BY <1>1, RingFacts
<1>4. Queued # <<>> /\ Head(Queued) = squeue[sqTail % QueueSize]
  <2>1. Queued[1] = squeue[(sqTail + 1 - 1) % QueueSize]
    BY <1>3, QueuedIsSeq
  <2>2. sqTail + 1 - 1 = sqTail
    BY RingFacts
  <2> QED
    BY <1>3, <2>1, <2>2, QueuedIsSeq
<1>5. Queued' = Tail(Queued)
  <2>1. Queued' = [i \in 1 .. QueueFilled - 1 |->
                     squeue[(sqTail' + i - 1) % QueueSize]]
    BY <1>1, <1>2 DEF Queued
  <2>2. /\ Tail(Queued) \in Seq({NoConn} \cup Conn)
        /\ Len(Tail(Queued)) = QueueFilled - 1
        /\ \A i \in 1 .. QueueFilled - 1 : Tail(Queued)[i] = Queued[i + 1]
    BY <1>4, QueuedIsSeq, HeadTailProperties
  <2>3. ASSUME NEW i \in 1 .. QueueFilled - 1
        PROVE  squeue[(sqTail' + i - 1) % QueueSize] = Queued[i + 1]
    <3>1. i + 1 \in 1 .. QueueFilled /\ sqTail + (i + 1) - 1 = sqTail + i
      BY <1>3, RingFacts
    <3>2. Queued[i + 1] = squeue[(sqTail + (i + 1) - 1) % QueueSize]
      BY <3>1, QueuedIsSeq
    <3> QED
      BY <1>2, <3>1, <3>2
  <2>4. Queued' \in Seq({NoConn} \cup Conn) /\ Len(Queued') = QueueFilled - 1
    <3>1. ASSUME NEW i \in 1 .. QueueFilled - 1
          PROVE  squeue[(sqTail' + i - 1) % QueueSize] \in {NoConn} \cup Conn
      BY <1>3, <2>3, QueuedIsSeq, RingFacts
    <3> QED
      BY <1>3, <2>1, <3>1
  <2>5. \A i \in 1 .. QueueFilled - 1 : Queued'[i] = Tail(Queued)[i]
    BY <2>1, <2>2, <2>3
  <2> QED
    BY <2>2, <2>4, <2>5, SeqEqual
<1>6. Serving[w] = NoConn /\ Serving' = [Serving EXCEPT ![w] = Head(Queued)]
  BY <1>1, <1>4 DEF ConsumeSocket, Serving, HandsInv, PoolTypeOK
<1>7. master'.conn = master.conn
  BY <1>1, SignalEmptyWakes
<1> QED
  BY <1>1, <1>4, <1>5, <1>6, <1>7 DEF Queue!Take, Serving

(* The steps that leave the ring alone and whose effect is seen.           *)
LEMMA OthersRefine ==
  ASSUME PoolInv, NEW w \in Worker,
         \/ AcceptNewConnection \/ DropSocket
         \/ ReturnSocket(w) \/ ProcessConnection(w)
  PROVE  [Queue!Next]_Queue!vars
<1> USE DEF PoolInv
<1>1. CASE AcceptNewConnection
  <2>1. Queue!Accept
    BY <1>1, QueuedUnchanged
    DEF AcceptNewConnection, Queue!Accept, queueVars, HandsInv
  <2> QED
    BY <2>1 DEF Queue!Next
<1>2. CASE DropSocket
  <2>1. Serving' = Serving
    BY <1>2, ServingSignalled DEF DropSocket
  <2>2. Queue!Drop
    BY <1>2, <2>1, QueuedUnchanged DEF DropSocket, Queue!Drop, HandsInv, Serving, At
  <2> QED
    BY <2>2 DEF Queue!Next
<1>3. CASE ReturnSocket(w) \/ ProcessConnection(w)
  <2>1. /\ UNCHANGED <<queueVars, master, accepted>>
        /\ \/ Serving' = Serving
           \/ Serving' = [Serving EXCEPT ![w] = NoConn]
    <3>1. /\ UNCHANGED <<queueVars, master, accepted>>
          /\ \/ worker' = [worker EXCEPT ![w] = [worker[w] EXCEPT !.pc = "busy"]]
             \/ \E pc \in {"exited", "consume"} : worker' = [worker EXCEPT ![w] = At(pc)]
      BY <1>3 DEF ReturnSocket, ProcessConnection
    <3>2. ASSUME NEW pc, worker' = [worker EXCEPT ![w] = At(pc)]
          PROVE  Serving' = [Serving EXCEPT ![w] = NoConn]
      BY <3>2 DEF Serving, PoolTypeOK, At
    <3>3. ASSUME worker' = [worker EXCEPT ![w] = [worker[w] EXCEPT !.pc = "busy"]]
          PROVE  Serving' = Serving
      BY <3>3 DEF Serving, PoolTypeOK
    <3> QED
      BY <3>1, <3>2, <3>3
  <2>2. CASE Serving' = Serving
    BY <2>1, <2>2, MappedUnchanged
  <2>3. CASE Serving' = [Serving EXCEPT ![w] = NoConn] /\ Serving[w] # NoConn
    <3>1. Queue!Close(w)
      BY <2>1, <2>3, QueuedUnchanged DEF Queue!Close, Serving
    <3> QED
      BY <3>1 DEF Queue!Next
  <2>4. CASE Serving' = [Serving EXCEPT ![w] = NoConn] /\ Serving[w] = NoConn
    <3>1. Serving' = Serving
      BY <2>4 DEF Serving
    <3> QED
      BY <2>1, <3>1, MappedUnchanged
  <2> QED
    BY <2>1, <2>2, <2>3, <2>4
<1> QED
  BY <1>1, <1>2, <1>3

(* The steps that ConnectionQueue does not see.                            *)
LEMMA OthersStutter ==
  ASSUME PoolInv, NEW w \in Worker,
         \/ MgStart \/ MgStop \/ WaitEmpty \/ StopWorkers \/ JoinWorkers
         \/ ConsumeNothing(w) \/ WaitFull(w) \/ SpuriousWakeup
  PROVE  UNCHANGED Queue!vars
<1> USE DEF PoolInv
<1>1. UNCHANGED <<accepted, queueVars>>
  BY DEF MgStart, MgStop, WaitEmpty, StopWorkers, JoinWorkers, ConsumeNothing,
     WaitFull, SpuriousWakeup
<1>2. master'.conn = master.conn
  BY SignalEmptyWakes
  DEF MgStart, MgStop, WaitEmpty, StopWorkers, JoinWorkers, ConsumeNothing,
      WaitFull, SpuriousWakeup, HandsInv, At, PoolTypeOK
<1>3. Serving' = Serving
  <2>1. CASE MgStart \/ StopWorkers
    BY <2>1 DEF MgStart, StopWorkers, Serving, Waiting, HandsInv, At, PoolTypeOK
  <2>2. CASE ConsumeNothing(w) \/ WaitFull(w)
    BY <2>2 DEF ConsumeNothing, WaitFull, Serving, PoolTypeOK
  <2>3. CASE MgStop \/ WaitEmpty \/ JoinWorkers
    BY <2>3 DEF MgStop, WaitEmpty, JoinWorkers, Serving
  <2>4. CASE SpuriousWakeup
    BY <2>4, ServingSignalled DEF SpuriousWakeup, Serving
  <2> QED
    BY <2>1, <2>2, <2>3, <2>4
<1> QED
  BY <1>1, <1>2, <1>3, MappedUnchanged

(* Every step of the threads is one of ConnectionQueue or none.            *)
LEMMA PoolStepRefines ==
  PoolInv /\ PoolInv' /\ [PoolNext]_poolVars => [Queue!Next]_Queue!vars
<1> SUFFICES ASSUME PoolInv, PoolInv', [PoolNext]_poolVars
             PROVE  [Queue!Next]_Queue!vars
  OBVIOUS
<1> PICK v \in Worker : TRUE
  BY PoolBounds
<1>1. CASE ProduceSocket
  BY <1>1, ProduceRefines DEF Queue!Next
<1>2. ASSUME NEW w \in Worker, ConsumeSocket(w)
      PROVE  [Queue!Next]_Queue!vars
  BY <1>2, ConsumeRefines DEF Queue!Next
<1>3. CASE AcceptNewConnection \/ DropSocket
  BY <1>3, OthersRefine
<1>4. ASSUME NEW w \in Worker, ReturnSocket(w) \/ ProcessConnection(w)
      PROVE  [Queue!Next]_Queue!vars
  BY <1>4, OthersRefine
<1>5. CASE MgStart \/ MgStop \/ WaitEmpty \/ StopWorkers \/ JoinWorkers \/ SpuriousWakeup
  BY <1>5, OthersStutter
<1>6. ASSUME NEW w \in Worker, ConsumeNothing(w) \/ WaitFull(w)
      PROVE  [Queue!Next]_Queue!vars
  BY <1>6, OthersStutter
<1>7. CASE UNCHANGED poolVars
  <2>1. UNCHANGED <<accepted, queueVars>> /\ master'.conn = master.conn
        /\ Serving' = Serving
    BY <1>7 DEF poolVars, queueVars, Serving
  <2> QED
    BY <2>1, MappedUnchanged
<1> QED
  BY <1>1, <1>2, <1>3, <1>4, <1>5, <1>6, <1>7 DEF PoolNext, MasterStep, WorkerStep

(* The refinement: whatever the workers, the signals and the wrapping of   *)
(* the indices do, connections are handed out in the order they came in,   *)
(* each to one worker, and no more than QueueSize of them wait.            *)
THEOREM PoolImplementsQueue == PoolSpec => ServedInOrder
<1>1. PoolInit => Queue!Init
  BY PoolBounds
  DEF PoolInit, Queue!Init, Queued, QueueFilled, At
<1> QED
  BY <1>1, PoolInvariant, PoolStepRefines, PTL DEF PoolSpec, ServedInOrder, Queue!Spec
=============================================================================
