--------------------------- MODULE LifecycleProofs ---------------------------
(***************************************************************************)
(* Proofs about Lifecycle, for any number of workers, connections and      *)
(* signals: what WorkerPoolProofs shows of the threads holds in the whole  *)
(* process, four members of UtuputkiImpl outlive the threads that use      *)
(* them, a SIGHUP is not lost unless main overtakes its handler, and the   *)
(* two deadlocks that Lifecycle names are the only ones.                   *)
(***************************************************************************)
EXTENDS Lifecycle, WorkerPoolProofs

(* The threads of the HTTP library take the steps of WorkerPool, also when *)
(* the main thread calls mg_start and mg_stop and when the process dies.   *)
LEMMA PoolSteps == [Next]_vars => [PoolNext]_poolVars
<1> SUFFICES ASSUME [Next]_vars PROVE [PoolNext]_poolVars
  OBVIOUS
<1>1. CASE MainStep
  BY <1>1 DEF MainStep, StartServer, StartThreads, CheckShutdown, LockHelp, StartMedia,
     RelockHelp, ReleaseHelp, ShouldReExec, RestoreHandler, ClearGlobal, DestroyMember,
     DestroyWebServer, StopServer, ServerStopped, StopThreads, JoinThreads, Exit, PoolNext
<1>2. CASE ThreadsExit \/ UsedAfterDestruction \/ NullGlobal \/ Killed
  BY <1>2 DEF ThreadsExit, UsedAfterDestruction, NullGlobal, Killed, Dies
<1>3. CASE MasterRuns \/ \E w \in Worker : WorkerRuns(w)
  BY <1>3 DEF MasterRuns, WorkerRuns, PoolNext
<1>4. CASE AcceptNewConnection \/ SpuriousWakeup
  BY <1>4 DEF PoolNext
<1>5. ASSUME NEW t \in Thread,
             HandlerStep(t) \/ \E signal \in SignalNumber : Deliver(signal, t)
      PROVE  UNCHANGED poolVars
  BY <1>5 DEF HandlerStep, Deliver, LockHandler, NotifyHandler, SetReExecFlag
<1>6. ASSUME NEW t \in OtherThread, OtherStep(t)
      PROVE  UNCHANGED poolVars
  BY <1>6 DEF OtherStep, EndReached, CallPlayer, ReturnFromPlayer
<1>7. CASE Ended \/ UNCHANGED vars
  BY <1>7 DEF Ended, vars
<1> QED
  BY <1>1, <1>2, <1>3, <1>4, <1>5, <1>6, <1>7 DEF Next

(* The process contains the threads of the HTTP library.                   *)
THEOREM LifecycleHasPool == Spec => PoolSpec
<1>1. Init => PoolInit
  BY DEF Init
<1> QED
  BY <1>1, PoolSteps, PTL DEF Spec, PoolSpec

(* Also in the whole process no connection is forgotten.                   *)
THEOREM LifecycleForgetsNone == Spec => []NoConnectionForgotten
BY LifecycleHasPool, NoConnectionIsForgotten, PTL

(* Also in the whole process, whatever main and the signals do, the ring   *)
(* of the HTTP library is a bounded queue.                                 *)
THEOREM LifecycleServesInOrder == Spec => ServedInOrder
BY LifecycleHasPool, PoolImplementsQueue, PTL

-----------------------------------------------------------------------------
(* The destructors.                                                        *)

(* When the master thread has joined the workers, they are gone for good.  *)
StoppedInv ==
  stopFlag = 2 => /\ master.pc = "exited"
                  /\ \A w \in Worker : worker[w].pc = "exited"

(* How far the destructors are, by where the main thread is.               *)
DestroyInv ==
  /\ left \in 0 .. 7
  /\ main \in {"startServer", "startThreads", "check", "lock", "starting", "waiting",
               "woken", "relocked", "returned", "restore", "clear"} => left = 7
  /\ main \in {"stopServer", "joinServer", "joinThreads"} => left = 4
  /\ \/ left <= 3
     \/ main = "destroy" /\ left <= 4
     \/ main = "joinThreads"
     => stopFlag = 2
  /\ left <= 3 => downloads # "running"

(* Which member goes next.                                                 *)
LEMMA MemberOrder ==
  /\ Len(Members) = 7
  /\ \A i \in 1 .. 7 : /\ Members[i] = "webServer" <=> i = 5
                       /\ Members[i] = "downloader" <=> i = 4
  /\ left \in 4 .. 7 => {"config", "logger", "database", "downloader"} \subseteq Alive
<1>1. /\ Len(Members) = 7
      /\ Members[1] = "config" /\ Members[2] = "logger" /\ Members[3] = "database"
      /\ Members[4] = "downloader" /\ Members[5] = "webServer" /\ Members[6] = "player"
      /\ Members[7] = "nowPlaying"
  BY DEF Members
<1>2. \A i \in 1 .. 7 : \/ i = 1 \/ i = 2 \/ i = 3 \/ i = 4 \/ i = 5 \/ i = 6 \/ i = 7
  OBVIOUS
<1>3. ASSUME left \in 4 .. 7
      PROVE  {"config", "logger", "database", "downloader"} \subseteq Alive
  <2>1. \A i \in 1 .. 4 : Members[i] \in Alive
    BY <1>3 DEF Alive
  <2>2. /\ Members[1] \in Alive /\ Members[2] \in Alive
        /\ Members[3] \in Alive /\ Members[4] \in Alive
    BY <2>1
  <2> QED
    BY <1>1, <2>2
<1> QED
  BY <1>1, <1>2, <1>3

(* A thread that has exited takes no further step.                         *)
LEMMA StoppedStep ==
  PoolInv /\ StoppedInv /\ [PoolNext]_poolVars => StoppedInv'
<1> SUFFICES ASSUME PoolTypeOK, StoppedInv, [PoolNext]_poolVars PROVE StoppedInv'
  BY DEF PoolInv
<1>1. CASE MgStart \/ MgStop
  BY <1>1 DEF MgStart, MgStop, StoppedInv, PoolTypeOK
<1>2. CASE AcceptNewConnection \/ WaitEmpty \/ StopWorkers
  BY <1>2 DEF AcceptNewConnection, WaitEmpty, StopWorkers, StoppedInv, Waiting
<1>3. CASE ProduceSocket \/ DropSocket
  BY <1>3 DEF ProduceSocket, DropSocket, StoppedInv
<1>4. CASE JoinWorkers
  BY <1>4 DEF JoinWorkers, StoppedInv, At
<1>5. ASSUME NEW w \in Worker, WorkerStep(w) \/ ProcessConnection(w)
      PROVE  StoppedInv'
  <2>1. worker[w].pc # "exited" /\ stopFlag' = stopFlag
    BY <1>5 DEF WorkerStep, ConsumeSocket, ConsumeNothing, WaitFull, ReturnSocket,
       ProcessConnection
  <2> QED
    BY <2>1 DEF StoppedInv
<1>6. CASE SpuriousWakeup
  BY <1>6 DEF SpuriousWakeup, SignalEmpty, SignalFull, StoppedInv, Waiting
<1>7. CASE UNCHANGED poolVars
  BY <1>7 DEF poolVars, StoppedInv
<1> QED
  BY <1>1, <1>2, <1>3, <1>4, <1>5, <1>6, <1>7 DEF PoolNext, MasterStep

(* The flag of the HTTP library only rises.                                *)
LEMMA StopFlagRises ==
  PoolInv /\ [PoolNext]_poolVars => (stopFlag = 2 => stopFlag' = 2)
BY DEF PoolInv, PoolTypeOK, poolVars, queueVars, PoolNext, MasterStep, WorkerStep, MgStart,
   MgStop, AcceptNewConnection, ProduceSocket, DropSocket, WaitEmpty, StopWorkers,
   JoinWorkers, ConsumeSocket, ConsumeNothing, WaitFull, ReturnSocket, ProcessConnection,
   SpuriousWakeup

(* Every step of the process keeps the order of the destructors.           *)
LEMMA DestroyStep ==
  PoolInv /\ DestroyInv /\ [Next]_vars => DestroyInv'
<1> SUFFICES ASSUME PoolInv, DestroyInv, [Next]_vars PROVE DestroyInv'
  OBVIOUS
<1>1. stopFlag = 2 => stopFlag' = 2
  BY PoolSteps, StopFlagRises
<1>2. CASE UNCHANGED <<main, left>> /\ (downloads' = downloads \/ downloads' = "exited")
  BY <1>1, <1>2 DEF DestroyInv
<1>3. CASE \/ StartServer \/ StartThreads \/ CheckShutdown
           \/ LockHelp \/ StartMedia \/ RelockHelp \/ ReleaseHelp
  BY <1>3 DEF StartServer, StartThreads, CheckShutdown, LockHelp, StartMedia, RelockHelp,
     ReleaseHelp, MainGoes, DestroyInv, endVars, otherVars
<1>4. CASE ShouldReExec \/ RestoreHandler \/ ClearGlobal
  BY <1>4 DEF ShouldReExec, RestoreHandler, ClearGlobal, MainGoes, DestroyInv, otherVars
<1>5. CASE DestroyMember \/ DestroyWebServer
  <2>1. left \in 1 .. 7 /\ left # 4 /\ main = "destroy" /\ downloads' = downloads
        /\ left' = left - 1 /\ stopFlag' = stopFlag
    BY <1>5, MemberOrder
    DEF DestroyMember, DestroyWebServer, MainGoes, DestroyInv, poolVars, otherVars
  <2>2. CASE DestroyMember
    <3>1. left # 5 /\ main' = "destroy"
      BY <2>1, <2>2, MemberOrder DEF DestroyMember, MainGoes
    <3> QED
      BY <2>1, <3>1 DEF DestroyInv
  <2>3. CASE DestroyWebServer
    <3>1. left = 5 /\ main' = "stopServer"
      BY <2>1, <2>3, MemberOrder DEF DestroyWebServer, MainGoes
    <3> QED
      BY <2>1, <3>1 DEF DestroyInv
  <2> QED
    BY <1>5, <2>2, <2>3
<1>6. CASE StopServer
  BY <1>6 DEF StopServer, MainGoes, DestroyInv, endVars, otherVars
<1>7. CASE ServerStopped
  BY <1>7 DEF ServerStopped, MainGoes, DestroyInv, endVars, poolVars, otherVars
<1>8. CASE StopThreads
  <2>1. left = 4
    BY <1>8, MemberOrder DEF StopThreads, DestroyInv
  <2> QED
    BY <1>8, <2>1 DEF StopThreads, MainGoes, DestroyInv, endVars, poolVars, otherVars
<1>9. CASE JoinThreads \/ Exit
  BY <1>9 DEF JoinThreads, Exit, MainGoes, DestroyInv, endVars, poolVars, otherVars
<1>10. CASE \/ \E t \in Thread : NotifyHandler(t)
            \/ \E t \in OtherThread : OtherStep(t)
  BY <1>10
  DEF OtherStep, EndReached, CallPlayer, ReturnFromPlayer, NotifyHandler, WakeMain,
      DestroyInv, endVars, poolVars, otherVars
<1>11. CASE UsedAfterDestruction \/ NullGlobal \/ Killed
  BY <1>11
  DEF UsedAfterDestruction, NullGlobal, Killed, Dies, DestroyInv, endVars, poolVars,
      otherVars
<1>12. CASE ThreadsExit
  BY <1>2, <1>12 DEF ThreadsExit, endVars
<1>13. CASE \/ MasterRuns \/ \E w \in Worker : WorkerRuns(w)
            \/ (AcceptNewConnection \/ SpuriousWakeup) /\ NoLifecycle
  BY <1>2, <1>13 DEF MasterRuns, WorkerRuns, NoLifecycle, endVars, runVars, otherVars
<1>14. CASE \E t \in Thread : \/ LockHandler(t) \/ SetReExecFlag(t)
                              \/ \E signal \in SignalNumber : Deliver(signal, t)
  BY <1>2, <1>14 DEF Deliver, LockHandler, SetReExecFlag, endVars, runVars, otherVars
<1>15. CASE Ended \/ UNCHANGED vars
  BY <1>2, <1>15 DEF Ended, vars, endVars, runVars, otherVars
<1> QED
  BY <1>3, <1>4, <1>5, <1>6, <1>7, <1>8, <1>9, <1>10, <1>11, <1>12, <1>13, <1>14, <1>15
  DEF Next, MainStep, HandlerStep

(* The configuration, the log, the database and the downloader are there   *)
(* as long as there are workers, and all but the last as long as there are *)
(* threads of the downloader, whenever and however often the program is    *)
(* told to stop.  (The player and the rest of the web server are not.)     *)
THEOREM UsersAreOutlived == Spec => []UsersOutlived
<1>1. Init => StoppedInv /\ DestroyInv
  BY MemberOrder DEF Init, PoolInit, StoppedInv, DestroyInv
<1>2. PoolInv /\ StoppedInv /\ DestroyInv /\ [Next]_vars => StoppedInv' /\ DestroyInv'
  BY PoolSteps, StoppedStep, DestroyStep
<1>3. Spec => []PoolInv
  BY LifecycleHasPool, PoolInvariant, PTL
<1>4. StoppedInv /\ DestroyInv => UsersOutlived
  BY MemberOrder DEF StoppedInv, DestroyInv, UsersOutlived
<1> QED
  BY <1>1, <1>2, <1>3, <1>4, PTL DEF Spec

-----------------------------------------------------------------------------
(* The signal handlers.                                                    *)

Handler == [signal : SignalNumber, immediate : BOOLEAN, pc : {"lock", "notify", "reExec"}]

(* Each thread is interrupted by a sequence of handlers.                   *)
StackInv == stack \in [Thread -> Seq(Handler)] /\ shutdownCounter \in Nat

(* A SIGHUP that came in time is in its handler until that has set the     *)
(* flag, and in the flag until main has read it, or main overtakes it.     *)
HangupInv ==
  /\ hangup = "sent" /\ StillCounts => reExecFlag \/ HangupPending
  /\ hangup = "sent" /\ ~StillCounts => reExec
  /\ outcome = "exit" => main = "gone" /\ ~reExec

(* A handler that goes on stays where it is.                               *)
LEMMA GoesKeeps ==
  ASSUME StackInv, NEW t \in Thread, NEW to \in {"lock", "notify", "reExec"},
         stack[t] # <<>>, HandlerGoes(t, to), shutdownCounter' = shutdownCounter
  PROVE  StackInv' /\ (HangupPending => HangupPending')
<1> DEFINE n == Len(stack[t])
<1>1. n \in 1 .. n /\ stack[t] \in Seq(Handler) /\ stack[t][n] \in Handler
  BY DEF StackInv
<1>2. PICK h \in Handler : h = [stack[t][n] EXCEPT !.pc = to]
  BY <1>1 DEF Handler
<1>3. h.signal = stack[t][n].signal
  BY <1>1, <1>2 DEF Handler
<1>4. stack' = [stack EXCEPT ![t] = [stack[t] EXCEPT ![n] = h]]
  BY <1>2 DEF HandlerGoes, StackInv
<1>5. /\ [stack[t] EXCEPT ![n] = h] \in Seq(Handler)
      /\ Len([stack[t] EXCEPT ![n] = h]) = n
      /\ \A i \in 1 .. n : [stack[t] EXCEPT ![n] = h][i] = IF i = n THEN h ELSE stack[t][i]
  BY <1>1, ExceptSeq
<1>6. /\ stack'[t] = [stack[t] EXCEPT ![n] = h]
      /\ \A u \in Thread : u # t => stack'[u] = stack[u]
  BY <1>4 DEF StackInv
<1>7. StackInv'
  BY <1>4, <1>5, <1>6 DEF StackInv
<1>8. ASSUME HangupPending PROVE HangupPending'
  <2>1. PICK u \in Thread : \E i \in 1 .. Len(stack[u]) : stack[u][i].signal = "SIGHUP"
    BY <1>8 DEF HangupPending
  <2>2. PICK i \in 1 .. Len(stack[u]) : stack[u][i].signal = "SIGHUP"
    BY <2>1
  <2>3. i \in 1 .. Len(stack'[u]) /\ stack'[u][i].signal = "SIGHUP"
    BY <1>3, <1>5, <1>6, <2>2
  <2> QED
    BY <2>3 DEF HangupPending
<1> QED
  BY <1>7, <1>8

(* A handler that returns uncovers the one below it.                       *)
LEMMA ReturnsKeeps ==
  ASSUME StackInv, NEW t \in Thread, stack[t] # <<>>, Returns(t),
         shutdownCounter' = shutdownCounter
  PROVE  /\ StackInv'
         /\ HangupPending /\ Innermost(t).signal # "SIGHUP" => HangupPending'
<1> DEFINE n == Len(stack[t])
<1>1. n \in 1 .. n /\ stack[t] \in Seq(Handler)
  BY DEF StackInv
<1>2. /\ Front(stack[t]) \in Seq(Handler) /\ Len(Front(stack[t])) = n - 1
      /\ \A i \in 1 .. n - 1 : Front(stack[t])[i] = stack[t][i]
  BY <1>1 DEF Front
<1>3. stack'[t] = Front(stack[t]) /\ \A u \in Thread : u # t => stack'[u] = stack[u]
  BY DEF Returns, StackInv
<1>4. StackInv'
  BY <1>2, <1>3 DEF StackInv, Returns
<1>5. ASSUME HangupPending, Innermost(t).signal # "SIGHUP"
      PROVE  HangupPending'
  <2>1. PICK u \in Thread : \E i \in 1 .. Len(stack[u]) : stack[u][i].signal = "SIGHUP"
    BY <1>5 DEF HangupPending
  <2>2. PICK i \in 1 .. Len(stack[u]) : stack[u][i].signal = "SIGHUP"
    BY <2>1
  <2>3. i \in 1 .. Len(stack'[u]) /\ stack'[u][i].signal = "SIGHUP"
    BY <1>1, <1>2, <1>3, <1>5, <2>2 DEF Innermost
  <2> QED
    BY <2>3 DEF HangupPending
<1> QED
  BY <1>4, <1>5

(* A signal adds one handler on top.                                       *)
LEMMA DeliverKeeps ==
  ASSUME StackInv, NEW t \in Thread, NEW signal \in SignalNumber, Deliver(signal, t)
  PROVE  /\ StackInv'
         /\ HangupPending => HangupPending'
         /\ signal = "SIGHUP" => HangupPending'
<1> DEFINE h == [signal |-> signal, pc |-> "lock", immediate |-> shutdownCounter > 0]
<1> DEFINE n == Len(stack[t])
<1>1. h \in Handler /\ h.signal = signal
  BY DEF Handler
<1>2. /\ stack' = [stack EXCEPT ![t] = Append(stack[t], h)]
      /\ shutdownCounter' = shutdownCounter + 1
  BY DEF Deliver
<1> HIDE DEF h
<1>3. stack[t] \in Seq(Handler) /\ n \in Nat
  BY DEF StackInv
<1>4. /\ Append(stack[t], h) \in Seq(Handler) /\ Len(Append(stack[t], h)) = n + 1
      /\ \A i \in 1 .. n : Append(stack[t], h)[i] = stack[t][i]
      /\ Append(stack[t], h)[n + 1] = h
  BY <1>1, <1>3, AppendProperties
<1>5. stack'[t] = Append(stack[t], h) /\ \A u \in Thread : u # t => stack'[u] = stack[u]
  BY <1>2 DEF StackInv
<1>6. StackInv'
  BY <1>2, <1>4 DEF StackInv
<1>7. ASSUME HangupPending PROVE HangupPending'
  <2>1. PICK u \in Thread : \E i \in 1 .. Len(stack[u]) : stack[u][i].signal = "SIGHUP"
    BY <1>7 DEF HangupPending
  <2>2. PICK i \in 1 .. Len(stack[u]) : stack[u][i].signal = "SIGHUP"
    BY <2>1
  <2>3. i \in 1 .. Len(stack'[u]) /\ stack'[u][i].signal = "SIGHUP"
    BY <1>3, <1>4, <1>5, <2>2
  <2> QED
    BY <2>3 DEF HangupPending
<1>8. ASSUME signal = "SIGHUP" PROVE HangupPending'
  BY <1>1, <1>3, <1>4, <1>5, <1>8 DEF HangupPending
<1> QED
  BY <1>6, <1>7, <1>8

(* The steps of main that no handler sees, and what other threads do.      *)
LEMMA MainKeepsHangup ==
  ASSUME StackInv, HangupInv,
         \/ MainStep \/ ThreadsExit \/ \E t \in OtherThread : OtherStep(t)
         \/ MasterRuns \/ \E w \in Worker : WorkerRuns(w)
         \/ (AcceptNewConnection \/ SpuriousWakeup) /\ NoLifecycle
         \/ Ended \/ UNCHANGED vars
  PROVE  StackInv' /\ HangupInv'
<1>1. UNCHANGED <<stack, shutdownCounter, reExecFlag>>
  BY DEF MainStep, StartServer, StartThreads, CheckShutdown, LockHelp, StartMedia,
     RelockHelp, ReleaseHelp, ShouldReExec, RestoreHandler, ClearGlobal, DestroyMember,
     DestroyWebServer, StopServer, ServerStopped, StopThreads, JoinThreads, Exit,
     OtherStep, EndReached, CallPlayer, ReturnFromPlayer, ThreadsExit, MasterRuns,
     WorkerRuns, NoLifecycle, Ended, vars, flagVars, signalVars
<1>2. StackInv' /\ HangupPending' = HangupPending
  BY <1>1 DEF StackInv, HangupPending
<1>3. CASE UNCHANGED <<main, reExec, outcome, hangup>>
  BY <1>1, <1>2, <1>3 DEF HangupInv, StillCounts, InLoop
<1>4. CASE \/ StartServer \/ StartThreads \/ CheckShutdown \/ LockHelp \/ StartMedia
           \/ RelockHelp \/ ReleaseHelp
  BY <1>1, <1>2, <1>4
  DEF StartServer, StartThreads, CheckShutdown, LockHelp, StartMedia, RelockHelp,
      ReleaseHelp, MainGoes, endVars, HangupInv, StillCounts, InLoop, signalVars
<1>5. CASE ShouldReExec
  <2>1. hangup' = "sent" => reExec'
    BY <1>5 DEF ShouldReExec, MainGoes, HangupInv, StillCounts
  <2> QED
    BY <1>1, <1>2, <1>5, <2>1
    DEF ShouldReExec, MainGoes, HangupInv, StillCounts, InLoop
<1>6. CASE RestoreHandler \/ ClearGlobal \/ DestroyMember \/ DestroyWebServer
           \/ StopServer \/ ServerStopped \/ StopThreads \/ JoinThreads
  BY <1>1, <1>2, <1>6
  DEF RestoreHandler, ClearGlobal, DestroyMember, DestroyWebServer, StopServer,
      ServerStopped, StopThreads, JoinThreads, MainGoes, endVars, HangupInv, StillCounts,
      InLoop, signalVars
<1>7. CASE Exit
  BY <1>1, <1>2, <1>7
  DEF Exit, MainGoes, endVars, HangupInv, StillCounts, InLoop, signalVars
<1>8. CASE \E t \in OtherThread : OtherStep(t)
  BY <1>1, <1>2, <1>8
  DEF OtherStep, EndReached, CallPlayer, ReturnFromPlayer, WakeMain, endVars, HangupInv,
      StillCounts, InLoop, signalVars
<1>9. CASE \/ ThreadsExit \/ MasterRuns \/ \E w \in Worker : WorkerRuns(w)
           \/ (AcceptNewConnection \/ SpuriousWakeup) /\ NoLifecycle
           \/ Ended \/ UNCHANGED vars
  BY <1>3, <1>9
  DEF ThreadsExit, MasterRuns, WorkerRuns, NoLifecycle, Ended, vars, runVars, endVars,
      signalVars
<1> QED
  BY <1>4, <1>5, <1>6, <1>7, <1>8, <1>9 DEF MainStep

(* The steps of the signal handlers, and the end of the process.           *)
LEMMA HandlerKeepsHangup ==
  ASSUME StackInv, HangupInv,
         \/ \E t \in Thread : \/ \E signal \in SignalNumber : Deliver(signal, t)
                              \/ HandlerStep(t)
         \/ UsedAfterDestruction \/ NullGlobal \/ Killed
  PROVE  StackInv' /\ HangupInv'
<1>1. ASSUME NEW t \in Thread, NEW signal \in SignalNumber, Deliver(signal, t)
      PROVE  StackInv' /\ HangupInv'
  BY <1>1, DeliverKeeps DEF Deliver, HangupInv, StillCounts, InLoop, runVars, endVars
<1>2. ASSUME NEW t \in Thread, LockHandler(t)
      PROVE  StackInv' /\ HangupInv'
  <2>1. StackInv' /\ (HangupPending => HangupPending')
    BY <1>2, GoesKeeps DEF LockHandler, Handling, flagVars
  <2> QED
    BY <1>2, <2>1
    DEF LockHandler, HangupInv, StillCounts, InLoop, runVars, endVars, flagVars
<1>3. ASSUME NEW t \in Thread, NotifyHandler(t)
      PROVE  StackInv' /\ HangupInv'
  <2>1. StackInv' /\ (HangupPending => HangupPending')
    <3>1. CASE Innermost(t).signal = "SIGHUP"
      BY <1>3, <3>1, GoesKeeps DEF NotifyHandler, Handling, flagVars
    <3>2. CASE Innermost(t).signal # "SIGHUP"
      BY <1>3, <3>2, ReturnsKeeps DEF NotifyHandler, Handling, flagVars
    <3> QED
      BY <3>1, <3>2
  <2> QED
    BY <1>3, <2>1
    DEF NotifyHandler, WakeMain, HangupInv, StillCounts, InLoop, endVars, flagVars
<1>4. ASSUME NEW t \in Thread, SetReExecFlag(t)
      PROVE  StackInv' /\ HangupInv'
  <2>1. StackInv'
    BY <1>4, ReturnsKeeps DEF SetReExecFlag, Handling
  <2> QED
    BY <1>4, <2>1 DEF SetReExecFlag, HangupInv, StillCounts, InLoop, runVars, endVars
<1>5. CASE UsedAfterDestruction \/ NullGlobal \/ Killed
  <2>1. /\ stack' = [t \in Thread |-> <<>>] /\ shutdownCounter' = 0
        /\ hangup' = "none" /\ outcome' # "exit"
    BY <1>5 DEF UsedAfterDestruction, NullGlobal, Killed, Dies
  <2>2. <<>> \in Seq(Handler) /\ Len(<<>>) = 0
    OBVIOUS
  <2>3. StackInv'
    BY <2>1, <2>2 DEF StackInv
  <2> QED
    BY <2>1, <2>3 DEF HangupInv
<1> QED
  BY <1>1, <1>2, <1>3, <1>4, <1>5 DEF HandlerStep

(* What the handlers keep, on every step.                                  *)
LEMMA HangupStep ==
  StackInv /\ HangupInv /\ [Next]_vars => StackInv' /\ HangupInv'
BY MainKeepsHangup, HandlerKeepsHangup DEF Next

(* Nothing is on the stack at the start.                                   *)
LEMMA HangupInit == Init => StackInv /\ HangupInv
BY DEF Init, StackInv, HangupInv, StillCounts

(* If main ends without a call of execl, no SIGHUP came before it read     *)
(* reExecFlag, but for one on another thread whose handler it overtook:    *)
(* whatever other signals interrupt the handler before it sets the flag.   *)
THEOREM HangupIsNotLost == Spec => []HangupReexecs
<1>1. HangupInv => HangupReexecs
  BY DEF HangupInv, HangupReexecs, StillCounts, InLoop
<1> QED
  BY <1>1, HangupInit, HangupStep, PTL DEF Spec

-----------------------------------------------------------------------------
(* The types of what is neither in the pool nor on the stack.              *)
RunTypeOK ==
  /\ main \in {"startServer", "startThreads", "check", "lock", "starting", "waiting",
               "woken", "relocked", "returned", "restore", "clear",
               "destroy", "stopServer", "joinServer", "joinThreads", "gone"}
  /\ downloads \in {"none", "running", "exited"}
  /\ calls \in Nat /\ calling \in {"wake", "update"}
  /\ hangup \in {"none", "sent", "overtaken"}
  /\ outcome \in {"running", "exit", "exec", "execFailed", "killed", "crashed"}

FlagTypeOK ==
  /\ onStandby \in BOOLEAN /\ shutdownFlag \in BOOLEAN /\ reExecFlag \in BOOLEAN
  /\ reExec \in BOOLEAN /\ global \in BOOLEAN /\ handlesInt \in BOOLEAN

(* Every step keeps these types.                                           *)
LEMMA RunTypeStep ==
  RunTypeOK /\ [Next]_vars => RunTypeOK'
<1> SUFFICES ASSUME RunTypeOK, [Next]_vars PROVE RunTypeOK'
  OBVIOUS
<1>1. CASE \/ StartServer \/ StartThreads \/ CheckShutdown \/ LockHelp \/ StartMedia
           \/ RelockHelp \/ ReleaseHelp
  BY <1>1
  DEF StartServer, StartThreads, CheckShutdown, LockHelp, StartMedia, RelockHelp,
      ReleaseHelp, MainGoes, RunTypeOK, otherVars, signalVars
<1>2. CASE ShouldReExec
  BY <1>2 DEF ShouldReExec, MainGoes, RunTypeOK, otherVars
<1>3. CASE RestoreHandler \/ ClearGlobal \/ DestroyMember \/ DestroyWebServer
  BY <1>3
  DEF RestoreHandler, ClearGlobal, DestroyMember, DestroyWebServer, MainGoes, RunTypeOK,
      otherVars, signalVars
<1>4. CASE StopServer \/ ServerStopped \/ StopThreads \/ JoinThreads \/ Exit
  BY <1>4
  DEF StopServer, ServerStopped, StopThreads, JoinThreads, Exit, MainGoes, RunTypeOK,
      otherVars, signalVars
<1>5. CASE ThreadsExit
  BY <1>5 DEF ThreadsExit, RunTypeOK, signalVars
<1>6. CASE UsedAfterDestruction \/ NullGlobal \/ Killed
  BY <1>6 DEF UsedAfterDestruction, NullGlobal, Killed, Dies, RunTypeOK, otherVars
<1>7. ASSUME NEW t \in OtherThread, OtherStep(t)
      PROVE  RunTypeOK'
  BY <1>7
  DEF OtherStep, EndReached, CallPlayer, ReturnFromPlayer, WakeMain, RunTypeOK, signalVars
<1>8. ASSUME NEW t \in Thread, NEW signal \in SignalNumber, Deliver(signal, t)
      PROVE  RunTypeOK'
  BY <1>8 DEF Deliver, RunTypeOK, runVars, otherVars
<1>9. ASSUME NEW t \in Thread, HandlerStep(t)
      PROVE  RunTypeOK'
  BY <1>9
  DEF HandlerStep, LockHandler, NotifyHandler, SetReExecFlag, WakeMain, RunTypeOK, runVars,
      otherVars
<1>10. CASE \/ MasterRuns \/ \E w \in Worker : WorkerRuns(w)
            \/ (AcceptNewConnection \/ SpuriousWakeup) /\ NoLifecycle
            \/ Ended \/ UNCHANGED vars
  BY <1>10
  DEF MasterRuns, WorkerRuns, NoLifecycle, Ended, vars, RunTypeOK, runVars, otherVars,
      signalVars
<1> QED
  BY <1>1, <1>2, <1>3, <1>4, <1>5, <1>6, <1>7, <1>8, <1>9, <1>10 DEF Next, MainStep

(* The flags are set and cleared, and nothing else.                        *)
LEMMA FlagTypeStep ==
  FlagTypeOK /\ [Next]_vars => FlagTypeOK'
<1> SUFFICES ASSUME FlagTypeOK, [Next]_vars PROVE FlagTypeOK'
  OBVIOUS
<1>1. CASE UNCHANGED <<onStandby, flagVars, endVars>>
  BY <1>1 DEF FlagTypeOK, flagVars, endVars
<1>2. CASE StartMedia
  BY <1>2, Zenon DEF StartMedia, FlagTypeOK, flagVars, endVars
<1>3. CASE ShouldReExec \/ RestoreHandler \/ ClearGlobal
  BY <1>3, Zenon
  DEF ShouldReExec, RestoreHandler, ClearGlobal, FlagTypeOK, flagVars
<1>4. CASE DestroyMember \/ DestroyWebServer \/ JoinThreads
  BY <1>4, Zenon
  DEF DestroyMember, DestroyWebServer, JoinThreads, FlagTypeOK, flagVars
<1>5. CASE UsedAfterDestruction \/ NullGlobal \/ Killed
  BY <1>5, Zenon
  DEF UsedAfterDestruction, NullGlobal, Killed, Dies, FlagTypeOK, endVars
<1>6. ASSUME NEW t \in Thread, NEW signal \in SignalNumber, Deliver(signal, t)
      PROVE  FlagTypeOK'
  BY <1>6, Zenon DEF Deliver, FlagTypeOK, runVars, endVars
<1>7. ASSUME NEW t \in Thread, HandlerStep(t)
      PROVE  FlagTypeOK'
  BY <1>7, Zenon
  DEF HandlerStep, LockHandler, NotifyHandler, SetReExecFlag, FlagTypeOK, runVars,
      endVars, flagVars
<1>8. CASE \/ StartServer \/ StartThreads \/ CheckShutdown \/ LockHelp \/ RelockHelp
           \/ ReleaseHelp \/ StopServer \/ ServerStopped \/ StopThreads \/ Exit
           \/ ThreadsExit
  BY <1>1, <1>8
  DEF StartServer, StartThreads, CheckShutdown, LockHelp, RelockHelp, ReleaseHelp,
      StopServer, ServerStopped, StopThreads, Exit, ThreadsExit
<1>9. CASE \/ MasterRuns \/ \E w \in Worker : WorkerRuns(w)
           \/ (AcceptNewConnection \/ SpuriousWakeup) /\ NoLifecycle
           \/ Ended \/ UNCHANGED vars \/ \E t \in OtherThread : OtherStep(t)
  BY <1>1, <1>9
  DEF MasterRuns, WorkerRuns, NoLifecycle, Ended, vars, runVars, OtherStep, EndReached,
      CallPlayer, ReturnFromPlayer
<1> QED
  BY <1>2, <1>3, <1>4, <1>5, <1>6, <1>7, <1>8, <1>9 DEF Next, MainStep

-----------------------------------------------------------------------------
(* The deadlocks.  The master joins when no worker sleeps any more.        *)
JoinInv ==
  /\ master.pc \in {"join", "exited"} =>
       stopFlag # 0 /\ \A w \in Worker : worker[w].pc # "waiting"
  /\ master.pc = "exited" => stopFlag = 2
  /\ master.pc = "absent" => stopFlag = 0
  /\ master.pc # "absent" => \A w \in Worker : worker[w].pc # "absent"

(* A worker goes to sleep only while the flag is not set.                  *)
LEMMA JoinStep == PoolInv /\ JoinInv /\ [PoolNext]_poolVars => JoinInv'
<1> SUFFICES ASSUME PoolInv, JoinInv, [PoolNext]_poolVars PROVE JoinInv'
  OBVIOUS
<1>1. /\ PoolTypeOK /\ HandsInv
      /\ \A pc : At(pc).pc = pc
      /\ \A w \in Worker : w \in Waiting <=> worker[w].pc = "waiting"
  BY DEF PoolInv, At, Waiting
<1>2. CASE MgStart \/ MgStop \/ JoinWorkers
  BY <1>1, <1>2 DEF MgStart, MgStop, JoinWorkers, JoinInv, PoolTypeOK
<1>3. CASE AcceptNewConnection \/ WaitEmpty
  BY <1>3 DEF AcceptNewConnection, WaitEmpty, JoinInv, PoolTypeOK, PoolInv
<1>4. CASE ProduceSocket \/ DropSocket
  <2>1. \A w \in Worker : worker'[w].pc = worker[w].pc \/ worker'[w].pc = "consume"
    BY <1>1, <1>4, SignalFullWakes DEF ProduceSocket, DropSocket
  <2> QED
    BY <1>1, <1>4, <2>1 DEF ProduceSocket, DropSocket, JoinInv
<1>5. CASE StopWorkers
  BY <1>1, <1>5 DEF StopWorkers, JoinInv
<1>6. ASSUME NEW w \in Worker, WorkerStep(w) \/ ProcessConnection(w)
      PROVE  JoinInv'
  <2>1. \/ master' = master
        \/ master.pc = "blocked" /\ master'.pc = "produce"
    BY <1>1, <1>6
    DEF WorkerStep, ConsumeSocket, ConsumeNothing, WaitFull, ReturnSocket,
        ProcessConnection, SignalEmpty, PoolTypeOK
  <2>2. /\ stopFlag' = stopFlag /\ worker[w].pc # "absent"
        /\ \A v \in Worker : v # w => worker'[v] = worker[v]
        /\ worker'[w].pc # "absent"
        /\ worker'[w].pc = "waiting" => stopFlag = 0
    BY <1>1, <1>6
    DEF WorkerStep, ConsumeSocket, ConsumeNothing, WaitFull, ReturnSocket,
        ProcessConnection, PoolTypeOK
  <2> QED
    BY <2>1, <2>2 DEF JoinInv
<1>7. CASE SpuriousWakeup
  <2>1. CASE master.pc = "blocked" /\ SignalEmpty /\ UNCHANGED <<worker, stopFlag>>
    BY <1>1, <2>1 DEF SignalEmpty, JoinInv, PoolTypeOK
  <2>2. CASE SignalFull /\ UNCHANGED <<master, stopFlag>>
    <3>1. \A w \in Worker : worker'[w].pc = worker[w].pc \/ worker'[w].pc = "consume"
      BY <1>1, <2>2, SignalFullWakes
    <3> QED
      BY <2>2, <3>1 DEF JoinInv
  <2> QED
    BY <1>7, <2>1, <2>2 DEF SpuriousWakeup
<1>8. CASE UNCHANGED poolVars
  BY <1>8 DEF poolVars, JoinInv
<1> QED
  BY <1>2, <1>3, <1>4, <1>5, <1>6, <1>7, <1>8 DEF PoolNext, MasterStep

(* Once mg_stop has set the flag, the master or a worker can go on until   *)
(* all have exited, unless the master is forsaken: where it waits for room *)
(* in the ring, a worker is on its way to make some.                       *)
LEMMA StopGoesOn ==
  ASSUME PoolInv, JoinInv, stopFlag = 1
  PROVE  MasterForsaken \/ MasterCanGo \/ \E w \in Worker : WorkerCanGo(w)
<1>1. PoolTypeOK /\ NoConnectionForgotten /\ QueueSize \in Nat \ {0}
  BY PoolBounds DEF PoolInv
<1>2. CASE master.pc \in {"accept", "produce"}
  BY <1>2 DEF MasterCanGo
<1>3. CASE master.pc = "join"
  BY <1>1, <1>3 DEF MasterCanGo, WorkerCanGo, JoinInv, PoolTypeOK
<1>4. CASE master.pc = "blocked"
  <2>1. CASE \A w \in Worker : worker[w].pc \in {"return", "exited"}
    BY <1>4, <2>1 DEF MasterForsaken
  <2>2. CASE \E w \in Worker : worker[w].pc = "waiting"
    <3>1. Waiting # {} /\ QueueFilled = QueueSize
      BY <1>1, <1>4, <2>2 DEF Waiting, NoConnectionForgotten
    <3>2. Cardinality(Consuming) >= QueueSize
      BY <1>1, <3>1 DEF NoConnectionForgotten
    <3>3. Consuming # {}
      BY <1>1, <3>2, FS_EmptySet
    <3> QED
      BY <3>3 DEF Consuming, WorkerCanGo
  <2>3. CASE \E w \in Worker : worker[w].pc \in {"consume", "busy"}
    BY <2>3 DEF WorkerCanGo
  <2> QED
    BY <1>1, <1>4, <2>1, <2>2, <2>3 DEF JoinInv, PoolTypeOK
<1> QED
  BY <1>1, <1>2, <1>3, <1>4 DEF JoinInv, PoolTypeOK

-----------------------------------------------------------------------------
(* Who holds helpMutex is main from the lock to the wait or from the wait  *)
(* to the end of the block, another thread that calls the player, or a     *)
(* handler between its lock and its wakeup.                                *)
HolderAt(t, d) ==
  \/ d = 0 /\ t = "main" /\ main \in {"starting", "relocked"}
  \/ d = 0 /\ t \in OtherThread
  \/ d \in 1 .. Len(stack[t]) /\ stack[t][d].pc = "notify"

HolderInv ==
  \/ helpMutex = {}
  \/ \E t \in Thread, d \in Nat : helpMutex = {<<t, d>>} /\ HolderAt(t, d)

(* A step that leaves the mutex to nobody, or to whom it was, keeps it.    *)
LEMMA HolderKept ==
  ASSUME HolderInv,
         \/ helpMutex' = {}
         \/ /\ UNCHANGED <<helpMutex, stack>>
            /\ main \in {"starting", "relocked"} => main' = main
  PROVE  HolderInv'
BY DEF HolderInv, HolderAt

(* Locks come when the mutex is free; a handler returns when it is.        *)
LEMMA HolderStep ==
  StackInv /\ HolderInv /\ [Next]_vars => HolderInv'
<1> SUFFICES ASSUME StackInv, HolderInv, [Next]_vars PROVE HolderInv'
  OBVIOUS
<1>1. CASE MainStep
  <2>1. CASE LockHelp \/ RelockHelp
    <3>1. /\ helpMutex' = {<<"main", Len(stack["main"])>>} /\ Len(stack["main"]) = 0
          /\ main' \in {"starting", "relocked"}
      BY <2>1 DEF LockHelp, RelockHelp, Lock, MainGoes, Uninterrupted
    <3> QED
      BY <3>1 DEF HolderInv, HolderAt, Thread
  <2>2. CASE StartMedia \/ ReleaseHelp
    BY <2>2, HolderKept DEF StartMedia, ReleaseHelp, Unlock
  <2>3. CASE ~(LockHelp \/ RelockHelp \/ StartMedia \/ ReleaseHelp)
    <3>1. UNCHANGED <<helpMutex, stack>> /\ main \notin {"starting", "relocked"}
      BY <1>1, <2>3
      DEF MainStep, StartServer, StartThreads, CheckShutdown, ShouldReExec,
          RestoreHandler, ClearGlobal, DestroyMember, DestroyWebServer, StopServer,
          ServerStopped, StopThreads, JoinThreads, Exit, MainGoes, signalVars
    <3> QED
      BY <3>1, HolderKept
  <2> QED
    BY <2>1, <2>2, <2>3
<1>2. CASE UsedAfterDestruction \/ NullGlobal \/ Killed
  BY <1>2, HolderKept DEF UsedAfterDestruction, NullGlobal, Killed, Dies
<1>3. CASE \/ ThreadsExit \/ MasterRuns \/ \E w \in Worker : WorkerRuns(w)
           \/ (AcceptNewConnection \/ SpuriousWakeup) /\ NoLifecycle
           \/ Ended \/ UNCHANGED vars
  BY <1>3, HolderKept
  DEF ThreadsExit, MasterRuns, WorkerRuns, NoLifecycle, Ended, vars, runVars, signalVars
<1>4. ASSUME NEW t \in OtherThread, OtherStep(t)
      PROVE  HolderInv'
  <2>1. CASE EndReached(t) \/ \E how \in {"wake", "update"} : CallPlayer(t, how)
    <3>1. helpMutex' = {<<t, Len(stack[t])>>} /\ stack[t] = <<>>
      BY <2>1 DEF EndReached, CallPlayer, Lock, Uninterrupted
    <3>2. helpMutex' = {<<t, 0>>}
      BY <3>1
    <3>3. HolderAt(t, 0)' /\ t \in Thread
      BY DEF HolderAt, Thread
    <3> QED
      BY <3>2, <3>3 DEF HolderInv
  <2>2. CASE ReturnFromPlayer(t)
    BY <2>2, HolderKept DEF ReturnFromPlayer, Unlock
  <2> QED
    BY <1>4, <2>1, <2>2 DEF OtherStep
<1>5. ASSUME NEW t \in Thread, NEW signal \in SignalNumber, Deliver(signal, t)
      PROVE  HolderInv'
  <2> DEFINE h == [signal |-> signal, pc |-> "lock", immediate |-> shutdownCounter > 0]
  <2>1. stack' = [stack EXCEPT ![t] = Append(stack[t], h)] /\ UNCHANGED <<main, helpMutex>>
    BY <1>5 DEF Deliver, runVars
  <2>2. h \in Handler
    BY DEF Handler
  <2> HIDE DEF h
  <2> DEFINE n == Len(stack[t])
  <2>3. stack[t] \in Seq(Handler) /\ n \in Nat
    BY DEF StackInv
  <2>4. /\ Len(Append(stack[t], h)) = Len(stack[t]) + 1
        /\ \A i \in 1 .. Len(stack[t]) : Append(stack[t], h)[i] = stack[t][i]
    BY <2>2, <2>3, AppendProperties
  <2>5. stack'[t] = Append(stack[t], h) /\ \A u \in Thread : u # t => stack'[u] = stack[u]
    BY <2>1 DEF StackInv
  <2>6. ASSUME NEW u \in Thread, NEW d \in Nat, HolderAt(u, d)
        PROVE  HolderAt(u, d)'
    BY <2>1, <2>3, <2>4, <2>5, <2>6 DEF HolderAt
  <2> QED
    BY <2>1, <2>6 DEF HolderInv
<1>6. ASSUME NEW t \in Thread, LockHandler(t)
      PROVE  HolderInv'
  <2> DEFINE n == Len(stack[t])
             h == [stack[t][n] EXCEPT !.pc = "notify"]
  <2>1. stack[t] \in Seq(Handler) /\ n \in Nat \ {0} /\ stack[t][n] \in Handler
    BY <1>6 DEF LockHandler, Handling, StackInv
  <2>2. h \in Handler /\ h.pc = "notify"
    BY <2>1 DEF Handler
  <2>3. /\ stack' = [stack EXCEPT ![t] = [stack[t] EXCEPT ![n] = h]]
        /\ helpMutex' = {<<t, n>>}
    BY <1>6 DEF LockHandler, HandlerGoes, StackInv, Lock
  <2> HIDE DEF h
  <2>4. /\ Len([stack[t] EXCEPT ![n] = h]) = n
        /\ [stack[t] EXCEPT ![n] = h][n] = h
    BY <2>1, <2>2, ExceptSeq
  <2>5. stack'[t] = [stack[t] EXCEPT ![n] = h]
    BY <2>3 DEF StackInv
  <2>6. HolderAt(t, n)' /\ n \in Nat
    BY <2>1, <2>2, <2>4, <2>5 DEF HolderAt
  <2> QED
    BY <2>3, <2>6 DEF HolderInv
<1>7. ASSUME NEW t \in Thread, NotifyHandler(t)
      PROVE  HolderInv'
  BY <1>7, HolderKept DEF NotifyHandler, Unlock
<1>8. ASSUME NEW t \in Thread, SetReExecFlag(t)
      PROVE  HolderInv'
  <2> DEFINE n == Len(stack[t])
  <2>1. /\ stack[t] \in Seq(Handler) /\ n \in Nat \ {0}
        /\ stack[t][n].pc = "reExec"
    BY <1>8 DEF SetReExecFlag, Handling, Innermost, StackInv
  <2>2. /\ Len(Front(stack[t])) = n - 1
        /\ \A i \in 1 .. n - 1 : Front(stack[t])[i] = stack[t][i]
    BY <2>1 DEF Front
  <2>3. stack'[t] = Front(stack[t]) /\ \A u \in Thread : u # t => stack'[u] = stack[u]
    BY <1>8 DEF SetReExecFlag, Returns, StackInv
  <2>4. UNCHANGED <<main, helpMutex>>
    BY <1>8 DEF SetReExecFlag, runVars
  <2>5. ASSUME NEW u \in Thread, NEW d \in Nat, HolderAt(u, d)
        PROVE  HolderAt(u, d)'
    BY <2>1, <2>2, <2>3, <2>4, <2>5 DEF HolderAt
  <2> QED
    BY <2>4, <2>5 DEF HolderInv
<1> QED
  BY <1>1, <1>2, <1>3, <1>4, <1>5, <1>6, <1>7, <1>8 DEF Next, HandlerStep

(* The types of the whole process: whoever holds the mutex is a thread or  *)
(* one of the handlers on it, and no more members go than there are.       *)
THEOREM LifecycleTypeCorrect == Spec => []LifecycleTypeOK
<1>1. Init => RunTypeOK /\ FlagTypeOK /\ DestroyInv /\ HolderInv
  <2> SUFFICES ASSUME Init PROVE RunTypeOK /\ FlagTypeOK /\ DestroyInv /\ HolderInv
    OBVIOUS
  <2>1. RunTypeOK /\ HolderInv
    BY DEF Init, RunTypeOK, HolderInv
  <2>2. FlagTypeOK
    BY Zenon DEF Init, FlagTypeOK
  <2>3. DestroyInv
    BY MemberOrder DEF Init, DestroyInv
  <2> QED
    BY <2>1, <2>2, <2>3
<1>2. /\ PoolInv /\ StackInv /\ HangupInv /\ [Next]_vars
      /\ RunTypeOK /\ FlagTypeOK /\ DestroyInv /\ HolderInv
      => /\ StackInv' /\ HangupInv'
         /\ RunTypeOK' /\ FlagTypeOK' /\ DestroyInv' /\ HolderInv'
  BY HangupStep, RunTypeStep, FlagTypeStep, DestroyStep, HolderStep
<1>3. Spec => []PoolInv
  BY LifecycleHasPool, PoolInvariant, PTL
<1>4. PoolInv /\ StackInv /\ RunTypeOK /\ FlagTypeOK /\ DestroyInv /\ HolderInv
      => LifecycleTypeOK
  <2> SUFFICES ASSUME PoolInv, StackInv, RunTypeOK, FlagTypeOK, DestroyInv, HolderInv
               PROVE  LifecycleTypeOK
    OBVIOUS
  <2>1. ASSUME NEW t \in Thread, NEW i \in 1 .. Len(stack[t])
        PROVE  stack[t][i] \in Handler
    BY DEF StackInv
  <2>2. \A t \in Thread : Len(stack[t]) \in Nat
    BY DEF StackInv
  <2>3. \/ helpMutex = {}
        \/ \E t \in Thread : \E d \in 0 .. Len(stack[t]) : helpMutex = {<<t, d>>}
    BY <2>2 DEF HolderInv, HolderAt
  <2> QED
    BY <2>1, <2>3, MemberOrder
    DEF PoolInv, StackInv, RunTypeOK, FlagTypeOK, DestroyInv, LifecycleTypeOK, Handler
<1> QED
  BY <1>1, <1>2, <1>3, <1>4, HangupInit, PTL DEF Spec

-----------------------------------------------------------------------------
(* What main waits for when it joins, and that it is gone when it is.      *)
WaitingInv ==
  /\ main = "joinServer" => stopFlag # 0
  /\ main \notin {"startServer", "startThreads", "gone"} => downloads # "none"
  /\ main = "gone" => outcome # "running"

(* The flag and the threads are there before main waits for them.          *)
LEMMA WaitingStep ==
  RunTypeOK /\ PoolInv /\ WaitingInv /\ [Next]_vars => WaitingInv'
<1> SUFFICES ASSUME RunTypeOK, PoolInv, WaitingInv, [Next]_vars PROVE WaitingInv'
  OBVIOUS
<1>1. stopFlag # 0 => stopFlag' # 0
  <2>1. [PoolNext]_poolVars
    BY PoolSteps
  <2> QED
    BY <2>1
    DEF PoolInv, PoolTypeOK, poolVars, queueVars, PoolNext, MasterStep, WorkerStep,
        MgStart, MgStop, AcceptNewConnection, ProduceSocket, DropSocket, WaitEmpty,
        StopWorkers, JoinWorkers, ConsumeSocket, ConsumeNothing, WaitFull, ReturnSocket,
        ProcessConnection, SpuriousWakeup
<1>2. CASE UNCHANGED <<main, outcome>> /\ (downloads' = downloads \/ downloads' = "exited")
  BY <1>1, <1>2 DEF WaitingInv
<1>3. CASE MainStep
  <2>1. CASE StopServer
    BY <2>1 DEF StopServer, MgStop, MainGoes, WaitingInv, otherVars
  <2>2. CASE Exit
    BY <2>2 DEF Exit, MainGoes, WaitingInv, otherVars
  <2>3. CASE StartServer \/ StartThreads
    BY <2>3 DEF StartServer, StartThreads, MainGoes, WaitingInv, otherVars
  <2>4. CASE \/ CheckShutdown \/ LockHelp \/ StartMedia \/ RelockHelp \/ ReleaseHelp
             \/ ShouldReExec \/ RestoreHandler \/ ClearGlobal \/ DestroyMember
             \/ DestroyWebServer \/ ServerStopped \/ StopThreads \/ JoinThreads
    <3>1. /\ main \notin {"startServer", "startThreads", "gone"}
          /\ main' \notin {"joinServer", "gone"} /\ downloads' = downloads
      BY <2>4
      DEF CheckShutdown, LockHelp, StartMedia, RelockHelp, ReleaseHelp, ShouldReExec,
          RestoreHandler, ClearGlobal, DestroyMember, DestroyWebServer, ServerStopped,
          StopThreads, JoinThreads, MainGoes, otherVars
    <3> QED
      BY <3>1 DEF WaitingInv
  <2> QED
    BY <1>3, <2>1, <2>2, <2>3, <2>4 DEF MainStep
<1>4. CASE \/ \E t \in OtherThread : OtherStep(t)
           \/ \E t \in Thread : NotifyHandler(t)
  BY <1>1, <1>4
  DEF OtherStep, EndReached, CallPlayer, ReturnFromPlayer, NotifyHandler, WakeMain,
      WaitingInv, otherVars
<1>5. CASE UsedAfterDestruction \/ NullGlobal \/ Killed
  BY <1>5 DEF UsedAfterDestruction, NullGlobal, Killed, Dies, WaitingInv, otherVars
<1>6. CASE \/ ThreadsExit \/ MasterRuns \/ \E w \in Worker : WorkerRuns(w)
           \/ (AcceptNewConnection \/ SpuriousWakeup) /\ NoLifecycle
           \/ Ended \/ UNCHANGED vars
  BY <1>2, <1>6
  DEF ThreadsExit, MasterRuns, WorkerRuns, NoLifecycle, Ended, vars, runVars, otherVars
<1>7. CASE \E t \in Thread : \/ LockHandler(t) \/ SetReExecFlag(t)
                             \/ \E signal \in SignalNumber : Deliver(signal, t)
  BY <1>2, <1>7 DEF Deliver, LockHandler, SetReExecFlag, runVars, otherVars
<1> QED
  BY <1>3, <1>4, <1>5, <1>6, <1>7 DEF Next, HandlerStep

(* Where helpMutex is held, its holder can go on, or the innermost handler *)
(* above it can, or that one waits for it.                                 *)
LEMMA HolderGoesOn ==
  ASSUME StackInv, HolderInv, helpMutex # {}
  PROVE  SelfDeadlock \/ MainCanGo \/ CallerCanGo \/ \E t \in Thread : HandlerCanGo(t)
<1>1. PICK u \in Thread, d \in Nat : helpMutex = {<<u, d>>} /\ HolderAt(u, d)
  BY DEF HolderInv
<1>2. stack[u] \in Seq(Handler) /\ Len(stack[u]) \in Nat
  BY DEF StackInv
<1>3. CASE stack[u] = <<>>
  <2>1. \/ u = "main" /\ main \in {"starting", "relocked"}
        \/ u \in OtherThread /\ d = 0
    BY <1>1, <1>3 DEF HolderAt
  <2>2. CASE u = "main" /\ main \in {"starting", "relocked"}
    BY <1>3, <2>2 DEF MainCanGo, Uninterrupted
  <2>3. CASE u \in OtherThread /\ d = 0
    BY <1>1, <1>3, <2>3 DEF CallerCanGo, Uninterrupted
  <2> QED
    BY <2>1, <2>2, <2>3
<1>4. CASE stack[u] # <<>> /\ ~Handling(u, "lock")
  BY <1>4 DEF HandlerCanGo
<1>5. CASE Handling(u, "lock")
  <2>1. Len(stack[u]) # 0
    BY <1>2, <1>5, EmptySeq DEF Handling
  <2>2. d # Len(stack[u])
    BY <1>1, <1>5, <2>1 DEF HolderAt, Handling, Innermost
  <2>3. d \in 0 .. Len(stack[u])
    BY <1>1, <1>2 DEF HolderAt
  <2>4. d \in 0 .. Len(stack[u]) - 1
    BY <1>2, <2>2, <2>3
  <2> QED
    BY <1>1, <1>5, <2>4 DEF SelfDeadlock
<1> QED
  BY <1>3, <1>4, <1>5

(* Two deadlocks and no other: for any number of workers and connections,  *)
(* any size of the ring and any signals in any of the threads.             *)
THEOREM OnlyKnownDeadlocks == Spec => []NoOtherDeadlock
<1>1. Init => JoinInv /\ HolderInv /\ WaitingInv /\ RunTypeOK
  BY DEF Init, PoolInit, At, JoinInv, HolderInv, WaitingInv, RunTypeOK
<1>2. /\ PoolInv /\ StackInv /\ HangupInv /\ JoinInv /\ HolderInv /\ WaitingInv
      /\ RunTypeOK /\ [Next]_vars
      => /\ StackInv' /\ HangupInv' /\ JoinInv' /\ HolderInv' /\ WaitingInv'
         /\ RunTypeOK'
  BY PoolSteps, JoinStep, HangupStep, HolderStep, WaitingStep, RunTypeStep
<1>3. Spec => []PoolInv
  BY LifecycleHasPool, PoolInvariant, PTL
<1>4. /\ PoolInv /\ StackInv /\ JoinInv /\ HolderInv /\ WaitingInv /\ RunTypeOK
      => NoOtherDeadlock
  <2> SUFFICES ASSUME PoolInv, StackInv, JoinInv, HolderInv, WaitingInv, RunTypeOK,
                      Running, helpMutex = {},
                      \A t \in Thread : ~HandlerCanGo(t)
               PROVE  \/ MasterForsaken
                      \/ MainCanGo \/ PlayerCanGo \/ DownloadsCanGo
                      \/ MasterCanGo \/ \E w \in Worker : WorkerCanGo(w)
    BY HolderGoesOn DEF NoOtherDeadlock
  <2>1. Uninterrupted("main")
    BY DEF HandlerCanGo, Uninterrupted, Thread
  <2>2. CASE main = "waiting"
    <3>1. PICK t \in OtherThread : TRUE
      BY LifecycleBounds
    <3>2. Uninterrupted(t)
      BY DEF HandlerCanGo, Uninterrupted, Thread
    <3> QED
      BY <2>2, <3>2 DEF PlayerCanGo
  <2>3. CASE main = "joinServer"
    <3>1. stopFlag = 1 \/ stopFlag = 2
      BY <2>3 DEF WaitingInv, PoolInv, PoolTypeOK
    <3> QED
      BY <2>1, <2>3, <3>1, StopGoesOn DEF MainCanGo
  <2>4. CASE main = "joinThreads"
    BY <2>1, <2>4 DEF MainCanGo, DownloadsCanGo, WaitingInv, RunTypeOK
  <2>5. CASE main \notin {"waiting", "joinServer", "joinThreads"}
    BY <2>1, <2>5 DEF MainCanGo
  <2> QED
    BY <2>2, <2>3, <2>4, <2>5
<1> QED
  BY <1>1, <1>2, <1>3, <1>4, HangupInit, PTL DEF Spec

=============================================================================
