----------------------------- MODULE Lifecycle ------------------------------
(***************************************************************************)
(* The process of utuputki from main() to exit() or execl(): Utuputki::run *)
(* with the loop of Player.cpp reduced to what wakes it, the signal        *)
(* handlers of Utuputki.cpp as they interrupt the thread they run on, and  *)
(* the destructors, which run in the reverse order of the members while    *)
(* the workers of WorkerPool and the downloader's threads are still there. *)
(*                                                                         *)
(* What the components do while the program runs is in Player, Downloader  *)
(* and WebServer.                                                          *)
(***************************************************************************)
EXTENDS WorkerPool, SequencesExt

CONSTANTS
  OtherThread,  \* threads but main that may be interrupted or call the player
  Mixes         \* bounds: how many connections, signals and calls there may be

ASSUME LifecycleBounds ==
  /\ OtherThread # {} /\ "main" \notin OtherThread
  /\ Mixes \subseteq [conns : Nat, signals : Nat, calls : Nat]

VARIABLES
  main,        \* where the main thread is
  downloads,   \* the downloader's threads: none, running, exited
  calls,       \* how often CallPlayer has happened
  calling,     \* what the caller of the player does: wake (main), update
  helpMutex,   \* {} or {<<thread, depth>>}: who holds it
  onStandby, shutdownFlag,
  shutdownCounter, reExecFlag,
  reExec,      \* main's local variable
  left,        \* how many of Members are not destroyed yet
  global,      \* UtuputkiImpl::global is set
  handlesInt,  \* SIGINT has the handler of utuputki
  stack,       \* thread -> the handlers that interrupt it, innermost last
  hangup,      \* none; sent: a SIGHUP came while it would still count;
               \* overtaken: and main was faster than its handler
  outcome      \* running, exit, exec, execFailed, killed, crashed

otherVars == <<downloads, calls, calling>>
runVars == <<main, otherVars, onStandby>>
flagVars == <<shutdownFlag, shutdownCounter, reExecFlag>>
endVars == <<reExec, left, global, handlesInt>>
signalVars == <<stack, hangup>>
vars == <<poolVars, runVars, helpMutex, flagVars, endVars, signalVars, outcome>>

(* A signal interrupts main or another thread: the one in which VLC        *)
(* reports the end of what it plays, a worker, one of the downloader.      *)
Thread == {"main"} \cup OtherThread
SignalNumber == {"SIGINT", "SIGHUP"}

(* Mutant: the database is declared after the downloader.                  *)
Members_DatabaseLate ==
  <<"config", "logger", "downloader", "database", "webServer", "player", "nowPlaying">>

(* The members of UtuputkiImpl, in the order of their declaration.         *)
Members ==
  <<"config", "logger", "database", "downloader", "webServer", "player", "nowPlaying">>

Alive == {Members[i] : i \in 1 .. left}

Init ==
  /\ PoolInit
  /\ main = "startServer" /\ downloads = "none" /\ helpMutex = {}
  /\ calls = 0 /\ calling = "wake"
  /\ onStandby = TRUE /\ shutdownFlag = FALSE
  /\ shutdownCounter = 0 /\ reExecFlag = FALSE
  /\ reExec = FALSE /\ left = Len(Members) /\ global = TRUE /\ handlesInt = TRUE
  /\ stack = [t \in Thread |-> <<>>] /\ hangup = "none"
  /\ outcome = "running"

-----------------------------------------------------------------------------
(* Bound: many connections or several signals, not both.                   *)
Within(conns, signals, count) ==
  \E mix \in Mixes : conns <= mix.conns /\ signals <= mix.signals /\ count <= mix.calls

(* A thread runs code of its own when no handler interrupts it.            *)
Uninterrupted(t) == stack[t] = <<>>
Innermost(t) == stack[t][Len(stack[t])]
Handling(t, pc) == stack[t] # <<>> /\ Innermost(t).pc = pc

MainGoes(from, to) ==
  /\ main = from /\ Uninterrupted("main")
  /\ main' = to

Lock(t) == helpMutex = {} /\ helpMutex' = {<<t, Len(stack[t])>>}
Unlock == helpMutex' = {}

(* The loop of Player.cpp, while which there is a MediaPlayer of VLC.      *)
InLoop == main \in {"check", "lock", "starting", "waiting", "woken", "relocked"}

(* helpCV.notify_one()                                                     *)
WakeMain == main' = IF main = "waiting" THEN "woken" ELSE main

-----------------------------------------------------------------------------
(* Utuputki::run.                                                          *)

StartServer ==
  /\ MainGoes("startServer", "startThreads")
  /\ MgStart
  /\ UNCHANGED <<otherVars, onStandby, helpMutex, flagVars,
                 endVars, signalVars, outcome>>

StartThreads ==
  /\ MainGoes("startThreads", "check")
  /\ downloads' = "running"
  /\ UNCHANGED <<poolVars, calls, calling, onStandby, helpMutex, flagVars,
                 endVars, signalVars, outcome>>

(* player.run(): the look at shutdownFlag, ...                             *)
CheckShutdown ==
  /\ MainGoes("check", IF shutdownFlag THEN "returned" ELSE "lock")
  /\ UNCHANGED <<poolVars, otherVars, onStandby, helpMutex,
                 flagVars, endVars, signalVars, outcome>>

(* ... and, under helpMutex, the start of a video or the standby image ... *)
LockHelp ==
  /\ MainGoes("lock", "starting")
  /\ Lock("main")
  /\ UNCHANGED <<poolVars, otherVars, onStandby, flagVars,
                 endVars, signalVars, outcome>>

StartMedia ==
  /\ MainGoes("starting", "waiting")
  /\ onStandby' \in BOOLEAN
  /\ Unlock
  /\ UNCHANGED <<poolVars, otherVars, flagVars, endVars, signalVars, outcome>>

(* ... and the wait, which takes the mutex once more when it returns; main *)
(* has it until the end of the block.                                      *)
RelockHelp ==
  /\ MainGoes("woken", "relocked")
  /\ Lock("main")
  /\ UNCHANGED <<poolVars, otherVars, onStandby, flagVars,
                 endVars, signalVars, outcome>>

ReleaseHelp ==
  /\ MainGoes("relocked", "check")
  /\ Unlock
  /\ UNCHANGED <<poolVars, otherVars, onStandby, flagVars,
                 endVars, signalVars, outcome>>

-----------------------------------------------------------------------------
(* What other threads do with the player, under helpMutex.  What VLC plays *)
(* ends: main waits then, since it has the mutex from the start of the     *)
(* video to the wait.                                                      *)
EndReached(t) ==
  /\ main = "waiting" /\ Uninterrupted(t)
  /\ Lock(t)
  /\ calling' = "wake"
  /\ UNCHANGED <<poolVars, main, downloads, calls, onStandby, flagVars,
                 endVars, signalVars, outcome>>

(* At any time: skipCurrent in a worker, a report of VLC that comes late,  *)
(* and notifyMediaUpdate in a thread of the downloader.                    *)
CallPlayer(t, how) ==
  /\ Within(accepted, shutdownCounter, calls + 1) /\ "player" \in Alive
  /\ \/ how = "wake" /\ (InLoop \/ \E w \in Worker : worker[w].pc = "busy")
     \/ how = "update" /\ downloads = "running"
  /\ Uninterrupted(t)
  /\ Lock(t)
  /\ calls' = calls + 1 /\ calling' = how
  /\ UNCHANGED <<poolVars, main, downloads, onStandby, flagVars,
                 endVars, signalVars, outcome>>

(* Only notifyMediaUpdate looks at onStandby.                              *)
ReturnFromPlayer(t) ==
  /\ helpMutex = {<<t, 0>>} /\ Uninterrupted(t)
  /\ Unlock
  /\ IF calling = "wake" \/ onStandby THEN WakeMain ELSE UNCHANGED main
  /\ calling' = "wake"
  /\ UNCHANGED <<poolVars, downloads, calls, onStandby, flagVars,
                 endVars, signalVars, outcome>>

OtherStep(t) ==
  \/ EndReached(t) \/ \E how \in {"wake", "update"} : CallPlayer(t, how)
  \/ ReturnFromPlayer(t)

-----------------------------------------------------------------------------
(* The end of main(): the flag is read, ~Utuputki takes back one handler   *)
(* and `global', and then the members go.                                  *)

(* A SIGHUP is in its handler.  If that is on another thread, main may     *)
(* read the flag before the handler sets it.                               *)
HangupPending ==
  \E t \in Thread : \E i \in 1 .. Len(stack[t]) : stack[t][i].signal = "SIGHUP"

ShouldReExec ==
  /\ MainGoes("returned", "restore")
  /\ reExec' = reExecFlag
  /\ hangup' = IF hangup = "sent" /\ ~reExecFlag /\ HangupPending THEN "overtaken"
               ELSE hangup
  /\ UNCHANGED <<poolVars, otherVars, onStandby, helpMutex,
                 flagVars, left, global, handlesInt, stack, outcome>>

RestoreHandler ==
  /\ MainGoes("restore", "clear")
  /\ handlesInt' = FALSE
  /\ UNCHANGED <<poolVars, otherVars, onStandby, helpMutex,
                 flagVars, reExec, left, global, signalVars, outcome>>

ClearGlobal ==
  /\ MainGoes("clear", "destroy")
  /\ global' = FALSE
  /\ UNCHANGED <<poolVars, otherVars, onStandby, helpMutex,
                 flagVars, reExec, left, handlesInt, signalVars, outcome>>

(* A member whose destructor waits for no thread.                          *)
DestroyMember ==
  /\ left > 0 /\ Members[left] \notin {"webServer", "downloader"}
  /\ MainGoes("destroy", "destroy")
  /\ left' = left - 1
  /\ UNCHANGED <<poolVars, otherVars, onStandby, helpMutex,
                 flagVars, reExec, global, handlesInt, signalVars, outcome>>

(* ~WebServerImpl: `server' is the last of its members to go, and stops    *)
(* its workers when the clients, the handlers and the templates are gone.  *)
DestroyWebServer ==
  /\ left > 0 /\ Members[left] = "webServer"
  /\ MainGoes("destroy", "stopServer")
  /\ left' = left - 1
  /\ UNCHANGED <<poolVars, otherVars, onStandby, helpMutex,
                 flagVars, reExec, global, handlesInt, signalVars, outcome>>

StopServer ==
  /\ MainGoes("stopServer", "joinServer")
  /\ MgStop
  /\ UNCHANGED <<otherVars, onStandby, helpMutex, flagVars,
                 endVars, signalVars, outcome>>

ServerStopped ==
  /\ MainGoes("joinServer", "destroy")
  /\ stopFlag = 2
  /\ UNCHANGED <<poolVars, otherVars, onStandby, helpMutex,
                 flagVars, endVars, signalVars, outcome>>

(* ~DownloaderImpl tells its threads to stop, and joins them ...           *)
StopThreads ==
  /\ left > 0 /\ Members[left] = "downloader"
  /\ MainGoes("destroy", "joinThreads")
  /\ UNCHANGED <<poolVars, otherVars, onStandby, helpMutex,
                 flagVars, endVars, signalVars, outcome>>

ThreadsExit ==
  /\ main = "joinThreads" /\ downloads = "running"
  /\ downloads' = "exited"
  /\ UNCHANGED <<poolVars, main, calls, calling, onStandby, helpMutex, flagVars,
                 endVars, signalVars, outcome>>

(* ... before its own members go.                                          *)
JoinThreads ==
  /\ MainGoes("joinThreads", "destroy")
  /\ downloads = "exited"
  /\ left' = left - 1
  /\ UNCHANGED <<poolVars, otherVars, onStandby, helpMutex,
                 flagVars, reExec, global, handlesInt, signalVars, outcome>>

(* execl may fail; main returns then.                                      *)
Exit ==
  /\ left = 0 /\ MainGoes("destroy", "gone")
  /\ outcome' \in IF reExec THEN {"exec", "execFailed"} ELSE {"exit"}
  /\ UNCHANGED <<poolVars, otherVars, onStandby, helpMutex,
                 flagVars, endVars, signalVars>>

-----------------------------------------------------------------------------
(* A worker in a handler uses what the destructors have taken away, a      *)
(* download ends and notifies a player that is gone, or a handler wants or *)
(* has a mutex that is gone: the process may crash (or get away with it,   *)
(* which is ProcessConnection, LockHandler or no step at all).             *)
Dies(how) ==
  /\ outcome' = how
  /\ main' = "gone" /\ helpMutex' = {}
  /\ stack' = [t \in Thread |-> <<>>] /\ hangup' = "none"
  /\ shutdownFlag' = FALSE /\ shutdownCounter' = 0 /\ reExecFlag' = FALSE
  /\ UNCHANGED <<poolVars, otherVars, onStandby, endVars>>

UsedAfterDestruction ==
  /\ \/ /\ \E w \in Worker : worker[w].pc = "busy"
        /\ ~({"webServer", "player", "nowPlaying"} \subseteq Alive)
     \/ /\ \/ downloads = "running"
           \/ helpMutex # {} \/ \E t \in Thread : Handling(t, "lock")
        /\ "player" \notin Alive
  /\ Dies("crashed")

-----------------------------------------------------------------------------
(* Signals.  sa_mask is empty: a handler may be interrupted by the one of  *)
(* the other signal, and another thread may take a second one of the same. *)

HandlerGoes(t, to) == stack' = [stack EXCEPT ![t][Len(stack[t])].pc = to]
Returns(t) == stack' = [stack EXCEPT ![t] = Front(@)]

(* run() has not returned, or its caller has not looked at the flag yet.   *)
StillCounts == InLoop \/ main \in {"startServer", "startThreads", "returned"}

(* Mutant: the loop is told to stop by the second signal only.             *)
Deliver_FlagOnSecond(signal, t) ==
  /\ Within(accepted, shutdownCounter + 1, calls) /\ global
  /\ signal = "SIGINT" => handlesInt
  /\ \A i \in 1 .. Len(stack[t]) : stack[t][i].signal # signal
  /\ shutdownCounter' = shutdownCounter + 1
  /\ shutdownFlag' = (shutdownCounter > 0)
  /\ stack' = [stack EXCEPT ![t] = Append(@, [signal |-> signal, pc |-> "lock",
                                              immediate |-> shutdownCounter > 0])]
  /\ hangup' = IF signal = "SIGHUP" /\ StillCounts THEN "sent" ELSE hangup
  /\ UNCHANGED <<poolVars, runVars, helpMutex, reExecFlag, endVars, outcome>>

(* The handler starts with counting, and with the flag of Player::shutdown *)
(* ...                                                                     *)
Deliver(signal, t) ==
  /\ Within(accepted, shutdownCounter + 1, calls) /\ global
  /\ signal = "SIGINT" => handlesInt
  /\ \A i \in 1 .. Len(stack[t]) : stack[t][i].signal # signal
  /\ shutdownCounter' = shutdownCounter + 1
  /\ shutdownFlag' = TRUE
  /\ stack' = [stack EXCEPT ![t] = Append(@, [signal |-> signal, pc |-> "lock",
                                              immediate |-> shutdownCounter > 0])]
  /\ hangup' = IF signal = "SIGHUP" /\ StillCounts THEN "sent" ELSE hangup
  /\ UNCHANGED <<poolVars, runVars, helpMutex, reExecFlag, endVars, outcome>>

(* Ctrl-C after ~Utuputki has restored what SIGINT does by default.        *)
Killed ==
  /\ ~handlesInt
  /\ Dies("killed")

(* ... the mutex, which the interrupted thread may hold itself ...         *)
LockHandler(t) ==
  /\ Handling(t, "lock")
  /\ Lock(t)
  /\ HandlerGoes(t, "notify")
  /\ UNCHANGED <<poolVars, runVars, flagVars, endVars, hangup, outcome>>

(* ... and the wakeup.                                                     *)
NotifyHandler(t) ==
  /\ Handling(t, "notify")
  /\ Unlock
  /\ IF Innermost(t).immediate \/ onStandby THEN WakeMain ELSE UNCHANGED main
  /\ IF Innermost(t).signal = "SIGHUP" THEN HandlerGoes(t, "reExec") ELSE Returns(t)
  /\ UNCHANGED <<poolVars, otherVars, onStandby, flagVars, endVars, hangup, outcome>>

(* Mutant: the handler of SIGHUP was copied from the one of SIGINT.        *)
SetReExecFlag_Forgotten(t) ==
  /\ Handling(t, "reExec")
  /\ Returns(t)
  /\ UNCHANGED <<poolVars, runVars, helpMutex, flagVars, endVars, hangup, outcome>>

(* UtuputkiImpl::reExec sets its flag when player.shutdown has returned.   *)
SetReExecFlag(t) ==
  /\ Handling(t, "reExec")
  /\ reExecFlag' = TRUE
  /\ Returns(t)
  /\ UNCHANGED <<poolVars, runVars, helpMutex, shutdownFlag, shutdownCounter, endVars,
                 hangup, outcome>>

(* SIGHUP keeps its handler when ~Utuputki has cleared `global'.           *)
NullGlobal ==
  /\ ~global /\ Within(accepted, shutdownCounter + 1, calls)
  /\ Dies("crashed")

-----------------------------------------------------------------------------
MainStep ==
  \/ StartServer \/ StartThreads
  \/ CheckShutdown \/ LockHelp \/ StartMedia \/ RelockHelp \/ ReleaseHelp
  \/ ShouldReExec \/ RestoreHandler \/ ClearGlobal
  \/ DestroyMember \/ DestroyWebServer \/ StopServer \/ ServerStopped
  \/ StopThreads \/ JoinThreads \/ Exit

HandlerStep(t) ==
  LockHandler(t) \/ NotifyHandler(t) \/ SetReExecFlag(t)

NoLifecycle == UNCHANGED <<runVars, helpMutex, flagVars, endVars, signalVars, outcome>>

MasterRuns == MasterStep /\ NoLifecycle
WorkerRuns(w) == (WorkerStep(w) \/ ProcessConnection(w)) /\ NoLifecycle

(* A handler on a thread that holds helpMutex waits for itself ...         *)
SelfDeadlock ==
  \E t \in Thread : /\ Handling(t, "lock")
                    /\ \E d \in 0 .. Len(stack[t]) - 1 : <<t, d>> \in helpMutex

(* ... and the master waits for a worker to take a connection when all of  *)
(* them have taken their last one.                                         *)
MasterForsaken ==
  /\ master.pc = "blocked" /\ stopFlag # 0
  /\ \A w \in Worker : worker[w].pc \in {"return", "exited"}

(* The process is gone, or hangs for good: the end of what is modelled.    *)
Ended ==
  /\ outcome # "running" \/ SelfDeadlock \/ MasterForsaken
  /\ UNCHANGED vars

Next ==
  \/ /\ outcome = "running"
     /\ \/ MainStep \/ ThreadsExit
        \/ MasterRuns \/ \E w \in Worker : WorkerRuns(w)
        \/ /\ Within(accepted + 1, shutdownCounter, calls)
           /\ AcceptNewConnection /\ NoLifecycle
        \/ SpuriousWakeup /\ NoLifecycle
        \/ \E t \in Thread : \/ \E signal \in SignalNumber : Deliver(signal, t)
                             \/ HandlerStep(t)
        \/ \E t \in OtherThread : OtherStep(t)
        \/ UsedAfterDestruction \/ NullGlobal \/ Killed
  \/ Ended

Spec == Init /\ [][Next]_vars

(* Threads get to run, handlers return to their browser, what VLC plays    *)
(* ends and the downloader's threads see that they shall stop (Downloader  *)
(* shows that they do).  Connections and signals may never come.           *)
Running == outcome = "running"

Fairness ==
  /\ WF_vars(Running /\ MainStep) /\ WF_vars(Running /\ ThreadsExit)
  /\ WF_vars(Running /\ \E t \in OtherThread : EndReached(t))
  /\ WF_vars(Running /\ MasterRuns)
  /\ \A w \in Worker : WF_vars(Running /\ WorkerRuns(w))
  /\ \A t \in Thread : WF_vars(Running /\ HandlerStep(t))
  /\ \A t \in OtherThread : WF_vars(Running /\ ReturnFromPlayer(t))

FairSpec == Spec /\ Fairness

-----------------------------------------------------------------------------
LifecycleTypeOK ==
  /\ PoolTypeOK
  /\ main \in {"startServer", "startThreads", "check", "lock", "starting", "waiting",
               "woken", "relocked", "returned", "restore", "clear",
               "destroy", "stopServer", "joinServer", "joinThreads", "gone"}
  /\ downloads \in {"none", "running", "exited"}
  /\ \/ helpMutex = {}
     \/ \E t \in Thread : \E d \in 0 .. Len(stack[t]) : helpMutex = {<<t, d>>}
  /\ {onStandby, shutdownFlag, reExecFlag, reExec, global, handlesInt}
       \subseteq BOOLEAN
  /\ hangup \in {"none", "sent", "overtaken"} /\ calls \in Nat
  /\ calling \in {"wake", "update"}
  /\ shutdownCounter \in Nat /\ left \in 0 .. Len(Members)
  /\ \A t \in Thread : \A i \in 1 .. Len(stack[t]) :
       stack[t][i] \in [signal : SignalNumber, immediate : BOOLEAN,
                        pc : {"lock", "notify", "reExec"}]
  /\ outcome \in {"running", "exit", "exec", "execFailed", "killed", "crashed"}

(* UtuputkiImpl's members (Utuputki.cpp:27-32): whatever else is gone, a   *)
(* worker in a handler has the downloader, the database and the log, and   *)
(* the downloader's threads have the database and the log.  (Neither has   *)
(* the player, nor a worker the rest of the web server:                    *)
(* UsedAfterDestruction.)                                                  *)
UsersOutlived ==
  /\ (\E w \in Worker : worker[w].pc \notin {"absent", "exited"}) =>
       {"config", "logger", "database", "downloader"} \subseteq Alive
  /\ downloads = "running" => {"config", "logger", "database"} \subseteq Alive

(* README.md:52, "Use SIGHUP to re-execute instead": if main ends without  *)
(* a call of execl, then no SIGHUP came while run() had not returned, on   *)
(* whichever thread and among whatever other signals, but for one whose    *)
(* handler, on another thread, main has overtaken: reExecFlag is set after *)
(* the loop has been told to stop (Utuputki.cpp:125-129).                  *)
HangupReexecs == outcome = "exit" => hangup # "sent"

(* Who has a step to take that waits for nobody: not for a mutex, a        *)
(* condition variable, another thread, a connection or a signal.           *)
MainCanGo ==
  /\ Uninterrupted("main") /\ main # "waiting"
  /\ main \in {"lock", "woken"} => helpMutex = {}
  /\ main = "joinServer" => stopFlag = 2
  /\ main = "joinThreads" => downloads = "exited"

HandlerCanGo(t) == stack[t] # <<>> /\ (Handling(t, "lock") => helpMutex = {})

CallerCanGo == \E t \in OtherThread : helpMutex = {<<t, 0>>} /\ Uninterrupted(t)

MasterCanGo ==
  \/ master.pc = "produce"
  \/ master.pc = "accept" /\ stopFlag # 0
  \/ master.pc = "join" /\ \A w \in Worker : worker[w].pc = "exited"

WorkerCanGo(w) == worker[w].pc \in {"consume", "return", "busy"}

(* What VLC plays ends; the downloader's threads stop when they are told.  *)
PlayerCanGo == main = "waiting" /\ helpMutex = {} /\ \E t \in OtherThread : Uninterrupted(t)
DownloadsCanGo == main = "joinThreads" /\ downloads = "running"

(* The threads never all wait for each other, wherever in main(), in the   *)
(* handlers and in mg_stop they are: the two deadlocks above are all there *)
(* are.  TLC's own check of deadlocks does not show that, since a signal,  *)
(* a connection or a spurious wakeup may still come where threads hang.    *)
NoOtherDeadlock ==
  Running =>
    \/ SelfDeadlock \/ MasterForsaken
    \/ MainCanGo \/ PlayerCanGo \/ CallerCanGo \/ DownloadsCanGo
    \/ \E t \in Thread : HandlerCanGo(t)
    \/ MasterCanGo \/ \E w \in Worker : WorkerCanGo(w)

(* README.md:51: a signal ends the program, whichever thread it interrupts *)
(* and however many requests are queued, unless its handler waits for the  *)
(* thread it interrupts, or mg_stop for a master thread that is forsaken.  *)
SignalsEnd ==
  shutdownCounter > 0 ~> outcome # "running" \/ SelfDeadlock \/ MasterForsaken
=============================================================================
