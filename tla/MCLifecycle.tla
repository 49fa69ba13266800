---------------------------- MODULE MCLifecycle -----------------------------
(* Model checking of Lifecycle and, with it, WorkerPool: a signal among    *)
(* many connections, or two signals and another caller of the player.      *)
EXTENDS Lifecycle

ManyConnsOrSignals ==
  {[conns |-> 5, signals |-> 1, calls |-> 0], [conns |-> 1, signals |-> 2, calls |-> 1]}
=============================================================================
