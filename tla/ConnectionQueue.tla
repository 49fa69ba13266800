--------------------------- MODULE ConnectionQueue ---------------------------
(***************************************************************************)
(* What the HTTP library's queue of accepted connections promises: they    *)
(* are handed to the workers in the order they came in, each one to one    *)
(* worker, and no more than Capacity of them wait.                         *)
(***************************************************************************)
EXTENDS Naturals, Sequences

CONSTANTS
  Worker,
  Capacity,
  MaxConns,  \* bound of the number of connections
  NoConn

VARIABLES
  accepted,  \* the number of connections so far; they are numbered
  arriving,  \* the one that is accepted and not queued yet
  queue,
  serving    \* what each worker has in hand

vars == <<accepted, arriving, queue, serving>>

Init ==
  /\ accepted = 0 /\ arriving = NoConn
  /\ queue = <<>>
  /\ serving = [w \in Worker |-> NoConn]

Accept ==
  /\ accepted < MaxConns /\ arriving = NoConn
  /\ accepted' = accepted + 1
  /\ arriving' = accepted'
  /\ UNCHANGED <<queue, serving>>

Put ==
  /\ arriving # NoConn /\ Len(queue) < Capacity
  /\ queue' = Append(queue, arriving)
  /\ arriving' = NoConn
  /\ UNCHANGED <<accepted, serving>>

(* While the server stops, and only then, a connection may be dropped.     *)
Drop ==
  /\ arriving # NoConn
  /\ arriving' = NoConn
  /\ UNCHANGED <<accepted, queue, serving>>

Take(w) ==
  /\ queue # <<>> /\ serving[w] = NoConn
  /\ serving' = [serving EXCEPT ![w] = Head(queue)]
  /\ queue' = Tail(queue)
  /\ UNCHANGED <<accepted, arriving>>

Close(w) ==
  /\ serving[w] # NoConn
  /\ serving' = [serving EXCEPT ![w] = NoConn]
  /\ UNCHANGED <<accepted, arriving, queue>>

Next == Accept \/ Put \/ Drop \/ \E w \in Worker : Take(w) \/ Close(w)

Spec == Init /\ [][Next]_vars
=============================================================================
