------------------------------ MODULE EventQueues -------------------------------
(***************************************************************************)
(* What the buffers of a board reader promise: per board, a queue.  Events *)
(* are stored at its end and never lost from it; they are taken from its   *)
(* front in batches, and the last event of a batch, and only the last, is  *)
(* a GPS reference.  A new run empties all queues.                         *)
(***************************************************************************)
EXTENDS Naturals, Sequences

CONSTANT Febs
VARIABLE queue

Init == queue = [f \in Febs |-> <<>>]

Others(f) == \A g \in Febs \ {f} : queue'[g] = queue[g]

Store(f) ==
  /\ Len(queue'[f]) > Len(queue[f])
  /\ SubSeq(queue'[f], 1, Len(queue[f])) = queue[f]
  /\ Others(f)

Take(f) ==
  /\ \E n \in DOMAIN queue[f] :
       /\ queue[f][n].ref
       /\ \A i \in 1 .. n - 1 : ~queue[f][i].ref
       /\ queue'[f] = SubSeq(queue[f], n + 1, Len(queue[f]))
  /\ Others(f)

NewRun == queue' = [f \in Febs |-> <<>>]

Next == NewRun \/ \E f \in Febs : Store(f) \/ Take(f)

Spec == Init /\ [][Next]_queue
=============================================================================
