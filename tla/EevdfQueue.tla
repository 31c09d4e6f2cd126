----------------------------- MODULE EevdfQueue -----------------------------
(***************************************************************************)
(* What the run queue of kernel/sched/eevdf.c promises: the queued tasks   *)
(* in the order of their vruntime, and first come first served among       *)
(* tasks whose vruntime is the same.                                       *)
(***************************************************************************)
EXTENDS Integers, Sequences, SequencesExt

CONSTANTS
  Task,
  Vruntime,    \* the vruntime a task is queued with
  Nodes        \* the size of the node pool

VARIABLE queue

\* How many queued tasks t has to wait for.
Ahead(t) == Len(SelectSeq(queue, LAMBDA u : Vruntime[u] <= Vruntime[t]))

Enqueue(t) ==
  /\ \A i \in 1 .. Len(queue) : queue[i] # t
  /\ queue' = IF Len(queue) < Nodes THEN InsertAt(queue, Ahead(t) + 1, t) ELSE queue

Dequeue(t) == queue' = RemoveFirst(queue, t)

Init == queue = <<>>

Next == \E t \in Task : Enqueue(t) \/ Dequeue(t)

Spec == Init /\ [][Next]_queue
=============================================================================
