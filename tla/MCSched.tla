------------------------------ MODULE MCSched ------------------------------
(* Small instances of Sched: an idle task and three others. *)
EXTENDS Sched, TLC

CONSTANTS idle, t1, t2, t3

MCTask == {idle, t1, t2, t3}

\* The idle task is told apart by task_init, the others are interchangeable.
MCSymmetry == Permutations({t1, t2, t3})
=============================================================================
