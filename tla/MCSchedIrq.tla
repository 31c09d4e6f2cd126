----------------------------- MODULE MCSchedIrq -----------------------------
(***************************************************************************)
(* Small instances of SchedIrq.  Its properties are about what happens     *)
(* until the timer first cuts into a switch or into task_kill, so that     *)
(* nothing is explored beyond such a step.                                 *)
(***************************************************************************)
EXTENDS SchedIrq, TLC

CONSTANTS idle, t1, t2, t3

MCTask == {idle, t1, t2, t3}
MCPair == {idle, t1, t2}
MCSymmetry == Permutations({t1, t2, t3})

Whole == ~torn
=============================================================================
