----------------------------- MODULE MCVmalloc -----------------------------
(* Small instances of Vmalloc: two tasks, one or two pages at a time. *)
EXTENDS Vmalloc, TLC

CONSTANTS t1, t2

MCTask == {t1, t2}
MCSymmetry == Permutations(MCTask)
=============================================================================
