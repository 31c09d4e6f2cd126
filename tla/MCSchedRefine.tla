--------------------------- MODULE MCSchedRefine ---------------------------
(* A small instance of SchedRefine. *)
EXTENDS SchedRefine

CONSTANTS idle, t1, t2, t3

MCTask == {idle, t1, t2, t3}
=============================================================================
