---------------------------- MODULE MCInterrupts ----------------------------
(* A small instance of Interrupts. *)
EXTENDS Interrupts

CONSTANTS idle, t1, t2

MCTask == {idle, t1, t2}
=============================================================================
