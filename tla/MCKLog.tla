------------------------------- MODULE MCKLog -------------------------------
(***************************************************************************)
(* Small instances of KLog and Printk.  The ring has eight bytes of three  *)
(* values, so that a length needs both its bytes; messages go from empty   *)
(* to longer than the ring holds, and buffers cut records short.  printk   *)
(* has a buffer of four bytes and messages that leave room in it, just fit *)
(* and do not, with a NUL among the characters and directives without any. *)
(*                                                                         *)
(* The ring takes whatever string it is given, under its own lock, and     *)
(* printk does not look at it, so the two are explored side by side: once  *)
(* one has left its initial state the other one stays in its own.          *)
(***************************************************************************)
EXTENDS KLog, Printk

CONSTANTS c1, c2

MCMessages == {<<>>, <<1>>, <<2, 1, 1>>, <<1, 2, 2, 1, 1>>}

MCCaller == {c1, c2}

Stdout(fmt) == [fd |-> "stdout", fmt |-> fmt]

Stderr(fmt) == [fd |-> "stderr", fmt |-> fmt]

MCLong == {
  Stdout(<<<<"a">>, <<"b", "a", "b", "b">>>>),
  Stdout(<<<<"b", "a">>, <<>>, <<"b">>>>),
  Stderr(<<<<"a">>, <<NUL>>, <<"b", "a", "a">>>>),
  Stdout(<<<<>>>>),
  Stdout(NULL)}
MCShort == {Stdout(<<<<"c", "d">>>>)}
MCOdd == {Stderr(<<<<"e">>, <<"f">>>>)}

\* One caller prints any of the long messages and then a short one, while the
\* other one prints.
MCCalls == [c \in MCCaller |-> IF c = c1 THEN <<MCLong, MCShort>> ELSE <<MCOdd>>]

LogInitial == Init /\ PrintkInit

LogNext ==
  \/ PrintkInit /\ Next /\ UNCHANGED printkVars
  \/ Init /\ PrintkNext /\ UNCHANGED vars

LogSpec == LogInitial /\ [][LogNext]_<<vars, printkVars>>
=============================================================================
