------------------------------- MODULE Printk -------------------------------
(***************************************************************************)
(* printk and its variants (kernel/printk.c): formatting into the one      *)
(* static buffer, and handing it to log_write_str (kernel/log.c), whose    *)
(* ring is KLog's.                                                         *)
(*                                                                         *)
(* The buffer has no lock, and the timer may switch tasks between any two  *)
(* statements that access it, so that each of them is a step.  buf_putc    *)
(* reads printk_buf_rem once, in the test, and writes back what it read    *)
(* less one.  What a caller computes by itself, the characters of its      *)
(* message, is known when the call begins.                                 *)
(***************************************************************************)
EXTENDS Integers, SequencesExt

CONSTANTS
  Caller,      \* the tasks that print
  NULL,
  Calls,       \* bound: what each of them may print, [fd, fmt], as its n-th call
  BufSize      \* sizeof(printk_buf) (512 in the code)

ASSUME PrintkConstants ==
  /\ BufSize \in Nat \ {0}
  /\ \A c \in Caller : \A n \in DOMAIN Calls[c] : \A k \in Calls[c][n] : k.fd \in {"stdout", "stderr"}

VARIABLES
  printk_buf, printk_buf_ptr, printk_buf_rem,
  caller,    \* each caller's place in its call, and what it has in registers
  made,      \* history: the number of calls each of them has begun
  stored     \* the record that the last step gave to the ring, if it did

printkVars == <<printk_buf, printk_buf_ptr, printk_buf_rem, caller, made, stored>>

NUL == "NUL"

Away == [at |-> "away"]

-----------------------------------------------------------------------------
(* do_printf goes through the format directive by directive.  What matters  *)
(* of a directive and its argument is the characters it puts out, in their  *)
(* order: one for a character of the format and for %c, which may be NUL,   *)
(* two for an unknown conversion, several for a numeral or a string, none   *)
(* for an empty string and for a %l that neither lu nor ld follows.         *)

Formatted(fmt) == FlattenSeq(fmt)

-----------------------------------------------------------------------------
(* The steps of a call. *)

\* Caller c goes on as r; the calls of the others that are under way are disturbed.
Moves(c, r) ==
  caller' = [d \in Caller |->
    IF d = c THEN r
    ELSE IF caller[d] = Away THEN Away ELSE [caller[d] EXCEPT !.disturbed = TRUE]]

Goes(c, r) == Moves(c, r) /\ stored' = NULL /\ UNCHANGED made

At(c, at) == caller[c].at = at

\* fprintk, vfprintk, printk and vprintk, and printk_buf_ptr = printk_buf.  A NULL
\* format is refused.
Begin(c, k) ==
  /\ At(c, "away") /\ k.fmt # NULL
  /\ made[c] < Len(Calls[c]) /\ k \in Calls[c][made[c] + 1]
  /\ made' = [made EXCEPT ![c] = @ + 1]
  /\ printk_buf_ptr' = 0
  /\ Moves(c, [at |-> "size", call |-> k, todo |-> Formatted(k.fmt), rem |-> 0, len |-> 0,
               disturbed |-> FALSE])
  /\ stored' = NULL
  /\ UNCHANGED <<printk_buf, printk_buf_rem>>

\* Mutant: what is left of the last call's room is all there is.
ResetRoomSkipped(c) ==
  /\ At(c, "size")
  /\ Goes(c, [caller[c] EXCEPT !.at = "test"])
  /\ UNCHANGED <<printk_buf, printk_buf_ptr, printk_buf_rem>>

\* printk_buf_rem = sizeof(printk_buf).
ResetRoom(c) ==
  /\ At(c, "size")
  /\ printk_buf_rem' = BufSize
  /\ Goes(c, [caller[c] EXCEPT !.at = "test"])
  /\ UNCHANGED <<printk_buf, printk_buf_ptr>>

HasRoom(rem) == rem > 1

\* buf_putc tests for room; without it the character is dropped.
TestRoom(c) ==
  LET k == caller[c]
  IN  /\ At(c, "test") /\ k.todo # <<>>
      /\ Goes(c, IF HasRoom(printk_buf_rem)
                 THEN [k EXCEPT !.at = "char", !.rem = printk_buf_rem]
                 ELSE [k EXCEPT !.todo = Tail(@)])
      /\ UNCHANGED <<printk_buf, printk_buf_ptr, printk_buf_rem>>

\* A byte at p, which is lost to this model when p is not in the buffer.
Poke(p, char) == [q \in DOMAIN printk_buf |-> IF q = p THEN char ELSE printk_buf[q]]

\* *printk_buf_ptr++ = c.
PutChar(c) ==
  /\ At(c, "char")
  /\ printk_buf' = Poke(printk_buf_ptr, Head(caller[c].todo))
  /\ printk_buf_ptr' = printk_buf_ptr + 1
  /\ Goes(c, [caller[c] EXCEPT !.at = "count"])
  /\ UNCHANGED printk_buf_rem

\* printk_buf_rem--, and on to the next character.
CountDown(c) ==
  /\ At(c, "count")
  /\ printk_buf_rem' = caller[c].rem - 1
  /\ Goes(c, [caller[c] EXCEPT !.at = "test", !.todo = Tail(@)])
  /\ UNCHANGED <<printk_buf, printk_buf_ptr>>

\* The message is complete: *printk_buf_ptr = '\0'.
Terminate(c) ==
  /\ At(c, "test") /\ caller[c].todo = <<>>
  /\ printk_buf' = Poke(printk_buf_ptr, NUL)
  /\ Goes(c, [caller[c] EXCEPT !.at = "measure"])
  /\ UNCHANGED <<printk_buf_ptr, printk_buf_rem>>

\* The characters of the buffer before the first NUL; without one, which only a
\* disturbed call can meet, at least all of them.
Length == CHOOSE n \in 0 .. BufSize :
  /\ \A q \in 0 .. n - 1 : printk_buf[q] # NUL
  /\ n < BufSize => printk_buf[n] = NUL

\* log_write_str computes the length before it takes klog_lock.
Measure(c) ==
  /\ At(c, "measure")
  /\ Goes(c, [caller[c] EXCEPT !.at = "store", !.len = Length])
  /\ UNCHANGED <<printk_buf, printk_buf_ptr, printk_buf_rem>>

\* log_write_str copies the record into the ring, under klog_lock.
Store(c) ==
  /\ At(c, "store")
  /\ stored' = [by |-> c, call |-> caller[c].call, disturbed |-> caller[c].disturbed,
                level |-> IF caller[c].call.fd = "stderr" THEN "err" ELSE "info",
                text |-> [i \in 1 .. caller[c].len |-> printk_buf[i - 1]]]
  /\ Moves(c, Away)
  /\ UNCHANGED <<printk_buf, printk_buf_ptr, printk_buf_rem, made>>

PrintkInit ==
  /\ printk_buf = [q \in 0 .. BufSize - 1 |-> NUL]
  /\ printk_buf_ptr = 0 /\ printk_buf_rem = 0
  /\ caller = [c \in Caller |-> Away]
  /\ made = [c \in Caller |-> 0]
  /\ stored = NULL

PrintkNext ==
  \E c \in Caller :
    \/ \E k \in UNION Range(Calls[c]) : Begin(c, k)
    \/ ResetRoom(c) \/ TestRoom(c) \/ PutChar(c)
    \/ CountDown(c) \/ Terminate(c) \/ Measure(c) \/ Store(c)

PrintkSpec == PrintkInit /\ [][PrintkNext]_printkVars

-----------------------------------------------------------------------------
(* Properties. *)

\* text, cut off at the first NUL and at the end of the buffer.
Cut(text) ==
  LET room == SubSeq(text, 1, IF Len(text) < BufSize THEN Len(text) ELSE BufSize - 1)
  IN  SubSeq(room, 1, CHOOSE n \in 0 .. Len(room) :
        /\ \A j \in 1 .. n : room[j] # NUL
        /\ n < Len(room) => room[n + 1] = NUL)

\* A call that no other one disturbed between its first access to printk_buf and
\* its last stores the output of its directives, cut to the buffer, at its level, and
\* writes only inside the buffer: whatever earlier calls, or calls that were
\* interrupted by it, have left in printk_buf, printk_buf_ptr and printk_buf_rem.
AloneMeansIntact ==
  /\ stored # NULL /\ ~stored.disturbed =>
       /\ stored.text = Cut(FlattenSeq(stored.call.fmt))
       /\ stored.level = (IF stored.call.fd = "stderr" THEN "err" ELSE "info")
  /\ \A c \in {d \in Caller : caller[d] # Away} :
       ~caller[c].disturbed
       /\ (At(c, "char") \/ (At(c, "test") /\ caller[c].todo = <<>>))
       => printk_buf_ptr < BufSize
=============================================================================
