------------------------------ MODULE LogQueue ------------------------------
(***************************************************************************)
(* What the kernel log promises (include/kernel/log.h): a queue of whole   *)
(* records in the order they were written.  A write is cut to what the log *)
(* can hold and forgets as few of the oldest records as it must; a read    *)
(* takes the oldest record.                                                *)
(***************************************************************************)
EXTENDS Integers, Sequences, SequencesExt

CONSTANTS Capacity, Header, Levels, Messages, BufLens, Info

VARIABLES
  records,   \* the stored records [level, text], the oldest first
  on,        \* log_init has run
  level,     \* the least important level that is stored
  out        \* the last answer of log_read: ret, text and level

vars == <<records, on, level, out>>

Shorter(a, b) == IF a < b THEN a ELSE b

SizeOf(q) == FoldLeft(LAMBDA n, r : n + Header + Len(r.text), 0, q)

NoAnswer == [ret |-> 0, text |-> <<>>, level |-> -1]

Init == records = <<>> /\ on = FALSE /\ level = Info /\ out = NoAnswer

LogInit == ~on /\ on' = TRUE /\ records' = <<>> /\ level' = Info /\ UNCHANGED out

SetLevel(l) == level' = l /\ UNCHANGED <<records, on, out>>

\* The kept records are the longest suffix that leaves room for the new one.
Write(l, msg) ==
  LET r == [level |-> l, text |-> SubSeq(msg, 1, Shorter(Len(msg), Capacity - Header))]
  IN  /\ on /\ l <= level
      /\ \E n \in 0 .. Len(records) :
           /\ records' = SubSeq(records, n + 1, Len(records)) \o <<r>>
           /\ SizeOf(records') <= Capacity
           /\ \A k \in 0 .. n - 1 :
                SizeOf(SubSeq(records, k + 1, Len(records)) \o <<r>>) > Capacity
      /\ UNCHANGED <<on, level, out>>

Read(n) ==
  /\ on
  /\ IF records = <<>> THEN out' = NoAnswer /\ UNCHANGED records
     ELSE LET t == SubSeq(Head(records).text, 1, Shorter(Len(Head(records).text), n - 1))
          IN  /\ out' = [ret |-> Len(t), text |-> t, level |-> Head(records).level]
              /\ records' = Tail(records)
  /\ UNCHANGED <<on, level>>

Next ==
  \/ LogInit
  \/ \E l \in Levels : SetLevel(l)
  \/ \E l \in Levels, msg \in Messages : Write(l, msg)
  \/ \E n \in BufLens : Read(n)

Spec == Init /\ [][Next]_vars
=============================================================================
