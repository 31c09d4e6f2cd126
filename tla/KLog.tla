-------------------------------- MODULE KLog --------------------------------
(***************************************************************************)
(* The ring buffer of the kernel log (kernel/log.c), byte by byte: records *)
(* are a three-byte header (the level, the length in two bytes) and the    *)
(* payload, both of which may wrap around the end of the ring.             *)
(*                                                                         *)
(* log_write_str and log_read touch the ring under klog_lock with IRQs     *)
(* masked, so each is one step.  The output to the console, which          *)
(* log_write_str does first and without the lock, is left out.             *)
(***************************************************************************)
EXTENDS Integers, Sequences, SequencesExt

CONSTANTS
  RingSize,   \* KLOG_RING_SIZE
  Byte,       \* the number of values of a byte, 256
  Levels,     \* log levels
  Info,       \* KLOG_INFO
  Messages,   \* what is written, sequences of bytes
  BufLens     \* the buffer lengths log_read is called with

Header == 3   \* sizeof(klog_hdr_t)

MaxPayload == RingSize - Header - 1

ASSUME KLogConstants ==
  /\ RingSize \in Nat /\ RingSize > Header /\ Byte \in Nat /\ MaxPayload < Byte * Byte
  /\ Levels \subseteq 0 .. Byte - 1 /\ Info \in Levels
  /\ Messages \subseteq Seq(1 .. Byte - 1) /\ BufLens \subseteq Int

VARIABLES
  ring, head, tail,   \* klog_ring, klog_head, klog_tail
  inited, level,      \* klog_inited, klog_level
  out                 \* the last answer of log_read

vars == <<ring, head, tail, inited, level, out>>

NoAnswer == [ret |-> 0, text |-> <<>>, level |-> -1]

Init ==
  /\ ring = [p \in 0 .. RingSize - 1 |-> 0] /\ head = 0 /\ tail = 0
  /\ inited = FALSE /\ level = Info
  /\ out = NoAnswer

-----------------------------------------------------------------------------
(* Positions and copies. *)

Shorter(a, b) == IF a < b THEN a ELSE b

Space(h, t) == IF h >= t THEN RingSize - (h - t) - 1 ELSE t - h - 1

Advance(p, n) == (p + n) % RingSize

\* memcpy into and out of the ring, without wrapping.
Put(r, at, bytes) == [p \in DOMAIN r |->
  IF p >= at /\ p < at + Len(bytes) THEN bytes[p - at + 1] ELSE r[p]]

Get(r, at, n) == [k \in 1 .. n |-> r[at + k - 1]]

\* The copies that wrap, in at most two parts.
CopyIn(r, at, bytes) ==
  LET first == RingSize - at
  IN  IF first >= Len(bytes) THEN Put(r, at, bytes)
      ELSE Put(Put(r, at, SubSeq(bytes, 1, first)), 0, SubSeq(bytes, first + 1, Len(bytes)))

CopyOut(r, at, n) ==
  LET first == RingSize - at
  IN  IF first >= n THEN Get(r, at, n) ELSE Get(r, at, first) \o Get(r, 0, n - first)

\* Mutant: the length is kept in one byte.
HeaderBytesNarrow(l, len) == <<l % Byte, len % Byte, 0>>

HeaderBytes(l, len) == <<l % Byte, len % Byte, len \div Byte>>

HeaderAt(r, at) ==
  LET b == CopyOut(r, at, Header) IN [level |-> b[1], len |-> b[2] + Byte * b[3]]

\* rb_drop_oldest: the tail moves over whole records until need bytes fit.
RECURSIVE DropOldest(_, _)
DropOldest(t, need) ==
  IF Space(head, t) >= need THEN t
  ELSE DropOldest(Advance(t, Header + HeaderAt(ring, t).len), need)

-----------------------------------------------------------------------------
(* Operations. *)

\* printk_init calls log_init once.
LogInit ==
  /\ ~inited
  /\ head' = 0 /\ tail' = 0 /\ level' = Info /\ inited' = TRUE
  /\ UNCHANGED <<ring, out>>

SetLevel(l) == level' = l /\ UNCHANGED <<ring, head, tail, inited, out>>

Write(l, msg) ==
  LET len  == Shorter(Len(msg), MaxPayload)
      body == Advance(head, Header)
  IN  /\ inited /\ l <= level
      /\ tail' = DropOldest(tail, Header + len)
      /\ ring' = CopyIn(CopyIn(ring, head, HeaderBytes(l, len)), body, SubSeq(msg, 1, len))
      /\ head' = Advance(body, len)
      /\ UNCHANGED <<inited, level, out>>

\* Mutant: no room is left for the NUL.
ReadNoNul(n) ==
  LET hdr     == HeaderAt(ring, tail)
      body    == Advance(tail, Header)
      to_copy == Shorter(hdr.len, n)
  IN  /\ inited /\ n > 0
      /\ IF head = tail THEN out' = NoAnswer /\ UNCHANGED tail
         ELSE /\ out' = [ret |-> to_copy, text |-> CopyOut(ring, body, to_copy),
                         level |-> hdr.level]
              /\ tail' = Advance(body, hdr.len)
      /\ UNCHANGED <<ring, head, inited, level>>

Read(n) ==
  LET hdr     == HeaderAt(ring, tail)
      body    == Advance(tail, Header)
      to_copy == Shorter(hdr.len, n - 1)
  IN  /\ inited /\ n > 0
      /\ IF head = tail THEN out' = NoAnswer /\ UNCHANGED tail
         ELSE /\ out' = [ret |-> to_copy, text |-> CopyOut(ring, body, to_copy),
                         level |-> hdr.level]
              /\ tail' = Advance(body, hdr.len)
      /\ UNCHANGED <<ring, head, inited, level>>

Next ==
  \/ LogInit
  \/ \E l \in Levels : SetLevel(l)
  \/ \E l \in Levels, msg \in Messages : Write(l, msg)
  \/ \E n \in BufLens : Read(n)

Spec == Init /\ [][Next]_vars

-----------------------------------------------------------------------------
(* Properties. *)

\* The records between two positions of the ring, the oldest first.
RECURSIVE Parse(_, _)
Parse(t, fuel) ==
  IF t = head \/ fuel = 0 THEN <<>>
  ELSE LET hdr  == HeaderAt(ring, t)
           body == Advance(t, Header)
       IN  <<[level |-> hdr.level, text |-> CopyOut(ring, body, hdr.len)]>>
             \o Parse(Advance(body, hdr.len), fuel - 1)

Records == Parse(tail, RingSize)

\* The records fill exactly the used part of the ring: the positions never drift
\* off the boundaries of records, however headers and payloads wrap.
Framed ==
  RingSize - 1 - Space(head, tail)
    = FoldLeft(LAMBDA n, r : n + Header + Len(r.text), 0, Records)

Queue == INSTANCE LogQueue WITH
  Capacity <- RingSize - 1, records <- Records, on <- inited

\* The ring implements the queue of records: a write keeps as much as fits and a
\* read returns the oldest record intact, whatever has been overwritten before.
ImplementsQueue == Queue!Spec
=============================================================================
