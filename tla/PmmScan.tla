------------------------------ MODULE PmmScan ------------------------------
(***************************************************************************)
(* pmm_alloc_run (mm/pmm.c) with its loop: one pass over the bitmap that   *)
(* remembers the current run of clear bits, one step per iteration.  Pmm   *)
(* allocates the first fit in one step; the loop is shown to implement it. *)
(* pmm_lock is held with IRQs masked from the first step to the last, so   *)
(* nothing else moves meanwhile.                                           *)
(***************************************************************************)
EXTENDS Pmm

VARIABLES
  count,      \* the pages asked for
  i, run, run_start,
  pc          \* "idle" outside pmm_alloc_run, else "scan" or "none"

scanVars == <<count, i, run, run_start, pc>>

allVars == <<vars, scanVars>>

ScanInit ==
  /\ Init
  /\ count = 0 /\ i = 0 /\ run = 0 /\ run_start = 0
  /\ pc = "idle"

\* pmm_alloc_run from the lock to the loop.
Start(c) ==
  /\ pc = "idle" /\ todo = {}
  /\ c # 0 /\ c <= pages_free
  /\ count' = c /\ i' = 0 /\ run' = 0 /\ run_start' = 0
  /\ pc' = "scan"
  /\ UNCHANGED vars

\* A clear bit starts a run or extends it.
Clear ==
  /\ pc = "scan" /\ i < pages_total /\ i \notin bitmap
  /\ run + 1 # count
  /\ run_start' = IF run = 0 THEN i ELSE run_start
  /\ run' = run + 1 /\ i' = i + 1
  /\ UNCHANGED <<vars, count, pc>>

\* Mutant: the run is marked from the bit that completed it.
FoundFromLast ==
  /\ pc = "scan" /\ i < pages_total /\ i \notin bitmap
  /\ run + 1 = count
  /\ bitmap' = bitmap \cup Run(i, count)
  /\ held' = held \cup {Run(i, count)}
  /\ pages_free' = pages_free - count
  /\ pc' = "idle"
  /\ UNCHANGED <<mem_base, mem_size, pages_total, todo, done, count, i, run, run_start>>

\* The bit that makes the run long enough: the run is marked and handed out.
Found ==
  LET first == IF run = 0 THEN i ELSE run_start
  IN  /\ pc = "scan" /\ i < pages_total /\ i \notin bitmap
      /\ run + 1 = count
      /\ bitmap' = bitmap \cup Run(first, count)
      /\ held' = held \cup {Run(first, count)}
      /\ pages_free' = pages_free - count
      /\ pc' = "idle"
      /\ UNCHANGED <<mem_base, mem_size, pages_total, todo, done, count, i, run, run_start>>

\* Mutant: a set bit does not end the run.
SetKeepsRun ==
  /\ pc = "scan" /\ i < pages_total /\ i \in bitmap
  /\ i' = i + 1
  /\ UNCHANGED <<vars, count, run, run_start, pc>>

Set ==
  /\ pc = "scan" /\ i < pages_total /\ i \in bitmap
  /\ run' = 0 /\ i' = i + 1
  /\ UNCHANGED <<vars, count, run_start, pc>>

\* Mutant: the loop leaves out the last bit.
ExhaustedOneShort ==
  /\ pc = "scan" /\ i + 1 = pages_total
  /\ pc' = "none"
  /\ UNCHANGED <<vars, count, i, run, run_start>>

\* The end of the bitmap: pmm_alloc_run returns NULL.
Exhausted ==
  /\ pc = "scan" /\ i = pages_total
  /\ pc' = "none"
  /\ UNCHANGED <<vars, count, i, run, run_start>>

Unlock ==
  /\ pc = "none" /\ pc' = "idle"
  /\ UNCHANGED <<vars, count, i, run, run_start>>

\* The operations of Pmm other than the allocation.
Other ==
  /\ pc = "idle"
  /\ \/ Reserve
     \/ \E a \in 0 .. mem_base + mem_size, c \in 0 .. MaxCount + 1 : Free(a, c)
  /\ UNCHANGED scanVars

ScanNext ==
  \/ \E c \in 0 .. MaxCount : Start(c)
  \/ Clear \/ Found \/ Set \/ Exhausted \/ Unlock
  \/ Other

ScanSpec == ScanInit /\ [][ScanNext]_allVars

-----------------------------------------------------------------------------
(* Properties. *)

\* The values the loop variables take while pmm_alloc_run is in its loop.
ScanTypeOK ==
  /\ count \in Nat /\ i \in Nat /\ run \in Nat /\ run_start \in Nat
  /\ pc \in {"idle", "scan", "none"}
  /\ pc # "idle" => /\ todo = {}
                    /\ count \in 1 .. pages_free /\ count <= MaxCount
                    /\ i \in 0 .. pages_total /\ run < count /\ run <= i

\* What the loop of pmm_alloc_run has established when it looks at bit i: the
\* current run ends just before i, no run of clear bits that ends there is
\* longer, and every bit sequence that ends at or before i is too short.
ScanInv ==
  /\ ScanTypeOK
  /\ pc # "idle" =>
       /\ run > 0 => run_start = i - run
       /\ \A p \in Pages : i - run <= p /\ p < i => p \notin bitmap
       /\ \A f \in 0 .. i : (\A p \in f .. i - 1 : p \notin bitmap) => i - f <= run
       /\ \A f \in Pages : f + count <= i => ~IsFree(f, count)
  /\ pc = "none" => i = pages_total

\* pmm_alloc_run returns NULL after its loop only if no run of clear bits is
\* long enough, however the free pages are scattered.
NoneMeansNone == pc = "none" => \A f \in Pages : ~IsFree(f, count)

\* The loop with its marking implements the allocation of Pmm: the run it hands
\* out is the lowest that is free, and no other step of it is visible.
ImplementsPmm == Spec
=============================================================================
