-------------------------------- MODULE Pmm --------------------------------
(***************************************************************************)
(* The physical memory manager (mm/pmm.c): the bitmap and the free counter *)
(* set up by pmm_init_from_dtb, then pmm_alloc_pages and pmm_free_pages.   *)
(* Both run under pmm_lock with IRQs masked, so each is one step.          *)
(*                                                                         *)
(* Addresses are natural numbers; the address space does not wrap around.  *)
(* Callers are modelled by what they hold: they give back only pages they  *)
(* were given, or pages that are free already.                             *)
(***************************************************************************)
EXTENDS Integers, FiniteSets

CONSTANTS
  PageSize,   \* PMM_PAGE_SIZE
  MaxPages,   \* PMM_MAX_PAGES
  Rams,       \* the <<base, size>> the device tree may report, size 0 if none
  Fallback,   \* the <<base, size>> used instead
  Ranges,     \* the <<start, size>> that may have to be reserved
  LowSize,    \* the bytes reserved at the start of RAM, 1 MiB
  MaxCount    \* the largest number of pages a caller asks for

ASSUME PmmConstants ==
  /\ PageSize \in Nat \ {0} /\ MaxPages \in Nat /\ MaxCount \in Nat
  /\ LowSize \in Nat \ {0}
  /\ Rams \subseteq Nat \X Nat /\ Ranges \subseteq Nat \X Nat
  /\ Fallback \in Nat \X Nat
  /\ Fallback[1] % PageSize = 0 /\ Fallback[2] % PageSize = 0

VARIABLES
  mem_base,     \* pmm_mem_base
  mem_size,     \* pmm_mem_size
  pages_total,  \* pmm_pages_total
  pages_free,   \* pmm_pages_free
  bitmap,       \* the pages whose bit is set
  todo,         \* the ranges pmm_init_from_dtb has still to reserve
  done,         \* history: the ranges it has reserved
  held          \* history: the page sets handed out and not given back

vars == <<mem_base, mem_size, pages_total, pages_free, bitmap, todo, done, held>>

AlignDown(a) == a - (a % PageSize)

AlignUp(a) == AlignDown(a + PageSize - 1)

Pages == 0 .. pages_total - 1

AddrToPage(a) == (a - mem_base) \div PageSize

-----------------------------------------------------------------------------
(* pmm_init_from_dtb: the managed region, then one range after the other. *)

\* What is left of a region after alignment, or the fallback if nothing is.
Managed(ram) ==
  LET r   == IF ram[2] = 0 THEN Fallback ELSE ram
      lo  == AlignUp(r[1])
      hi  == AlignDown(r[1] + r[2])
  IN  IF hi <= lo THEN Fallback ELSE <<lo, hi - lo>>

PagesOf(size) ==
  IF size \div PageSize > MaxPages THEN MaxPages ELSE size \div PageSize

\* The start of RAM, "for safety".
LowRange == <<mem_base, LowSize>>

Init ==
  \E ram \in Rams, ranges \in SUBSET Ranges :
    /\ mem_base = Managed(ram)[1]
    /\ mem_size = Managed(ram)[2]
    /\ pages_total = PagesOf(mem_size)
    /\ pages_free = pages_total
    /\ bitmap = {}
    /\ todo = ranges \cup {LowRange}
    /\ done = {}
    /\ held = {}

\* Mutant: a range is rounded to the pages it covers whole.
RangePagesInside(r) ==
  LET end    == r[1] + r[2]
      rstart == IF r[1] < mem_base THEN mem_base ELSE r[1]
      rend   == IF end > mem_base + mem_size THEN mem_base + mem_size ELSE end
  IN  IF r[2] = 0 \/ end <= mem_base \/ r[1] >= mem_base + mem_size
      THEN {}
      ELSE (AddrToPage(AlignUp(rstart)) .. AddrToPage(AlignDown(rend)) - 1) \cap Pages

\* The pages reserve_range marks for the bytes start .. start + size - 1.
RangePages(r) ==
  LET start  == r[1]
      end    == r[1] + r[2]
      rstart == IF start < mem_base THEN mem_base ELSE start
      rend   == IF end > mem_base + mem_size THEN mem_base + mem_size ELSE end
  IN  IF r[2] = 0 \/ end <= mem_base \/ start >= mem_base + mem_size
      THEN {}
      ELSE (AddrToPage(AlignDown(rstart)) .. AddrToPage(AlignUp(rend)) - 1) \cap Pages

\* Mutant: a page that is marked already is counted again.
ReserveRangeAgain(r) ==
  /\ todo' = todo \ {r}
  /\ done' = done \cup {r}
  /\ bitmap' = bitmap \cup RangePages(r)
  /\ pages_free' = IF Cardinality(RangePages(r)) > pages_free THEN 0
                   ELSE pages_free - Cardinality(RangePages(r))
  /\ UNCHANGED <<mem_base, mem_size, pages_total, held>>

ReserveRange(r) ==
  LET new == RangePages(r) \ bitmap
  IN  /\ todo' = todo \ {r}
      /\ done' = done \cup {r}
      /\ bitmap' = bitmap \cup new
      /\ pages_free' = IF Cardinality(new) > pages_free THEN 0
                       ELSE pages_free - Cardinality(new)
      /\ UNCHANGED <<mem_base, mem_size, pages_total, held>>

Reserve == \E r \in todo : ReserveRange(r)

-----------------------------------------------------------------------------
(* Allocation. *)

Run(first, count) == first .. first + count - 1

\* pmm_alloc_run hands out the lowest run of clear bits; PmmScan has its loop.
IsFree(first, count) == Run(first, count) \subseteq Pages \ bitmap

FirstFit(first, count) ==
  /\ first \in Pages /\ IsFree(first, count)
  /\ \A f \in Pages : IsFree(f, count) => first <= f

Alloc(count) ==
  /\ todo = {}
  /\ count # 0 /\ count <= pages_free
  /\ \E first \in Pages :
       /\ FirstFit(first, count)
       /\ bitmap' = bitmap \cup Run(first, count)
       /\ held' = held \cup {Run(first, count)}
  /\ pages_free' = pages_free - count
  /\ UNCHANGED <<mem_base, mem_size, pages_total, todo, done>>

\* pmm_free_pages(a, count); bits that are clear already are left alone.  The
\* code frees whatever it is told to: that callers give back pages they hold, a
\* part of a run or several runs at once, and neither reserved pages nor those of
\* another, is a precondition.
Free(a, count) ==
  LET first == AddrToPage(a)
      range == Run(first, count) \cap Pages
      clear == range \cap bitmap
  IN  /\ todo = {}
      /\ count # 0 /\ a # 0 /\ a >= mem_base /\ a < mem_base + mem_size
      /\ a % PageSize = 0
      /\ clear \subseteq UNION held
      /\ bitmap' = bitmap \ clear
      /\ pages_free' = pages_free + Cardinality(clear)
      /\ held' = {h \ clear : h \in held} \ {{}}
      /\ UNCHANGED <<mem_base, mem_size, pages_total, todo, done>>

Next ==
  \/ Reserve
  \/ \E count \in 0 .. MaxCount : Alloc(count)
  \/ \E a \in 0 .. mem_base + mem_size, count \in 0 .. MaxCount + 1 : Free(a, count)

Spec == Init /\ [][Next]_vars

-----------------------------------------------------------------------------
(* Properties. *)

\* The values the variables take; the managed region is page aligned.
TypeOK ==
  /\ mem_base \in Nat /\ mem_base % PageSize = 0
  /\ mem_size \in Nat /\ mem_size % PageSize = 0
  /\ pages_total \in Nat /\ pages_total * PageSize <= mem_size
  /\ pages_free \in Nat
  /\ bitmap \in SUBSET Pages
  /\ todo \in SUBSET (Nat \X Nat) /\ done \in SUBSET (Nat \X Nat)
  /\ held \in SUBSET SUBSET Pages

\* The free counter is the number of clear bits: pmm_check never reports a
\* mismatch, and the counter never falls below zero.
FreeCountExact == pages_free = pages_total - Cardinality(bitmap)

\* A page is marked because it was reserved or because exactly one caller holds
\* it: no page is handed out twice, none that was reserved ever is, and none
\* stays marked after it was given back.
Exclusive ==
  /\ \A p \in Pages : p \in bitmap <=> \/ \E h \in held : p \in h
                                     \/ \E r \in done : p \in RangePages(r)
  /\ \A h \in held : \A r \in done : h \cap RangePages(r) = {}
  /\ \A h, k \in held : h # k => h \cap k = {}

\* The page at address 0 is never handed out, even when RAM starts there: its
\* address is NULL, by which pmm_alloc_run reports that there is no run.
NeverNull == \A h \in held, p \in Pages : p \in h => mem_base + p * PageSize # 0

\* Every managed page that shares a byte with a reserved range stays marked,
\* although reserve_range clips the range to RAM and rounds it to pages.
ReservedCovered ==
  \A r \in done, p \in Pages :
    (\E b \in r[1] .. r[1] + r[2] - 1 :
       mem_base + p * PageSize <= b /\ b < mem_base + (p + 1) * PageSize)
    => p \in bitmap
=============================================================================
