-------------------------------- MODULE Mmu --------------------------------
(***************************************************************************)
(* The page tables of one half of the address space (mm/mmu.c).            *)
(*                                                                         *)
(* Addresses are page numbers.  m is a memory: the tables linked so far,   *)
(* by level and place, the valid L3 entries, by address, and how many      *)
(* pages pmm_alloc_page still has.  A linked table is never freed.         *)
(***************************************************************************)
EXTENDS Integers, FiniteSets

CONSTANT Fanout    \* TABLE_ENTRIES (512 in the code)

ASSUME MmuConstants == Fanout \in Nat \ {0, 1}

\* No table but the PGD, and no entry.
NoTables(frames) == [tables |-> {}, entry |-> <<>>, frames |-> frames]

\* One level up: the number of the table that holds entry n.
Up(n) == n \div Fanout

\* The table of a level that holds va: pgd_index, pud_index and pmd_index.
Table(level, va) == <<level, <<Up(Up(Up(va))), Up(Up(va)), Up(va)>>[level]>>

\* The tables on the way to va's entry, from L1 to L3.
Way(va) == {Table(level, va) : level \in 1 .. 3}

\* alloc_table for each level that has none, top down, as long as there are pages.
AllocTables(m, va) ==
  LET gap  == 4 - Cardinality(Way(va) \ m.tables)
      upto == gap + m.frames - 1
      new  == {Table(level, va) : level \in {l \in gap .. 3 : l <= upto}}
  IN  [m EXCEPT !.tables = @ \cup new, !.frames = @ - Cardinality(new)]

Reaches(m, va) == Way(va) \subseteq m.tables

\* mmu_map_page: -1 when a table is missing; those linked on the way stay.
MapPage(m, va, e) ==
  LET m1 == AllocTables(m, va)
  IN  IF ~Reaches(m1, va) THEN m1
      ELSE [m1 EXCEPT !.entry = [p \in DOMAIN @ \cup {va} |-> IF p = va THEN e ELSE @[p]]]

Valid(m, va) == Reaches(m, va) /\ va \in DOMAIN m.entry

\* Mutant: nothing is unmapped.
UnmapPageSkipped(m, va) == m

\* mmu_unmap_page: -1 when there is no valid entry.
UnmapPage(m, va) ==
  IF Valid(m, va) THEN [m EXCEPT !.entry = [p \in DOMAIN @ \ {va} |-> @[p]]] ELSE m

\* PTE_PXN and PTE_UXN are above the address bits that mmu_update_page_attrs
\* keeps when it masks the low twelve, so they are never taken back.
HighBits == {"PXN", "UXN"}

\* mmu_update_page_attrs.
UpdateAttrs(m, va, attrs) ==
  IF Valid(m, va) THEN [m EXCEPT !.entry[va].attrs = (@ \cap HighBits) \cup attrs] ELSE m
=============================================================================
