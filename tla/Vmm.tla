-------------------------------- MODULE Vmm --------------------------------
(***************************************************************************)
(* The VMA manager (mm/vmm.c): the red-black tree of VMAs, its node pool,  *)
(* and the page tables (Mmu) it keeps in step with it, from the tables     *)
(* that mmu_init and mmu_map_region leave at boot on.                      *)
(*                                                                         *)
(* Addresses are page numbers from vmm_kernel_base() on; sizes are pages,  *)
(* so that unaligned arguments, which are refused before anything is done, *)
(* do not occur.  A node is named by the address of its VMA: no two VMAs   *)
(* have the same.  Every operation runs under vmm_lock with IRQs masked,   *)
(* so it is one step.                                                      *)
(*                                                                         *)
(* vma_alloc_node links the pool again when it is first found empty, with  *)
(* every node still in the tree.  From then on tree and free list share    *)
(* their nodes; the model records that and ends there.                     *)
(***************************************************************************)
EXTENDS RbSurgery, Mmu, SequencesExt

CONSTANTS
  Linear,      \* the pages of mem_size that mmu_map_region maps at boot
  Identity,    \* the pages of the identity map (2 GiB)
  Kernel,      \* the pages of the kernel image and the stack, in mapping order
  Top,         \* bound: the end of the modelled addresses
  Areas, Frame, Attrs,    \* bounds: the arguments callers pass, <<va, size>> and the rest
  Protected,   \* bounds: the addresses that vmm_protect is called for,
  NewAttrs,    \* and the attributes it is to set
  VmaNodes,    \* VMA_POOL_CAP (256 in the code)
  BootFrames,  \* bounds: the numbers of free pages at boot,
  Frames       \* and at a call

Page == 0 .. Top - 1

ASSUME VmmConstants ==
  /\ Linear \in Nat /\ Identity \in Nat /\ Top \in Nat /\ VmaNodes \in Nat
  /\ \A i \in DOMAIN Kernel : Kernel[i] < Linear
  /\ \A a \in Areas : Linear <= a[1] /\ a[1] + a[2] <= Top
  /\ NULL \notin Page

VARIABLES
  vma_tree,    \* vma_root and the links of the nodes
  vma,         \* the VMA at each address that has a node
  memory,      \* the tables behind TTBR1_EL1
  ttbr1,       \* whether TTBR1_EL1 holds a PGD
  relinked,    \* init_vma_pool has run with nodes in the tree
  bare         \* history: pages of a VMA for which a table was missing

vmmVars == <<vma_tree, vma, memory, ttbr1, relinked, bare>>

Pages(va, size) == [i \in 1 .. size |-> va + i - 1]

-----------------------------------------------------------------------------
(* The tree of VMAs. *)

\* rotate_left, rotate_right and insert_fixup are those of the run queue.
VmaRotate(t, x, s) == Rotate(t, x, s)

VmaInsertFixup(t, z) == InsertFixup(t, z)

\* transplant: v takes the place of u.
Transplant(t, u, v) == SetParent(Relink(t, u, v), v, t.parent[u])

\* x, which may be NULL, is the child of p that lacks a black node.
RECURSIVE VmaDeleteFixup(_, _, _)
VmaDeleteFixup(t, x, p) ==
  IF x = t.root \/ IsRed(t, x) THEN Paint(t, {x}, {})
  ELSE LET s  == IF x = t.kid["left"][p] THEN "left" ELSE "right"
           o  == Other(s)
           w  == t.kid[o][p]
           t1 == IF IsRed(t, w) THEN VmaRotate(Paint(t, {w}, {p}), p, s) ELSE t
           w1 == t1.kid[o][p]
           black(k) == w1 = NULL \/ ~IsRed(t1, t1.kid[k][w1])
       IN  IF black(s) /\ black(o)
           THEN VmaDeleteFixup(Paint(t1, {}, {w1} \ {NULL}), p, t1.parent[p])
           ELSE LET t2 == IF black(o)
                          THEN VmaRotate(Paint(t1, {t1.kid[s][w1]}, {w1}), w1, o) ELSE t1
                    w2 == t2.kid[o][p]
                    t3 == Paint(t2, {w2, p, t2.kid[o][w2]},
                                IF p \in t2.red THEN {w2} ELSE {})
                    t4 == VmaRotate(t3, p, s)
                IN  Paint(t4, {t4.root}, {})

\* Mutant: the successor keeps its own colour.
RbDeleteKeepsColour(t, z) ==
  LET l  == t.kid["left"][z]
      r  == t.kid["right"][z]
      y  == IF l = NULL \/ r = NULL THEN z ELSE RbFirst(t, r)
      x  == IF l = NULL THEN r ELSE IF r = NULL THEN l ELSE t.kid["right"][y]
      p  == IF y # z /\ t.parent[y] = z THEN y ELSE t.parent[y]
      t1 == IF y = z \/ p = y THEN t
            ELSE [Transplant(t, y, x) EXCEPT !.kid["right"][y] = r, !.parent[r] = y]
      t2 == IF y = z THEN Transplant(t, z, x)
            ELSE [Transplant(t1, z, y) EXCEPT !.kid["left"][y] = l, !.parent[l] = y]
  IN  IF y \in t.red THEN t2 ELSE VmaDeleteFixup(t2, x, p)

\* rb_delete: y is z, or z's successor, which takes its place and colour; x is
\* what was below y, and p its parent afterwards.
RbDelete(t, z) ==
  LET l  == t.kid["left"][z]
      r  == t.kid["right"][z]
      y  == IF l = NULL \/ r = NULL THEN z ELSE RbFirst(t, r)
      x  == IF l = NULL THEN r ELSE IF r = NULL THEN l ELSE t.kid["right"][y]
      p  == IF y # z /\ t.parent[y] = z THEN y ELSE t.parent[y]
      t1 == IF y = z \/ p = y THEN t
            ELSE [Transplant(t, y, x) EXCEPT !.kid["right"][y] = r, !.parent[r] = y]
      t2 == IF y = z THEN Transplant(t, z, x)
            ELSE [Transplant(t1, z, y) EXCEPT !.kid["left"][y] = l, !.parent[l] = y]
      t3 == IF y = z THEN t2
            ELSE IF z \in t.red THEN Paint(t2, {}, {y}) ELSE Paint(t2, {y}, {})
  IN  IF y \in t.red THEN t3 ELSE VmaDeleteFixup(t3, x, p)

\* Down the tree from n, to the left of the addresses above v; res is the last
\* node from which the way led to the side s.
RECURSIVE Search(_, _, _, _)
Search(v, n, s, res) ==
  IF n = NULL THEN res
  ELSE LET d == IF v < n THEN "left" ELSE "right"
       IN  Search(v, vma_tree.kid[d][n], s, IF d = s THEN n ELSE res)

\* find_le: the VMA with the greatest address not above va.
FindLe(va) == Search(va, vma_tree.root, "right", NULL)

\* find_ge: the VMA with the least address not below va.
FindGe(va) == Search(va - 1, vma_tree.root, "left", NULL)

\* find_exact: it goes down like find_le, and stops at va.
FindExact(va) == IF FindLe(va) = va THEN va ELSE NULL

\* Mutant: an area that begins in the middle of the new one is let through.
OverlapsBelow(n, va, size) == n # NULL /\ n <= va /\ va < n + vma[n].size

Overlaps(n, va, size) == n # NULL /\ ~(va + size <= n \/ n + vma[n].size <= va)

\* The while loop of vmm_map: the node under which va is hung, and the side.
RECURSIVE Place(_, _)
Place(va, at) ==
  LET s == IF va < at THEN "left" ELSE "right"
  IN  IF vma_tree.kid[s][at] = NULL THEN <<at, s>> ELSE Place(va, vma_tree.kid[s][at])

Hang(va) ==
  LET fresh == Paint(vma_tree, {}, {va})
  IN  IF vma_tree.root = NULL THEN VmaInsertFixup([fresh EXCEPT !.root = va], va)
      ELSE LET at == Place(va, vma_tree.root)
           IN  VmaInsertFixup([fresh EXCEPT !.kid[at[2]][at[1]] = va, !.parent[va] = at[1]], va)

-----------------------------------------------------------------------------
(* Operations. *)

\* The bits of a page's entry, by the attributes of its VMA.
PteAttrs(attrs) ==
  (attrs \cap HighBits)
    \cup (IF "DEVICE" \in attrs THEN {"DEVICE"} ELSE {"NORMAL"})
    \cup (IF "W" \in attrs THEN {} ELSE {"RO"})

\* vma_alloc_node finds its free list empty.  vmm_init has filled it without
\* setting initialized, so it is filled once more, the nodes in use included.
PoolEmpty == Cardinality(DOMAIN vma) = VmaNodes

\* vmm_map, with so many pages left for tables.  Whether mmu_map_page failed is
\* not looked at.
Map(va, size, attrs, frames) ==
  LET entry(i) == [pa |-> Frame + i - 1, attrs |-> PteAttrs(attrs)]
      m == FoldLeft(LAMBDA acc, i : MapPage(acc, va + i - 1, entry(i)),
                    [memory EXCEPT !.frames = frames], [i \in 1 .. size |-> i])
  IN  /\ ~relinked
      /\ IF size = 0 \/ Overlaps(FindLe(va), va, size) \/ Overlaps(FindGe(va), va, size)
         THEN UNCHANGED vmmVars
         ELSE IF PoolEmpty
         THEN relinked' = TRUE /\ UNCHANGED <<vma_tree, vma, memory, ttbr1, bare>>
         ELSE /\ vma_tree' = Hang(va)
              /\ vma' = [n \in DOMAIN vma \cup {va} |-> IF n # va THEN vma[n]
                           ELSE [pa |-> Frame, size |-> size, attrs |-> attrs]]
              /\ memory' = IF ttbr1 THEN [m EXCEPT !.frames = 0] ELSE memory
              /\ bare' = bare \cup {p \in va .. va + size - 1 : ~Reaches(memory', p)}
              /\ UNCHANGED <<ttbr1, relinked>>

\* What vmm_unmap and vmm_protect ask for before they do anything.
Found(va, size) == size > 0 /\ FindExact(va) # NULL /\ vma[va].size = size

\* vmm_unmap.
Unmap(va, size) ==
  /\ ~relinked
  /\ IF ~Found(va, size) THEN UNCHANGED vmmVars
     ELSE /\ memory' = IF ttbr1 THEN FoldLeft(UnmapPage, memory, Pages(va, size)) ELSE memory
          /\ vma_tree' = Forget(RbDelete(vma_tree, va), va)
          /\ vma' = [n \in DOMAIN vma \ {va} |-> vma[n]]
          /\ bare' = bare \ (va .. va + size - 1)
          /\ UNCHANGED <<ttbr1, relinked>>

\* vmm_protect.
Protect(va, size, attrs) ==
  /\ ~relinked
  /\ IF ~Found(va, size) THEN UNCHANGED vmmVars
     ELSE /\ vma' = [vma EXCEPT ![va].attrs = attrs]
          /\ memory' = IF ~ttbr1 THEN memory
                       ELSE FoldLeft(LAMBDA m, p : UpdateAttrs(m, p, PteAttrs(attrs)),
                                     memory, Pages(va, size))
          /\ UNCHANGED <<vma_tree, ttbr1, relinked, bare>>

\* vmm_virt_to_phys: through the VMA that covers va, or va itself.
VirtToPhys(va) ==
  LET n == FindLe(va)
  IN  IF n # NULL /\ va < n + vma[n].size THEN vma[n].pa + (va - n) ELSE va

\* The loops that map page after page until one fails, as in mmu_init and
\* mmu_map_region; pages is a sequence of page numbers, mapped at base.
MapUntilFails(m, base, pages, attrs) ==
  LET step(acc, pa) ==
        LET m1 == MapPage(acc.m, base + pa, [pa |-> pa, attrs |-> attrs])
        IN  IF acc.failed THEN acc ELSE [m |-> m1, failed |-> ~Reaches(m1, base + pa)]
  IN  FoldLeft(step, [m |-> m, failed |-> FALSE], pages)

\* mmu_init: two PGDs, the identity map behind TTBR0, which only takes pages
\* here, and the kernel; it gives up when a table is missing.
MmuInit(frames) ==
  LET identity == MapUntilFails(NoTables(frames - 2), 0, Pages(0, Identity), {"NORMAL"})
  IN  IF frames < 2 THEN NoTables(0)
      ELSE MapUntilFails(NoTables(identity.m.frames), 0, Kernel, {"NORMAL"}).m

\* mmu_map_region(0, mem_size), when mmu_init has made a PGD.
MapRegion(m, frames) ==
  IF frames < 2 THEN m ELSE MapUntilFails(m, 0, Pages(0, Linear), {"NORMAL"}).m

VmmInit ==
  /\ vma_tree = EmptyTree(Page)
  /\ vma = <<>>
  /\ \E frames \in BootFrames :
       /\ ttbr1 = (frames >= 2)
       /\ memory = [MapRegion(MmuInit(frames), frames) EXCEPT !.frames = 0]
  /\ relinked = FALSE
  /\ bare = {}

VmmNext ==
  \E a \in Areas :
    \/ \E attrs \in Attrs, frames \in Frames : Map(a[1], a[2], attrs, frames)
    \/ Unmap(a[1], a[2])
    \/ a[1] \in Protected /\ \E attrs \in NewAttrs : Protect(a[1], a[2], attrs)

VmmSpec == VmmInit /\ [][VmmNext]_vmmVars

-----------------------------------------------------------------------------
(* Properties. *)

\* insert_fixup and rb_delete keep the tree of VMAs red-black and linked, and
\* it holds exactly the nodes in use: none is leaked, none is freed too early.
VmaTreeSound == IsRedBlack(vma_tree) /\ IsLinked(vma_tree, DOMAIN vma)

Mapped == UNION {n .. n + vma[n].size - 1 : n \in DOMAIN vma}

\* The page tables follow the VMAs.  A page of a VMA has an entry unless a table
\* was missing when vmm_map came to it; the entry leads where vmm_virt_to_phys
\* says, and allows no write and no execution that the VMA does not.  No other
\* page beyond the linear map has an entry: none outlives its VMA.  The linear
\* map keeps what mmu_init and mmu_map_region gave it.
EntriesFollowVmas ==
  LET valid == DOMAIN memory.entry
  IN  /\ \A p \in valid \cap Mapped :
           LET e == memory.entry[p]
               granted == PteAttrs(vma[FindLe(p)].attrs)
           IN  /\ e.pa = VirtToPhys(p)
               /\ granted \subseteq e.attrs /\ e.attrs \subseteq granted \cup HighBits
      /\ Mapped \ valid = bare
      /\ \A p \in valid \ Mapped :
           p < Linear /\ memory.entry[p] = [pa |-> p, attrs |-> {"NORMAL"}]

\* The tree, of which vmm_map looks only at the neighbours of the new area, is
\* the set of VMAs that VmaSet describes.
Vmas ==
  INSTANCE VmaSet WITH
    vmas <- {[va |-> n, pa |-> vma[n].pa, size |-> vma[n].size, attrs |-> vma[n].attrs] :
               n \in DOMAIN vma}

ImplementsVmaSet == Vmas!Spec
=============================================================================
