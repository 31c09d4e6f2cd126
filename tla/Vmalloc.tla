------------------------------ MODULE Vmalloc ------------------------------
(***************************************************************************)
(* The kernel heap (mm/vmalloc.c): vmalloc and vfree by several tasks, the *)
(* free list of address ranges with its pool of blocks and its coalescing  *)
(* loop, and the pages and VMAs behind an allocation.                      *)
(*                                                                         *)
(* Addresses and sizes are counted in pages.  An allocation of n pages is  *)
(* a range of n + 2: page 0 and page n + 1 are the guards.                 *)
(*                                                                         *)
(* A task can be preempted between two lock sections of its call, so each  *)
(* lock section, or one page's sections, which touch only that page, is a  *)
(* step.  The loop of coalesce_free_list runs with IRQs masked and nothing *)
(* else moves meanwhile, but it is taken step by step: it need not end.    *)
(*                                                                         *)
(* vmm_map and vmm_unmap are those of VmaSet, with VMAs of one page, and   *)
(* the page tables those of Mmu: a table that is missing takes a page of   *)
(* the PMM.  Which page a VMA maps to is left out: it is got when the VMA  *)
(* is made and given back with it.  As in Vmm, the model ends when the     *)
(* pool of VMA nodes is linked again.                                      *)
(***************************************************************************)
EXTENDS Mmu, Sequences

CONSTANTS
  Task,     \* the tasks that call vmalloc and vfree
  NULL,
  Blocks,   \* the size of free_pool (512 in the code)
  Start,    \* VMALLOC_START
  End,      \* VMALLOC_END
  Sizes,    \* the numbers of pages that are asked for
  Pages,    \* the numbers of free pages the PMM may start with
  VmaNodes  \* VMA_POOL_CAP (256 in the code)

ASSUME VmallocConstants ==
  /\ Blocks \in Nat
  /\ Start \in Nat \ {0} /\ End \in Nat /\ Start <= End
  /\ Sizes \subseteq Nat \ {0}
  /\ NULL \notin 1 .. Blocks
  /\ Pages \subseteq Nat /\ VmaNodes \in Nat
  /\ Table(1, Start) = Table(1, End)

VARIABLES
  heap,          \* the free list and the block pool, as in HeapType
  vmalloc_next,  \* the first address never handed out
  pages_total,   \* how many pages the PMM had to begin with
  vmas,          \* the addresses that have a VMA, and with it a page
  memory,        \* the page tables, with the number of free pages as frames
  relinked,      \* init_vma_pool has run with nodes in the tree
  call,          \* where each task is in vmalloc or vfree
  loop,          \* where coalesce_free_list is, or NULL outside of it
  held,          \* history: the allocations <<base, pages>> not freed yet
  merged,        \* history: coalesce_free_list has merged two blocks
  bare,          \* history: the VMAs for which a table was missing
  forgotten      \* history: the addresses freed while free_pool was empty

mapping == <<pages_total, vmas, memory, relinked, bare>>

vars == <<heap, vmalloc_next, mapping, call, loop, held, merged, forgotten>>

Block == 1 .. Blocks

HeapType ==
  [list : Block \cup {NULL},  pool : Block \cup {NULL},
   va : [Block -> Nat],       size : [Block -> Nat],
   next : [Block -> Block \cup {NULL}],
   prev : [Block -> Block \cup {NULL}]]

Idle == [at |-> "idle"]

Extent(base, pages) == base .. base + pages + 1

\* Nobody holds vmalloc_lock.
Running == loop = NULL /\ ~relinked

-----------------------------------------------------------------------------
(* The free list and the pool of blocks. *)

\* free_block: back to the pool; prev, va and size keep their values.
FreeBlock(h, b) == [h EXCEPT !.next[b] = h.pool, !.pool = b]

\* The statements by which coalesce_free_list takes a block out of the list.
Unlink(h, b) ==
  LET h1 == IF h.prev[b] # NULL
            THEN [h EXCEPT !.next[h.prev[b]] = h.next[b]]
            ELSE [h EXCEPT !.list = h.next[b]]
  IN  IF h1.next[b] # NULL
      THEN [h1 EXCEPT !.prev[h1.next[b]] = h1.prev[b]]
      ELSE h1

\* The i-th block of the free list, NULL beyond its end.
Nth(h) ==
  LET n[i \in 1 .. Blocks + 1] ==
        IF i = 1 THEN h.list
        ELSE IF n[i - 1] = NULL THEN NULL ELSE h.next[n[i - 1]]
  IN  n

Listed(h) == {Nth(h)[i] : i \in Block} \ {NULL}

\* Best fit: the first of the smallest blocks that are large enough.
IsBest(h, size, i) ==
  LET fits == {j \in Block : Nth(h)[j] # NULL /\ h.size[Nth(h)[j]] >= size}
      sz(j) == h.size[Nth(h)[j]]
  IN  i \in fits /\ \A j \in fits : sz(i) < sz(j) \/ (sz(i) = sz(j) /\ i <= j)

\* Mutant: the rest of a block keeps the address of the whole.
TakeKeepsAddress(h, size, i) ==
  [h EXCEPT !.size[Nth(h)[i]] = @ - size]

\* What find_free_space does with the best block: it is used up, or what is
\* left of it stays in the list.
Take(h, size, i) ==
  LET best == Nth(h)[i]
      h1   == IF i = 1 THEN [h EXCEPT !.list = h.next[best]]
              ELSE [h EXCEPT !.next[Nth(h)[i - 1]] = h.next[best]]
      h2   == IF h.next[best] # NULL
              THEN [h1 EXCEPT !.prev[h.next[best]] = h.prev[best]] ELSE h1
  IN  IF h.size[best] = size THEN FreeBlock(h2, best)
      ELSE [h EXCEPT !.va[best] = @ + size, !.size[best] = @ - size]

-----------------------------------------------------------------------------
(* vmalloc. *)

FitsAbove(size) == vmalloc_next + size <= End

\* find_free_space: from the free list, or from the space never used.
FindFreeSpace(t, pages) ==
  /\ Running /\ call[t] = Idle
  /\ LET size  == pages + 2
         got(base) == call' = [call EXCEPT ![t] =
                        [at |-> "map", base |-> base, pages |-> pages, n |-> 0]]
     IN  \/ \E i \in Block :
              /\ IsBest(heap, size, i)
              /\ got(heap.va[Nth(heap)[i]])
              /\ heap' = Take(heap, size, i)
              /\ UNCHANGED vmalloc_next
         \/ /\ \A i \in Block : ~IsBest(heap, size, i)
            /\ FitsAbove(size)
            /\ got(vmalloc_next)
            /\ vmalloc_next' = vmalloc_next + size
            /\ UNCHANGED heap
  /\ UNCHANGED <<mapping, loop, held, merged, forgotten>>

\* pmm_alloc_page, and vmm_map of the page.  vmalloc does not look at the answer:
\* without a table the VMA has no entry, and over a VMA nothing is mapped.
VmmMap(va) ==
  LET m == [memory EXCEPT !.frames = @ - 1]
  IN  IF va \in vmas THEN memory' = m /\ UNCHANGED <<vmas, relinked, bare>>
      ELSE IF Cardinality(vmas) = VmaNodes
      THEN relinked' = TRUE /\ memory' = m /\ UNCHANGED <<vmas, bare>>
      ELSE /\ vmas' = vmas \cup {va}
           /\ memory' = MapPage(m, va, "mapped")
           /\ bare' = IF Valid(memory', va) THEN bare ELSE bare \cup {va}
           /\ UNCHANGED relinked

\* vmalloc got a page for page n of its range and maps it: guard, data, guard.
MapNext(t) ==
  LET k == call[t]
  IN  /\ Running /\ k.at = "map"
      /\ memory.frames # 0
      /\ VmmMap(k.base + k.n) /\ UNCHANGED pages_total
      /\ IF k.n = k.pages + 1
         THEN /\ held' = held \cup {<<k.base, k.pages>>}
              /\ call' = [call EXCEPT ![t] = Idle]
         ELSE /\ call' = [call EXCEPT ![t].n = @ + 1]
              /\ UNCHANGED held
      /\ UNCHANGED <<heap, vmalloc_next, loop, merged, forgotten>>

\* Mutant: the first guard page is forgotten.
UnwindKeepsGuard(n) == [i \in 1 .. n - 1 |-> i]

\* The pages vmalloc gives back when page n could not be had, in its order:
\* the data pages and then the first guard.
Unwind(n) == IF n = 0 THEN <<>> ELSE [i \in 1 .. n |-> i % n]

\* pmm_alloc_page returns NULL.
NoPage(t) ==
  LET k == call[t]
  IN  /\ Running /\ k.at = "map"
      /\ memory.frames = 0
      /\ call' = [call EXCEPT ![t] = [at |-> "unwind", base |-> k.base,
                                      pages |-> k.pages, todo |-> Unwind(k.n)]]
      /\ UNCHANGED <<heap, vmalloc_next, mapping, loop, held, merged, forgotten>>

-----------------------------------------------------------------------------
(* vfree. *)

\* The pages vfree gives back, in its order: the data pages, then the guards.
VfreeOrder(pages) == [i \in 1 .. pages |-> i] \o <<0, pages + 1>>

\* A task calls vfree with an allocation that is still held, by whomever.
Vfree(t) ==
  /\ Running /\ call[t] = Idle
  /\ \E a \in held :
       /\ held' = held \ {a}
       /\ call' = [call EXCEPT ![t] = [at |-> "release", base |-> a[1],
                     pages |-> a[2], todo |-> VfreeOrder(a[2])]]
  /\ UNCHANGED <<heap, vmalloc_next, mapping, loop, merged, forgotten>>

\* The page that goes back: vmm_virt_to_phys translates through the VMA; without
\* one it answers the address itself, which is not in RAM and is ignored.  The
\* first guard of a call that fails is given back by its own address.
Returned(k, va) ==
  IF va \in vmas \/ (k.at = "unwind" /\ va = k.base) THEN 1 ELSE 0

\* vmm_unmap; there is nothing to unmap without a VMA.
VmmUnmap(va) == IF va \in vmas THEN UnmapPage(memory, va) ELSE memory

\* vmm_virt_to_phys, vmm_unmap and pmm_free_page of the next page.
ReleasePage(t) ==
  LET k  == call[t]
      va == k.base + Head(k.todo)
  IN  /\ Running /\ k.at \in {"unwind", "release"} /\ k.todo # <<>>
      /\ memory' = [VmmUnmap(va) EXCEPT !.frames = @ + Returned(k, va)]
      /\ vmas' = vmas \ {va}
      /\ bare' = bare \ {va}
      /\ call' = [call EXCEPT ![t].todo = Tail(@)]
      /\ UNCHANGED <<heap, vmalloc_next, pages_total, relinked, loop, held, merged, forgotten>>

\* Mutant: the guards are not given back with the data pages.
InsertWithoutGuards(h, va, size) ==
  LET b == h.pool
  IN  [h EXCEPT !.pool = h.next[b], !.list = b, !.va[b] = va,
                !.size[b] = size - 2, !.next[b] = h.list,
                !.prev = [c \in Block |-> IF c = b THEN NULL
                                         ELSE IF c = h.list THEN b ELSE @[c]]]

\* A block from the pool becomes the first one of the free list.
Insert(h, va, size) ==
  LET b == h.pool
  IN  [h EXCEPT !.pool = h.next[b], !.list = b, !.va[b] = va,
                !.size[b] = size, !.next[b] = h.list,
                !.prev = [c \in Block |-> IF c = b THEN NULL
                                         ELSE IF c = h.list THEN b ELSE @[c]]]

\* add_free_space: the range is put in the list, and coalescing starts; when
\* the pool is exhausted the range is forgotten.
AddFreeSpace(t) ==
  LET k == call[t]
  IN  /\ Running /\ k.at \in {"unwind", "release"} /\ k.todo = <<>>
      /\ call' = [call EXCEPT ![t] = Idle]
      /\ IF heap.pool = NULL
         THEN /\ forgotten' = forgotten \cup Extent(k.base, k.pages)
              /\ UNCHANGED <<heap, loop>>
         ELSE /\ heap' = Insert(heap, k.base, k.pages + 2)
              /\ loop' = [cur |-> heap'.list, next |-> heap.list, changed |-> FALSE]
              /\ UNCHANGED forgotten
      /\ UNCHANGED <<vmalloc_next, mapping, held, merged>>

-----------------------------------------------------------------------------
(* coalesce_free_list: one step per iteration of its inner loop. *)

Adjacent(a, b) == heap.va[a] + heap.size[a] = heap.va[b]

\* cur ends where next begins: cur grows, both are unlinked, next is freed.
MergeIntoCur ==
  LET cur == loop.cur
      nxt == loop.next
      h1  == [heap EXCEPT !.size[cur] = @ + heap.size[nxt]]
      h2  == Unlink(Unlink(h1, cur), nxt)
  IN  /\ loop # NULL /\ nxt # NULL
      /\ Adjacent(cur, nxt)
      /\ heap' = FreeBlock(h2, nxt)
      /\ loop' = [loop EXCEPT !.next = h2.next[nxt], !.changed = TRUE]
      /\ merged' = TRUE
      /\ UNCHANGED <<vmalloc_next, mapping, call, held, forgotten>>

\* next ends where cur begins: next grows, both are unlinked, cur is freed.
MergeIntoNext ==
  LET cur == loop.cur
      nxt == loop.next
      h1  == [heap EXCEPT !.size[nxt] = @ + heap.size[cur]]
      h2  == Unlink(Unlink(h1, nxt), cur)
  IN  /\ loop # NULL /\ nxt # NULL
      /\ ~Adjacent(cur, nxt) /\ Adjacent(nxt, cur)
      /\ heap' = FreeBlock(h2, cur)
      /\ loop' = [cur |-> nxt, next |-> h2.next[nxt], changed |-> TRUE]
      /\ merged' = TRUE
      /\ UNCHANGED <<vmalloc_next, mapping, call, held, forgotten>>

Advance ==
  /\ loop # NULL /\ loop.next # NULL
  /\ ~Adjacent(loop.cur, loop.next) /\ ~Adjacent(loop.next, loop.cur)
  /\ loop' = [loop EXCEPT !.next = heap.next[@]]
  /\ UNCHANGED <<heap, vmalloc_next, mapping, call, held, merged, forgotten>>

\* The inner loop is over: on to the next block, to another pass over the list
\* if something was merged, or out of the function.
NextCur ==
  LET start(b, ch) == [cur |-> b, next |-> heap.next[b], changed |-> ch]
      after == heap.next[loop.cur]
  IN  /\ loop # NULL /\ loop.next = NULL
      /\ loop' = IF after # NULL THEN start(after, loop.changed)
                 ELSE IF loop.changed /\ heap.list # NULL
                      THEN start(heap.list, FALSE)
                 ELSE NULL
      /\ UNCHANGED <<heap, vmalloc_next, mapping, call, held, merged, forgotten>>

\* Nothing is in use; init_pool has linked the blocks, the last one first
\* (alloc_block does it when it is first called).  The area shares its L1 table
\* with the kernel, which mmu_init has mapped.
Init ==
  /\ heap = [list |-> NULL, pool |-> IF Blocks = 0 THEN NULL ELSE Blocks,
             va |-> [b \in Block |-> 0], size |-> [b \in Block |-> 0],
             next |-> [b \in Block |-> IF b = 1 THEN NULL ELSE b - 1],
             prev |-> [b \in Block |-> NULL]]
  /\ vmalloc_next = Start
  /\ pages_total \in Pages
  /\ vmas = {}
  /\ memory = [NoTables(pages_total) EXCEPT !.tables = {Table(1, Start)}]
  /\ relinked = FALSE
  /\ call = [t \in Task |-> Idle]
  /\ loop = NULL
  /\ held = {}
  /\ merged = FALSE
  /\ bare = {}
  /\ forgotten = {}

Next ==
  \/ \E t \in Task, pages \in Sizes : FindFreeSpace(t, pages)
  \/ \E t \in Task :
       MapNext(t) \/ NoPage(t) \/ Vfree(t) \/ ReleasePage(t) \/ AddFreeSpace(t)
  \/ MergeIntoCur \/ MergeIntoNext \/ Advance \/ NextCur

Spec == Init /\ [][Next]_vars

-----------------------------------------------------------------------------
(* Properties. *)

Busy == {t \in Task : call[t] # Idle}

\* The ranges that are in use: held, or of a call that has not returned.
InUse == held \cup {<<call[t].base, call[t].pages>> : t \in Busy}

Covers(b) == heap.va[b] .. heap.va[b] + heap.size[b] - 1

\* As long as no blocks were merged: no two allocations share a page, guards
\* included, no range in use is in the free list, and no free block overlaps
\* another.  Best fit, splitting and calls that fail half way never hand out
\* what somebody has.
Exclusive ==
  ~merged =>
    /\ \A a, b \in InUse : a # b => Extent(a[1], a[2]) \cap Extent(b[1], b[2]) = {}
    /\ \A t, u \in Busy : t # u => call[t].base # call[u].base
    /\ \A t \in Busy : <<call[t].base, call[t].pages>> \notin held
    /\ \A b \in Listed(heap), a \in InUse : Covers(b) \cap Extent(a[1], a[2]) = {}
    /\ \A b, d \in Listed(heap) : b # d => Covers(b) \cap Covers(d) = {}

\* As long as no blocks were merged: every page of the PMM is free, a page table,
\* or behind one address of an allocation in use, and an allocation that was
\* handed out has all of its pages.  A vmalloc that fails half way, and a vfree,
\* give back every page they should and no other.
PagesAccounted ==
  ~merged /\ ~relinked =>
    /\ memory.frames + Cardinality(vmas) + Cardinality(memory.tables) = pages_total + 1
    /\ vmas \subseteq UNION {Extent(a[1], a[2]) : a \in InUse}
    /\ \A a \in held : Extent(a[1], a[2]) \subseteq vmas

\* Exactly the addresses that have a page can be touched, but for those whose
\* page table could not be had, which vmalloc does not notice; no address that
\* was freed still leads to a page, even where blocks were merged wrongly.
MappedAsHeld == DOMAIN memory.entry = vmas \ bare

\* "no leaks" (tests/README.md): with no call in progress, every address that
\* was ever handed out is held or in the free list.
NoLeaks ==
  (Busy = {} /\ loop = NULL) =>
    \A a \in Start .. vmalloc_next - 1 :
      \/ \E h \in held : a \in Extent(h[1], h[2])
      \/ \E b \in Listed(heap) : a \in Covers(b)

\* As long as no blocks were merged, nothing is leaked by splitting, failing half
\* way or freeing, but for what add_free_space dropped because free_pool was
\* empty; that is never handed out again.
NoLeaksUnmerged ==
  ~merged /\ Busy = {} /\ loop = NULL =>
    LET inUse == UNION {Extent(h[1], h[2]) : h \in held}
        free  == UNION {Covers(b) : b \in Listed(heap)}
    IN  /\ Start .. vmalloc_next - 1 = inUse \cup free \cup forgotten
        /\ forgotten \cap (inUse \cup free) = {}
=============================================================================
