--------------------------- MODULE VmallocProofs ----------------------------
(***************************************************************************)
(* The kernel heap keeps its page table entries in step with its VMAs, and *)
(* accounts for every page, for any number of tasks, blocks, pages and     *)
(* sizes.  Whose address it is, which VmallocSpace proves, tells whose     *)
(* page it is.                                                             *)
(***************************************************************************)
EXTENDS VmallocSpace

USE ZenonT(30)

-----------------------------------------------------------------------------
(* The page tables follow the VMAs. *)

IsMemory(m) == m = [tables |-> m.tables, entry |-> m.entry, frames |-> m.frames]

\* g is m after mmu_map_page of va, as far as the entries go.
IsMapped(g, m, va) ==
  /\ IsMemory(g) /\ m.tables \subseteq g.tables
  /\ DOMAIN g.entry = DOMAIN m.entry \cup (IF Reaches(g, va) THEN {va} ELSE {})

\* g is m after mmu_unmap_page of va.
IsUnmapped(g, m, va) ==
  /\ IsMemory(g) /\ g.tables = m.tables /\ g.frames = m.frames
  /\ DOMAIN g.entry = IF Valid(m, va) THEN DOMAIN m.entry \ {va} ELSE DOMAIN m.entry

\* The other changes of a memory: its number of free pages.
LEMMA FramesFields ==
  ASSUME NEW m, IsMemory(m), NEW n
  PROVE  LET g == [m EXCEPT !.frames = n]
         IN  IsMemory(g) /\ g.tables = m.tables /\ g.entry = m.entry /\ g.frames = n
BY SMTT(30) DEF IsMemory

\* The tables alloc_table adds on the way to va.
NewTables(m, va) ==
  LET gap  == 4 - Cardinality(Way(va) \ m.tables)
      upto == gap + m.frames - 1
  IN  {Table(level, va) : level \in {l \in gap .. 3 : l <= upto}}

\* alloc_table touches no entry.
LEMMA AllocFields ==
  ASSUME NEW m, IsMemory(m), NEW va
  PROVE  LET g == AllocTables(m, va)
         IN  /\ IsMemory(g) /\ g.entry = m.entry
             /\ g.tables = m.tables \cup NewTables(m, va)
             /\ g.frames = m.frames - Cardinality(NewTables(m, va))
<1>1. ASSUME NEW new
      PROVE  LET g == [m EXCEPT !.tables = @ \cup new, !.frames = @ - Cardinality(new)]
             IN  /\ IsMemory(g) /\ g.entry = m.entry
                 /\ g.tables = m.tables \cup new
                 /\ g.frames = m.frames - Cardinality(new)
  <2> DEFINE s == m.tables \cup new
             c == Cardinality(new)
  <2> HIDE DEF s, c
  <2>1. LET g == [m EXCEPT !.tables = s]
        IN  IsMemory(g) /\ g.tables = s /\ g.entry = m.entry /\ g.frames = m.frames
    BY SMTT(30) DEF IsMemory
  <2>2. PICK g : g = [m EXCEPT !.tables = s]
    OBVIOUS
  <2>3. IsMemory(g) /\ g.tables = s /\ g.entry = m.entry /\ g.frames = m.frames
    BY <2>1, <2>2
  <2>4. LET f == [g EXCEPT !.frames = g.frames - c]
        IN  IsMemory(f) /\ f.tables = s /\ f.entry = m.entry /\ f.frames = m.frames - c
    BY <2>3, FramesFields, SMTT(30)
  <2>5. [g EXCEPT !.frames = g.frames - c] =
          [m EXCEPT !.tables = @ \cup new, !.frames = @ - Cardinality(new)]
    BY <2>2 DEF s, c
  <2>. QED
    BY <2>4, <2>5 DEF s, c
<1>2. LET new == NewTables(m, va)
      IN  AllocTables(m, va) = [m EXCEPT !.tables = @ \cup new, !.frames = @ - Cardinality(new)]
  BY DEF AllocTables, NewTables
<1>. QED
  BY <1>1, <1>2

\* mmu_map_page writes one entry, when its tables are there.
LEMMA MapPageFields ==
  ASSUME NEW m, IsMemory(m), NEW va, NEW e
  PROVE  IsMapped(MapPage(m, va, e), m, va)
<1> DEFINE a == AllocTables(m, va)
           f == [p \in DOMAIN a.entry \cup {va} |-> IF p = va THEN e ELSE a.entry[p]]
<1>1. IsMemory(a) /\ m.tables \subseteq a.tables /\ a.entry = m.entry
  BY AllocFields
<1>2. MapPage(m, va, e) = IF ~Reaches(a, va) THEN a ELSE [a EXCEPT !.entry = f]
  BY DEF MapPage
<1> HIDE DEF a
<1>3. DOMAIN f = DOMAIN m.entry \cup {va}
  BY <1>1
<1> HIDE DEF f
<1>4. LET g == [a EXCEPT !.entry = f]
      IN  IsMemory(g) /\ g.tables = a.tables /\ g.entry = f
  BY <1>1, SMTT(30) DEF IsMemory
<1>5. CASE Reaches(a, va)
  BY <1>1, <1>2, <1>3, <1>4, <1>5 DEF IsMapped, Reaches
<1>6. CASE ~Reaches(a, va)
  BY <1>1, <1>2, <1>6 DEF IsMapped
<1>. QED
  BY <1>5, <1>6

\* mmu_unmap_page takes one entry away.
LEMMA UnmapPageFields ==
  ASSUME NEW m, IsMemory(m), NEW va
  PROVE  IsUnmapped(UnmapPage(m, va), m, va)
<1> DEFINE f == [p \in DOMAIN m.entry \ {va} |-> m.entry[p]]
<1>1. UnmapPage(m, va) = IF Valid(m, va) THEN [m EXCEPT !.entry = f] ELSE m
  BY DEF UnmapPage
<1>2. DOMAIN f = DOMAIN m.entry \ {va}
  OBVIOUS
<1> HIDE DEF f
<1>3. LET g == [m EXCEPT !.entry = f]
      IN  IsMemory(g) /\ g.tables = m.tables /\ g.entry = f /\ g.frames = m.frames
  BY SMTT(30) DEF IsMemory
<1>. QED
  BY <1>1, <1>2, <1>3 DEF IsUnmapped

\* An address has an entry when it has a VMA that got its tables, and the tables
\* on the way to an entry are linked.
EntryInv ==
  /\ IsMemory(memory)
  /\ DOMAIN memory.entry = vmas \ bare /\ bare \subseteq vmas
  /\ \A p \in DOMAIN memory.entry : Reaches(memory, p)

\* vmm_map keeps that.
LEMMA MapKeepsEntries ==
  ASSUME EntryInv, NEW va, VmmMap(va)
  PROVE  EntryInv'
<1> DEFINE m == [memory EXCEPT !.frames = memory.frames - 1]
<1>1. IsMemory(m) /\ m.tables = memory.tables /\ m.entry = memory.entry
  BY FramesFields DEF EntryInv
<1>2. \/ memory' = m /\ UNCHANGED <<vmas, bare>>
      \/ /\ va \notin vmas /\ vmas' = vmas \cup {va}
         /\ memory' = MapPage(m, va, "mapped")
         /\ bare' = IF Valid(memory', va) THEN bare ELSE bare \cup {va}
  BY DEF VmmMap
<1> HIDE DEF m
<1>3. CASE memory' = m /\ UNCHANGED <<vmas, bare>>
  BY <1>1, <1>3 DEF EntryInv, Reaches
<1>4. CASE /\ va \notin vmas /\ vmas' = vmas \cup {va}
           /\ memory' = MapPage(m, va, "mapped")
           /\ bare' = IF Valid(memory', va) THEN bare ELSE bare \cup {va}
  <2>1. IsMapped(memory', m, va)
    BY <1>1, <1>4, MapPageFields
  <2>2. \A p \in DOMAIN memory.entry : Reaches(memory', p)
    BY <1>1, <2>1 DEF EntryInv, Reaches, IsMapped
  <2>3. CASE Reaches(memory', va)
    <3>1. DOMAIN memory'.entry = (vmas \ bare) \cup {va} /\ bare' = bare
      BY <1>1, <1>4, <2>1, <2>3 DEF EntryInv, IsMapped, Valid
    <3>. QED
      BY <1>4, <2>1, <2>2, <2>3, <3>1 DEF EntryInv, IsMapped
  <2>4. CASE ~Reaches(memory', va)
    <3>1. DOMAIN memory'.entry = vmas \ bare /\ bare' = bare \cup {va}
      BY <1>1, <1>4, <2>1, <2>4 DEF EntryInv, IsMapped, Valid
    <3>. QED
      BY <1>4, <2>1, <2>2, <3>1 DEF EntryInv, IsMapped
  <2>. QED
    BY <2>3, <2>4
<1>. QED
  BY <1>2, <1>3, <1>4

\* So does vmm_unmap with pmm_free_page.
LEMMA ReleaseKeepsEntries ==
  ASSUME EntryInv, NEW va, NEW n,
         memory' = [VmmUnmap(va) EXCEPT !.frames = n],
         vmas' = vmas \ {va}, bare' = bare \ {va}
  PROVE  EntryInv'
<1>1. CASE va \in vmas
  <2>1. IsUnmapped(VmmUnmap(va), memory, va)
    BY <1>1, UnmapPageFields DEF VmmUnmap, EntryInv
  <2>2. /\ IsMemory(memory') /\ memory'.tables = memory.tables
        /\ DOMAIN memory'.entry = IF Valid(memory, va) THEN DOMAIN memory.entry \ {va}
                                  ELSE DOMAIN memory.entry
    BY <2>1, FramesFields DEF IsUnmapped
  <2>3. Valid(memory, va) <=> va \in DOMAIN memory.entry
    BY DEF EntryInv, Valid
  <2>. QED
    BY <2>2, <2>3 DEF EntryInv, Reaches
<1>2. CASE va \notin vmas
  <2>1. IsMemory(memory') /\ memory'.tables = memory.tables /\ memory'.entry = memory.entry
    BY <1>2, FramesFields, SMTT(30) DEF VmmUnmap, EntryInv
  <2>. QED
    BY <1>2, <2>1 DEF EntryInv, Reaches
<1>. QED
  BY <1>1, <1>2

\* Exactly the addresses that have a VMA and got their tables can be touched:
\* MappedAsHeld, through every order of mapping and unmapping, merged blocks
\* included.  The tables of an entry are never freed, so mmu_unmap_page always
\* finds what vmm_map wrote.
THEOREM EntriesAreVmas == Spec => []MappedAsHeld
<1>1. Init => EntryInv
  <2> SUFFICES ASSUME Init PROVE EntryInv
    OBVIOUS
  <2>1. /\ IsMemory(memory) /\ DOMAIN memory.entry = {}
    <3>1. /\ memory.tables = {Table(1, Start)} /\ memory.entry = <<>>
          /\ memory = [tables |-> {Table(1, Start)}, entry |-> <<>>, frames |-> pages_total]
      BY DEF Init, NoTables
    <3>2. DOMAIN <<>> = {}
      BY SMTT(30)
    <3>3. memory.frames = pages_total
      BY <3>1
    <3>. QED
      BY <3>1, <3>2, <3>3 DEF IsMemory
  <2>. QED
    BY <2>1 DEF Init, EntryInv
<1>2. EntryInv /\ [Next]_vars => EntryInv'
  <2> SUFFICES ASSUME EntryInv, [Next]_vars PROVE EntryInv'
    OBVIOUS
  <2>1. CASE UNCHANGED mapping
    BY <2>1 DEF EntryInv, mapping, Reaches
  <2>2. ASSUME NEW t \in Task, MapNext(t) PROVE EntryInv'
    <3>1. PICK va : va = call[t].base + call[t].n
      OBVIOUS
    <3>2. VmmMap(va)
      BY <2>2, <3>1 DEF MapNext
    <3>. QED
      BY <3>2, MapKeepsEntries
  <2>3. ASSUME NEW t \in Task, ReleasePage(t) PROVE EntryInv'
    <3>1. PICK va : va = call[t].base + Head(call[t].todo)
      OBVIOUS
    <3>2. PICK n : n = VmmUnmap(va).frames + Returned(call[t], va)
      OBVIOUS
    <3>3. /\ memory' = [VmmUnmap(va) EXCEPT !.frames = n]
          /\ vmas' = vmas \ {va} /\ bare' = bare \ {va}
      BY <2>3, <3>1, <3>2 DEF ReleasePage
    <3>. QED
      BY <3>3, ReleaseKeepsEntries
  <2>4. ASSUME NEW t \in Task, NEW pages \in Sizes, FindFreeSpace(t, pages)
        PROVE  UNCHANGED mapping
    BY <2>4 DEF FindFreeSpace
  <2>5. ASSUME NEW t \in Task, NoPage(t) \/ Vfree(t) \/ AddFreeSpace(t)
        PROVE  UNCHANGED mapping
    BY <2>5 DEF NoPage, Vfree, AddFreeSpace
  <2>6. CASE MergeIntoCur \/ MergeIntoNext \/ Advance \/ NextCur
    BY <2>1, <2>6 DEF MergeIntoCur, MergeIntoNext, Advance, NextCur
  <2>7. UNCHANGED vars => UNCHANGED mapping
    BY DEF vars
  <2>. QED
    BY <2>1, <2>2, <2>3, <2>4, <2>5, <2>6, <2>7 DEF Next
<1>3. EntryInv => MappedAsHeld
  BY DEF EntryInv, MappedAsHeld
<1>. QED
  BY <1>1, <1>2, <1>3, PTL DEF Spec

-----------------------------------------------------------------------------
(* The pages of the PMM are accounted for. *)

\* A linked table is linked to a linked one.
Closed(T) ==
  \A va \in Int : /\ Table(3, va) \in T => Table(2, va) \in T
                  /\ Table(2, va) \in T => Table(1, va) \in T

TableInv(m) == IsMemory(m) /\ IsFiniteSet(m.tables) /\ m.frames \in Nat /\ Closed(m.tables)

\* A set written with two elements has two.
LEMMA TwoElements ==
  ASSUME NEW x, NEW y, x # y
  PROVE  IsFiniteSet({x, y}) /\ Cardinality({x, y}) = 2
<1>1. {x, y} = {x} \cup {y} /\ y \notin {x}
  OBVIOUS
<1>2. IsFiniteSet({x}) /\ Cardinality({x}) = 1
  BY FS_Singleton
<1>3. IsFiniteSet({x} \cup {y}) /\ Cardinality({x} \cup {y}) = 2
  <2> DEFINE S == {x}
  <2>1. IsFiniteSet(S) /\ Cardinality(S) = 1 /\ y \notin S
    BY <1>1, <1>2
  <2> HIDE DEF S
  <2>2. IsFiniteSet(S \cup {y}) /\ Cardinality(S \cup {y}) = 2
    BY <2>1, FS_AddElement, SMTT(30)
  <2>. QED
    BY <2>2 DEF S
<1>. QED
  BY <1>1, <1>3

\* A set written with three elements has three.
LEMMA ThreeElements ==
  ASSUME NEW x, NEW y, NEW z, x # y, x # z, y # z
  PROVE  IsFiniteSet({x, y, z}) /\ Cardinality({x, y, z}) = 3
<1> DEFINE S == {x, y}
<1>1. IsFiniteSet(S) /\ Cardinality(S) = 2
  BY TwoElements
<1>2. z \notin S
  OBVIOUS
<1>3. {x, y, z} = S \cup {z}
  OBVIOUS
<1> HIDE DEF S
<1>4. IsFiniteSet(S \cup {z}) /\ Cardinality(S \cup {z}) = 3
  BY <1>1, <1>2, FS_AddElement, SMTT(30)
<1>. QED
  BY <1>3, <1>4

\* The tables of an address are three, and a table tells the one above it.
LEMMA TablesOf ==
  /\ \A va \in Int : /\ Way(va) = {Table(1, va), Table(2, va), Table(3, va)}
                     /\ Table(1, va) # Table(2, va) /\ Table(1, va) # Table(3, va)
                     /\ Table(2, va) # Table(3, va)
  /\ \A va, vb \in Int :
       /\ \A i, j \in {1, 2, 3} : Table(i, va) = Table(j, vb) => i = j
       /\ Table(3, va) = Table(3, vb) => Table(2, va) = Table(2, vb)
       /\ Table(2, va) = Table(2, vb) => Table(1, va) = Table(1, vb)
<1>1. \A va \in Int : /\ Table(1, va) = <<1, Up(Up(Up(va)))>>
                      /\ Table(2, va) = <<2, Up(Up(va))>> /\ Table(3, va) = <<3, Up(va)>>
  BY DEF Table
<1>2. \A va : Way(va) = {Table(1, va), Table(2, va), Table(3, va)}
  <2>1. 1 .. 3 = {1, 2, 3}
    BY SMTT(30)
  <2>. QED
    BY <2>1 DEF Way
<1>. QED
  BY <1>1, <1>2, SMTT(30)

\* new is made of tables that are missing in T, at most n of them, and the one
\* above each of them is there.
FirstMissing(new, T, T1, T2, T3, n) ==
  /\ IsFiniteSet(new) /\ Cardinality(new) \in Nat /\ Cardinality(new) <= n
  /\ new \cap T = {} /\ new \subseteq {T1, T2, T3}
  /\ T3 \in new => T2 \in T \cup new
  /\ T2 \in new => T1 \in T \cup new

\* Which tables alloc_table adds: the first ones that are missing, as many as
\* there are pages.
LEMMA NewTablesAre ==
  ASSUME NEW m, TableInv(m), NEW va \in Int
  PROVE  FirstMissing(NewTables(m, va), m.tables,
                      Table(1, va), Table(2, va), Table(3, va), m.frames)
<1> DEFINE T1 == Table(1, va)
           T2 == Table(2, va)
           T3 == Table(3, va)
           new == NewTables(m, va)
           T == m.tables
           miss == Way(va) \ T
           gap == 4 - Cardinality(miss)
<1> SUFFICES FirstMissing(new, T, T1, T2, T3, m.frames)
  OBVIOUS
<1>1. /\ Way(va) = {T1, T2, T3} /\ T1 # T2 /\ T1 # T3 /\ T2 # T3
      /\ T3 \in T => T2 \in T
      /\ T2 \in T => T1 \in T
      /\ m.frames \in Nat
  BY TablesOf DEF TableInv, Closed
<1>2. ASSUME gap \in 1 .. 4
      PROVE  \A x : x \in new <=> \/ gap <= 1 /\ 1 <= gap + m.frames - 1 /\ x = T1
                                  \/ gap <= 2 /\ 2 <= gap + m.frames - 1 /\ x = T2
                                  \/ gap <= 3 /\ 3 <= gap + m.frames - 1 /\ x = T3
  <2> DEFINE L == {l \in gap .. 3 : l <= gap + m.frames - 1}
  <2>1. new = {Table(l, va) : l \in L}
    BY DEF NewTables
  <2>2. \A l : l \in L <=> \/ gap <= 1 /\ 1 <= gap + m.frames - 1 /\ l = 1
                           \/ gap <= 2 /\ 2 <= gap + m.frames - 1 /\ l = 2
                           \/ gap <= 3 /\ 3 <= gap + m.frames - 1 /\ l = 3
    <3> HIDE DEF gap
    <3>. QED
      BY <1>1, <1>2, SMTT(30)
  <2> HIDE DEF L, gap, new
  <2>. QED
    BY <2>1, <2>2
<1> HIDE DEF T1, T2, T3, new, T, gap
<1>3. CASE T3 \in T
  <2>1. miss = {}
    BY <1>1, <1>3
  <2>3. gap = 4
    BY <2>1, FS_EmptySet, SMTT(30) DEF gap
  <2>2. new = {}
    BY <1>1, <1>2, <2>3, SMTT(30)
  <2>. QED
    BY <1>1, <2>2, FS_EmptySet, SMTT(30) DEF FirstMissing
<1>4. CASE T2 \in T /\ T3 \notin T
  <2>1. miss = {T3}
    BY <1>1, <1>4
  <2>2. Cardinality(miss) = 1
    BY <2>1, FS_Singleton
  <2>3. new = IF m.frames = 0 THEN {} ELSE {T3}
    <3>1. gap = 3
      BY <2>2, SMTT(30) DEF gap
    <3>. QED
      BY <1>1, <1>2, <3>1, SMTT(30)
  <2>4. CASE m.frames = 0
    BY <1>1, <2>3, <2>4, FS_EmptySet, SMTT(30) DEF FirstMissing
  <2>5. CASE m.frames # 0
    <3>1. IsFiniteSet(new) /\ Cardinality(new) = 1
      BY <2>3, <2>5, FS_Singleton
    <3>. QED
      BY <1>1, <1>4, <2>3, <2>5, <3>1, SMTT(30) DEF FirstMissing
  <2>. QED
    BY <2>4, <2>5
<1>5. CASE T1 \in T /\ T2 \notin T /\ T3 \notin T
  <2>1. miss = {T2, T3}
    BY <1>1, <1>5
  <2>2. Cardinality(miss) = 2
    BY <1>1, <2>1, TwoElements
  <2>3. \A x : x \in new <=> (m.frames >= 1 /\ x = T2) \/ (m.frames >= 2 /\ x = T3)
    <3>1. gap = 2
      BY <2>2, SMTT(30) DEF gap
    <3>. QED
      BY <1>1, <1>2, <3>1, SMTT(30)
  <2>4. CASE m.frames = 0
    <3>0. new = {}
      BY <2>3, <2>4, SMTT(30)
    <3>. QED
      BY <1>1, <2>4, <3>0, FS_EmptySet, SMTT(30) DEF FirstMissing
  <2>5. CASE m.frames = 1
    <3>0. new = {T2}
      BY <2>3, <2>5, SMTT(30)
    <3>1. IsFiniteSet(new) /\ Cardinality(new) = 1
      BY <3>0, FS_Singleton
    <3>. QED
      BY <1>1, <1>5, <2>5, <3>0, <3>1, SMTT(30) DEF FirstMissing
  <2>6. CASE m.frames >= 2
    <3>0. new = {T2, T3}
      BY <1>1, <2>3, <2>6, SMTT(30)
    <3>1. IsFiniteSet(new) /\ Cardinality(new) = 2
      BY <1>1, <3>0, TwoElements
    <3>. QED
      BY <1>1, <1>5, <2>6, <3>0, <3>1, SMTT(30) DEF FirstMissing
  <2>. QED
    BY <1>1, <2>4, <2>5, <2>6, SMTT(30)
<1>6. CASE T1 \notin T
  <2>1. miss = {T1, T2, T3}
    BY <1>1, <1>6
  <2>2. Cardinality(miss) = 3
    <3>1. Cardinality({T1, T2, T3}) = 3
      BY <1>1, ThreeElements
    <3>. QED
      BY <2>1, <3>1
  <2>3. \A x : x \in new <=> \/ m.frames >= 1 /\ x = T1
                             \/ m.frames >= 2 /\ x = T2
                             \/ m.frames >= 3 /\ x = T3
    <3>1. gap = 1
      BY <2>2, SMTT(30) DEF gap
    <3>. QED
      BY <1>1, <1>2, <3>1, SMTT(30)
  <2>4. CASE m.frames = 0
    <3>0. new = {}
      BY <2>3, <2>4, SMTT(30)
    <3>. QED
      BY <1>1, <2>4, <3>0, FS_EmptySet, SMTT(30) DEF FirstMissing
  <2>5. CASE m.frames = 1
    <3>0. new = {T1}
      BY <2>3, <2>5, SMTT(30)
    <3>1. IsFiniteSet(new) /\ Cardinality(new) = 1
      BY <3>0, FS_Singleton
    <3>. QED
      BY <1>1, <1>6, <2>5, <3>0, <3>1, SMTT(30) DEF FirstMissing
  <2>6. CASE m.frames = 2
    <3>0. new = {T1, T2}
      BY <2>3, <2>6, SMTT(30)
    <3>1. IsFiniteSet(new) /\ Cardinality(new) = 2
      BY <1>1, <3>0, TwoElements
    <3>. QED
      BY <1>1, <1>6, <2>6, <3>0, <3>1, SMTT(30) DEF FirstMissing
  <2>7. CASE m.frames >= 3
    <3>0. new = {T1, T2, T3}
      BY <1>1, <2>3, <2>7, SMTT(30)
    <3>1. IsFiniteSet(new) /\ Cardinality(new) = 3
      BY <1>1, <3>0, ThreeElements
    <3>. QED
      BY <1>1, <1>6, <2>7, <3>0, <3>1, SMTT(30) DEF FirstMissing
  <2>. QED
    BY <1>1, <2>4, <2>5, <2>6, <2>7, SMTT(30)
<1>. QED
  BY <1>1, <1>3, <1>4, <1>5, <1>6

\* A page that leaves the pool for a table is counted there.
LEMMA AllocCounts ==
  ASSUME NEW m, TableInv(m), NEW va \in Int
  PROVE  LET g == AllocTables(m, va)
         IN  /\ TableInv(g) /\ g.entry = m.entry
             /\ g.frames + Cardinality(g.tables) = m.frames + Cardinality(m.tables)
<1>1. PICK new : new = NewTables(m, va)
  OBVIOUS
<1>2. PICK g : g = AllocTables(m, va)
  OBVIOUS
<1>3. /\ IsMemory(g) /\ g.entry = m.entry
      /\ g.tables = m.tables \cup new /\ g.frames = m.frames - Cardinality(new)
  BY <1>1, <1>2, AllocFields DEF TableInv
<1>4. /\ IsFiniteSet(new) /\ Cardinality(new) \in Nat /\ Cardinality(new) <= m.frames
      /\ new \cap m.tables = {} /\ new \subseteq Way(va)
      /\ Table(3, va) \in new => Table(2, va) \in m.tables \cup new
      /\ Table(2, va) \in new => Table(1, va) \in m.tables \cup new
  <2>1. FirstMissing(new, m.tables, Table(1, va), Table(2, va), Table(3, va), m.frames)
    BY <1>1, NewTablesAre
  <2>2. Way(va) = {Table(1, va), Table(2, va), Table(3, va)}
    BY TablesOf
  <2>. QED
    BY <2>1, <2>2 DEF FirstMissing
<1>5. IsFiniteSet(g.tables) /\ Cardinality(g.tables) = Cardinality(m.tables) + Cardinality(new)
  <2>1. IsFiniteSet(m.tables) /\ m.tables \cap new = {}
    BY <1>4 DEF TableInv
  <2>2. /\ IsFiniteSet(m.tables \cup new)
        /\ Cardinality(m.tables \cup new) =
             Cardinality(m.tables) + Cardinality(new) - Cardinality(m.tables \cap new)
    BY <1>4, <2>1, FS_Union
  <2>3. Cardinality(m.tables \cap new) = 0
    BY <2>1, FS_EmptySet
  <2>4. Cardinality(m.tables) \in Nat
    BY <2>1, FS_CardinalityType
  <2>. QED
    BY <1>3, <1>4, <2>2, <2>3, <2>4, SMTT(30)
<1>6. Closed(g.tables)
  <2> SUFFICES ASSUME NEW vb \in Int
               PROVE  /\ Table(3, vb) \in m.tables \cup new => Table(2, vb) \in m.tables \cup new
                      /\ Table(2, vb) \in m.tables \cup new => Table(1, vb) \in m.tables \cup new
    BY <1>3 DEF Closed
  <2>1. \A x \in new : x = Table(1, va) \/ x = Table(2, va) \/ x = Table(3, va)
    BY <1>4, TablesOf
  <2>2. ASSUME Table(3, vb) \in new PROVE Table(2, vb) \in m.tables \cup new
    <3>1. Table(3, vb) = Table(3, va)
      BY <2>1, <2>2, TablesOf
    <3>. QED
      BY <1>4, <2>2, <3>1, TablesOf
  <2>3. ASSUME Table(2, vb) \in new PROVE Table(1, vb) \in m.tables \cup new
    <3>1. Table(2, vb) = Table(2, va)
      BY <2>1, <2>3, TablesOf
    <3>. QED
      BY <1>4, <2>3, <3>1, TablesOf
  <2>. QED
    BY <2>2, <2>3 DEF TableInv, Closed
<1>7. m.frames \in Nat /\ Cardinality(m.tables) \in Nat
  BY FS_CardinalityType DEF TableInv
<1>8. g.frames \in Nat /\ g.frames + Cardinality(g.tables) = m.frames + Cardinality(m.tables)
  <2>1. ASSUME NEW f \in Nat, NEW c \in Nat, NEW n \in Nat, n <= f
        PROVE  f - n \in Nat /\ (f - n) + (c + n) = f + c
    BY <2>1, SMTT(30)
  <2>2. /\ g.frames = m.frames - Cardinality(new)
        /\ Cardinality(g.tables) = Cardinality(m.tables) + Cardinality(new)
        /\ Cardinality(new) \in Nat /\ Cardinality(new) <= m.frames
    BY <1>3, <1>4, <1>5
  <2>. QED
    BY <1>7, <2>1, <2>2, SMTT(30)
<1>9. TableInv(g)
  BY <1>3, <1>5, <1>6, <1>8 DEF TableInv
<1>. QED
  BY <1>2, <1>3, <1>8, <1>9

\* mmu_map_page takes no page but for tables.
LEMMA MapPageCounts ==
  ASSUME NEW m, TableInv(m), NEW va \in Int, NEW e
  PROVE  LET g == MapPage(m, va, e)
         IN  /\ TableInv(g)
             /\ g.frames + Cardinality(g.tables) = m.frames + Cardinality(m.tables)
<1>1. PICK a : a = AllocTables(m, va)
  OBVIOUS
<1>2. TableInv(a) /\ a.frames + Cardinality(a.tables) = m.frames + Cardinality(m.tables)
  BY <1>1, AllocCounts
<1>3. \/ MapPage(m, va, e) = a
      \/ \E f : MapPage(m, va, e) = [a EXCEPT !.entry = f]
  BY <1>1 DEF MapPage
<1>4. ASSUME NEW f
      PROVE  LET g == [a EXCEPT !.entry = f]
             IN  IsMemory(g) /\ g.tables = a.tables /\ g.frames = a.frames
  BY <1>2, SMTT(30) DEF TableInv, IsMemory
<1>5. ASSUME NEW g, IsMemory(g) /\ g.tables = a.tables /\ g.frames = a.frames
      PROVE  /\ TableInv(g)
             /\ g.frames + Cardinality(g.tables) = m.frames + Cardinality(m.tables)
  BY <1>2, <1>5 DEF TableInv
<1>. QED
  BY <1>2, <1>3, <1>4, <1>5

\* The addresses of a call that have a page.
Mapped(k) ==
  IF k.at = "map" THEN k.base .. k.base + k.n - 1
  ELSE {k.base + k.todo[i] : i \in 1 .. Len(k.todo)}

\* A call maps up to its second guard and gives back every page once.
InRange(k) ==
  IF k.at = "map" THEN k.n <= k.pages + 1
  ELSE \A i, j \in 1 .. Len(k.todo) :
         k.todo[i] <= k.pages + 1 /\ (k.todo[i] = k.todo[j] => i = j)

\* The VMAs are those of the allocations that are held, and those the calls
\* have mapped and not given back.
Behind(x) ==
  \/ \E a \in held : x \in Extent(a[1], a[2])
  \/ \E t \in Busy : x \in Mapped(call[t])

VmaInv == (\A t \in Busy : InRange(call[t])) /\ (\A x : x \in vmas <=> Behind(x))

CountInv ==
  /\ TableInv(memory) /\ IsFiniteSet(vmas) /\ pages_total \in Nat
  /\ memory.frames + Cardinality(vmas) + Cardinality(memory.tables) = pages_total + 1

\* What a call has mapped is in its range.
LEMMA MappedInExtent ==
  ASSUME NEW k \in MapCall \cup FreeCall, InRange(k)
  PROVE  \A x \in Mapped(k) : x \in Int /\ x \in Extent(k.base, k.pages)
<1>0. k.base \in Nat /\ k.pages \in Nat
  BY NotIdle
<1>1. CASE k.at = "map"
  <2>1. k.n \in Nat /\ k.n <= k.pages + 1
    BY <1>1, NotIdle DEF InRange
  <2>. QED
    BY <1>0, <1>1, <2>1, SMTT(30) DEF Mapped, Extent
<1>2. CASE k.at # "map"
  <2>1. k.todo \in Seq(Nat)
    BY <1>2, NotIdle
  <2>2. \A i \in 1 .. Len(k.todo) : k.todo[i] \in Nat /\ k.todo[i] <= k.pages + 1
    BY <1>2, <2>1, SMTT(30) DEF InRange
  <2>. QED
    BY <1>0, <1>2, <2>2, SMTT(30) DEF Mapped, Extent
<1>. QED
  BY <1>1, <1>2

\* A call that fails gives back exactly what it had mapped.
LEMMA UnwindCovers ==
  ASSUME NEW n \in Nat, NEW base \in Nat, NEW pages \in Nat, n <= pages + 1,
         NEW k, k = [at |-> "unwind", base |-> base, pages |-> pages, todo |-> Unwind(n)]
  PROVE  InRange(k) /\ \A x : x \in Mapped(k) <=> x \in base .. base + n - 1
<1>1. k.at = "unwind" /\ k.base = base /\ k.pages = pages /\ k.todo = Unwind(n)
  OBVIOUS
<1>2. CASE n = 0
  <2>1. Len(k.todo) = 0
    BY <1>1, <1>2 DEF Unwind
  <2>. QED
    BY <1>1, <1>2, <2>1, SMTT(30) DEF InRange, Mapped
<1>3. CASE n # 0
  <2>1. \A i \in 1 .. n : i % n = IF i = n THEN 0 ELSE i
    BY <1>3, SMTT(30)
  <2>2. Len(k.todo) = n /\ \A i \in 1 .. n : k.todo[i] = IF i = n THEN 0 ELSE i
    BY <1>1, <1>3, <2>1, SMTT(30) DEF Unwind
  <2>3. InRange(k)
    BY <1>1, <2>2, SMTT(30) DEF InRange
  <2>4. ASSUME NEW x \in base .. base + n - 1 PROVE x \in Mapped(k)
    <3>1. CASE x = base
      BY <1>1, <1>3, <2>2, <3>1, SMTT(30) DEF Mapped
    <3>2. CASE x # base
      <4>1. x - base \in 1 .. n /\ x - base # n /\ x = base + (x - base)
        BY <3>2, SMTT(30)
      <4>. QED
        <5>1. PICK i \in 1 .. n : i = x - base /\ i # n /\ x = base + i
          BY <4>1
        <5>2. k.todo[i] = i /\ i \in 1 .. Len(k.todo)
          BY <2>2, <5>1
        <5>. QED
          BY <1>1, <5>1, <5>2 DEF Mapped
    <3>. QED
      BY <3>1, <3>2
  <2>5. ASSUME NEW x \in Mapped(k) PROVE x \in base .. base + n - 1
    BY <1>1, <1>3, <2>2, SMTT(30) DEF Mapped
  <2>. QED
    BY <2>3, <2>4, <2>5
<1>. QED
  BY <1>2, <1>3

\* What is where in two sequences, one after the other.
LEMMA Appended ==
  ASSUME NEW s \in Seq(Nat), NEW e \in Seq(Nat)
  PROVE  /\ Len(s \o e) = Len(s) + Len(e)
         /\ \A i \in 1 .. Len(s) + Len(e) :
              (s \o e)[i] = IF i <= Len(s) THEN s[i] ELSE e[i - Len(s)]
BY SMTT(30)

\* vfree gives back the whole range, guards included.
LEMMA VfreeCovers ==
  ASSUME NEW base \in Nat, NEW pages \in Nat,
         NEW k, k = [at |-> "release", base |-> base, pages |-> pages, todo |-> VfreeOrder(pages)]
  PROVE  InRange(k) /\ \A x : x \in Mapped(k) <=> x \in Extent(base, pages)
<1>1. k.at = "release" /\ k.base = base /\ k.pages = pages /\ k.todo = VfreeOrder(pages)
  OBVIOUS
<1>2. /\ Len(k.todo) = pages + 2
      /\ \A i \in 1 .. pages + 2 :
           k.todo[i] = IF i <= pages THEN i ELSE IF i = pages + 1 THEN 0 ELSE pages + 1
  <2> DEFINE s == [i \in 1 .. pages |-> i]
             e == <<0, pages + 1>>
  <2>1. s \in Seq(Nat) /\ Len(s) = pages /\ \A i \in 1 .. pages : s[i] = i
    BY SMTT(30)
  <2>2. e \in Seq(Nat) /\ Len(e) = 2 /\ e[1] = 0 /\ e[2] = pages + 1
    BY SMTT(30)
  <2>3. k.todo = s \o e
    BY <1>1 DEF VfreeOrder
  <2> HIDE DEF s, e
  <2>4. Len(s \o e) = pages + 2
    BY <2>1, <2>2, Appended
  <2>5. \A i \in 1 .. pages + 2 : (s \o e)[i] = IF i <= pages THEN s[i] ELSE e[i - pages]
    BY <2>1, <2>2, Appended
  <2>7. \A i \in 1 .. pages + 2 :
          (s \o e)[i] = IF i <= pages THEN i ELSE IF i = pages + 1 THEN 0 ELSE pages + 1
    <3> SUFFICES ASSUME NEW i \in 1 .. pages + 2
                 PROVE  (s \o e)[i] = IF i <= pages THEN i
                                      ELSE IF i = pages + 1 THEN 0 ELSE pages + 1
      OBVIOUS
    <3>1. CASE i <= pages
      BY <2>1, <2>5, <3>1, SMTT(30)
    <3>2. CASE i = pages + 1
      <4>1. i - pages = 1 /\ ~(i <= pages)
        BY <3>2, SMTT(30)
      <4>2. (s \o e)[i] = e[1]
        BY <2>5, <4>1
      <4>. QED
        BY <2>2, <3>2, <4>1, <4>2
    <3>3. CASE i = pages + 2
      <4>1. i - pages = 2 /\ ~(i <= pages) /\ i # pages + 1
        BY <3>3, SMTT(30)
      <4>2. (s \o e)[i] = e[2]
        BY <2>5, <4>1
      <4>. QED
        BY <2>2, <3>3, <4>1, <4>2
    <3>4. i <= pages \/ i = pages + 1 \/ i = pages + 2
      BY SMTT(30)
    <3>. QED
      BY <3>1, <3>2, <3>3, <3>4
  <2>. QED
    BY <2>3, <2>4, <2>7
<1>3. InRange(k)
  BY <1>1, <1>2, SMTT(30) DEF InRange
<1>4. ASSUME NEW x \in Extent(base, pages) PROVE x \in Mapped(k)
  <2>1. PICK i \in 1 .. pages + 2 : x = base + k.todo[i]
    <3>1. x \in base .. base + pages + 1
      BY DEF Extent
    <3>2. CASE x = base
      BY <1>2, <3>2, SMTT(30)
    <3>3. CASE x = base + pages + 1
      BY <1>2, <3>3, SMTT(30)
    <3>4. CASE x # base /\ x # base + pages + 1
      <4>1. x - base \in 1 .. pages /\ x = base + (x - base)
        BY <3>1, <3>4, SMTT(30)
      <4>. QED
        BY <1>2, <4>1, SMTT(30)
    <3>. QED
      BY <3>2, <3>3, <3>4
  <2>. QED
    BY <1>1, <1>2, <2>1 DEF Mapped
<1>5. ASSUME NEW x \in Mapped(k) PROVE x \in Extent(base, pages)
  BY <1>1, <1>2, SMTT(30) DEF Mapped, Extent
<1>. QED
  BY <1>3, <1>4, <1>5

\* Giving back the next page leaves the others.
LEMMA TailCovers ==
  ASSUME NEW k \in FreeCall, InRange(k), k.todo # <<>>,
         NEW r, r = [k EXCEPT !.todo = Tail(@)]
  PROVE  /\ InRange(r) /\ k.base + Head(k.todo) \in Mapped(k)
         /\ \A x : x \in Mapped(r) <=> x \in Mapped(k) /\ x # k.base + Head(k.todo)
<1>1. /\ r.base = k.base /\ r.pages = k.pages /\ r.todo = Tail(k.todo)
      /\ r.at # "map" /\ k.at # "map" /\ k.base \in Nat /\ k.todo \in Seq(Nat)
  BY CallFields, NotIdle
<1>2. PICK s \in Seq(Nat) : s = k.todo /\ s # <<>>
  BY <1>1
<1>3. /\ Len(s) \in Nat /\ Len(s) >= 1 /\ Head(s) = s[1] /\ Len(Tail(s)) = Len(s) - 1
      /\ \A i \in 1 .. Len(s) - 1 : Tail(s)[i] = s[i + 1]
      /\ \A i \in 1 .. Len(s) : s[i] \in Nat
  BY <1>2, SMTT(30)
<1>4. \A i, j \in 1 .. Len(s) : s[i] <= k.pages + 1 /\ (s[i] = s[j] => i = j)
  BY <1>1, <1>2 DEF InRange
<1>5. InRange(r)
  <2> SUFFICES ASSUME NEW i \in 1 .. Len(s) - 1, NEW j \in 1 .. Len(s) - 1
               PROVE  /\ r.todo[i] <= r.pages + 1
                      /\ r.todo[i] = r.todo[j] => i = j
    <3>1. Len(r.todo) = Len(s) - 1
      BY <1>1, <1>2, <1>3
    <3>. QED
      BY <1>1, <3>1 DEF InRange
  <2>1. i + 1 \in 1 .. Len(s) /\ j + 1 \in 1 .. Len(s) /\ (i + 1 = j + 1 => i = j)
    BY <1>3, SMTT(30)
  <2>2. r.todo[i] = s[i + 1] /\ r.todo[j] = s[j + 1]
    BY <1>1, <1>2, <1>3
  <2>3. s[i + 1] <= k.pages + 1 /\ (s[i + 1] = s[j + 1] => i + 1 = j + 1)
    BY <1>4, <2>1
  <2>. QED
    BY <1>1, <2>1, <2>2, <2>3
<1>6. \A x : x \in Mapped(k) <=> \E i \in 1 .. Len(s) : x = k.base + s[i]
  BY <1>1, <1>2 DEF Mapped
<1>7. \A x : x \in Mapped(r) <=> \E i \in 1 .. Len(s) - 1 : x = k.base + s[i + 1]
  BY <1>1, <1>2, <1>3, SMTT(30) DEF Mapped
<1>8. ASSUME NEW x \in Mapped(k), x # k.base + s[1] PROVE x \in Mapped(r)
  <2>1. PICK i \in 1 .. Len(s) : x = k.base + s[i]
    BY <1>6
  <2>2. i - 1 \in 1 .. Len(s) - 1 /\ (i - 1) + 1 = i
    BY <1>3, <1>8, <2>1, SMTT(30)
  <2>. QED
    BY <1>7, <2>1, <2>2
<1>9. ASSUME NEW x \in Mapped(r) PROVE x \in Mapped(k) /\ x # k.base + s[1]
  <2>1. PICK i \in 1 .. Len(s) - 1 : x = k.base + s[i + 1]
    BY <1>7
  <2>2. i + 1 \in 1 .. Len(s) /\ i + 1 # 1 /\ 1 \in 1 .. Len(s)
    BY <1>3, SMTT(30)
  <2>3. s[i + 1] # s[1] /\ s[i + 1] \in Nat /\ s[1] \in Nat
    BY <1>3, <1>4, <2>2
  <2>. QED
    BY <1>1, <1>6, <2>1, <2>2, <2>3, SMTT(30)
<1>10. k.base + s[1] \in Mapped(k)
  BY <1>3, <1>6, SMTT(30)
<1>. QED
  BY <1>2, <1>3, <1>5, <1>8, <1>9, <1>10

Held(x) == \E a \in held : x \in Extent(a[1], a[2])

Others(x, t) == \E u \in Busy \ {t} : x \in Mapped(call[u])

\* A step of one call changes the pages behind that call only.
LEMMA CallBehind ==
  ASSUME VmaInv, NEW t \in Task, NEW r, call'[t] = r, \A u \in Task \ {t} : call'[u] = call[u]
  PROVE  /\ \A x : Behind(x) <=> Held(x) \/ (call[t] # Idle /\ x \in Mapped(call[t])) \/ Others(x, t)
         /\ \A x : Behind(x)' <=> Held(x)' \/ (r # Idle /\ x \in Mapped(r)) \/ Others(x, t)
         /\ (r # Idle => InRange(r)) => \A u \in Busy' : InRange(call'[u])
<1>1. \A x : Behind(x) <=> Held(x) \/ (call[t] # Idle /\ x \in Mapped(call[t])) \/ Others(x, t)
  BY DEF Behind, Held, Others, Busy
<1>2. \A u : u \in Busy' \ {t} <=> u \in Busy \ {t}
  BY DEF Busy
<1>3. \A x : Others(x, t)' <=> Others(x, t)
  BY <1>2 DEF Others, Busy
<1>4. \A x : Behind(x)' <=> Held(x)' \/ (r # Idle /\ x \in Mapped(r)) \/ Others(x, t)'
  BY DEF Behind, Held, Others, Busy
<1>5. ASSUME r # Idle => InRange(r) PROVE \A u \in Busy' : InRange(call'[u])
  BY <1>2, <1>5 DEF VmaInv, Busy
<1>. QED
  BY <1>1, <1>3, <1>4, <1>5

\* The pages of a call's range are the call's.
LEMMA OwnPages ==
  ASSUME SpaceInv, VmaInv, NEW t \in Task, call[t] # Idle,
         NEW x \in Extent(call[t].base, call[t].pages)
  PROVE  ~Held(x) /\ ~Others(x, t)
<1>1. x \in Int /\ Owns("call", t, x)
  <2>1. call[t].base \in Nat /\ call[t].pages \in Nat
    BY NotIdle DEF SpaceInv, CallType
  <2>. QED
    BY <2>1, SMTT(30) DEF Owns, Busy, Extent
<1>2. \A l, p : Owns(l, p, x) => l = "call" /\ p = t
  BY <1>1 DEF SpaceInv, Apart
<1>3. ~Held(x)
  BY <1>2, SMTT(30) DEF Held, Owns
<1>4. ASSUME NEW u \in Busy \ {t}, x \in Mapped(call[u]) PROVE FALSE
  <2>1. u \in Task /\ call[u] \in MapCall \cup FreeCall /\ InRange(call[u])
    BY DEF SpaceInv, CallType, Busy, VmaInv
  <2>2. x \in Extent(call[u].base, call[u].pages)
    BY <1>4, <2>1, MappedInExtent
  <2>3. Owns("call", u, x)
    BY <2>2 DEF Owns
  <2>. QED
    BY <1>2, <2>3
<1>. QED
  BY <1>3, <1>4 DEF Others

\* The page vmalloc is about to map has no VMA yet.
LEMMA FreshPage ==
  ASSUME SpaceInv, VmaInv, NEW t \in Task, call[t] \in MapCall
  PROVE  LET va == call[t].base + call[t].n
         IN  /\ va \in Int /\ va \notin vmas /\ InRange(call[t]) /\ call[t].n <= call[t].pages + 1
             /\ va \in Extent(call[t].base, call[t].pages)
<1> DEFINE va == call[t].base + call[t].n
<1>1. /\ call[t].base \in Nat /\ call[t].pages \in Nat /\ call[t].n \in Nat
      /\ call[t].at = "map" /\ call[t] # Idle
  BY NotIdle
<1>2. InRange(call[t]) /\ call[t].n <= call[t].pages + 1
  <2>1. InRange(call[t])
    BY <1>1 DEF VmaInv, Busy
  <2>. QED
    BY <1>1, <2>1 DEF InRange
<1>3. va \in Int /\ va \in Extent(call[t].base, call[t].pages)
  BY <1>1, <1>2, SMTT(30) DEF Extent
<1>4. va \notin Mapped(call[t])
  BY <1>1, SMTT(30) DEF Mapped
<1>5. ~Held(va) /\ ~Others(va, t)
  BY <1>1, <1>3, OwnPages
<1>6. ~Behind(va)
  BY <1>4, <1>5 DEF Behind, Held, Others
<1>. QED
  BY <1>2, <1>3, <1>6 DEF VmaInv

\* vmalloc maps a page of its range.
LEMMA MapKeepsVmas ==
  ASSUME SpaceInv, VmaInv, NEW t \in Task, MapNext(t), NEW va,
         va = call[t].base + call[t].n, vmas' = vmas \cup {va}
  PROVE  VmaInv'
<1>0. call[t] \in MapCall /\ CallType
  BY CallKind DEF SpaceInv, MapNext
<1>1. PICK k : k = call[t]
  OBVIOUS
<1>2. /\ k \in MapCall /\ k.base \in Nat /\ k.pages \in Nat /\ k.n \in Nat
      /\ k.at = "map" /\ k # Idle /\ k.n <= k.pages + 1 /\ va = k.base + k.n
  BY <1>0, <1>1, NotIdle, FreshPage
<1>3. \A x : x \in Mapped(k) <=> x \in k.base .. k.base + k.n - 1
  BY <1>2 DEF Mapped
<1>4. CASE /\ held' = held \cup {<<k.base, k.pages>>}
           /\ call' = [call EXCEPT ![t] = Idle] /\ k.n = k.pages + 1
  <2>1. call'[t] = Idle /\ \A u \in Task \ {t} : call'[u] = call[u]
    BY <1>0, <1>4, CallSet
  <2>2. /\ \A x : Behind(x) <=> Held(x) \/ x \in Mapped(k) \/ Others(x, t)
        /\ \A x : Behind(x)' <=> Held(x)' \/ Others(x, t)
        /\ \A u \in Busy' : InRange(call'[u])
    BY <1>1, <1>2, <2>1, CallBehind
  <2>3. \A x : Held(x)' <=> Held(x) \/ x \in Extent(k.base, k.pages)
    <3>1. PICK a : a = <<k.base, k.pages>>
      OBVIOUS
    <3>2. a[1] = k.base /\ a[2] = k.pages /\ held' = held \cup {a}
      BY <1>4, <3>1
    <3>. QED
      BY <3>2 DEF Held
  <2>4. \A x : x \in Extent(k.base, k.pages) <=> x \in Mapped(k) \/ x = va
    BY <1>2, <1>3, <1>4, SMTT(30) DEF Extent
  <2>. QED
    BY <2>2, <2>3, <2>4 DEF VmaInv
<1>5. CASE call' = [call EXCEPT ![t].n = @ + 1] /\ UNCHANGED held /\ k.n # k.pages + 1
  <2>1. PICK r : r = [k EXCEPT !.n = @ + 1]
    OBVIOUS
  <2>2. /\ r \in MapCall /\ r.base = k.base /\ r.pages = k.pages /\ r.n = k.n + 1
        /\ r.at = "map" /\ r # Idle
    BY <1>2, <2>1, CallFields, NotIdle
  <2>3. call' = [call EXCEPT ![t] = r]
    BY <1>1, <1>5, <2>1
  <2>4. call'[t] = r /\ \A u \in Task \ {t} : call'[u] = call[u]
    BY <1>0, <2>2, <2>3, CallSet
  <2>5. InRange(r)
    BY <1>2, <1>5, <2>2, SMTT(30) DEF InRange
  <2>6. /\ \A x : Behind(x) <=> Held(x) \/ x \in Mapped(k) \/ Others(x, t)
        /\ \A x : Behind(x)' <=> Held(x)' \/ x \in Mapped(r) \/ Others(x, t)
        /\ \A u \in Busy' : InRange(call'[u])
    BY <1>1, <1>2, <2>2, <2>4, <2>5, CallBehind
  <2>7. \A x : x \in Mapped(r) <=> x \in Mapped(k) \/ x = va
    BY <1>2, <1>3, <2>2, SMTT(30) DEF Mapped
  <2>8. \A x : Held(x)' <=> Held(x)
    BY <1>5 DEF Held
  <2>. QED
    BY <2>6, <2>7, <2>8 DEF VmaInv
<1>. QED
  BY <1>1, <1>4, <1>5 DEF MapNext

\* A call that begins has mapped nothing.
LEMMA FindKeepsVmas ==
  ASSUME SpaceInv, VmaInv, NEW t \in Task, NEW pages \in Sizes, FindFreeSpace(t, pages)
  PROVE  VmaInv'
<1>1. call[t] = Idle /\ UNCHANGED <<held, vmas>> /\ CallType /\ pages \in Nat
  BY VmallocConstants DEF FindFreeSpace, mapping, SpaceInv
<1>2. PICK base : call' = [call EXCEPT ![t] = [at |-> "map", base |-> base,
                                               pages |-> pages, n |-> 0]]
  BY DEF FindFreeSpace
<1>3. PICK r : r = [at |-> "map", base |-> base, pages |-> pages, n |-> 0]
  OBVIOUS
<1>4. call'[t] = r /\ \A u \in Task \ {t} : call'[u] = call[u]
  BY <1>1, <1>2, <1>3 DEF CallType
<1>5. call'[t] \in {Idle} \cup MapCall \cup FreeCall
  <2>1. SpaceInv'
    BY FindKeepsSpace
  <2>. QED
    BY <2>1 DEF SpaceInv, CallType
<1>6. r.at = "map" /\ r.base = base /\ r.pages = pages /\ r.n = 0
  BY <1>3
<1>7. base \in Nat
  BY <1>4, <1>5, <1>6, NotIdle
<1>8. InRange(r) /\ \A x : x \notin Mapped(r)
  BY <1>1, <1>6, <1>7, SMTT(30) DEF InRange, Mapped
<1>9. /\ \A x : Behind(x) <=> Held(x) \/ Others(x, t)
      /\ \A x : Behind(x)' <=> Held(x)' \/ Others(x, t)
      /\ \A u \in Busy' : InRange(call'[u])
  BY <1>1, <1>4, <1>8, CallBehind
<1>10. \A x : Held(x)' <=> Held(x)
  BY <1>1 DEF Held
<1>. QED
  BY <1>1, <1>9, <1>10 DEF VmaInv

\* A call that gets no page gives back what it has.
LEMMA NoPageKeepsVmas ==
  ASSUME SpaceInv, VmaInv, NEW t \in Task, NoPage(t)
  PROVE  VmaInv'
<1>0. call[t] \in MapCall /\ CallType /\ UNCHANGED <<held, vmas>>
  BY CallKind DEF SpaceInv, NoPage, mapping
<1>1. PICK k : k = call[t]
  OBVIOUS
<1>2. /\ k \in MapCall /\ k.base \in Nat /\ k.pages \in Nat /\ k.n \in Nat
      /\ k.at = "map" /\ k # Idle /\ k.n <= k.pages + 1
  BY <1>0, <1>1, NotIdle, FreshPage
<1>3. PICK r : r = [at |-> "unwind", base |-> k.base, pages |-> k.pages, todo |-> Unwind(k.n)]
  OBVIOUS
<1>4. r \in FreeCall /\ r # Idle
  BY <1>2, <1>3, CallFields, NotIdle
<1>5. call' = [call EXCEPT ![t] = r]
  BY <1>1, <1>3 DEF NoPage
<1>6. call'[t] = r /\ \A u \in Task \ {t} : call'[u] = call[u]
  BY <1>0, <1>4, <1>5, CallSet
<1>7. InRange(r) /\ \A x : x \in Mapped(r) <=> x \in k.base .. k.base + k.n - 1
  BY <1>2, <1>3, UnwindCovers, SMTT(30)
<1>8. \A x : x \in Mapped(r) <=> x \in Mapped(k)
  BY <1>2, <1>7 DEF Mapped
<1>9. /\ \A x : Behind(x) <=> Held(x) \/ x \in Mapped(k) \/ Others(x, t)
      /\ \A x : Behind(x)' <=> Held(x)' \/ x \in Mapped(r) \/ Others(x, t)
      /\ \A u \in Busy' : InRange(call'[u])
  BY <1>1, <1>2, <1>4, <1>6, <1>7, CallBehind
<1>10. \A x : Held(x)' <=> Held(x)
  BY <1>0 DEF Held
<1>. QED
  BY <1>0, <1>8, <1>9, <1>10 DEF VmaInv

\* vfree takes over what was held.
LEMMA VfreeKeepsVmas ==
  ASSUME SpaceInv, VmaInv, NEW t \in Task, Vfree(t)
  PROVE  VmaInv'
<1>0. call[t] = Idle /\ CallType /\ vmas' = vmas
  BY DEF SpaceInv, Vfree, mapping
<1>1. PICK a \in held :
        /\ held' = held \ {a}
        /\ call' = [call EXCEPT ![t] = [at |-> "release", base |-> a[1],
                      pages |-> a[2], todo |-> VfreeOrder(a[2])]]
  BY DEF Vfree
<1>2. a[1] \in Nat /\ a[2] \in Nat
  BY <1>0 DEF CallType
<1>3. PICK r : r = [at |-> "release", base |-> a[1], pages |-> a[2], todo |-> VfreeOrder(a[2])]
  OBVIOUS
<1>4. r \in FreeCall /\ r # Idle
  BY <1>2, <1>3, CallFields, NotIdle
<1>5. call' = [call EXCEPT ![t] = r]
  BY <1>1, <1>3
<1>6. call'[t] = r /\ \A u \in Task \ {t} : call'[u] = call[u]
  BY <1>0, <1>4, <1>5, CallSet
<1>7. InRange(r) /\ \A x : x \in Mapped(r) <=> x \in Extent(a[1], a[2])
  BY <1>2, <1>3, VfreeCovers
<1>8. /\ \A x : Behind(x) <=> Held(x) \/ Others(x, t)
      /\ \A x : Behind(x)' <=> Held(x)' \/ x \in Mapped(r) \/ Others(x, t)
      /\ \A u \in Busy' : InRange(call'[u])
  BY <1>0, <1>4, <1>6, <1>7, CallBehind
<1>9. \A x : Held(x) <=> Held(x)' \/ x \in Extent(a[1], a[2])
  BY <1>1 DEF Held
<1>. QED
  BY <1>0, <1>7, <1>8, <1>9 DEF VmaInv

\* A page that is given back was mapped, and is nobody else's.
LEMMA ReleaseKeepsVmas ==
  ASSUME SpaceInv, VmaInv, NEW t \in Task, ReleasePage(t),
         NEW va, va = call[t].base + Head(call[t].todo)
  PROVE  VmaInv' /\ va \in vmas
<1>0. call[t] \in FreeCall /\ CallType /\ held' = held /\ call[t].todo # <<>> /\ call[t] # Idle
  BY CallKind DEF SpaceInv, ReleasePage
<1>1. PICK k : k = call[t]
  OBVIOUS
<1>2. k \in FreeCall /\ k # Idle /\ k.todo # <<>> /\ InRange(k) /\ va = k.base + Head(k.todo)
  BY <1>0, <1>1 DEF VmaInv, Busy
<1>3. PICK r : r = [k EXCEPT !.todo = Tail(@)]
  OBVIOUS
<1>4. r \in FreeCall /\ r # Idle
  BY <1>2, <1>3, CallFields, NotIdle
<1>5. call' = [call EXCEPT ![t] = r]
  BY <1>1, <1>3 DEF ReleasePage
<1>6. call'[t] = r /\ \A u \in Task \ {t} : call'[u] = call[u]
  BY <1>0, <1>4, <1>5, CallSet
<1>7. /\ InRange(r) /\ va \in Mapped(k)
      /\ \A x : x \in Mapped(r) <=> x \in Mapped(k) /\ x # va
  BY <1>2, <1>3, TailCovers
<1>8. /\ \A x : Behind(x) <=> Held(x) \/ x \in Mapped(k) \/ Others(x, t)
      /\ \A x : Behind(x)' <=> Held(x)' \/ x \in Mapped(r) \/ Others(x, t)
      /\ \A u \in Busy' : InRange(call'[u])
  BY <1>1, <1>2, <1>4, <1>6, <1>7, CallBehind
<1>9. ~Held(va) /\ ~Others(va, t)
  <2>1. va \in Extent(k.base, k.pages)
    BY <1>2, <1>7, MappedInExtent
  <2>. QED
    BY <1>0, <1>1, <2>1, OwnPages
<1>10. \A x : Held(x)' <=> Held(x)
  BY <1>0 DEF Held
<1>11. vmas' = vmas \ {va}
  BY DEF ReleasePage
<1>12. va \in vmas
  BY <1>7, <1>8 DEF VmaInv
<1>. QED
  BY <1>7, <1>8, <1>9, <1>10, <1>11, <1>12 DEF VmaInv

\* A range that goes back has no page left.
LEMMA AddKeepsVmas ==
  ASSUME SpaceInv, VmaInv, NEW t \in Task, AddFreeSpace(t)
  PROVE  VmaInv'
<1>0. /\ call[t] \in FreeCall /\ CallType /\ UNCHANGED <<held, vmas>>
      /\ call[t].todo = <<>> /\ call[t] # Idle
      /\ call' = [call EXCEPT ![t] = Idle]
  BY CallKind DEF SpaceInv, AddFreeSpace, mapping
<1>1. call'[t] = Idle /\ \A u \in Task \ {t} : call'[u] = call[u]
  BY <1>0, CallSet
<1>2. \A x : x \notin Mapped(call[t])
  BY <1>0, NotIdle, SMTT(30) DEF Mapped
<1>3. /\ \A x : Behind(x) <=> Held(x) \/ Others(x, t)
      /\ \A x : Behind(x)' <=> Held(x)' \/ Others(x, t)
      /\ \A u \in Busy' : InRange(call'[u])
  BY <1>1, <1>2, CallBehind
<1>4. \A x : Held(x)' <=> Held(x)
  BY <1>0 DEF Held
<1>. QED
  BY <1>0, <1>3, <1>4 DEF VmaInv

\* vmm_map of a fresh address turns one free page into one behind a VMA.
LEMMA MapCounts ==
  ASSUME CountInv, NEW va \in Int, va \notin vmas, memory.frames # 0, VmmMap(va), ~relinked',
         pages_total' = pages_total
  PROVE  CountInv' /\ vmas' = vmas \cup {va}
<1>1. PICK m : m = [memory EXCEPT !.frames = memory.frames - 1]
  OBVIOUS
<1>2. vmas' = vmas \cup {va} /\ memory' = MapPage(m, va, "mapped")
  BY <1>1 DEF VmmMap
<1>3. TableInv(memory) /\ memory.frames \in Nat /\ memory.frames - 1 \in Nat
  BY SMTT(30) DEF CountInv, TableInv
<1>4. TableInv(m) /\ m.tables = memory.tables /\ m.frames = memory.frames - 1
  <2>1. IsMemory(m) /\ m.tables = memory.tables /\ m.frames = memory.frames - 1
    BY <1>1, <1>3, FramesFields DEF TableInv
  <2>. QED
    BY <1>3, <2>1 DEF TableInv
<1>5. /\ TableInv(memory')
      /\ memory'.frames + Cardinality(memory'.tables) = m.frames + Cardinality(m.tables)
  BY <1>2, <1>4, MapPageCounts
<1>6. IsFiniteSet(vmas') /\ Cardinality(vmas') = Cardinality(vmas) + 1
  BY <1>2, FS_AddElement DEF CountInv
<1>7. /\ Cardinality(vmas) \in Nat /\ Cardinality(memory.tables) \in Nat
      /\ Cardinality(memory'.tables) \in Nat /\ memory'.frames \in Nat
  BY <1>3, <1>5, FS_CardinalityType DEF CountInv, TableInv
<1>8. memory'.frames + Cardinality(vmas') + Cardinality(memory'.tables) = pages_total + 1
  <2>1. ASSUME NEW f \in Nat, NEW g \in Nat, NEW c \in Nat, NEW d \in Nat, NEW v \in Nat,
               g + d = (f - 1) + c
        PROVE  g + (v + 1) + d = f + v + c
    BY <2>1, SMTT(30)
  <2>2. memory'.frames + Cardinality(memory'.tables) =
          (memory.frames - 1) + Cardinality(memory.tables)
    BY <1>4, <1>5
  <2>3. memory'.frames + (Cardinality(vmas) + 1) + Cardinality(memory'.tables) =
          memory.frames + Cardinality(vmas) + Cardinality(memory.tables)
    BY <1>3, <1>7, <2>1, <2>2, SMTT(30)
  <2>. QED
    BY <1>6, <2>3 DEF CountInv
<1>. QED
  BY <1>2, <1>5, <1>6, <1>8 DEF CountInv

\* A page that is given back turns from one behind a VMA into a free one.
LEMMA ReleaseCounts ==
  ASSUME CountInv, NEW t \in Task, ReleasePage(t),
         NEW va, va = call[t].base + Head(call[t].todo), va \in vmas
  PROVE  CountInv'
<1>1. PICK m : m = UnmapPage(memory, va)
  OBVIOUS
<1>2. /\ memory' = [m EXCEPT !.frames = m.frames + 1]
      /\ vmas' = vmas \ {va} /\ pages_total' = pages_total
  BY <1>1 DEF ReleasePage, VmmUnmap, Returned
<1>3. IsMemory(m) /\ m.tables = memory.tables /\ m.frames = memory.frames
  BY <1>1, UnmapPageFields DEF CountInv, TableInv, IsUnmapped
<1>4. IsMemory(memory') /\ memory'.tables = memory.tables /\ memory'.frames = memory.frames + 1
  BY <1>2, <1>3, FramesFields, SMTT(30)
<1>5. TableInv(memory') /\ memory.frames \in Nat
  BY <1>4, SMTT(30) DEF CountInv, TableInv
<1>6. IsFiniteSet(vmas') /\ Cardinality(vmas') = Cardinality(vmas) - 1
  <2>1. IsFiniteSet(vmas)
    BY DEF CountInv
  <2>2. IsFiniteSet(vmas \ {va}) /\ Cardinality(vmas \ {va}) = Cardinality(vmas) - 1
    BY <2>1, FS_RemoveElement
  <2>. QED
    BY <1>2, <2>2
<1>7. Cardinality(vmas) \in Nat /\ Cardinality(memory.tables) \in Nat
  BY FS_CardinalityType DEF CountInv, TableInv
<1>8. memory'.frames + Cardinality(vmas') + Cardinality(memory'.tables) = pages_total + 1
  BY <1>4, <1>5, <1>6, <1>7, SMTT(30) DEF CountInv
<1>. QED
  BY <1>2, <1>5, <1>6, <1>8 DEF CountInv

UnmergedPages == ~merged /\ ~relinked => VmaInv /\ CountInv

\* At the start every page is free but for the L1 table of the area.
LEMMA InitPages ==
  ASSUME Init
  PROVE  VmaInv /\ CountInv
<1>1. /\ memory.tables = {Table(1, Start)} /\ memory.frames = pages_total
      /\ IsMemory(memory)
  <2>1. memory = [tables |-> {Table(1, Start)}, entry |-> <<>>, frames |-> pages_total]
    BY DEF Init, NoTables
  <2>. QED
    BY <2>1 DEF IsMemory
<1>2. Busy = {} /\ held = {} /\ vmas = {}
  BY DEF Init, Busy
<1>3. VmaInv
  BY <1>2 DEF VmaInv, Behind
<1>4. pages_total \in Nat /\ Start \in Int
  BY VmallocConstants, SMTT(30) DEF Init
<1>5. Closed(memory.tables)
  BY <1>1, <1>4, TablesOf DEF Closed
<1>6. /\ IsFiniteSet(vmas) /\ Cardinality(vmas) = 0
      /\ IsFiniteSet(memory.tables) /\ Cardinality(memory.tables) = 1
  <2>1. IsFiniteSet(vmas) /\ Cardinality(vmas) = 0
    BY <1>2, FS_EmptySet
  <2>2. IsFiniteSet(memory.tables) /\ Cardinality(memory.tables) = 1
    BY <1>1, FS_Singleton
  <2>. QED
    BY <2>1, <2>2
<1>. QED
  BY <1>1, <1>3, <1>4, <1>5, <1>6, SMTT(30) DEF CountInv, TableInv

\* A step of anything else leaves the pages alone.
LEMMA OtherKeepsPages ==
  ASSUME UnmergedPages, UNCHANGED <<mapping, call, held, merged>>
  PROVE  UnmergedPages'
<1>1. VmaInv => VmaInv'
  BY DEF VmaInv, mapping, Behind, Busy
<1>2. CountInv => CountInv'
  BY DEF CountInv, TableInv, mapping, Closed
<1>. QED
  BY <1>1, <1>2 DEF UnmergedPages, mapping

\* Every page stays accounted for.
LEMMA NextKeepsPages ==
  ASSUME UnmergedSpace, UnmergedPages, [Next]_vars
  PROVE  UnmergedPages'
<1> SUFFICES ASSUME ~merged', ~relinked' PROVE VmaInv' /\ CountInv'
  BY DEF UnmergedPages
<1>0. CountInv /\ UNCHANGED mapping => CountInv'
  BY DEF CountInv, TableInv, mapping, Closed
<1>1. CASE UNCHANGED vars
  BY <1>1, OtherKeepsPages DEF UnmergedPages, vars
<1>2. ASSUME NEW t \in Task, NEW pages \in Sizes, FindFreeSpace(t, pages)
      PROVE  VmaInv' /\ CountInv'
  <2>1. SpaceInv /\ VmaInv /\ CountInv /\ UNCHANGED mapping
    BY <1>2 DEF UnmergedSpace, UnmergedPages, FindFreeSpace, Running
  <2>. QED
    BY <1>0, <1>2, <2>1, FindKeepsVmas
<1>3. ASSUME NEW t \in Task, MapNext(t) PROVE VmaInv' /\ CountInv'
  <2>1. SpaceInv /\ VmaInv /\ CountInv /\ pages_total' = pages_total /\ memory.frames # 0
    BY <1>3 DEF UnmergedSpace, UnmergedPages, MapNext, Running
  <2>2. PICK va : va = call[t].base + call[t].n
    OBVIOUS
  <2>3. VmmMap(va)
    BY <1>3, <2>2 DEF MapNext
  <2>4. call[t] \in MapCall
    BY <1>3, <2>1, CallKind DEF SpaceInv, MapNext
  <2>5. va \in Int /\ va \notin vmas
    BY <2>1, <2>2, <2>4, FreshPage
  <2>6. CountInv' /\ vmas' = vmas \cup {va}
    BY <2>1, <2>3, <2>5, MapCounts
  <2>. QED
    BY <1>3, <2>1, <2>2, <2>6, MapKeepsVmas
<1>4. ASSUME NEW t \in Task, NoPage(t) PROVE VmaInv' /\ CountInv'
  <2>1. SpaceInv /\ VmaInv /\ CountInv /\ UNCHANGED mapping
    BY <1>4 DEF UnmergedSpace, UnmergedPages, NoPage, Running
  <2>. QED
    BY <1>0, <1>4, <2>1, NoPageKeepsVmas
<1>5. ASSUME NEW t \in Task, Vfree(t) PROVE VmaInv' /\ CountInv'
  <2>1. SpaceInv /\ VmaInv /\ CountInv /\ UNCHANGED mapping
    BY <1>5 DEF UnmergedSpace, UnmergedPages, Vfree, Running
  <2>. QED
    BY <1>0, <1>5, <2>1, VfreeKeepsVmas
<1>6. ASSUME NEW t \in Task, ReleasePage(t) PROVE VmaInv' /\ CountInv'
  <2>1. SpaceInv /\ VmaInv /\ CountInv
    BY <1>6 DEF UnmergedSpace, UnmergedPages, ReleasePage, Running
  <2>2. PICK va : va = call[t].base + Head(call[t].todo)
    OBVIOUS
  <2>3. VmaInv' /\ va \in vmas
    BY <1>6, <2>1, <2>2, ReleaseKeepsVmas
  <2>. QED
    BY <1>6, <2>1, <2>2, <2>3, ReleaseCounts
<1>7. ASSUME NEW t \in Task, AddFreeSpace(t) PROVE VmaInv' /\ CountInv'
  <2>1. SpaceInv /\ VmaInv /\ CountInv /\ UNCHANGED mapping
    BY <1>7 DEF UnmergedSpace, UnmergedPages, AddFreeSpace, Running
  <2>. QED
    BY <1>0, <1>7, <2>1, AddKeepsVmas
<1>8. CASE MergeIntoCur \/ MergeIntoNext
  BY <1>8 DEF MergeIntoCur, MergeIntoNext
<1>9. CASE Advance \/ NextCur
  BY <1>9, OtherKeepsPages DEF UnmergedPages, Advance, NextCur
<1>. QED
  BY <1>1, <1>2, <1>3, <1>4, <1>5, <1>6, <1>7, <1>8, <1>9 DEF Next

\* As long as no blocks were merged and the pool of VMA nodes lasts: no page of
\* the PMM is lost or given back twice, whichever calls fail half way, and an
\* allocation that was handed out has all of its pages.
THEOREM EveryPageAccounted == Spec => []PagesAccounted
<1>1. Init => UnmergedPages
  BY InitPages DEF UnmergedPages
<1>2. UnmergedSpace /\ UnmergedPages /\ [Next]_vars => UnmergedPages'
  BY NextKeepsPages
<1>3. UnmergedSpace /\ UnmergedPages => PagesAccounted
  <2> SUFFICES ASSUME SpaceInv, VmaInv, CountInv, ~merged, ~relinked PROVE PagesAccounted
    BY DEF UnmergedSpace, UnmergedPages, PagesAccounted
  <2>1. \A a \in held : Extent(a[1], a[2]) \subseteq vmas
    BY DEF VmaInv, Behind
  <2>2. ASSUME NEW x \in vmas PROVE \E a \in InUse : x \in Extent(a[1], a[2])
    <3>1. CASE \E a \in held : x \in Extent(a[1], a[2])
      BY <3>1 DEF InUse
    <3>2. CASE \E t \in Busy : x \in Mapped(call[t])
      <4>1. PICK t \in Busy : x \in Mapped(call[t])
        BY <3>2
      <4>2. call[t] \in MapCall \cup FreeCall /\ InRange(call[t])
        BY DEF SpaceInv, CallType, Busy, VmaInv
      <4>3. x \in Extent(call[t].base, call[t].pages)
        BY <4>1, <4>2, MappedInExtent
      <4>4. PICK a : a = <<call[t].base, call[t].pages>>
        OBVIOUS
      <4>5. a \in InUse /\ a[1] = call[t].base /\ a[2] = call[t].pages
        BY <4>4 DEF InUse
      <4>. QED
        BY <4>3, <4>5
    <3>. QED
      BY <3>1, <3>2 DEF VmaInv, Behind
  <2>3. vmas \subseteq UNION {Extent(a[1], a[2]) : a \in InUse}
    BY <2>2
  <2>. QED
    BY <2>1, <2>3 DEF PagesAccounted, CountInv
<1>. QED
  BY <1>1, <1>2, <1>3, SpaceShared, PTL DEF Spec
=============================================================================
