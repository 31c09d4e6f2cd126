----------------------------- MODULE PmmProofs -----------------------------
(***************************************************************************)
(* The free counter of the physical memory manager is exact and no page is *)
(* ever held twice, for every size of page, of RAM and of bitmap and every *)
(* set of reserved ranges.  And pmm_alloc_run with its loop implements the *)
(* one-step allocation of Pmm: ScanInv is inductive; when the run is long  *)
(* enough it says that the run is the lowest one, so that the marking is a *)
(* step of Pmm, and every other step of the loop is a stutter.  What is    *)
(* proved of Pmm therefore holds of the loop.                              *)
(***************************************************************************)
EXTENDS PmmScan, FiniteSetTheorems, TLAPS

\* Boot reserves before anything is handed out, the start of RAM included.
BootInv ==
  /\ todo # {} => held = {}
  /\ <<mem_base, LowSize>> \in todo \cup done

PmmInv == TypeOK /\ FreeCountExact /\ Exclusive /\ BootInv

-----------------------------------------------------------------------------
(* Arithmetic. *)

\* Division of natural numbers: quotient, remainder and the number they make.
LEMMA DivMod ==
  ASSUME NEW a \in Nat, NEW d \in Nat \ {0}
  PROVE  /\ a \div d \in Nat /\ a % d \in 0 .. d - 1
         /\ a = d * (a \div d) + (a % d)
  OBVIOUS

\* A multiple of d leaves no remainder, and dividing gives the factor back.
LEMMA MultMod ==
  ASSUME NEW k \in Nat, NEW d \in Nat \ {0}
  PROVE  (d * k) % d = 0 /\ (d * k) \div d = k
  OBVIOUS

\* Multiples of d are in the order of their factors.
LEMMA MultLess ==
  ASSUME NEW j \in Int, NEW k \in Int, NEW d \in Nat \ {0}, d * j < d * k
  PROVE  j < k
  OBVIOUS

\* Multiplication distributes over sums and differences.
LEMMA MultDist ==
  ASSUME NEW j \in Int, NEW k \in Int, NEW d \in Int
  PROVE  d * (j + k) = d * j + d * k /\ d * (j - k) = d * j - d * k
  OBVIOUS

\* align_down gives the last page boundary at or before an address.
LEMMA AlignDownIs ==
  ASSUME NEW a \in Nat
  PROVE  \E k \in Nat : AlignDown(a) = PageSize * k /\ PageSize * k <= a /\ a < PageSize * k + PageSize
<1>1. /\ a \div PageSize \in Nat
      /\ a % PageSize \in 0 .. PageSize - 1
      /\ a = PageSize * (a \div PageSize) + (a % PageSize)
  BY DivMod, PmmConstants
<1>2. AlignDown(a) = PageSize * (a \div PageSize)
  BY <1>1, PmmConstants DEF AlignDown
<1> DEFINE q == a \div PageSize
<1>3. q \in Nat /\ AlignDown(a) = PageSize * q /\ a \in Nat /\ PageSize * q \in Nat
  BY <1>1, <1>2, PmmConstants
<1>4. PageSize * q <= a /\ a < PageSize * q + PageSize
  BY <1>1, <1>3, PmmConstants
<1> HIDE DEF q
<1> QED BY <1>3, <1>4

\* align_up gives a page boundary at or after an address.
LEMMA AlignUpIs ==
  ASSUME NEW a \in Nat
  PROVE  \E k \in Nat : AlignUp(a) = PageSize * k /\ a <= PageSize * k
<1>1. a + PageSize - 1 \in Nat
  BY PmmConstants
<1>2. PICK k \in Nat : /\ AlignDown(a + PageSize - 1) = PageSize * k
                       /\ a + PageSize - 1 < PageSize * k + PageSize
  BY <1>1, AlignDownIs
<1>3. AlignUp(a) = PageSize * k
  BY <1>2 DEF AlignUp
<1>4. a <= PageSize * k
  <2>1. PageSize * k \in Nat
    BY PmmConstants
  <2> QED BY <1>2, <2>1, PmmConstants
<1> QED BY <1>3, <1>4

\* addr_to_page of a page boundary counts the pages from an aligned mem_base.
LEMMA AddrToPageIs ==
  ASSUME NEW m \in Nat, NEW k \in Nat, mem_base = PageSize * m, m <= k
  PROVE  AddrToPage(PageSize * k) = k - m
<1>1. PageSize * k - mem_base = PageSize * (k - m)
  BY MultDist, PmmConstants
<1>2. (PageSize * (k - m)) \div PageSize = k - m
  BY MultMod, PmmConstants
<1> QED BY <1>1, <1>2 DEF AddrToPage

\* reserve_range marks every managed page that shares a byte with the range.
LEMMA RangeCovers ==
  ASSUME TypeOK, NEW r \in Nat \X Nat, NEW p \in Pages, NEW b \in r[1] .. r[1] + r[2] - 1,
         mem_base + p * PageSize <= b, b < mem_base + (p + 1) * PageSize
  PROVE  p \in RangePages(r)
<1> DEFINE end    == r[1] + r[2]
           rstart == IF r[1] < mem_base THEN mem_base ELSE r[1]
           rend   == IF end > mem_base + mem_size THEN mem_base + mem_size ELSE end
<1>1. r[1] \in Nat /\ r[2] \in Nat /\ b \in Int /\ p \in Nat /\ p + 1 <= pages_total
  BY DEF TypeOK, Pages
<1>2. mem_base \in Nat /\ mem_size \in Nat /\ PageSize \in Nat \ {0} /\ pages_total \in Nat
  BY PmmConstants DEF TypeOK
<1>3. PICK m \in Nat : mem_base = PageSize * m
  <2>1. mem_base = PageSize * (mem_base \div PageSize) + (mem_base % PageSize)
    BY <1>2, DivMod
  <2>2. mem_base % PageSize = 0 /\ mem_base \div PageSize \in Nat
    BY <1>2, DivMod DEF TypeOK
  <2>3. mem_base = PageSize * (mem_base \div PageSize)
    BY <1>2, <2>1, <2>2
  <2> QED BY <2>2, <2>3
<1>4. /\ p * PageSize = PageSize * p
      /\ (p + 1) * PageSize = PageSize * (p + 1)
      /\ PageSize * (p + 1) = PageSize * p + PageSize
  BY <1>1, <1>2
<1>5. PageSize * (p + 1) <= mem_size /\ PageSize * p >= 0
  <2>1. PageSize * (p + 1) <= pages_total * PageSize
    BY <1>1, <1>2
  <2>2. pages_total * PageSize <= mem_size
    BY DEF TypeOK
  <2>3. pages_total * PageSize \in Int /\ PageSize * (p + 1) \in Int /\ PageSize * p \in Nat
    BY <1>1, <1>2
  <2> QED BY <1>2, <2>1, <2>2, <2>3
<1> HIDE DEF end, rstart, rend
<1>6. /\ rstart \in Nat /\ mem_base <= rstart /\ rstart <= b
      /\ rend \in Nat /\ b < rend
      /\ ~(r[2] = 0 \/ end <= mem_base \/ r[1] >= mem_base + mem_size)
  BY <1>1, <1>2, <1>4, <1>5 DEF end, rstart, rend
<1>7. PICK k \in Nat : AlignDown(rstart) = PageSize * k /\ PageSize * k <= rstart
                       /\ rstart < PageSize * k + PageSize
  BY <1>6, AlignDownIs
<1>8. PICK l \in Nat : AlignUp(rend) = PageSize * l /\ rend <= PageSize * l
  BY <1>6, AlignUpIs
<1>9. m <= k
  <2>1. PageSize * m < PageSize * (k + 1)
    BY <1>2, <1>3, <1>6, <1>7
  <2> QED BY <2>1, <1>2, MultLess
<1>10. k < m + (p + 1)
  <2>1. PageSize * k < PageSize * (m + (p + 1))
    <3>1. PageSize * (m + (p + 1)) = PageSize * m + PageSize * (p + 1)
      BY <1>1, <1>2, MultDist
    <3> QED BY <3>1, <1>1, <1>2, <1>3, <1>4, <1>6, <1>7
  <2> QED BY <2>1, <1>1, <1>2, MultLess
<1>11. m + p < l
  <2>1. PageSize * (m + p) < PageSize * l
    <3>1. PageSize * (m + p) = PageSize * m + PageSize * p
      BY <1>1, <1>2, MultDist
    <3> QED BY <3>1, <1>1, <1>2, <1>3, <1>4, <1>6, <1>8
  <2> QED BY <2>1, <1>1, <1>2, MultLess
<1>12. AddrToPage(AlignDown(rstart)) = k - m /\ AddrToPage(AlignUp(rend)) = l - m
  BY <1>1, <1>3, <1>7, <1>8, <1>9, <1>11, AddrToPageIs
<1>13. p \in (AddrToPage(AlignDown(rstart)) .. AddrToPage(AlignUp(rend)) - 1) \cap Pages
  BY <1>1, <1>10, <1>11, <1>12
<1> QED BY <1>6, <1>13 DEF RangePages, end, rstart, rend

-----------------------------------------------------------------------------
(* Boot. *)

\* The region pmm_init_from_dtb manages starts and ends on a page boundary.
LEMMA ManagedIs ==
  ASSUME NEW ram \in Nat \X Nat
  PROVE  /\ Managed(ram) \in Nat \X Nat
         /\ Managed(ram)[1] % PageSize = 0 /\ Managed(ram)[2] % PageSize = 0
<1> DEFINE r  == IF ram[2] = 0 THEN Fallback ELSE ram
           lo == AlignUp(r[1])
           hi == AlignDown(r[1] + r[2])
<1>1. r \in Nat \X Nat /\ r[1] \in Nat /\ r[1] + r[2] \in Nat
  BY PmmConstants
<1> HIDE DEF r
<1>2. PICK k \in Nat : lo = PageSize * k
  BY <1>1, AlignUpIs
<1>3. PICK l \in Nat : hi = PageSize * l
  BY <1>1, AlignDownIs
<1> HIDE DEF lo, hi
<1>4. CASE hi <= lo
  BY <1>4, PmmConstants DEF Managed, r, lo, hi
<1>5. CASE ~(hi <= lo)
  <2>1. k < l
    BY <1>2, <1>3, <1>5, PmmConstants, MultLess
  <2>2. hi - lo = PageSize * (l - k)
    BY <1>2, <1>3, MultDist, PmmConstants
  <2>3. lo % PageSize = 0 /\ (hi - lo) % PageSize = 0
    <3>1. l - k \in Nat /\ PageSize \in Nat \ {0}
      BY <2>1, PmmConstants
    <3>2. (PageSize * k) % PageSize = 0
      BY <3>1, MultMod, Zenon
    <3>3. (PageSize * (l - k)) % PageSize = 0
      BY <3>1, MultMod, Zenon
    <3> QED BY <1>2, <2>2, <3>2, <3>3, Zenon
  <2>4. lo \in Nat /\ hi - lo \in Nat
    BY <1>2, <1>3, <1>5, PmmConstants
  <2>5. Managed(ram) = <<lo, hi - lo>>
    BY <1>5 DEF Managed, r, lo, hi
  <2> QED BY <2>3, <2>4, <2>5
<1> QED BY <1>4, <1>5

\* The pages of the bitmap lie within the region, PMM_MAX_PAGES or not.
LEMMA PagesOfIs ==
  ASSUME NEW size \in Nat
  PROVE  PagesOf(size) \in Nat /\ PagesOf(size) * PageSize <= size
<1> DEFINE q == size \div PageSize
<1>1. q \in Nat /\ PageSize * q <= size
  <2>1. size % PageSize \in 0 .. PageSize - 1 /\ size = PageSize * q + (size % PageSize) /\ q \in Nat
    BY DivMod, PmmConstants
  <2>2. PageSize * q \in Nat
    BY <2>1, PmmConstants
  <2> QED BY <2>1, <2>2, PmmConstants
<1> HIDE DEF q
<1>2. PagesOf(size) = IF q > MaxPages THEN MaxPages ELSE q
  BY DEF PagesOf, q
<1>3. PagesOf(size) \in Nat /\ PagesOf(size) <= q
  BY <1>1, <1>2, PmmConstants
<1>4. PagesOf(size) * PageSize <= PageSize * q
  BY <1>1, <1>3, PmmConstants
<1> QED BY <1>1, <1>3, <1>4, PmmConstants

\* pmm_init_from_dtb establishes the invariant before it reserves anything.
LEMMA PmmInit == Init => PmmInv
<1> SUFFICES ASSUME Init PROVE PmmInv
  OBVIOUS
<1>1. PICK ram \in Rams, ranges \in SUBSET Ranges :
        /\ mem_base = Managed(ram)[1] /\ mem_size = Managed(ram)[2]
        /\ pages_total = PagesOf(mem_size) /\ pages_free = pages_total
        /\ bitmap = {} /\ todo = ranges \cup {<<mem_base, LowSize>>}
        /\ done = {} /\ held = {}
  BY DEF Init, LowRange
<1>2. ram \in Nat \X Nat /\ ranges \subseteq Nat \X Nat
  BY <1>1, PmmConstants
<1>3. /\ mem_base \in Nat /\ mem_base % PageSize = 0
      /\ mem_size \in Nat /\ mem_size % PageSize = 0
  BY <1>1, <1>2, ManagedIs
<1>4. pages_total \in Nat /\ pages_total * PageSize <= mem_size
  BY <1>1, <1>3, PagesOfIs
<1>5. todo \in SUBSET (Nat \X Nat)
  BY <1>1, <1>2, <1>3, PmmConstants
<1>6. TypeOK
  BY <1>1, <1>3, <1>4, <1>5 DEF TypeOK
<1>7. FreeCountExact
  BY <1>1, <1>4, FS_EmptySet DEF FreeCountExact
<1>8. Exclusive
  BY <1>1 DEF Exclusive
<1>9. BootInv
  BY <1>1 DEF BootInv
<1> QED BY <1>6, <1>7, <1>8, <1>9 DEF PmmInv

-----------------------------------------------------------------------------
(* The operations. *)

\* The managed region is fixed, and with it what a range covers.
SameRegion == UNCHANGED <<mem_base, mem_size, pages_total>>

\* With the region, the pages and what each range covers stay the same.
LEMMA RegionFixed ==
  ASSUME SameRegion
  PROVE  Pages' = Pages /\ \A r : RangePages(r)' = RangePages(r)
  BY DEF SameRegion, Pages, RangePages, AddrToPage, AlignUp, AlignDown

\* A set of managed pages is finite and no larger than pages_total.
LEMMA FinitePages ==
  ASSUME TypeOK
  PROVE  /\ IsFiniteSet(Pages) /\ Cardinality(Pages) = pages_total
         /\ \A S \in SUBSET Pages :
              IsFiniteSet(S) /\ Cardinality(S) \in Nat /\ Cardinality(S) <= pages_total
<1>1. pages_total \in Nat
  BY DEF TypeOK
<1>2. IsFiniteSet(Pages) /\ Cardinality(Pages) = pages_total
  BY <1>1, FS_Interval DEF Pages
<1> QED BY <1>2, FS_Subset, FS_CardinalityType

\* Marking clear pages and taking them off the counter keeps it exact.
LEMMA MarkCount ==
  ASSUME TypeOK, FreeCountExact, NEW new \in SUBSET Pages, new \cap bitmap = {}
  PROVE  /\ Cardinality(new) \in Nat /\ Cardinality(new) <= pages_free
         /\ Cardinality(bitmap \cup new) = Cardinality(bitmap) + Cardinality(new)
<1>1. bitmap \in SUBSET Pages /\ bitmap \cup new \in SUBSET Pages
  BY DEF TypeOK
<1>2. /\ IsFiniteSet(bitmap) /\ IsFiniteSet(new)
      /\ Cardinality(bitmap) \in Nat /\ Cardinality(new) \in Nat
      /\ Cardinality(bitmap \cup new) <= pages_total
  BY <1>1, FinitePages
<1>3. bitmap \cap new = {} /\ Cardinality({}) = 0
  BY FS_EmptySet
<1>4. Cardinality(bitmap \cup new) = Cardinality(bitmap) + Cardinality(new)
  <2>1. Cardinality(bitmap \cup new)
          = Cardinality(bitmap) + Cardinality(new) - Cardinality(bitmap \cap new)
    BY <1>2, FS_Union
  <2>2. Cardinality(bitmap \cap new) = 0
    BY <1>3, Zenon
  <2> QED BY <1>2, <2>1, <2>2
<1>5. pages_total \in Nat /\ pages_free = pages_total - Cardinality(bitmap)
  BY DEF TypeOK, FreeCountExact
<1> QED BY <1>2, <1>4, <1>5

\* reserve_range takes off the counter exactly the bits it sets, at boot, when
\* nothing is held.
LEMMA ReserveKeeps ==
  ASSUME PmmInv, NEW r \in todo, ReserveRange(r)
  PROVE  PmmInv'
<1> DEFINE new == RangePages(r) \ bitmap
<1>1. SameRegion /\ held' = held /\ held = {}
  BY DEF SameRegion, ReserveRange, PmmInv, BootInv
<1>2. Pages' = Pages /\ \A q : RangePages(q)' = RangePages(q)
  BY <1>1, RegionFixed
<1>3. new \in SUBSET Pages /\ new \cap bitmap = {}
  BY DEF RangePages
<1>4. bitmap' = bitmap \cup new /\ bitmap' = bitmap \cup RangePages(r)
      /\ todo' = todo \ {r} /\ done' = done \cup {r}
  BY DEF ReserveRange
<1>5. pages_free' = IF Cardinality(new) > pages_free THEN 0
                    ELSE pages_free - Cardinality(new)
  BY DEF ReserveRange
<1> HIDE DEF new
<1>6. /\ Cardinality(new) \in Nat /\ Cardinality(new) <= pages_free
      /\ Cardinality(bitmap') = Cardinality(bitmap) + Cardinality(new)
  BY <1>3, <1>4, MarkCount DEF PmmInv
<1>7. FreeCountExact' /\ pages_free' \in Nat
  <2>1. pages_free \in Nat /\ pages_total \in Nat /\ bitmap \in SUBSET Pages
    BY DEF PmmInv, TypeOK
  <2>2. Cardinality(bitmap) \in Nat
    BY <2>1, FinitePages DEF PmmInv
  <2>3. pages_free = pages_total - Cardinality(bitmap) /\ pages_total' = pages_total
    BY <1>1 DEF PmmInv, FreeCountExact, SameRegion
  <2> QED BY <1>5, <1>6, <2>1, <2>2, <2>3 DEF FreeCountExact
<1>8. TypeOK'
  <2>1. bitmap' \in SUBSET Pages /\ todo' \in SUBSET (Nat \X Nat)
        /\ done' \in SUBSET (Nat \X Nat)
    BY <1>3, <1>4 DEF PmmInv, TypeOK
  <2> QED BY <1>1, <1>2, <1>7, <2>1 DEF PmmInv, TypeOK, SameRegion
<1>9. Exclusive'
  BY <1>1, <1>2, <1>4 DEF PmmInv, Exclusive
<1>10. BootInv'
  BY <1>1, <1>4 DEF PmmInv, BootInv, SameRegion
<1> QED BY <1>7, <1>8, <1>9, <1>10 DEF PmmInv

\* pmm_alloc_run hands out clear pages only, so the run it marks is disjoint from
\* every run that is held, and takes its length off the counter.
LEMMA AllocKeeps ==
  ASSUME PmmInv, NEW n \in Nat, Alloc(n)
  PROVE  PmmInv'
<1>1. PICK first \in Pages :
        /\ FirstFit(first, n)
        /\ bitmap' = bitmap \cup Run(first, n)
        /\ held' = held \cup {Run(first, n)}
  BY DEF Alloc
<1> DEFINE new == Run(first, n)
<1>2. new \in SUBSET Pages /\ new \cap bitmap = {}
  BY <1>1 DEF FirstFit, IsFree
<1>3. Cardinality(new) = n
  <2>1. first \in Int /\ first + n - 1 \in Int /\ n > 0
    BY DEF Pages, Alloc
  <2>2. Cardinality(first .. first + n - 1) = n
    BY <2>1, FS_Interval
  <2> QED BY <2>2 DEF Run
<1>4. SameRegion /\ todo' = todo /\ done' = done /\ todo = {}
      /\ pages_free' = pages_free - n
  BY DEF SameRegion, Alloc
<1>5. Pages' = Pages /\ \A q : RangePages(q)' = RangePages(q)
  BY <1>4, RegionFixed
<1> HIDE DEF new
<1>6. /\ n <= pages_free
      /\ Cardinality(bitmap') = Cardinality(bitmap) + n
  BY <1>1, <1>2, <1>3, MarkCount DEF PmmInv, new
<1>7. FreeCountExact' /\ pages_free' \in Nat
  <2>1. pages_free \in Nat /\ pages_total \in Nat /\ bitmap \in SUBSET Pages
    BY DEF PmmInv, TypeOK
  <2>2. Cardinality(bitmap) \in Nat
    BY <2>1, FinitePages DEF PmmInv
  <2>3. pages_free = pages_total - Cardinality(bitmap) /\ pages_total' = pages_total
    BY <1>4 DEF PmmInv, FreeCountExact, SameRegion
  <2> QED BY <1>4, <1>6, <2>1, <2>2, <2>3 DEF FreeCountExact
<1>8. TypeOK'
  <2>1. bitmap' \in SUBSET Pages /\ held' \in SUBSET SUBSET Pages
    BY <1>1, <1>2 DEF PmmInv, TypeOK, new
  <2> QED BY <1>4, <1>5, <1>7, <2>1 DEF PmmInv, TypeOK, SameRegion
<1>9. Exclusive'
  <2>1. bitmap' = bitmap \cup new /\ held' = held \cup {new}
    BY <1>1 DEF new
  <2>2. \A p \in Pages : p \in bitmap' <=> \/ \E h \in held' : p \in h
                                          \/ \E r \in done : p \in RangePages(r)
    BY <2>1 DEF PmmInv, Exclusive
  <2>3. ASSUME NEW r \in done PROVE new \cap RangePages(r) = {}
    <3>1. \A p \in RangePages(r) : p \in Pages
      BY DEF RangePages
    <3> QED BY <1>2, <3>1 DEF PmmInv, Exclusive
  <2>4. ASSUME NEW h \in held PROVE new \cap h = {}
    <3>1. h \subseteq Pages
      BY DEF PmmInv, TypeOK
    <3> QED BY <1>2, <3>1 DEF PmmInv, Exclusive
  <2>5. \A h \in held' : \A r \in done : h \cap RangePages(r) = {}
    BY <2>1, <2>3 DEF PmmInv, Exclusive
  <2>6. \A h, k \in held' : h # k => h \cap k = {}
    BY <2>1, <2>4 DEF PmmInv, Exclusive
  <2> QED BY <1>4, <1>5, <2>2, <2>5, <2>6 DEF Exclusive
<1>10. BootInv'
  BY <1>4 DEF PmmInv, BootInv, SameRegion
<1> QED BY <1>7, <1>8, <1>9, <1>10 DEF PmmInv

\* pmm_free_pages clears pages that are held, and adds to the counter exactly
\* the bits it clears.
LEMMA FreeKeeps ==
  ASSUME PmmInv, NEW a \in Nat, NEW n \in Nat, Free(a, n)
  PROVE  PmmInv'
<1> DEFINE range == Run(AddrToPage(a), n) \cap Pages
           clear == range \cap bitmap
<1>1. /\ clear \subseteq UNION held
      /\ bitmap' = bitmap \ clear
      /\ held' = {h \ clear : h \in held} \ {{}}
      /\ pages_free' = pages_free + Cardinality(clear)
  BY DEF Free
<1>2. SameRegion /\ todo' = todo /\ done' = done /\ todo = {}
  BY DEF Free, SameRegion
<1>3. Pages' = Pages /\ \A q : RangePages(q)' = RangePages(q)
  BY <1>2, RegionFixed
<1>4. clear \subseteq bitmap /\ bitmap \cap clear = clear
  OBVIOUS
<1>5. /\ \A p \in clear : \E h \in held : p \in h
      /\ \A k \in held' : \E h \in held : k = h \ clear
      /\ \A h \in held : h \ clear # {} => h \ clear \in held'
  BY <1>1
<1> HIDE DEF range, clear
<1>6. FreeCountExact' /\ pages_free' \in Nat
  <2>1. pages_free \in Nat /\ pages_total \in Nat /\ bitmap \in SUBSET Pages
        /\ clear \in SUBSET Pages
    BY <1>4 DEF PmmInv, TypeOK
  <2>2. IsFiniteSet(bitmap) /\ Cardinality(bitmap) \in Nat /\ Cardinality(clear) \in Nat
    BY <2>1, FinitePages DEF PmmInv
  <2>3. pages_free = pages_total - Cardinality(bitmap) /\ pages_total' = pages_total
    BY <1>2 DEF PmmInv, FreeCountExact, SameRegion
  <2>4. Cardinality(bitmap \ clear) = Cardinality(bitmap) - Cardinality(bitmap \cap clear)
    BY <2>2, FS_Difference
  <2>5. Cardinality(bitmap') = Cardinality(bitmap) - Cardinality(clear)
    BY <1>1, <1>4, <2>4, Zenon
  <2> QED BY <1>1, <2>1, <2>2, <2>3, <2>5 DEF FreeCountExact
<1>7. TypeOK'
  <2>1. bitmap' \in SUBSET Pages /\ held' \in SUBSET SUBSET Pages
    BY <1>1 DEF PmmInv, TypeOK
  <2> QED BY <1>2, <1>3, <1>6, <2>1 DEF PmmInv, TypeOK, SameRegion
<1>8. Exclusive'
  <2>1. ASSUME NEW p \in Pages
        PROVE  p \in bitmap' <=> \/ \E h \in held' : p \in h
                                \/ \E r \in done : p \in RangePages(r)
    <3>1. CASE p \in clear
      <4>1. PICK k \in held : p \in k
        BY <1>5, <3>1
      <4>2. \A h \in held' : p \notin h
        BY <1>5, <3>1
      <4>3. \A r \in done : p \notin RangePages(r)
        BY <4>1 DEF PmmInv, Exclusive
      <4> QED BY <1>1, <3>1, <4>2, <4>3
    <3>2. CASE p \notin clear
      <4>1. ASSUME NEW h \in held, p \in h PROVE \E k \in held' : p \in k
        <5>1. p \in h \ clear
          BY <3>2, <4>1
        <5> QED BY <1>5, <5>1
      <4>2. (\E h \in held' : p \in h) => (\E h \in held : p \in h)
        BY <1>5
      <4>3. p \in bitmap' <=> p \in bitmap
        BY <1>1, <3>2
      <4> QED BY <4>1, <4>2, <4>3 DEF PmmInv, Exclusive
    <3> QED BY <3>1, <3>2
  <2>2. \A h \in held' : \A r \in done : h \cap RangePages(r) = {}
    BY <1>5 DEF PmmInv, Exclusive
  <2>3. ASSUME NEW h \in held', NEW k \in held', h # k PROVE h \cap k = {}
    <3>1. PICK hh \in held, kk \in held : h = hh \ clear /\ k = kk \ clear
      BY <1>5
    <3>2. hh # kk
      BY <2>3, <3>1
    <3> QED BY <3>1, <3>2 DEF PmmInv, Exclusive
  <2> QED BY <1>2, <1>3, <2>1, <2>2, <2>3 DEF Exclusive
<1>9. BootInv'
  BY <1>2 DEF PmmInv, BootInv, SameRegion
<1> QED BY <1>6, <1>7, <1>8, <1>9 DEF PmmInv

\* Every step of the allocator preserves the invariant.
LEMMA PmmStep == PmmInv /\ [Next]_vars => PmmInv'
<1> SUFFICES ASSUME PmmInv, [Next]_vars PROVE PmmInv'
  OBVIOUS
<1>1. CASE Reserve
  BY <1>1, ReserveKeeps DEF Reserve
<1>2. CASE \E n \in 0 .. MaxCount : Alloc(n)
  BY <1>2, AllocKeeps, PmmConstants
<1>3. CASE \E a \in 0 .. mem_base + mem_size, n \in 0 .. MaxCount + 1 : Free(a, n)
  <2>1. PICK a \in 0 .. mem_base + mem_size, n \in 0 .. MaxCount + 1 : Free(a, n)
    BY <1>3
  <2>2. a \in Nat /\ n \in Nat
    BY PmmConstants DEF PmmInv, TypeOK
  <2> QED BY <2>1, <2>2, FreeKeeps
<1>4. CASE UNCHANGED vars
  <2>1. SameRegion
    BY <1>4 DEF SameRegion, vars
  <2>2. Pages' = Pages /\ \A q : RangePages(q)' = RangePages(q)
    BY <2>1, RegionFixed
  <2>3. TypeOK' /\ FreeCountExact' /\ BootInv'
    BY <1>4, <2>2 DEF PmmInv, TypeOK, FreeCountExact, BootInv, vars
  <2>4. Exclusive'
    BY <1>4, <2>2 DEF PmmInv, Exclusive, vars
  <2> QED BY <2>3, <2>4 DEF PmmInv
<1> QED BY <1>1, <1>2, <1>3, <1>4 DEF Next

-----------------------------------------------------------------------------
(* Results. *)

\* The invariant implies that the reserved ranges are marked.
LEMMA CoveredFromInv == PmmInv => ReservedCovered
  BY RangeCovers DEF PmmInv, ReservedCovered, Exclusive, TypeOK

\* The invariant implies that the page at address 0 is never handed out: the
\* start of RAM is reserved.
LEMMA NeverNullFromInv == PmmInv => NeverNull
<1> SUFFICES ASSUME PmmInv, NEW h \in held, NEW p \in Pages, p \in h,
                    mem_base + p * PageSize = 0
             PROVE  FALSE
  BY DEF NeverNull
<1>1. mem_base \in Nat /\ p \in Nat /\ p * PageSize \in Nat /\ PageSize \in Nat \ {0}
  BY PmmConstants DEF PmmInv, TypeOK, Pages
<1>2. mem_base = 0 /\ p = 0
  BY <1>1
<1> DEFINE low == <<mem_base, LowSize>>
<1>3. low \in done /\ low \in Nat \X Nat
  BY <1>1, PmmConstants DEF PmmInv, BootInv
<1>4. p \in RangePages(low)
  <2>1. 0 \in low[1] .. low[1] + low[2] - 1
    BY <1>2, PmmConstants
  <2>2. mem_base + p * PageSize <= 0 /\ 0 < mem_base + (p + 1) * PageSize
    BY <1>1, <1>2
  <2> HIDE DEF low
  <2> QED BY <1>3, <2>1, <2>2, RangeCovers DEF PmmInv
<1> QED BY <1>3, <1>4 DEF PmmInv, Exclusive

\* The inductive invariant of the physical memory manager.
THEOREM PmmInvariant == Spec => []PmmInv
  BY PmmInit, PmmStep, PTL DEF Spec

\* The variables keep their types and the managed region stays page aligned.
THEOREM PmmTypeCorrect == Spec => []TypeOK
<1>1. PmmInv => TypeOK
  BY DEF PmmInv
<1> QED BY <1>1, PmmInvariant, PTL

\* pmm_check never fails: the free counter is the number of clear bits.
THEOREM PmmCheckPasses == Spec => []FreeCountExact
<1>1. PmmInv => FreeCountExact
  BY DEF PmmInv
<1> QED BY <1>1, PmmInvariant, PTL

\* No page is handed out twice, and no reserved page is handed out.
THEOREM PagesAreExclusive == Spec => []Exclusive
<1>1. PmmInv => Exclusive
  BY DEF PmmInv
<1> QED BY <1>1, PmmInvariant, PTL

\* Every byte of a reserved range that lies in managed RAM is on a marked page,
\* in spite of the clipping and the rounding in reserve_range.
THEOREM ReservedStaysCovered == Spec => []ReservedCovered
  BY PmmInvariant, CoveredFromInv, PTL

\* pmm_alloc_run never returns NULL for a run it has marked.
THEOREM NullIsNeverHeld == Spec => []NeverNull
  BY PmmInvariant, NeverNullFromInv, PTL

-----------------------------------------------------------------------------
(* The loop of pmm_alloc_run. *)

\* Outside pmm_alloc_run the invariant of its loop says nothing.
LEMMA ScanStarts == ScanInit => ScanInv
  BY DEF ScanInit, ScanInv, ScanTypeOK

\* In the loop the variables have the types the arithmetic needs.
LEMMA InLoop ==
  ASSUME TypeOK, ScanInv, pc # "idle"
  PROVE  /\ pages_total \in Nat /\ pages_free \in Nat /\ count \in Nat \ {0}
         /\ i \in 0 .. pages_total /\ run \in Nat /\ run_start \in Nat
         /\ run < count /\ run <= i /\ count <= MaxCount /\ count <= pages_free /\ todo = {}
  BY DEF TypeOK, ScanInv, ScanTypeOK

\* pmm_alloc_run enters its loop with nothing seen.
LEMMA StartKeeps ==
  ASSUME TypeOK, ScanInv, NEW c \in 0 .. MaxCount, Start(c)
  PROVE  ScanInv'
<1> USE PmmConstants DEF Start, vars
<1>1. ScanTypeOK'
  BY DEF ScanTypeOK, TypeOK
<1>2. \A f \in Pages' : ~(f + count' <= i')
  BY DEF Pages, TypeOK
<1>3. \A f \in 0 .. i' : i' - f <= run'
  BY DEF TypeOK
<1> QED BY <1>1, <1>2, <1>3 DEF ScanInv, Pages, TypeOK

\* A clear bit extends the longest run that ends before i by one.
LEMMA ClearKeeps ==
  ASSUME TypeOK, ScanInv, Clear
  PROVE  ScanInv'
<1>1. /\ pages_total \in Nat /\ pages_free \in Nat /\ count \in Nat \ {0}
      /\ i \in 0 .. pages_total /\ run \in Nat /\ run_start \in Nat
      /\ run < count /\ run <= i /\ count <= MaxCount /\ count <= pages_free /\ todo = {}
  BY InLoop DEF Clear
<1>2. /\ pc = "scan" /\ pc' = "scan" /\ i < pages_total /\ i \notin bitmap /\ run + 1 # count
      /\ run_start' = (IF run = 0 THEN i ELSE run_start)
      /\ run' = run + 1 /\ i' = i + 1 /\ count' = count
      /\ UNCHANGED vars
  BY DEF Clear
<1>3. Pages' = Pages /\ bitmap' = bitmap /\ \A f : IsFree(f, count)' = IsFree(f, count)
  BY <1>2 DEF vars, Pages, IsFree, Run
<1>4. ScanTypeOK'
  BY <1>1, <1>2 DEF ScanTypeOK, vars
<1>5. run_start' = i' - run'
  BY <1>1, <1>2 DEF ScanInv
<1>6. ASSUME NEW p \in Pages', i' - run' <= p, p < i' PROVE p \notin bitmap'
  BY <1>1, <1>2, <1>3, <1>6 DEF ScanInv, Pages
<1>7. ASSUME NEW f \in 0 .. i', \A p \in f .. i' - 1 : p \notin bitmap'
      PROVE  i' - f <= run'
  <2>1. CASE f = i'
    BY <1>1, <1>2, <2>1
  <2>2. CASE f # i'
    <3>1. f \in 0 .. i /\ \A p \in f .. i - 1 : p \notin bitmap
      BY <1>1, <1>2, <1>3, <1>7, <2>2
    <3>2. i - f <= run
      BY <1>2, <3>1 DEF ScanInv
    <3> QED BY <1>1, <1>2, <3>1, <3>2
  <2> QED BY <2>1, <2>2
<1>8. ASSUME NEW f \in Pages', f + count' <= i' PROVE ~IsFree(f, count)'
  <2>1. CASE f + count <= i
    BY <1>2, <1>3, <2>1 DEF ScanInv
  <2>2. CASE ~(f + count <= i)
    <3>1. f \in Nat /\ f + count = i + 1 /\ f \in 0 .. i
      BY <1>1, <1>2, <1>3, <1>8, <2>2 DEF Pages
    <3>2. ASSUME IsFree(f, count) PROVE FALSE
      <4>1. \A p \in f .. i - 1 : p \notin bitmap
        BY <1>1, <3>1, <3>2 DEF IsFree, Run
      <4>2. i - f <= run
        BY <1>2, <3>1, <4>1 DEF ScanInv
      <4> QED BY <1>1, <1>2, <3>1, <4>2
    <3> QED BY <1>3, <3>2
  <2> QED BY <2>1, <2>2
<1> QED BY <1>2, <1>4, <1>5, <1>6, <1>7, <1>8 DEF ScanInv

\* A set bit ends every run.
LEMMA SetKeeps ==
  ASSUME TypeOK, ScanInv, Set
  PROVE  ScanInv'
<1>1. /\ pages_total \in Nat /\ pages_free \in Nat /\ count \in Nat \ {0}
      /\ i \in 0 .. pages_total /\ run \in Nat /\ run_start \in Nat
      /\ run < count /\ run <= i /\ count <= MaxCount /\ count <= pages_free /\ todo = {}
  BY InLoop DEF Set
<1>2. /\ pc = "scan" /\ pc' = "scan" /\ i < pages_total /\ i \in bitmap
      /\ run_start' = run_start /\ run' = 0 /\ i' = i + 1 /\ count' = count
      /\ UNCHANGED vars
  BY DEF Set
<1>3. Pages' = Pages /\ bitmap' = bitmap /\ \A f : IsFree(f, count)' = IsFree(f, count)
  BY <1>2 DEF vars, Pages, IsFree, Run
<1>4. ScanTypeOK'
  BY <1>1, <1>2 DEF ScanTypeOK, vars
<1>5. ASSUME NEW p \in Pages', i' - run' <= p, p < i' PROVE FALSE
  BY <1>1, <1>2, <1>3, <1>5 DEF Pages
<1>6. ASSUME NEW f \in 0 .. i', \A p \in f .. i' - 1 : p \notin bitmap'
      PROVE  i' - f <= run'
  <2>1. ~(f <= i)
    BY <1>1, <1>2, <1>3, <1>6
  <2> QED BY <1>1, <1>2, <2>1
<1>7. ASSUME NEW f \in Pages', f + count' <= i' PROVE ~IsFree(f, count)'
  <2>1. CASE f + count <= i
    BY <1>2, <1>3, <2>1 DEF ScanInv
  <2>2. CASE ~(f + count <= i)
    <3>1. i \in Run(f, count)
      BY <1>1, <1>2, <1>3, <1>7, <2>2 DEF Run, Pages
    <3> QED BY <1>2, <1>3, <3>1 DEF IsFree
  <2> QED BY <2>1, <2>2
<1> QED BY <1>2, <1>4, <1>5, <1>6, <1>7 DEF ScanInv

\* The rest of pmm_alloc_run, and what happens outside it.
LEMMA EndKeeps ==
  ASSUME TypeOK, ScanInv, Exhausted \/ Unlock \/ Found \/ Other \/ UNCHANGED allVars
  PROVE  ScanInv'
<1>1. CASE Exhausted
  <2>1. Pages' = Pages /\ bitmap' = bitmap /\ count' = count /\ \A f : IsFree(f, count)' = IsFree(f, count)
    BY <1>1 DEF Exhausted, vars, Pages, IsFree, Run
  <2> QED BY <1>1, <2>1 DEF Exhausted, vars, ScanInv, ScanTypeOK
<1>2. CASE Unlock \/ Found
  BY <1>2 DEF Unlock, Found, ScanInv, ScanTypeOK
<1>3. CASE Other
  BY <1>3 DEF Other, scanVars, ScanInv, ScanTypeOK
<1>4. CASE UNCHANGED allVars
  <2>1. Pages' = Pages /\ bitmap' = bitmap /\ count' = count /\ \A f : IsFree(f, count)' = IsFree(f, count)
    BY <1>4 DEF allVars, scanVars, vars, Pages, IsFree, Run
  <2> QED BY <1>4, <2>1 DEF allVars, scanVars, vars, ScanInv, ScanTypeOK
<1> QED BY <1>1, <1>2, <1>3, <1>4

\* Every step of the loop, and every call between two searches, preserves the
\* invariant of the loop.
LEMMA ScanStep == TypeOK /\ ScanInv /\ [ScanNext]_allVars => ScanInv'
  BY StartKeeps, ClearKeeps, SetKeeps, EndKeeps DEF ScanNext

-----------------------------------------------------------------------------
(* The loop against the one-step allocation. *)

\* The run that the loop marks is the lowest free one.
LEMMA FoundIsAlloc ==
  ASSUME TypeOK, ScanInv, Found
  PROVE  \E c \in 0 .. MaxCount : Alloc(c)
<1> DEFINE first == IF run = 0 THEN i ELSE run_start
<1>1. /\ pages_total \in Nat /\ pages_free \in Nat /\ count \in Nat \ {0}
      /\ i \in 0 .. pages_total /\ run \in Nat /\ run_start \in Nat
      /\ run < count /\ run <= i /\ count <= MaxCount /\ count <= pages_free /\ todo = {}
  BY InLoop DEF Found
<1>2. pc = "scan" /\ i < pages_total /\ i \notin bitmap /\ run + 1 = count
  BY DEF Found
<1>3. first = i - run /\ first \in Pages
  BY <1>1, <1>2 DEF ScanInv, Pages
<1>4. IsFree(first, count)
  <2>1. ASSUME NEW p \in Run(first, count) PROVE p \in Pages \ bitmap
    <3>1. p \in Pages /\ i - run <= p /\ p <= i
      BY <1>1, <1>2, <1>3 DEF Run, Pages
    <3> QED BY <1>1, <1>2, <3>1 DEF ScanInv, Pages
  <2> QED BY <2>1 DEF IsFree
<1>5. ASSUME NEW f \in Pages, IsFree(f, count) PROVE first <= f
  <2>1. ~(f + count <= i)
    BY <1>2, <1>5 DEF ScanInv
  <2> QED BY <1>1, <1>2, <1>3, <2>1 DEF Pages
<1>6. FirstFit(first, count)
  BY <1>3, <1>4, <1>5 DEF FirstFit
<1>7. Alloc(count)
  BY <1>1, <1>3, <1>6 DEF Found, Alloc
<1> QED BY <1>1, <1>7, PmmConstants

\* Every step of the loop is a step of Pmm or invisible to it.
LEMMA StepImplements == TypeOK /\ ScanInv /\ [ScanNext]_allVars => [Next]_vars
<1> SUFFICES ASSUME TypeOK, ScanInv, [ScanNext]_allVars PROVE [Next]_vars
  OBVIOUS
<1>1. CASE Found
  BY <1>1, FoundIsAlloc DEF Next
<1>2. CASE Other
  BY <1>2 DEF Other, Next
<1>3. CASE Clear \/ Set \/ Exhausted \/ Unlock \/ UNCHANGED allVars \/ \E c \in 0 .. MaxCount : Start(c)
  BY <1>3 DEF Clear, Set, Exhausted, Unlock, Start, allVars
<1> QED BY <1>1, <1>2, <1>3 DEF ScanNext

ScanIInv == PmmInv /\ ScanInv

\* The invariant of the allocator and the invariant of the loop hold together:
\* the first one gives the types the second needs, and the second one makes each
\* step of the loop a step of the allocator.
LEMMA ScanInductive == ScanSpec => []ScanIInv
<1>1. ScanInit => ScanIInv
  BY ScanStarts, PmmInit DEF ScanInit, ScanIInv
<1>2. ScanIInv /\ [ScanNext]_allVars => ScanIInv'
  BY StepImplements, PmmStep, ScanStep DEF ScanIInv, PmmInv
<1> QED BY <1>1, <1>2, PTL DEF ScanSpec

\* The invariant of the loop of pmm_alloc_run, for every bitmap and request.
THEOREM ScanInvariant == ScanSpec => []ScanInv
<1>1. ScanIInv => ScanInv
  BY DEF ScanIInv
<1> QED BY <1>1, ScanInductive, PTL

\* pmm_alloc_run returns NULL after its loop only if no run is long enough.
THEOREM NullOnlyIfNone == ScanSpec => []NoneMeansNone
<1>1. ScanIInv => NoneMeansNone
  <2> SUFFICES ASSUME ScanIInv, pc = "none", NEW f \in Pages, IsFree(f, count)
               PROVE  FALSE
    BY DEF NoneMeansNone
  <2>1. i = pages_total /\ count \in Nat \ {0} /\ pages_total \in Nat
    BY InLoop DEF ScanIInv, PmmInv, ScanInv
  <2>2. f + count - 1 \in Pages
    BY <2>1 DEF IsFree, Run, Pages
  <2>3. f + count <= i
    BY <2>1, <2>2 DEF Pages
  <2> QED BY <2>3 DEF ScanIInv, ScanInv
<1> QED BY <1>1, ScanInductive, PTL

\* pmm_alloc_run with its loop implements the allocation of Pmm in one step,
\* for every page size, region, bitmap and request.
THEOREM LoopImplementsPmm == ScanSpec => ImplementsPmm
<1>1. ScanInit => Init
  BY DEF ScanInit
<1>2. ScanIInv /\ [ScanNext]_allVars => [Next]_vars
  BY StepImplements DEF ScanIInv, PmmInv
<1> QED BY <1>1, <1>2, ScanInductive, PTL DEF ScanSpec, Spec, ImplementsPmm

\* With the loop, too, no page is handed out twice and none that was reserved.
THEOREM LoopIsExclusive == ScanSpec => []Exclusive
<1>1. ScanIInv => Exclusive
  BY DEF ScanIInv, PmmInv
<1> QED BY <1>1, ScanInductive, PTL
=============================================================================
