---------------------------- MODULE VmallocSpace ----------------------------
(***************************************************************************)
(* The kernel heap never hands out what somebody has, and leaks nothing    *)
(* but what free_pool had no block for, for any number of tasks, blocks,   *)
(* pages and sizes.                                                        *)
(*                                                                         *)
(* The argument is one of ownership.  Every address that was ever handed   *)
(* out has exactly one owner: an allocation that is held, a call, a block  *)
(* of the free list, or the addresses that were forgotten (Apart, Whole).  *)
(* A step hands addresses from one owner to another, and no step touches   *)
(* what it does not own.  For that the free list must be a list: no block  *)
(* twice, none of them in the pool (HeapInv).                              *)
(***************************************************************************)
EXTENDS Vmalloc, FiniteSetTheorems, NaturalsInduction, TLAPS

USE ZenonT(30)

\* Induction on the position in a list is by its least counterexample.
LEMMA LeastNat ==
  ASSUME NEW S \in SUBSET Nat, S # {}
  PROVE  \E m \in S : \A y \in S : m <= y
<1>1. PICK x \in S : \A y \in S : ~ (<<y, x>> \in OpToRel(<, Nat))
  BY NatLessThanWellFounded, WFMin
<1>2. \A y \in S : ~ (y < x)
  BY <1>1 DEF OpToRel
<1>. QED
  BY <1>2, SMTT(30)

\* Nth follows the next pointers from the head of the list.
LEMMA NthDef ==
  ASSUME NEW h
  PROVE  /\ Nth(h)[1] = h.list
         /\ \A i \in Block :
              Nth(h)[i + 1] = IF Nth(h)[i] = NULL THEN NULL ELSE h.next[Nth(h)[i]]
<1> DEFINE step(x) == IF x = NULL THEN NULL ELSE h.next[x]
           isChain(n, k) == n = [i \in 1 .. k |-> IF i = 1 THEN h.list ELSE step(n[i - 1])]
           bad == {k \in Nat : ~ \E n : isChain(n, k)}
<1>1. bad = {}
  <2> SUFFICES ASSUME bad # {} PROVE FALSE
    OBVIOUS
  <2>1. PICK m \in bad : \A y \in bad : m <= y
    <3>1. bad \in SUBSET Nat
      OBVIOUS
    <3> HIDE DEF bad
    <3>. QED
      BY <3>1, LeastNat
  <2>2. m # 0
    <3>1. isChain([i \in 1 .. 0 |-> 0], 0)
      BY SMTT(30)
    <3>. QED
      BY <3>1
  <2>3. PICK g : isChain(g, m - 1)
    <3>0. m \in Nat
      OBVIOUS
    <3>1. m - 1 \in Nat
      BY <2>1, <2>2, SMTT(30)
    <3>2. m - 1 \notin bad
      <4> HIDE DEF bad
      <4>. QED
        BY <2>1, <3>0, <3>1, SMTT(30)
    <3>. QED
      BY <3>1, <3>2
  <2> HIDE DEF step
  <2>4. m \in Nat
    OBVIOUS
  <2> DEFINE f == [i \in 1 .. m |-> IF i = 1 THEN h.list ELSE step(g[i - 1])]
  <2>5. ASSUME NEW i \in 1 .. m, i # 1 PROVE f[i - 1] = g[i - 1]
    <3>1. i - 1 \in 1 .. m - 1 /\ i - 1 \in 1 .. m
      BY <2>4, <2>5, SMTT(30)
    <3>2. g[i - 1] = IF i - 1 = 1 THEN h.list ELSE step(g[(i - 1) - 1])
      BY <2>3, <3>1
    <3>. QED
      BY <3>1, <3>2
  <2>6. isChain(f, m)
    BY <2>5
  <2>. QED
    BY <2>1, <2>6
<1>2. isChain(Nth(h), Blocks + 1)
  <2>1. \E n : isChain(n, Blocks + 1)
    <3>1. Blocks + 1 \in Nat
      BY VmallocConstants, SMTT(30)
    <3>2. Blocks + 1 \notin bad
      BY <1>1
    <3>. QED
      BY <3>1, <3>2
  <2>2. isChain(CHOOSE n : isChain(n, Blocks + 1), Blocks + 1)
    BY <2>1
  <2>. QED
    BY <2>2 DEF Nth
<1>. QED
  BY <1>2, VmallocConstants, SMTT(30) DEF Block

Link(h, b) == IF b = NULL THEN NULL ELSE h.next[b]

Places == 1 .. Blocks + 1

\* No block is twice in the free list.
NthInj(h) ==
  \A i, j \in Places : Nth(h)[i] = Nth(h)[j] /\ Nth(h)[i] # NULL => i = j

\* The blocks outside the free list are the pool: a list without a join or a loop.
PoolInv(h) ==
  LET free == Block \ Listed(h)
  IN  /\ h.pool \in free \cup {NULL}
      /\ \A b \in free : /\ h.next[b] \in free \cup {NULL}
                         /\ h.next[b] # NULL => h.next[b] # h.pool
      /\ \A b, c \in free : h.next[b] = h.next[c] /\ h.next[b] # NULL => b = c

HeapInv(h) == h \in HeapType /\ NthInj(h) /\ PoolInv(h)

\* From one place of the list to the next.
LEMMA NthNext ==
  ASSUME NEW h
  PROVE  /\ Nth(h)[1] = h.list
         /\ \A i \in Places : i # 1 => Nth(h)[i] = Link(h, Nth(h)[i - 1])
<1>1. ASSUME NEW i \in Places, i # 1 PROVE i - 1 \in Block /\ (i - 1) + 1 = i
  BY <1>1, VmallocConstants, SMTT(30) DEF Block, Places
<1>2. ASSUME NEW i \in Places, i # 1 PROVE Nth(h)[i] = Link(h, Nth(h)[i - 1])
  <2>1. Nth(h)[(i - 1) + 1] = Link(h, Nth(h)[i - 1])
    BY <1>1, <1>2, NthDef DEF Link
  <2>. QED
    BY <1>1, <1>2, <2>1
<1>. QED
  BY <1>2, NthDef

\* What holds of the first place of a list and is handed on from each place to
\* the next holds of all places.
LEMMA AlongPlaces ==
  ASSUME NEW S \in SUBSET Places, 1 \in S, \A i \in Places : i # 1 /\ i - 1 \in S => i \in S
  PROVE  S = Places
<1> DEFINE bad == Places \ S
<1> SUFFICES ASSUME bad # {} PROVE FALSE
  OBVIOUS
<1>1. bad \in SUBSET Nat
  BY VmallocConstants, SMTT(30) DEF Places
<1>2. PICK m \in bad : \A y \in bad : m <= y
  <2> HIDE DEF bad
  <2>. QED
    BY <1>1, LeastNat
<1>3. m \in Places /\ m # 1
  OBVIOUS
<1>4. m - 1 \in Places /\ m \in Nat /\ ~ (m <= m - 1)
  BY <1>3, VmallocConstants, SMTT(30) DEF Places
<1>. QED
  BY <1>2, <1>3, <1>4

\* A place of the list holds a block, or it is beyond the end.
LEMMA NthType ==
  ASSUME NEW h \in HeapType
  PROVE  \A i \in Places : Nth(h)[i] \in Block \cup {NULL}
<1> DEFINE S == {i \in Places : Nth(h)[i] \in Block \cup {NULL}}
<1>1. 1 \in S
  BY NthNext, VmallocConstants, SMTT(30) DEF HeapType, Places
<1>2. ASSUME NEW i \in Places, i # 1, i - 1 \in S PROVE i \in S
  BY <1>2, NthNext, SMTT(30) DEF Link, HeapType
<1>3. S = Places
  <2> HIDE DEF S
  <2>1. S \in SUBSET Places
    BY DEF S
  <2>. QED
    BY <1>1, <1>2, <2>1, AlongPlaces
<1>. QED
  BY <1>3

\* The list ends within as many places as there are blocks.
LEMMA ListEnds ==
  ASSUME NEW h \in HeapType, NthInj(h)
  PROVE  Nth(h)[Blocks + 1] = NULL
<1> SUFFICES ASSUME Nth(h)[Blocks + 1] # NULL PROVE FALSE
  OBVIOUS
<1> DEFINE S == {k \in Places : Nth(h)[Blocks + 2 - k] # NULL}
<1>0. Blocks \in Nat
  BY VmallocConstants
<1>1. 1 \in S
  BY <1>0, SMTT(30) DEF Places
<1>2. ASSUME NEW k \in Places, k # 1, k - 1 \in S PROVE k \in S
  <2>1. /\ Blocks + 2 - (k - 1) \in Places /\ Blocks + 2 - (k - 1) # 1
        /\ (Blocks + 2 - (k - 1)) - 1 = Blocks + 2 - k
    BY <1>0, <1>2, SMTT(30) DEF Places
  <2>2. Nth(h)[Blocks + 2 - (k - 1)] = Link(h, Nth(h)[Blocks + 2 - k])
    BY <2>1, NthNext
  <2>. QED
    BY <1>2, <2>2 DEF Link
<1>3. S = Places
  <2> HIDE DEF S
  <2>1. S \in SUBSET Places
    BY DEF S
  <2>. QED
    BY <1>1, <1>2, <2>1, AlongPlaces
<1>4. ASSUME NEW i \in Places PROVE Nth(h)[i] \in Block
  <2>1. Blocks + 2 - i \in Places /\ Blocks + 2 - (Blocks + 2 - i) = i
    BY <1>0, SMTT(30) DEF Places
  <2>2. Nth(h)[Blocks + 2 - (Blocks + 2 - i)] # NULL
    BY <1>3, <2>1
  <2>. QED
    BY <2>1, <2>2, NthType
<1> DEFINE f == [i \in Places |-> Nth(h)[i]]
<1>5. f \in [Places -> Block]
  BY <1>4
<1>6. /\ IsFiniteSet(Places) /\ Cardinality(Places) = Blocks + 1
      /\ IsFiniteSet(Block) /\ Cardinality(Block) = Blocks
  BY <1>0, FS_Interval, SMTT(30) DEF Places, Block
<1>7. \E x, y \in Places : x # y /\ f[x] = f[y]
  <2>1. Cardinality(Block) < Cardinality(Places)
    BY <1>0, <1>6, SMTT(30)
  <2> HIDE DEF f
  <2>. QED
    BY <1>5, <1>6, <2>1, FS_PigeonHole
<1>. QED
  BY <1>4, <1>7, VmallocConstants DEF NthInj, Block

\* The listed blocks are those at its places.
LEMMA ListedPlaces ==
  ASSUME NEW h \in HeapType, NthInj(h)
  PROVE  /\ \A i \in Places : Nth(h)[i] # NULL => Nth(h)[i] \in Listed(h)
         /\ \A b \in Listed(h) : b \in Block /\ \E i \in Places : Nth(h)[i] = b
<1>0. Blocks \in Nat /\ NULL \notin Block
  BY VmallocConstants DEF Block
<1>1. \A i \in Places : i \in Block \/ i = Blocks + 1
  BY <1>0, SMTT(30) DEF Places, Block
<1>2. \A i \in Block : i \in Places
  BY <1>0, SMTT(30) DEF Places, Block
<1>. QED
  BY <1>1, <1>2, ListEnds, NthType DEF Listed

\* What add_free_space writes.
LEMMA InsertFields ==
  ASSUME NEW h \in HeapType, h.pool \in Block, NEW va \in Nat, NEW size \in Nat,
         NEW g, g = Insert(h, va, size)
  PROVE  /\ g \in HeapType /\ g.list = h.pool /\ g.pool = h.next[h.pool]
         /\ g.next[h.pool] = h.list /\ g.va[h.pool] = va /\ g.size[h.pool] = size
         /\ \A c \in Block \ {h.pool} :
              g.next[c] = h.next[c] /\ g.va[c] = h.va[c] /\ g.size[c] = h.size[c]
  BY DEF Insert, HeapType

\* A list behind a new first block.
LEMMA InsertNth ==
  ASSUME NEW h, HeapInv(h), h.pool \in Block, NEW va \in Nat, NEW size \in Nat,
         NEW g, g = Insert(h, va, size)
  PROVE  Nth(g)[1] = h.pool /\ \A i \in Places : i # 1 => Nth(g)[i] = Nth(h)[i - 1]
<1> DEFINE b == h.pool
           S == {i \in Places : i # 1 => Nth(g)[i] = Nth(h)[i - 1]}
<1>0. h \in HeapType
  BY DEF HeapInv
<1>1. g.list = b /\ g.next[b] = h.list /\ \A c \in Block \ {b} : g.next[c] = h.next[c]
  BY <1>0, InsertFields, SMTT(30)
<1>2. b \notin Listed(h)
  BY VmallocConstants DEF HeapInv, PoolInv, Block
<1>3. \A c \in Block \ {b} : g.next[c] = h.next[c]
  BY <1>1
<1>4. g.next[b] = h.list /\ b # NULL
  BY <1>1, VmallocConstants DEF Block
<1>5. 1 \in S
  BY VmallocConstants, SMTT(30) DEF Places
<1>6. ASSUME NEW i \in Places, i # 1, i - 1 \in S PROVE i \in S
  <2>0. i - 1 \in Places /\ Nth(g)[i] = Link(g, Nth(g)[i - 1])
    BY <1>6, NthNext
  <2>1. CASE i - 1 = 1
    BY <1>1, <1>4, <2>0, <2>1, NthNext, SMTT(30) DEF Link
  <2>2. CASE i - 1 # 1
    <3>1. Nth(g)[i - 1] = Nth(h)[(i - 1) - 1] /\ (i - 1) - 1 \in Places
      BY <1>6, <2>0, <2>2, VmallocConstants, SMTT(30) DEF Places
    <3>2. Nth(h)[i - 1] = Link(h, Nth(h)[(i - 1) - 1])
      BY <2>0, <2>2, NthNext
    <3>3. Nth(h)[(i - 1) - 1] \in (Block \ {b}) \cup {NULL}
      BY <1>0, <1>2, <3>1, NthType, ListedPlaces DEF HeapInv
    <3>. QED
      BY <1>3, <2>0, <3>1, <3>2, <3>3 DEF Link
  <2>. QED
    BY <2>1, <2>2
<1>7. S = Places
  <2> HIDE DEF S
  <2>1. S \in SUBSET Places
    BY DEF S
  <2>. QED
    BY <1>5, <1>6, <2>1, AlongPlaces
<1>. QED
  BY <1>1, <1>7, NthNext

\* add_free_space moves a block from the pool to the list.
LEMMA InsertKeeps ==
  ASSUME NEW h, HeapInv(h), h.pool \in Block, NEW va \in Nat, NEW size \in Nat,
         NEW g, g = Insert(h, va, size)
  PROVE  /\ HeapInv(g) /\ h.pool \notin Listed(h) /\ Listed(g) = Listed(h) \cup {h.pool}
         /\ g.va[h.pool] = va /\ g.size[h.pool] = size
         /\ \A c \in Listed(h) : g.va[c] = h.va[c] /\ g.size[c] = h.size[c]
<1> DEFINE b == h.pool
<1>0. h \in HeapType /\ NthInj(h) /\ b \notin Listed(h) /\ Blocks \in Nat /\ b # NULL
  BY VmallocConstants DEF HeapInv, PoolInv, Block
<1>1. /\ g \in HeapType /\ g.list = b /\ g.pool = h.next[b]
      /\ g.next[b] = h.list /\ g.va[b] = va /\ g.size[b] = size
      /\ \A c \in Block \ {b} :
           g.next[c] = h.next[c] /\ g.va[c] = h.va[c] /\ g.size[c] = h.size[c]
  BY <1>0, InsertFields, SMTT(30)
<1>2. Nth(g)[1] = b /\ \A i \in Places : i # 1 => Nth(g)[i] = Nth(h)[i - 1]
  BY InsertNth, SMTT(30)
<1>3. \A i \in Places : i # 1 => i - 1 \in Places
  BY <1>0, SMTT(30) DEF Places
<1>4. \A i \in Places : Nth(h)[i] # b
  BY <1>0, ListedPlaces
<1>5. NthInj(g)
  <2> SUFFICES ASSUME NEW i \in Places, NEW j \in Places,
                      Nth(g)[i] = Nth(g)[j], Nth(g)[i] # NULL
               PROVE  i = j
    BY DEF NthInj
  <2>1. CASE i = 1 \/ j = 1
    BY <1>2, <1>3, <1>4, <2>1
  <2>2. CASE i # 1 /\ j # 1
    <3>1. Nth(h)[i - 1] = Nth(h)[j - 1] /\ Nth(h)[i - 1] # NULL
      BY <1>2, <2>2
    <3>2. i - 1 = j - 1
      BY <1>0, <1>3, <2>2, <3>1 DEF NthInj
    <3>. QED
      BY <1>0, <3>2, SMTT(30) DEF Places
  <2>. QED
    BY <2>1, <2>2
<1>6. Listed(g) = Listed(h) \cup {b}
  <2>1. ASSUME NEW c \in Listed(g) PROVE c \in Listed(h) \cup {b}
    <3>1. PICK i \in Places : Nth(g)[i] = c
      BY <1>1, <1>5, ListedPlaces
    <3>2. c # NULL
      BY DEF Listed
    <3>. QED
      BY <1>0, <1>2, <1>3, <3>1, <3>2, ListedPlaces
  <2>2. b \in Listed(g)
    BY <1>0, <1>1, <1>2, <1>5, ListedPlaces, SMTT(30) DEF Places
  <2>3. ASSUME NEW c \in Listed(h) PROVE c \in Listed(g)
    <3>1. PICK i \in Places : Nth(h)[i] = c
      BY <1>0, ListedPlaces
    <3>2. c # NULL
      BY DEF Listed
    <3>3. i # Blocks + 1
      BY <1>0, <3>1, <3>2, ListEnds
    <3>4. i + 1 \in Places /\ i + 1 # 1 /\ (i + 1) - 1 = i
      BY <1>0, <3>3, SMTT(30) DEF Places
    <3>5. Nth(g)[i + 1] = c
      BY <1>2, <3>1, <3>4
    <3>. QED
      BY <1>1, <1>5, <3>2, <3>4, <3>5, ListedPlaces
  <2>. QED
    BY <2>1, <2>2, <2>3
<1>7. PoolInv(g)
  BY <1>0, <1>1, <1>6, SMTT(30) DEF HeapInv, PoolInv
<1>8. \A c \in Listed(h) : c \in Block \ {b}
  BY <1>0, ListedPlaces
<1>. QED
  BY <1>0, <1>1, <1>5, <1>6, <1>7, <1>8 DEF HeapInv

\* g is h with a block of its pool put in front of the list.
IsInserted(g, h, va, size) ==
  /\ HeapInv(g) /\ h.pool \notin Listed(h) /\ Listed(g) = Listed(h) \cup {h.pool}
  /\ g.va[h.pool] = va /\ g.size[h.pool] = size
  /\ \A c \in Listed(h) : g.va[c] = h.va[c] /\ g.size[c] = h.size[c]

\* That is what add_free_space does.
LEMMA Inserted ==
  ASSUME NEW h, HeapInv(h), h.pool \in Block, NEW va \in Nat, NEW size \in Nat
  PROVE  IsInserted(Insert(h, va, size), h, va, size)
BY InsertKeeps, SMTT(30) DEF IsInserted

\* g is h with the block b put in front of the pool.
IsFreed(g, h, b) ==
  /\ g \in HeapType /\ g.list = h.list /\ g.pool = b
  /\ g.va = h.va /\ g.size = h.size /\ g.next[b] = h.pool
  /\ \A c \in Block \ {b} : g.next[c] = h.next[c]

\* free_block does that.
LEMMA FreeBlockFields ==
  ASSUME NEW h \in HeapType, NEW b \in Block
  PROVE  IsFreed(FreeBlock(h, b), h, b)
  BY DEF IsFreed, FreeBlock, HeapType

\* g is h with another range in the block b.
Rest(h, b, va, size) == [h EXCEPT !.va[b] = va, !.size[b] = size]

IsRest(g, h, b, va, size) ==
  /\ g \in HeapType /\ g.list = h.list /\ g.pool = h.pool /\ g.next = h.next
  /\ g.va[b] = va /\ g.size[b] = size
  /\ \A c \in Block \ {b} : g.va[c] = h.va[c] /\ g.size[c] = h.size[c]

\* What is left of a block differs from it in these two fields.
LEMMA RestFields ==
  ASSUME NEW h \in HeapType, NEW b \in Block, NEW va \in Nat, NEW size \in Nat
  PROVE  IsRest(Rest(h, b, va, size), h, b, va, size)
  BY DEF HeapType, IsRest, Rest

\* What find_free_space writes when the best block is used up.
LEMMA TakeAllFields ==
  ASSUME NEW h \in HeapType, NEW i \in Block, Nth(h)[i] \in Block,
         i # 1 => Nth(h)[i - 1] \in Block /\ Nth(h)[i - 1] # Nth(h)[i],
         NEW size \in Nat, h.size[Nth(h)[i]] = size,
         NEW g, g = Take(h, size, i)
  PROVE  /\ g \in HeapType /\ g.pool = Nth(h)[i] /\ g.next[Nth(h)[i]] = h.pool
         /\ g.va = h.va /\ g.size = h.size
         /\ i = 1 => /\ g.list = h.next[Nth(h)[i]]
                     /\ \A c \in Block \ {Nth(h)[i]} : g.next[c] = h.next[c]
         /\ i # 1 => /\ g.list = h.list /\ g.next[Nth(h)[i - 1]] = h.next[Nth(h)[i]]
                     /\ \A c \in Block \ {Nth(h)[i], Nth(h)[i - 1]} : g.next[c] = h.next[c]
<1> DEFINE best == Nth(h)[i]
           h1 == IF i = 1 THEN [h EXCEPT !.list = h.next[best]]
                 ELSE [h EXCEPT !.next[Nth(h)[i - 1]] = h.next[best]]
           h2 == IF h.next[best] # NULL
                 THEN [h1 EXCEPT !.prev[h.next[best]] = h.prev[best]] ELSE h1
<1>1. g = FreeBlock(h2, best)
  BY DEF Take
<1>2. /\ h1 \in HeapType /\ h1.va = h.va /\ h1.size = h.size /\ h1.pool = h.pool
      /\ h1.list = IF i = 1 THEN h.next[best] ELSE h.list
      /\ h1.next = IF i = 1 THEN h.next ELSE [h.next EXCEPT ![Nth(h)[i - 1]] = h.next[best]]
  BY DEF HeapType
<1> HIDE DEF h1
<1>3. /\ h2 \in HeapType /\ h2.va = h.va /\ h2.size = h.size /\ h2.pool = h.pool
      /\ h2.list = h1.list /\ h2.next = h1.next
  BY <1>2 DEF HeapType
<1> HIDE DEF h2
<1>4. /\ g \in HeapType /\ g.va = h.va /\ g.size = h.size /\ g.pool = best
      /\ g.list = h2.list /\ g.next[best] = h.pool
      /\ \A c \in Block \ {best} : g.next[c] = h2.next[c]
  <2>1. best \in Block
    OBVIOUS
  <2> HIDE DEF best
  <2>2. IsFreed(g, h2, best)
    BY <1>1, <1>3, <2>1, FreeBlockFields
  <2>. QED
    BY <1>3, <2>2 DEF IsFreed
<1>5. h.next \in [Block -> Block \cup {NULL}] /\ h2.next \in [Block -> Block \cup {NULL}]
  BY <1>3 DEF HeapType
<1>. QED
  BY <1>2, <1>3, <1>4, <1>5, SMTT(30)

\* And when a rest of it stays in the list.
LEMMA TakeSomeFields ==
  ASSUME NEW h \in HeapType, NEW i \in Block, Nth(h)[i] \in Block,
         NEW size \in Nat, h.size[Nth(h)[i]] > size,
         NEW g, g = Take(h, size, i)
  PROVE  /\ g \in HeapType /\ g.pool = h.pool /\ g.list = h.list /\ g.next = h.next
         /\ g.va[Nth(h)[i]] = h.va[Nth(h)[i]] + size
         /\ g.size[Nth(h)[i]] = h.size[Nth(h)[i]] - size
         /\ \A c \in Block \ {Nth(h)[i]} : g.va[c] = h.va[c] /\ g.size[c] = h.size[c]
<1> DEFINE best == Nth(h)[i]
<1>1. h.va[best] \in Nat /\ h.size[best] \in Nat /\ h.size[best] # size
  BY SMTT(30) DEF HeapType
<1>2. h.va[best] + size \in Nat /\ h.size[best] - size \in Nat
  BY <1>1, SMTT(30)
<1>3. g = Rest(h, best, h.va[best] + size, h.size[best] - size)
  BY <1>1 DEF Take, Rest
<1>4. best \in Block
  OBVIOUS
<1> HIDE DEF best
<1>5. IsRest(g, h, best, h.va[best] + size, h.size[best] - size)
  BY <1>2, <1>3, <1>4, RestFields
<1>. QED
  BY <1>5 DEF best, IsRest

\* The best block is in the list, and so is the one before it.
LEMMA BestPlace ==
  ASSUME NEW h, HeapInv(h), NEW i \in Block, NEW size \in Nat, IsBest(h, size, i)
  PROVE  /\ i \in Places /\ Nth(h)[i] \in Listed(h) /\ Nth(h)[i] \in Block
         /\ h.size[Nth(h)[i]] >= size
         /\ i # 1 => /\ i - 1 \in Places /\ Nth(h)[i - 1] \in Block
                     /\ Nth(h)[i - 1] # Nth(h)[i] /\ Nth(h)[i] = h.next[Nth(h)[i - 1]]
<1>0. h \in HeapType /\ NthInj(h) /\ Blocks \in Nat /\ NULL \notin Block
  BY VmallocConstants DEF HeapInv, Block
<1>1. i \in Places /\ (i # 1 => i - 1 \in Places /\ i - 1 # i)
  BY <1>0, SMTT(30) DEF Block, Places
<1>2. Nth(h)[i] # NULL /\ h.size[Nth(h)[i]] >= size
  BY DEF IsBest
<1>3. Nth(h)[i] \in Listed(h) /\ Nth(h)[i] \in Block
  BY <1>0, <1>1, <1>2, ListedPlaces
<1>4. ASSUME i # 1
      PROVE  /\ Nth(h)[i - 1] \in Block /\ Nth(h)[i - 1] # Nth(h)[i]
             /\ Nth(h)[i] = h.next[Nth(h)[i - 1]]
  <2>1. Nth(h)[i] = Link(h, Nth(h)[i - 1])
    BY <1>1, <1>4, NthNext
  <2>2. Nth(h)[i - 1] # NULL
    BY <1>2, <2>1 DEF Link
  <2>3. Nth(h)[i - 1] # Nth(h)[i]
    BY <1>0, <1>1, <1>2, <1>4 DEF NthInj
  <2>. QED
    BY <1>0, <1>1, <1>4, <2>1, <2>2, <2>3, NthType DEF Link
<1>. QED
  BY <1>1, <1>2, <1>3, <1>4

\* Without the block at i the list closes its gap.
LEMMA TakeNth ==
  ASSUME NEW h, HeapInv(h), NEW i \in Block, NEW size \in Nat, IsBest(h, size, i),
         h.size[Nth(h)[i]] = size, NEW g, g = Take(h, size, i)
  PROVE  \A j \in Places : Nth(g)[j] = IF j < i THEN Nth(h)[j] ELSE Link(h, Nth(h)[j])
<1> DEFINE N == Nth(h)
           S == {j \in Places : Nth(g)[j] = IF j < i THEN N[j] ELSE Link(h, N[j])}
<1>0. /\ h \in HeapType /\ NthInj(h) /\ Blocks \in Nat /\ NULL \notin Block
      /\ i \in Places /\ i \in Int
  BY VmallocConstants, BestPlace, SMTT(30) DEF HeapInv, Block
<1>1. /\ N[i] \in Block
      /\ i # 1 => i - 1 \in Places /\ N[i - 1] \in Block /\ N[i - 1] # N[i]
  BY BestPlace
<1>2. /\ i = 1 => /\ g.list = h.next[N[i]]
                  /\ \A c \in Block \ {N[i]} : g.next[c] = h.next[c]
      /\ i # 1 => /\ g.list = h.list /\ g.next[N[i - 1]] = h.next[N[i]]
                  /\ \A c \in Block \ {N[i], N[i - 1]} : g.next[c] = h.next[c]
  BY <1>0, <1>1, TakeAllFields, SMTT(30)
<1>3. \A j \in Places : j \in Int /\ N[j] \in Block \cup {NULL}
  BY <1>0, NthType, SMTT(30) DEF Places
<1>4. ASSUME NEW j \in Places, j # i, j # i - 1 PROVE Link(g, N[j]) = Link(h, N[j])
  <2>1. N[j] # NULL => N[j] # N[i] /\ (i # 1 => N[j] # N[i - 1])
    BY <1>0, <1>1, <1>4 DEF NthInj
  <2>. QED
    BY <1>2, <1>3, <2>1 DEF Link
<1>5. 1 \in S
  <2>1. CASE i = 1
    BY <1>0, <1>1, <1>2, <2>1, NthNext, SMTT(30) DEF Link, Places
  <2>2. CASE i # 1
    BY <1>0, <1>2, <2>2, NthNext, SMTT(30) DEF Block, Places
  <2>. QED
    BY <2>1, <2>2
<1>6. ASSUME NEW j \in Places, j # 1, j - 1 \in S PROVE j \in S
  <2>0. /\ j - 1 \in Places /\ j \in Int /\ Nth(g)[j] = Link(g, Nth(g)[j - 1])
        /\ N[j] = Link(h, N[j - 1])
    BY <1>3, <1>6, NthNext
  <2>1. CASE j < i
    <3>1. Nth(g)[j - 1] = N[j - 1] /\ j - 1 # i /\ j - 1 # i - 1
      BY <1>0, <1>6, <2>0, <2>1, SMTT(30)
    <3>. QED
      BY <1>4, <2>0, <2>1, <3>1
  <2>2. CASE j = i
    <3>1. Nth(g)[j - 1] = N[i - 1] /\ i # 1 /\ N[i - 1] # NULL
      BY <1>0, <1>1, <1>6, <2>0, <2>2, SMTT(30)
    <3>. QED
      BY <1>0, <1>1, <1>2, <2>0, <2>2, <3>1, SMTT(30) DEF Link
  <2>3. CASE j > i
    <3>1. Nth(g)[j - 1] = N[j] /\ j # i /\ j # i - 1 /\ ~ (j < i)
      BY <1>0, <1>6, <2>0, <2>3, SMTT(30)
    <3>. QED
      BY <1>4, <2>0, <3>1
  <2>. QED
    BY <1>0, <2>0, <2>1, <2>2, <2>3, SMTT(30)
<1>7. S = Places
  <2> HIDE DEF S
  <2>1. S \in SUBSET Places
    BY DEF S
  <2>. QED
    BY <1>5, <1>6, <2>1, AlongPlaces
<1>. QED
  BY <1>7

\* find_free_space moves a block that is used up from the list to the pool.
LEMMA TakeAllKeeps ==
  ASSUME NEW h, HeapInv(h), NEW i \in Block, NEW size \in Nat, IsBest(h, size, i),
         h.size[Nth(h)[i]] = size, NEW g, g = Take(h, size, i)
  PROVE  /\ HeapInv(g) /\ Listed(g) = Listed(h) \ {Nth(h)[i]}
         /\ g.va = h.va /\ g.size = h.size
<1> DEFINE N == Nth(h)
           best == Nth(h)[i]
<1>0. /\ h \in HeapType /\ NthInj(h) /\ Blocks \in Nat /\ NULL \notin Block
      /\ i \in Places /\ i \in Int /\ \A j \in Places : j \in Int
  BY VmallocConstants, BestPlace, SMTT(30) DEF HeapInv, Block, Places
<1>1. /\ best \in Block /\ best \in Listed(h)
      /\ i # 1 => i - 1 \in Places /\ N[i - 1] \in Block /\ N[i - 1] # best
  BY BestPlace
<1>2. /\ g \in HeapType /\ g.pool = best /\ g.next[best] = h.pool
      /\ g.va = h.va /\ g.size = h.size
      /\ \A c \in Block \ {best} : (i # 1 => c # N[i - 1]) => g.next[c] = h.next[c]
  BY <1>0, <1>1, TakeAllFields, SMTT(30)
<1>3. \A j \in Places : Nth(g)[j] = IF j < i THEN N[j] ELSE Link(h, N[j])
  BY TakeNth, SMTT(30)
<1>4. ASSUME NEW j \in Places, Nth(g)[j] # NULL, ~ (j < i)
      PROVE  j + 1 \in Places /\ Nth(g)[j] = N[j + 1]
  <2>1. N[j] # NULL
    BY <1>3, <1>4 DEF Link
  <2>2. j # Blocks + 1
    BY <1>0, <2>1, ListEnds
  <2>3. j + 1 \in Places /\ j + 1 # 1 /\ (j + 1) - 1 = j
    BY <1>0, <2>2, SMTT(30) DEF Places
  <2>. QED
    BY <1>3, <1>4, <2>3, NthNext
<1>5. NthInj(g)
  <2> SUFFICES ASSUME NEW j \in Places, NEW k \in Places,
                      Nth(g)[j] = Nth(g)[k], Nth(g)[j] # NULL
               PROVE  j = k
    BY DEF NthInj
  <2>1. CASE j < i /\ k < i
    BY <1>0, <1>3, <2>1 DEF NthInj
  <2>2. CASE j < i /\ ~ (k < i)
    BY <1>0, <1>3, <1>4, <2>2, SMTT(30) DEF NthInj
  <2>3. CASE ~ (j < i) /\ k < i
    BY <1>0, <1>3, <1>4, <2>3, SMTT(30) DEF NthInj
  <2>4. CASE ~ (j < i) /\ ~ (k < i)
    <3>1. j + 1 = k + 1
      BY <1>0, <1>4, <2>4, SMTT(30) DEF NthInj
    <3>. QED
      BY <1>0, <3>1, SMTT(30)
  <2>. QED
    BY <2>1, <2>2, <2>3, <2>4
<1>6. Listed(g) = Listed(h) \ {best}
  <2>1. ASSUME NEW c \in Listed(g) PROVE c \in Listed(h) /\ c # best
    <3>1. PICK j \in Places : Nth(g)[j] = c
      BY <1>2, <1>5, ListedPlaces
    <3>2. c # NULL
      BY DEF Listed
    <3>3. PICK k \in Places : k # i /\ N[k] = c
      BY <1>0, <1>3, <1>4, <3>1, <3>2, SMTT(30)
    <3>4. c # best
      BY <1>0, <3>2, <3>3 DEF NthInj
    <3>. QED
      BY <1>0, <3>2, <3>3, <3>4, ListedPlaces
  <2>2. ASSUME NEW c \in Listed(h), c # best PROVE c \in Listed(g)
    <3>1. PICK k \in Places : N[k] = c /\ k # i
      BY <1>0, <2>2, ListedPlaces
    <3>2. c # NULL
      BY DEF Listed
    <3>3. CASE k < i
      BY <1>2, <1>3, <1>5, <3>1, <3>2, <3>3, ListedPlaces
    <3>4. CASE k > i
      <4>1. k - 1 \in Places /\ ~ (k - 1 < i) /\ k # 1
        BY <1>0, <3>4, SMTT(30) DEF Places
      <4>2. Nth(g)[k - 1] = N[k]
        BY <1>3, <4>1, NthNext
      <4>. QED
        BY <1>2, <1>5, <3>1, <3>2, <4>1, <4>2, ListedPlaces
    <3>5. k \in Int /\ i \in Int /\ k # i
      BY <1>0, <3>1
    <3>6. k < i \/ k > i
      BY <3>5, SMTT(30)
    <3>. QED
      BY <3>3, <3>4, <3>6
  <2>. QED
    BY <2>1, <2>2
<1>7. \A b \in Block \ Listed(h) : g.next[b] = h.next[b] /\ b # best
  <2>1. i # 1 => N[i - 1] \in Listed(h)
    BY <1>0, <1>1, ListedPlaces
  <2>. QED
    BY <1>1, <1>2, <2>1
<1>8. PoolInv(g)
  <2>1. Block \ Listed(g) = (Block \ Listed(h)) \cup {best}
    BY <1>1, <1>6
  <2>. QED
    BY <1>0, <1>1, <1>2, <1>7, <2>1, SMTT(30) DEF HeapInv, PoolInv
<1>. QED
  BY <1>2, <1>5, <1>6, <1>8 DEF HeapInv

\* A block of which a rest is left stays where it is.
LEMMA TakeSomeKeeps ==
  ASSUME NEW h, HeapInv(h), NEW i \in Block, NEW size \in Nat, IsBest(h, size, i),
         h.size[Nth(h)[i]] # size, NEW g, g = Take(h, size, i)
  PROVE  /\ HeapInv(g) /\ Listed(g) = Listed(h) /\ h.size[Nth(h)[i]] > size
         /\ g.va[Nth(h)[i]] = h.va[Nth(h)[i]] + size
         /\ g.size[Nth(h)[i]] = h.size[Nth(h)[i]] - size
         /\ \A c \in Listed(h) \ {Nth(h)[i]} : g.va[c] = h.va[c] /\ g.size[c] = h.size[c]
<1>0. h \in HeapType /\ NthInj(h) /\ PoolInv(h) /\ Nth(h)[i] \in Block
  BY BestPlace DEF HeapInv
<1>1. h.size[Nth(h)[i]] > size
  <2>1. h.size[Nth(h)[i]] \in Nat
    BY <1>0 DEF HeapType
  <2>2. h.size[Nth(h)[i]] >= size
    BY BestPlace
  <2>. QED
    BY <2>1, <2>2, SMTT(30)
<1>2. /\ g \in HeapType /\ g.pool = h.pool /\ g.list = h.list /\ g.next = h.next
      /\ g.va[Nth(h)[i]] = h.va[Nth(h)[i]] + size
      /\ g.size[Nth(h)[i]] = h.size[Nth(h)[i]] - size
      /\ \A c \in Block \ {Nth(h)[i]} : g.va[c] = h.va[c] /\ g.size[c] = h.size[c]
  BY <1>0, <1>1, TakeSomeFields, SMTT(30)
<1>3. Nth(g) = Nth(h)
  BY <1>2 DEF Nth
<1>4. Listed(g) = Listed(h) /\ NthInj(g)
  BY <1>0, <1>3 DEF Listed, NthInj
<1>5. PoolInv(g)
  BY <1>0, <1>2, <1>4, SMTT(30) DEF PoolInv
<1>6. \A c \in Listed(h) : c \in Block
  BY <1>0, ListedPlaces
<1>. QED
  BY <1>1, <1>2, <1>4, <1>5, <1>6 DEF HeapInv

-----------------------------------------------------------------------------
(* Who has which address. *)

\* What has the address x: an allocation, a call, a free block, or nobody any more.
Owns(k, o, x) ==
  \/ k = "held" /\ o \in held /\ x \in Extent(o[1], o[2])
  \/ k = "call" /\ o \in Busy /\ x \in Extent(call[o].base, call[o].pages)
  \/ k = "free" /\ o \in Listed(heap) /\ x \in Covers(o)
  \/ k = "lost" /\ o = 0 /\ x \in forgotten

\* No address has two owners.
Apart ==
  \A x \in Int : \A k, l, o, p : Owns(k, o, x) /\ Owns(l, p, x) => k = l /\ o = p

\* Exactly the addresses that were ever handed out have an owner.
Whole == \A x \in Int : x \in Start .. vmalloc_next - 1 <=> \E k, o : Owns(k, o, x)

MapCall == [at : {"map"}, base : Nat, pages : Nat, n : Nat]

FreeCall == [at : {"unwind", "release"}, base : Nat, pages : Nat, todo : Seq(Nat)]

CallType ==
  /\ call = [t \in Task |-> call[t]]
  /\ \A t \in Task : call[t] \in {Idle} \cup MapCall \cup FreeCall
  /\ held \subseteq Nat \X Nat
  /\ vmalloc_next \in Nat /\ Start <= vmalloc_next /\ forgotten \subseteq Int

SpaceInv == HeapInv(heap) /\ CallType /\ Apart /\ Whole

\* The addresses in M go from the owner o of kind k to the owner p of kind l.
Passes(k, o, l, p, M) ==
  /\ k # l
  /\ \A x \in Int : Owns(l, p, x)' <=> Owns(l, p, x) \/ (x \in M /\ Owns(k, o, x))
  /\ \A x \in Int : Owns(k, o, x)' <=> Owns(k, o, x) /\ x \notin M
  /\ \A x \in Int : \A j, q : <<j, q>> # <<k, o>> /\ <<j, q>> # <<l, p>> =>
       (Owns(j, q, x)' <=> Owns(j, q, x))

\* Passing addresses on leaves every one of them with one owner.
LEMMA Passed ==
  ASSUME SpaceInv, vmalloc_next' = vmalloc_next,
         NEW k, NEW o, NEW l, NEW p, NEW M, Passes(k, o, l, p, M)
  PROVE  Apart' /\ Whole'
<1>1. Apart'
  <2> SUFFICES ASSUME NEW x \in Int, NEW j1, NEW j2, NEW q1, NEW q2,
                      Owns(j1, q1, x)', Owns(j2, q2, x)'
               PROVE  j1 = j2 /\ q1 = q2
    BY DEF Apart, SpaceInv
  <2>1. \A j, q : Owns(j, q, x)' /\ <<j, q>> # <<l, p>> => Owns(j, q, x)
    BY DEF Passes
  <2>2. \A j, q, i, r : Owns(j, q, x) /\ Owns(i, r, x) => j = i /\ q = r
    BY DEF Apart, SpaceInv
  <2>3. Owns(l, p, x)' => \/ Owns(l, p, x)
                          \/ Owns(k, o, x) /\ ~Owns(k, o, x)'
    BY DEF Passes
  <2>. QED
    BY <2>1, <2>2, <2>3, SMTT(30)
<1>2. Whole'
  <2> SUFFICES ASSUME NEW x \in Int
               PROVE  (\E j, q : Owns(j, q, x)') <=> (\E j, q : Owns(j, q, x))
    BY DEF Whole, SpaceInv
  <2>1. ASSUME NEW j, NEW q, Owns(j, q, x)' PROVE \E i, r : Owns(i, r, x)
    BY <2>1 DEF Passes
  <2>2. ASSUME NEW j, NEW q, Owns(j, q, x) PROVE \E i, r : Owns(i, r, x)'
    BY <2>2 DEF Passes
  <2>. QED
    BY <2>1, <2>2
<1>. QED
  BY <1>1, <1>2

\* A call that begins, goes on or ends.
LEMMA CallSet ==
  ASSUME CallType, NEW t \in Task, NEW r \in {Idle} \cup MapCall \cup FreeCall,
         call' = [call EXCEPT ![t] = r]
  PROVE  /\ call' = [u \in Task |-> call'[u]]
         /\ \A u \in Task : call'[u] \in {Idle} \cup MapCall \cup FreeCall
         /\ call'[t] = r /\ \A u \in Task \ {t} : call'[u] = call[u]
<1>1. call'[t] = r /\ \A u \in Task \ {t} : call'[u] = call[u]
  BY DEF CallType
<1>2. call' = [u \in Task |-> call'[u]]
  BY DEF CallType
<1>. QED
  BY <1>1, <1>2 DEF CallType

\* A call that is on its way is no idle one.
LEMMA NotIdle ==
  /\ \A r \in MapCall \cup FreeCall : r # Idle /\ r.base \in Nat /\ r.pages \in Nat
  /\ \A r \in MapCall : r.at = "map" /\ r.n \in Nat
  /\ \A r \in FreeCall : r.at \in {"unwind", "release"} /\ r.todo \in Seq(Nat)
  /\ Idle.at = "idle"
<1>1. \A r \in MapCall : r.at = "map" /\ r.n \in Nat /\ r.base \in Nat /\ r.pages \in Nat
  BY DEF MapCall
<1>2. \A r \in FreeCall : /\ r.at \in {"unwind", "release"} /\ r.todo \in Seq(Nat)
                          /\ r.base \in Nat /\ r.pages \in Nat
  BY DEF FreeCall
<1>3. Idle.at = "idle"
  BY DEF Idle
<1>. QED
  BY <1>1, <1>2, <1>3

\* find_free_space takes the range from the best block of the list.
LEMMA FromList ==
  ASSUME SpaceInv, NEW t \in Task, NEW pages \in Nat, call[t] = Idle,
         NEW i \in Block, IsBest(heap, pages + 2, i),
         call' = [call EXCEPT ![t] = [at |-> "map", base |-> heap.va[Nth(heap)[i]],
                                      pages |-> pages, n |-> 0]],
         heap' = Take(heap, pages + 2, i), UNCHANGED <<vmalloc_next, held, forgotten>>
  PROVE  SpaceInv'
<1> DEFINE size == pages + 2
           r == [at |-> "map", base |-> heap.va[Nth(heap)[i]], pages |-> pages, n |-> 0]
<1>0. HeapInv(heap) /\ heap \in HeapType /\ size \in Nat
  BY SMTT(30) DEF SpaceInv, HeapInv
<1>1. PICK b \in Block : b = Nth(heap)[i]
  BY <1>0, BestPlace
<1>2. PICK va \in Nat : va = heap.va[b]
  BY <1>0 DEF HeapType
<1>3. b \in Listed(heap) /\ heap.size[b] \in Nat /\ heap.size[b] >= size
  BY <1>0, <1>1, BestPlace DEF HeapType
<1>4. r \in MapCall /\ r.base = va /\ r.pages = pages /\ r # Idle
  BY <1>1, <1>2, NotIdle DEF MapCall
<1> HIDE DEF r
<1>5. /\ CallType' /\ call'[t] = r
      /\ \A u \in Task \ {t} : call'[u] = call[u]
  BY <1>4, CallSet DEF SpaceInv, CallType, r
<1>6. /\ HeapInv(heap')
      /\ \A c : c # b => (c \in Listed(heap') <=> c \in Listed(heap))
      /\ \A c \in Listed(heap) : c # b =>
           heap'.va[c] = heap.va[c] /\ heap'.size[c] = heap.size[c]
      /\ IF heap.size[b] = size THEN b \notin Listed(heap')
         ELSE /\ b \in Listed(heap') /\ heap'.va[b] = va + size
              /\ heap'.size[b] = heap.size[b] - size
  <2>1. CASE heap.size[b] = size
    BY <1>0, <1>1, <2>1, TakeAllKeeps, SMTT(30)
  <2>2. CASE heap.size[b] # size
    <3>1. /\ HeapInv(heap') /\ Listed(heap') = Listed(heap)
          /\ heap'.va[Nth(heap)[i]] = heap.va[Nth(heap)[i]] + size
          /\ heap'.size[Nth(heap)[i]] = heap.size[Nth(heap)[i]] - size
          /\ \A c \in Listed(heap) \ {Nth(heap)[i]} :
               heap'.va[c] = heap.va[c] /\ heap'.size[c] = heap.size[c]
      <4> HIDE DEF size
      <4>1. heap' = Take(heap, size, i) /\ IsBest(heap, size, i)
        BY DEF size
      <4>. QED
        BY <1>0, <1>1, <2>2, <4>1, TakeSomeKeeps, SMTT(30)
    <3>. QED
      BY <1>1, <1>2, <1>3, <2>2, <3>1
  <2>. QED
    BY <2>1, <2>2
<1> DEFINE M == va .. va + size - 1
<1>7. \A x \in Int : Owns("call", t, x)' <=> Owns("call", t, x) \/ (x \in M /\ Owns("free", b, x))
  <2>1. \A x \in Int : Owns("call", t, x)' <=> x \in va .. va + pages + 1
    BY <1>4, <1>5 DEF Owns, Busy, Extent
  <2>2. \A x \in Int : ~Owns("call", t, x)
    BY DEF Owns, Busy
  <2>3. \A x \in Int : Owns("free", b, x) <=> x \in va .. va + heap.size[b] - 1
    BY <1>2, <1>3 DEF Owns, Covers
  <2>4. \A x \in Int : x \in va .. va + pages + 1 <=>
                         x \in M /\ x \in va .. va + heap.size[b] - 1
    BY <1>3, SMTT(30)
  <2>. QED
    BY <2>1, <2>2, <2>3, <2>4
<1>8. \A x \in Int : Owns("free", b, x)' <=> Owns("free", b, x) /\ x \notin M
  <2>1. \A x \in Int : Owns("free", b, x) <=> x \in va .. va + heap.size[b] - 1
    BY <1>2, <1>3 DEF Owns, Covers
  <2>2. \A x \in Int : Owns("free", b, x)' <=> b \in Listed(heap') /\
          x \in heap'.va[b] .. heap'.va[b] + heap'.size[b] - 1
    BY DEF Owns, Covers
  <2>3. CASE heap.size[b] = size
    BY <1>6, <2>1, <2>2, <2>3
  <2>4. CASE heap.size[b] # size
    <3>1. PICK s \in Nat : s = heap.size[b]
      BY <1>3
    <3>2. \A x \in Int : Owns("free", b, x)' <=> x \in va + size .. va + size + (s - size) - 1
      BY <1>6, <2>2, <2>4, <3>1
    <3>3. \A x \in Int : x \in va + size .. va + size + (s - size) - 1 <=>
                           x \in va .. va + s - 1 /\ x \notin M
      BY <1>0, <1>3, <3>1, SMTT(30)
    <3> HIDE DEF M
    <3>. QED
      BY <2>1, <3>1, <3>2, <3>3
  <2>. QED
    BY <2>3, <2>4
<1>9. \A x \in Int : \A j, q : <<j, q>> # <<"free", b>> /\ <<j, q>> # <<"call", t>> =>
        (Owns(j, q, x)' <=> Owns(j, q, x))
  <2>1. \A x \in Int : \A q : q # b => (Owns("free", q, x)' <=> Owns("free", q, x))
    BY <1>6 DEF Owns, Covers
  <2>2. \A x \in Int : \A q : q # t => (Owns("call", q, x)' <=> Owns("call", q, x))
    BY <1>5 DEF Owns, Busy
  <2>3. \A x \in Int : \A j, q : j # "free" /\ j # "call" => (Owns(j, q, x)' <=> Owns(j, q, x))
    BY SMTT(30) DEF Owns
  <2>. QED
    BY <2>1, <2>2, <2>3
<1>10. Apart' /\ Whole'
  <2> HIDE DEF M
  <2>1. Passes("free", b, "call", t, M)
    BY <1>7, <1>8, <1>9 DEF Passes
  <2>. QED
    BY <2>1, Passed
<1>. QED
  BY <1>5, <1>6, <1>10 DEF SpaceInv

\* find_free_space takes the range from the space never used.
LEMMA FromAbove ==
  ASSUME SpaceInv, NEW t \in Task, NEW pages \in Nat, call[t] = Idle,
         call' = [call EXCEPT ![t] = [at |-> "map", base |-> vmalloc_next,
                                      pages |-> pages, n |-> 0]],
         vmalloc_next' = vmalloc_next + (pages + 2), UNCHANGED <<heap, held, forgotten>>
  PROVE  SpaceInv'
<1> DEFINE r == [at |-> "map", base |-> vmalloc_next, pages |-> pages, n |-> 0]
<1>0. CallType /\ vmalloc_next \in Nat /\ Start \in Nat /\ Start <= vmalloc_next
  BY VmallocConstants DEF SpaceInv, CallType
<1>1. r \in MapCall /\ r.base = vmalloc_next /\ r.pages = pages /\ r # Idle
  BY <1>0, NotIdle DEF MapCall
<1> HIDE DEF r
<1>2. /\ CallType' /\ call'[t] = r
      /\ \A u \in Task \ {t} : call'[u] = call[u]
  BY <1>0, <1>1, CallSet, SMTT(30) DEF CallType, r
<1>3. \A x \in Int : Owns("call", t, x)' <=> x \in vmalloc_next .. vmalloc_next + pages + 1
  BY <1>1, <1>2 DEF Owns, Busy, Extent
<1>4. \A x \in Int : ~Owns("call", t, x)
  BY DEF Owns, Busy
<1>5. \A x \in Int : \A j, q : <<j, q>> # <<"call", t>> => (Owns(j, q, x)' <=> Owns(j, q, x))
  BY <1>2, SMTT(30) DEF Owns, Busy, Covers
<1>6. \A x \in Int : \A j, q : Owns(j, q, x) => x < vmalloc_next
  BY <1>0, SMTT(30) DEF SpaceInv, Whole
<1>7. Apart'
  <2> SUFFICES ASSUME NEW x \in Int, NEW k, NEW l, NEW o, NEW p, Owns(k, o, x)', Owns(l, p, x)'
               PROVE  k = l /\ o = p
    BY DEF Apart
  <2>1. CASE <<k, o>> # <<"call", t>> /\ <<l, p>> # <<"call", t>>
    BY <1>5, <2>1 DEF SpaceInv, Apart
  <2>2. CASE <<k, o>> = <<"call", t>> /\ <<l, p>> # <<"call", t>>
    BY <1>0, <1>3, <1>5, <1>6, <2>2, SMTT(30)
  <2>3. CASE <<k, o>> # <<"call", t>> /\ <<l, p>> = <<"call", t>>
    BY <1>0, <1>3, <1>5, <1>6, <2>3, SMTT(30)
  <2>. QED
    BY <2>1, <2>2, <2>3
<1>8. Whole'
  <2> SUFFICES ASSUME NEW x \in Int
               PROVE  x \in Start .. vmalloc_next' - 1 <=> \E k, o : Owns(k, o, x)'
    BY DEF Whole
  <2>1. CASE x < vmalloc_next
    <3>1. x \in Start .. vmalloc_next' - 1 <=> x \in Start .. vmalloc_next - 1
      BY <1>0, <2>1, SMTT(30)
    <3>2. (\E k, o : Owns(k, o, x)) => \E k, o : Owns(k, o, x)'
      BY <1>4, <1>5
    <3>3. ~Owns("call", t, x)'
      BY <1>0, <1>3, <2>1, SMTT(30)
    <3>4. (\E k, o : Owns(k, o, x)') => \E k, o : Owns(k, o, x)
      BY <1>5, <3>3
    <3>. QED
      BY <3>1, <3>2, <3>4 DEF SpaceInv, Whole
  <2>2. CASE x >= vmalloc_next
    <3>1. x \in Start .. vmalloc_next' - 1 <=> Owns("call", t, x)'
      BY <1>0, <1>3, <2>2, SMTT(30)
    <3>2. \A j, q : <<j, q>> # <<"call", t>> => ~Owns(j, q, x)'
      BY <1>0, <1>5, <1>6, <2>2, SMTT(30)
    <3>. QED
      BY <3>1, <3>2
  <2>. QED
    BY <1>0, <2>1, <2>2, SMTT(30)
<1>. QED
  BY <1>2, <1>7, <1>8 DEF SpaceInv

\* A step that leaves every range where it is.
LEMMA OwnersStay ==
  ASSUME SpaceInv, CallType', heap' = heap, vmalloc_next' = vmalloc_next,
         held' = held, forgotten' = forgotten,
         \A t \in Task : /\ call'[t] = Idle <=> call[t] = Idle
                         /\ call[t] # Idle => /\ call'[t].base = call[t].base
                                              /\ call'[t].pages = call[t].pages
  PROVE  SpaceInv'
<1>1. \A x \in Int : \A j, q : Owns(j, q, x)' <=> Owns(j, q, x)
  BY SMTT(30) DEF Owns, Busy, Covers
<1>2. Apart'
  BY <1>1 DEF SpaceInv, Apart
<1>3. Whole'
  BY <1>1 DEF SpaceInv, Whole
<1>. QED
  BY <1>2, <1>3 DEF SpaceInv

\* vmalloc returns: what the call had is held.
LEMMA CallToHeld ==
  ASSUME SpaceInv, NEW t \in Task, call[t] # Idle,
         call' = [call EXCEPT ![t] = Idle],
         held' = held \cup {<<call[t].base, call[t].pages>>},
         UNCHANGED <<heap, vmalloc_next, forgotten>>
  PROVE  SpaceInv'
<1>0. CallType /\ call[t].base \in Nat /\ call[t].pages \in Nat
  BY NotIdle DEF SpaceInv, CallType
<1> DEFINE M == Int
<1>a. PICK a : a = <<call[t].base, call[t].pages>>
  OBVIOUS
<1>1. /\ a = <<call[t].base, call[t].pages>> /\ a \in Nat \X Nat
      /\ a[1] = call[t].base /\ a[2] = call[t].pages
  BY <1>0, <1>a
<1>2. /\ CallType' /\ call'[t] = Idle
      /\ \A u \in Task \ {t} : call'[u] = call[u]
  BY <1>0, <1>1, CallSet DEF CallType
<1>3. \A x \in Int : Owns("held", a, x)' <=> Owns("held", a, x) \/ (x \in M /\ Owns("call", t, x))
  BY <1>1 DEF Owns, Busy
<1>4. \A x \in Int : Owns("call", t, x)' <=> Owns("call", t, x) /\ x \notin M
  BY <1>2 DEF Owns, Busy
<1>5. \A x \in Int : \A j, q : <<j, q>> # <<"call", t>> /\ <<j, q>> # <<"held", a>> =>
        (Owns(j, q, x)' <=> Owns(j, q, x))
  BY <1>1, <1>2, SMTT(30) DEF Owns, Busy, Covers
<1>6. Apart' /\ Whole'
  <2> HIDE DEF M
  <2>1. Passes("call", t, "held", a, M)
    BY <1>3, <1>4, <1>5 DEF Passes
  <2>. QED
    BY <2>1, Passed
<1>. QED
  BY <1>2, <1>6 DEF SpaceInv

\* vfree begins: what was held is the call's.
LEMMA HeldToCall ==
  ASSUME SpaceInv, NEW t \in Task, call[t] = Idle, NEW a \in held, NEW r \in FreeCall,
         r.base = a[1], r.pages = a[2],
         call' = [call EXCEPT ![t] = r], held' = held \ {a},
         UNCHANGED <<heap, vmalloc_next, forgotten>>
  PROVE  SpaceInv'
<1> DEFINE M == Int
<1>2. /\ CallType' /\ call'[t] = r
      /\ \A u \in Task \ {t} : call'[u] = call[u]
  BY CallSet DEF CallType, SpaceInv
<1>3. \A x \in Int : Owns("call", t, x)' <=> Owns("call", t, x) \/ (x \in M /\ Owns("held", a, x))
  BY <1>2, NotIdle DEF Owns, Busy
<1>4. \A x \in Int : Owns("held", a, x)' <=> Owns("held", a, x) /\ x \notin M
  BY DEF Owns
<1>5. \A x \in Int : \A j, q : <<j, q>> # <<"held", a>> /\ <<j, q>> # <<"call", t>> =>
        (Owns(j, q, x)' <=> Owns(j, q, x))
  BY <1>2, SMTT(30) DEF Owns, Busy, Covers
<1>6. Apart' /\ Whole'
  <2> HIDE DEF M
  <2>1. Passes("held", a, "call", t, M)
    BY <1>3, <1>4, <1>5 DEF Passes
  <2>. QED
    BY <2>1, Passed
<1>. QED
  BY <1>2, <1>6 DEF SpaceInv

\* add_free_space puts the call's range in the free list.
LEMMA CallToFree ==
  ASSUME SpaceInv, NEW t \in Task, call[t] # Idle, heap.pool # NULL,
         call' = [call EXCEPT ![t] = Idle],
         heap' = Insert(heap, call[t].base, call[t].pages + 2),
         UNCHANGED <<vmalloc_next, held, forgotten>>
  PROVE  SpaceInv'
<1> DEFINE M == Int
<1>0. CallType /\ call[t].base \in Nat /\ call[t].pages \in Nat /\ HeapInv(heap)
  BY NotIdle DEF SpaceInv, CallType
<1>1. PICK base \in Nat, pages \in Nat : base = call[t].base /\ pages = call[t].pages
  BY <1>0
<1>2. PICK b \in Block : b = heap.pool
  BY <1>0 DEF HeapInv, HeapType
<1>3. /\ HeapInv(heap') /\ b \notin Listed(heap) /\ Listed(heap') = Listed(heap) \cup {b}
      /\ heap'.va[b] = base /\ heap'.size[b] = pages + 2
      /\ \A c \in Listed(heap) : heap'.va[c] = heap.va[c] /\ heap'.size[c] = heap.size[c]
  <2>1. PICK size \in Nat : size = pages + 2
    BY SMTT(30)
  <2>2. heap' = Insert(heap, base, size) /\ heap.pool \in Block /\ HeapInv(heap)
    BY <1>0, <1>1, <1>2, <2>1
  <2>3. /\ HeapInv(heap') /\ heap.pool \notin Listed(heap)
        /\ Listed(heap') = Listed(heap) \cup {heap.pool}
        /\ heap'.va[heap.pool] = base /\ heap'.size[heap.pool] = size
        /\ \A c \in Listed(heap) : heap'.va[c] = heap.va[c] /\ heap'.size[c] = heap.size[c]
    BY <2>2, Inserted, SMTT(30) DEF IsInserted
  <2>. QED
    BY <1>2, <2>1, <2>3
<1>4. /\ CallType' /\ call'[t] = Idle
      /\ \A u \in Task \ {t} : call'[u] = call[u]
  BY <1>0, CallSet DEF CallType
<1>5. \A x \in Int : Owns("free", b, x)' <=> Owns("free", b, x) \/ (x \in M /\ Owns("call", t, x))
  <2>1. \A x \in Int : Owns("free", b, x)' <=> x \in base .. base + (pages + 2) - 1
    BY <1>3 DEF Owns, Covers
  <2>2. \A x \in Int : ~Owns("free", b, x)
    BY <1>3 DEF Owns
  <2>3. \A x \in Int : Owns("call", t, x) <=> x \in base .. base + pages + 1
    BY <1>1 DEF Owns, Busy, Extent
  <2>. QED
    BY <2>1, <2>2, <2>3, SMTT(30)
<1>6. \A x \in Int : Owns("call", t, x)' <=> Owns("call", t, x) /\ x \notin M
  BY <1>4 DEF Owns, Busy
<1>7. \A x \in Int : \A j, q : <<j, q>> # <<"call", t>> /\ <<j, q>> # <<"free", b>> =>
        (Owns(j, q, x)' <=> Owns(j, q, x))
  <2>1. \A x \in Int : \A q : q # b => (Owns("free", q, x)' <=> Owns("free", q, x))
    BY <1>3 DEF Owns, Covers
  <2>2. \A x \in Int : \A q : q # t => (Owns("call", q, x)' <=> Owns("call", q, x))
    BY <1>4 DEF Owns, Busy
  <2>3. \A x \in Int : \A j, q : j # "free" /\ j # "call" => (Owns(j, q, x)' <=> Owns(j, q, x))
    BY SMTT(30) DEF Owns
  <2>. QED
    BY <2>1, <2>2, <2>3
<1>8. Apart' /\ Whole'
  <2> HIDE DEF M
  <2>1. Passes("call", t, "free", b, M)
    BY <1>5, <1>6, <1>7 DEF Passes
  <2>. QED
    BY <2>1, Passed
<1>. QED
  BY <1>3, <1>4, <1>8 DEF SpaceInv

\* add_free_space finds no block, and the call's range is forgotten.
LEMMA CallToLost ==
  ASSUME SpaceInv, NEW t \in Task, call[t] # Idle,
         call' = [call EXCEPT ![t] = Idle],
         forgotten' = forgotten \cup Extent(call[t].base, call[t].pages),
         UNCHANGED <<heap, vmalloc_next, held>>
  PROVE  SpaceInv'
<1> DEFINE M == Int
<1>z. PICK z : z = 0
  OBVIOUS
<1>0. CallType /\ call[t].base \in Nat /\ call[t].pages \in Nat
  BY NotIdle DEF SpaceInv, CallType
<1>1. Extent(call[t].base, call[t].pages) \subseteq Int
  BY <1>0, SMTT(30) DEF Extent
<1>4. /\ CallType' /\ call'[t] = Idle
      /\ \A u \in Task \ {t} : call'[u] = call[u]
  BY <1>0, <1>1, CallSet DEF CallType
<1>5. \A x \in Int : Owns("lost", z, x)' <=> Owns("lost", z, x) \/ (x \in M /\ Owns("call", t, x))
  BY <1>z DEF Owns, Busy
<1>6. \A x \in Int : Owns("call", t, x)' <=> Owns("call", t, x) /\ x \notin M
  BY <1>4 DEF Owns, Busy
<1>7. \A x \in Int : \A j, q : <<j, q>> # <<"call", t>> /\ <<j, q>> # <<"lost", z>> =>
        (Owns(j, q, x)' <=> Owns(j, q, x))
  BY <1>4, <1>z, SMTT(30) DEF Owns, Busy, Covers
<1>8. Apart' /\ Whole'
  <2> HIDE DEF M
  <2>1. Passes("call", t, "lost", z, M)
    BY <1>5, <1>6, <1>7 DEF Passes
  <2>. QED
    BY <2>1, Passed
<1>. QED
  BY <1>4, <1>8 DEF SpaceInv

\* A call that goes on keeps its range.
LEMMA CallGoesOn ==
  ASSUME SpaceInv, NEW t \in Task, call[t] # Idle, NEW r \in MapCall \cup FreeCall,
         r.base = call[t].base, r.pages = call[t].pages,
         call' = [call EXCEPT ![t] = r], UNCHANGED <<heap, vmalloc_next, held, forgotten>>
  PROVE  SpaceInv'
<1>1. /\ CallType' /\ call'[t] = r
      /\ \A u \in Task \ {t} : call'[u] = call[u]
  BY CallSet DEF CallType, SpaceInv
<1>2. r # Idle
  BY NotIdle
<1>3. \A u \in Task : /\ call'[u] = Idle <=> call[u] = Idle
                      /\ call[u] # Idle => /\ call'[u].base = call[u].base
                                           /\ call'[u].pages = call[u].pages
  BY <1>1, <1>2
<1>. QED
  BY <1>1, <1>3, OwnersStay

\* The orders in which pages are given back are sequences of page numbers.
LEMMA OrdersType ==
  /\ \A n \in Nat : Unwind(n) \in Seq(Nat)
  /\ \A pages \in Nat : VfreeOrder(pages) \in Seq(Nat)
<1>1. ASSUME NEW n \in Nat PROVE Unwind(n) \in Seq(Nat)
  <2>1. CASE n = 0
    BY <2>1, SMTT(30) DEF Unwind
  <2>2. CASE n # 0
    <3>1. \A i \in 1 .. n : i % n \in Nat
      BY <2>2, SMTT(30)
    <3>. QED
      BY <2>2, <3>1, SMTT(30) DEF Unwind
  <2>. QED
    BY <2>1, <2>2
<1>2. ASSUME NEW pages \in Nat PROVE VfreeOrder(pages) \in Seq(Nat)
  <2>1. [i \in 1 .. pages |-> i] \in Seq(Nat) /\ <<0, pages + 1>> \in Seq(Nat)
    BY SMTT(30)
  <2>. QED
    BY <2>1, SMTT(30) DEF VfreeOrder
<1>. QED
  BY <1>1, <1>2

\* A call that maps the next page, or gives back the next one.
LEMMA CallFields ==
  /\ \A r \in MapCall : LET s == [r EXCEPT !.n = @ + 1]
                        IN  /\ s \in MapCall /\ s.base = r.base /\ s.pages = r.pages
                            /\ s.n = r.n + 1
  /\ \A r \in FreeCall : r.todo # <<>> =>
       LET s == [r EXCEPT !.todo = Tail(@)]
       IN  /\ s \in FreeCall /\ s.base = r.base /\ s.pages = r.pages
           /\ s.todo = Tail(r.todo) /\ s.at = r.at
  /\ \A n, base, pages \in Nat :
       LET s == [at |-> "unwind", base |-> base, pages |-> pages, todo |-> Unwind(n)]
       IN  s \in FreeCall /\ s.base = base /\ s.pages = pages /\ s.todo = Unwind(n)
  /\ \A base, pages \in Nat :
       LET s == [at |-> "release", base |-> base, pages |-> pages, todo |-> VfreeOrder(pages)]
       IN  s \in FreeCall /\ s.base = base /\ s.pages = pages /\ s.todo = VfreeOrder(pages)
<1>1. ASSUME NEW r \in MapCall
      PROVE  LET s == [r EXCEPT !.n = @ + 1]
             IN  /\ s \in MapCall /\ s.base = r.base /\ s.pages = r.pages /\ s.n = r.n + 1
  BY SMTT(30) DEF MapCall
<1>2. ASSUME NEW r \in FreeCall, r.todo # <<>>
      PROVE  LET s == [r EXCEPT !.todo = Tail(@)]
             IN  /\ s \in FreeCall /\ s.base = r.base /\ s.pages = r.pages
                 /\ s.todo = Tail(r.todo) /\ s.at = r.at
  <2>1. Tail(r.todo) \in Seq(Nat)
    BY <1>2, SMTT(30) DEF FreeCall
  <2>. QED
    BY <1>2, <2>1 DEF FreeCall
<1>3. ASSUME NEW n \in Nat, NEW base \in Nat, NEW pages \in Nat
      PROVE  LET s == [at |-> "unwind", base |-> base, pages |-> pages, todo |-> Unwind(n)]
             IN  s \in FreeCall /\ s.base = base /\ s.pages = pages /\ s.todo = Unwind(n)
  BY OrdersType DEF FreeCall
<1>4. ASSUME NEW base \in Nat, NEW pages \in Nat
      PROVE  LET s == [at |-> "release", base |-> base, pages |-> pages,
                       todo |-> VfreeOrder(pages)]
             IN  s \in FreeCall /\ s.base = base /\ s.pages = pages /\ s.todo = VfreeOrder(pages)
  BY OrdersType DEF FreeCall
<1>. QED
  BY <1>1, <1>2, <1>3, <1>4

-----------------------------------------------------------------------------
(* Every step of the model. *)

\* vmalloc's find_free_space.
LEMMA FindKeepsSpace ==
  ASSUME SpaceInv, NEW t \in Task, NEW pages \in Sizes, FindFreeSpace(t, pages)
  PROVE  SpaceInv'
<1>0. pages \in Nat /\ call[t] = Idle /\ UNCHANGED <<held, forgotten>>
  BY VmallocConstants DEF FindFreeSpace
<1>1. CASE \E i \in Block :
             /\ IsBest(heap, pages + 2, i)
             /\ call' = [call EXCEPT ![t] = [at |-> "map", base |-> heap.va[Nth(heap)[i]],
                                             pages |-> pages, n |-> 0]]
             /\ heap' = Take(heap, pages + 2, i)
             /\ UNCHANGED vmalloc_next
  BY <1>0, <1>1, FromList
<1>2. CASE /\ call' = [call EXCEPT ![t] = [at |-> "map", base |-> vmalloc_next,
                                           pages |-> pages, n |-> 0]]
           /\ vmalloc_next' = vmalloc_next + (pages + 2)
           /\ UNCHANGED heap
  BY <1>0, <1>2, FromAbove
<1>. QED
  BY <1>1, <1>2 DEF FindFreeSpace

\* What the place a call is at says of it.
LEMMA CallKind ==
  ASSUME CallType, NEW t \in Task
  PROVE  /\ call[t].at = "map" => call[t] \in MapCall /\ call[t] # Idle
         /\ call[t].at \in {"unwind", "release"} => call[t] \in FreeCall /\ call[t] # Idle
<1>1. call[t] \in {Idle} \cup MapCall \cup FreeCall
  BY DEF CallType
<1>. QED
  BY <1>1, NotIdle

\* vmalloc maps a page.
LEMMA MapKeepsSpace ==
  ASSUME SpaceInv, NEW t \in Task, MapNext(t)
  PROVE  SpaceInv'
<1>0. /\ call[t] \in MapCall /\ call[t] # Idle
      /\ UNCHANGED <<heap, vmalloc_next, forgotten>>
  BY CallKind DEF SpaceInv, MapNext
<1>1. CASE /\ held' = held \cup {<<call[t].base, call[t].pages>>}
           /\ call' = [call EXCEPT ![t] = Idle]
  BY <1>0, <1>1, CallToHeld
<1>2. CASE call' = [call EXCEPT ![t].n = @ + 1] /\ UNCHANGED held
  <2>1. PICK r : r = [call[t] EXCEPT !.n = @ + 1]
    OBVIOUS
  <2>2. r \in MapCall /\ r.base = call[t].base /\ r.pages = call[t].pages
    BY <1>0, <2>1, CallFields
  <2>3. call' = [call EXCEPT ![t] = r]
    BY <1>2, <2>1
  <2>. QED
    BY <1>0, <1>2, <2>2, <2>3, CallGoesOn
<1>. QED
  BY <1>1, <1>2 DEF MapNext

\* vmalloc gets no page.
LEMMA NoPageKeepsSpace ==
  ASSUME SpaceInv, NEW t \in Task, NoPage(t)
  PROVE  SpaceInv'
<1>0. /\ call[t] \in MapCall /\ call[t] # Idle
      /\ UNCHANGED <<heap, vmalloc_next, held, forgotten>>
  BY CallKind DEF SpaceInv, NoPage
<1>1. PICK r : r = [at |-> "unwind", base |-> call[t].base, pages |-> call[t].pages,
                    todo |-> Unwind(call[t].n)]
  OBVIOUS
<1>2. r \in FreeCall /\ r.base = call[t].base /\ r.pages = call[t].pages
  <2>1. call[t].base \in Nat /\ call[t].pages \in Nat /\ call[t].n \in Nat
    BY <1>0, NotIdle
  <2>. QED
    BY <1>1, <2>1, CallFields
<1>3. call' = [call EXCEPT ![t] = r]
  BY <1>1 DEF NoPage
<1>. QED
  BY <1>0, <1>2, <1>3, CallGoesOn

\* vfree begins.
LEMMA VfreeKeepsSpace ==
  ASSUME SpaceInv, NEW t \in Task, Vfree(t)
  PROVE  SpaceInv'
<1>1. PICK a \in held :
        /\ held' = held \ {a}
        /\ call' = [call EXCEPT ![t] = [at |-> "release", base |-> a[1],
                      pages |-> a[2], todo |-> VfreeOrder(a[2])]]
  BY DEF Vfree
<1>2. PICK r : r = [at |-> "release", base |-> a[1], pages |-> a[2], todo |-> VfreeOrder(a[2])]
  OBVIOUS
<1>3. r \in FreeCall /\ r.base = a[1] /\ r.pages = a[2]
  <2>1. a[1] \in Nat /\ a[2] \in Nat
    BY DEF SpaceInv, CallType
  <2>. QED
    BY <1>2, <2>1, CallFields
<1>4. call[t] = Idle /\ UNCHANGED <<heap, vmalloc_next, forgotten>>
  BY DEF Vfree
<1>5. call' = [call EXCEPT ![t] = r]
  BY <1>1, <1>2
<1>. QED
  BY <1>1, <1>3, <1>4, <1>5, HeldToCall

\* vfree, or a vmalloc that failed, gives back a page.
LEMMA ReleaseKeepsSpace ==
  ASSUME SpaceInv, NEW t \in Task, ReleasePage(t)
  PROVE  SpaceInv'
<1>0. /\ call[t] \in FreeCall /\ call[t] # Idle /\ call[t].todo # <<>>
      /\ UNCHANGED <<heap, vmalloc_next, held, forgotten>>
  BY CallKind DEF SpaceInv, ReleasePage
<1>1. PICK r : r = [call[t] EXCEPT !.todo = Tail(@)]
  OBVIOUS
<1>2. r \in FreeCall /\ r.base = call[t].base /\ r.pages = call[t].pages
  BY <1>0, <1>1, CallFields
<1>3. call' = [call EXCEPT ![t] = r]
  BY <1>1 DEF ReleasePage
<1>. QED
  BY <1>0, <1>2, <1>3, CallGoesOn

\* add_free_space.
LEMMA AddKeepsSpace ==
  ASSUME SpaceInv, NEW t \in Task, AddFreeSpace(t)
  PROVE  SpaceInv'
<1>0. /\ call[t] # Idle /\ call' = [call EXCEPT ![t] = Idle]
      /\ UNCHANGED <<vmalloc_next, held>>
  BY CallKind DEF SpaceInv, AddFreeSpace
<1>1. CASE heap.pool = NULL
  BY <1>0, <1>1, CallToLost DEF AddFreeSpace
<1>2. CASE heap.pool # NULL
  BY <1>0, <1>2, CallToFree DEF AddFreeSpace
<1>. QED
  BY <1>1, <1>2

\* A step of anything else that merges nothing.
LEMMA OtherKeepsSpace ==
  ASSUME SpaceInv, UNCHANGED <<heap, vmalloc_next, call, held, forgotten>>
  PROVE  SpaceInv'
<1>1. CallType'
  BY DEF SpaceInv, CallType
<1>. QED
  BY <1>1, OwnersStay

\* At the start every block is in the pool and no address was handed out.
LEMMA InitSpace ==
  ASSUME Init
  PROVE  SpaceInv
<1>0. Blocks \in Nat /\ NULL \notin Block /\ Start \in Nat
  BY VmallocConstants DEF Block
<1>1. /\ heap.list = NULL /\ heap.pool = IF Blocks = 0 THEN NULL ELSE Blocks
      /\ \A b \in Block : heap.next[b] = IF b = 1 THEN NULL ELSE b - 1
  BY DEF Init
<1>2. heap \in HeapType
  BY <1>0, SMTT(30) DEF Init, HeapType, Block
<1>3. \A i \in Places : Nth(heap)[i] = NULL
  <2> DEFINE S == {i \in Places : Nth(heap)[i] = NULL}
  <2>1. 1 \in S
    BY <1>0, <1>1, NthNext, SMTT(30) DEF Places
  <2>2. ASSUME NEW i \in Places, i # 1, i - 1 \in S PROVE i \in S
    BY <2>2, NthNext DEF Link
  <2>3. S \in SUBSET Places
    OBVIOUS
  <2>4. S = Places
    <3> HIDE DEF S
    <3>. QED
      BY <2>1, <2>2, <2>3, AlongPlaces
  <2>. QED
    BY <2>4
<1>4. NthInj(heap) /\ Listed(heap) = {}
  BY <1>0, <1>3, SMTT(30) DEF NthInj, Listed, Places, Block
<1>5. PoolInv(heap)
  BY <1>0, <1>1, <1>4, SMTT(30) DEF PoolInv, Block
<1>6. CallType
  BY <1>0, SMTT(30) DEF Init, CallType
<1>7. \A x \in Int : \A k, o : ~Owns(k, o, x)
  BY <1>4 DEF Init, Owns, Busy
<1>8. Apart /\ Whole
  BY <1>0, <1>7, SMTT(30) DEF Init, Apart, Whole
<1>. QED
  BY <1>2, <1>4, <1>5, <1>6, <1>8 DEF SpaceInv, HeapInv

UnmergedSpace == ~merged => SpaceInv

\* As long as no blocks were merged, every address vmalloc ever handed out has
\* exactly one owner, and the list and the pool share the blocks out.
THEOREM SpaceShared == Spec => []UnmergedSpace
<1>1. Init => UnmergedSpace
  BY InitSpace DEF UnmergedSpace
<1>2. UnmergedSpace /\ [Next]_vars => UnmergedSpace'
  <2> SUFFICES ASSUME UnmergedSpace, [Next]_vars, ~merged' PROVE SpaceInv'
    BY DEF UnmergedSpace
  <2>1. CASE UNCHANGED vars
    BY <2>1, OtherKeepsSpace DEF UnmergedSpace, vars
  <2>2. ASSUME NEW t \in Task, NEW pages \in Sizes, FindFreeSpace(t, pages) PROVE SpaceInv'
    <3>1. SpaceInv
      BY <2>2 DEF UnmergedSpace, FindFreeSpace
    <3>. QED
      BY <2>2, <3>1, FindKeepsSpace
  <2>3. ASSUME NEW t \in Task, MapNext(t) PROVE SpaceInv'
    <3>1. SpaceInv
      BY <2>3 DEF UnmergedSpace, MapNext
    <3>. QED
      BY <2>3, <3>1, MapKeepsSpace
  <2>4. ASSUME NEW t \in Task, NoPage(t) PROVE SpaceInv'
    <3>1. SpaceInv
      BY <2>4 DEF UnmergedSpace, NoPage
    <3>. QED
      BY <2>4, <3>1, NoPageKeepsSpace
  <2>5. ASSUME NEW t \in Task, Vfree(t) PROVE SpaceInv'
    <3>1. SpaceInv
      BY <2>5 DEF UnmergedSpace, Vfree
    <3>. QED
      BY <2>5, <3>1, VfreeKeepsSpace
  <2>6. ASSUME NEW t \in Task, ReleasePage(t) PROVE SpaceInv'
    <3>1. SpaceInv
      BY <2>6 DEF UnmergedSpace, ReleasePage
    <3>. QED
      BY <2>6, <3>1, ReleaseKeepsSpace
  <2>7. ASSUME NEW t \in Task, AddFreeSpace(t) PROVE SpaceInv'
    <3>1. SpaceInv
      BY <2>7 DEF UnmergedSpace, AddFreeSpace
    <3>. QED
      BY <2>7, <3>1, AddKeepsSpace
  <2>8. CASE MergeIntoCur \/ MergeIntoNext
    BY <2>8 DEF MergeIntoCur, MergeIntoNext
  <2>9. CASE Advance \/ NextCur
    BY <2>9, OtherKeepsSpace DEF UnmergedSpace, Advance, NextCur
  <2>. QED
    BY <2>1, <2>2, <2>3, <2>4, <2>5, <2>6, <2>7, <2>8, <2>9 DEF Next
<1>. QED
  BY <1>1, <1>2, PTL DEF Spec

\* The ranges in use are those that the kinds "held" and "call" own.
LEMMA InUseOwned ==
  ASSUME SpaceInv, NEW a \in InUse
  PROVE  /\ a[1] \in Nat /\ a[2] \in Nat
         /\ \/ a \in held /\ \A x \in Extent(a[1], a[2]) : Owns("held", a, x)
            \/ \E t \in Busy : /\ a = <<call[t].base, call[t].pages>>
                               /\ \A x \in Extent(a[1], a[2]) : Owns("call", t, x)
<1>1. CASE a \in held
  BY <1>1 DEF SpaceInv, CallType, Owns
<1>2. CASE \E t \in Busy : a = <<call[t].base, call[t].pages>>
  <2>1. PICK t \in Busy : a = <<call[t].base, call[t].pages>>
    BY <1>2
  <2>2. t \in Task /\ call[t].base \in Nat /\ call[t].pages \in Nat
    BY NotIdle DEF SpaceInv, CallType, Busy
  <2>3. a[1] = call[t].base /\ a[2] = call[t].pages
    BY <2>1
  <2>. QED
    BY <2>1, <2>2, <2>3 DEF Owns
<1>. QED
  BY <1>1, <1>2 DEF InUse

\* One owner per address is what Exclusive says.
LEMMA ApartIsExclusive ==
  ASSUME SpaceInv
  PROVE  Exclusive
<1>0. Apart /\ CallType
  BY DEF SpaceInv
<1>1. \A a \in InUse : a[1] \in Extent(a[1], a[2]) /\ Extent(a[1], a[2]) \subseteq Int
  BY InUseOwned, SMTT(30) DEF Extent
<1>2. ASSUME NEW a \in InUse, NEW b \in InUse, a # b,
             NEW x \in Extent(a[1], a[2]), x \in Extent(b[1], b[2])
      PROVE  FALSE
  <2>1. x \in Int
    BY <1>1
  <2>2. \A k, l, o, p : Owns(k, o, x) /\ Owns(l, p, x) => k = l /\ o = p
    BY <1>0, <2>1 DEF Apart
  <2>3. \/ a \in held /\ Owns("held", a, x)
        \/ \E t \in Busy : a = <<call[t].base, call[t].pages>> /\ Owns("call", t, x)
    BY InUseOwned
  <2>4. \/ b \in held /\ Owns("held", b, x)
        \/ \E t \in Busy : b = <<call[t].base, call[t].pages>> /\ Owns("call", t, x)
    BY <1>2, InUseOwned
  <2>. QED
    BY <1>2, <2>2, <2>3, <2>4
<1>3. ASSUME NEW t \in Busy
      PROVE  /\ call[t].base \in Int /\ Owns("call", t, call[t].base)
             /\ <<call[t].base, call[t].pages>> \in InUse
  <2>1. t \in Task /\ call[t].base \in Nat /\ call[t].pages \in Nat
    BY <1>0, NotIdle DEF CallType, Busy
  <2>. QED
    BY <2>1, SMTT(30) DEF Owns, Extent, InUse
<1>4. ASSUME NEW t \in Busy, NEW u \in Busy, t # u PROVE call[t].base # call[u].base
  BY <1>0, <1>3, <1>4 DEF Apart
<1>5. ASSUME NEW t \in Busy PROVE <<call[t].base, call[t].pages>> \notin held
  <2> SUFFICES ASSUME <<call[t].base, call[t].pages>> \in held PROVE FALSE
    OBVIOUS
  <2>1. call[t].base \in Extent(call[t].base, call[t].pages)
    BY <1>3 DEF Owns
  <2>2. PICK a \in held : a[1] = call[t].base /\ a[2] = call[t].pages
    OBVIOUS
  <2>3. Owns("held", a, call[t].base)
    BY <2>1, <2>2 DEF Owns
  <2>. QED
    BY <1>0, <1>3, <2>3 DEF Apart
<1>6. ASSUME NEW b \in Listed(heap), NEW a \in InUse, NEW x \in Covers(b),
             x \in Extent(a[1], a[2])
      PROVE  FALSE
  <2>1. x \in Int
    BY <1>1, <1>6
  <2>2. \A k, l, o, p : Owns(k, o, x) /\ Owns(l, p, x) => k = l /\ o = p
    BY <1>0, <2>1 DEF Apart
  <2>3. Owns("free", b, x)
    BY DEF Owns
  <2>4. \E k, o : k # "free" /\ Owns(k, o, x)
    BY <1>6, InUseOwned
  <2>. QED
    BY <2>2, <2>3, <2>4
<1>7. ASSUME NEW b \in Listed(heap), NEW d \in Listed(heap), b # d, NEW x \in Covers(b),
             x \in Covers(d)
      PROVE  FALSE
  <2>1. x \in Int /\ Owns("free", b, x) /\ Owns("free", d, x)
    BY <1>7, SMTT(30) DEF Owns, Covers
  <2>. QED
    BY <1>0, <1>7, <2>1 DEF Apart
<1>. QED
  BY <1>2, <1>4, <1>5, <1>6, <1>7 DEF Exclusive

\* As long as no blocks were merged, best fit, splitting, growing and calls that
\* fail half way never hand out an address somebody has: Exclusive, for any
\* number of tasks, blocks and sizes.
THEOREM NoSharedAddress == Spec => []Exclusive
<1>1. UnmergedSpace => Exclusive
  <2>1. CASE merged
    BY <2>1 DEF Exclusive
  <2>2. CASE ~merged
    BY <2>2, ApartIsExclusive DEF UnmergedSpace
  <2>. QED
    BY <2>1, <2>2
<1>. QED
  BY <1>1, SpaceShared, PTL

\* With no call in progress the owners are the holders, the list and what was
\* forgotten.
LEMMA WholeIsNoLeak ==
  ASSUME SpaceInv, Busy = {}
  PROVE  LET inUse == UNION {Extent(h[1], h[2]) : h \in held}
             free  == UNION {Covers(b) : b \in Listed(heap)}
         IN  /\ Start .. vmalloc_next - 1 = inUse \cup free \cup forgotten
             /\ forgotten \cap (inUse \cup free) = {}
<1> DEFINE inUse == UNION {Extent(h[1], h[2]) : h \in held}
           free  == UNION {Covers(b) : b \in Listed(heap)}
<1>1. \A x : x \in inUse <=> x \in Int /\ \E h : Owns("held", h, x)
  <2>1. \A h \in held : Extent(h[1], h[2]) \subseteq Int
    BY SMTT(30) DEF SpaceInv, CallType, Extent
  <2>. QED
    BY <2>1 DEF Owns
<1>2. \A x : x \in free <=> x \in Int /\ \E b : Owns("free", b, x)
  <2>1. \A b \in Listed(heap) : Covers(b) \subseteq Int
    BY SMTT(30) DEF Covers
  <2>. QED
    BY <2>1 DEF Owns
<1>3. \A x : x \in forgotten <=> x \in Int /\ Owns("lost", 0, x)
  BY DEF Owns, SpaceInv, CallType
<1>4. \A x \in Int : \A k, o : Owns(k, o, x) =>
        \/ k = "held" \/ k = "free" \/ (k = "lost" /\ o = 0)
  BY DEF Owns
<1> HIDE DEF inUse, free
<1>5. \A x \in Int : x \in inUse \cup free \cup forgotten <=> \E k, o : Owns(k, o, x)
  BY <1>1, <1>2, <1>3, <1>4
<1>6. \A x \in Int : x \in Start .. vmalloc_next - 1 <=> x \in inUse \cup free \cup forgotten
  BY <1>5 DEF SpaceInv, Whole
<1>7. \A x : x \in Start .. vmalloc_next - 1 <=> x \in inUse \cup free \cup forgotten
  <2>1. \A x : x \in Start .. vmalloc_next - 1 => x \in Int
    BY SMTT(30)
  <2>2. \A x : x \in inUse \cup free \cup forgotten => x \in Int
    BY <1>1, <1>2, <1>3
  <2>. QED
    BY <1>6, <2>1, <2>2
<1>8. forgotten \cap (inUse \cup free) = {}
  <2> SUFFICES ASSUME NEW x \in forgotten, x \in inUse \cup free PROVE FALSE
    OBVIOUS
  <2>1. x \in Int /\ Owns("lost", 0, x)
    BY <1>3
  <2>2. \E k, o : k # "lost" /\ Owns(k, o, x)
    BY <1>1, <1>2
  <2>. QED
    BY <2>1, <2>2 DEF SpaceInv, Apart
<1>9. Start .. vmalloc_next - 1 = inUse \cup free \cup forgotten
  BY <1>7
<1>. QED
  BY <1>8, <1>9 DEF inUse, free

\* As long as no blocks were merged, no address is leaked but for those
\* add_free_space had no block for, and those are never handed out again.
THEOREM NothingLeaks == Spec => []NoLeaksUnmerged
<1>1. UnmergedSpace => NoLeaksUnmerged
  <2> SUFFICES ASSUME UnmergedSpace, ~merged, Busy = {} PROVE NoLeaksUnmerged
    BY DEF NoLeaksUnmerged
  <2>1. SpaceInv
    BY DEF UnmergedSpace
  <2>. QED
    BY <2>1, WholeIsNoLeak DEF NoLeaksUnmerged
<1>. QED
  BY <1>1, SpaceShared, PTL
=============================================================================
