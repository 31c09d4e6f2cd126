--------------------------- MODULE FdtWalkProofs ---------------------------
(***************************************************************************)
(* Theorems about FdtWalk, for device trees of any size and any cells.     *)
(***************************************************************************)
EXTENDS FdtWalk, SequenceTheorems, TLAPS

\* A cell count.
Cell == Int

Node == [name : Names \cup {Root}, ac : Cell, sc : Cell]

MemLocals ==
  [depth : Nat, in_memory_node : BOOLEAN, device_type : BOOLEAN, ac : Cell, sc : Cell]

Flag == {0, 1, 2}

ResLocals == [depth : Nat, in_reserved : Flag, ac : Cell, sc : Cell]

TypeOK ==
  /\ path \in Seq(Node) /\ leaf \in BOOLEAN /\ left \in Nat /\ nested \in BOOLEAN
  /\ mem \in MemLocals /\ res \in ResLocals

\* While it searches, dtb_find_memory_region knows the depth of the current node,
\* whether it looks like memory, and the cells that the root declared so far.
Oriented ==
  /\ mem.depth = Len(path)
  /\ mem.in_memory_node <=> path # <<>> /\ leaf /\ InMemory(path)
  /\ path # <<>> => mem.ac = path[1].ac /\ mem.sc = path[1].sc
  /\ path = <<>> /\ leaf => mem.ac = 2 /\ mem.sc = 2

MemInv ==
  /\ TypeOK
  /\ Searching => Oriented
  /\ FirstMemoryRegion

-----------------------------------------------------------------------------
\* A result is never mistaken for none.
LEMMA FoundIsSome ==
  ASSUME NEW d, NEW ac, NEW sc
  PROVE  FirstTuple(d, ac, sc) # None
BY DEF FirstTuple, None

\* A cell count is the default or a cell of the blob, as an int.
LEMMA CellCountType ==
  ASSUME NEW pname, NEW name, NEW d \in Data, NEW old \in Cell
  PROVE  CellCount(pname, name, d, old) \in Cell
<1>1. CASE pname = name /\ Len(d) >= 1
  <2>1. d \in Seq(0 .. Word - 1) /\ Word \in Nat
    BY FdtConstants
  <2>2. d[1] \in 0 .. Word - 1
    BY <1>1, <2>1
  <2>. QED
    BY <1>1, <2>1, <2>2 DEF CellCount, Signed, Cell
<1>. QED
  BY <1>1 DEF CellCount

\* The records of locals keep their types whatever fields are assigned.
LEMMA MemMoved ==
  ASSUME NEW m \in MemLocals, NEW n \in Nat, NEW b \in BOOLEAN, NEW c \in BOOLEAN
  PROVE  [m EXCEPT !.depth = n, !.in_memory_node = b, !.device_type = c] \in MemLocals
BY DEF MemLocals

\* The same for the locals that a property changes.
LEMMA MemRead ==
  ASSUME NEW m \in MemLocals, NEW c \in BOOLEAN, NEW u \in Cell, NEW v \in Cell
  PROVE  [m EXCEPT !.device_type = c, !.ac = u, !.sc = v] \in MemLocals
BY DEF MemLocals

\* The locals of reserve_reserved_memory, when it enters or leaves a node.
LEMMA ResMoved ==
  ASSUME NEW r \in ResLocals, NEW n \in Nat, NEW i \in Flag
  PROVE  /\ [r EXCEPT !.depth = n] \in ResLocals
         /\ [r EXCEPT !.in_reserved = i] \in ResLocals
         /\ [r EXCEPT !.in_reserved = i, !.depth = n] \in ResLocals
BY DEF ResLocals

\* The same, when cell counts are read or reset.
LEMMA ResRead ==
  ASSUME NEW r \in ResLocals, NEW i \in Flag, NEW u \in Cell, NEW v \in Cell
  PROVE  /\ [r EXCEPT !.ac = u, !.sc = v] \in ResLocals
         /\ [r EXCEPT !.in_reserved = i, !.ac = u, !.sc = v] \in ResLocals
BY DEF ResLocals

\* The locals start with values of their types.
LEMMA InitType == Init => TypeOK
<1> SUFFICES ASSUME Init PROVE TypeOK
  OBVIOUS
<1>1. path \in Seq(Node) /\ left \in Nat
  BY FdtConstants DEF Init
<1>2. leaf \in BOOLEAN /\ nested \in BOOLEAN
  BY Zenon DEF Init
<1>3. 0 \in Nat /\ 0 \in Flag /\ 2 \in Cell /\ FALSE \in BOOLEAN
  BY DEF Flag, Cell
<1>4. mem \in MemLocals /\ res \in ResLocals
  BY <1>3, Zenon DEF Init, MemLocals, ResLocals
<1>. QED
  BY <1>1, <1>2, <1>4, Zenon DEF TypeOK

\* FDT_BEGIN_NODE keeps the types: both walks go one deeper.
LEMMA BeginType == ASSUME TypeOK, NEW name \in Names \cup {Root}, BeginNode(name) PROVE TypeOK'
<1>1. path' \in Seq(Node)
  <2>1. [name |-> name, ac |-> 2, sc |-> 2] \in Node
    BY DEF Node, Cell
  <2>. QED
    BY <2>1, AppendProperties DEF TypeOK, BeginNode
<1>2. mem' \in MemLocals
  <2>1. mem \in MemLocals /\ mem.depth + 1 \in Nat
    BY DEF TypeOK, MemLocals
  <2>2. HasMemoryPrefix(name) \in BOOLEAN
    BY DEF HasMemoryPrefix
  <2>3. mem' = mem \/ MemBegin(name)
    BY DEF BeginNode
  <2>. QED
    <3>1. [mem EXCEPT !.depth = mem.depth + 1, !.in_memory_node = HasMemoryPrefix(name),
                      !.device_type = FALSE] \in MemLocals
      BY <2>1, <2>2, MemMoved
    <3>. QED
      BY <2>1, <2>3, <3>1, Zenon DEF MemBegin
<1>3. res' \in ResLocals
  <2> DEFINE r == [res EXCEPT !.depth = @ + 1]
             s == IF r.depth = 2 /\ name = "reserved-memory"
                  THEN [r EXCEPT !.in_reserved = 1, !.ac = 2, !.sc = 2] ELSE r
  <2>1. res \in ResLocals /\ res.depth + 1 \in Nat /\ 1 \in Flag /\ 2 \in Flag /\ 2 \in Cell
    BY DEF TypeOK, ResLocals, Flag, Cell
  <2>2. r \in ResLocals
    BY <2>1, ResMoved, Zenon
  <2>5. res' = IF s.in_reserved = 1 /\ s.depth >= 3 THEN [s EXCEPT !.in_reserved = 2] ELSE s
    BY Zenon DEF BeginNode, ResBegin
  <2> HIDE DEF r
  <2>3. s \in ResLocals
    BY <2>1, <2>2, ResRead, Zenon
  <2> HIDE DEF s
  <2>4. [s EXCEPT !.in_reserved = 2] \in ResLocals
    BY <2>1, <2>3, ResMoved, Zenon
  <2>. QED
    BY <2>3, <2>4, <2>5, Zenon
<1>4. left' \in Nat /\ leaf' \in BOOLEAN /\ nested' \in BOOLEAN
  BY DEF TypeOK, BeginNode
<1>. QED
  BY <1>1, <1>2, <1>3, <1>4 DEF TypeOK

\* FDT_PROP keeps the types: cell counts come from the property.
LEMMA PropType ==
  ASSUME TypeOK, NEW pname \in PropNames, NEW d \in Data, Prop(pname, d)
  PROVE  TypeOK'
<1>1. path' \in Seq(Node)
  <2> DEFINE n == Len(path)
             a == CellCount(pname, "#address-cells", d, path[n].ac)
             c == CellCount(pname, "#size-cells", d, path[n].sc)
  <2>1. n \in 1 .. Len(path) /\ path[n] \in Node /\ path \in Seq(Node)
    BY EmptySeq, ElementOfSeq DEF TypeOK, Prop
  <2>2. a \in Cell /\ c \in Cell
    BY <2>1, CellCountType DEF Node
  <2>3. path' = [path EXCEPT ![n].ac = a, ![n].sc = c]
    BY DEF Prop
  <2> HIDE DEF a, c, n
  <2>4. path' = [path EXCEPT ![n] = [path[n] EXCEPT !.ac = a, !.sc = c]]
    BY <2>1, <2>3
  <2>5. [path[n] EXCEPT !.ac = a, !.sc = c] \in Node
    BY <2>1, <2>2 DEF Node
  <2>. QED
    BY <2>1, <2>4, <2>5, ExceptSeq, Zenon
<1>2. mem' \in MemLocals
  <2> DEFINE t == mem.device_type \/ (mem.in_memory_node /\ pname = "device_type" /\ d = <<1>>)
             a == IF mem.depth = 1 THEN CellCount(pname, "#address-cells", d, mem.ac) ELSE mem.ac
             c == IF mem.depth = 1 THEN CellCount(pname, "#size-cells", d, mem.sc) ELSE mem.sc
  <2>1. mem \in MemLocals /\ a \in Cell /\ c \in Cell
    BY CellCountType DEF MemLocals, TypeOK
  <2>2. t \in BOOLEAN
    BY Zenon
  <2>3. mem' = [mem EXCEPT !.device_type = t, !.ac = a, !.sc = c] \/ mem' = mem
    BY Zenon DEF MemProp, Prop
  <2> HIDE DEF t, a, c
  <2>. QED
    <3>1. [mem EXCEPT !.device_type = t, !.ac = a, !.sc = c] \in MemLocals
      BY <2>1, <2>2, MemRead
    <3>. QED
      BY <2>1, <2>3, <3>1, Zenon
<1>3. res' \in ResLocals
  <2> DEFINE a == CellCount(pname, "#address-cells", d, res.ac)
             c == CellCount(pname, "#size-cells", d, res.sc)
  <2>1. res \in ResLocals /\ a \in Cell /\ c \in Cell /\ 0 \in Flag
    BY CellCountType DEF ResLocals, TypeOK, Flag
  <2>2. res' = [res EXCEPT !.ac = a, !.sc = c] \/ res' = res
    BY DEF ResProp, Prop
  <2> HIDE DEF a, c
  <2>. QED
    <3>1. [res EXCEPT !.ac = a, !.sc = c] \in ResLocals
      BY <2>1, ResRead
    <3>. QED
      BY <2>1, <2>2, <3>1, Zenon
<1>4. left' \in Nat /\ leaf' \in BOOLEAN /\ nested' \in BOOLEAN
  BY DEF TypeOK, Prop
<1>. QED
  BY <1>1, <1>2, <1>3, <1>4 DEF TypeOK

\* FDT_END_NODE keeps the types: no depth goes below zero.
LEMMA EndType == ASSUME TypeOK, EndNode PROVE TypeOK'
<1>1. path' \in Seq(Node)
  BY DEF Front, TypeOK, EndNode
<1>2. mem' \in MemLocals
  <2> DEFINE n == IF mem.depth > 0 THEN mem.depth - 1 ELSE mem.depth
  <2>1. mem \in MemLocals /\ n \in Nat /\ FALSE \in BOOLEAN
    BY DEF TypeOK, MemLocals
  <2>2. mem' = [mem EXCEPT !.depth = n, !.in_memory_node = FALSE, !.device_type = FALSE]
        \/ mem' = mem
    BY Zenon DEF MemEnd, EndNode
  <2> HIDE DEF n
  <2>. QED
    BY <2>1, <2>2, MemMoved, Zenon
<1>3. res' \in ResLocals
  <2> DEFINE n == IF res.depth > 0 THEN res.depth - 1 ELSE res.depth
             i == IF res.in_reserved > 0 THEN res.in_reserved - 1 ELSE res.in_reserved
  <2>1. res \in ResLocals /\ n \in Nat /\ i \in Flag
    BY DEF TypeOK, ResLocals, Flag
  <2>2. res' = [res EXCEPT !.in_reserved = i, !.depth = n]
    BY DEF ResEnd, EndNode
  <2> HIDE DEF n, i
  <2>. QED
    BY <2>1, <2>2, ResMoved, Zenon
<1>4. left' \in Nat /\ nested' \in BOOLEAN
  BY DEF TypeOK, EndNode
<1>5. leaf' \in BOOLEAN
  BY DEF EndNode
<1>. QED
  BY <1>1, <1>2, <1>3, <1>4, <1>5 DEF TypeOK

\* Every variable of the two walks keeps its type.
LEMMA NextType == TypeOK /\ [Next]_vars => TypeOK'
<1> SUFFICES ASSUME TypeOK, [Next]_vars PROVE TypeOK'
  OBVIOUS
<1>1. CASE UNCHANGED vars
  BY <1>1 DEF vars, TypeOK
<1>. QED
  BY <1>1, BeginType, PropType, EndType DEF Next

-----------------------------------------------------------------------------
(* dtb_find_memory_region. *)

\* Entering a node: the walk knows its depth and tests its name.
LEMMA BeginOriented ==
  ASSUME TypeOK, Searching, Oriented, NEW name \in Names \cup {Root}, BeginNode(name)
  PROVE  Oriented'
<1> DEFINE node == [name |-> name, ac |-> 2, sc |-> 2]
<1>1. path' = Append(path, node) /\ leaf' = TRUE /\ path \in Seq(Node)
  BY DEF BeginNode, TypeOK
<1>2. node \in Node
  BY DEF Node, Cell
<1>3. /\ Len(path') = Len(path) + 1 /\ path' # <<>>
      /\ path'[Len(path) + 1] = node
      /\ path # <<>> => path'[1] = path[1]
      /\ Len(path) \in Nat /\ (path = <<>> <=> Len(path) = 0)
  BY <1>1, <1>2, AppendProperties, EmptySeq
<1>4. /\ mem'.depth = mem.depth + 1 /\ (mem'.in_memory_node <=> HasMemoryPrefix(name))
      /\ mem'.ac = mem.ac /\ mem'.sc = mem.sc
  BY DEF TypeOK, MemLocals, BeginNode, MemBegin
<1>5. InMemory(path)' <=> HasMemoryPrefix(name)
  BY <1>1, <1>3 DEF InMemory, Last
<1>6. mem'.depth = Len(path')
  BY <1>3, <1>4 DEF Oriented
<1>7. mem'.in_memory_node <=> path' # <<>> /\ leaf' /\ InMemory(path)'
  BY <1>1, <1>3, <1>4, <1>5
<1>8. mem'.ac = path'[1].ac /\ mem'.sc = path'[1].sc
  BY <1>1, <1>3, <1>4 DEF Oriented, BeginNode
<1>. QED
  BY <1>3, <1>6, <1>7, <1>8 DEF Oriented

\* A property moves the walk's cells exactly when it moves the root's.
LEMMA PropOriented ==
  ASSUME TypeOK, Searching, Oriented, NEW pname \in PropNames, NEW d \in Data, Prop(pname, d)
  PROVE  Oriented'
<1> DEFINE n == Len(path)
           a == CellCount(pname, "#address-cells", d, path[n].ac)
           c == CellCount(pname, "#size-cells", d, path[n].sc)
<1>1. path' = [path EXCEPT ![n].ac = a, ![n].sc = c] /\ path \in Seq(Node) /\ path # <<>> /\ leaf /\ leaf' = leaf
  BY DEF Prop, TypeOK
<1>2. n \in 1 .. Len(path) /\ path[n] \in Node
  BY <1>1, EmptySeq, ElementOfSeq
<1>3. /\ Len(path') = Len(path) /\ path' # <<>>
      /\ \A i \in 1 .. Len(path) : i # n => path'[i] = path[i]
      /\ path'[n].name = path[n].name /\ path'[n].ac = a /\ path'[n].sc = c
  <2> HIDE DEF a, c
  <2>. QED
    BY <1>1, <1>2 DEF Node
<1>4. /\ mem'.depth = mem.depth /\ mem'.in_memory_node = mem.in_memory_node
      /\ mem'.ac = IF mem.depth = 1 THEN CellCount(pname, "#address-cells", d, mem.ac) ELSE mem.ac
      /\ mem'.sc = IF mem.depth = 1 THEN CellCount(pname, "#size-cells", d, mem.sc) ELSE mem.sc
  BY DEF TypeOK, MemLocals, Prop, MemProp
<1>5. InMemory(path)' <=> InMemory(path)
  BY <1>2, <1>3 DEF InMemory, Last
<1>6. mem'.depth = Len(path')
  BY <1>3, <1>4 DEF Oriented
<1>7. mem'.in_memory_node <=> path' # <<>> /\ leaf' /\ InMemory(path)'
  BY <1>1, <1>3, <1>4, <1>5 DEF Oriented
<1>8. mem'.ac = path'[1].ac /\ mem'.sc = path'[1].sc
  BY <1>1, <1>2, <1>3, <1>4 DEF Oriented
<1>. QED
  BY <1>3, <1>6, <1>7, <1>8 DEF Oriented

\* Leaving a node drops the last element of the path.
LEMMA FrontOf ==
  ASSUME NEW p \in Seq(Node), p # <<>>
  PROVE  /\ Len(p) \in Nat \ {0} /\ Len(Front(p)) = Len(p) - 1
         /\ \A i \in 1 .. Len(p) - 1 : Front(p)[i] = p[i]
<1>1. Len(p) \in Nat \ {0} /\ Len(p) - 1 \in Int /\ \A i \in 1 .. Len(p) - 1 : p[i] \in Node
  BY EmptySeq, ElementOfSeq
<1> DEFINE n == Len(p) - 1
<1>2. /\ Len(SubSeq(p, 1, n)) = IF 1 <= n THEN n - 1 + 1 ELSE 0
      /\ \A i \in 1 .. n - 1 + 1 : SubSeq(p, 1, n)[i] = p[1 + i - 1]
  <2> HIDE DEF n
  <2>1. n \in Int /\ \A i \in 1 .. n : p[i] \in Node
    BY <1>1 DEF n
  <2>. QED
    BY <2>1, SubSeqProperties
<1>3. Front(p) = SubSeq(p, 1, n) /\ n \in Nat
  BY <1>1 DEF Front
<1>4. Len(Front(p)) = n /\ \A i \in 1 .. n : Front(p)[i] = p[i]
  <2> HIDE DEF n
  <2>1. Len(Front(p)) = n
    BY <1>2, <1>3
  <2>2. ASSUME NEW i \in 1 .. n PROVE Front(p)[i] = p[i]
    <3>1. i \in 1 .. n - 1 + 1 /\ 1 + i - 1 = i
      BY <1>3
    <3>. QED
      BY <1>2, <1>3, <3>1
  <2>. QED
    BY <2>1, <2>2
<1>. QED
  BY <1>1, <1>4

\* Leaving a node clears in_memory_node: its properties are all behind.
LEMMA EndOriented == ASSUME TypeOK, Searching, Oriented, EndNode PROVE Oriented'
<1>1. path' = Front(path) /\ leaf' = FALSE /\ path \in Seq(Node) /\ path # <<>>
  BY DEF EndNode, TypeOK
<1>2. /\ Len(path') = Len(path) - 1 /\ Len(path) \in Nat \ {0}
      /\ path' # <<>> => path'[1] = path[1]
  <2>1. Len(path) \in Nat \ {0} /\ \A i \in 1 .. Len(path) - 1 : path[i] \in Node
    BY <1>1, EmptySeq, ElementOfSeq
  <2>2. /\ Len(path') = Len(path) - 1
        /\ \A i \in 1 .. Len(path) - 1 : path'[i] = path[i]
    BY <1>1, FrontOf
  <2>3. path' # <<>> => Len(path) - 1 > 0
    BY <1>1, <2>1, <2>2, EndType, EmptySeq DEF TypeOK
  <2>. QED
    BY <2>1, <2>2, <2>3
<1>3. /\ mem'.depth = (IF mem.depth > 0 THEN mem.depth - 1 ELSE mem.depth)
      /\ mem'.in_memory_node = FALSE /\ mem'.ac = mem.ac /\ mem'.sc = mem.sc
  BY DEF TypeOK, MemLocals, EndNode, MemEnd
<1>4. mem'.depth = Len(path')
  BY <1>2, <1>3 DEF Oriented
<1>. QED
  BY <1>1, <1>2, <1>3, <1>4 DEF Oriented

\* Once a region is found nothing changes; before that, only a reg property of a
\* memory node finds one, and it is the first.
LEMMA MemStep ==
  ASSUME TypeOK, Searching => Oriented, FirstMemoryRegion, [Next]_vars
  PROVE  (Searching => Oriented)' /\ FirstMemoryRegion'
<1>1. Searching <=> first = None
  BY FoundIsSome DEF FirstMemoryRegion, Searching
<1>2. ASSUME NEW name \in Names \cup {Root}, BeginNode(name)
      PROVE  (Searching => Oriented)' /\ FirstMemoryRegion'
  <2>1. found' = found /\ first' = first
    BY <1>2 DEF BeginNode
  <2>. QED
    BY <1>2, <2>1, BeginOriented DEF Searching, FirstMemoryRegion
<1>3. ASSUME NEW pname \in PropNames, NEW d \in Data, Prop(pname, d)
      PROVE  (Searching => Oriented)' /\ FirstMemoryRegion'
  <2>1. CASE ~Searching
    <3>1. found' = found /\ first' = first
      BY <1>1, <1>3, <2>1 DEF Prop
    <3>. QED
      BY <2>1, <3>1 DEF Searching, FirstMemoryRegion
  <2>2. CASE Searching /\ ~(pname = "reg" /\ InMemory(path))
    <3>1. found' = found /\ first' = first
      BY <1>3, <2>2 DEF Prop, MemProp, Oriented
    <3>. QED
      BY <1>3, <2>2, <3>1, PropOriented DEF Searching, FirstMemoryRegion
  <2>3. CASE Searching /\ pname = "reg" /\ InMemory(path)
    <3>1. first' = <<path, d>>
      BY <1>1, <1>3, <2>3 DEF Prop
    <3>2. found' = FirstTuple(d, path[1].ac, path[1].sc)
      BY <1>3, <2>3 DEF Prop, MemProp, Oriented
    <3>3. first' # None /\ first'[1] = path /\ first'[2] = d
      BY <3>1 DEF None
    <3>4. FirstMemoryRegion'
      BY <3>2, <3>3 DEF FirstMemoryRegion
    <3>. QED
      BY <3>2, <3>4, FoundIsSome DEF Searching
  <2>. QED
    BY <2>1, <2>2, <2>3
<1>4. CASE EndNode
  <2>1. found' = found /\ first' = first
    BY <1>4 DEF EndNode
  <2>. QED
    BY <1>4, <2>1, EndOriented DEF Searching, FirstMemoryRegion
<1>5. CASE UNCHANGED vars
  BY <1>5 DEF vars, Searching, FirstMemoryRegion, Oriented
<1>. QED
  BY <1>2, <1>3, <1>4, <1>5 DEF Next

\* dtb_find_memory_region returns the first region of the first memory node with
\* the cell counts of the root, on every device tree.
THEOREM FindsFirstMemory == Spec => []FirstMemoryRegion
<1>1. Init => MemInv
  <2>1. Init => Oriented /\ FirstMemoryRegion
    BY DEF Init, Oriented, FirstMemoryRegion, None
  <2>. QED
    BY <2>1, InitType DEF MemInv
<1>2. MemInv /\ [Next]_vars => MemInv'
  BY NextType, MemStep DEF MemInv
<1>3. MemInv => FirstMemoryRegion
  BY DEF MemInv
<1>. QED
  BY <1>1, <1>2, <1>3, PTL DEF Spec

-----------------------------------------------------------------------------
(* reserve_reserved_memory. *)

\* ReservedTracks, and that the current node is no grandchild of a child of the
\* root unless nested says so.
Tracking ==
  /\ ReservedTracks
  /\ ~nested => Len(path) <= 3

\* How the path to the current node changes from token to token.
LEMMA PathStep ==
  ASSUME TypeOK, [Next]_vars
  PROVE  \/ \E name \in Names \cup {Root} :
              /\ Len(path') = Len(path) + 1 /\ path'[Len(path')].name = name
              /\ \A i \in 1 .. Len(path) : path'[i].name = path[i].name
              /\ ~nested' => ~(Len(path) >= 3) /\ (Len(path) = 2 => ~nested)
              /\ ResBegin(name)
         \/ /\ Len(path') = Len(path)
            /\ \A i \in 1 .. Len(path) : path'[i].name = path[i].name
            /\ (nested' <=> nested)
            /\ res'.depth = res.depth /\ res'.in_reserved = res.in_reserved
         \/ /\ Len(path') = Len(path) - 1
            /\ \A i \in 1 .. Len(path) - 1 : path'[i].name = path[i].name
            /\ Len(path) > 0 /\ (nested' <=> nested)
            /\ ResEnd
<1>1. ASSUME NEW name \in Names \cup {Root}, BeginNode(name)
      PROVE  /\ Len(path') = Len(path) + 1 /\ path'[Len(path')].name = name
             /\ \A i \in 1 .. Len(path) : path'[i].name = path[i].name
             /\ ~nested' => ~(Len(path) >= 3) /\ (Len(path) = 2 => ~nested)
             /\ ResBegin(name)
  <2> DEFINE node == [name |-> name, ac |-> 2, sc |-> 2]
  <2>1. path' = Append(path, node) /\ path \in Seq(Node) /\ ResBegin(name)
    BY <1>1 DEF BeginNode, TypeOK
  <2>4. ~nested' => ~(Len(path) >= 3) /\ (Len(path) = 2 => ~nested)
    BY <1>1, Zenon DEF BeginNode
  <2>2. node \in Node /\ node.name = name
    BY DEF Node, Cell
  <2>3. /\ Len(path') = Len(path) + 1 /\ path'[Len(path) + 1] = node
        /\ \A i \in 1 .. Len(path) : path'[i] = path[i]
        /\ Len(path) \in Nat
    <3> HIDE DEF node
    <3>. QED
      BY <2>1, <2>2, AppendProperties, LenProperties
  <2> HIDE DEF node
  <2>. QED
    BY <2>1, <2>2, <2>3, <2>4
<1>2. ASSUME NEW pname \in PropNames, NEW d \in Data, Prop(pname, d)
      PROVE  /\ Len(path') = Len(path)
             /\ \A i \in 1 .. Len(path) : path'[i].name = path[i].name
             /\ (nested' <=> nested)
             /\ res'.depth = res.depth /\ res'.in_reserved = res.in_reserved
  <2> DEFINE n == Len(path)
             a == CellCount(pname, "#address-cells", d, path[n].ac)
             c == CellCount(pname, "#size-cells", d, path[n].sc)
  <2>1. path' = [path EXCEPT ![n].ac = a, ![n].sc = c] /\ path \in Seq(Node) /\ path # <<>>
    BY <1>2 DEF Prop, TypeOK
  <2>2. n \in 1 .. Len(path) /\ path[n] \in Node
    BY <2>1, EmptySeq, ElementOfSeq
  <2>3. Len(path') = Len(path) /\ \A i \in 1 .. Len(path) : path'[i].name = path[i].name
    <3> HIDE DEF a, c
    <3>. QED
      BY <2>1, <2>2 DEF Node
  <2>4. res'.depth = res.depth /\ res'.in_reserved = res.in_reserved /\ (nested' <=> nested)
    BY <1>2 DEF TypeOK, ResLocals, Prop, ResProp
  <2>. QED
    BY <2>3, <2>4
<1>3. ASSUME EndNode
      PROVE  /\ Len(path') = Len(path) - 1
             /\ \A i \in 1 .. Len(path) - 1 : path'[i].name = path[i].name
             /\ Len(path) > 0 /\ (nested' <=> nested)
             /\ ResEnd
  <2>1. path' = Front(path) /\ path \in Seq(Node) /\ path # <<>> /\ ResEnd /\ (nested' <=> nested)
    BY <1>3 DEF EndNode, TypeOK
  <2>2. Len(path) \in Nat \ {0} /\ \A i \in 1 .. Len(path) - 1 : path[i] \in Node
    BY <2>1, EmptySeq, ElementOfSeq
  <2>3. /\ Len(path') = Len(path) - 1
        /\ \A i \in 1 .. Len(path) - 1 : path'[i] = path[i]
    BY <2>1, FrontOf
  <2>. QED
    BY <2>1, <2>2, <2>3
<1>4. CASE UNCHANGED vars
  BY <1>4 DEF vars
<1>. QED
  BY <1>1, <1>2, <1>3, <1>4 DEF Next

\* What FDT_BEGIN_NODE does to the depth and the flag.
LEMMA ResBeginFields ==
  ASSUME TypeOK, NEW name, ResBegin(name)
  PROVE  /\ res'.depth = res.depth + 1
         /\ res'.in_reserved =
              LET i == IF res.depth + 1 = 2 /\ name = "reserved-memory" THEN 1
                       ELSE res.in_reserved
              IN  IF i = 1 /\ res.depth + 1 >= 3 THEN 2 ELSE i
BY DEF TypeOK, ResLocals, ResBegin

\* What FDT_END_NODE does to them.
LEMMA ResEndFields ==
  ASSUME TypeOK, ResEnd
  PROVE  /\ res'.depth = IF res.depth > 0 THEN res.depth - 1 ELSE res.depth
         /\ res'.in_reserved = IF res.in_reserved > 0 THEN res.in_reserved - 1
                               ELSE res.in_reserved
BY DEF TypeOK, ResLocals, ResEnd

\* Every token leaves the walk with the right depth, and with a flag that is exact
\* or, where children have subnodes, no higher than it should be.
LEMMA TracksStep == ASSUME TypeOK, Tracking, [Next]_vars PROVE Tracking'
<1>1. /\ Len(path) \in Nat /\ res.depth \in Nat /\ res.in_reserved \in 0 .. 2
  BY LenProperties DEF TypeOK, ResLocals, Flag
<1>2. /\ res.depth = Len(path) /\ (~nested => Len(path) <= 3)
      /\ res.in_reserved <= InReserved /\ (~nested => res.in_reserved = InReserved)
  BY <1>1 DEF Tracking, ReservedTracks, InReserved
<1>3. SUFFICES /\ res'.depth = Len(path') /\ (~nested' => Len(path') <= 3)
               /\ res'.in_reserved \in 0 .. InReserved'
               /\ ~nested' => res'.in_reserved = InReserved'
  BY DEF Tracking, ReservedTracks
<1>4. ASSUME NEW name,
             Len(path') = Len(path) + 1, path'[Len(path')].name = name,
             \A i \in 1 .. Len(path) : path'[i].name = path[i].name,
             ~nested' => ~(Len(path) >= 3) /\ (Len(path) = 2 => ~nested),
             ResBegin(name)
      PROVE  /\ res'.depth = Len(path') /\ (~nested' => Len(path') <= 3)
             /\ res'.in_reserved \in 0 .. InReserved'
             /\ ~nested' => res'.in_reserved = InReserved'
  <2>1. PICK n \in Nat : n = Len(path)
    BY <1>1
  <2>2. /\ res'.depth = n + 1 /\ Len(path') = n + 1
        /\ n = 1 /\ name = "reserved-memory" => res'.in_reserved = 1
        /\ n = 0 \/ (n = 1 /\ name # "reserved-memory") => res'.in_reserved = res.in_reserved
        /\ n > 1 => res'.in_reserved = IF res.in_reserved = 1 THEN 2 ELSE res.in_reserved
    BY <1>1, <1>2, <1>4, <2>1, ResBeginFields
  <2>3. /\ n = 1 => path'[2].name = name
        /\ n > 1 => path'[2].name = path[2].name
    BY <1>4, <2>1
  <2>4. ~nested' => n < 3 /\ (n = 2 => ~nested)
    BY <1>4, <2>1
  <2>5. CASE n = 0
    BY <1>1, <1>2, <2>1, <2>2, <2>4, <2>5 DEF InReserved
  <2>6. CASE n = 1
    BY <1>1, <1>2, <2>1, <2>2, <2>3, <2>4, <2>6 DEF InReserved
  <2>7. CASE n > 1
    BY <1>1, <1>2, <2>1, <2>2, <2>3, <2>4, <2>7 DEF InReserved
  <2>8. n = 0 \/ n = 1 \/ n > 1
    OBVIOUS
  <2>. QED
    BY <2>5, <2>6, <2>7, <2>8, Zenon
<1>5. ASSUME Len(path') = Len(path), (nested' <=> nested),
             \A i \in 1 .. Len(path) : path'[i].name = path[i].name,
             res'.depth = res.depth, res'.in_reserved = res.in_reserved
      PROVE  /\ res'.depth = Len(path') /\ (~nested' => Len(path') <= 3)
             /\ res'.in_reserved \in 0 .. InReserved'
             /\ ~nested' => res'.in_reserved = InReserved'
  BY <1>1, <1>2, <1>5 DEF InReserved
<1>6. ASSUME Len(path') = Len(path) - 1, Len(path) > 0, (nested' <=> nested),
             \A i \in 1 .. Len(path) - 1 : path'[i].name = path[i].name, ResEnd
      PROVE  /\ res'.depth = Len(path') /\ (~nested' => Len(path') <= 3)
             /\ res'.in_reserved \in 0 .. InReserved'
             /\ ~nested' => res'.in_reserved = InReserved'
  <2>1. /\ res'.depth = Len(path) - 1
        /\ res'.in_reserved = IF res.in_reserved > 0 THEN res.in_reserved - 1 ELSE 0
    BY <1>1, <1>2, <1>6, ResEndFields
  <2>2. InReserved' = IF Len(path) < 3 \/ path[2].name # "reserved-memory" THEN 0
                      ELSE IF Len(path) = 3 THEN 1 ELSE 2
    BY <1>1, <1>6 DEF InReserved
  <2>. QED
    BY <1>1, <1>2, <1>6, <2>1, <2>2 DEF InReserved
<1>. QED
  BY <1>4, <1>5, <1>6, PathStep

\* On every device tree, however deep, reserve_reserved_memory knows the depth of
\* the current node; it knows whether that is /reserved-memory, a child of it or
\* neither as long as such children have no subnodes, and in any case it takes no
\* node outside for one inside.
THEOREM TracksReserved == Spec => []ReservedTracks
<1>1. Init => TypeOK /\ Tracking
  BY InitType, EmptySeq DEF Init, Tracking, ReservedTracks, InReserved
<1>2. TypeOK /\ Tracking /\ [Next]_vars => (TypeOK /\ Tracking)'
  BY NextType, TracksStep
<1>3. Tracking => ReservedTracks
  BY DEF Tracking
<1>. QED
  BY <1>1, <1>2, <1>3, PTL DEF Spec
=============================================================================
