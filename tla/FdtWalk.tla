------------------------------ MODULE FdtWalk ------------------------------
(***************************************************************************)
(* The two walks of the flattened device tree in mm/pmm.c that decide what *)
(* memory the kernel manages: dtb_find_memory_region, which looks for RAM, *)
(* and reserve_reserved_memory, which looks for the regions to leave       *)
(* alone.  Both read the same structure block one token at a time and keep *)
(* a depth and a few flags instead of the path of the current node.        *)
(*                                                                         *)
(* Each step appends one token to a well-formed tree (properties before    *)
(* subnodes) and lets both walks read it.  A property value is a sequence  *)
(* of 32-bit cells, with Word for 2^32.                                    *)
(***************************************************************************)
EXTENDS Integers, Sequences, SequencesExt

CONSTANTS
  Word,       \* the number of values of a cell, 2^32
  Data,       \* the values of properties, sequences of cells
  MaxDepth,   \* bound: nesting of nodes
  MaxTokens   \* bound: length of the structure block

\* Node names, by the prefixes the code compares them with.
Names == {"memory", "memory@", "memory-controller@", "reserved-memory", "soc"}

\* The name of the root.
Root == ""

PropNames == {"#address-cells", "#size-cells", "device_type", "reg"}

ASSUME FdtConstants ==
  /\ Word \in Nat \ {0, 1} /\ Data \subseteq Seq(0 .. Word - 1)
  /\ MaxDepth \in Nat /\ MaxTokens \in Nat

None == <<>>

VARIABLES
  path,      \* the open nodes, the root first: name and declared cells
  leaf,      \* the current node has no subnode yet
  left,      \* tokens left
  first,     \* history: the path and value of the first reg of a memory node
  wanted,    \* history: what the children of /reserved-memory reserve
  nested,    \* history: the last child of the root has grandchildren
  found,     \* dtb_find_memory_region's result, None while it is searching
  mem,       \* its locals: depth, in_memory_node, device_type_memory, cells
  reserved,  \* the <<base, size>> reserve_reserved_memory reserves
  res        \* its locals: depth, in_reserved, cells

vars == <<path, leaf, left, first, wanted, nested, found, mem, reserved, res>>

Init ==
  /\ path = <<>> /\ leaf = TRUE /\ left = MaxTokens
  /\ first = None /\ wanted = {} /\ nested = FALSE /\ found = None /\ reserved = {}
  /\ mem = [depth |-> 0, in_memory_node |-> FALSE, device_type |-> FALSE, ac |-> 2, sc |-> 2]
  /\ res = [depth |-> 0, in_reserved |-> 0, ac |-> 2, sc |-> 2]

-----------------------------------------------------------------------------
(* Cells. *)

\* (v << 32) | cell, n times over the cells of d from the i-th, in 64 bits.
Cells(d, i, n) ==
  FoldLeft(LAMBDA v, c : (v * Word + c) % (Word * Word), 0, SubSeq(d, i, i + n - 1))

Least(a, b) == IF a < b THEN a ELSE b

\* (int)cell.
Signed(cell) == IF 2 * cell < Word THEN cell ELSE cell - Word

\* The cell count after a property: old unless it is the one called name.
CellCount(pname, name, d, old) == IF pname = name /\ Len(d) >= 1 THEN Signed(d[1]) ELSE old

\* The first tuple of a reg property; reading stops at its end.
FirstTuple(d, ac, sc) ==
  LET na == Least(IF ac > 0 THEN ac ELSE 2, Len(d))
      ns == Least(IF sc > 0 THEN sc ELSE 2, Len(d) - na)
  IN  <<Cells(d, 1, na), Cells(d, na + 1, ns)>>

\* The tuples of a reg property; an incomplete one at the end is left out.  For a
\* count below zero nothing is read, and a tuple may then not fit.
Tuples(d, ac, sc) ==
  LET n == IF ac + sc <= 0 THEN 4 ELSE ac + sc
      a == IF ac > 0 THEN ac ELSE 0
      s == IF sc > 0 THEN sc ELSE 0
  IN  {<<Cells(d, k * (a + s) + 1, a), Cells(d, k * (a + s) + a + 1, s)>> :
         k \in {k \in 0 .. Len(d) \div n - 1 : (k + 1) * (a + s) <= Len(d)}}

-----------------------------------------------------------------------------
(* dtb_find_memory_region. *)

HasMemoryPrefix(name) == name \in {"memory", "memory@", "memory-controller@"}

MemBegin(name) ==
  mem' = [mem EXCEPT !.depth = @ + 1, !.in_memory_node = HasMemoryPrefix(name),
                     !.device_type = FALSE]

\* Mutant: cell counts are taken from every node.
MemPropAnyDepth(pname, d) ==
  /\ mem' = [mem EXCEPT
       !.device_type = @ \/ (mem.in_memory_node /\ pname = "device_type" /\ d = <<1>>),
       !.ac = CellCount(pname, "#address-cells", d, @),
       !.sc = CellCount(pname, "#size-cells", d, @)]
  /\ found' = IF pname = "reg" /\ mem.in_memory_node
              THEN FirstTuple(d, mem.ac, mem.sc) ELSE found

\* "device_type" has the value "memory" iff its data is d = <<1>>.
MemProp(pname, d) ==
  /\ mem' = [mem EXCEPT
       !.device_type = @ \/ (mem.in_memory_node /\ pname = "device_type" /\ d = <<1>>),
       !.ac = IF mem.depth = 1 THEN CellCount(pname, "#address-cells", d, @) ELSE @,
       !.sc = IF mem.depth = 1 THEN CellCount(pname, "#size-cells", d, @) ELSE @]
  /\ found' = IF pname = "reg" /\ mem.in_memory_node
                 /\ (mem.in_memory_node \/ mem.device_type)
              THEN FirstTuple(d, mem.ac, mem.sc) ELSE found

MemEnd ==
  mem' = [mem EXCEPT !.depth = IF @ > 0 THEN @ - 1 ELSE @, !.in_memory_node = FALSE,
                     !.device_type = FALSE]

-----------------------------------------------------------------------------
(* reserve_reserved_memory. *)

ResBegin(name) ==
  LET r == [res EXCEPT !.depth = @ + 1]
      s == IF r.depth = 2 /\ name = "reserved-memory"
           THEN [r EXCEPT !.in_reserved = 1, !.ac = 2, !.sc = 2] ELSE r
  IN  res' = IF s.in_reserved = 1 /\ s.depth >= 3 THEN [s EXCEPT !.in_reserved = 2] ELSE s

\* The test for a child comes second, in the else branch of in_reserved.
ResProp(pname, d) ==
  IF res.in_reserved # 0
  THEN /\ res' = [res EXCEPT !.ac = CellCount(pname, "#address-cells", d, @),
                             !.sc = CellCount(pname, "#size-cells", d, @)]
       /\ UNCHANGED reserved
  ELSE IF res.in_reserved = 2 /\ pname = "reg"
  THEN /\ reserved' = reserved \cup {t \in Tuples(d, res.ac, res.sc) : t[2] # 0}
       /\ UNCHANGED res
  ELSE UNCHANGED <<res, reserved>>

\* Mutant: the end of a child is taken for the end of /reserved-memory.
ResEndAll ==
  res' = [res EXCEPT !.in_reserved = 0, !.depth = IF @ > 0 THEN @ - 1 ELSE @]

ResEnd ==
  res' = [res EXCEPT !.in_reserved = IF @ > 0 THEN @ - 1 ELSE @,
                     !.depth = IF @ > 0 THEN @ - 1 ELSE @]

-----------------------------------------------------------------------------
(* One token.  The first walk has returned once it has found a region. *)

Searching == found = None

BeginNode(name) ==
  /\ left > 0 /\ Len(path) < MaxDepth
  /\ IF path = <<>> THEN leaf /\ name = Root ELSE name # Root
  /\ left' = left - 1
  /\ path' = Append(path, [name |-> name, ac |-> 2, sc |-> 2])
  /\ leaf' = TRUE
  /\ nested' = (Len(path) >= 3 \/ (Len(path) = 2 /\ nested))
  /\ IF Searching THEN MemBegin(name) ELSE UNCHANGED mem
  /\ ResBegin(name)
  /\ UNCHANGED <<first, wanted, found, reserved>>

InMemory(p) == HasMemoryPrefix(Last(p).name)

IsReservedChild(p) == Len(p) = 3 /\ p[2].name = "reserved-memory"

Prop(pname, d) ==
  /\ left > 0 /\ path # <<>> /\ leaf
  /\ pname # "reg" => Len(d) <= 1
  /\ left' = left - 1
  /\ path' = [path EXCEPT ![Len(path)].ac = CellCount(pname, "#address-cells", d, @),
                          ![Len(path)].sc = CellCount(pname, "#size-cells", d, @)]
  /\ first' = IF pname = "reg" /\ first = None /\ InMemory(path)
              THEN <<path, d>> ELSE first
  /\ wanted' = IF pname = "reg" /\ IsReservedChild(path)
               THEN wanted \cup {t \in Tuples(d, path[2].ac, path[2].sc) : t[2] # 0}
               ELSE wanted
  /\ IF Searching THEN MemProp(pname, d) ELSE UNCHANGED <<mem, found>>
  /\ ResProp(pname, d)
  /\ UNCHANGED <<leaf, nested>>

EndNode ==
  /\ left > 0 /\ path # <<>>
  /\ left' = left - 1
  /\ path' = Front(path)
  /\ leaf' = FALSE
  /\ IF Searching THEN MemEnd ELSE UNCHANGED mem
  /\ ResEnd
  /\ UNCHANGED <<first, wanted, nested, found, reserved>>

Next ==
  \/ \E name \in Names \cup {Root} : BeginNode(name)
  \/ \E pname \in PropNames, d \in Data : Prop(pname, d)
  \/ EndNode

Spec == Init /\ [][Next]_vars

-----------------------------------------------------------------------------
(* Properties. *)

\* What dtb_find_memory_region returns is the first tuple of the first reg of a
\* node it takes for memory, read with the cell counts the root declares, however
\* the nodes before it are nested and whatever cell counts they declare.
FirstMemoryRegion ==
  found = IF first = None THEN None
          ELSE FirstTuple(first[2], first[1][1].ac, first[1][1].sc)

\* Where the current node is: elsewhere, /reserved-memory itself or below it.
InReserved == IF Len(path) < 2 \/ path[2].name # "reserved-memory" THEN 0
              ELSE IF Len(path) = 2 THEN 1 ELSE 2

\* reserve_reserved_memory's depth is that of the current node, and its in_reserved
\* tells where that is, as long as the children of /reserved-memory have no subnodes.
\* When they do, the end of a subnode is taken for that of a child, and in_reserved
\* may be too low but never too high: no node elsewhere is taken for one of them,
\* and the next child of the root is told right again.
ReservedTracks ==
  /\ res.depth = Len(path)
  /\ res.in_reserved \in (IF nested THEN 0 .. InReserved ELSE {InReserved})

\* Claim of the comment at mm/pmm.c:185, "Reserve regions from /reserved-memory":
\* what the children of that node ask for is reserved when the walk has passed it.
ReservedHonoured == wanted \subseteq reserved
=============================================================================
