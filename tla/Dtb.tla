-------------------------------- MODULE Dtb --------------------------------
(***************************************************************************)
(* How the kernel finds its devices while it boots: boot.S keeps the       *)
(* address of the device tree blob, serial_init asks drivers/dtb.c for the *)
(* console UART, dtb_init makes up for a missing address, pmm_init_from_dtb*)
(* reserves the page of the UART and gic_init looks for the version of the *)
(* interrupt controller.  init/main.c calls them in this order, serial_init*)
(* before dtb_init.                                                        *)
(*                                                                         *)
(* A blob is its structure block, a sequence of tokens.  Names and string  *)
(* values are sequences of fragments: a prefix the code compares with is a *)
(* first fragment, and "/", ":" and "," are fragments of their own.  Paths *)
(* fit in the 256 bytes of the code's buffers.                             *)
(***************************************************************************)
EXTENDS Integers, SequencesExt, FiniteSetsExt

CONSTANTS
  Blobs,         \* the structure blocks a loader may pass
  Word32,        \* the number of values of a cell, 2^32
  Page,          \* the size of a page
  DefaultUart,   \* DEFAULT_UART_BASE
  StackSize,     \* levels the first pass counts, 16
  MaxAliases     \* aliases the first pass keeps, 16

ASSUME DtbConstants ==
  /\ Word32 \in Nat \ {0, 1} /\ Page \in Nat \ {0} /\ DefaultUart \in Nat
  /\ StackSize \in Nat \ {0} /\ MaxAliases \in Nat

VARIABLES
  stage,        \* what runs next
  blob,         \* the structure block in memory
  boot_x0, dtb_ptr,   \* "none", "blob", or "other": an address without the magic number
  uart_base,    \* the UART serial_init set up
  uart_page,    \* the page reserved for it, NoPage if none
  gic_version

dtbVars == <<stage, blob, boot_x0, dtb_ptr, uart_base, uart_page, gic_version>>

NoPage == -1
NoBase == -1

DtbStart ==
  /\ stage = "_start" /\ blob = <<>> /\ boot_x0 = "none" /\ dtb_ptr = "none"
  /\ uart_base = DefaultUart /\ uart_page = NoPage /\ gic_version = 0

-----------------------------------------------------------------------------
(* First pass of dtb_get_stdout_uart_base.  inner tells the loop over the  *)
(* properties of a node from the loop over nodes around it.                *)

\* extract_path_token: the value up to its options.
Extract(value) ==
  LET cuts == {i \in DOMAIN value : value[i] \in {":", ","}}
  IN  IF cuts = {} THEN value ELSE SubSeq(value, 1, Min(cuts) - 1)

CollectBegin(l, t) ==
  LET d == IF l.depth < StackSize THEN l.depth + 1 ELSE l.depth
  IN  [l EXCEPT !.depth = d, !.inner = TRUE,
                !.in_chosen = d = 2 /\ t.name[1] = "chosen",
                !.in_aliases = d = 2 /\ t.name[1] = "aliases"]

CollectProp(l, t) ==
  IF l.in_chosen /\ t.name[1] = "stdout"
  THEN [l EXCEPT !.stdout = Extract(t.data)]
  ELSE IF l.in_aliases /\ Len(l.aliases) < MaxAliases
  THEN [l EXCEPT !.aliases = Append(@, [name |-> t.name, path |-> t.data])]
  ELSE l

\* The loop over properties decrements depth without a test; the loop around it
\* skips properties.
Collect(l, t) ==
  CASE l.done -> l
    [] t.tok = "begin" -> CollectBegin(l, t)
    [] t.tok = "prop" -> IF l.inner THEN CollectProp(l, t) ELSE l
    [] t.tok = "end_node" ->
         [l EXCEPT !.depth = IF l.inner \/ @ > 0 THEN @ - 1 ELSE @, !.inner = FALSE]
    [] t.tok = "nop" -> l
    [] t.tok = "end" -> [l EXCEPT !.done = TRUE]

FirstPass(b) ==
  FoldLeft(Collect, [depth |-> 0, inner |-> FALSE, in_chosen |-> FALSE, in_aliases |-> FALSE,
                     stdout |-> <<>>, aliases |-> <<>>, done |-> FALSE], b)

\* The path stdout names, directly or through the first alias of its name; <<>>
\* when there is none.
TargetPath(l) ==
  LET hits == {i \in DOMAIN l.aliases : l.aliases[i].name = l.stdout}
  IN  IF l.stdout = <<>> \/ l.stdout[1] = "/" THEN l.stdout
      ELSE IF hits = {} THEN <<>> ELSE l.aliases[Min(hits)].path

-----------------------------------------------------------------------------
(* Second pass. *)

Push(path, name) == (IF Len(path) > 1 THEN Append(path, "/") ELSE path) \o name


\* Truncation to the last slash, to "/" at the top.
Pop(path) ==
  LET slash == Max({i \in DOMAIN path : path[i] = "/"})
  IN  SubSeq(path, 1, IF slash > 1 THEN slash - 1 ELSE 1)

RegBase(data) ==
  IF Len(data) >= 2 THEN data[1] * Word32 + data[2]
  ELSE IF Len(data) = 1 THEN data[1] ELSE NoBase

LookBegin(l, t, target) ==
  LET path == IF l.depth = 0 /\ t.name = <<"">> THEN l.path ELSE Push(l.path, t.name)
  IN  [l EXCEPT !.path = path, !.depth = @ + 1, !.inner = TRUE, !.at_target = path = target]

\* An END_NODE met in the loop over nodes, the end of a node with subnodes, is
\* ignored: the path keeps the node's name and depth its level.
Look(l, t, target) ==
  CASE l.done -> l
    [] t.tok = "begin" -> LookBegin(l, t, target)
    [] t.tok = "prop" ->
         IF l.inner /\ l.at_target /\ t.name[1] = "reg"
         THEN [l EXCEPT !.base = RegBase(t.data), !.done = TRUE] ELSE l
    [] t.tok = "end_node" ->
         IF l.inner THEN [l EXCEPT !.path = Pop(@), !.depth = @ - 1, !.inner = FALSE] ELSE l
    [] t.tok = "nop" -> l
    [] t.tok = "end" -> [l EXCEPT !.done = TRUE]

SecondPass(b, target) ==
  FoldLeft(LAMBDA l, t : Look(l, t, target),
           [depth |-> 0, inner |-> FALSE, path |-> <<"/">>, at_target |-> FALSE,
            base |-> NoBase, done |-> FALSE], b).base

\* dtb_get_stdout_uart_base: NoBase for -1.
StdoutUartBase ==
  LET target == TargetPath(FirstPass(blob))
  IN  IF dtb_ptr # "blob" \/ target = <<>> THEN NoBase ELSE SecondPass(blob, target)

-----------------------------------------------------------------------------
(* gic_detect_version: a NOP ends the loop as an unknown token does.       *)

IsGicV3(t) == t.tok = "prop" /\ t.name = <<"compatible">> /\ t.data[1] = "arm,gic-v3"

DetectVersion(b) ==
  LET stops == {i \in DOMAIN b : b[i].tok \in {"nop", "end"} \/ IsGicV3(b[i])}
  IN  IF IsGicV3(b[Min(stops)]) THEN 3 ELSE 2

-----------------------------------------------------------------------------
(* boot.S and the calls of kmain. *)

\* _start stores x0 in dtb_ptr and in boot_x0.
Boot ==
  /\ stage = "_start" /\ stage' = "serial_init"
  /\ blob' \in Blobs
  /\ boot_x0' \in {"none", "blob", "other"} /\ dtb_ptr' = boot_x0'
  /\ UNCHANGED <<uart_base, uart_page, gic_version>>

SerialInit ==
  /\ stage = "serial_init" /\ stage' = "dtb_init"
  /\ uart_base' = IF StdoutUartBase \in {NoBase, 0} THEN uart_base ELSE StdoutUartBase
  /\ UNCHANGED <<blob, boot_x0, dtb_ptr, uart_page, gic_version>>

\* dtb_search finds the blob or nothing.  An address without the magic number
\* is kept in dtb_ptr.
DtbInit ==
  /\ stage = "dtb_init" /\ stage' = "pmm_init"
  /\ dtb_ptr' \in IF dtb_ptr # "none" THEN {dtb_ptr}
                  ELSE IF boot_x0 # "none" THEN {boot_x0} ELSE {"blob", "none"}
  /\ UNCHANGED <<blob, boot_x0, uart_base, uart_page, gic_version>>

\* The part of pmm_init_from_dtb about the UART.
ReserveUart ==
  /\ stage = "pmm_init" /\ stage' = "gic_init"
  /\ uart_page' = IF StdoutUartBase \in {NoBase, 0} THEN NoPage ELSE StdoutUartBase \div Page
  /\ UNCHANGED <<blob, boot_x0, dtb_ptr, uart_base, gic_version>>

\* gic_detect_version does not test the magic number: without it the words it
\* reads are whatever is there.
DetectGic ==
  /\ stage = "gic_init" /\ stage' = "booted"
  /\ gic_version' \in CASE dtb_ptr = "none" -> {2}
                        [] dtb_ptr = "blob" -> {DetectVersion(blob)}
                        [] dtb_ptr = "other" -> {2, 3}
  /\ UNCHANGED <<blob, boot_x0, dtb_ptr, uart_base, uart_page>>

DtbNext == Boot \/ SerialInit \/ DtbInit \/ ReserveUart \/ DetectGic

-----------------------------------------------------------------------------
(* The devices a blob describes, by the nesting of its nodes. *)

Count(b, i, tok) == Cardinality({k \in 1 .. i : b[k].tok = tok})

\* The number of open nodes after the i-th token.
Level(b, i) == Count(b, i, "begin") - Count(b, i, "end_node")

Nodes(b) == {i \in DOMAIN b : b[i].tok = "begin"}

\* The nodes around the i-th token, the root first.
Around(b, i) ==
  SetToSortSeq({j \in Nodes(b) : j <= i /\ \A k \in j .. i : Level(b, k) >= Level(b, j)}, <)

NodePath(b, i) ==
  LET around == Around(b, i)
  IN  FoldLeft(LAMBDA path, k : Push(path, b[around[k]].name), <<"/">>,
               [k \in 1 .. Len(around) - 1 |-> k + 1])

\* The properties with a name that starts with prefix of the nodes in a set.
PropsOf(b, nodes, prefix) ==
  {k \in DOMAIN b : b[k].tok = "prop" /\ b[k].name[1] = prefix /\ Last(Around(b, k)) \in nodes}

ChildrenOfRoot(b, name) == {i \in Nodes(b) : Level(b, i) = 2 /\ b[i].name[1] = name}

Aliases(b) ==
  {k \in DOMAIN b : b[k].tok = "prop" /\ Last(Around(b, k)) \in ChildrenOfRoot(b, "aliases")}

Stdout(b) ==
  LET props == PropsOf(b, ChildrenOfRoot(b, "chosen"), "stdout")
      token == IF props = {} THEN <<>> ELSE Extract(b[Max(props)].data)
      named == {k \in Aliases(b) : b[k].name = token}
  IN  IF token = <<>> \/ token[1] = "/" THEN token
      ELSE IF named = {} THEN <<>> ELSE b[Min(named)].data

\* The reg properties of the node stdout names.
StdoutRegs(b) ==
  LET path == Stdout(b)
  IN  IF path = <<>> THEN {} ELSE PropsOf(b, {i \in Nodes(b) : NodePath(b, i) = path}, "reg")

StdoutUart(b) ==
  LET base == IF StdoutRegs(b) = {} THEN NoBase ELSE RegBase(b[Min(StdoutRegs(b))].data)
  IN  IF base \in {NoBase, 0} THEN DefaultUart ELSE base

\* The limits of dtb_get_stdout_uart_base: the levels and aliases it counts, and
\* that no node with subnodes, the root apart, ends before the property it needs.
WithinLimits(b) ==
  /\ \A i \in DOMAIN b : Level(b, i) <= StackSize
  /\ Cardinality(Aliases(b)) <= MaxAliases
  /\ \A j \in Nodes(b), i \in Nodes(b), k \in DOMAIN b :
       /\ j # 1 /\ j < i /\ j = Last(Front(Around(b, i)))
       /\ b[k].tok = "end_node" /\ k > i /\ Level(b, k) < Level(b, j)
       => \E r \in StdoutRegs(b) : r < k

-----------------------------------------------------------------------------
(* Properties. *)

=============================================================================
