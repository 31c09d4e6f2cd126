----------------------------- MODULE MCFdtWalk -----------------------------
(* Small instances of FdtWalk and Dtb, which read the device tree for        *)
(* different purposes and share no state: one moves only while the other is  *)
(* in its initial state.  FdtWalk has cells of three bits, so that <<7>> is  *)
(* a count below zero, and regs of no, one, two and three cells, so that     *)
(* tuples of every shape are cut short and complete.  Dtb gets every blob of *)
(* up to four of the subtrees below.                                         *)
EXTENDS FdtWalk, Dtb

MCData == {<<>>, <<1>>, <<3>>, <<7>>, <<3, 2>>, <<2, 1, 3>>}

Node(name, inside) ==
  <<[tok |-> "begin", name |-> name]>> \o inside \o <<[tok |-> "end_node"]>>

P(name, data) == <<[tok |-> "prop", name |-> name, data |-> data]>>

Uart(base) == Node(<<"uart">>, P(<<"reg">>, base))

Chosen(value) == Node(<<"chosen">>, P(<<"stdout", "-path">>, value))

Subtrees ==
  { Chosen(<<"/", "uart", ":", "115200">>), Chosen(<<"/", "soc", "/", "uart">>),
    Chosen(<<"serial0", ",", "keep">>),
    Node(<<"aliases">>, P(<<"serial0">>, <<"/", "uart">>) \o P(<<"serial1">>, <<"/", "soc">>)
                        \o P(<<"serial0">>, <<"/", "soc", "/", "uart">>)),
    Node(<<"aliases">>, P(<<"serial0">>, <<"/", "soc", "/", "uart">>)),
    Uart(<<2, 1>>), Node(<<"uart">>, P(<<"reg", "-shift">>, <<3>>) \o P(<<"reg">>, <<1, 0>>)),
    Node(<<"soc">>, P(<<"reg">>, <<0>>) \o Node(<<"bus">>, <<>>) \o Uart(<<3, 3>>)),
    Node(<<"soc">>, Node(<<"bus">>, Node(<<"chosen">>, <<>>)) \o Uart(<<1, 1>>)),
    Node(<<"intc">>, P(<<"compatible">>, <<"arm,gic-v3">>) \o Node(<<"its">>, <<>>)),
    <<[tok |-> "nop"]>> }

\* No two subtrees of a blob have the same name.
MCBlobs ==
  {Node(<<"">>, FlattenSeq(s)) \o <<[tok |-> "end"]>> :
     s \in {s \in UNION {[1 .. n -> Subtrees] : n \in 0 .. 4} :
              \A i, j \in DOMAIN s : i # j => Head(s[i]) # Head(s[j])}}

WalksInit == Init /\ DtbStart

WalksNext ==
  \/ DtbStart /\ Next /\ UNCHANGED dtbVars
  \/ Init /\ DtbNext /\ UNCHANGED vars

WalksSpec == WalksInit /\ [][WalksNext]_<<vars, dtbVars>>
=============================================================================
