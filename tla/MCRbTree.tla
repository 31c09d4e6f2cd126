------------------------------ MODULE MCRbTree ------------------------------
(***************************************************************************)
(* Small instances of the two red-black trees, RbTree and Vmm.  They have  *)
(* no state in common, so they are explored side by side: once one of them *)
(* has left its initial state the other one stays in its own.              *)
(***************************************************************************)
EXTENDS RbTree, Vmm

\* Eleven tasks, two pairs of which are queued with the same vruntime.
MCTask == 1 .. 11
MCVruntime == <<0, 1, 2, 2, 3, 4, 5, 5, 6, 7, 8>>

\* Bound: the first seven tasks are queued and taken out in any order, and the
\* others behind all seven of them.  With ten nodes delete_fixup goes up twice.
TasksBound == used \subseteq 1 .. 7 \/ used = 1 .. Cardinality(used)

\* Two pages of RAM, the second one the kernel, and twelve pages behind it.
MCKernel == <<1>>
MCAreas == {<<va, 1>> : va \in 2 .. 12} \cup {<<3, 2>>, <<7, 2>>, <<5, 0>>}
MCAttrs == {{"W", "PXN"}}
MCNewAttrs == {{"UXN"}}

\* Bound: likewise for areas, the later ones with entries only.
AreasBound ==
  \/ DOMAIN vma \subseteq 2 .. 8 /\ Cardinality(DOMAIN vma) <= 6
  \/ bare = {} /\ DOMAIN vma = 2 .. Cardinality(DOMAIN vma) + 1

TreesInit == Init /\ VmmInit

TreesNext ==
  \/ /\ VmmInit /\ ~ttbr1 /\ TasksBound
     /\ Next /\ (TasksBound' \/ used' \subseteq used)
     /\ UNCHANGED vmmVars
  \/ /\ Init /\ AreasBound
     /\ VmmNext /\ (AreasBound' \/ DOMAIN vma' \subseteq DOMAIN vma)
     /\ UNCHANGED vars

TreesSpec == TreesInit /\ [][TreesNext]_<<vars, vmmVars>>
=============================================================================
