------------------------------- MODULE VmaSet -------------------------------
(***************************************************************************)
(* What mm/vmm.c promises of the mapped areas: a set of VMAs, no two of    *)
(* which overlap.  A map that overlaps any of them, or that finds the pool *)
(* of nodes empty, adds nothing; unmap and protect name a VMA exactly.     *)
(***************************************************************************)
EXTENDS Integers, FiniteSets

CONSTANTS
  Areas, Frame, Attrs, NewAttrs,    \* the arguments callers pass
  VmaNodes                          \* VMA_POOL_CAP

VARIABLE vmas

Span(v) == v.va .. v.va + v.size - 1

Map(v) ==
  vmas' = IF v.size = 0 \/ (\E w \in vmas : Span(v) \cap Span(w) # {})
             \/ Cardinality(vmas) = VmaNodes
          THEN vmas ELSE vmas \cup {v}

Named(va, size) == {v \in vmas : v.va = va /\ v.size = size}

Unmap(va, size) == vmas' = vmas \ Named(va, size)

Protect(va, size, attrs) ==
  vmas' = (vmas \ Named(va, size)) \cup {[v EXCEPT !.attrs = attrs] : v \in Named(va, size)}

Init == vmas = {}

Next ==
  \E a \in Areas :
    \/ \E attrs \in Attrs : Map([va |-> a[1], pa |-> Frame, size |-> a[2], attrs |-> attrs])
    \/ \E attrs \in NewAttrs : Protect(a[1], a[2], attrs)
    \/ Unmap(a[1], a[2])

Spec == Init /\ [][Next]_vmas
=============================================================================
