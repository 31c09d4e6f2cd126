----------------------------- MODULE RbSurgery -----------------------------
(***************************************************************************)
(* The surgery that the two red-black trees of the kernel share: the run   *)
(* queue (kernel/sched/eevdf.c, from which it is translated) and the tree  *)
(* of VMAs (mm/vmm.c, which has its own copy of the same statements).      *)
(*                                                                         *)
(* t is a tree: its root, its children by side, the parents, and the red   *)
(* nodes.  A node that is NULL is never followed.  The two mirror images   *)
(* of each case in the code are one case here, with the side a parameter.  *)
(***************************************************************************)
EXTENDS Integers, Sequences

CONSTANT NULL

EmptyTree(nodes) ==
  [root |-> NULL, kid |-> [s \in {"left", "right"} |-> [n \in nodes |-> NULL]],
   parent |-> [n \in nodes |-> NULL], red |-> {}]

Side == {"left", "right"}

Other(s) == IF s = "left" THEN "right" ELSE "left"

SetParent(t, n, p) == IF n = NULL THEN t ELSE [t EXCEPT !.parent[n] = p]

\* The link that leads to x leads to y instead.
Relink(t, x, y) ==
  LET p == t.parent[x]
  IN  IF p = NULL THEN [t EXCEPT !.root = y]
      ELSE IF x = t.kid["left"][p] THEN [t EXCEPT !.kid["left"][p] = y]
      ELSE [t EXCEPT !.kid["right"][p] = y]

\* rotate_left and rotate_right: x goes down on side s.
Rotate(t, x, s) ==
  LET o  == Other(s)
      y  == t.kid[o][x]
      t1 == SetParent([t EXCEPT !.kid[o][x] = t.kid[s][y]], t.kid[s][y], x)
      t2 == Relink([t1 EXCEPT !.parent[y] = t1.parent[x]], x, y)
  IN  [t2 EXCEPT !.kid[s][y] = x, !.parent[x] = y]

Paint(t, black, red) == [t EXCEPT !.red = (@ \ black) \cup red]

IsRed(t, n) == n # NULL /\ n \in t.red

RECURSIVE InsertFixup(_, _)
InsertFixup(t, z) ==
  IF ~IsRed(t, t.parent[z]) THEN Paint(t, {t.root}, {})
  ELSE LET p == t.parent[z]
           g == t.parent[p]
           s == IF p = t.kid["left"][g] THEN "left" ELSE "right"
           y == t.kid[Other(s)][g]
       IN  IF IsRed(t, y)
           THEN InsertFixup(Paint(t, {p, y}, {g}), g)
           ELSE LET inner == z = t.kid[Other(s)][p]
                    t1 == IF inner THEN Rotate(t, p, s) ELSE t
                    z1 == IF inner THEN p ELSE z
                    p1 == t1.parent[z1]
                    g1 == t1.parent[p1]
                IN  InsertFixup(Rotate(Paint(t1, {p1}, {g1}), g1, Other(s)), z1)

RECURSIVE RbFirst(_, _)
RbFirst(t, n) == IF t.kid["left"][n] = NULL THEN n ELSE RbFirst(t, t.kid["left"][n])

\* A free node's fields are never read again; they are forgotten here.
Forget(t, n) ==
  [t EXCEPT !.kid["left"][n] = NULL, !.kid["right"][n] = NULL,
            !.parent[n] = NULL, !.red = @ \ {n}]

RECURSIVE InOrder(_, _)
InOrder(t, n) ==
  IF n = NULL THEN <<>>
  ELSE InOrder(t, t.kid["left"][n]) \o <<n>> \o InOrder(t, t.kid["right"][n])

\* The number of black nodes on the way down, or -1 if the ways differ.
RECURSIVE BlackHeight(_, _)
BlackHeight(t, n) ==
  IF n = NULL THEN 0
  ELSE LET l == BlackHeight(t, t.kid["left"][n])
           r == BlackHeight(t, t.kid["right"][n])
       IN  IF l = -1 \/ l # r THEN -1 ELSE IF n \in t.red THEN l ELSE l + 1

\* A black root, no red node under a red one, and the same number of black nodes
\* on every way down.
IsRedBlack(t) ==
  /\ t.root \notin t.red
  /\ \A n \in t.red : t.parent[n] \notin t.red
  /\ BlackHeight(t, t.root) # -1

\* Parent pointers mirror child pointers, and the tree holds exactly nodes.
IsLinked(t, nodes) ==
  /\ \A s \in Side : \A p \in DOMAIN t.kid[s] :
       t.kid[s][p] # NULL => t.parent[t.kid[s][p]] = p
  /\ t.root # NULL => t.parent[t.root] = NULL
  /\ LET order == InOrder(t, t.root)
     IN  {order[i] : i \in 1 .. Len(order)} = nodes
=============================================================================
