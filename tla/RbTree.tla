------------------------------- MODULE RbTree -------------------------------
(***************************************************************************)
(* The red-black tree of kernel/sched/eevdf.c with its cached leftmost     *)
(* node, node pool, load_weight and nr_running.                            *)
(*                                                                         *)
(* A node is named by its task: a task is queued at most once, and         *)
(* eevdf_dequeue finds the node by the task.                               *)
(***************************************************************************)
EXTENDS RbSurgery, FiniteSets, FiniteSetsExt

CONSTANTS
  Task,
  Vruntime,    \* the vruntime a task is queued with
  Nodes,       \* the size of the node pool
  Weights,     \* the entries of eevdf_nice_to_weight in use
  Reniced,     \* bound: the tasks whose weight may change
  MaxRenice    \* bound: how often one may change while it is queued

ASSUME RbTreeConstants ==
  /\ IsFiniteSet(Task) /\ NULL \notin Task
  /\ Vruntime \in [Task -> Nat] /\ Nodes \in Nat
  /\ Weights \subseteq Nat \ {0} /\ Weights # {} /\ Reniced \subseteq Task /\ MaxRenice \in Nat

VARIABLES
  tree,         \* root, children by side, parents, and the red nodes
  leftmost,     \* runqueue.leftmost
  used,         \* node_bitmap: the nodes taken from the pool
  weight,       \* the task's weight, by its priority
  load_weight,  \* runqueue.load_weight
  nr_running,   \* runqueue.nr_running
  reniced       \* history: how often a task changed its weight while queued

vars == <<tree, leftmost, used, weight, load_weight, nr_running, reniced>>

-----------------------------------------------------------------------------
(* Deletion; the rest of the surgery is in RbSurgery. *)

\* Mutant: the missing black node is not made up for.
DeleteFixupSkipped(t, x, p) == Paint(t, {x}, {})

\* x, which may be NULL, is the child of p that lacks a black node.
RECURSIVE DeleteFixup(_, _, _)
DeleteFixup(t, x, p) ==
  IF x = t.root \/ IsRed(t, x) THEN Paint(t, {x}, {})
  ELSE LET s  == IF x = t.kid["left"][p] THEN "left" ELSE "right"
           o  == Other(s)
           w  == t.kid[o][p]
           t1 == IF IsRed(t, w) THEN Rotate(Paint(t, {w}, {p}), p, s) ELSE t
           w1 == t1.kid[o][p]
       IN  IF w1 # NULL /\ ~IsRed(t1, t1.kid[s][w1]) /\ ~IsRed(t1, t1.kid[o][w1])
           THEN DeleteFixup(Paint(t1, {}, {w1}), p, t1.parent[p])
           ELSE LET far == w1 # NULL /\ ~IsRed(t1, t1.kid[o][w1])
                    t2  == IF far THEN Rotate(Paint(t1, {t1.kid[s][w1]}, {w1}), w1, o)
                           ELSE t1
                    w2  == t2.kid[o][p]
                    t3  == IF w2 = NULL THEN t2
                           ELSE Paint(t2, {w2, p, t2.kid[o][w2]},
                                      IF p \in t2.red THEN {w2} ELSE {})
                    t4  == Rotate(t3, p, s)
                IN  DeleteFixup(t4, t4.root, p)

\* The next node in order: the first on the right, or the first ancestor that
\* n is not on the right of.
RECURSIVE Above(_, _)
Above(t, n) ==
  LET p == t.parent[n]
  IN  IF p # NULL /\ n = t.kid["right"][p] THEN Above(t, p) ELSE p

\* Mutant: only the right subtree is looked at.
SuccessorBelow(t, n) ==
  IF t.kid["right"][n] # NULL THEN RbFirst(t, t.kid["right"][n]) ELSE NULL

Successor(t, n) ==
  IF t.kid["right"][n] # NULL THEN RbFirst(t, t.kid["right"][n]) ELSE Above(t, n)

\* Mutant: a task goes before those with the same vruntime.
RECURSIVE DescendBefore(_, _, _, _)
DescendBefore(t, n, at, first) ==
  LET s == IF Vruntime[n] <= Vruntime[at] THEN "left" ELSE "right"
      f == first /\ s = "left"
  IN  IF t.kid[s][at] = NULL THEN [at |-> at, side |-> s, first |-> f]
      ELSE DescendBefore(t, n, t.kid[s][at], f)

\* The node under which a task with n's vruntime is hung, the side, and whether
\* the way there led left only.
RECURSIVE Descend(_, _, _, _)
Descend(t, n, at, first) ==
  LET s == IF Vruntime[n] < Vruntime[at] THEN "left" ELSE "right"
      f == first /\ s = "left"
  IN  IF t.kid[s][at] = NULL THEN [at |-> at, side |-> s, first |-> f]
      ELSE Descend(t, n, t.kid[s][at], f)

\* Taking n out: it has at most one child, which moves up, or its successor y
\* takes its place and colour.
Delete(t, n) ==
  LET l == t.kid["left"][n]
      r == t.kid["right"][n]
  IN  IF l = NULL \/ r = NULL
      THEN LET x  == IF l = NULL THEN r ELSE l
               t1 == SetParent(Relink(t, n, x), x, t.parent[n])
           IN  IF n \in t.red THEN t1 ELSE DeleteFixup(t1, x, t.parent[n])
      ELSE LET y  == RbFirst(t, r)
               x  == t.kid["right"][y]
               xp == IF t.parent[y] = n THEN y ELSE t.parent[y]
               t1 == IF t.parent[y] = n THEN t
                     ELSE [SetParent(t, x, xp) EXCEPT !.kid["left"][xp] = x,
                             !.kid["right"][y] = r, !.parent[r] = y]
               t2 == [Relink(t1, n, y) EXCEPT !.parent[y] = t.parent[n],
                        !.kid["left"][y] = l, !.parent[l] = y]
               t3 == IF n \in t.red THEN Paint(t2, {}, {y}) ELSE Paint(t2, {y}, {})
           IN  IF y \in t.red THEN t3 ELSE DeleteFixup(t3, x, xp)

-----------------------------------------------------------------------------
(* Operations. *)

IsQueued(t) == t \in used

PickNext == leftmost

\* eevdf_enqueue; the callers have asserted that t is not queued.
Enqueue(t) ==
  /\ ~IsQueued(t)
  /\ IF Cardinality(used) = Nodes THEN UNCHANGED vars
     ELSE LET fresh == Paint(tree, {}, {t})
          IN  /\ used' = used \cup {t}
              /\ IF tree.root = NULL
                 THEN /\ leftmost' = t
                      /\ tree' = InsertFixup([fresh EXCEPT !.root = t], t)
                 ELSE LET place == Descend(tree, t, tree.root, TRUE)
                      IN  /\ leftmost' = IF place.first THEN t ELSE leftmost
                          /\ tree' = InsertFixup(
                               [fresh EXCEPT !.kid[place.side][place.at] = t,
                                             !.parent[t] = place.at], t)
              /\ load_weight' = load_weight + weight[t]
              /\ nr_running' = nr_running + 1
              /\ UNCHANGED <<weight, reniced>>

\* Mutant: the sum keeps the weight.
LoadWithoutKept(t) == load_weight

\* load_weight after t has left; it never goes below zero.
LoadWithout(t) == IF load_weight >= weight[t] THEN load_weight - weight[t] ELSE 0

\* eevdf_dequeue: harmless for a task that is not queued.
Dequeue(t) ==
  IF ~IsQueued(t) THEN UNCHANGED vars
  ELSE /\ leftmost' = IF leftmost = t THEN Successor(tree, t) ELSE leftmost
       /\ tree' = Forget(Delete(tree, t), t)
       /\ load_weight' = LoadWithout(t)
       /\ nr_running' = IF nr_running > 0 THEN nr_running - 1 ELSE 0
       /\ used' = used \ {t}
       /\ UNCHANGED <<weight, reniced>>

\* eevdf_set_nice: only the task's priority changes.
SetNice(t, w) ==
  /\ weight' = [weight EXCEPT ![t] = w]
  /\ reniced' = IF IsQueued(t) /\ w # weight[t] THEN reniced + 1 ELSE reniced
  /\ reniced' <= MaxRenice
  /\ UNCHANGED <<tree, leftmost, used, load_weight, nr_running>>

Init ==
  /\ tree = EmptyTree(Task)
  /\ leftmost = NULL
  /\ used = {}
  /\ weight \in [Task -> {w \in Weights : \A v \in Weights : w <= v}]
  /\ load_weight = 0
  /\ nr_running = 0
  /\ reniced = 0

Next ==
  \/ \E t \in Task : Enqueue(t) \/ Dequeue(t)
  \/ \E t \in Reniced, w \in Weights : SetNice(t, w)

Spec == Init /\ [][Next]_vars

-----------------------------------------------------------------------------
(* Properties. *)

\* insert_fixup and delete_fixup restore the red-black shape: a black root, no
\* red node under a red one, the same number of black nodes on every way down.
\* Parent pointers mirror child pointers, and the tree holds exactly the used
\* nodes: none is leaked, and none that was freed is still reachable.
TreeSound == IsRedBlack(tree) /\ IsLinked(tree, used)

\* The cached leftmost node is the first in order: eevdf_pick_next never returns
\* a task that was dequeued, nor one that is not at the head.
LeftmostIsFirst ==
  leftmost = IF used = {} THEN NULL ELSE InOrder(tree, tree.root)[1]

\* How far load_weight is from the sum of the queued weights.
LoadError == load_weight - MapThenSumSet(LAMBDA t : weight[t], used)

\* nr_running is the number of queued tasks.  load_weight starts as the sum of
\* their weights and goes wrong by nothing but eevdf_set_nice on a queued task,
\* by exactly the change of its weight: insertions and deletions keep the error,
\* and a deletion that would take load_weight below zero reduces it.
LoadIsSum ==
  /\ [](nr_running = Cardinality(used))
  /\ LoadError = 0
  /\ [][\/ LoadError' = LoadError - MapThenSumSet(LAMBDA t : weight'[t] - weight[t], used)
        \/ load_weight' = 0 /\ LoadError < LoadError' /\ LoadError' <= 0]_vars

\* Read in order, the tree is the queue that EevdfQueue describes.
Queue == INSTANCE EevdfQueue WITH queue <- InOrder(tree, tree.root)

ImplementsQueue == Queue!Spec
=============================================================================
