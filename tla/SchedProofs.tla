---------------------------- MODULE SchedProofs ----------------------------
(***************************************************************************)
(* Proofs about Sched for any set of tasks, PID range, node pool, vruntime *)
(* width and charges: the invariant Inv is inductive, and the properties   *)
(* of the scheduler follow from it.                                        *)
(***************************************************************************)
EXTENDS Sched, TLAPS, SequenceTheorems, WellFoundedInduction, FiniteSetTheorems

USE ZenonT(30)

-----------------------------------------------------------------------------
(* Lemmas about least elements and about taking an element out of a        *)
(* sequence or putting one in front: the unlinking and linking of a task.  *)

\* A non-empty set of natural numbers has a least element, and Min is it: what
\* the searches for the leftmost node or the lowest clear bit return.
LEMMA MinOfNats ==
  ASSUME NEW S \in SUBSET Nat, S # {}
  PROVE  Min(S) \in S /\ \A y \in S : Min(S) <= y
<1>1. PICK x \in S : \A y \in S : ~ (<<y, x>> \in OpToRel(<, Nat))
  BY NatLessThanWellFounded, WFMin
<1>2. \A y \in S : ~ (y < x)
  BY <1>1 DEF OpToRel
<1>3. \E z \in S : \A y \in S : z =< y
  BY <1>2, SMT
<1> QED BY <1>3 DEF Min

\* r is s without its element at k.
IsWithout(r, s, k) ==
  /\ Len(r) = Len(s) - 1
  /\ \A i \in 1 .. Len(s) - 1 : r[i] = IF i < k THEN s[i] ELSE s[i + 1]

\* Removing the first e of a sequence leaves the sequence alone if there is
\* none, and otherwise closes the gap: the unlinking of a list element.
LEMMA RemoveFirstClosesGap ==
  ASSUME NEW S, NEW s \in Seq(S), NEW e
  PROVE  \/ RemoveFirst(s, e) = s /\ \A i \in 1 .. Len(s) : s[i] # e
         \/ \E k \in 1 .. Len(s) :
              /\ s[k] = e
              /\ RemoveFirst(s, e) \in Seq(S)
              /\ IsWithout(RemoveFirst(s, e), s, k)
<1> DEFINE I == {i \in 1 .. Len(s) : s[i] = e}
<1>1. CASE I = {}
  BY <1>1 DEF RemoveFirst
<1>2. CASE I # {}
  <2>0. I \in SUBSET Nat
    BY SMTT(30)
  <2> DEFINE k == Min(I)
  <2>1. k \in I
    <3> HIDE DEF I
    <3> QED BY <1>2, <2>0, MinOfNats
  <2>2. RemoveFirst(s, e) = RemoveAt(s, k)
    BY <1>2 DEF RemoveFirst, SelectInSeq
  <2> HIDE DEF k
  <2>k. k \in 1 .. Len(s) /\ s[k] = e
    BY <2>1
  <2> HIDE DEF I
  <2> DEFINE A == SubSeq(s, 1, k-1)
             B == SubSeq(s, k+1, Len(s))
  <2>3. /\ A \in Seq(S)
        /\ Len(A) = k - 1
        /\ \A i \in 1 .. k-1 : A[i] = s[i]
    BY <2>k, SMTT(30)
  <2>4. /\ B \in Seq(S)
        /\ Len(B) = Len(s) - k
        /\ \A i \in 1 .. Len(s) - k : B[i] = s[k+i]
    BY <2>k, SMTT(30)
  <2>5. RemoveFirst(s, e) = A \o B
    BY <2>2 DEF RemoveAt
  <2> HIDE DEF A, B
  <2>6. /\ A \o B \in Seq(S)
        /\ Len(A \o B) = Len(A) + Len(B)
        /\ \A i \in 1 .. Len(A) + Len(B) :
             (A \o B)[i] = IF i <= Len(A) THEN A[i] ELSE B[i - Len(A)]
    BY <2>3, <2>4, ConcatProperties
  <2>7. \A i \in 1 .. Len(s) - 1 : (A \o B)[i] = IF i < k THEN s[i] ELSE s[i+1]
    <3> SUFFICES ASSUME NEW i \in 1 .. Len(s) - 1
                 PROVE  (A \o B)[i] = IF i < k THEN s[i] ELSE s[i+1]
      OBVIOUS
    <3>1. Len(s) \in Nat /\ k \in Nat /\ i \in Nat
      BY <2>k, SMTT(30)
    <3>2. CASE i < k
      BY <3>1, <3>2, <2>3, <2>4, <2>6, <2>k, SMTT(30)
    <3>3. CASE ~(i < k)
      <4>1. i - Len(A) \in 1 .. Len(s) - k /\ k + (i - Len(A)) = i + 1
        BY <3>1, <3>3, <2>3, <2>k, SMTT(30)
      <4>2. i \in 1 .. Len(A) + Len(B) /\ ~(i <= Len(A))
        BY <3>1, <3>3, <2>3, <2>4, <2>k, SMTT(30)
      <4>3. (A \o B)[i] = B[i - Len(A)]
        BY <4>2, <2>6
      <4>4. B[i - Len(A)] = s[i + 1]
        BY <4>1, <2>4
      <4> QED BY <4>3, <4>4, <3>3
    <3> QED BY <3>2, <3>3
  <2>8. Len(A \o B) = Len(s) - 1
    BY <2>k, <2>3, <2>4, <2>6, SMTT(30)
  <2>9. /\ s[k] = e
        /\ RemoveFirst(s, e) \in Seq(S)
        /\ IsWithout(RemoveFirst(s, e), s, k)
    BY <2>k, <2>5, <2>6, <2>7, <2>8 DEF IsWithout
  <2> QED BY <2>k, <2>9
<1> QED BY <1>1, <1>2

\* Putting an element in front shifts the others: the linking of a new task.
LEMMA ConsShifts ==
  ASSUME NEW S, NEW s \in Seq(S), NEW e \in S
  PROVE  /\ Cons(e, s) \in Seq(S)
         /\ Len(Cons(e, s)) = Len(s) + 1
         /\ \A i \in 1 .. Len(s) + 1 :
              Cons(e, s)[i] = IF i = 1 THEN e ELSE s[i - 1]
<1>1. <<e>> \in Seq(S) /\ Len(<<e>>) = 1 /\ <<e>>[1] = e
  BY SMTT(30)
<1>2. /\ Cons(e, s) \in Seq(S)
      /\ Len(Cons(e, s)) = 1 + Len(s)
      /\ \A i \in 1 .. 1 + Len(s) :
           Cons(e, s)[i] = IF i <= 1 THEN <<e>>[i] ELSE s[i - 1]
  BY <1>1, ConcatProperties DEF Cons
<1> QED BY <1>1, <1>2, SMTT(30)

-----------------------------------------------------------------------------
(* Lemmas about the operators. *)

\* With an empty queue the scheduler falls back to idle and to nothing else.
LEMMA FallbackIsIdle ==
  ASSUME TypeOK, StateInv, PidInv, ListInv
  PROVE  FindByPid(0) = {Idle}
<1>1. PICK i \in 1 .. Len(list) : list[i] = Idle
  BY SchedConstants DEF ListInv, Live, StateInv
<1>2. \A j \in 1 .. Len(list) : list[j] \in Task
  BY SMTT(30) DEF TypeOK
<1>3. \A j \in 1 .. Len(list) : pid[list[j]] = 0 <=> list[j] = Idle
  BY <1>2, SMTT(30) DEF PidInv, ListInv
<1>4. \A j \in 1 .. Len(list) : list[j] = Idle => j = i
  BY <1>1 DEF ListInv
<1>5. \A k \in 1 .. i - 1 : k \in 1 .. Len(list) /\ k # i
  BY <1>1, SMTT(30) DEF TypeOK
<1> QED BY <1>1, <1>3, <1>4, <1>5, SMTT(30) DEF FindByPid

\* What the scheduler picks is queued, or is idle when nothing is.
LEMMA PickedIsQueuedOrIdle ==
  ASSUME TypeOK, StateInv, PidInv, ListInv, NEW q, NEW vr,
         NEW next \in Candidates(q, vr)
  PROVE  next \in q \/ (q = {} /\ next = Idle)
BY FallbackIsIdle DEF Candidates, Leftmost

\* There is always something to pick.
LEMMA SomethingToPick ==
  ASSUME TypeOK, StateInv, PidInv, ListInv,
         NEW q \in SUBSET Task, NEW vr \in [Task -> Nat]
  PROVE  Candidates(q, vr) # {}
<1>1. CASE q = {}
  BY <1>1, FallbackIsIdle DEF Candidates
<1>2. CASE q # {}
  <2> DEFINE V == {vr[t] : t \in q}
  <2>1. V \in SUBSET Nat /\ V # {}
    BY <1>2
  <2>2. Min(V) \in V /\ \A y \in V : Min(V) <= y
    <3> HIDE DEF V
    <3> QED BY <2>1, MinOfNats
  <2>3. PICK t \in q : vr[t] = Min(V)
    BY <2>2
  <2>4. t \in Leftmost(q, vr)
    BY <2>2, <2>3 DEF Leftmost
  <2> QED BY <1>2, <2>4 DEF Candidates
<1> QED BY <1>1, <1>2

\* eevdf_update_curr on a task that is not queued keeps vruntime and
\* min_vruntime in range and no queued task behind min_vruntime.
LEMMA UpdateCurrKeepsMin ==
  ASSUME TypeOK, QueueAboveMin, NEW t \in Task, t \notin rq,
         NEW d \in DeltaFair, NEW elapsed \in BOOLEAN,
         NEW vr, vr = ChargedVruntime(t, d, elapsed),
         NEW min, min = ChargedMin(t, vr, elapsed)
  PROVE  /\ vr \in [Task -> 0 .. VrMod - 1]
         /\ min \in 0 .. VrMod - 1
         /\ \A u \in rq : vr[u] >= min
         /\ \A u \in Task \ {t} : vr[u] = vruntime[u]
<1>1. /\ vr \in [Task -> 0 .. VrMod - 1]
      /\ \A u \in Task \ {t} : vr[u] = vruntime[u]
  <2>1. (vruntime[t] + d) % VrMod \in 0 .. VrMod - 1
    BY SchedConstants, SMTT(30) DEF TypeOK
  <2> QED BY <2>1 DEF ChargedVruntime, TypeOK
<1>2. CASE ~elapsed
  BY <1>1, <1>2, SchedConstants DEF ChargedVruntime, ChargedMin, TypeOK, QueueAboveMin
<1>3. CASE elapsed /\ rq = {}
  BY <1>1, <1>3 DEF ChargedMin
<1>4. CASE elapsed /\ rq # {}
  <2> DEFINE V == {vr[u] : u \in rq}
  <2>0. \A u \in rq : vr[u] \in 0 .. VrMod - 1 /\ vr[u] \in Nat
    BY <1>1, SchedConstants, SMTT(30) DEF TypeOK
  <2>1. V \in SUBSET Nat /\ V # {}
    BY <1>4, <2>0
  <2>2. Min(V) \in V /\ \A y \in V : Min(V) <= y
    <3> HIDE DEF V
    <3> QED BY <2>1, MinOfNats
  <2>3. min = Min(V)
    BY <1>4 DEF ChargedMin, LeastVruntime
  <2>4. \A u \in rq : min <= vr[u]
    BY <2>2, <2>3
  <2>5. \E u \in rq : min = vr[u]
    BY <2>2, <2>3, SMTT(30)
  <2>6. min \in 0 .. VrMod - 1 /\ min \in Nat
    BY <2>0, <2>5
  <2>7. \A u \in rq : vr[u] >= min
    BY <2>0, <2>4, <2>6
  <2> QED BY <1>1, <2>6, <2>7
<1> QED BY <1>2, <1>3, <1>4

-----------------------------------------------------------------------------
(* Steps that keep who is alive, and steps that end one task. *)

\* A step that moves tasks only between READY and RUNNING keeps the PIDs and
\* the task list in order.
LEMMA SameLiveKeepsPidsAndList ==
  ASSUME TypeOK, PidInv, ListInv,
         \A t \in Task : /\ state'[t] = "ZOMBIE" <=> state[t] = "ZOMBIE"
                         /\ state'[t] = "NONE" <=> state[t] = "NONE"
                         /\ t \in Live' <=> t \in Live,
         UNCHANGED <<pid, bitmap, list>>
  PROVE  PidInv' /\ ListInv'
<1>1. Live' = Live
  BY DEF Live
<1>2. PidInv'
  BY <1>1, SMTT(30) DEF PidInv, PidsExact
<1>3. \A i \in 1 .. Len(list) : list[i] \in Task
  BY SMTT(30) DEF TypeOK
<1>4. ListInv'
  BY <1>1, <1>3, SMTT(30) DEF ListInv
<1> QED BY <1>2, <1>4

\* A step that turns one live task into a zombie frees its PID and no other.
LEMMA DeathKeepsPids ==
  ASSUME TypeOK, PidInv, NEW t \in Task \ {Idle}, t \in Live,
         Live' = Live \ {t}, UNCHANGED pid,
         \A u \in Task : state'[u] = "NONE" <=> state[u] = "NONE",
         bitmap' = PidFree(bitmap, pid[t])
  PROVE  PidInv'
<1>1. pid[t] \in Pids \ {0} /\ pid[t] > 1
  BY SchedConstants, SMTT(30) DEF PidInv, Live, TypeOK, Pids
<1>2. bitmap' = bitmap \ {pid[t]}
  BY <1>1 DEF PidFree
<1>3. \A u \in Live : u # t => pid[u] # pid[t]
  BY DEF PidInv, PidsExact
<1>4. bitmap' = {0, 1} \cup {pid[u] : u \in Live' \ {Idle}}
  BY <1>1, <1>2, <1>3, SMTT(30) DEF PidInv, PidsExact
<1>5. \A u, v \in Live' : pid'[u] = pid'[v] => u = v
  BY DEF PidInv, PidsExact
<1>6. PidsExact'
  BY <1>4, <1>5, SMTT(30) DEF PidsExact
<1> QED BY <1>6 DEF PidInv

\* The dead task may stay in the list (task_exit) or be unlinked (task_kill).
LEMMA DeathKeepsList ==
  ASSUME TypeOK, ListInv, NEW t \in Task, state[t] # "NONE",
         Live' = Live \ {t}, UNCHANGED pid,
         \A u \in Task : /\ state'[u] = "NONE" <=> state[u] = "NONE"
                         /\ state'[u] = "ZOMBIE" <=> (u = t \/ state[u] = "ZOMBIE"),
         list' = list \/ list' = RemoveFirst(list, t)
  PROVE  ListInv' /\ list' \in Seq(Task)
<1>0. list \in Seq(Task) /\ Len(list) \in Nat /\ \A i \in 1 .. Len(list) : list[i] \in Task
  BY SMTT(30) DEF TypeOK
<1>1. CASE list' = list
  BY <1>0, <1>1, SMTT(30) DEF ListInv
<1>2. ASSUME NEW k \in 1 .. Len(list), list[k] = t, list' \in Seq(Task),
             IsWithout(list', list, k)
      PROVE  ListInv'
  <2>0. /\ Len(list') = Len(list) - 1
        /\ \A i \in 1 .. Len(list) - 1 :
             list'[i] = IF i < k THEN list[i] ELSE list[i + 1]
    BY <1>2 DEF IsWithout
  <2> DEFINE at(i) == IF i < k THEN i ELSE i + 1
  <2>1. \A i \in 1 .. Len(list') :
          at(i) \in 1 .. Len(list) /\ at(i) # k /\ list'[i] = list[at(i)]
    BY <1>0, <2>0, SMTT(30)
  <2>2. \A i, j \in 1 .. Len(list') : /\ at(i) = at(j) => i = j
                                      /\ i < j => at(i) < at(j)
    BY <1>0, <2>0, SMTT(30)
  <2>3. \A i \in 1 .. Len(list) : i # k =>
          \E j \in 1 .. Len(list') : at(j) = i
    <3> SUFFICES ASSUME NEW i \in 1 .. Len(list), i # k
                 PROVE  \E j \in 1 .. Len(list') : at(j) = i
      OBVIOUS
    <3>1. CASE i < k
      <4>1. i \in 1 .. Len(list') /\ at(i) = i
        BY <1>0, <2>0, <3>1, SMTT(30)
      <4> QED BY <4>1
    <3>2. CASE i > k
      <4>1. i - 1 \in 1 .. Len(list') /\ at(i - 1) = i
        BY <1>0, <2>0, <3>2, SMTT(30)
      <4> QED BY <4>1
    <3> QED BY <1>0, <3>1, <3>2, SMTT(30)
  <2> HIDE DEF at
  <2>4. \A i, j \in 1 .. Len(list') : list'[i] = list'[j] => i = j
    <3> SUFFICES ASSUME NEW i \in 1 .. Len(list'), NEW j \in 1 .. Len(list'),
                        list'[i] = list'[j]
                 PROVE  i = j
      OBVIOUS
    <3>1. /\ at(i) \in 1 .. Len(list) /\ at(j) \in 1 .. Len(list)
          /\ list[at(i)] = list[at(j)]
      BY <2>1
    <3>2. at(i) = at(j)
      BY <3>1 DEF ListInv
    <3> QED BY <2>2, <3>2
  <2>5. \A i \in 1 .. Len(list') : state'[list'[i]] # "NONE"
    <3> SUFFICES ASSUME NEW i \in 1 .. Len(list')
                 PROVE  state'[list'[i]] # "NONE"
      OBVIOUS
    <3>1. list'[i] = list[at(i)] /\ at(i) \in 1 .. Len(list)
      BY <2>1
    <3>2. list[at(i)] \in Task /\ state[list[at(i)]] # "NONE"
      BY <1>0, <3>1 DEF ListInv
    <3> QED BY <3>1, <3>2
  <2>6. \A u \in Live' : \E i \in 1 .. Len(list') : list'[i] = u
    <3> SUFFICES ASSUME NEW u \in Live'
                 PROVE  \E i \in 1 .. Len(list') : list'[i] = u
      OBVIOUS
    <3>1. PICK i \in 1 .. Len(list) : list[i] = u
      BY DEF ListInv
    <3>2. i # k
      BY <1>2, <3>1
    <3>3. PICK j \in 1 .. Len(list') : at(j) = i
      BY <2>3, <3>2
    <3> QED BY <2>1, <3>1, <3>3
  <2>7. \A i, j \in 1 .. Len(list') :
          i < j /\ pid'[list'[i]] = pid'[list'[j]] => state'[list'[j]] = "ZOMBIE"
    <3> SUFFICES ASSUME NEW i \in 1 .. Len(list'), NEW j \in 1 .. Len(list'),
                        i < j, pid'[list'[i]] = pid'[list'[j]]
                 PROVE  state'[list'[j]] = "ZOMBIE"
      OBVIOUS
    <3>1. /\ at(i) \in 1 .. Len(list) /\ at(j) \in 1 .. Len(list)
          /\ at(i) < at(j)
          /\ list'[i] = list[at(i)] /\ list'[j] = list[at(j)]
      BY <2>1, <2>2
    <3>2. pid[list[at(i)]] = pid[list[at(j)]]
      BY <3>1
    <3>3. state[list[at(j)]] = "ZOMBIE"
      BY <3>1, <3>2 DEF ListInv
    <3> QED BY <1>0, <3>1, <3>3
  <2> QED BY <2>4, <2>5, <2>6, <2>7 DEF ListInv
<1>3. CASE list' = RemoveFirst(list, t)
  <2>1. CASE RemoveFirst(list, t) = list
    BY <1>0, <1>1, <1>3, <2>1
  <2>2. CASE \E k \in 1 .. Len(list) : /\ list[k] = t
                                       /\ RemoveFirst(list, t) \in Seq(Task)
                                       /\ IsWithout(RemoveFirst(list, t), list, k)
    BY <1>2, <1>3, <2>2
  <2> QED BY <1>0, <2>1, <2>2, RemoveFirstClosesGap
<1> QED BY <1>0, <1>1, <1>3

-----------------------------------------------------------------------------
(* Every entry point preserves Inv. *)

\* schedule and schedule_preempt with a running task.
LEMMA PutPrevAndPickInv ==
  ASSUME Inv, Running, masked' \in BOOLEAN,
         NEW d \in DeltaFair, NEW elapsed \in BOOLEAN,
         PutPrevAndPick(d, elapsed)
  PROVE  Inv'
<1> DEFINE prev == current
           vr1  == ChargedVruntime(prev, d, elapsed)
           min1 == ChargedMin(prev, vr1, elapsed)
           vr2  == IF pid[prev] # 0 THEN RaisedVruntime(prev, vr1, min1) ELSE vr1
           q1   == IF pid[prev] # 0 THEN Enqueue(rq, prev) ELSE rq
<1>0. TypeOK /\ StateInv /\ PidInv /\ ListInv /\ QueueAboveMin
  BY DEF Inv
<1>1. /\ prev \in Task /\ state[prev] = "RUNNING" /\ prev \notin rq
      /\ pid[prev] = 0 <=> prev = Idle
  BY <1>0, SMTT(30) DEF Running, StateInv, PidInv
<1>2. /\ vr1 \in [Task -> 0 .. VrMod - 1]
      /\ min1 \in 0 .. VrMod - 1
      /\ \A u \in rq : vr1[u] >= min1
  <2> HIDE DEF prev, vr1, min1
  <2> QED BY <1>0, <1>1, UpdateCurrKeepsMin DEF vr1, min1
<1>3. /\ vr2 \in [Task -> 0 .. VrMod - 1]
      /\ \A u \in q1 : vr2[u] >= min1
  <2> HIDE DEF vr1, min1
  <2> QED BY <1>1, <1>2, SchedConstants, SMTT(30) DEF RaisedVruntime, Enqueue
<1>4. q1 \subseteq rq \cup {prev} /\ q1 \in SUBSET Task /\ Idle \notin q1
  BY <1>0, <1>1 DEF Enqueue, TypeOK, StateInv
<1>5. /\ vruntime' = vr2 /\ min_vruntime' = min1
      /\ UNCHANGED <<pid, bitmap, list>>
  BY DEF PutPrevAndPick
<1>6. \/ /\ panicked' = TRUE /\ state' = [state EXCEPT ![prev] = "READY"]
         /\ rq' = q1 /\ current' = current
      \/ \E next \in Candidates(q1, vr2) :
           /\ state' = [state EXCEPT ![prev] = "READY", ![next] = "RUNNING"]
           /\ rq' = q1 \ {next} /\ current' = next
           /\ panicked' = panicked
  BY DEF PutPrevAndPick
<1> HIDE DEF vr1, min1, vr2, q1
<1>7. ASSUME NEW next \in Candidates(q1, vr2) PROVE next \in q1 \/ next = Idle
  BY <1>0, PickedIsQueuedOrIdle
<1> DEFINE Moved ==
      /\ state' \in [Task -> {"NONE", "READY", "RUNNING", "ZOMBIE"}]
      /\ StateInv' /\ current' \in Task /\ rq' \in SUBSET q1
      /\ panicked' \in BOOLEAN
      /\ \A t \in Task : state'[t] # state[t] =>
           /\ state[t] \in {"READY", "RUNNING"}
           /\ state'[t] \in {"READY", "RUNNING"}
<1>8. Moved
  <2>1. CASE /\ panicked' = TRUE /\ state' = [state EXCEPT ![prev] = "READY"]
             /\ rq' = q1 /\ current' = current
    BY <1>0, <1>1, <1>4, <2>1, SchedConstants DEF TypeOK, StateInv
  <2>2. ASSUME NEW next \in Candidates(q1, vr2),
               state' = [state EXCEPT ![prev] = "READY", ![next] = "RUNNING"],
               rq' = q1 \ {next}, current' = next, panicked' = panicked
        PROVE  Moved
    <3>1. next \in Task /\ (next = prev \/ next = Idle \/ next \in rq)
      BY <1>4, <1>7, SchedConstants
    <3>2. next = prev \/ state[next] \in {"READY", "RUNNING"}
      BY <1>0, <3>1 DEF StateInv
    <3>3. \A t \in Task : state'[t] = IF t = next THEN "RUNNING"
                                      ELSE IF t = prev THEN "READY" ELSE state[t]
      BY <1>0, <1>1, <2>2, <3>1 DEF TypeOK
    <3>4. state' \in [Task -> {"NONE", "READY", "RUNNING", "ZOMBIE"}]
      BY <1>0, <1>1, <2>2, <3>1, SMTT(30) DEF TypeOK
    <3>5. StateInv'
      BY <1>0, <1>1, <1>4, <2>2, <3>1, <3>3, SchedConstants DEF StateInv
    <3> QED BY <1>0, <1>1, <2>2, <3>1, <3>2, <3>3, <3>4, <3>5 DEF TypeOK
  <2> QED BY <1>6, <2>1, <2>2
<1>9. PidInv' /\ ListInv'
  <2>1. \A t \in Task : /\ state'[t] = "ZOMBIE" <=> state[t] = "ZOMBIE"
                        /\ state'[t] = "NONE" <=> state[t] = "NONE"
                        /\ t \in Live' <=> t \in Live
    BY <1>8 DEF Live
  <2> QED BY <1>0, <1>5, <2>1, SameLiveKeepsPidsAndList
<1>10. QueueAboveMin'
  BY <1>3, <1>5, <1>8 DEF QueueAboveMin
<1>11. TypeOK'
  BY <1>0, <1>2, <1>3, <1>4, <1>5, <1>8 DEF TypeOK
<1> QED BY <1>8, <1>9, <1>10, <1>11 DEF Inv

\* schedule after the current task t was made a zombie.
LEMMA DeathOfCurrentInv ==
  ASSUME Inv, Running, masked' \in BOOLEAN, NEW t \in Task, t = current, t # Idle,
         PickWithoutPrev([state EXCEPT ![t] = "ZOMBIE"]),
         bitmap' = PidFree(bitmap, pid[t]), UNCHANGED pid,
         list' = list \/ list' = RemoveFirst(list, t)
  PROVE  Inv'
<1>0. TypeOK /\ StateInv /\ PidInv /\ ListInv /\ QueueAboveMin
  BY DEF Inv
<1>1. state[t] = "RUNNING" /\ t \notin rq /\ t \in Live
  BY <1>0 DEF Running, StateInv, Live
<1>2. \/ /\ panicked' = TRUE /\ state' = [state EXCEPT ![t] = "ZOMBIE"]
         /\ current' = NULL /\ rq' = rq
      \/ \E next \in Candidates(rq, vruntime) :
           /\ state' = [state EXCEPT ![t] = "ZOMBIE", ![next] = "RUNNING"]
           /\ rq' = rq \ {next} /\ current' = next /\ panicked' = panicked
  <2> USE DEF PickWithoutPrev
  <2>1. CASE Candidates(rq, vruntime) = {}
    BY <2>1
  <2>2. CASE Candidates(rq, vruntime) # {}
    <3>1. PICK next \in Candidates(rq, vruntime) :
           /\ state' = [[state EXCEPT ![t] = "ZOMBIE"] EXCEPT ![next] = "RUNNING"]
           /\ rq' = rq \ {next} /\ current' = next /\ panicked' = panicked
      BY <2>2
    <3> QED BY <3>1
  <2> QED BY <2>1, <2>2
<1>3. UNCHANGED <<vruntime, min_vruntime>>
  BY DEF PickWithoutPrev
<1> DEFINE Moved ==
      /\ state' \in [Task -> {"NONE", "READY", "RUNNING", "ZOMBIE"}]
      /\ StateInv' /\ current' \in Task \cup {NULL} /\ rq' \in SUBSET rq
      /\ panicked' \in BOOLEAN
      /\ state'[t] = "ZOMBIE"
      /\ \A u \in Task \ {t} : state'[u] # state[u] =>
           /\ state[u] \in {"READY", "RUNNING"}
           /\ state'[u] \in {"READY", "RUNNING"}
<1>4. Moved
  <2>1. CASE /\ panicked' = TRUE /\ state' = [state EXCEPT ![t] = "ZOMBIE"]
             /\ current' = NULL /\ rq' = rq
    BY <1>0, <1>1, <2>1, SchedConstants DEF TypeOK, StateInv
  <2>2. ASSUME NEW next \in Candidates(rq, vruntime),
               state' = [state EXCEPT ![t] = "ZOMBIE", ![next] = "RUNNING"],
               rq' = rq \ {next}, current' = next, panicked' = panicked
        PROVE  Moved
    <3>1. next \in Task /\ next # t /\ state[next] \in {"READY", "RUNNING"}
      <4>1. next \in rq \/ next = Idle
        BY <1>0, PickedIsQueuedOrIdle
      <4> QED BY <1>0, <1>1, <4>1, SchedConstants DEF StateInv, TypeOK
    <3>2. \A u \in Task : state'[u] = IF u = next THEN "RUNNING"
                                      ELSE IF u = t THEN "ZOMBIE" ELSE state[u]
      BY <1>0, <2>2, <3>1 DEF TypeOK
    <3>3. state' \in [Task -> {"NONE", "READY", "RUNNING", "ZOMBIE"}]
      BY <1>0, <2>2, <3>1 DEF TypeOK
    <3>4. StateInv'
      BY <1>0, <1>1, <2>2, <3>1, <3>2, SchedConstants DEF StateInv, TypeOK
    <3> QED BY <1>0, <2>2, <3>1, <3>2, <3>3, <3>4 DEF TypeOK
  <2> QED BY <1>2, <2>1, <2>2
<1>5. /\ Live' = Live \ {t}
      /\ \A u \in Task : /\ state'[u] = "NONE" <=> state[u] = "NONE"
                         /\ state'[u] = "ZOMBIE" <=> (u = t \/ state[u] = "ZOMBIE")
  BY <1>1, <1>4 DEF Live
<1>6. PidInv'
  BY <1>0, <1>1, <1>5, DeathKeepsPids
<1>7. ListInv' /\ list' \in Seq(Task)
  BY <1>0, <1>1, <1>5, DeathKeepsList
<1>8. QueueAboveMin'
  BY <1>0, <1>3, <1>4 DEF QueueAboveMin
<1>9. TypeOK'
  BY <1>0, <1>3, <1>4, <1>7 DEF TypeOK, PidFree
<1> QED BY <1>4, <1>6, <1>7, <1>8, <1>9 DEF Inv

\* task_kill of a task that is not the current one.
LEMMA KillOtherInv ==
  ASSUME Inv, Running, masked' \in BOOLEAN, NEW t \in Live, t # Idle, KillOther(t)
  PROVE  Inv'
<1>0. TypeOK /\ StateInv /\ PidInv /\ ListInv /\ QueueAboveMin
  BY DEF Inv
<1>1. t \in Task /\ state[t] = "READY" /\ t # current
  BY <1>0 DEF Live, StateInv, KillOther
<1>2. /\ state' = [state EXCEPT ![t] = "ZOMBIE"] /\ rq' = rq \ {t}
      /\ bitmap' = PidFree(bitmap, pid[t]) /\ list' = RemoveFirst(list, t)
      /\ UNCHANGED <<pid, vruntime, min_vruntime, current, panicked>>
  BY <1>1 DEF KillOther
<1>3. /\ Live' = Live \ {t}
      /\ \A u \in Task : /\ state'[u] = "NONE" <=> state[u] = "NONE"
                         /\ state'[u] = "ZOMBIE" <=> (u = t \/ state[u] = "ZOMBIE")
  BY <1>0, <1>1, <1>2 DEF Live, TypeOK
<1>4. StateInv'
  BY <1>0, <1>1, <1>2, SMTT(30) DEF StateInv, TypeOK
<1>5. PidInv'
  BY <1>0, <1>1, <1>2, <1>3, DeathKeepsPids, SMTT(30)
<1>6. ListInv' /\ list' \in Seq(Task)
  BY <1>0, <1>1, <1>2, <1>3, DeathKeepsList, SMTT(30)
<1>7. QueueAboveMin'
  BY <1>0, <1>2 DEF QueueAboveMin
<1>8. TypeOK'
  BY <1>0, <1>1, <1>2, <1>6, SMTT(30) DEF TypeOK, PidFree
<1> QED BY <1>4, <1>5, <1>6, <1>7, <1>8 DEF Inv

\* task_create.
LEMMA CreateInv ==
  ASSUME Inv, NEW t \in Task, Create(t)
  PROVE  Inv'
<1>0. TypeOK /\ StateInv /\ PidInv /\ ListInv /\ QueueAboveMin
  BY DEF Inv
<1>1. PICK p \in Pids : /\ IsPidAlloc(p) /\ pid' = [pid EXCEPT ![t] = p]
                        /\ bitmap' = bitmap \cup {p}
  BY DEF Create
<1>2. /\ state[t] = "NONE" /\ t # Idle /\ t \notin rq
      /\ state' = [state EXCEPT ![t] = "READY"]
      /\ vruntime' = RaisedVruntime(t, [vruntime EXCEPT ![t] = 0], min_vruntime)
      /\ rq' = Enqueue(rq, t)
      /\ list' = Cons(t, list)
      /\ UNCHANGED <<min_vruntime, current, masked, panicked>>
  BY <1>0 DEF Create, StateInv
<1>3. p \notin bitmap /\ p \in Nat /\ p > 1
  BY <1>0, <1>1, SchedConstants, SMTT(30) DEF IsPidAlloc, FreePids, PidInv, PidsExact, Pids
<1>4. Live' = Live \cup {t}
  BY <1>0, <1>2 DEF Live, TypeOK
<1>5. \A u \in Live : pid[u] # p
  <2>1. pid[Idle] # p
    BY <1>0, <1>3, SMTT(30) DEF PidInv
  <2> QED BY <1>0, <1>3, <2>1 DEF PidInv, PidsExact
<1>6. /\ \A u \in Task \ {t} : pid'[u] = pid[u] /\ state'[u] = state[u]
      /\ pid'[t] = p /\ state'[t] = "READY"
  BY <1>0, <1>1, <1>2, SMTT(30) DEF TypeOK
<1>7. PidInv'
  <2>1. t \notin Live /\ Live \subseteq Task
    BY <1>2 DEF Live
  <2>2. bitmap' = {0, 1} \cup {pid'[u] : u \in Live' \ {Idle}}
    BY <1>0, <1>1, <1>2, <1>4, <1>6, <2>1, SMTT(30) DEF PidInv, PidsExact
  <2>3. \A u, v \in Live' : pid'[u] = pid'[v] => u = v
    BY <1>0, <1>4, <1>5, <1>6, <2>1, SMTT(30) DEF PidInv, PidsExact
  <2>4. PidsExact'
    BY <2>2, <2>3 DEF PidsExact
  <2> QED BY <1>0, <1>2, <1>3, <1>6, <2>4, SchedConstants DEF PidInv
<1>8. StateInv'
  BY <1>0, <1>2, <1>6, SMTT(30) DEF StateInv, Enqueue
<1>9. /\ vruntime' \in [Task -> 0 .. VrMod - 1]
      /\ QueueAboveMin'
  <2>1. vruntime' = [vruntime EXCEPT ![t] = IF 0 < min_vruntime THEN min_vruntime ELSE 0]
    BY <1>0, <1>2 DEF RaisedVruntime, TypeOK
  <2>2. vruntime' \in [Task -> 0 .. VrMod - 1]
    BY <1>0, <2>1, SchedConstants, SMTT(30) DEF TypeOK
  <2>3. \A u \in rq : vruntime'[u] = vruntime[u]
    BY <1>0, <1>2, <2>1 DEF TypeOK
  <2>4. vruntime'[t] >= min_vruntime
    BY <1>0, <2>1, SchedConstants, SMTT(30) DEF TypeOK
  <2>5. rq' \subseteq rq \cup {t}
    BY <1>2 DEF Enqueue
  <2>6. QueueAboveMin'
    BY <1>0, <1>2, <2>3, <2>4, <2>5 DEF QueueAboveMin
  <2> QED BY <2>2, <2>6
<1>10. /\ list' \in Seq(Task) /\ Len(list') = Len(list) + 1
       /\ Len(list) \in Nat
       /\ \A i \in 1 .. Len(list') : list'[i] = IF i = 1 THEN t ELSE list[i - 1]
  <2>1. list \in Seq(Task) /\ Len(list) \in Nat
    BY <1>0, SMTT(30) DEF TypeOK
  <2>2. /\ Cons(t, list) \in Seq(Task)
        /\ Len(Cons(t, list)) = Len(list) + 1
        /\ \A i \in 1 .. Len(list) + 1 :
             Cons(t, list)[i] = IF i = 1 THEN t ELSE list[i - 1]
    BY <2>1, ConsShifts, SMTT(30)
  <2> QED BY <1>2, <2>1, <2>2
<1>11. ListInv'
  <2>0. \A i \in 1 .. Len(list) : list[i] \in Task \ {t}
    BY <1>0, <1>2, SMTT(30) DEF ListInv, TypeOK
  <2>00. \A i \in 1 .. Len(list') : i # 1 => /\ i - 1 \in 1 .. Len(list)
                                             /\ list'[i] = list[i - 1]
    BY <1>10, SMTT(30)
  <2>01. list'[1] = t
    BY <1>10, SMTT(30)
  <2>1. \A i, j \in 1 .. Len(list') : list'[i] = list'[j] => i = j
    <3> SUFFICES ASSUME NEW i \in 1 .. Len(list'), NEW j \in 1 .. Len(list'),
                        list'[i] = list'[j]
                 PROVE  i = j
      OBVIOUS
    <3>1. CASE i = 1 \/ j = 1
      BY <2>0, <2>00, <2>01, <3>1
    <3>2. CASE i # 1 /\ j # 1
      <4>1. list[i - 1] = list[j - 1] /\ i - 1 \in 1 .. Len(list) /\ j - 1 \in 1 .. Len(list)
        BY <2>00, <3>2
      <4>2. i - 1 = j - 1
        BY <1>0, <4>1 DEF ListInv
      <4> QED BY <4>2, SMTT(30)
    <3> QED BY <3>1, <3>2
  <2>2. \A i \in 1 .. Len(list') : state'[list'[i]] # "NONE"
    BY <1>0, <1>6, <2>0, <2>00, <2>01, SMTT(30) DEF ListInv
  <2>3. \A u \in Live' : \E i \in 1 .. Len(list') : list'[i] = u
    <3> SUFFICES ASSUME NEW u \in Live'
                 PROVE  \E i \in 1 .. Len(list') : list'[i] = u
      OBVIOUS
    <3>1. CASE u = t
      BY <1>10, <2>01, <3>1, SMTT(30)
    <3>2. CASE u # t
      <4>1. PICK i \in 1 .. Len(list) : list[i] = u
        BY <1>0, <1>4, <3>2 DEF ListInv
      <4>2. i + 1 \in 1 .. Len(list') /\ i + 1 # 1 /\ (i + 1) - 1 = i
        BY <1>10, SMTT(30)
      <4>3. list'[i + 1] = u
        BY <2>00, <4>1, <4>2
      <4> QED BY <4>2, <4>3
    <3> QED BY <3>1, <3>2
  <2>4. \A i, j \in 1 .. Len(list') :
          i < j /\ pid'[list'[i]] = pid'[list'[j]] => state'[list'[j]] = "ZOMBIE"
    <3> SUFFICES ASSUME NEW i \in 1 .. Len(list'), NEW j \in 1 .. Len(list'),
                        i < j, pid'[list'[i]] = pid'[list'[j]]
                 PROVE  state'[list'[j]] = "ZOMBIE"
      OBVIOUS
    <3>1. j - 1 \in 1 .. Len(list) /\ list'[j] = list[j - 1] /\ list'[j] \in Task \ {t}
      BY <2>0, <2>00, SMTT(30)
    <3>2. CASE i = 1
      <4>1. pid[list[j - 1]] = p
        BY <1>6, <2>01, <3>1, <3>2
      <4>2. list[j - 1] \notin Live /\ state[list[j - 1]] # "NONE"
        BY <1>0, <1>5, <3>1, <4>1, SMTT(30) DEF ListInv
      <4>3. state[list[j - 1]] = "ZOMBIE"
        BY <1>0, <2>0, <3>1, <4>2 DEF Live, TypeOK
      <4> QED BY <1>6, <3>1, <4>3
    <3>3. CASE i # 1
      <4>1. /\ i - 1 \in 1 .. Len(list) /\ i - 1 < j - 1
            /\ list'[i] = list[i - 1] /\ list'[i] \in Task \ {t}
        BY <2>0, <2>00, <3>3, SMTT(30)
      <4>2. pid[list[i - 1]] = pid[list[j - 1]]
        BY <1>6, <3>1, <4>1, SMTT(30)
      <4>3. state[list[j - 1]] = "ZOMBIE"
        BY <1>0, <3>1, <4>1, <4>2, SMTT(30) DEF ListInv
      <4> QED BY <1>6, <3>1, <4>3
    <3> QED BY <3>2, <3>3
  <2> QED BY <2>1, <2>2, <2>3, <2>4 DEF ListInv
<1>12. TypeOK'
  BY <1>0, <1>1, <1>2, <1>9, <1>10 DEF TypeOK, Enqueue
<1> QED BY <1>7, <1>8, <1>9, <1>11, <1>12 DEF Inv

\* Every step of the specification preserves Inv.
LEMMA NextInv == Inv /\ [Next]_vars => Inv'
<1> SUFFICES ASSUME Inv, [Next]_vars PROVE Inv'
  OBVIOUS
<1>0. TypeOK /\ StateInv /\ PidInv /\ ListInv /\ QueueAboveMin
  BY DEF Inv
<1>m. masked \in BOOLEAN
  BY <1>0 DEF TypeOK
<1>1. CASE TimerIrq
  BY <1>1, <1>m, PutPrevAndPickInv DEF TimerIrq
<1>2. CASE Yield
  BY <1>2, <1>m, PutPrevAndPickInv DEF Yield
<1>3. CASE TaskExit \/ SysExit
  <2>1. Exit /\ masked' \in BOOLEAN
    BY <1>3, <1>m DEF TaskExit, SysExit
  <2>2. current \in Task /\ current # Idle /\ Running
    BY <1>0, <2>1 DEF Exit, Running, StateInv
  <2> QED BY <2>1, <2>2, DeathOfCurrentInv DEF Exit
<1>4. ASSUME NEW t \in Live, pid[t] # 0, Running, masked' \in BOOLEAN,
             KillOther(t) \/ KillSelf(t)
      PROVE  Inv'
  <2>1. t \in Task /\ t # Idle
    BY <1>0, <1>4 DEF Live, PidInv
  <2>2. CASE KillOther(t)
    BY <1>4, <2>1, <2>2, KillOtherInv
  <2>3. CASE KillSelf(t)
    BY <1>4, <2>1, <2>3, DeathOfCurrentInv DEF KillSelf
  <2> QED BY <1>4, <2>2, <2>3
<1>5. ASSUME NEW t \in Task, Kill(t) PROVE Inv'
  BY <1>4, <1>5, <1>m DEF Kill
<1>6. ASSUME NEW p \in Pids, SysKill(p) PROVE Inv'
  <2>1. PICK t \in FindByPid(p) :
          /\ pid[t] # 0 /\ state[t] # "ZOMBIE" /\ masked' \in BOOLEAN
          /\ KillOther(t) \/ KillSelf(t)
    BY <1>6, <1>m DEF SysKill
  <2>2. PICK i \in 1 .. Len(list) : t = list[i]
    BY DEF FindByPid
  <2>3. t \in Task /\ state[t] # "NONE"
    BY <1>0, <2>2, SMTT(30) DEF TypeOK, ListInv
  <2>4. t \in Live
    BY <1>0, <2>1, <2>3 DEF TypeOK, Live
  <2> QED BY <1>4, <1>6, <2>1, <2>4, SMTT(30) DEF SysKill
<1>7. ASSUME NEW t \in Task, Create(t) PROVE Inv'
  BY <1>7, CreateInv, SMTT(30)
<1>8. CASE UNCHANGED vars
  <2>1. Live' = Live
    BY <1>8 DEF vars, Live
  <2>2. TypeOK' /\ StateInv' /\ QueueAboveMin'
    BY <1>0, <1>8 DEF vars, TypeOK, StateInv, QueueAboveMin
  <2>3. PidInv' /\ ListInv'
    BY <1>0, <1>8, <2>1, SMTT(30) DEF vars, PidInv, PidsExact, ListInv
  <2> QED BY <2>2, <2>3 DEF Inv
<1>9. ASSUME NEW t \in Task, CreateNoStack(t) PROVE Inv'
  <2>1. bitmap' = bitmap
    <3>1. PICK p \in Pids : p \in FreePids /\ bitmap' = PidFree(bitmap \cup {p}, p)
      BY <1>9 DEF CreateNoStack, IsPidAlloc
    <3>2. p \in Pids \ {0} /\ p \notin bitmap
      BY <3>1 DEF FreePids
    <3>3. bitmap' = (bitmap \cup {p}) \ {p}
      BY <3>1, <3>2 DEF PidFree
    <3> QED BY <3>2, <3>3
  <2>2. UNCHANGED vars
    BY <1>9, <2>1 DEF CreateNoStack, vars
  <2> QED BY <1>8, <2>2
<1> QED BY <1>1, <1>2, <1>3, <1>5, <1>6, <1>7, <1>8, <1>9 DEF Next

\* The state task_init leaves satisfies Inv.
LEMMA InitInv == Init => Inv
<1> SUFFICES ASSUME Init PROVE Inv
  OBVIOUS
<1>1. Live = {Idle} /\ list = <<Idle>> /\ Len(list) = 1 /\ list[1] = Idle
  BY SchedConstants DEF Init, Live
<1>2. TypeOK
  <2>1. 0 \in Pids /\ 1 \in Pids /\ 0 \in 0 .. VrMod - 1
    BY SchedConstants, SMTT(30) DEF Pids
  <2>2. list \in Seq(Task)
    BY <1>1, SchedConstants, SMTT(30)
  <2> QED BY <2>1, <2>2, SchedConstants DEF Init, TypeOK
<1>3. StateInv
  BY SchedConstants DEF Init, StateInv
<1>4. PidInv
  BY <1>1, SchedConstants DEF Init, PidInv, PidsExact
<1>5. ListInv
  BY <1>1, SchedConstants, SMTT(30) DEF Init, ListInv
<1> QED BY <1>2, <1>3, <1>4, <1>5 DEF Inv, QueueAboveMin, Init

\* Inv holds in every reachable state of the scheduler.
THEOREM SchedInvariant == Spec => []Inv
BY InitInv, NextInv, PTL DEF Spec

\* The variables of the scheduler keep their types, for every set of tasks and
\* every value of the other constants.
THEOREM TypeCorrect == Spec => []TypeOK
BY SchedInvariant, PTL DEF Inv

\* At every point between entry points exactly the current task is RUNNING.
THEOREM AlwaysOneRunning == Spec => []OneRunning
<1>1. Inv => OneRunning
  BY DEF Inv, StateInv, OneRunning
<1> QED BY <1>1, SchedInvariant, PTL

\* PIDs are neither leaked nor shared by live tasks.
THEOREM AlwaysPidsExact == Spec => []PidsExact
<1>1. Inv => PidsExact
  BY DEF Inv, PidInv
<1> QED BY <1>1, SchedInvariant, PTL

\* Waiting tasks are never behind min_vruntime.
THEOREM AlwaysQueueAboveMin == Spec => []QueueAboveMin
BY SchedInvariant, PTL DEF Inv

\* task_find_by_pid finds the live holder of a PID and nobody else.
THEOREM AlwaysFindsLive == Spec => []FindFindsLive
<1>1. Inv => FindFindsLive
  <2> SUFFICES ASSUME Inv, NEW t \in Live PROVE FindByPid(pid[t]) = {t}
    BY DEF FindFindsLive
  <2>0. TypeOK /\ ListInv /\ Len(list) \in Nat
    BY SMTT(30) DEF Inv, TypeOK
  <2>1. PICK i \in 1 .. Len(list) : list[i] = t
    BY <2>0 DEF ListInv
  <2>2. state[t] # "ZOMBIE"
    BY DEF Live
  <2>3. \A k \in 1 .. i - 1 : k \in 1 .. Len(list) /\ k < i
    BY <2>0, SMTT(30)
  <2>4. \A k \in 1 .. i - 1 : pid[list[k]] # pid[t]
    BY <2>0, <2>1, <2>2, <2>3, SMTT(30) DEF ListInv
  <2>5. t \in FindByPid(pid[t])
    BY <2>1, <2>4 DEF FindByPid
  <2>6. ASSUME NEW j \in 1 .. Len(list), pid[list[j]] = pid[t],
               \A k \in 1 .. j - 1 : pid[list[k]] # pid[t]
        PROVE  list[j] = t
    <3>1. ~(i < j)
      BY <2>0, <2>1, <2>6, SMTT(30)
    <3>2. ~(j < i)
      BY <2>0, <2>4, <2>6, SMTT(30)
    <3> QED BY <2>1, <3>1, <3>2, SMTT(30)
  <2> QED BY <2>5, <2>6 DEF FindByPid
<1> QED BY <1>1, SchedInvariant, PTL

-----------------------------------------------------------------------------
(* With room for every task in the node pool nothing is lost. *)

\* The queue is complete and no assertion has failed.
Complete == ~panicked /\ rq = {t \in Task \ {Idle} : state[t] = "READY"}

\* A task that is not queued finds a free node.
LEMMA NodeAvailable ==
  ASSUME PoolSuffices, TypeOK, StateInv, NEW t \in Task \ {Idle}, t \notin rq
  PROVE  Enqueue(rq, t) = rq \cup {t}
<1>1. IsFiniteSet(Task) /\ Idle \in Task /\ Nodes \in Nat
  BY SchedConstants
<1>2. /\ IsFiniteSet(Task \ {Idle}) /\ Cardinality(Task \ {Idle}) = Cardinality(Task) - 1
  BY <1>1, FS_RemoveElement
<1>3. /\ IsFiniteSet((Task \ {Idle}) \ {t})
      /\ Cardinality((Task \ {Idle}) \ {t}) = Cardinality(Task) - 2
  <2>1. IsFiniteSet((Task \ {Idle}) \ {t})
        /\ Cardinality((Task \ {Idle}) \ {t}) = Cardinality(Task \ {Idle}) - 1
    BY <1>2, FS_RemoveElement
  <2>2. Cardinality(Task) \in Nat
    BY <1>1, FS_CardinalityType
  <2> QED BY <1>2, <2>1, <2>2, SMTT(30)
<1>4. rq \in SUBSET ((Task \ {Idle}) \ {t})
  BY DEF TypeOK, StateInv
<1>5. Cardinality(rq) <= Cardinality(Task) - 2 /\ Cardinality(rq) \in Nat
  BY <1>3, <1>4, FS_Subset, FS_CardinalityType, SMTT(30)
<1>6. Cardinality(Task) \in Nat
  BY <1>1, FS_CardinalityType
<1>7. Cardinality(rq) < Nodes
  BY <1>1, <1>5, <1>6, SMTT(30) DEF PoolSuffices
<1> QED BY <1>7 DEF Enqueue

\* schedule and schedule_preempt keep the queue complete.
LEMMA PutPrevAndPickComplete ==
  ASSUME PoolSuffices, Inv, Complete, Running,
         NEW d \in DeltaFair, NEW elapsed \in BOOLEAN,
         PutPrevAndPick(d, elapsed)
  PROVE  Complete'
<1> DEFINE prev == current
           vr1  == ChargedVruntime(prev, d, elapsed)
           min1 == ChargedMin(prev, vr1, elapsed)
           vr2  == IF pid[prev] # 0 THEN RaisedVruntime(prev, vr1, min1) ELSE vr1
           q1   == IF pid[prev] # 0 THEN Enqueue(rq, prev) ELSE rq
<1>0. TypeOK /\ StateInv /\ PidInv /\ ListInv /\ QueueAboveMin
  BY DEF Inv
<1>1. /\ prev \in Task /\ state[prev] = "RUNNING" /\ prev \notin rq
      /\ pid[prev] = 0 <=> prev = Idle
  BY <1>0, SMTT(30) DEF Running, StateInv, PidInv
<1>2. q1 = IF prev # Idle THEN rq \cup {prev} ELSE rq
  <2>1. CASE prev = Idle
    BY <1>1, <2>1
  <2>2. CASE prev # Idle
    BY <1>0, <1>1, <2>2, NodeAvailable
  <2> QED BY <2>1, <2>2
<1>3. vr2 \in [Task -> Nat]
  <2>1. vr1 \in [Task -> 0 .. VrMod - 1] /\ min1 \in 0 .. VrMod - 1
    <3> HIDE DEF prev, vr1, min1
    <3> QED BY <1>0, <1>1, UpdateCurrKeepsMin DEF vr1, min1
  <2> HIDE DEF vr1, min1
  <2> QED BY <1>1, <2>1, SchedConstants, SMTT(30) DEF RaisedVruntime
<1>4. q1 \in SUBSET Task
  BY <1>0, <1>1, <1>2 DEF TypeOK
<1>5. Candidates(q1, vr2) # {}
  <2> HIDE DEF q1, vr2
  <2> QED BY <1>0, <1>3, <1>4, SomethingToPick, SMTT(30)
<1>6. \E next \in Candidates(q1, vr2) :
        /\ state' = [state EXCEPT ![prev] = "READY", ![next] = "RUNNING"]
        /\ rq' = q1 \ {next} /\ panicked' = panicked
  BY <1>1, <1>2, <1>5 DEF PutPrevAndPick
<1> HIDE DEF q1, vr2
<1>7. PICK next \in Candidates(q1, vr2) :
        /\ state' = [state EXCEPT ![prev] = "READY", ![next] = "RUNNING"]
        /\ rq' = q1 \ {next} /\ panicked' = panicked
  BY <1>6
<1>8. next \in Task /\ (next \in q1 \/ next = Idle)
  BY <1>0, <1>4, PickedIsQueuedOrIdle, SchedConstants
<1>9. \A t \in Task : state'[t] = IF t = next THEN "RUNNING"
                                  ELSE IF t = prev THEN "READY" ELSE state[t]
  BY <1>0, <1>1, <1>7, <1>8 DEF TypeOK
<1>10. \A t \in Task : t \in rq' <=> t # Idle /\ state'[t] = "READY"
  BY <1>1, <1>2, <1>7, <1>8, <1>9 DEF Complete
<1>11. rq' \subseteq Task
  BY <1>4, <1>7
<1> QED BY <1>7, <1>10, <1>11 DEF Complete

\* So do exit and the killing of the current task.
LEMMA DeathOfCurrentComplete ==
  ASSUME Inv, Complete, Running, NEW t \in Task, t = current, t # Idle,
         PickWithoutPrev([state EXCEPT ![t] = "ZOMBIE"])
  PROVE  Complete'
<1>0. TypeOK /\ StateInv /\ PidInv /\ ListInv /\ QueueAboveMin
  BY DEF Inv
<1>1. vruntime \in [Task -> Nat] /\ rq \in SUBSET Task
  BY <1>0, SchedConstants, SMTT(30) DEF TypeOK
<1>2. Candidates(rq, vruntime) # {}
  BY <1>0, <1>1, SomethingToPick
<1>3. PICK next \in Candidates(rq, vruntime) :
        /\ state' = [[state EXCEPT ![t] = "ZOMBIE"] EXCEPT ![next] = "RUNNING"]
        /\ rq' = rq \ {next} /\ panicked' = panicked
  BY <1>2 DEF PickWithoutPrev
<1>4. next \in Task /\ (next \in rq \/ next = Idle)
  BY <1>0, <1>1, PickedIsQueuedOrIdle, SchedConstants, SMTT(30)
<1>5. t \notin rq
  BY <1>0 DEF Running, StateInv
<1>6. \A u \in Task : state'[u] = IF u = next THEN "RUNNING"
                                  ELSE IF u = t THEN "ZOMBIE" ELSE state[u]
  BY <1>0, <1>3, <1>4 DEF TypeOK
<1>7. rq = {u \in Task \ {Idle} : state[u] = "READY"}
  BY DEF Complete
<1>8. ASSUME NEW u \in Task PROVE u \in rq' <=> u # Idle /\ state'[u] = "READY"
  <2>0. rq' = rq \ {next}
    BY <1>3
  <2>1. CASE u = next
    <3>1. state'[u] = "RUNNING"
      BY <1>6, <2>1
    <3> QED BY <2>0, <2>1, <3>1
  <2>2. CASE u = t /\ u # next
    <3>1. state'[u] = "ZOMBIE"
      BY <1>6, <2>2
    <3> QED BY <1>5, <2>0, <2>2, <3>1, SMTT(30)
  <2>3. CASE u # t /\ u # next
    <3>1. state'[u] = state[u]
      BY <1>6, <2>3
    <3> QED BY <1>7, <2>0, <2>3, <3>1
  <2> QED BY <2>1, <2>2, <2>3
<1>9. rq' \subseteq Task /\ ~panicked'
  BY <1>1, <1>3 DEF Complete
<1> QED BY <1>8, <1>9 DEF Complete

\* Every step keeps the queue complete.
LEMMA NextComplete ==
  ASSUME PoolSuffices PROVE Inv /\ Complete /\ [Next]_vars => Complete'
<1> SUFFICES ASSUME Inv, Complete, [Next]_vars PROVE Complete'
  OBVIOUS
<1>0. TypeOK /\ StateInv /\ PidInv /\ ListInv
  BY DEF Inv
<1>1. CASE TimerIrq \/ Yield
  BY <1>1, PutPrevAndPickComplete DEF TimerIrq, Yield
<1>2. CASE TaskExit \/ SysExit
  <2>1. Exit /\ current \in Task
    BY <1>0, <1>2 DEF TaskExit, SysExit, Exit, Running, StateInv
  <2> QED BY <2>1, DeathOfCurrentComplete DEF Exit
<1>3. ASSUME NEW t \in Task, pid[t] # 0, Running, KillOther(t) \/ KillSelf(t)
      PROVE  Complete'
  <2>1. t # Idle
    BY <1>0, <1>3 DEF PidInv
  <2>2. CASE KillOther(t)
    <3>1. /\ state' = [state EXCEPT ![t] = "ZOMBIE"] /\ rq' = rq \ {t}
          /\ panicked' = panicked
      BY <2>1, <2>2 DEF KillOther, Complete
    <3>2. \A u \in Task : state'[u] = IF u = t THEN "ZOMBIE" ELSE state[u]
      BY <1>0, <3>1 DEF TypeOK
    <3> QED BY <3>1, <3>2, SMTT(30) DEF Complete
  <2>3. CASE KillSelf(t)
    BY <1>3, <2>1, <2>3, DeathOfCurrentComplete DEF KillSelf
  <2> QED BY <1>3, <2>2, <2>3
<1>4. ASSUME NEW t \in Task, Kill(t) PROVE Complete'
  BY <1>3, <1>4 DEF Kill
<1>5. ASSUME NEW p \in Pids, SysKill(p) PROVE Complete'
  <2>1. PICK t \in FindByPid(p) : pid[t] # 0 /\ (KillOther(t) \/ KillSelf(t))
    BY <1>5 DEF SysKill
  <2>2. t \in Task
    BY <1>0, SMTT(30) DEF FindByPid, TypeOK
  <2> QED BY <1>3, <1>5, <2>1, <2>2, SMTT(30) DEF SysKill
<1>6. ASSUME NEW t \in Task, Create(t) PROVE Complete'
  <2>1. /\ state[t] = "NONE" /\ state' = [state EXCEPT ![t] = "READY"]
        /\ rq' = Enqueue(rq, t) /\ panicked' = panicked
    BY <1>6 DEF Create
  <2>2. t # Idle /\ t \notin rq
    BY <1>0, <2>1 DEF StateInv
  <2>3. rq' = rq \cup {t}
    BY <1>0, <2>1, <2>2, NodeAvailable
  <2>4. \A u \in Task : state'[u] = IF u = t THEN "READY" ELSE state[u]
    BY <1>0, <2>1 DEF TypeOK
  <2> QED BY <2>1, <2>2, <2>3, <2>4 DEF Complete
<1>7. ASSUME NEW t \in Task, CreateNoStack(t) PROVE Complete'
  BY <1>7 DEF CreateNoStack, Complete
<1>8. CASE UNCHANGED vars
  BY <1>8 DEF vars, Complete
<1> QED BY <1>1, <1>2, <1>4, <1>5, <1>6, <1>7, <1>8 DEF Next

\* If the node pool has room for every task but idle, the run queue is exactly
\* the READY tasks: none that can run is ever forgotten.
THEOREM PoolSufficesForQueue == PoolSuffices => (Spec => []QueueIsReady)
<1> SUFFICES ASSUME PoolSuffices PROVE Spec => []QueueIsReady
  OBVIOUS
<1>1. Init => Complete
  BY SchedConstants DEF Init, Complete
<1>2. Inv /\ Complete /\ [Next]_vars => Complete'
  BY NextComplete
<1>3. Complete => QueueIsReady
  BY DEF Complete, QueueIsReady
<1> QED BY <1>1, <1>2, <1>3, SchedInvariant, PTL DEF Spec

\* If the node pool has room for every task but idle, no assertion of schedule
\* or schedule_preempt fails.
THEOREM PoolSufficesForPanic == PoolSuffices => (Spec => []NeverPanics)
<1> SUFFICES ASSUME PoolSuffices PROVE Spec => []NeverPanics
  OBVIOUS
<1>1. Init => Complete
  BY SchedConstants DEF Init, Complete
<1>2. Inv /\ Complete /\ [Next]_vars => Complete'
  BY NextComplete
<1>3. Complete => NeverPanics
  BY DEF Complete, NeverPanics
<1> QED BY <1>1, <1>2, <1>3, SchedInvariant, PTL DEF Spec

-----------------------------------------------------------------------------
(* Zombies. *)

\* What ZombiesStayDead says of one step.
ZombieStep ==
  \A t \in Task : state[t] = "ZOMBIE" =>
    state'[t] = "ZOMBIE" /\ t \notin rq' /\ pid'[t] = pid[t] /\ vruntime'[t] = vruntime[t]

\* Whoever is picked is queued or idle, hence no zombie.
LEMMA PickedIsNoZombie ==
  ASSUME TypeOK, StateInv, PidInv, ListInv, NEW vr, NEW q,
         q \subseteq rq \cup {current}, Running, NEW next \in Candidates(q, vr)
  PROVE  next \in Task /\ state[next] # "ZOMBIE"
<1>1. next \in q \/ next = Idle
  BY PickedIsQueuedOrIdle
<1> QED BY <1>1, SchedConstants DEF TypeOK, StateInv, Running

\* schedule and schedule_preempt leave zombies alone.
LEMMA PutPrevAndPickZombies ==
  ASSUME Inv, Inv', Running, NEW d \in DeltaFair, NEW elapsed \in BOOLEAN,
         PutPrevAndPick(d, elapsed)
  PROVE  ZombieStep
<1> DEFINE prev == current
           vr1  == ChargedVruntime(prev, d, elapsed)
           min1 == ChargedMin(prev, vr1, elapsed)
           vr2  == IF pid[prev] # 0 THEN RaisedVruntime(prev, vr1, min1) ELSE vr1
           q1   == IF pid[prev] # 0 THEN Enqueue(rq, prev) ELSE rq
<1>0. TypeOK /\ StateInv /\ PidInv /\ ListInv
  BY DEF Inv
<1>1. prev \in Task /\ state[prev] = "RUNNING"
  BY <1>0 DEF Running, StateInv
<1>2. \A t \in Task : t # prev => vr2[t] = vruntime[t]
  <2>1. vr1 \in [Task -> 0 .. VrMod - 1] /\ \A t \in Task : t # prev => vr1[t] = vruntime[t]
    BY <1>0, <1>1, SchedConstants, SMTT(30) DEF ChargedVruntime, TypeOK
  <2> HIDE DEF vr1, min1
  <2> QED BY <2>1 DEF RaisedVruntime
<1>3. q1 \subseteq rq \cup {prev}
  BY DEF Enqueue
<1>4. \/ state' = [state EXCEPT ![prev] = "READY"]
      \/ \E next \in Candidates(q1, vr2) :
           state' = [state EXCEPT ![prev] = "READY", ![next] = "RUNNING"]
  BY DEF PutPrevAndPick
<1>5. vruntime' = vr2
  BY DEF PutPrevAndPick
<1> HIDE DEF q1, vr2
<1>6. \A t \in Task : state[t] = "ZOMBIE" => state'[t] = "ZOMBIE"
  BY <1>0, <1>1, <1>3, <1>4, PickedIsNoZombie, SMTT(30) DEF TypeOK
<1>7. \A t \in rq' : state'[t] = "READY"
  BY DEF Inv, StateInv
<1>8. pid' = pid
  BY DEF PutPrevAndPick
<1> QED BY <1>1, <1>2, <1>5, <1>6, <1>7, <1>8 DEF ZombieStep

\* So do exit and the killing of the current task.
LEMMA DeathOfCurrentZombies ==
  ASSUME Inv, Running, NEW t \in Task,
         PickWithoutPrev([state EXCEPT ![t] = "ZOMBIE"])
  PROVE  \A u \in Task : state[u] = "ZOMBIE" =>
           state'[u] = "ZOMBIE" /\ u \notin rq' /\ vruntime'[u] = vruntime[u]
<1>0. TypeOK /\ StateInv /\ PidInv /\ ListInv
  BY DEF Inv
<1>1. /\ vruntime' = vruntime
      /\ \/ state' = [state EXCEPT ![t] = "ZOMBIE"] /\ rq' = rq
         \/ \E next \in Candidates(rq, vruntime) :
              /\ state' = [[state EXCEPT ![t] = "ZOMBIE"] EXCEPT ![next] = "RUNNING"]
              /\ rq' = rq \ {next}
  BY DEF PickWithoutPrev
<1>2. \A u \in Task : state[u] = "ZOMBIE" => state'[u] = "ZOMBIE"
  BY <1>0, <1>1, PickedIsNoZombie DEF TypeOK
<1>3. \A u \in rq' : state[u] = "READY"
  BY <1>0, <1>1 DEF StateInv
<1> QED BY <1>1, <1>2, <1>3

\* Every step leaves zombies alone.
LEMMA NextZombies == Inv /\ Inv' /\ [Next]_vars => [ZombieStep]_vars
<1> SUFFICES ASSUME Inv, Inv', Next PROVE ZombieStep
  OBVIOUS
<1>0. TypeOK /\ StateInv /\ PidInv /\ ListInv
  BY DEF Inv
<1>1. CASE TimerIrq \/ Yield
  BY <1>1, PutPrevAndPickZombies DEF TimerIrq, Yield
<1>2. CASE TaskExit \/ SysExit
  <2>1. Exit /\ current \in Task
    BY <1>0, <1>2 DEF TaskExit, SysExit, Exit, Running, StateInv
  <2> QED BY <2>1, DeathOfCurrentZombies, SMTT(30) DEF Exit, ZombieStep
<1>3. ASSUME NEW t \in Task, Running, KillOther(t) \/ KillSelf(t)
      PROVE  ZombieStep
  <2>1. CASE KillOther(t)
    <3>1. /\ state' = [state EXCEPT ![t] = "ZOMBIE"] /\ rq' \subseteq rq
          /\ vruntime' = vruntime /\ pid' = pid
      BY <2>1, SMTT(30) DEF KillOther
    <3> QED BY <1>0, <3>1 DEF TypeOK, StateInv, ZombieStep
  <2>2. CASE KillSelf(t)
    BY <1>3, <2>2, DeathOfCurrentZombies DEF KillSelf, ZombieStep
  <2> QED BY <1>3, <2>1, <2>2
<1>4. ASSUME NEW t \in Task, Kill(t) PROVE ZombieStep
  BY <1>3, <1>4 DEF Kill
<1>5. ASSUME NEW p \in Pids, SysKill(p) PROVE ZombieStep
  <2>1. PICK t \in FindByPid(p) : KillOther(t) \/ KillSelf(t)
    BY <1>5 DEF SysKill
  <2>2. t \in Task
    BY <1>0, SMTT(30) DEF FindByPid, TypeOK
  <2> QED BY <1>3, <1>5, <2>1, <2>2, SMTT(30) DEF SysKill
<1>6. ASSUME NEW t \in Task, Create(t) PROVE ZombieStep
  <2>1. /\ state[t] = "NONE" /\ state' = [state EXCEPT ![t] = "READY"]
        /\ vruntime' = RaisedVruntime(t, [vruntime EXCEPT ![t] = 0], min_vruntime)
        /\ \E p \in Pids : pid' = [pid EXCEPT ![t] = p]
    BY <1>6 DEF Create
  <2>2. \A u \in Task : state[u] = "ZOMBIE" => u # t /\ state'[u] = "ZOMBIE"
    BY <1>0, <2>1 DEF TypeOK
  <2>3. \A u \in Task : u # t => vruntime'[u] = vruntime[u]
    BY <1>0, <2>1, SMTT(30) DEF RaisedVruntime, TypeOK
  <2>4. \A u \in rq' : state'[u] = "READY"
    BY DEF Inv, StateInv
  <2>5. \A u \in Task : u # t => pid'[u] = pid[u]
    BY <1>0, <2>1 DEF TypeOK
  <2> QED BY <2>2, <2>3, <2>4, <2>5 DEF ZombieStep
<1>7. ASSUME NEW t \in Task, CreateNoStack(t) PROVE ZombieStep
  BY <1>0, <1>7 DEF CreateNoStack, ZombieStep, StateInv
<1> QED BY <1>1, <1>2, <1>4, <1>5, <1>6, <1>7 DEF Next

\* A zombie stays a zombie, keeps its PID field and is never queued or charged
\* again, whatever the size of the node pool.
THEOREM ZombiesAreNeverRun == Spec => ZombiesStayDead
<1>1. Inv /\ Inv' /\ [Next]_vars => [ZombieStep]_vars
  BY NextZombies
<1>2. ZombieStep <=> \A t \in Task : state[t] = "ZOMBIE" =>
        /\ state'[t] = "ZOMBIE"
        /\ t \notin rq'
        /\ pid'[t] = pid[t]
        /\ vruntime'[t] = vruntime[t]
  BY DEF ZombieStep
<1> QED BY <1>1, <1>2, SchedInvariant, PTL DEF Spec, ZombiesStayDead
=============================================================================
