------------------------------- MODULE Sched -------------------------------
(***************************************************************************)
(* Tasks, PIDs, the task list and the EEVDF run queue of the kernel        *)
(* (kernel/sched/sched.c, task.c, eevdf.c, kernel/pid.c, syscall.c), with  *)
(* every entry point taken as one step.                                    *)
(*                                                                         *)
(* The timer interrupt and the SVC handlers run with IRQs masked on the    *)
(* only CPU, so for them one step is what the hardware does.  Calls made   *)
(* from task context (schedule, task_create, task_kill, and the task_exit  *)
(* of task_entry_wrapper) can be interrupted; SchedIrq models those        *)
(* interleavings, this module what the calls do when they are not.         *)
(*                                                                         *)
(* The run queue is the set of queued tasks, and eevdf_pick_next takes one *)
(* of least vruntime; RbTree models the red-black tree that holds it.      *)
(***************************************************************************)
EXTENDS Integers, Sequences, FiniteSets, SequencesExt

CONSTANTS
  Task,        \* the task_t objects that can be allocated
  Idle,        \* the one task_init creates
  NULL,
  MaxPid,      \* MAX_PID: PIDs are 0 .. MaxPid-1
  Nodes,       \* the run queue's node pool (64 in eevdf.c)
  VrMod,       \* vruntime is counted modulo VrMod (2^64 in the code)
  DeltaFair    \* what one eevdf_update_curr may add to vruntime

ASSUME SchedConstants ==
  /\ Idle \in Task
  /\ NULL \notin Task
  /\ IsFiniteSet(Task)
  /\ MaxPid \in Nat /\ MaxPid > 1
  /\ Nodes \in Nat
  /\ VrMod \in Nat \ {0}
  /\ DeltaFair \in SUBSET Nat

VARIABLES
  state,         \* task->state, or "NONE" before task_create
  pid,           \* task->pid
  bitmap,        \* pid_bitmap: the PIDs in use
  list,          \* task_list, first element first
  rq,            \* the tasks that have a node in the run queue
  vruntime,      \* task->vruntime
  min_vruntime,  \* runqueue.min_vruntime
  current,       \* current_task
  masked,        \* PSTATE.I of the CPU while the current task executes
  panicked       \* panic() was called: the machine has halted

vars == <<state, pid, bitmap, list, rq, vruntime, min_vruntime, current,
          masked, panicked>>

Pids == 0 .. MaxPid - 1

Live == {t \in Task : state[t] \in {"READY", "RUNNING"}}

-----------------------------------------------------------------------------
(* PIDs and the task list. *)

FreePids == {p \in Pids \ {0} : p \notin bitmap}

\* pid_alloc returns the lowest clear bit above 0.
IsPidAlloc(p) == p \in FreePids /\ \A q \in FreePids : p <= q

\* Mutant: the bit is never cleared.
PidFreeLeaks(bm, p) == bm

\* pid_free ignores PID 0 and what is out of range.
PidFree(bm, p) == IF p \in Pids \ {0} THEN bm \ {p} ELSE bm

\* Mutant: the last task of the list with this PID.
FindByPidLast(p) ==
  {list[i] : i \in {j \in 1 .. Len(list) :
                      /\ pid[list[j]] = p
                      /\ \A k \in j + 1 .. Len(list) : pid[list[k]] # p}}

\* task_find_by_pid: the first task of the list with this PID, if any.
FindByPid(p) ==
  {list[i] : i \in {j \in 1 .. Len(list) :
                      /\ pid[list[j]] = p
                      /\ \A k \in 1 .. j - 1 : pid[list[k]] # p}}

-----------------------------------------------------------------------------
(* The run queue. *)

\* What eevdf_pick_next may return: a leftmost node holds a least vruntime.
Leftmost(q, vr) == {t \in q : \A u \in q : vr[t] <= vr[u]}

LeastVruntime(q, vr) == Min({vr[t] : t \in q})

\* eevdf_update_curr: without elapsed time nothing changes; otherwise t is
\* charged d and min_vruntime is set from the queue, or from t if it is empty.
ChargedVruntime(t, d, elapsed) ==
  IF elapsed THEN [vruntime EXCEPT ![t] = (@ + d) % VrMod] ELSE vruntime

ChargedMin(t, vr, elapsed) ==
  IF ~elapsed THEN min_vruntime
  ELSE IF rq = {} THEN vr[t] ELSE LeastVruntime(rq, vr)

\* Mutant: a task is queued with the vruntime it had.
RaisedVruntimeKept(t, vr, min) == vr

\* Mutant: the last node of the pool is never used.
EnqueueOneShort(q, t) == IF Cardinality(q) + 1 < Nodes THEN q \cup {t} ELSE q

\* eevdf_enqueue: raise vruntime to the minimum, then take a node if there
\* is one; when the pool is exhausted the task is silently left out.
RaisedVruntime(t, vr, min) == [vr EXCEPT ![t] = IF @ < min THEN min ELSE @]

Enqueue(q, t) == IF Cardinality(q) < Nodes THEN q \cup {t} ELSE q

\* What schedule and schedule_preempt may run next: a leftmost task of the
\* queue, or the idle task when the queue is empty.
Candidates(q, vr) == IF q # {} THEN Leftmost(q, vr) ELSE FindByPid(0)

-----------------------------------------------------------------------------
(* schedule() and schedule_preempt() when the current task is RUNNING: it  *)
(* is charged, made READY, queued unless it is the idle task, and the next *)
(* task is taken from the queue, which may be the same one.                *)

PutPrevAndPick(d, elapsed) ==
  LET prev == current
      vr1  == ChargedVruntime(prev, d, elapsed)
      min1 == ChargedMin(prev, vr1, elapsed)
      vr2  == IF pid[prev] # 0 THEN RaisedVruntime(prev, vr1, min1) ELSE vr1
      q1   == IF pid[prev] # 0 THEN Enqueue(rq, prev) ELSE rq
      lost == pid[prev] # 0 /\ prev \notin q1
  IN  /\ vruntime' = vr2
      /\ min_vruntime' = min1
      /\ IF lost \/ Candidates(q1, vr2) = {}
         THEN /\ panicked' = TRUE
              /\ state' = [state EXCEPT ![prev] = "READY"]
              /\ rq' = q1
              /\ UNCHANGED current
         ELSE \E next \in Candidates(q1, vr2) :
              /\ state' = [state EXCEPT ![prev] = "READY", ![next] = "RUNNING"]
              /\ rq' = q1 \ {next}
              /\ current' = next
              /\ UNCHANGED panicked
      /\ UNCHANGED <<pid, bitmap, list>>

\* schedule() after task_set_current(NULL): st are the task states by then.
PickWithoutPrev(st) ==
  /\ IF Candidates(rq, vruntime) = {}
     THEN /\ panicked' = TRUE
          /\ state' = st
          /\ current' = NULL
          /\ UNCHANGED rq
     ELSE \E next \in Candidates(rq, vruntime) :
          /\ state' = [st EXCEPT ![next] = "RUNNING"]
          /\ rq' = rq \ {next}
          /\ current' = next
          /\ UNCHANGED panicked
  /\ UNCHANGED <<vruntime, min_vruntime>>

-----------------------------------------------------------------------------
(* Entry points. *)

Running == ~panicked /\ current # NULL

\* timer_irq_handler: schedule_preempt, then eret to the chosen task with
\* the PSTATE of its context, in which IRQs are enabled.
TimerIrq ==
  /\ Running /\ ~masked
  /\ \E d \in DeltaFair, elapsed \in BOOLEAN : PutPrevAndPick(d, elapsed)
  /\ UNCHANGED masked

\* schedule() called by the current task; switch_to leaves PSTATE alone.
Yield ==
  /\ Running
  /\ \E d \in DeltaFair, elapsed \in BOOLEAN : PutPrevAndPick(d, elapsed)
  /\ UNCHANGED masked

\* task_exit: the exiting task stays in the task list.
Exit ==
  /\ Running
  /\ current # Idle
  /\ bitmap' = PidFree(bitmap, pid[current])
  /\ PickWithoutPrev([state EXCEPT ![current] = "ZOMBIE"])
  /\ UNCHANGED <<pid, list>>

\* A task returns from its entry function: task_entry_wrapper calls task_exit.
TaskExit == Exit /\ UNCHANGED masked

\* sys_exit: the same inside the SVC handler, which is left by a branch to
\* the next task and not by eret, so that task runs with IRQs masked.
SysExit == Exit /\ masked' = TRUE

\* Mutant: the killed task stays in the run queue.
KillOtherQueued(t) ==
  /\ t # current
  /\ state' = [state EXCEPT ![t] = "ZOMBIE"]
  /\ bitmap' = PidFree(bitmap, pid[t])
  /\ list' = RemoveFirst(list, t)
  /\ UNCHANGED <<pid, rq, vruntime, min_vruntime, current, panicked>>

\* task_kill of a task that is neither the idle task nor a zombie.
KillOther(t) ==
  /\ t # current
  /\ state' = [state EXCEPT ![t] = "ZOMBIE"]
  /\ rq' = IF state[t] = "READY" THEN rq \ {t} ELSE rq
  /\ bitmap' = PidFree(bitmap, pid[t])
  /\ list' = RemoveFirst(list, t)
  /\ UNCHANGED <<pid, vruntime, min_vruntime, current, panicked>>

KillSelf(t) ==
  /\ t = current
  /\ bitmap' = PidFree(bitmap, pid[t])
  /\ list' = RemoveFirst(list, t)
  /\ PickWithoutPrev([state EXCEPT ![t] = "ZOMBIE"])
  /\ UNCHANGED pid

\* task_kill called by the current task with a task it created earlier.
Kill(t) ==
  /\ Running
  /\ t \in Live /\ pid[t] # 0
  /\ KillOther(t) \/ KillSelf(t)
  /\ UNCHANGED masked

\* sys_kill: the same inside the SVC handler, on what task_find_by_pid finds.
SysKill(p) ==
  /\ Running
  /\ \E t \in FindByPid(p) :
       /\ pid[t] # 0 /\ state[t] # "ZOMBIE"
       /\ \/ KillOther(t) /\ UNCHANGED masked
          \/ KillSelf(t) /\ masked' = TRUE

\* task_create with both allocations granted.  Where vmalloc or pid_alloc
\* fails, task_create undoes what it did and nothing changes.
Create(t) ==
  /\ Running
  /\ state[t] = "NONE"
  /\ \E p \in Pids :
       /\ IsPidAlloc(p)
       /\ pid' = [pid EXCEPT ![t] = p]
       /\ bitmap' = bitmap \cup {p}
  /\ state' = [state EXCEPT ![t] = "READY"]
  /\ vruntime' = RaisedVruntime(t, [vruntime EXCEPT ![t] = 0], min_vruntime)
  /\ rq' = Enqueue(rq, t)
  /\ list' = Cons(t, list)
  /\ UNCHANGED <<min_vruntime, current, masked, panicked>>

\* Mutant: the PID is not given back.
CreateNoStackLeaks(t) ==
  /\ Running
  /\ state[t] = "NONE"
  /\ \E p \in Pids : IsPidAlloc(p) /\ bitmap' = bitmap \cup {p}
  /\ UNCHANGED <<state, pid, list, rq, vruntime, min_vruntime, current,
                 masked, panicked>>

\* task_create when the stack cannot be allocated: the PID is given back.
CreateNoStack(t) ==
  /\ Running
  /\ state[t] = "NONE"
  /\ \E p \in Pids : IsPidAlloc(p) /\ bitmap' = PidFree(bitmap \cup {p}, p)
  /\ UNCHANGED <<state, pid, list, rq, vruntime, min_vruntime, current,
                 masked, panicked>>

\* The state task_init leaves.  task_create gave the idle task PID 1, which
\* stays taken when its pid becomes 0, as does bit 0 that pid_init sets.
Init ==
  /\ state = [t \in Task |-> IF t = Idle THEN "RUNNING" ELSE "NONE"]
  /\ pid = [t \in Task |-> 0]
  /\ bitmap = {0, 1}
  /\ list = <<Idle>>
  /\ rq = {}
  /\ vruntime = [t \in Task |-> 0]
  /\ min_vruntime = 0
  /\ current = Idle
  /\ masked = FALSE
  /\ panicked = FALSE

Next ==
  \/ TimerIrq
  \/ Yield
  \/ TaskExit
  \/ SysExit
  \/ \E t \in Task : Kill(t)
  \/ \E p \in Pids : SysKill(p)
  \/ \E t \in Task : Create(t)
  \/ \E t \in Task : CreateNoStack(t)

Spec == Init /\ [][Next]_vars
-----------------------------------------------------------------------------
(* Properties. *)

\* The values the scheduler's variables take.
TypeOK ==
  /\ state \in [Task -> {"NONE", "READY", "RUNNING", "ZOMBIE"}]
  /\ pid \in [Task -> Pids]
  /\ bitmap \in SUBSET Pids
  /\ list \in Seq(Task)
  /\ rq \in SUBSET Task
  /\ vruntime \in [Task -> 0 .. VrMod - 1]
  /\ min_vruntime \in 0 .. VrMod - 1
  /\ current \in Task \cup {NULL}
  /\ masked \in BOOLEAN
  /\ panicked \in BOOLEAN

\* The node pool has room for every task but the idle one.
PoolSuffices == Cardinality(Task) <= Nodes + 1

\* Until a panic, the current task is RUNNING and no other task is, whatever
\* mix of preemptions, yields, exits and kills came before.
OneRunning ==
  ~panicked => {t \in Task : state[t] = "RUNNING"} = {current}

\* The run queue holds the READY tasks other than idle and nothing else: no
\* task that can run is forgotten and no zombie can be picked.  (The invariant
\* the panics of schedule and schedule_preempt guard.)
QueueIsReady ==
  ~panicked => rq = {t \in Task \ {Idle} : state[t] = "READY"}

\* The PID bitmap is exactly bit 0, the bit 1 left by the idle task and the
\* PIDs of the live tasks, which are distinct: none leaks on exit, on kill or
\* when task_create backs out, and none is freed while its task lives.
PidsExact ==
  /\ bitmap = {0, 1} \cup {pid[t] : t \in Live \ {Idle}}
  /\ \A t, u \in Live : pid[t] = pid[u] => t = u

\* task_find_by_pid on a live task's PID finds that task, although tasks that
\* exited stay in the list with PIDs that are handed out again: sys_kill never
\* hits a dead namesake, nor another task.
FindFindsLive == \A t \in Live : FindByPid(pid[t]) = {t}

\* No queued task is behind min_vruntime, so a task that eevdf_enqueue raises
\* to min_vruntime never overtakes one that was waiting with less.
QueueAboveMin == \A t \in rq : vruntime[t] >= min_vruntime

\* The assertions of schedule and schedule_preempt never fail, and an idle task
\* is always found, as long as the node pool suffices.
NeverPanics == ~panicked

\* A zombie stays one: no later decision of the scheduler runs or queues it
\* again, and its PID field and vruntime are never touched, although a zombie
\* that exited stays in the task list and its PID is handed out again.
ZombiesStayDead ==
  [][\A t \in Task : state[t] = "ZOMBIE" =>
        /\ state'[t] = "ZOMBIE"
        /\ t \notin rq'
        /\ pid'[t] = pid[t]
        /\ vruntime'[t] = vruntime[t]]_vars

-----------------------------------------------------------------------------
(* The inductive invariant behind the properties above; it holds whatever  *)
(* the size of the node pool.                                              *)

\* The task list has no duplicates and holds every live task and no task that
\* was never created; of two entries with the same PID the one nearer the
\* front is the younger, and the other a zombie.
ListInv ==
  /\ \A i, j \in 1 .. Len(list) : list[i] = list[j] => i = j
  /\ \A i \in 1 .. Len(list) : state[list[i]] # "NONE"
  /\ \A t \in Live : \E i \in 1 .. Len(list) : list[i] = t
  /\ \A i, j \in 1 .. Len(list) :
       i < j /\ pid[list[i]] = pid[list[j]] => state[list[j]] = "ZOMBIE"

\* Only idle has PID 0, and PID 1 is never handed out.
PidInv ==
  /\ pid[Idle] = 0
  /\ \A t \in Task \ {Idle} : state[t] # "NONE" => pid[t] > 1
  /\ PidsExact

\* Who runs and who is queued.
StateInv ==
  /\ state[Idle] \in {"READY", "RUNNING"}
  /\ ~panicked => current \in Task /\ state[current] = "RUNNING"
  /\ \A t \in Task : state[t] = "RUNNING" => t = current
  /\ \A t \in rq : t # Idle /\ state[t] = "READY"

\* What every entry point of the scheduler, the task list and the PID bitmap
\* preserves: the inductive invariant.
Inv == TypeOK /\ StateInv /\ PidInv /\ ListInv /\ QueueAboveMin
=============================================================================
