------------------------------ MODULE SchedIrq ------------------------------
(***************************************************************************)
(* The scheduler's entry points one statement group at a time, with the    *)
(* timer interrupt between them (kernel/sched/sched.c, task.c, pid.c, the  *)
(* IRQ and SVC paths of exception.S, and switch_to).                       *)
(*                                                                         *)
(* There is one CPU.  `cpu' is the flow of control it executes: whose      *)
(* stack it is on, where in the code it is, and the locals it will still   *)
(* use.  A task that does not execute is a flow saved in its context.      *)
(* Saving is what schedule_preempt (from the interrupt frame) and          *)
(* switch_to do; they save into the context of the task they hold to be    *)
(* the current one, which need not be the one whose stack is in use.       *)
(*                                                                         *)
(* Each eevdf_ operation is one step, and any queued task may be leftmost: *)
(* vruntime depends on elapsed time only and is left out.                  *)
(***************************************************************************)
EXTENDS Integers, FiniteSets

CONSTANTS
  Task, Idle, NULL, MaxPid, Nodes   \* as in Sched

CreatePlaces ==
  {"create_pid", "create_unlock", "create_stack", "create_undo",
   "create_undo_unlock", "create_enqueue", "create_link", "create_back", "create_publish"}

\* In schedule(), after prev->state = TASK_READY and up to the switch.
Switching ==
  {"enqueue", "check_queued", "pick", "stay", "stay_dequeue", "dequeue", "run",
   "set_current", "switch"}

KillPlaces ==
  {"kill", "kill_dequeue", "kill_zombie", "kill_pid_free", "kill_unlock",
   "kill_unlink", "kill_end"}

\* Where a flow can be, by the statement it executes next.
Location ==
  {"body", "schedule", "set_ready", "exit", "exit_pid_free", "exit_unlock", "exit_clear"}
  \cup Switching \cup KillPlaces \cup CreatePlaces

ASSUME SchedIrqConstants ==
  /\ Idle \in Task /\ NULL \notin Task /\ IsFiniteSet(Task)
  /\ MaxPid \in Nat /\ MaxPid > 1 /\ Nodes \in Nat

VARIABLES
  state,      \* task->state; "NONE" before vmalloc, "NEW" before it is set
  pid,        \* task->pid
  bitmap,     \* pid_bitmap
  pid_lock,   \* the flow holding pid_lock, or NULL
  head,       \* task_list
  nxt,        \* task->next
  prv,        \* task->prev
  nodes,      \* how many nodes of the run queue point to the task
  current,    \* current_task
  ctx,        \* task->context: the flow saved in it, Stale when used up
  cpu,        \* the flow being executed
  masked,     \* PSTATE.I
  panicked,   \* panic() was called
  wild,       \* a context was restored that is not where its task stopped
  torn        \* history: the timer has cut into a switch or into task_kill

sched == <<state, pid, bitmap, pid_lock, head, nxt, prv, nodes, current>>
vars  == <<sched, ctx, cpu, masked, panicked, wild, torn>>

Flow == [task : Task, at : Location, prev : Task \cup {NULL},
         next : Task \cup {NULL}, arg : Task \cup {NULL},
         svc : {"no", "unmasked", "masked"}]

\* In its own code, outside of any call.
Body(t) == [task |-> t, at |-> "body", prev |-> NULL, next |-> NULL,
            arg |-> NULL, svc |-> "no"]

\* No flow: what is left in a context after it was restored.
Stale == [Body(Idle) EXCEPT !.at = "stale"]

-----------------------------------------------------------------------------
(* Run queue, PIDs and the task list. *)

Queued(n) == {t \in Task : n[t] > 0}

\* The nodes in use.
InUse(n) == UNION {{t} \X (1 .. n[t]) : t \in Task}

\* eevdf_enqueue: only READY tasks, and only if a node is free.
Enqueue(n, st, t) ==
  IF st[t] = "READY" /\ Cardinality(InUse(n)) < Nodes
  THEN [n EXCEPT ![t] = @ + 1] ELSE n

\* eevdf_dequeue: the first node found, if any.
Dequeue(n, t) == [n EXCEPT ![t] = IF @ > 0 THEN @ - 1 ELSE 0]

\* Mutant: the bitmap is not looked at.
FreePidsUnchecked == 1 .. MaxPid - 1

FreePids == {p \in 1 .. MaxPid - 1 : p \notin bitmap}

\* The tasks that task_find_by_pid's loop reaches: task_list, then the next of
\* every task with another PID.
Reached(p) ==
  LET Walked(S) == /\ head \in S \cup {NULL}
                   /\ \A u \in S : pid[u] # p => nxt[u] \in S \cup {NULL}
  IN  {t \in Task : \A S \in SUBSET Task : Walked(S) => t \in S}

\* task_find_by_pid.
FindByPid(p) == {t \in Reached(p) : pid[t] = p}

-----------------------------------------------------------------------------
(* Control. *)

Alive == ~panicked /\ ~wild

At(l) == Alive /\ cpu.at = l

Goto(l) == cpu' = [cpu EXCEPT !.at = l]

\* Back in the caller; the SVC handler's eret also restores PSTATE.
Return ==
  /\ cpu' = Body(cpu.task)
  /\ masked' = IF cpu.svc = "no" THEN masked ELSE cpu.svc = "masked"

Panic == panicked' = TRUE /\ UNCHANGED <<cpu, masked, ctx, wild>>

\* Only control moves on.
Stay == UNCHANGED <<masked, panicked, ctx, wild>>

\* The CPU continues with what is in t's context; c are the contexts by then.
Restore(c, t) ==
  /\ cpu' = c[t]
  /\ wild' = (c[t] = Stale \/ c[t].task # t)
  /\ ctx' = [c EXCEPT ![t] = Stale]

\* spinlock_lock spins while the lock is held, here by not stepping.
Lock == pid_lock = NULL /\ pid_lock' = cpu.task

Unlock == pid_lock' = NULL

-----------------------------------------------------------------------------
(* Calls made by the executing flow from its body. *)

CallSchedule == At("body") /\ Goto("schedule")

CallExit == At("body") /\ cpu.task # Idle /\ Goto("exit")

\* The tasks that some flow, executing or saved, is creating at a given place.
BeingCreated(places) ==
  {t \in Task : \E f \in {cpu} \cup {ctx[u] : u \in Task} :
                  f.arg = t /\ f.at \in places}

\* task_kill with a task that task_create has returned.
CallKill(t) ==
  /\ At("body")
  /\ state[t] \notin {"NONE", "NEW"} /\ t \notin BeingCreated(CreatePlaces)
  /\ cpu' = [cpu EXCEPT !.at = "kill", !.arg = t]

\* task_create: vmalloc grants the object t and memset clears it.
CallCreate(t) ==
  /\ At("body") /\ state[t] = "NONE"
  /\ state' = [state EXCEPT ![t] = "NEW"]
  /\ cpu' = [cpu EXCEPT !.at = "create_pid", !.arg = t]
  /\ UNCHANGED <<pid, bitmap, pid_lock, head, nxt, prv, nodes, current>>

Call ==
  /\ \/ (CallSchedule \/ CallExit \/ \E t \in Task : CallKill(t)) /\ UNCHANGED sched
     \/ \E t \in Task : CallCreate(t)
  /\ Stay /\ UNCHANGED torn

\* svc #0 with SYS_EXIT or SYS_KILL: the same code with IRQs masked.
Svc ==
  /\ At("body")
  /\ LET from == IF masked THEN "masked" ELSE "unmasked"
     IN  \/ /\ cpu.task # Idle
            /\ cpu' = [cpu EXCEPT !.at = "exit", !.svc = from]
         \/ \E p \in 0 .. MaxPid - 1 : \E t \in FindByPid(p) :
              cpu' = [cpu EXCEPT !.at = "kill", !.arg = t, !.svc = from]
  /\ masked' = TRUE
  /\ UNCHANGED <<sched, panicked, ctx, wild, torn>>

-----------------------------------------------------------------------------
(* schedule() *)

\* Lines 11-22: without a current task, or with one that does not run, there
\* is nothing to put back.
Schedule ==
  /\ At("schedule")
  /\ cpu' = [cpu EXCEPT !.prev = current,
               !.at = IF current # NULL /\ state[current] = "RUNNING"
                      THEN "set_ready" ELSE "pick"]
  /\ Stay /\ UNCHANGED sched

SetReady ==
  /\ At("set_ready")
  /\ state' = [state EXCEPT ![cpu.prev] = "READY"]
  /\ Goto(IF pid[cpu.prev] # 0 THEN "enqueue" ELSE "pick")
  /\ Stay
  /\ UNCHANGED <<pid, bitmap, pid_lock, head, nxt, prv, nodes, current>>

EnqueuePrev ==
  /\ At("enqueue")
  /\ nodes' = Enqueue(nodes, state, cpu.prev)
  /\ Goto("check_queued")
  /\ Stay
  /\ UNCHANGED <<state, pid, bitmap, pid_lock, head, nxt, prv, current>>

CheckQueued ==
  /\ At("check_queued")
  /\ IF nodes[cpu.prev] = 0 THEN Panic ELSE Goto("pick") /\ Stay
  /\ UNCHANGED sched

Pick ==
  /\ At("pick")
  /\ LET prev == cpu.prev
         picks == IF Queued(nodes) # {} THEN Queued(nodes) ELSE FindByPid(0)
     IN  IF \/ prev # NULL /\ state[prev] = "ZOMBIE" /\ nodes[prev] > 0
            \/ picks = {}
         THEN Panic
         ELSE \E next \in picks :
           \/ /\ next # prev
              /\ cpu' = [cpu EXCEPT !.next = next, !.at = "dequeue"]
              /\ Stay
           \/ next = prev /\ state[prev] = "READY" /\ Goto("stay") /\ Stay
           \/ /\ next = prev /\ state[prev] # "READY"
              /\ Return /\ UNCHANGED <<panicked, ctx, wild>>
  /\ UNCHANGED sched

\* Staying with the same task: it is made RUNNING, then dequeued.
StayRunning ==
  /\ At("stay")
  /\ state' = [state EXCEPT ![cpu.prev] = "RUNNING"]
  /\ Goto("stay_dequeue")
  /\ Stay
  /\ UNCHANGED <<pid, bitmap, pid_lock, head, nxt, prv, nodes, current>>

StayDequeue ==
  /\ At("stay_dequeue")
  /\ nodes' = Dequeue(nodes, cpu.prev)
  /\ IF nodes'[cpu.prev] > 0 THEN Panic
     ELSE Return /\ UNCHANGED <<panicked, ctx, wild>>
  /\ UNCHANGED <<state, pid, bitmap, pid_lock, head, nxt, prv, current>>

DequeueNext ==
  /\ At("dequeue")
  /\ nodes' = IF pid[cpu.next] # 0 THEN Dequeue(nodes, cpu.next) ELSE nodes
  /\ IF pid[cpu.next] # 0 /\ nodes'[cpu.next] > 0 THEN Panic ELSE Goto("run") /\ Stay
  /\ UNCHANGED <<state, pid, bitmap, pid_lock, head, nxt, prv, current>>

RunNext ==
  /\ At("run")
  /\ state' = [state EXCEPT ![cpu.next] = "RUNNING"]
  /\ IF nodes[cpu.next] > 0 THEN Panic ELSE Goto("set_current") /\ Stay
  /\ UNCHANGED <<pid, bitmap, pid_lock, head, nxt, prv, nodes, current>>

\* Mutant: current_task is not updated.
SetCurrentSkipped == At("set_current") /\ Goto("switch") /\ Stay /\ UNCHANGED sched

SetCurrent ==
  /\ At("set_current")
  /\ current' = cpu.next
  /\ Goto("switch")
  /\ Stay
  /\ UNCHANGED <<state, pid, bitmap, pid_lock, head, nxt, prv, nodes>>

\* switch_to, or the branch taken when there is no prev.  PSTATE is neither
\* saved nor restored.  What is saved returns from schedule().
Switch ==
  /\ At("switch")
  /\ Restore(IF cpu.prev # NULL
             THEN [ctx EXCEPT ![cpu.prev] = Body(cpu.task)] ELSE ctx, cpu.next)
  /\ UNCHANGED <<sched, masked, panicked>>

-----------------------------------------------------------------------------
(* task_exit *)

Exit ==
  /\ At("exit")
  /\ IF current = NULL
     THEN Return /\ UNCHANGED <<sched, panicked, ctx, wild>>
     ELSE /\ state' = [state EXCEPT ![current] = "ZOMBIE"]
          /\ Goto("exit_pid_free")
          /\ Stay
          /\ UNCHANGED <<pid, bitmap, pid_lock, head, nxt, prv, nodes, current>>

\* pid_free(t->pid) up to the unlock; it ignores PID 0.
PidFree(t, unlock, done) ==
  /\ IF pid[t] = 0
     THEN Goto(done) /\ UNCHANGED <<bitmap, pid_lock>>
     ELSE Lock /\ bitmap' = bitmap \ {pid[t]} /\ Goto(unlock)
  /\ Stay
  /\ UNCHANGED <<state, pid, head, nxt, prv, nodes, current>>

ExitPidFree == At("exit_pid_free") /\ PidFree(current, "exit_unlock", "exit_clear")

\* Mutant: the lock is not released.
PidUnlockForgotten(from, to) == At(from) /\ Goto(to) /\ Stay /\ UNCHANGED sched

\* The end of pid_alloc or pid_free.
PidUnlock(from, to) ==
  /\ At(from) /\ Unlock /\ Goto(to) /\ Stay
  /\ UNCHANGED <<state, pid, bitmap, head, nxt, prv, nodes, current>>

ExitUnlock == PidUnlock("exit_unlock", "exit_clear")

ExitClear ==
  /\ At("exit_clear")
  /\ current' = NULL
  /\ Goto("schedule")
  /\ Stay
  /\ UNCHANGED <<state, pid, bitmap, pid_lock, head, nxt, prv, nodes>>

-----------------------------------------------------------------------------
(* task_kill *)

Kill ==
  /\ At("kill")
  /\ IF pid[cpu.arg] = 0 \/ state[cpu.arg] = "ZOMBIE"
     THEN Return /\ UNCHANGED <<panicked, ctx, wild>>
     ELSE Goto("kill_dequeue") /\ Stay
  /\ UNCHANGED sched

\* Mutant: a READY task is not taken off the run queue.
KillDequeueSkipped == At("kill_dequeue") /\ Goto("kill_zombie") /\ Stay /\ UNCHANGED sched

KillDequeue ==
  /\ At("kill_dequeue")
  /\ nodes' = IF state[cpu.arg] = "READY" THEN Dequeue(nodes, cpu.arg) ELSE nodes
  /\ Goto("kill_zombie")
  /\ Stay
  /\ UNCHANGED <<state, pid, bitmap, pid_lock, head, nxt, prv, current>>

KillZombie ==
  /\ At("kill_zombie")
  /\ state' = [state EXCEPT ![cpu.arg] = "ZOMBIE"]
  /\ Goto("kill_pid_free")
  /\ Stay
  /\ UNCHANGED <<pid, bitmap, pid_lock, head, nxt, prv, nodes, current>>

KillPidFree == At("kill_pid_free") /\ PidFree(cpu.arg, "kill_unlock", "kill_unlink")

KillUnlock == PidUnlock("kill_unlock", "kill_unlink")

\* Mutant: the head of the list is not moved on.
KillUnlinkKeepsHead ==
  /\ At("kill_unlink")
  /\ LET t == cpu.arg
     IN  /\ nxt' = IF prv[t] # NULL THEN [nxt EXCEPT ![prv[t]] = nxt[t]] ELSE nxt
         /\ prv' = IF nxt'[t] # NULL THEN [prv EXCEPT ![nxt'[t]] = prv[t]] ELSE prv
  /\ Goto("kill_end")
  /\ Stay
  /\ UNCHANGED <<state, pid, bitmap, pid_lock, head, nodes, current>>

KillUnlink ==
  /\ At("kill_unlink")
  /\ LET t == cpu.arg
     IN  /\ nxt' = IF prv[t] # NULL THEN [nxt EXCEPT ![prv[t]] = nxt[t]] ELSE nxt
         /\ prv' = IF nxt'[t] # NULL THEN [prv EXCEPT ![nxt'[t]] = prv[t]] ELSE prv
         /\ head' = IF t = head THEN nxt'[t] ELSE head
  /\ Goto("kill_end")
  /\ Stay
  /\ UNCHANGED <<state, pid, bitmap, pid_lock, nodes, current>>

KillEnd ==
  /\ At("kill_end")
  /\ IF cpu.arg = current
     THEN current' = NULL /\ Goto("schedule") /\ Stay
     ELSE Return /\ UNCHANGED <<current, panicked, ctx, wild>>
  /\ UNCHANGED <<state, pid, bitmap, pid_lock, head, nxt, prv, nodes>>

-----------------------------------------------------------------------------
(* task_create *)

\* pid_alloc up to the unlock; without a free PID the object is freed.
CreatePid ==
  /\ At("create_pid")
  /\ \/ /\ FreePids = {} /\ pid_lock = NULL
        /\ state' = [state EXCEPT ![cpu.arg] = "NONE"]
        /\ Return
        /\ UNCHANGED <<pid, bitmap, pid_lock>>
     \/ \E p \in FreePids :
          /\ \A q \in FreePids : p <= q
          /\ Lock
          /\ pid' = [pid EXCEPT ![cpu.arg] = p]
          /\ bitmap' = bitmap \cup {p}
          /\ Goto("create_unlock")
          /\ UNCHANGED <<state, masked>>
  /\ UNCHANGED <<head, nxt, prv, nodes, current, panicked, ctx, wild>>

CreateUnlock == PidUnlock("create_unlock", "create_stack")

\* Mutant: the context is not set up.
CreateStackNoContext ==
  /\ At("create_stack")
  /\ state' = [state EXCEPT ![cpu.arg] = "READY"]
  /\ Goto("create_enqueue") \/ Goto("create_undo")
  /\ UNCHANGED <<pid, bitmap, pid_lock, head, nxt, prv, nodes, current, masked,
                 panicked, ctx, wild>>

\* The stack is granted and the context set up, or it is not.
CreateStack ==
  /\ At("create_stack")
  /\ state' = [state EXCEPT ![cpu.arg] = "READY"]
  /\ \/ ctx' = [ctx EXCEPT ![cpu.arg] = Body(cpu.arg)] /\ Goto("create_enqueue")
     \/ Goto("create_undo") /\ UNCHANGED ctx
  /\ UNCHANGED <<pid, bitmap, pid_lock, head, nxt, prv, nodes, current, masked,
                 panicked, wild>>

CreateUndo ==
  /\ At("create_undo")
  /\ PidFree(cpu.arg, "create_undo_unlock", "create_undo_unlock")

CreateUndoUnlock ==
  /\ At("create_undo_unlock")
  /\ Unlock
  /\ state' = [state EXCEPT ![cpu.arg] = "NONE"]
  /\ pid' = [pid EXCEPT ![cpu.arg] = 0]
  /\ Return
  /\ UNCHANGED <<bitmap, head, nxt, prv, nodes, current, panicked, ctx, wild>>

CreateEnqueue ==
  /\ At("create_enqueue")
  /\ nodes' = Enqueue(nodes, state, cpu.arg)
  /\ Goto("create_link")
  /\ Stay
  /\ UNCHANGED <<state, pid, bitmap, pid_lock, head, nxt, prv, current>>

CreateLink ==
  /\ At("create_link")
  /\ nxt' = [nxt EXCEPT ![cpu.arg] = head]
  /\ Goto("create_back")
  /\ Stay
  /\ UNCHANGED <<state, pid, bitmap, pid_lock, head, prv, nodes, current>>

CreateBack ==
  /\ At("create_back")
  /\ prv' = IF head # NULL THEN [prv EXCEPT ![head] = cpu.arg] ELSE prv
  /\ Goto("create_publish")
  /\ Stay
  /\ UNCHANGED <<state, pid, bitmap, pid_lock, head, nxt, nodes, current>>

CreatePublish ==
  /\ At("create_publish")
  /\ head' = cpu.arg
  /\ Return
  /\ UNCHANGED <<state, pid, bitmap, pid_lock, nxt, prv, nodes, current, panicked,
                 ctx, wild>>

-----------------------------------------------------------------------------
(* irq_handler_spx and schedule_preempt: one step, since IRQs are masked.  *)

\* Mutant: current_task is not updated.
PreemptToKeepsCurrent(next, n, st, c) ==
  LET n1 == IF pid[next] # 0 THEN Dequeue(n, next) ELSE n
  IN  /\ nodes' = n1
      /\ state' = [st EXCEPT ![next] = "RUNNING"]
      /\ Restore(c, next)
      /\ UNCHANGED <<current, panicked>>

\* A switch from the interrupted flow to next; n, st and c are the queue, the
\* states and the contexts by then.
PreemptTo(next, n, st, c) ==
  LET n1 == IF pid[next] # 0 THEN Dequeue(n, next) ELSE n
  IN  /\ nodes' = n1
      /\ state' = IF pid[next] # 0 /\ n1[next] > 0 THEN st
                  ELSE [st EXCEPT ![next] = "RUNNING"]
      /\ IF n1[next] > 0
         THEN /\ panicked' = TRUE /\ ctx' = c
              /\ UNCHANGED <<current, cpu, wild>>
         ELSE current' = next /\ Restore(c, next) /\ UNCHANGED panicked

\* Staying with prev: the interrupt returns to the interrupted flow, and the
\* copy saved in the context is of no more use.
PreemptStay(prev, n, st, c) ==
  LET n1 == IF st[prev] = "READY" THEN Dequeue(n, prev) ELSE n
  IN  /\ nodes' = n1
      /\ state' = IF st[prev] = "READY" /\ n1[prev] = 0
                  THEN [st EXCEPT ![prev] = "RUNNING"] ELSE st
      /\ panicked' = (st[prev] = "READY" /\ n1[prev] > 0)
      /\ ctx' = IF c = ctx \/ cpu.task # prev THEN c ELSE [c EXCEPT ![prev] = Stale]
      /\ UNCHANGED <<current, cpu, wild>>

\* Only a RUNNING task has its registers saved and is queued again.
TimerIrq ==
  /\ Alive /\ ~masked /\ current # NULL
  /\ LET prev == current
         runs == state[prev] = "RUNNING"
         c    == IF runs THEN [ctx EXCEPT ![prev] = cpu] ELSE ctx
         st   == IF runs THEN [state EXCEPT ![prev] = "READY"] ELSE state
         n    == IF runs /\ pid[prev] # 0 THEN Enqueue(nodes, st, prev) ELSE nodes
         picks == IF Queued(n) # {} THEN Queued(n)
                  ELSE IF st[prev] = "READY" THEN {prev} ELSE FindByPid(0)
     IN  IF \/ runs /\ pid[prev] # 0 /\ n[prev] = 0
            \/ state[prev] = "ZOMBIE" /\ n[prev] > 0
            \/ picks = {}
         THEN /\ panicked' = TRUE /\ state' = st /\ nodes' = n /\ ctx' = c
              /\ UNCHANGED <<current, cpu, wild>>
         ELSE \E next \in picks : IF next = prev THEN PreemptStay(prev, n, st, c)
                                  ELSE PreemptTo(next, n, st, c)
  /\ torn' = (torn \/ cpu.at \in Switching \cup KillPlaces)
  /\ UNCHANGED <<pid, bitmap, pid_lock, head, nxt, prv, masked>>

-----------------------------------------------------------------------------
\* The state task_init leaves, executing kmain as the idle task.
Init ==
  /\ state = [t \in Task |-> IF t = Idle THEN "RUNNING" ELSE "NONE"]
  /\ pid = [t \in Task |-> 0]
  /\ bitmap = {0, 1}
  /\ pid_lock = NULL
  /\ head = Idle
  /\ nxt = [t \in Task |-> NULL] /\ prv = [t \in Task |-> NULL]
  /\ nodes = [t \in Task |-> 0]
  /\ current = Idle
  /\ ctx = [t \in Task |-> Stale]
  /\ cpu = Body(Idle)
  /\ masked = FALSE /\ panicked = FALSE /\ wild = FALSE /\ torn = FALSE

\* The executing flow takes its next step.
Step ==
  /\ \/ Schedule \/ SetReady \/ EnqueuePrev \/ CheckQueued \/ Pick \/ StayRunning
     \/ StayDequeue \/ DequeueNext \/ RunNext \/ SetCurrent \/ Switch
     \/ Exit \/ ExitPidFree \/ ExitUnlock \/ ExitClear
     \/ Kill \/ KillDequeue \/ KillZombie \/ KillPidFree \/ KillUnlock
     \/ KillUnlink \/ KillEnd
     \/ CreatePid \/ CreateUnlock \/ CreateStack \/ CreateUndo
     \/ CreateUndoUnlock \/ CreateEnqueue \/ CreateLink \/ CreateBack
     \/ CreatePublish
  /\ UNCHANGED torn

Next == Call \/ Svc \/ Step \/ TimerIrq

Spec == Init /\ [][Next]_vars

\* The CPU does not stop, and the timer keeps firing.
FairSpec == Spec /\ WF_vars(Step) /\ WF_vars(TimerIrq)

-----------------------------------------------------------------------------
(* Properties. *)

\* The tasks that are not yet queued, or will not be.
Unborn == BeingCreated({"create_stack", "create_enqueue", "create_undo",
                        "create_undo_unlock"})

\* As long as the timer has not cut into a switch or into task_kill: whenever a
\* task executes its own code, every READY task other than idle has exactly one
\* node in the run queue and no other task has any, however the timer cut into
\* the other calls.  (schedule asserts it of prev and next.)
ReadyIsQueued ==
  ~torn /\ At("body") => \A t \in Task \ {Idle} :
    /\ state[t] = "READY" /\ t \notin Unborn => nodes[t] = 1
    /\ state[t] # "READY" => nodes[t] = 0

\* As long as the timer has not cut into a switch or into task_kill: whenever a
\* task executes its own code it is the current task, and the only one that is
\* RUNNING.
OneRunning ==
  ~torn /\ At("body") => /\ cpu.task = current
                         /\ {t \in Task : state[t] = "RUNNING"} = {current}

\* As long as the timer has not cut into a switch or into task_kill: what is saved
\* in a task's context is a flow of that task, since the interrupt and switch_to
\* save registers only for the task whose stack is in use.
OwnContext == ~torn => \A t \in Task : ctx[t] = Stale \/ ctx[t].task = t

\* As long as the timer has not cut into a switch or into task_kill, no context is
\* restored unless its task stopped there.
NeverWild == ~torn => ~wild

\* As long as the timer has not cut into a switch or into task_kill, the PID of a
\* live task is marked in the bitmap and is no other live task's.
LivePidsReserved ==
  ~torn => \A t \in Task \ {Idle} : state[t] \in {"READY", "RUNNING"} /\ t \notin Unborn =>
    /\ pid[t] \in bitmap
    /\ \A u \in Task \ {t} : state[u] \in {"READY", "RUNNING"} => pid[u] # pid[t]

\* "No system hangs or crashes" (tests/README.md): a task that is terminated
\* gets through the pid_free of task_exit or task_kill.
TerminationProceeds ==
  (cpu.at \in {"exit_pid_free", "kill_pid_free"})
    ~> (cpu.at \notin {"exit_pid_free", "kill_pid_free"})
=============================================================================
