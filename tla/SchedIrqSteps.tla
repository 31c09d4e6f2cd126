--------------------------- MODULE SchedIrqSteps ----------------------------
(***************************************************************************)
(* The inductive invariant for SchedIrq, what follows from it and what     *)
(* steps of the same kind have in common; and that the steps of the        *)
(* executing flow in schedule(), task_exit and task_kill keep it, one      *)
(* lemma per statement.                                                    *)
(***************************************************************************)
EXTENDS SchedIrq, TLAPS

USE ZenonT(30)

ZombieKill == {"kill_pid_free", "kill_unlock", "kill_unlink", "kill_end"}

ExitPlaces == {"exit_pid_free", "exit_unlock", "exit_clear"}

UnlockPlaces == {"create_unlock", "create_undo_unlock", "exit_unlock", "kill_unlock"}

\* A node is free as long as some task other than idle has none.
NodeForAll ==
  \A n \in [Task -> {0, 1}], t \in Task \ {Idle} :
    n[Idle] = 0 /\ n[t] = 0 => Cardinality(InUse(n)) < Nodes

-----------------------------------------------------------------------------
(* The inductive invariant. *)

Started == {"READY", "RUNNING", "ZOMBIE"}

TypeOK ==
  /\ state \in [Task -> {"NONE", "NEW"} \cup Started]
  /\ pid \in [Task -> Nat] /\ bitmap \in SUBSET Nat
  /\ pid_lock \in Task \cup {NULL} /\ head \in Task \cup {NULL}
  /\ nxt \in [Task -> Task \cup {NULL}] /\ prv \in [Task -> Task \cup {NULL}]
  /\ nodes \in [Task -> {0, 1}]
  /\ current \in Task \cup {NULL}
  /\ ctx \in [Task -> Flow \cup {Stale}]
  /\ cpu \in Flow
  /\ masked \in BOOLEAN

\* The flow of a task, executing or saved.
FlowOf(t) == IF t = cpu.task THEN cpu ELSE ctx[t]

\* Before the new task is in the run queue.
Early == CreatePlaces \ {"create_link", "create_back", "create_publish"}

\* u is creating t and has not queued it.
Makes(u, t) == FlowOf(u).at \in Early /\ FlowOf(u).arg = t

\* Where the executing flow is tells who is current and what its task's state is.
CpuRuns == current = cpu.task /\ state[cpu.task] = "RUNNING"

CpuGone == current = NULL /\ state[cpu.task] = "ZOMBIE"

CpuYields ==
  \/ cpu.prev = cpu.task /\ state[cpu.task] = "READY"
  \/ cpu.prev = NULL /\ state[cpu.task] = "ZOMBIE"

Listed == {t \in Task : t = Idle \/ (state[t] \in Started /\ \A u \in Task : ~Makes(u, t))}

CpuInv ==
  /\ cpu.at \in {"body", "exit", "set_ready", "kill", "kill_dequeue", "kill_zombie"}
                  \cup CreatePlaces => CpuRuns
  /\ cpu.at = "schedule" => CpuRuns \/ CpuGone
  /\ cpu.at \in ExitPlaces => current = cpu.task /\ state[cpu.task] = "ZOMBIE"
  /\ cpu.at = "exit" => cpu.task # Idle
  /\ cpu.at = "set_ready" => cpu.prev = cpu.task
  /\ cpu.at \in {"enqueue", "check_queued", "stay"} => CpuYields /\ cpu.prev = cpu.task
  /\ cpu.at \in {"enqueue", "check_queued"} => cpu.task # Idle
  /\ cpu.at = "stay_dequeue" => CpuRuns /\ cpu.prev = cpu.task
  /\ cpu.at \in Switching \ {"stay_dequeue"} => CpuYields
  /\ cpu.at \in Switching \ {"switch"} => current = cpu.prev
  /\ cpu.at = "switch" => current = cpu.next

\* The task that schedule() has chosen, on its way from the queue to the CPU.
NextInv ==
  /\ cpu.at \in {"dequeue", "run", "set_current", "switch"} =>
       cpu.next \in Listed /\ cpu.next # cpu.task /\ ctx[cpu.next] # Stale
  /\ cpu.at \in {"dequeue", "run"} => state[cpu.next] = "READY"
  /\ cpu.at \in {"run", "set_current", "switch"} => nodes[cpu.next] = 0
  /\ \A t \in Task \ {cpu.task} :
       state[t] = "RUNNING" <=> cpu.at \in {"set_current", "switch"} /\ t = cpu.next

\* What task_kill has done so far to the task it ends.
KillInv ==
  cpu.at \in KillPlaces =>
    /\ cpu.arg \in Listed
    /\ cpu.at # "kill" => cpu.arg # Idle
    /\ cpu.at \in {"kill_dequeue", "kill_zombie"} => state[cpu.arg] # "ZOMBIE"
    /\ cpu.at = "kill_zombie" => nodes[cpu.arg] = 0
    /\ cpu.at \in ZombieKill => /\ state[cpu.arg] = "ZOMBIE" /\ current = cpu.task
                                /\ cpu.arg = cpu.task \/ state[cpu.task] = "RUNNING"

IdleInv ==
  /\ state[Idle] \in {"READY", "RUNNING"} /\ pid[Idle] = 0 /\ nodes[Idle] = 0
  /\ \A t \in Task \ {Idle} : state[t] \in Started => pid[t] # 0
  /\ \A t \in Task : state[t] = "NONE" => pid[t] = 0

\* A queued task is READY, and READY tasks are queued but for those in transit.
QueueInv ==
  /\ \A t \in Task : nodes[t] = 1 =>
       state[t] = "READY" \/ (t = cpu.task /\ cpu.at = "stay_dequeue")
  /\ cpu.at = "enqueue" => nodes[cpu.task] = 0
  /\ NodeForAll =>
       \A t \in Task \ {Idle} :
         nodes[t] = 1 \/ state[t] # "READY" \/ (\E u \in Task : Makes(u, t))
         \/ (t = cpu.task /\ cpu.at = "enqueue") \/ (t = cpu.arg /\ cpu.at = "kill_zombie")
         \/ (t = cpu.next /\ cpu.at = "run")

SavedPlaces == {"body", "schedule", "set_ready", "exit"} \cup CreatePlaces

\* A task that does not execute has its own flow in its context, if it ever may run.
SavedInv ==
  /\ ctx[cpu.task] = Stale
  /\ \A t \in Task \ {cpu.task} : nodes[t] = 1 \/ t = Idle => ctx[t] # Stale
  /\ \A t \in Task : ctx[t] # Stale =>
       /\ ctx[t].task = t /\ state[t] \in Started /\ ctx[t].at \in SavedPlaces
       /\ ctx[t].at = "set_ready" => ctx[t].prev = t
       /\ ctx[t].at = "exit" => t # Idle

\* What a flow f in task_create has done so far to the task it creates.
MakerInv(f) ==
  /\ f.arg \in Task \ {Idle}
  /\ f.at \in Early => f.arg # cpu.task /\ nodes[f.arg] = 0
  /\ f.at \in Early \ {"create_enqueue"} => ctx[f.arg] = Stale
  /\ f.at = "create_enqueue" => ctx[f.arg] # Stale
  /\ f.at = "create_pid" => pid[f.arg] = 0
  /\ f.at \in {"create_unlock", "create_stack"} => pid[f.arg] # 0
  /\ f.at \in {"create_pid", "create_unlock", "create_stack"} => state[f.arg] = "NEW"
  /\ f.at \in {"create_enqueue", "create_undo", "create_undo_unlock"} =>
       state[f.arg] = "READY"
  /\ f.at \in {"create_link", "create_back", "create_publish"} => state[f.arg] \in Started

CreateInv ==
  /\ \A u \in Task : FlowOf(u).at \in CreatePlaces => MakerInv(FlowOf(u))
  /\ \A u, v \in Task : u # v /\ FlowOf(u).at \in CreatePlaces /\ FlowOf(v).at \in CreatePlaces
                          => FlowOf(u).arg # FlowOf(v).arg

\* pid_lock is held by whoever is about to release it.
LockInv == \A u \in Task : FlowOf(u).at \in UnlockPlaces => pid_lock = u

\* The tasks whose PID is not yet given back.
Holders ==
  {t \in Task \ {Idle} :
     /\ pid[t] # 0
     /\ \/ state[t] # "ZOMBIE"
        \/ t = cpu.task /\ cpu.at = "exit_pid_free"
        \/ t = cpu.arg /\ cpu.at = "kill_pid_free"}

\* A PID is marked as long as somebody counts on it, and nobody shares it.
PidInv ==
  /\ \A t \in Holders :
       \/ pid[t] \in bitmap
       \/ \E u \in Task : FlowOf(u).at = "create_undo_unlock" /\ FlowOf(u).arg = t
  /\ \A t, u \in Holders : t # u => pid[t] # pid[u]

ListInv ==
  /\ head \in Listed \cup {NULL}
  /\ \A t \in Task : nxt[t] \in Listed \cup {NULL}

Core ==
  /\ TypeOK /\ CpuInv /\ NextInv /\ KillInv /\ IdleInv /\ QueueInv /\ SavedInv
  /\ CreateInv /\ LockInv /\ PidInv /\ ListInv

Inv ==
  /\ ~wild /\ panicked \in BOOLEAN
  /\ OwnContext /\ LivePidsReserved
  /\ ~panicked => Core

-----------------------------------------------------------------------------
(* Flows. *)

\* Going to another statement changes nothing else.
LEMMA FlowGoto ==
  ASSUME NEW f \in Flow, NEW l \in Location
  PROVE  LET g == [f EXCEPT !.at = l]
         IN  /\ g \in Flow /\ g.at = l /\ g.task = f.task
             /\ g.prev = f.prev /\ g.next = f.next /\ g.arg = f.arg
BY DEF Flow

\* A flow in its own code is a flow, and none is Stale.
LEMMA FlowBody ==
  ASSUME NEW t \in Task
  PROVE  Body(t) \in Flow /\ Body(t).task = t /\ Body(t).at = "body" /\ Body(t) # Stale
<1>1. Body(t) \in Flow /\ Body(t).task = t /\ Body(t).at = "body"
  BY DEF Body, Flow, Location
<1>2. Stale.at = "stale"
  BY DEF Stale, Body
<1>. QED
  BY <1>1, <1>2

\* What is left in a used-up context is not a flow.
LEMMA StaleIsNoFlow ==
  Stale.at = "stale" /\ Stale \notin Flow /\ "stale" \notin Location
<1>1. Stale.at = "stale" /\ "stale" \notin Location
  BY DEF Stale, Body, Location, Switching, KillPlaces, CreatePlaces
<1>. QED
  BY <1>1 DEF Flow

-----------------------------------------------------------------------------
(* What follows from the invariant in every state. *)

\* Wherever it executes, the task of the CPU has started and is not in the making.
LEMMA CpuListed ==
  ASSUME Core
  PROVE  cpu.task \in Task /\ state[cpu.task] \in Started /\ cpu.task \in Listed
<1>1. cpu.task \in Task /\ cpu.at \in Location
  BY DEF Core, TypeOK, Flow
<1>2. state[cpu.task] \in Started
  BY <1>1 DEF Core, CpuInv, CpuRuns, CpuGone, CpuYields, KillInv, Started, Location,
              ExitPlaces, KillPlaces, ZombieKill, Switching
<1>3. \A u \in Task : ~Makes(u, cpu.task)
  BY <1>1 DEF Core, CreateInv, MakerInv, Makes, Early
<1>. QED
  BY <1>1, <1>2, <1>3 DEF Listed

\* A task in the making is not in the task list, and is not idle.
LEMMA MadeNotListed ==
  ASSUME Core, NEW u \in Task, NEW t \in Task, Makes(u, t)
  PROVE  t \notin Listed /\ t # Idle
BY DEF Core, CreateInv, MakerInv, Makes, Early, Listed

\* What tasks in the making look like.
LEMMA MadeIs ==
  ASSUME Core, NEW u \in Task, NEW t \in Task, Makes(u, t)
  PROVE  nodes[t] = 0 /\ state[t] \in {"NEW", "READY"} /\ t # cpu.task
BY DEF Core, CreateInv, MakerInv, Makes, Early, CreatePlaces

\* A RUNNING task has no node.
LEMMA RunningNotQueued ==
  ASSUME Core, NEW t \in Task, state[t] # "READY", cpu.at # "stay_dequeue"
  PROVE  nodes[t] = 0
BY DEF Core, QueueInv, TypeOK

\* task_find_by_pid finds listed tasks only, and for PID 0 none but idle.
LEMMA FindListed ==
  ASSUME Core, NEW p
  PROVE  FindByPid(p) \subseteq Listed /\ FindByPid(0) \subseteq {Idle}
<1>1. Listed \in SUBSET Task
  BY DEF Listed
<1>2. head \in Listed \cup {NULL} /\ \A u \in Listed : nxt[u] \in Listed \cup {NULL}
  BY <1>1 DEF Core, ListInv
<1>3. \A q : Reached(q) \subseteq Listed
  BY <1>1, <1>2 DEF Reached
<1>4. \A t \in Listed : pid[t] = 0 => t = Idle
  BY DEF Core, IdleInv, Listed
<1>. QED
  BY <1>3, <1>4 DEF FindByPid

\* The tasks in the making that a property exempts.
LEMMA MadeIsUnborn ==
  ASSUME Core, NEW t \in Task, state[t] = "READY", NEW u \in Task, Makes(u, t)
  PROVE  t \in Unborn
<1>1. FlowOf(u).arg = t /\ FlowOf(u).at \in
        {"create_stack", "create_enqueue", "create_undo", "create_undo_unlock"}
  BY DEF Core, CreateInv, MakerInv, Makes, Early, CreatePlaces
<1>2. FlowOf(u) \in {cpu} \cup {ctx[v] : v \in Task}
  BY DEF FlowOf
<1>. QED
  BY <1>1, <1>2 DEF Unborn, BeingCreated

\* The properties that hold at every statement.
LEMMA CoreIsSafe == ASSUME Core PROVE OwnContext /\ LivePidsReserved
<1>1. OwnContext
  BY DEF Core, SavedInv, OwnContext
<1>2. ASSUME NEW t \in Task \ {Idle}, state[t] \in {"READY", "RUNNING"}, t \notin Unborn
      PROVE  pid[t] \in bitmap
  <2>1. t \in Holders
    BY <1>2 DEF Core, IdleInv, Holders, Started
  <2>2. ASSUME NEW u \in Task, FlowOf(u).at = "create_undo_unlock", FlowOf(u).arg = t
        PROVE  FALSE
    <3>1. FlowOf(u) \in {cpu} \cup {ctx[v] : v \in Task}
      BY DEF FlowOf
    <3>. QED
      BY <1>2, <2>2, <3>1 DEF Unborn, BeingCreated
  <2>. QED
    BY <2>1, <2>2 DEF Core, PidInv
<1>3. ASSUME NEW t \in Task \ {Idle}, state[t] \in {"READY", "RUNNING"},
             NEW u \in Task \ {t}, state[u] \in {"READY", "RUNNING"}
      PROVE  pid[u] # pid[t]
  BY <1>3, SMTT(30) DEF Core, IdleInv, PidInv, Holders, Started
<1>. QED
  BY <1>1, <1>2, <1>3 DEF LivePidsReserved

\* The properties of the moments at which a task executes its own code.
LEMMA CoreAtBody == ASSUME Core PROVE OneRunning /\ (NodeForAll => ReadyIsQueued)
<1> SUFFICES ASSUME cpu.at = "body"
             PROVE  OneRunning /\ (NodeForAll => ReadyIsQueued)
  BY DEF OneRunning, ReadyIsQueued, At
<1>1. cpu.task \in Task /\ cpu.task = current /\ state[current] = "RUNNING"
  BY CpuListed DEF Core, CpuInv, CpuRuns
<1>2. \A t \in Task : state[t] = "RUNNING" <=> t = current
  BY <1>1 DEF Core, NextInv
<1>3. ASSUME NEW t \in Task \ {Idle}, state[t] # "READY" PROVE nodes[t] = 0
  BY <1>3 DEF Core, QueueInv, TypeOK
<1>4. ASSUME NodeForAll, NEW t \in Task \ {Idle}, state[t] = "READY", t \notin Unborn
      PROVE  nodes[t] = 1
  BY <1>4, MadeIsUnborn DEF Core, QueueInv
<1>. QED
  BY <1>1, <1>2, <1>3, <1>4 DEF OneRunning, ReadyIsQueued

-----------------------------------------------------------------------------
(* The run queue. *)

\* eevdf_enqueue gives a READY task that has no node one, if there are enough.
LEMMA EnqueueOne ==
  ASSUME NEW n \in [Task -> {0, 1}], n[Idle] = 0, NEW t \in Task \ {Idle}, n[t] = 0,
         NEW st, st[t] = "READY"
  PROVE  /\ Enqueue(n, st, t) \in [Task -> {0, 1}]
         /\ \A u \in Task \ {t} : Enqueue(n, st, t)[u] = n[u]
         /\ NodeForAll => Enqueue(n, st, t)[t] = 1
<1> DEFINE m == [n EXCEPT ![t] = @ + 1]
<1>1. m \in [Task -> {0, 1}] /\ m[t] = 1 /\ \A u \in Task \ {t} : m[u] = n[u]
  BY SMTT(30)
<1>2. NodeForAll => Cardinality(InUse(n)) < Nodes
  BY DEF NodeForAll
<1>3. Enqueue(n, st, t) = IF Cardinality(InUse(n)) < Nodes THEN m ELSE n
  BY DEF Enqueue
<1> HIDE DEF m
<1>. QED
  BY <1>1, <1>2, <1>3

\* eevdf_dequeue takes the node of a task away.
LEMMA DequeueOne ==
  ASSUME NEW n \in [Task -> {0, 1}], NEW t \in Task
  PROVE  /\ Dequeue(n, t) \in [Task -> {0, 1}] /\ Dequeue(n, t)[t] = 0
         /\ \A u \in Task \ {t} : Dequeue(n, t)[u] = n[u]
BY SMTT(30) DEF Dequeue

-----------------------------------------------------------------------------
(* Steps that create no task and take no PID. *)

\* Tasks stay listed or in the making.
KeptTasks ==
  /\ CreateInv' /\ ListInv'
  /\ Listed \subseteq Listed'
  /\ \A u, t \in Task : Makes(u, t)' <=> Makes(u, t)

\* What is not about scheduling is kept.
Kept == KeptTasks /\ LockInv' /\ PidInv'

\* A step that changes none of the scheduler's variables.
LEMMA Unmoved == ASSUME Core, UNCHANGED <<sched, ctx, cpu, masked>> PROVE Core'
<1>1. UNCHANGED <<state, pid, bitmap, pid_lock, head, nxt, prv, nodes, current, ctx, cpu, masked>>
  BY DEF sched
<1>2. \A u \in Task : FlowOf(u)' = FlowOf(u) /\ \A t \in Task : Makes(u, t)' <=> Makes(u, t)
  BY <1>1 DEF FlowOf, Makes
<1>3. Listed' = Listed /\ Holders' = Holders
  BY <1>1, <1>2 DEF Listed, Holders
<1>4. TypeOK' /\ CpuInv' /\ NextInv' /\ KillInv' /\ IdleInv' /\ QueueInv' /\ SavedInv'
  BY <1>1, <1>2, <1>3, SMTT(30)
     DEF Core, TypeOK, CpuInv, NextInv, KillInv, IdleInv, QueueInv, SavedInv,
         CpuRuns, CpuGone, CpuYields
<1>5. CreateInv' /\ LockInv' /\ PidInv' /\ ListInv'
  BY <1>1, <1>2, <1>3, SMTT(30) DEF Core, CreateInv, MakerInv, LockInv, PidInv, ListInv
<1>. QED
  BY <1>4, <1>5 DEF Core

\* The executing flow goes from one statement to another, both outside of
\* task_create; started tasks may change state, listed ones may be queued or
\* dequeued.
LEMMA QuietTasks ==
  ASSUME Core,
         cpu'.task = cpu.task, ctx' = ctx,
         cpu.at \notin CreatePlaces, cpu'.at \notin CreatePlaces,
         pid' = pid, head' \in Listed \cup {NULL},
         \A t \in Task : nxt'[t] \in Listed \cup {NULL},
         \A t \in Task \ Listed : state'[t] = state[t] /\ nodes'[t] = nodes[t],
         \A t \in Task : state[t] \in Started => state'[t] \in Started
  PROVE  KeptTasks
<1>1. \A u \in Task : FlowOf(u)' = IF u = cpu.task THEN cpu' ELSE FlowOf(u)
  BY DEF FlowOf
<1>2. FlowOf(cpu.task) = cpu /\ cpu.task \in Task
  BY CpuListed DEF FlowOf
<1>3. \A u, t \in Task : Makes(u, t)' <=> Makes(u, t)
  BY <1>1, <1>2 DEF Makes, Early
<1>4. Listed \subseteq Listed'
  BY <1>3 DEF Listed
<1>5. CreateInv'
  <2>1. \A u \in Task : FlowOf(u)'.at \in CreatePlaces => FlowOf(u)' = FlowOf(u) /\ u # cpu.task
    BY <1>1
  <2>2. ASSUME NEW u \in Task, FlowOf(u)'.at \in Early
        PROVE  LET a == FlowOf(u).arg
               IN  state'[a] = state[a] /\ nodes'[a] = nodes[a]
    BY <2>1, <2>2, MadeNotListed DEF Core, CreateInv, MakerInv, Makes, Early
  <2>. QED
    BY <2>1, <2>2, SMTT(30) DEF Core, CreateInv, MakerInv, Early, CreatePlaces
<1>6. ListInv'
  BY <1>4 DEF ListInv
<1>. QED
  BY <1>3, <1>4, <1>5, <1>6 DEF KeptTasks

\* The same without pid_alloc and pid_free.
LEMMA Quiet ==
  ASSUME Core,
         cpu'.task = cpu.task, ctx' = ctx,
         cpu.at \notin CreatePlaces, cpu'.at \notin CreatePlaces \cup UnlockPlaces,
         UNCHANGED <<pid, bitmap, pid_lock, head, nxt>>,
         \A t \in Task \ Listed : state'[t] = state[t] /\ nodes'[t] = nodes[t],
         \A t \in Task : state[t] \in Started => state'[t] \in Started,
         Holders' \subseteq Holders
  PROVE  Kept
<1>1. \A u \in Task : FlowOf(u)' = IF u = cpu.task THEN cpu' ELSE FlowOf(u)
  BY DEF FlowOf
<1>2. FlowOf(cpu.task) = cpu /\ cpu.task \in Task
  BY CpuListed DEF FlowOf
<1>3. KeptTasks
  BY QuietTasks DEF Core, ListInv
<1>4. LockInv'
  BY <1>1 DEF Core, LockInv
<1>5. PidInv'
  <2>1. ASSUME NEW u \in Task, FlowOf(u).at = "create_undo_unlock"
        PROVE  FlowOf(u)' = FlowOf(u)
    BY <1>1, <1>2, <2>1 DEF CreatePlaces
  <2>. QED
    BY <2>1, SMTT(30) DEF Core, PidInv
<1>. QED
  BY <1>3, <1>4, <1>5 DEF Kept

\* What Return does to PSTATE.I.
LEMMA ReturnMasks == ASSUME Core, Return PROVE masked' \in BOOLEAN
BY DEF Return, Core, TypeOK

\* Returning to the task's own code, with the task running and not queued.
LEMMA ReturnKeeps ==
  ASSUME Core, cpu' = Body(cpu.task), masked' \in BOOLEAN, CpuRuns,
         cpu.at \notin CreatePlaces \cup {"kill_zombie", "set_current"},
         nodes' \in [Task -> {0, 1}], \A t \in Task \ {cpu.task} : nodes'[t] = nodes[t],
         nodes'[cpu.task] = 0,
         UNCHANGED <<state, pid, bitmap, pid_lock, head, nxt, prv, current, ctx>>
  PROVE  Core'
<1>1. cpu.task \in Task /\ cpu.task \in Listed
  BY CpuListed
<1>2. cpu' \in Flow /\ cpu'.task = cpu.task /\ cpu'.at = "body"
  BY <1>1, FlowBody
<1>3. cpu.at \notin {"enqueue", "run", "set_current", "switch"}
  BY DEF CpuRuns, Core, CpuInv, CpuYields, Switching
<1>4. Kept
  <2>1. Holders' \subseteq Holders
    BY <1>2 DEF Holders
  <2>. QED
    BY <1>1, <1>2, <2>1, Quiet DEF CreatePlaces, UnlockPlaces
<1>5. TypeOK'
  BY <1>2 DEF Core, TypeOK
<1>6. CpuInv' /\ NextInv' /\ KillInv'
  BY <1>1, <1>2, <1>3 DEF Core, CpuInv, NextInv, KillInv, CpuRuns, CreatePlaces,
                          ExitPlaces, Switching, KillPlaces, ZombieKill
<1>7. IdleInv' /\ SavedInv'
  BY <1>1, <1>2, SchedIrqConstants DEF Core, IdleInv, SavedInv
<1>8. QueueInv'
  BY <1>1, <1>2, <1>3, <1>4, SMTT(30) DEF Core, Kept, KeptTasks, QueueInv, CpuRuns
<1>. QED
  BY <1>4, <1>5, <1>6, <1>7, <1>8 DEF Core, Kept, KeptTasks

\* The CPU goes over to the flow saved in next's context, and what it executed
\* until then is saved or lost.  A flow that is creating a task is saved.
LEMMA Handover ==
  ASSUME Core, NEW next \in Listed, next # cpu.task, ctx[next] # Stale,
         cpu' = ctx[next], current' = next,
         ctx' \in [Task -> Flow \cup {Stale}], ctx'[next] = Stale,
         \A u \in Task \ {next, cpu.task} : ctx'[u] = ctx[u],
         \/ ctx'[cpu.task] = cpu /\ cpu.at \in SavedPlaces
         \/ ctx'[cpu.task] = Body(cpu.task) /\ cpu.at \notin CreatePlaces
         \/ /\ ctx'[cpu.task] = Stale /\ cpu.at \notin CreatePlaces
            /\ nodes'[cpu.task] = 0 /\ cpu.task # Idle,
         state' \in [Task -> {"NONE", "NEW"} \cup Started],
         state'[next] = "RUNNING", state[cpu.task] = "ZOMBIE" => state'[cpu.task] = "ZOMBIE",
         state'[cpu.task] \in {"READY", "ZOMBIE"}, cpu.task = Idle => state'[Idle] = "READY",
         \A t \in Task \ {next, cpu.task} : state'[t] = state[t] /\ state[t] # "RUNNING",
         state[next] # "ZOMBIE",
         nodes' \in [Task -> {0, 1}], nodes'[next] = 0,
         \A t \in Task \ {next, cpu.task} : nodes'[t] = nodes[t],
         nodes'[cpu.task] = 1 => state'[cpu.task] = "READY" /\ cpu.task # Idle,
         NodeForAll => nodes'[cpu.task] = 1 \/ state'[cpu.task] = "ZOMBIE" \/ cpu.task = Idle,
         cpu.at \notin {"stay_dequeue", "enqueue", "kill_zombie", "run"},
         UNCHANGED <<pid, bitmap, pid_lock, head, nxt, prv, masked>>
  PROVE  Core'
<1>0. PICK c \in Task : c = cpu.task
  BY CpuListed
<1>1. /\ next \in Task /\ c \in Listed /\ state[c] \in Started
      /\ ctx[next].task = next /\ ctx[next].at \in SavedPlaces /\ state[next] \in Started
      /\ ctx[next] \in Flow
  BY <1>0, CpuListed DEF Core, SavedInv, TypeOK, Listed
<1>2. cpu' \in Flow /\ cpu'.task = next /\ cpu'.at \in SavedPlaces
  BY <1>0, <1>1
<1>3. \A u \in Task \ {c} : FlowOf(u)' = FlowOf(u)
  BY <1>0, <1>1, <1>2 DEF FlowOf
<1>4. /\ FlowOf(c) = cpu /\ FlowOf(c)' = ctx'[c]
      /\ FlowOf(c)' = cpu \/ (FlowOf(c)'.at \in {"body", "stale"} /\ cpu.at \notin CreatePlaces)
  <2>1. FlowOf(c) = cpu /\ FlowOf(c)' = ctx'[c]
    BY <1>0, <1>1, <1>2 DEF FlowOf
  <2>. QED
    BY <1>0, <1>1, <2>1, FlowBody, StaleIsNoFlow, SMTT(30)
<1>5. \A u \in Task : \/ FlowOf(u)' = FlowOf(u)
                      \/ FlowOf(u)'.at \notin CreatePlaces \cup UnlockPlaces
                         /\ FlowOf(u).at \notin CreatePlaces
  BY <1>0, <1>3, <1>4 DEF CreatePlaces, UnlockPlaces
<1>6. \A u, t \in Task : Makes(u, t)' <=> Makes(u, t)
  BY <1>0, <1>5 DEF Makes, Early
<1>7. Listed \subseteq Listed'
  BY <1>0, <1>1, <1>6 DEF Listed, Started
<1>8. ListInv'
  BY <1>0, <1>7 DEF Core, ListInv
<1>9. LockInv'
  BY <1>0, <1>5 DEF Core, LockInv
<1>10. PidInv'
  <2>1. Holders' \subseteq Holders
    BY <1>0, <1>1, <1>2 DEF Holders, SavedPlaces, CreatePlaces
  <2>2. \A u \in Task : FlowOf(u).at = "create_undo_unlock" => FlowOf(u)' = FlowOf(u)
    BY <1>0, <1>5 DEF CreatePlaces
  <2>. QED
    BY <2>1, <2>2, SMTT(30) DEF Core, PidInv
<1>11. CreateInv'
  <2>1. \A u \in Task : FlowOf(u)'.at \in CreatePlaces => FlowOf(u)' = FlowOf(u)
    BY <1>0, <1>5
  <2>2. ASSUME NEW u \in Task, FlowOf(u)'.at \in Early
        PROVE  LET a == FlowOf(u).arg
               IN  /\ state'[a] = state[a] /\ nodes'[a] = nodes[a] /\ ctx'[a] = ctx[a]
                   /\ a # next
    <3>1. FlowOf(u).arg \in Task \ {next, c}
      BY <1>0, <1>1, <2>1, <2>2, MadeNotListed
         DEF Core, CreateInv, MakerInv, Makes, Early
    <3>. QED
      BY <1>0, <3>1
  <2>3. \A t \in Task : state[t] \in Started => state'[t] \in Started
    BY <1>0, <1>1 DEF Started
  <2>4. ASSUME NEW u \in Task, FlowOf(u)'.at \in CreatePlaces
        PROVE  MakerInv(FlowOf(u))'
    <3>1. FlowOf(u)' = FlowOf(u) /\ MakerInv(FlowOf(u))
      BY <2>1, <2>4 DEF Core, CreateInv
    <3>2. CASE FlowOf(u).at \in Early
      <4>1. LET a == FlowOf(u).arg
            IN  state'[a] = state[a] /\ nodes'[a] = nodes[a] /\ ctx'[a] = ctx[a] /\ a # cpu'.task
        BY <1>2, <2>2, <3>1, <3>2
      <4>. QED
        BY <3>1, <3>2, <4>1 DEF MakerInv, Early
    <3>3. CASE FlowOf(u).at \notin Early
      <4>1. FlowOf(u).at \in {"create_link", "create_back", "create_publish"}
        BY <2>4, <3>1, <3>3 DEF Early
      <4>. QED
        BY <2>3, <3>1, <4>1 DEF MakerInv, Early
    <3>. QED
      BY <3>2, <3>3
  <2>. QED
    BY <2>1, <2>4, SMTT(30) DEF Core, CreateInv
<1>12. TypeOK'
  BY <1>0, <1>1, <1>2 DEF Core, TypeOK
<1>13. CpuInv' /\ KillInv'
  <2>1. CpuRuns'
    BY <1>0, <1>2 DEF CpuRuns
  <2>2. cpu'.at \notin ExitPlaces \cup Switching \cup KillPlaces
    BY <1>2
     DEF SavedPlaces, CreatePlaces, ExitPlaces, Switching, KillPlaces, ZombieKill
  <2>3. /\ cpu'.at = "exit" => cpu'.task # Idle
        /\ cpu'.at = "set_ready" => cpu'.prev = cpu'.task
    BY <1>0, <1>1 DEF Core, SavedInv
  <2>4. CpuInv'
    BY <2>1, <2>2, <2>3 DEF CpuInv, Switching
  <2>. QED
    BY <2>2, <2>4 DEF KillInv
<1>14. NextInv'
  BY <1>0, <1>1, <1>2 DEF NextInv, SavedPlaces, CreatePlaces
<1>15. IdleInv'
  <2>1. \A t \in Task : state'[t] \in Started => state[t] \in Started
    BY <1>0, <1>1 DEF Started
  <2>2. \A t \in Task : state'[t] = "NONE" => state[t] = "NONE"
    BY <1>0, <1>1
  <2>3. state'[Idle] \in {"READY", "RUNNING"} /\ nodes'[Idle] = 0
    <3>1. CASE Idle = c
      BY <1>0, <1>1, <3>1
    <3>2. CASE Idle = next
      BY <1>1, <3>2
    <3>3. CASE Idle \in Task \ {next, c}
      BY <1>0, <3>3 DEF Core, IdleInv
    <3>. QED
      BY <3>1, <3>2, <3>3, SchedIrqConstants
  <2>. QED
    BY <2>1, <2>2, <2>3 DEF Core, IdleInv
<1>16. QueueInv'
  <2>1. \A t \in Task : nodes'[t] = 1 => state'[t] = "READY"
    BY <1>0, <1>1, SMTT(30) DEF Core, QueueInv
  <2>2. cpu'.at \notin {"enqueue", "kill_zombie", "run"}
    BY <1>0, <1>2 DEF SavedPlaces, CreatePlaces
  <2>3. ASSUME NodeForAll, NEW t \in Task \ {Idle}
        PROVE  nodes'[t] = 1 \/ state'[t] # "READY" \/ (\E u \in Task : Makes(u, t)')
    BY <1>0, <1>1, <1>6, <2>3 DEF Core, QueueInv
  <2>. QED
    BY <2>1, <2>2, <2>3 DEF QueueInv
<1>17. SavedInv'
  <2>1. \A t \in Task \ {next} : nodes'[t] = 1 \/ t = Idle => ctx'[t] # Stale
    <3>1. cpu # Stale /\ Body(c) # Stale
      BY <1>0, <1>1, FlowBody, StaleIsNoFlow DEF Core, TypeOK
    <3>. QED
      BY <1>0, <1>1, <3>1, SMTT(30) DEF Core, SavedInv
  <2>2. ASSUME NEW t \in Task, ctx'[t] # Stale
        PROVE  /\ ctx'[t].task = t /\ state'[t] \in Started /\ ctx'[t].at \in SavedPlaces
               /\ ctx'[t].at = "set_ready" => ctx'[t].prev = t
               /\ ctx'[t].at = "exit" => t # Idle
    <3>1. CASE t \in Task \ {next, c}
      BY <1>0, <2>2, <3>1, SMTT(30) DEF Core, SavedInv
    <3>2. CASE t = c /\ ctx'[c] = cpu /\ cpu.at \in SavedPlaces
      BY <1>0, <1>1, <3>2 DEF Core, CpuInv, Started
    <3>3. CASE t = c /\ ctx'[c] = Body(c)
      BY <1>0, <1>1, <3>3, FlowBody, SMTT(30) DEF SavedPlaces, Started
    <3>. QED
      BY <1>0, <2>2, <3>1, <3>2, <3>3
  <2>. QED
    BY <1>0, <1>2, <2>1, <2>2 DEF SavedInv
<1>. QED
  BY <1>8, <1>9, <1>10, <1>11, <1>12, <1>13, <1>14, <1>15, <1>16, <1>17 DEF Core

-----------------------------------------------------------------------------
(* Steps of task_create. *)

\* A step of the flow c that touches only the task a it creates leaves the other
\* flows and what they create alone.
LEMMA OtherMakers ==
  ASSUME Core, cpu'.task = cpu.task, NEW a \in Task,
         \A u \in Task \ {cpu.task} : FlowOf(u).at \in CreatePlaces => FlowOf(u).arg # a,
         \A t \in Task \ {a} : /\ state'[t] = state[t] /\ pid'[t] = pid[t]
                               /\ nodes'[t] = nodes[t] /\ ctx'[t] = ctx[t],
         ctx'[a] = ctx[a] \/ (ctx[a] = Stale /\ ctx'[a] = Body(a))
  PROVE  \A u \in Task \ {cpu.task} :
           /\ \/ FlowOf(u)' = FlowOf(u)
              \/ FlowOf(u)'.at = "body" /\ FlowOf(u).at = "stale"
           /\ FlowOf(u)'.at \in CreatePlaces => MakerInv(FlowOf(u))'
<1> SUFFICES ASSUME NEW u \in Task \ {cpu.task}
             PROVE  /\ \/ FlowOf(u)' = FlowOf(u)
                       \/ FlowOf(u)'.at = "body" /\ FlowOf(u).at = "stale"
                    /\ FlowOf(u)'.at \in CreatePlaces => MakerInv(FlowOf(u))'
  OBVIOUS
<1>1. FlowOf(u) = ctx[u] /\ FlowOf(u)' = ctx'[u]
  BY DEF FlowOf
<1>2. \/ FlowOf(u)' = FlowOf(u)
      \/ FlowOf(u)'.at = "body" /\ FlowOf(u).at = "stale"
  <2>1. CASE u # a \/ ctx'[a] = ctx[a]
    BY <1>1, <2>1
  <2>2. CASE u = a /\ ctx[a] = Stale /\ ctx'[a] = Body(a)
    <3>1. Body(a).at = "body" /\ Stale.at = "stale"
      BY FlowBody, StaleIsNoFlow
    <3>2. FlowOf(u) = Stale /\ FlowOf(u)' = Body(a)
      BY <1>1, <2>2
    <3>. QED
      BY <3>1, <3>2
  <2>. QED
    BY <2>1, <2>2
<1>3. ASSUME FlowOf(u)'.at \in CreatePlaces
      PROVE  MakerInv(FlowOf(u))'
  <2>1. FlowOf(u)' = FlowOf(u) /\ FlowOf(u).at \in CreatePlaces
    BY <1>2, <1>3 DEF CreatePlaces
  <2>2. MakerInv(FlowOf(u)) /\ FlowOf(u).arg # a
    BY <2>1 DEF Core, CreateInv
  <2>. QED
    BY <2>1, <2>2, SMTT(30) DEF MakerInv
<1>. QED
  BY <1>2, <1>3

\* Then only the tasks that c makes change.
LEMMA OthersMake ==
  ASSUME NEW c \in Task,
         \A u \in Task \ {c} :
           \/ FlowOf(u)' = FlowOf(u)
           \/ FlowOf(u)'.at = "body" /\ FlowOf(u).at = "stale"
  PROVE  \A u \in Task \ {c}, t \in Task : Makes(u, t)' <=> Makes(u, t)
BY DEF Makes, Early, CreatePlaces

\* A flow in task_create is that of the RUNNING current task, and no other flow
\* creates the same task.
LEMMA Making ==
  ASSUME Core, cpu.at \in CreatePlaces
  PROVE  /\ cpu.task \in Task /\ cpu.arg \in Task \ {Idle} /\ cpu \in Flow
         /\ CpuRuns /\ MakerInv(cpu)
         /\ \A u \in Task \ {cpu.task} :
              FlowOf(u).at \in CreatePlaces => FlowOf(u).arg # cpu.arg
<1>1. cpu.task \in Task /\ cpu \in Flow /\ CpuRuns
  BY CpuListed DEF Core, CpuInv, TypeOK
<1>2. FlowOf(cpu.task) = cpu
  BY DEF FlowOf
<1>3. MakerInv(cpu)
  BY <1>1, <1>2 DEF Core, CreateInv
<1>4. \A u \in Task \ {cpu.task} :
        FlowOf(u).at \in CreatePlaces => FlowOf(u).arg # cpu.arg
  BY <1>1, <1>2 DEF Core, CreateInv
<1>. QED
  BY <1>1, <1>3, <1>4 DEF MakerInv

\* What every step of task_create has in common.
LEMMA MakingKeeps ==
  ASSUME Core, cpu.at \in CreatePlaces,
         cpu' \in Flow, cpu'.task = cpu.task, cpu'.at \in CreatePlaces \cup {"body"},
         cpu'.at \in CreatePlaces => cpu'.arg = cpu.arg /\ MakerInv(cpu)',
         current' = current, state'[cpu.task] = state[cpu.task],
         \A t \in Task \ {cpu.arg} : /\ state'[t] = state[t] /\ pid'[t] = pid[t]
                                     /\ nodes'[t] = nodes[t] /\ ctx'[t] = ctx[t],
         \/ ctx'[cpu.arg] = ctx[cpu.arg]
         \/ ctx[cpu.arg] = Stale /\ ctx'[cpu.arg] = Body(cpu.arg),
         state'[cpu.arg] = "RUNNING" => state[cpu.arg] = "RUNNING"
  PROVE  /\ CpuInv' /\ NextInv' /\ KillInv' /\ CreateInv'
         /\ \A u \in Task \ {cpu.task} :
              \/ FlowOf(u)' = FlowOf(u)
              \/ FlowOf(u)'.at = "body" /\ FlowOf(u).at = "stale"
         /\ \A u \in Task \ {cpu.task}, t \in Task : Makes(u, t)' <=> Makes(u, t)
         /\ \A u \in Task : u = cpu.task => FlowOf(u) = cpu /\ FlowOf(u)' = cpu'
<1>1. PICK c \in Task : c = cpu.task
  BY CpuListed
<1>2. PICK a \in Task \ {Idle} : a = cpu.arg
  BY Making
<1>3. FlowOf(c) = cpu /\ FlowOf(c)' = cpu'
  BY <1>1 DEF FlowOf
<1>4. \A u \in Task \ {c} : FlowOf(u).at \in CreatePlaces => FlowOf(u).arg # a
  BY <1>1, <1>2, Making
<1>5. \A u \in Task \ {c} :
        /\ \/ FlowOf(u)' = FlowOf(u)
           \/ FlowOf(u)'.at = "body" /\ FlowOf(u).at = "stale"
        /\ FlowOf(u)'.at \in CreatePlaces => MakerInv(FlowOf(u))'
  BY <1>1, <1>2, <1>4, OtherMakers
<1>6. \A u \in Task \ {c}, t \in Task : Makes(u, t)' <=> Makes(u, t)
  BY <1>5, OthersMake
<1>7. CpuInv' /\ KillInv'
  BY <1>1, Making
     DEF CpuInv, KillInv, CpuRuns, CreatePlaces, ExitPlaces, Switching, KillPlaces,
         ZombieKill
<1>8. NextInv'
  <2>1. \A t \in Task \ {c} : state[t] # "RUNNING"
    BY <1>1 DEF Core, NextInv, CreatePlaces
  <2>2. \A t \in Task \ {c} : state'[t] # "RUNNING"
    BY <1>2, <2>1
  <2>. QED
    BY <1>1, <2>2 DEF NextInv, CreatePlaces
<1>9. CreateInv'
  <2>1. \A u \in Task \ {c} : FlowOf(u)'.at \in CreatePlaces => FlowOf(u)' = FlowOf(u)
    BY <1>5 DEF CreatePlaces
  <2>2. \A u \in Task : FlowOf(u)'.at \in CreatePlaces => MakerInv(FlowOf(u))'
    BY <1>3, <1>5
  <2>3. \A u, v \in Task :
          u # v /\ FlowOf(u)'.at \in CreatePlaces /\ FlowOf(v)'.at \in CreatePlaces
            => FlowOf(u)'.arg # FlowOf(v)'.arg
    BY <1>2, <1>3, <1>4, <2>1, SMTT(30) DEF Core, CreateInv
  <2>. QED
    BY <2>2, <2>3 DEF CreateInv
<1>. QED
  BY <1>1, <1>3, <1>5, <1>6, <1>7, <1>8, <1>9

\* What a step leaves of the parts of the invariant that it does not touch.
LEMMA IdleKept == ASSUME IdleInv, UNCHANGED <<state, pid, nodes>> PROVE IdleInv'
  BY DEF IdleInv

\* Tasks, nodes and contexts that stay as they are, with the same task on the CPU,
\* keep what is said of the saved contexts.
LEMMA SavedKept ==
  ASSUME SavedInv, cpu'.task = cpu.task, UNCHANGED <<state, nodes, ctx>>
  PROVE  SavedInv'
  BY DEF SavedInv

\* Each PID is still held by at most one task, and reserved.
LEMMA PidKept ==
  ASSUME PidInv, Holders' \subseteq Holders, UNCHANGED <<pid, bitmap>>,
         \A u \in Task : FlowOf(u).at = "create_undo_unlock" => FlowOf(u)' = FlowOf(u)
  PROVE  PidInv'
  BY DEF PidInv

\* A step of task_create that neither queues a task nor changes a state.
LEMMA MakingQueue ==
  ASSUME QueueInv, cpu.at \in CreatePlaces, cpu'.at \in CreatePlaces \cup {"body"},
         UNCHANGED <<state, nodes>>, \A u, t \in Task : Makes(u, t)' <=> Makes(u, t)
  PROVE  QueueInv'
  BY DEF QueueInv, CreatePlaces

\* A step of task_create that changes the state or the node of the task a only.
LEMMA MakingQueueOf ==
  ASSUME QueueInv, cpu.at \in CreatePlaces, cpu'.at \in CreatePlaces \cup {"body"},
         NEW a \in Task,
         \A t \in Task \ {a} : state'[t] = state[t] /\ nodes'[t] = nodes[t],
         \A u \in Task, t \in Task \ {a} : Makes(u, t)' <=> Makes(u, t),
         nodes'[a] = 1 => state'[a] = "READY",
         NodeForAll => nodes'[a] = 1 \/ state'[a] # "READY" \/ \E u \in Task : Makes(u, a)'
  PROVE  QueueInv'
<1>1. cpu.at \notin {"stay_dequeue", "enqueue", "kill_zombie", "run"}
  BY DEF CreatePlaces
<1>2. cpu'.at # "enqueue"
  BY DEF CreatePlaces
<1>3. \A t \in Task : nodes'[t] = 1 => state'[t] = "READY"
  BY <1>1 DEF QueueInv
<1>4. ASSUME NodeForAll, NEW t \in Task \ {Idle}
      PROVE  nodes'[t] = 1 \/ state'[t] # "READY" \/ \E u \in Task : Makes(u, t)'
  <2>1. CASE t = a
    BY <1>4, <2>1
  <2>2. CASE t # a
    BY <1>1, <1>4, <2>2 DEF QueueInv
  <2>. QED
    BY <2>1, <2>2
<1>. QED
  BY <1>2, <1>3, <1>4 DEF QueueInv

\* A step of task_create that changes the state, node or context of the task a only.
LEMMA MakingSavedOf ==
  ASSUME SavedInv, cpu'.task = cpu.task, NEW a \in Task \ {Idle}, a # cpu.task,
         cpu.task \in Task,
         \A t \in Task \ {a} :
           state'[t] = state[t] /\ ctx'[t] = ctx[t] /\ nodes'[t] = nodes[t],
         nodes'[a] = 1 => ctx'[a] # Stale,
         ctx'[a] # Stale =>
           \/ ctx'[a] = ctx[a] /\ state'[a] = state[a]
           \/ ctx'[a].task = a /\ ctx'[a].at = "body" /\ state'[a] \in Started
  PROVE  SavedInv'
<1>1. ctx'[cpu'.task] = Stale
  BY DEF SavedInv
<1>2. \A t \in Task \ {cpu'.task} : nodes'[t] = 1 \/ t = Idle => ctx'[t] # Stale
  BY SMTT(30) DEF SavedInv
<1>3. ASSUME NEW t \in Task, ctx'[t] # Stale
      PROVE  /\ ctx'[t].task = t /\ state'[t] \in Started /\ ctx'[t].at \in SavedPlaces
             /\ ctx'[t].at = "set_ready" => ctx'[t].prev = t
             /\ ctx'[t].at = "exit" => t # Idle
  BY <1>3, SMTT(30) DEF SavedInv, SavedPlaces
<1>. QED
  BY <1>1, <1>2, <1>3 DEF SavedInv

-----------------------------------------------------------------------------
(* schedule() *)

\* schedule() takes current_task into prev.
LEMMA ScheduleKeeps == ASSUME Core, Schedule PROVE Core'
<1>1. UNCHANGED <<state, pid, bitmap, pid_lock, head, nxt, prv, nodes, current, ctx, masked>>
  BY DEF Schedule, sched, Stay
<1>2. /\ cpu.at = "schedule" /\ cpu' \in Flow /\ cpu'.task = cpu.task /\ cpu'.prev = current
      /\ \/ cpu'.at = "set_ready" /\ CpuRuns
         \/ cpu'.at = "pick" /\ CpuGone
  <2> DEFINE l == IF current # NULL /\ state[current] = "RUNNING" THEN "set_ready" ELSE "pick"
  <2>1. /\ cpu.at = "schedule" /\ l \in Location /\ current \in Task \cup {NULL} /\ cpu \in Flow
        /\ cpu' = [cpu EXCEPT !.prev = current, !.at = l]
    BY DEF Schedule, At, Location, Switching, KillPlaces, Core, TypeOK
  <2>2. CpuRuns \/ CpuGone
    BY <2>1 DEF Core, CpuInv
  <2>3. CpuRuns => l = "set_ready"
    BY CpuListed, SchedIrqConstants DEF CpuRuns
  <2>4. CpuGone => l = "pick"
    BY DEF CpuGone
  <2> HIDE DEF l
  <2>5. cpu' \in Flow /\ cpu'.task = cpu.task /\ cpu'.prev = current /\ cpu'.at = l
    BY <2>1 DEF Flow
  <2>. QED
    BY <2>1, <2>2, <2>3, <2>4, <2>5
<1>3. TypeOK'
  BY <1>1, <1>2 DEF Core, TypeOK
<1>4. Kept
  <2>1. Holders' \subseteq Holders
    BY <1>1, <1>2 DEF Holders
  <2>. QED
    BY <1>1, <1>2, <2>1, Quiet DEF CreatePlaces, UnlockPlaces
<1>5. CpuInv' /\ NextInv' /\ KillInv'
  BY <1>1, <1>2 DEF Core, CpuInv, NextInv, KillInv, CpuRuns, CpuGone, CpuYields,
                    CreatePlaces, ExitPlaces, Switching, KillPlaces, ZombieKill
<1>6. IdleInv' /\ QueueInv' /\ SavedInv'
  BY <1>1, <1>2, <1>4 DEF Core, Kept, KeptTasks, IdleInv, QueueInv, SavedInv
<1>. QED
  BY <1>3, <1>4, <1>5, <1>6 DEF Core, Kept, KeptTasks

\* prev becomes READY; from here on the executing task yields.
LEMMA SetReadyKeeps == ASSUME Core, SetReady PROVE Core'
<1>1. /\ UNCHANGED <<pid, bitmap, pid_lock, head, nxt, prv, nodes, current, ctx, masked>>
      /\ state' = [state EXCEPT ![cpu.task] = "READY"]
  BY DEF SetReady, Stay, Core, CpuInv, At
<1>2. /\ cpu.at = "set_ready" /\ cpu' \in Flow /\ cpu'.task = cpu.task /\ cpu'.prev = cpu.task
      /\ cpu'.at = IF cpu.task # Idle THEN "enqueue" ELSE "pick"
  <2> DEFINE l == IF pid[cpu.prev] # 0 THEN "enqueue" ELSE "pick"
  <2>1. /\ cpu.at = "set_ready" /\ l \in Location /\ cpu \in Flow /\ cpu.prev = cpu.task
        /\ cpu' = [cpu EXCEPT !.at = l]
    BY DEF SetReady, At, Location, Switching, KillPlaces, Core, TypeOK, CpuInv, Goto
  <2>2. l = IF cpu.task # Idle THEN "enqueue" ELSE "pick"
    BY <2>1, CpuListed DEF Core, IdleInv
  <2> HIDE DEF l
  <2>3. cpu' \in Flow /\ cpu'.task = cpu.task /\ cpu'.prev = cpu.prev /\ cpu'.at = l
    BY <2>1, FlowGoto
  <2>. QED
    BY <2>1, <2>2, <2>3
<1>3. TypeOK' /\ CpuRuns /\ cpu.task \in Listed /\ cpu.task \in Task /\ nodes[cpu.task] = 0
  BY <1>1, <1>2, CpuListed DEF Core, TypeOK, Started, CpuInv, QueueInv, CpuRuns
<1>4. Kept
  <2>1. Holders' \subseteq Holders
    BY <1>1, <1>2, <1>3 DEF Holders, Core, TypeOK, CpuRuns
  <2>. QED
    BY <1>1, <1>2, <1>3, <2>1, Quiet
     DEF CreatePlaces, UnlockPlaces, Core, TypeOK, Started
<1>5. CpuInv' /\ NextInv' /\ KillInv'
  BY <1>1, <1>2, <1>3
     DEF Core, CpuInv, NextInv, KillInv, CpuRuns, CpuGone, CpuYields, TypeOK,
                    CreatePlaces, ExitPlaces, Switching, KillPlaces, ZombieKill
<1>6. IdleInv' /\ QueueInv' /\ SavedInv'
  <2>1. /\ \A t \in Task : t # cpu.task => state'[t] = state[t]
        /\ state'[cpu.task] = "READY" /\ state[cpu.task] = "RUNNING"
    BY <1>1, <1>3 DEF Core, TypeOK, CpuRuns
  <2>2. IdleInv'
    <3>1. \A t \in Task : /\ state'[t] \in Started => state[t] \in Started
                          /\ state'[t] = "NONE" => state[t] = "NONE"
      BY <2>1 DEF Started
    <3>2. state'[Idle] \in {"READY", "RUNNING"}
      BY <2>1, SchedIrqConstants DEF Core, IdleInv
    <3>. QED
      BY <1>1, <3>1, <3>2 DEF Core, IdleInv
  <2>3. SavedInv'
    BY <1>1, <1>2, <1>3, <2>1 DEF Core, SavedInv, Started
  <2>4. QueueInv'
    <3>1. \A t \in Task : nodes[t] = 1 => t # cpu.task /\ state[t] = "READY"
      BY <1>1, <1>3, SMTT(30) DEF Core, QueueInv
    <3>2. NodeForAll => \A t \in Task \ {Idle} :
            nodes[t] = 1 \/ state[t] # "READY" \/ \E u \in Task : Makes(u, t)
      BY <1>1, <1>2 DEF Core, QueueInv
    <3>. QED
      BY <1>1, <1>2, <1>3, <1>4, <2>1, <3>1, <3>2 DEF Kept, KeptTasks, QueueInv
  <2>. QED
    BY <2>2, <2>3, <2>4
<1>. QED
  BY <1>3, <1>4, <1>5, <1>6 DEF Core, Kept, KeptTasks

\* prev, which had no node, gets one if there is one.
LEMMA EnqueuePrevKeeps == ASSUME Core, EnqueuePrev PROVE Core'
<1>1. /\ UNCHANGED <<state, pid, bitmap, pid_lock, head, nxt, prv, current, ctx, masked>>
      /\ cpu.at = "enqueue" /\ cpu.prev = cpu.task /\ cpu.task \in Task \ {Idle}
      /\ state[cpu.task] = "READY" /\ nodes[cpu.task] = 0
      /\ nodes' = Enqueue(nodes, state, cpu.task) /\ cpu' = [cpu EXCEPT !.at = "check_queued"]
  BY CpuListed, SchedIrqConstants
     DEF EnqueuePrev, Stay, Core, CpuInv, CpuYields, At, QueueInv, Goto, Started
<1>2. /\ cpu' \in Flow /\ cpu'.at = "check_queued" /\ cpu'.task = cpu.task
      /\ cpu'.prev = cpu.prev
  BY <1>1, FlowGoto DEF Core, TypeOK, Location, Switching, KillPlaces
<1>3. /\ nodes' \in [Task -> {0, 1}] /\ \A t \in Task \ {cpu.task} : nodes'[t] = nodes[t]
      /\ NodeForAll => nodes'[cpu.task] = 1
  BY <1>1, EnqueueOne, SMTT(30) DEF Core, TypeOK, IdleInv
<1>4. Kept
  <2>1. Holders' \subseteq Holders
    BY <1>1, <1>2 DEF Holders
  <2>. QED
    BY <1>1, <1>2, <1>3, <2>1, CpuListed, Quiet DEF CreatePlaces, UnlockPlaces
<1>5. TypeOK'
  BY <1>1, <1>2, <1>3 DEF Core, TypeOK
<1>6. CpuInv' /\ NextInv' /\ KillInv'
  BY <1>1, <1>2, <1>3 DEF Core, CpuInv, NextInv, KillInv, CpuRuns, CpuGone, CpuYields,
                    CreatePlaces, ExitPlaces, Switching, KillPlaces, ZombieKill
<1>7. IdleInv' /\ SavedInv'
  BY <1>1, <1>2, <1>3, SchedIrqConstants, SMTT(30) DEF Core, IdleInv, SavedInv
<1>8. QueueInv'
  BY <1>1, <1>2, <1>3, <1>4 DEF Core, Kept, KeptTasks, QueueInv
<1>. QED
  BY <1>4, <1>5, <1>6, <1>7, <1>8 DEF Core, Kept, KeptTasks

\* The assertion that prev is queued moves no task.
LEMMA CheckQueuedKeeps == ASSUME Core, CheckQueued PROVE Core'
<1>1. CASE nodes[cpu.prev] = 0
  BY <1>1, Unmoved DEF CheckQueued, Panic
<1>2. CASE nodes[cpu.prev] # 0
  <2>1. /\ UNCHANGED <<state, pid, bitmap, pid_lock, head, nxt, prv, nodes, current, ctx, masked>>
        /\ cpu.at = "check_queued" /\ cpu' = [cpu EXCEPT !.at = "pick"]
    BY <1>2 DEF CheckQueued, Stay, At, Goto, sched
  <2>2. /\ cpu' \in Flow /\ cpu'.at = "pick" /\ cpu'.task = cpu.task
        /\ cpu'.prev = cpu.prev
    BY <2>1, FlowGoto DEF Core, TypeOK, Location, Switching, KillPlaces
  <2>3. Kept
    <3>1. Holders' \subseteq Holders
      BY <2>1, <2>2 DEF Holders
    <3>. QED
      BY <2>1, <2>2, <3>1, CpuListed, Quiet DEF CreatePlaces, UnlockPlaces
  <2>4. TypeOK'
    BY <2>1, <2>2 DEF Core, TypeOK
  <2>5. CpuInv' /\ NextInv' /\ KillInv'
    BY <2>1, <2>2 DEF Core, CpuInv, NextInv, KillInv, CpuRuns, CpuGone, CpuYields,
                      CreatePlaces, ExitPlaces, Switching, KillPlaces, ZombieKill
  <2>6. IdleInv' /\ QueueInv' /\ SavedInv'
    BY <2>1, <2>2, <2>3 DEF Core, Kept, KeptTasks, IdleInv, QueueInv, SavedInv
  <2>. QED
    BY <2>3, <2>4, <2>5, <2>6 DEF Core, Kept, KeptTasks
<1>. QED
  BY <1>1, <1>2

\* What is picked is listed, READY and has a context to resume, or is prev.
LEMMA PickKeeps == ASSUME Core, Pick PROVE Core'
<1> DEFINE picks == IF Queued(nodes) # {} THEN Queued(nodes) ELSE FindByPid(0)
<1>1. CASE Panic
  BY <1>1, Unmoved DEF Pick, Panic
<1>2. CASE ~Panic
  <2>1. /\ UNCHANGED <<state, pid, bitmap, pid_lock, head, nxt, prv, nodes, current>>
        /\ cpu.at = "pick" /\ CpuYields /\ current = cpu.prev /\ cpu \in Flow
    BY DEF Pick, At, sched, Core, CpuInv, TypeOK, Switching
  <2>2. PICK next \in picks :
          \/ /\ next # cpu.prev
             /\ cpu' = [cpu EXCEPT !.next = next, !.at = "dequeue"]
             /\ Stay
          \/ next = cpu.prev /\ state[cpu.prev] = "READY" /\ Goto("stay") /\ Stay
          \/ next = cpu.prev /\ state[cpu.prev] # "READY"
    BY <1>2 DEF Pick
  <2>3. /\ next \in Listed /\ state[next] = "READY"
        /\ next # cpu.task => ctx[next] # Stale
    <3>1. CASE next \in Queued(nodes)
      <4>1. next \in Task /\ nodes[next] = 1
        BY <3>1, SMTT(30) DEF Queued, Core, TypeOK
      <4>2. state[next] = "READY"
        BY <2>1, <4>1 DEF Core, QueueInv
      <4>3. \A u \in Task : ~Makes(u, next)
        BY <4>1, MadeIs, SMTT(30)
      <4>. QED
        BY <4>1, <4>2, <4>3 DEF Listed, Started, Core, SavedInv
    <3>2. CASE next = Idle
      BY <2>1, <3>2, SchedIrqConstants, CpuListed
         DEF Listed, Core, IdleInv, NextInv, CpuYields, SavedInv
    <3>. QED
      BY <3>1, <3>2, FindListed
  <2>4. next # cpu.prev => next # cpu.task
    BY <2>1, <2>3 DEF CpuYields
  <2>5. next = cpu.prev => cpu.prev = cpu.task
    BY <2>1, <2>3, SchedIrqConstants DEF CpuYields, Listed
  <2>6. /\ UNCHANGED <<ctx, masked>>
        /\ cpu' \in Flow /\ cpu'.task = cpu.task /\ cpu'.prev = cpu.prev
        /\ \/ cpu'.at = "dequeue" /\ cpu'.next = next /\ next # cpu.task
           \/ cpu'.at = "stay" /\ cpu.prev = cpu.task
    <3>1. CASE next # cpu.prev
      <4>1. cpu' = [cpu EXCEPT !.next = next, !.at = "dequeue"] /\ Stay
        BY <2>2, <3>1
      <4>2. next \in Task \cup {NULL} /\ "dequeue" \in Location
        BY <2>3 DEF Listed, Location, Switching, KillPlaces
      <4>3. /\ cpu' \in Flow /\ cpu'.task = cpu.task /\ cpu'.prev = cpu.prev
            /\ cpu'.at = "dequeue" /\ cpu'.next = next
        BY <2>1, <4>1, <4>2 DEF Flow
      <4>. QED
        BY <2>4, <3>1, <4>1, <4>3 DEF Stay
    <3>2. CASE next = cpu.prev
      <4>1. cpu' = [cpu EXCEPT !.at = "stay"] /\ Stay
        BY <2>2, <2>3, <3>2 DEF Goto
      <4>2. "stay" \in Location
        BY DEF Location, Switching, KillPlaces
      <4>. QED
        BY <2>1, <2>5, <3>2, <4>1, <4>2, FlowGoto DEF Stay
    <3>. QED
      BY <3>1, <3>2
  <2>7. Kept
    <3>1. Holders' \subseteq Holders
      BY <2>1, <2>6 DEF Holders
    <3>. QED
      BY <2>1, <2>6, <3>1, Quiet DEF CreatePlaces, UnlockPlaces
  <2>8. TypeOK'
    BY <2>1, <2>6 DEF Core, TypeOK
  <2>9. CpuInv'
    BY <2>1, <2>6, CpuListed, SchedIrqConstants
       DEF CpuInv, CpuYields, CreatePlaces, ExitPlaces, Switching
  <2>10. NextInv' /\ KillInv'
    BY <2>1, <2>3, <2>6, <2>7
       DEF Core, Kept, KeptTasks, NextInv, KillInv, KillPlaces, ZombieKill
  <2>11. IdleInv' /\ QueueInv' /\ SavedInv'
    BY <2>1, <2>6, <2>7 DEF Core, Kept, KeptTasks, IdleInv, QueueInv, SavedInv
  <2>. QED
    BY <2>7, <2>8, <2>9, <2>10, <2>11 DEF Core, Kept, KeptTasks
<1>. QED
  BY <1>1, <1>2

\* prev is picked again and becomes RUNNING, still queued.
LEMMA StayRunningKeeps == ASSUME Core, StayRunning PROVE Core'
<1>1. /\ UNCHANGED <<pid, bitmap, pid_lock, head, nxt, prv, nodes, current, ctx, masked>>
      /\ cpu.at = "stay" /\ cpu.prev = cpu.task /\ cpu \in Flow
      /\ state[cpu.task] = "READY" /\ current = cpu.task
      /\ state' = [state EXCEPT ![cpu.task] = "RUNNING"]
      /\ cpu' = [cpu EXCEPT !.at = "stay_dequeue"]
  BY CpuListed, SchedIrqConstants
     DEF StayRunning, Stay, Core, CpuInv, CpuYields, At, Goto, TypeOK, Switching
<1>2. /\ cpu' \in Flow /\ cpu'.at = "stay_dequeue" /\ cpu'.task = cpu.task
      /\ cpu'.prev = cpu.prev
  BY <1>1, FlowGoto DEF Location, Switching, KillPlaces
<1>3. TypeOK' /\ cpu.task \in Listed /\ cpu.task \in Task
  BY <1>1, <1>2, CpuListed DEF Core, TypeOK, Started
<1>4. Kept
  <2>1. Holders' \subseteq Holders
    BY <1>1, <1>2, <1>3 DEF Holders, Core, TypeOK
  <2>. QED
    BY <1>1, <1>2, <1>3, <2>1, Quiet DEF CreatePlaces, UnlockPlaces, Core, TypeOK, Started
<1>5. CpuInv' /\ NextInv' /\ KillInv'
  BY <1>1, <1>2, <1>3 DEF Core, CpuInv, NextInv, KillInv, CpuRuns, CpuYields, TypeOK,
                    CreatePlaces, ExitPlaces, Switching, KillPlaces, ZombieKill
<1>6. IdleInv' /\ QueueInv' /\ SavedInv'
  BY <1>1, <1>2, <1>3, <1>4, SMTT(30)
     DEF Core, Kept, KeptTasks, IdleInv, QueueInv, SavedInv, TypeOK, Started
<1>. QED
  BY <1>3, <1>4, <1>5, <1>6 DEF Core, Kept, KeptTasks

\* prev leaves the queue and returns from schedule().
LEMMA StayDequeueKeeps == ASSUME Core, StayDequeue PROVE Core'
<1>1. /\ UNCHANGED <<state, pid, bitmap, pid_lock, head, nxt, prv, current>>
      /\ cpu.at = "stay_dequeue" /\ cpu.prev = cpu.task /\ CpuRuns /\ cpu.task \in Task
      /\ nodes' = Dequeue(nodes, cpu.task)
  BY CpuListed DEF StayDequeue, Core, CpuInv, At
<1>2. /\ nodes' \in [Task -> {0, 1}] /\ nodes'[cpu.task] = 0
      /\ \A t \in Task \ {cpu.task} : nodes'[t] = nodes[t]
  BY <1>1, DequeueOne DEF Core, TypeOK
<1>3. Return /\ ctx' = ctx
  BY <1>1, <1>2, SMTT(30) DEF StayDequeue
<1>. QED
  BY <1>1, <1>2, <1>3, ReturnMasks, ReturnKeeps DEF Return, CreatePlaces

\* next leaves the queue; idle was never in it.
LEMMA DequeueNextKeeps == ASSUME Core, DequeueNext PROVE Core'
<1>1. /\ UNCHANGED <<state, pid, bitmap, pid_lock, head, nxt, prv, current>>
      /\ cpu.at = "dequeue" /\ cpu.next \in Listed /\ cpu.next \in Task /\ cpu.next # cpu.task
      /\ nodes' = IF pid[cpu.next] # 0 THEN Dequeue(nodes, cpu.next) ELSE nodes
      /\ state[cpu.next] = "READY"
  BY DEF DequeueNext, Core, NextInv, At, Listed
<1>2. /\ nodes' \in [Task -> {0, 1}] /\ nodes'[cpu.next] = 0
      /\ \A t \in Task \ {cpu.next} : nodes'[t] = nodes[t]
  <2>1. pid[cpu.next] = 0 => nodes[cpu.next] = 0
    BY <1>1 DEF Core, IdleInv, Started
  <2>. QED
    BY <1>1, <2>1, DequeueOne DEF Core, TypeOK
<1>3. cpu' = [cpu EXCEPT !.at = "run"] /\ ctx' = ctx /\ masked' = masked
  BY <1>1, <1>2, SMTT(30) DEF DequeueNext, Goto, Stay
<1>4. /\ cpu' \in Flow /\ cpu'.at = "run" /\ cpu'.task = cpu.task
      /\ cpu'.prev = cpu.prev /\ cpu'.next = cpu.next
  BY <1>3, FlowGoto DEF Core, TypeOK, Location, Switching, KillPlaces
<1>5. Kept
  <2>1. Holders' \subseteq Holders
    BY <1>1, <1>4 DEF Holders
  <2>. QED
    BY <1>1, <1>2, <1>3, <1>4, <2>1, Quiet DEF CreatePlaces, UnlockPlaces
<1>6. TypeOK'
  BY <1>1, <1>2, <1>3, <1>4 DEF Core, TypeOK
<1>7. CpuInv' /\ NextInv' /\ KillInv'
  BY <1>1, <1>2, <1>3, <1>4, <1>5
     DEF Core, Kept, KeptTasks, CpuInv, NextInv, KillInv, CpuRuns, CpuYields, CreatePlaces,
         ExitPlaces, Switching, KillPlaces, ZombieKill
<1>8. IdleInv' /\ SavedInv'
  BY <1>1, <1>2, <1>3, <1>4, SchedIrqConstants, SMTT(30) DEF Core, IdleInv, SavedInv
<1>9. QueueInv'
  BY <1>1, <1>2, <1>4, <1>5 DEF Core, Kept, KeptTasks, QueueInv
<1>. QED
  BY <1>5, <1>6, <1>7, <1>8, <1>9 DEF Core, Kept, KeptTasks

\* next becomes the RUNNING task, while prev still executes.
LEMMA RunNextKeeps == ASSUME Core, RunNext PROVE Core'
<1>1. /\ UNCHANGED <<pid, bitmap, pid_lock, head, nxt, prv, nodes, current>>
      /\ cpu.at = "run" /\ cpu.next \in Listed /\ cpu.next \in Task /\ cpu.next # cpu.task
      /\ state' = [state EXCEPT ![cpu.next] = "RUNNING"]
      /\ state[cpu.next] = "READY" /\ nodes[cpu.next] = 0
  BY DEF RunNext, Core, NextInv, At, Listed
<1>2. cpu' = [cpu EXCEPT !.at = "set_current"] /\ ctx' = ctx /\ masked' = masked
  BY <1>1, SMTT(30) DEF RunNext, Goto, Stay
<1>3. /\ cpu' \in Flow /\ cpu'.at = "set_current" /\ cpu'.task = cpu.task
      /\ cpu'.prev = cpu.prev /\ cpu'.next = cpu.next
  BY <1>2, FlowGoto DEF Core, TypeOK, Location, Switching, KillPlaces
<1>4. TypeOK'
  BY <1>1, <1>2, <1>3 DEF Core, TypeOK, Started
<1>5. Kept
  <2>1. Holders' \subseteq Holders
    BY <1>1, <1>3 DEF Holders, Core, TypeOK
  <2>. QED
    BY <1>1, <1>2, <1>3, <2>1, Quiet DEF CreatePlaces, UnlockPlaces, Core, TypeOK, Started
<1>6. CpuInv'
  BY <1>1, <1>3, CpuListed
     DEF Core, CpuInv, CpuYields, TypeOK, CreatePlaces, ExitPlaces, Switching
<1>7. NextInv' /\ KillInv'
  BY <1>1, <1>2, <1>3, <1>5
     DEF Core, Kept, KeptTasks, NextInv, KillInv, TypeOK, KillPlaces, ZombieKill
<1>8. IdleInv' /\ SavedInv'
  BY <1>1, <1>2, <1>3, SMTT(30) DEF Core, IdleInv, SavedInv, TypeOK, Started
<1>9. QueueInv'
  <2>1. /\ \A t \in Task : t # cpu.next => state'[t] = state[t]
        /\ state'[cpu.next] = "RUNNING"
    BY <1>1 DEF Core, TypeOK
  <2>2. \A t \in Task : nodes[t] = 1 => t # cpu.next /\ state[t] = "READY"
    BY <1>1, SMTT(30) DEF Core, QueueInv
  <2>3. NodeForAll => \A t \in Task \ {Idle, cpu.next} :
          nodes[t] = 1 \/ state[t] # "READY" \/ \E u \in Task : Makes(u, t)
    BY <1>1 DEF Core, QueueInv
  <2>. QED
    BY <1>1, <1>3, <1>5, <2>1, <2>2, <2>3 DEF Kept, KeptTasks, QueueInv
<1>. QED
  BY <1>4, <1>5, <1>6, <1>7, <1>8, <1>9 DEF Core, Kept, KeptTasks

\* current_task becomes next, while prev still executes.
LEMMA SetCurrentKeeps == ASSUME Core, SetCurrent PROVE Core'
<1>1. /\ UNCHANGED <<state, pid, bitmap, pid_lock, head, nxt, prv, nodes, ctx, masked>>
      /\ cpu.at = "set_current" /\ cpu.next \in Task
      /\ current' = cpu.next
  BY DEF SetCurrent, Stay, Core, NextInv, At, Listed
<1>2. /\ cpu' \in Flow /\ cpu'.at = "switch" /\ cpu'.task = cpu.task
      /\ cpu'.prev = cpu.prev /\ cpu'.next = cpu.next
  BY FlowGoto DEF SetCurrent, Goto, Core, TypeOK, Location, Switching, KillPlaces
<1>3. Kept
  <2>1. Holders' \subseteq Holders
    BY <1>1, <1>2 DEF Holders
  <2>. QED
    BY <1>1, <1>2, <2>1, Quiet DEF CreatePlaces, UnlockPlaces
<1>4. TypeOK'
  BY <1>1, <1>2 DEF Core, TypeOK
<1>5. CpuInv' /\ NextInv' /\ KillInv'
  BY <1>1, <1>2, <1>3
     DEF Core, Kept, KeptTasks, CpuInv, NextInv, KillInv, CpuYields, CreatePlaces,
         ExitPlaces, Switching, KillPlaces, ZombieKill
<1>6. IdleInv' /\ QueueInv' /\ SavedInv'
  BY <1>1, <1>2, <1>3 DEF Core, Kept, KeptTasks, IdleInv, QueueInv, SavedInv
<1>. QED
  BY <1>3, <1>4, <1>5, <1>6 DEF Core, Kept, KeptTasks

\* switch_to saves prev where it returns from schedule() and resumes next.
LEMMA SwitchKeeps == ASSUME Core, Switch, ~wild PROVE Core' /\ ~wild'
<1> DEFINE c == IF cpu.prev # NULL THEN [ctx EXCEPT ![cpu.prev] = Body(cpu.task)] ELSE ctx
<1>1. /\ UNCHANGED <<state, pid, bitmap, pid_lock, head, nxt, prv, nodes, current, masked>>
      /\ cpu.at = "switch" /\ CpuYields /\ current = cpu.next /\ cpu.next \in Listed
      /\ cpu.next \in Task /\ cpu.next # cpu.task /\ ctx[cpu.next] # Stale
      /\ state[cpu.next] = "RUNNING" /\ nodes[cpu.next] = 0
      /\ \A t \in Task \ {cpu.next, cpu.task} : state[t] # "RUNNING"
      /\ cpu.task \in Task
  BY CpuListed DEF Switch, Core, CpuInv, NextInv, At, sched, Listed, Switching
<1>2. /\ cpu' = c[cpu.next] /\ ctx' = [c EXCEPT ![cpu.next] = Stale]
      /\ wild' = (c[cpu.next] = Stale \/ c[cpu.next].task # cpu.next)
  BY DEF Switch, Restore
<1>3. /\ c \in [Task -> Flow \cup {Stale}]
      /\ \A u \in Task \ {cpu.task} : c[u] = ctx[u]
      /\ c[cpu.task] = IF cpu.prev # NULL THEN Body(cpu.task) ELSE Stale
  <2>1. Body(cpu.task) \in Flow /\ ctx \in [Task -> Flow \cup {Stale}]
    BY <1>1, FlowBody DEF Core, TypeOK
  <2>2. cpu.prev # NULL => cpu.prev = cpu.task
    BY <1>1 DEF CpuYields
  <2>3. ctx[cpu.task] = Stale
    BY DEF Core, SavedInv
  <2>. QED
    BY <1>1, <2>1, <2>2, <2>3
<1> HIDE DEF c
<1>4. /\ cpu' = ctx[cpu.next] /\ ctx' \in [Task -> Flow \cup {Stale}] /\ ctx'[cpu.next] = Stale
      /\ \A u \in Task \ {cpu.next, cpu.task} : ctx'[u] = ctx[u]
      /\ ctx'[cpu.task] = IF cpu.prev # NULL THEN Body(cpu.task) ELSE Stale
  BY <1>1, <1>2, <1>3
<1>5. ~wild'
  BY <1>1, <1>2, <1>3 DEF Core, SavedInv
<1>6. /\ state' \in [Task -> {"NONE", "NEW"} \cup Started] /\ nodes' \in [Task -> {0, 1}]
      /\ state[cpu.task] \in {"READY", "ZOMBIE"}
      /\ cpu.task = Idle => state[Idle] = "READY"
      /\ nodes[cpu.task] = 1 => state[cpu.task] = "READY" /\ cpu.task # Idle
      /\ NodeForAll => nodes[cpu.task] = 1 \/ state[cpu.task] = "ZOMBIE" \/ cpu.task = Idle
      /\ cpu.prev = NULL => nodes[cpu.task] = 0 /\ cpu.task # Idle
      /\ cpu.at \notin CreatePlaces
  <2>1. state[cpu.task] \in {"READY", "ZOMBIE"} /\ (cpu.prev = NULL => state[cpu.task] = "ZOMBIE")
    BY <1>1, SchedIrqConstants DEF CpuYields
  <2>2. \A u \in Task : ~Makes(u, cpu.task)
    BY <1>1, MadeNotListed, CpuListed
  <2>. QED
    BY <1>1, <2>1, <2>2 DEF Core, TypeOK, QueueInv, IdleInv, CreatePlaces
<1>7. Core'
  BY <1>1, <1>4, <1>6, Handover
<1>. QED
  BY <1>5, <1>7

-----------------------------------------------------------------------------
(* task_exit and task_kill *)

\* task_exit makes the executing task a ZOMBIE that is current and not queued.
LEMMA ExitKeeps == ASSUME Core, Exit PROVE Core'
<1>1. cpu.at = "exit" /\ CpuRuns /\ cpu.task \in Task \ {Idle} /\ cpu.task \in Listed
  BY CpuListed DEF Exit, At, Core, CpuInv
<1>2. /\ state' = [state EXCEPT ![cpu.task] = "ZOMBIE"]
      /\ UNCHANGED <<pid, bitmap, pid_lock, head, nxt, prv, nodes, current, ctx, masked>>
      /\ cpu' = [cpu EXCEPT !.at = "exit_pid_free"]
  BY <1>1, SchedIrqConstants DEF Exit, CpuRuns, Goto, Stay
<1>3. cpu' \in Flow /\ cpu'.at = "exit_pid_free" /\ cpu'.task = cpu.task
  BY <1>2, FlowGoto DEF Core, TypeOK, Location
<1>4. TypeOK'
  BY <1>1, <1>2, <1>3 DEF Core, TypeOK, Started
<1>5. Kept
  <2>1. Holders' \subseteq Holders
    BY <1>1, <1>2, <1>3 DEF Holders, Core, TypeOK, CpuRuns
  <2>. QED
    BY <1>1, <1>2, <1>3, <2>1, Quiet DEF CreatePlaces, UnlockPlaces, Core, TypeOK, Started
<1>6. CpuInv' /\ NextInv' /\ KillInv'
  BY <1>1, <1>2, <1>3
     DEF Core, TypeOK, CpuInv, NextInv, KillInv, CpuRuns, CreatePlaces, ExitPlaces,
         Switching, KillPlaces, ZombieKill
<1>7. IdleInv' /\ SavedInv'
  BY <1>1, <1>2, <1>3, SMTT(30) DEF Core, IdleInv, SavedInv, TypeOK, Started, CpuRuns
<1>8. QueueInv'
  BY <1>1, <1>2, <1>3, <1>5, RunningNotQueued
     DEF Core, Kept, KeptTasks, QueueInv, TypeOK, CpuRuns
<1>. QED
  BY <1>4, <1>5, <1>6, <1>7, <1>8 DEF Core, Kept, KeptTasks

\* pid_free of a terminated task: its PID is marked, is not 0 and is no other's.
LEMMA PidFreeKeeps ==
  ASSUME Core, NEW t \in Task \ {Idle}, NEW unlock, NEW done, PidFree(t, unlock, done),
         state[t] = "ZOMBIE",
         \/ cpu.at = "exit_pid_free" /\ t = cpu.task /\ unlock = "exit_unlock"
         \/ cpu.at = "kill_pid_free" /\ t = cpu.arg /\ unlock = "kill_unlock"
  PROVE  Core'
<1>1. pid[t] # 0 /\ t \in Holders /\ cpu.task \in Task /\ cpu.task \in Listed
  BY CpuListed DEF Core, IdleInv, Started, Holders
<1>2. /\ UNCHANGED <<state, pid, head, nxt, prv, nodes, current, ctx, masked>>
      /\ pid_lock = NULL /\ pid_lock' = cpu.task /\ bitmap' = bitmap \ {pid[t]}
      /\ cpu' = [cpu EXCEPT !.at = unlock]
  BY <1>1 DEF PidFree, Goto, Stay, Lock
<1>3. cpu' \in Flow /\ cpu'.at = unlock /\ cpu'.task = cpu.task /\ cpu'.arg = cpu.arg
  <2>1. unlock \in Location /\ cpu \in Flow
    BY DEF Location, Switching, KillPlaces, Core, TypeOK
  <2>. QED
    BY <1>2, <2>1, FlowGoto
<1>4. TypeOK'
  BY <1>1, <1>2, <1>3 DEF Core, TypeOK
<1>5. KeptTasks
  BY <1>2, <1>3, QuietTasks DEF CreatePlaces, Core, ListInv
<1>6. LockInv'
  <2>1. \A u \in Task : FlowOf(u)' = IF u = cpu.task THEN cpu' ELSE FlowOf(u)
    BY <1>2, <1>3 DEF FlowOf
  <2>2. \A u \in Task : FlowOf(u).at \notin UnlockPlaces
    BY <1>2, SchedIrqConstants DEF Core, LockInv
  <2>. QED
    BY <1>2, <2>1, <2>2 DEF LockInv
<1>7. PidInv'
  <2>1. Holders' \subseteq Holders \ {t}
    BY <1>2, <1>3 DEF Holders
  <2>2. ASSUME NEW u \in Task, FlowOf(u).at = "create_undo_unlock"
        PROVE  FlowOf(u)' = FlowOf(u)
    BY <1>2, <1>3, <2>2 DEF FlowOf
  <2>. QED
    BY <1>1, <1>2, <2>1, <2>2, SMTT(30) DEF Core, PidInv
<1>8. CpuInv' /\ NextInv' /\ KillInv'
  BY <1>1, <1>2, <1>3, <1>5
     DEF Core, KeptTasks, CpuInv, NextInv, KillInv, CpuRuns, CreatePlaces, ExitPlaces,
         Switching, KillPlaces, ZombieKill
<1>9. IdleInv' /\ SavedInv' /\ QueueInv'
  BY <1>2, <1>3, <1>5 DEF Core, KeptTasks, IdleInv, SavedInv, QueueInv
<1>. QED
  BY <1>4, <1>5, <1>6, <1>7, <1>8, <1>9 DEF Core, KeptTasks

\* Releasing pid_lock after it.
LEMMA PidUnlockKeeps ==
  ASSUME Core, NEW from, NEW to, PidUnlock(from, to),
         \/ from = "exit_unlock" /\ to = "exit_clear"
         \/ from = "kill_unlock" /\ to = "kill_unlink"
  PROVE  Core'
<1>1. /\ UNCHANGED <<state, pid, bitmap, head, nxt, prv, nodes, current, ctx, masked>>
      /\ cpu.at = from /\ pid_lock' = NULL /\ cpu' = [cpu EXCEPT !.at = to]
      /\ cpu.task \in Task /\ cpu \in Flow
  BY CpuListed DEF PidUnlock, Goto, Stay, Unlock, At, Core, TypeOK
<1>2. cpu' \in Flow /\ cpu'.at = to /\ cpu'.task = cpu.task /\ cpu'.arg = cpu.arg
  <2>1. to \in Location
    BY DEF Location, Switching, KillPlaces
  <2>. QED
    BY <1>1, <2>1, FlowGoto
<1>3. TypeOK'
  BY <1>1, <1>2 DEF Core, TypeOK
<1>4. KeptTasks
  BY <1>1, <1>2, QuietTasks DEF CreatePlaces, Core, ListInv
<1>5. LockInv'
  <2>1. \A u \in Task : FlowOf(u)' = IF u = cpu.task THEN cpu' ELSE FlowOf(u)
    BY <1>1, <1>2 DEF FlowOf
  <2>2. \A u \in Task \ {cpu.task} : FlowOf(u).at \notin UnlockPlaces
    BY <1>1 DEF Core, LockInv, FlowOf, UnlockPlaces
  <2>. QED
    BY <1>2, <2>1, <2>2 DEF LockInv, UnlockPlaces
<1>6. PidInv'
  <2>1. Holders' \subseteq Holders
    BY <1>1, <1>2 DEF Holders
  <2>2. ASSUME NEW u \in Task, FlowOf(u).at = "create_undo_unlock"
        PROVE  FlowOf(u)' = FlowOf(u)
    BY <1>1, <1>2, <2>2 DEF FlowOf
  <2>. QED
    BY <1>1, <2>1, <2>2, SMTT(30) DEF Core, PidInv
<1>7. CpuInv' /\ NextInv' /\ KillInv'
  BY <1>1, <1>2, <1>4
     DEF Core, KeptTasks, CpuInv, NextInv, KillInv, CpuRuns, CreatePlaces, ExitPlaces,
         Switching, KillPlaces, ZombieKill
<1>8. IdleInv' /\ SavedInv' /\ QueueInv'
  BY <1>1, <1>2, <1>4 DEF Core, KeptTasks, IdleInv, SavedInv, QueueInv
<1>. QED
  BY <1>3, <1>4, <1>5, <1>6, <1>7, <1>8 DEF Core, KeptTasks

\* task_exit gives the PID back under pid_lock.
LEMMA ExitPidFreeKeeps == ASSUME Core, ExitPidFree PROVE Core'
<1>1. cpu.at = "exit_pid_free" /\ current = cpu.task /\ state[cpu.task] = "ZOMBIE"
  BY DEF ExitPidFree, At, Core, CpuInv, ExitPlaces
<1>2. cpu.task \in Task \ {Idle}
  BY <1>1, CpuListed DEF Core, IdleInv
<1>. QED
  BY <1>1, <1>2, PidFreeKeeps DEF ExitPidFree

\* A step that moves on and at most resets current_task.
LEMMA ClearKeeps ==
  ASSUME Core, cpu' = [cpu EXCEPT !.at = "schedule"], current' = NULL,
         cpu.at \in {"exit_clear", "kill_end"}, state[cpu.task] = "ZOMBIE",
         UNCHANGED <<state, pid, bitmap, pid_lock, head, nxt, prv, nodes, ctx, masked>>
  PROVE  Core'
<1>1. cpu' \in Flow /\ cpu'.at = "schedule" /\ cpu'.task = cpu.task
  BY FlowGoto DEF Core, TypeOK, Location
<1>2. TypeOK'
  BY <1>1 DEF Core, TypeOK
<1>3. Kept
  <2>1. Holders' \subseteq Holders
    BY <1>1 DEF Holders
  <2>. QED
    BY <1>1, <2>1, Quiet DEF CreatePlaces, UnlockPlaces
<1>4. CpuInv' /\ NextInv' /\ KillInv'
  BY <1>1
     DEF Core, CpuInv, NextInv, KillInv, CpuGone, CreatePlaces, ExitPlaces,
         Switching, KillPlaces, ZombieKill
<1>5. IdleInv' /\ SavedInv' /\ QueueInv'
  BY <1>1, <1>3 DEF Core, Kept, KeptTasks, IdleInv, SavedInv, QueueInv
<1>. QED
  BY <1>2, <1>3, <1>4, <1>5 DEF Core, Kept, KeptTasks

\* task_exit leaves no current task behind.
LEMMA ExitClearKeeps == ASSUME Core, ExitClear PROVE Core'
BY ClearKeeps DEF ExitClear, Goto, Stay, At, Core, CpuInv, ExitPlaces

\* task_kill returns for idle and zombies and goes on with any other listed task.
LEMMA KillKeeps == ASSUME Core, Kill PROVE Core'
<1>1. /\ cpu.at = "kill" /\ CpuRuns /\ cpu.task \in Task /\ cpu.arg \in Listed /\ cpu.arg \in Task
      /\ UNCHANGED <<state, pid, bitmap, pid_lock, head, nxt, prv, nodes, current>>
  BY CpuListed DEF Kill, At, Core, CpuInv, KillInv, KillPlaces, Listed, sched
<1>2. CASE Return /\ ctx' = ctx
  <2>1. nodes[cpu.task] = 0
    BY <1>1, RunningNotQueued DEF CpuRuns
  <2>. QED
    BY <1>1, <1>2, <2>1, ReturnMasks, ReturnKeeps
     DEF Return, CreatePlaces, Core, TypeOK
<1>3. CASE Goto("kill_dequeue") /\ Stay /\ pid[cpu.arg] # 0 /\ state[cpu.arg] # "ZOMBIE"
  <2>1. cpu' = [cpu EXCEPT !.at = "kill_dequeue"] /\ UNCHANGED <<ctx, masked>>
    BY <1>3 DEF Goto, Stay
  <2>2. /\ cpu' \in Flow /\ cpu'.at = "kill_dequeue" /\ cpu'.task = cpu.task
        /\ cpu'.arg = cpu.arg
    BY <2>1, FlowGoto DEF Core, TypeOK, Location, Switching, KillPlaces
  <2>3. TypeOK'
    BY <1>1, <2>1, <2>2 DEF Core, TypeOK
  <2>4. Kept
    <3>1. Holders' \subseteq Holders
      BY <1>1, <2>2 DEF Holders
    <3>. QED
      BY <1>1, <2>1, <2>2, <3>1, Quiet DEF CreatePlaces, UnlockPlaces
  <2>5. CpuInv' /\ NextInv'
    BY <1>1, <2>1, <2>2
       DEF Core, CpuInv, NextInv, CpuRuns, CreatePlaces, ExitPlaces, Switching
  <2>6. KillInv'
    BY <1>1, <1>3, <2>1, <2>2, <2>4
       DEF Core, Kept, KeptTasks, IdleInv, KillInv, KillPlaces, ZombieKill
  <2>7. IdleInv' /\ SavedInv' /\ QueueInv'
    BY <1>1, <2>1, <2>2, <2>4 DEF Core, Kept, KeptTasks, IdleInv, SavedInv, QueueInv
  <2>. QED
    BY <2>3, <2>4, <2>5, <2>6, <2>7 DEF Core, Kept, KeptTasks
<1>. QED
  BY <1>2, <1>3 DEF Kill

\* A READY victim leaves the queue.
LEMMA KillDequeueKeeps == ASSUME Core, KillDequeue PROVE Core'
<1>1. /\ cpu.at = "kill_dequeue" /\ CpuRuns /\ cpu.task \in Task
      /\ cpu.arg \in Listed /\ cpu.arg \in Task \ {Idle} /\ state[cpu.arg] # "ZOMBIE"
      /\ nodes' = IF state[cpu.arg] = "READY" THEN Dequeue(nodes, cpu.arg) ELSE nodes
      /\ cpu' = [cpu EXCEPT !.at = "kill_zombie"]
      /\ UNCHANGED <<state, pid, bitmap, pid_lock, head, nxt, prv, current, ctx, masked>>
  BY CpuListed
     DEF KillDequeue, At, Goto, Stay, Core, CpuInv, KillInv, KillPlaces, Listed
<1>2. /\ nodes' \in [Task -> {0, 1}] /\ nodes'[cpu.arg] = 0
      /\ \A t \in Task \ {cpu.arg} : nodes'[t] = nodes[t]
  BY <1>1, DequeueOne, RunningNotQueued, SMTT(30) DEF Core, TypeOK
<1>3. /\ cpu' \in Flow /\ cpu'.at = "kill_zombie" /\ cpu'.task = cpu.task
      /\ cpu'.arg = cpu.arg
  BY <1>1, FlowGoto DEF Core, TypeOK, Location, Switching, KillPlaces
<1>4. TypeOK'
  BY <1>1, <1>2, <1>3 DEF Core, TypeOK
<1>5. Kept
  <2>1. Holders' \subseteq Holders
    BY <1>1, <1>3 DEF Holders
  <2>. QED
    BY <1>1, <1>2, <1>3, <2>1, Quiet DEF CreatePlaces, UnlockPlaces
<1>6. CpuInv' /\ NextInv'
  BY <1>1, <1>3
     DEF Core, CpuInv, NextInv, CpuRuns, CreatePlaces, ExitPlaces, Switching
<1>7. KillInv'
  BY <1>1, <1>2, <1>3, <1>5 DEF Core, Kept, KeptTasks, KillInv, KillPlaces, ZombieKill
<1>8. IdleInv' /\ SavedInv'
  BY <1>1, <1>2, <1>3, SchedIrqConstants, SMTT(30) DEF Core, IdleInv, SavedInv
<1>9. QueueInv'
  BY <1>1, <1>2, <1>3, <1>5 DEF Core, Kept, KeptTasks, QueueInv
<1>. QED
  BY <1>4, <1>5, <1>6, <1>7, <1>8, <1>9 DEF Core, Kept, KeptTasks

\* The victim, not queued by now, becomes a ZOMBIE.
LEMMA KillZombieKeeps == ASSUME Core, KillZombie PROVE Core'
<1>1. /\ cpu.at = "kill_zombie" /\ CpuRuns /\ cpu.task \in Task
      /\ cpu.arg \in Listed /\ cpu.arg \in Task \ {Idle} /\ state[cpu.arg] # "ZOMBIE"
      /\ nodes[cpu.arg] = 0 /\ state[cpu.arg] \in Started
      /\ state' = [state EXCEPT ![cpu.arg] = "ZOMBIE"]
      /\ cpu' = [cpu EXCEPT !.at = "kill_pid_free"]
      /\ UNCHANGED <<pid, bitmap, pid_lock, head, nxt, prv, nodes, current, ctx, masked>>
  BY CpuListed
     DEF KillZombie, At, Goto, Stay, Core, CpuInv, KillInv, KillPlaces, Listed
<1>2. /\ cpu' \in Flow /\ cpu'.at = "kill_pid_free" /\ cpu'.task = cpu.task
      /\ cpu'.arg = cpu.arg
  BY <1>1, FlowGoto DEF Core, TypeOK, Location, Switching, KillPlaces
<1>3. TypeOK'
  BY <1>1, <1>2 DEF Core, TypeOK, Started
<1>4. Kept
  <2>1. Holders' \subseteq Holders
    BY <1>1, <1>2 DEF Holders, Core, TypeOK
  <2>. QED
    BY <1>1, <1>2, <2>1, Quiet DEF CreatePlaces, UnlockPlaces, Core, TypeOK, Started
<1>5. CpuInv' /\ NextInv'
  BY <1>1, <1>2
     DEF Core, CpuInv, NextInv, CpuRuns, CreatePlaces, ExitPlaces, Switching, TypeOK
<1>6. KillInv'
  BY <1>1, <1>2, <1>4
     DEF Core, Kept, KeptTasks, KillInv, KillPlaces, ZombieKill, TypeOK, CpuRuns
<1>7. IdleInv' /\ SavedInv'
  BY <1>1, <1>2, SMTT(30) DEF Core, IdleInv, SavedInv, TypeOK, Started
<1>8. QueueInv'
  BY <1>1, <1>2, <1>4, SMTT(30) DEF Core, Kept, KeptTasks, QueueInv, TypeOK
<1>. QED
  BY <1>3, <1>4, <1>5, <1>6, <1>7, <1>8 DEF Core, Kept, KeptTasks

\* task_kill gives the victim's PID back under pid_lock.
LEMMA KillPidFreeKeeps == ASSUME Core, KillPidFree PROVE Core'
<1>1. /\ cpu.at = "kill_pid_free" /\ cpu.arg \in Task \ {Idle} /\ state[cpu.arg] = "ZOMBIE"
  BY DEF KillPidFree, At, Core, KillInv, KillPlaces, ZombieKill, Listed
<1>. QED
  BY <1>1, PidFreeKeeps DEF KillPidFree

\* Unlinking a listed task leaves listed tasks in the list.
LEMMA KillUnlinkKeeps == ASSUME Core, KillUnlink PROVE Core'
<1>1. /\ cpu.at = "kill_unlink" /\ cpu.task \in Task /\ cpu.arg \in Task
      /\ cpu' = [cpu EXCEPT !.at = "kill_end"]
      /\ UNCHANGED <<state, pid, bitmap, pid_lock, nodes, current, ctx, masked>>
      /\ nxt' = IF prv[cpu.arg] # NULL THEN [nxt EXCEPT ![prv[cpu.arg]] = nxt[cpu.arg]] ELSE nxt
      /\ prv' = IF nxt'[cpu.arg] # NULL THEN [prv EXCEPT ![nxt'[cpu.arg]] = prv[cpu.arg]]
                ELSE prv
      /\ head' = IF cpu.arg = head THEN nxt'[cpu.arg] ELSE head
  BY CpuListed
     DEF KillUnlink, At, Goto, Stay, Core, KillInv, KillPlaces, ZombieKill, Listed
<1>2. /\ cpu' \in Flow /\ cpu'.at = "kill_end" /\ cpu'.task = cpu.task
      /\ cpu'.arg = cpu.arg
  BY <1>1, FlowGoto DEF Core, TypeOK, Location, Switching, KillPlaces
<1>3. /\ nxt' \in [Task -> Task \cup {NULL}] /\ prv' \in [Task -> Task \cup {NULL}]
      /\ head' \in Listed \cup {NULL} /\ \A t \in Task : nxt'[t] \in Listed \cup {NULL}
  <2>1. /\ nxt \in [Task -> Task \cup {NULL}] /\ prv \in [Task -> Task \cup {NULL}]
        /\ head \in Listed \cup {NULL} /\ \A t \in Task : nxt[t] \in Listed \cup {NULL}
    BY DEF Core, TypeOK, ListInv
  <2>2. nxt' \in [Task -> Task \cup {NULL}] /\ \A t \in Task : nxt'[t] \in Listed \cup {NULL}
    BY <1>1, <2>1
  <2>. QED
    BY <1>1, <2>1, <2>2
<1>4. TypeOK'
  BY <1>1, <1>2, <1>3 DEF Core, TypeOK, Listed
<1>5. KeptTasks
  BY <1>1, <1>2, <1>3, QuietTasks DEF CreatePlaces
<1>6. LockInv'
  <2>1. \A u \in Task : FlowOf(u)' = IF u = cpu.task THEN cpu' ELSE FlowOf(u)
    BY <1>1, <1>2 DEF FlowOf
  <2>. QED
    BY <1>1, <1>2, <2>1 DEF Core, LockInv, UnlockPlaces
<1>7. PidInv'
  <2>1. Holders' \subseteq Holders
    BY <1>1, <1>2 DEF Holders
  <2>2. ASSUME NEW u \in Task, FlowOf(u).at = "create_undo_unlock"
        PROVE  FlowOf(u)' = FlowOf(u)
    BY <1>1, <1>2, <2>2 DEF FlowOf
  <2>. QED
    BY <1>1, <2>1, <2>2, SMTT(30) DEF Core, PidInv
<1>8. CpuInv' /\ NextInv' /\ KillInv'
  BY <1>1, <1>2, <1>5
     DEF Core, KeptTasks, CpuInv, NextInv, KillInv, CpuRuns, CreatePlaces, ExitPlaces,
         Switching, KillPlaces, ZombieKill
<1>9. IdleInv' /\ SavedInv' /\ QueueInv'
  BY <1>1, <1>2, <1>5 DEF Core, KeptTasks, IdleInv, SavedInv, QueueInv
<1>. QED
  BY <1>4, <1>5, <1>6, <1>7, <1>8, <1>9 DEF Core, KeptTasks

\* A task that killed itself schedules with no current task; another returns.
LEMMA KillEndKeeps == ASSUME Core, KillEnd PROVE Core'
<1>1. /\ cpu.at = "kill_end" /\ cpu.task \in Task /\ current = cpu.task
      /\ cpu.arg = cpu.task \/ state[cpu.task] = "RUNNING"
      /\ state[cpu.arg] = "ZOMBIE"
      /\ UNCHANGED <<state, pid, bitmap, pid_lock, head, nxt, prv, nodes>>
  BY CpuListed DEF KillEnd, At, Core, KillInv, KillPlaces, ZombieKill
<1>2. CASE cpu.arg = current
  BY <1>1, <1>2, ClearKeeps DEF KillEnd, Goto, Stay
<1>3. CASE cpu.arg # current
  <2>1. Return /\ UNCHANGED <<current, ctx>> /\ CpuRuns
    BY <1>1, <1>3 DEF KillEnd, CpuRuns
  <2>2. nodes[cpu.task] = 0
    BY <1>1, <2>1, RunningNotQueued DEF CpuRuns
  <2>. QED
    BY <1>1, <2>1, <2>2, ReturnMasks, ReturnKeeps
     DEF Return, CreatePlaces, Core, TypeOK
<1>. QED
  BY <1>2, <1>3
=============================================================================
