--------------------------- MODULE SchedIrqProofs ---------------------------
(***************************************************************************)
(* Theorems about SchedIrq for any number of tasks, PIDs and nodes: the    *)
(* safety invariants, which hold until the timer interrupt first cuts into *)
(* schedule() after prev became READY, or into task_kill.                  *)
(***************************************************************************)
EXTENDS SchedIrqSteps, Sequences

USE ZenonT(30)

-----------------------------------------------------------------------------
(* The timer interrupt. *)

\* It finds the flow of the current task, either RUNNING or past the point in
\* task_exit where it became a ZOMBIE.
LEMMA Interrupted ==
  ASSUME Core, cpu.at \notin Switching \cup KillPlaces, current # NULL
  PROVE  /\ current = cpu.task
         /\ \/ cpu.at \in SavedPlaces /\ state[cpu.task] = "RUNNING"
            \/ cpu.at \in ExitPlaces /\ state[cpu.task] = "ZOMBIE" /\ cpu.task # Idle
<1>1. cpu.at \in SavedPlaces \cup ExitPlaces
  BY DEF Core, TypeOK, Flow, Location, SavedPlaces, ExitPlaces
<1>2. CASE cpu.at \in SavedPlaces
  BY <1>2 DEF SavedPlaces, Core, CpuInv, CpuRuns, CpuGone
<1>3. CASE cpu.at \in ExitPlaces
  <2>1. state[Idle] # "ZOMBIE"
    BY DEF Core, IdleInv
  <2>. QED
    BY <1>3, <2>1 DEF Core, CpuInv
<1>. QED
  BY <1>1, <1>2, <1>3

\* The interrupted flow is left for next.
LEMMA PreemptToKeeps ==
  ASSUME Core, NEW next \in Listed, next # cpu.task, ctx[next] # Stale,
         state[next] = "READY",
         NEW n \in [Task -> {0, 1}], \A t \in Task \ {cpu.task} : n[t] = nodes[t],
         NEW st \in [Task -> {"NONE", "NEW"} \cup Started],
         \A t \in Task \ {cpu.task} : st[t] = state[t],
         NEW d \in [Task -> Flow \cup {Stale}],
         \A t \in Task \ {cpu.task} : d[t] = ctx[t],
         \/ /\ cpu.at \in SavedPlaces /\ state[cpu.task] = "RUNNING"
            /\ d[cpu.task] = cpu /\ st[cpu.task] = "READY"
            /\ n[cpu.task] = 1 <=> cpu.task # Idle
         \/ /\ cpu.at \in ExitPlaces /\ state[cpu.task] = "ZOMBIE" /\ cpu.task # Idle
            /\ d[cpu.task] = Stale /\ st[cpu.task] = "ZOMBIE" /\ n[cpu.task] = 0,
         PreemptTo(next, n, st, d),
         UNCHANGED <<pid, bitmap, pid_lock, head, nxt, prv, masked>>
  PROVE  Core' /\ ~wild' /\ panicked' = panicked
<1> DEFINE n1 == IF pid[next] # 0 THEN Dequeue(n, next) ELSE n
<1>1. next \in Task /\ cpu.task \in Task
  BY CpuListed DEF Listed
<1>2. pid[next] = 0 <=> next = Idle
  BY <1>1 DEF Core, IdleInv, Started
<1>3. /\ n1 \in [Task -> {0, 1}] /\ n1[next] = 0
      /\ \A t \in Task \ {next} : n1[t] = n[t]
  <2>1. /\ Dequeue(n, next) \in [Task -> {0, 1}] /\ Dequeue(n, next)[next] = 0
        /\ \A t \in Task \ {next} : Dequeue(n, next)[t] = n[t]
    BY <1>1, DequeueOne
  <2>2. pid[next] = 0 => n[next] = 0
    BY <1>1, <1>2 DEF Core, IdleInv
  <2>. QED
    BY <2>1, <2>2
<1> HIDE DEF n1
<1>4. /\ nodes' = n1 /\ state' = [st EXCEPT ![next] = "RUNNING"]
      /\ current' = next /\ cpu' = d[next] /\ ctx' = [d EXCEPT ![next] = Stale]
      /\ wild' = (d[next] = Stale \/ d[next].task # next) /\ panicked' = panicked
  <2>1. ~(n1[next] > 0)
    BY <1>3, SMTT(30)
  <2>. QED
    BY <2>1 DEF PreemptTo, Restore, n1
<1>5. ~wild' /\ cpu' = ctx[next]
  BY <1>1, <1>4 DEF Core, SavedInv
<1>6. /\ ctx' \in [Task -> Flow \cup {Stale}] /\ ctx'[next] = Stale
      /\ \A u \in Task \ {next, cpu.task} : ctx'[u] = ctx[u]
      /\ ctx'[cpu.task] = d[cpu.task]
  BY <1>1, <1>4
<1>7. cpu.at \notin {"set_current", "switch", "stay_dequeue", "enqueue", "kill_zombie", "run"}
  BY DEF SavedPlaces, ExitPlaces, CreatePlaces
<1>8. /\ state' \in [Task -> {"NONE", "NEW"} \cup Started]
      /\ state'[next] = "RUNNING" /\ state'[cpu.task] = st[cpu.task]
      /\ \A t \in Task \ {next, cpu.task} : state'[t] = state[t] /\ state[t] # "RUNNING"
  <2>1. \A t \in Task \ {cpu.task} : state[t] # "RUNNING"
    BY <1>7 DEF Core, NextInv
  <2>. QED
    BY <1>1, <1>4, <2>1 DEF Started
<1>9. /\ nodes' \in [Task -> {0, 1}] /\ nodes'[next] = 0 /\ nodes'[cpu.task] = n[cpu.task]
      /\ \A t \in Task \ {next, cpu.task} : nodes'[t] = nodes[t]
  BY <1>1, <1>3, <1>4
<1>10. cpu.at \in ExitPlaces => cpu.at \notin CreatePlaces
  BY DEF ExitPlaces, CreatePlaces
<1>11. Core'
  <2>1. \/ ctx'[cpu.task] = cpu /\ cpu.at \in SavedPlaces
        \/ /\ ctx'[cpu.task] = Stale /\ cpu.at \notin CreatePlaces
           /\ nodes'[cpu.task] = 0 /\ cpu.task # Idle
    BY <1>6, <1>9, <1>10
  <2>2. /\ state[cpu.task] = "ZOMBIE" => state'[cpu.task] = "ZOMBIE"
        /\ state'[cpu.task] \in {"READY", "ZOMBIE"}
        /\ cpu.task = Idle => state'[Idle] = "READY"
    BY <1>8
  <2>3. /\ nodes'[cpu.task] = 1 => state'[cpu.task] = "READY" /\ cpu.task # Idle
        /\ nodes'[cpu.task] = 1 \/ state'[cpu.task] = "ZOMBIE" \/ cpu.task = Idle
    BY <1>8, <1>9, SMTT(30)
  <2>4. cpu.at \notin {"stay_dequeue", "enqueue", "kill_zombie", "run"}
    BY <1>7
  <2>. QED
    BY <1>4, <1>5, <1>6, <1>8, <1>9, <2>1, <2>2, <2>3, <2>4, Handover
<1>. QED
  BY <1>4, <1>5, <1>11

\* A queued task can be switched to.
LEMMA QueuedIsListed ==
  ASSUME Core, NEW t \in Task, nodes[t] = 1, t # cpu.task
  PROVE  t \in Listed /\ state[t] = "READY" /\ ctx[t] # Stale /\ t # Idle
<1>1. state[t] = "READY" /\ ctx[t] # Stale /\ t # Idle
  BY SMTT(30) DEF Core, QueueInv, SavedInv, IdleInv
<1>2. \A u \in Task : ~Makes(u, t)
  BY MadeIs, SMTT(30)
<1>. QED
  BY <1>1, <1>2 DEF Listed, Started

\* Saving the flow of a task that was live leaves LivePidsReserved true.
LEMMA SaveKeepsPids ==
  ASSUME LivePidsReserved, ~torn, UNCHANGED <<pid, bitmap, cpu>>,
         \A t \in Task : state'[t] \in {"READY", "RUNNING"} => state[t] \in {"READY", "RUNNING"},
         \A t \in Task : ctx'[t] = ctx[t] \/ ctx[t] = Stale
  PROVE  LivePidsReserved'
<1>1. Unborn \subseteq Unborn'
  <2> SUFFICES ASSUME NEW t \in Unborn PROVE t \in Unborn'
    OBVIOUS
  <2> DEFINE places == {"create_stack", "create_enqueue", "create_undo", "create_undo_unlock"}
  <2>1. PICK f \in {cpu} \cup {ctx[u] : u \in Task} : f.arg = t /\ f.at \in places
    BY DEF Unborn, BeingCreated
  <2>2. f # Stale
    BY <2>1, StaleIsNoFlow
  <2>3. f \in {cpu'} \cup {ctx'[u] : u \in Task}
    BY <2>2
  <2>4. t \in Task
    BY DEF Unborn, BeingCreated
  <2>. QED
    BY <2>1, <2>3, <2>4 DEF Unborn, BeingCreated
<1>. QED
  BY <1>1 DEF LivePidsReserved

\* The interrupt of a RUNNING task.
LEMMA RunningInterrupted ==
  ASSUME Core, TimerIrq, ~torn, ~wild, panicked = FALSE, current = cpu.task,
         cpu.at \in SavedPlaces, state[cpu.task] = "RUNNING"
  PROVE  /\ ~wild' /\ panicked' \in BOOLEAN
         /\ panicked' => OwnContext' /\ LivePidsReserved'
         /\ ~panicked' => Core'
<1> DEFINE d  == [ctx EXCEPT ![cpu.task] = cpu]
           st == [state EXCEPT ![cpu.task] = "READY"]
           n  == IF pid[cpu.task] # 0 THEN Enqueue(nodes, st, cpu.task) ELSE nodes
           picks == IF Queued(n) # {} THEN Queued(n) ELSE {cpu.task}
<1>1. cpu.task \in Task /\ cpu \in Flow /\ nodes[cpu.task] = 0 /\ ctx[cpu.task] = Stale
  BY CpuListed, RunningNotQueued
     DEF Core, TypeOK, SavedInv, SavedPlaces, CreatePlaces
<1>2. pid[cpu.task] = 0 <=> cpu.task = Idle
  BY <1>1 DEF Core, IdleInv, Started
<1>3. /\ d \in [Task -> Flow \cup {Stale}] /\ d[cpu.task] = cpu
      /\ \A t \in Task \ {cpu.task} : d[t] = ctx[t]
  BY <1>1 DEF Core, TypeOK
<1>4. /\ st \in [Task -> {"NONE", "NEW"} \cup Started] /\ st[cpu.task] = "READY"
      /\ \A t \in Task \ {cpu.task} : st[t] = state[t]
  BY <1>1 DEF Core, TypeOK, Started
<1> HIDE DEF st
<1>5. /\ n \in [Task -> {0, 1}] /\ \A t \in Task \ {cpu.task} : n[t] = nodes[t]
      /\ cpu.task = Idle => n[cpu.task] = 0
  BY <1>1, <1>2, <1>4, EnqueueOne, SMTT(30) DEF Core, TypeOK, IdleInv
<1> HIDE DEF n, d
<1>6. /\ IF (pid[cpu.task] # 0 /\ n[cpu.task] = 0) \/ picks = {}
         THEN /\ panicked' = TRUE /\ state' = st /\ nodes' = n /\ ctx' = d
              /\ UNCHANGED <<current, cpu, wild>>
         ELSE \E next \in picks : IF next = cpu.task THEN PreemptStay(cpu.task, n, st, d)
                                  ELSE PreemptTo(next, n, st, d)
      /\ UNCHANGED <<pid, bitmap, pid_lock, head, nxt, prv, masked>>
  BY <1>1, <1>4 DEF TimerIrq, n, d, st
<1>7. picks # {}
  OBVIOUS
<1>8. CASE pid[cpu.task] # 0 /\ n[cpu.task] = 0
  <2>1. /\ panicked' = TRUE /\ state' = st /\ ctx' = d
        /\ UNCHANGED <<cpu, wild, pid, bitmap>>
    BY <1>6, <1>8
  <2>2. OwnContext'
    BY <1>1, <1>3, <2>1, CoreIsSafe, SMTT(30) DEF OwnContext
  <2>3. LivePidsReserved'
    BY <1>1, <1>3, <1>4, <2>1, CoreIsSafe, SaveKeepsPids
  <2>. QED
    BY <2>1, <2>2, <2>3
<1>9. CASE pid[cpu.task] = 0 \/ n[cpu.task] # 0
  <2>1. PICK next \in picks : IF next = cpu.task THEN PreemptStay(cpu.task, n, st, d)
                              ELSE PreemptTo(next, n, st, d)
    BY <1>6, <1>7, <1>9
  <2>2. n[cpu.task] = 1 <=> cpu.task # Idle
    <3>1. n[cpu.task] \in {0, 1}
      BY <1>1, <1>5
    <3>. QED
      BY <1>2, <1>5, <1>9, <3>1, SMTT(30)
  <2>3. CASE next = cpu.task
    <3> DEFINE n1 == Dequeue(n, cpu.task)
    <3>1. n1 \in [Task -> {0, 1}] /\ n1[cpu.task] = 0
          /\ \A t \in Task \ {cpu.task} : n1[t] = n[t]
      BY <1>1, <1>5, DequeueOne
    <3>2. n1 = nodes
      BY <1>1, <1>5, <3>1, SMTT(30) DEF Core, TypeOK
    <3>3. d # ctx /\ [d EXCEPT ![cpu.task] = Stale] = ctx
      BY <1>1, StaleIsNoFlow DEF Core, TypeOK, d
    <3>4. [st EXCEPT ![cpu.task] = "RUNNING"] = state
      BY <1>1 DEF Core, TypeOK, st
    <3> HIDE DEF n1
    <3>5. /\ nodes' = n1 /\ state' = [st EXCEPT ![cpu.task] = "RUNNING"] /\ panicked' = FALSE
          /\ ctx' = [d EXCEPT ![cpu.task] = Stale] /\ UNCHANGED <<current, cpu, wild>>
      <4>1. PreemptStay(cpu.task, n, st, d)
        BY <2>1, <2>3
      <4>2. ~(n1[cpu.task] > 0) /\ n1[cpu.task] = 0
        BY <3>1, SMTT(30)
      <4>. QED
        BY <1>4, <3>3, <4>1, <4>2 DEF PreemptStay, n1
    <3>6. UNCHANGED <<sched, ctx, cpu, masked>>
      BY <1>6, <3>2, <3>3, <3>4, <3>5 DEF sched
    <3>. QED
      BY <3>5, <3>6, Unmoved
  <2>4. CASE next # cpu.task
    <3>1. next \in Task /\ nodes[next] = 1
      BY <1>5, <2>4, SMTT(30) DEF Queued
    <3>2. next \in Listed /\ state[next] = "READY" /\ ctx[next] # Stale
      BY <2>4, <3>1, QueuedIsListed
    <3>3. PreemptTo(next, n, st, d)
      BY <2>1, <2>4
    <3>4. Core' /\ ~wild' /\ panicked' = panicked
      BY <1>3, <1>4, <1>5, <1>6, <2>2, <2>4, <3>2, <3>3, PreemptToKeeps
    <3>. QED
      BY <3>4
  <2>. QED
    BY <2>3, <2>4
<1>. QED
  BY <1>8, <1>9

\* The interrupt of a task that is exiting: its flow is abandoned.
LEMMA ZombieInterrupted ==
  ASSUME Core, TimerIrq, ~torn, ~wild, panicked = FALSE, current = cpu.task,
         cpu.at \in ExitPlaces, state[cpu.task] = "ZOMBIE", cpu.task # Idle
  PROVE  /\ ~wild' /\ panicked' \in BOOLEAN
         /\ panicked' => OwnContext' /\ LivePidsReserved'
         /\ ~panicked' => Core'
<1> DEFINE picks == IF Queued(nodes) # {} THEN Queued(nodes) ELSE FindByPid(0)
<1>1. cpu.task \in Task /\ nodes[cpu.task] = 0 /\ ctx[cpu.task] = Stale
  BY CpuListed, RunningNotQueued DEF Core, SavedInv, ExitPlaces
<1>2. /\ IF picks = {}
         THEN /\ panicked' = TRUE /\ state' = state /\ nodes' = nodes /\ ctx' = ctx
              /\ UNCHANGED <<current, cpu, wild>>
         ELSE \E next \in picks : IF next = cpu.task THEN PreemptStay(cpu.task, nodes, state, ctx)
                                  ELSE PreemptTo(next, nodes, state, ctx)
      /\ UNCHANGED <<pid, bitmap, pid_lock, head, nxt, prv, masked>>
  <2>1. state[current] # "RUNNING" /\ state[current] # "READY" /\ ~(nodes[current] > 0)
    BY <1>1, SMTT(30)
  <2>2. UNCHANGED <<pid, bitmap, pid_lock, head, nxt, prv, masked>>
    BY DEF TimerIrq
  <2>3. IF picks = {}
        THEN /\ panicked' = TRUE /\ state' = state /\ nodes' = nodes /\ ctx' = ctx
             /\ UNCHANGED <<current, cpu, wild>>
        ELSE \E next \in picks : IF next = current THEN PreemptStay(current, nodes, state, ctx)
                                 ELSE PreemptTo(next, nodes, state, ctx)
    BY <2>1 DEF TimerIrq
  <2>. QED
    BY <2>2, <2>3
<1>3. ASSUME NEW next \in picks
      PROVE  next \in Listed /\ next # cpu.task /\ state[next] = "READY" /\ ctx[next] # Stale
  <2>1. CASE next \in Queued(nodes)
    <3>1. next \in Task /\ nodes[next] = 1
      BY <2>1, SMTT(30) DEF Queued, Core, TypeOK
    <3>2. next # cpu.task
      BY <1>1, <3>1, SMTT(30)
    <3> HIDE DEF picks
    <3>. QED
      BY <3>1, <3>2, QueuedIsListed
  <2>2. CASE next \in FindByPid(0)
    <3>1. next = Idle /\ next \in Listed
      BY <2>2, FindListed
    <3>2. state[Idle] = "READY" /\ ctx[Idle] # Stale
      BY SchedIrqConstants DEF Core, IdleInv, NextInv, SavedInv, ExitPlaces
    <3>. QED
      BY <3>1, <3>2
  <2>. QED
    BY <2>1, <2>2
<1>4. CASE picks = {}
  <2>1. /\ panicked' = TRUE /\ ~wild' /\ UNCHANGED <<state, ctx, cpu, pid, bitmap>>
    BY <1>2, <1>4
  <2>2. OwnContext'
    BY <2>1, CoreIsSafe DEF OwnContext
  <2>3. LivePidsReserved'
    BY <2>1, CoreIsSafe, SaveKeepsPids
  <2>. QED
    BY <2>1, <2>2, <2>3
<1>5. CASE picks # {}
  <2>1. PICK next \in picks : PreemptTo(next, nodes, state, ctx)
    BY <1>2, <1>3, <1>5
  <2>2. next \in Listed /\ next # cpu.task /\ state[next] = "READY" /\ ctx[next] # Stale
    BY <1>3
  <2>3. Core' /\ ~wild' /\ panicked' = panicked
    BY <1>1, <1>2, <2>1, <2>2, PreemptToKeeps DEF Core, TypeOK
  <2>. QED
    BY <2>3
<1>. QED
  BY <1>4, <1>5

\* The timer interrupt, where it does not cut into a switch or into task_kill.
LEMMA TimerIrqKeeps ==
  ASSUME Core, TimerIrq, ~torn', ~wild, panicked = FALSE
  PROVE  /\ ~wild' /\ panicked' \in BOOLEAN
         /\ panicked' => OwnContext' /\ LivePidsReserved'
         /\ ~panicked' => Core'
<1>1. ~torn /\ cpu.at \notin Switching \cup KillPlaces /\ current # NULL
  BY DEF TimerIrq
<1>. QED
  BY <1>1, Interrupted, RunningInterrupted, ZombieInterrupted

-----------------------------------------------------------------------------
(* task_create *)

\* Without a free PID the object is given up.
LEMMA CreatePidFails ==
  ASSUME Core, cpu.at = "create_pid", state' = [state EXCEPT ![cpu.arg] = "NONE"], Return,
         UNCHANGED <<pid, bitmap, pid_lock, head, nxt, prv, nodes, current, ctx>>
  PROVE  Core'
<1>1. PICK c \in Task : c = cpu.task
  BY CpuListed
<1>2. PICK a \in Task \ {Idle} : a = cpu.arg
  BY Making DEF CreatePlaces
<1>3. a # c /\ nodes[a] = 0 /\ ctx[a] = Stale /\ pid[a] = 0 /\ state[a] = "NEW"
  BY <1>1, <1>2, Making DEF MakerInv, Early, CreatePlaces
<1>4. cpu' \in Flow /\ cpu'.task = c /\ cpu'.at = "body" /\ masked' \in BOOLEAN
  BY <1>1, FlowBody, ReturnMasks DEF Return
<1>5. TypeOK'
  BY <1>2, <1>4 DEF Core, TypeOK
<1>6. /\ CpuInv' /\ NextInv' /\ KillInv' /\ CreateInv'
      /\ \A u \in Task \ {c} :
           \/ FlowOf(u)' = FlowOf(u)
           \/ FlowOf(u)'.at = "body" /\ FlowOf(u).at = "stale"
      /\ \A u \in Task \ {c}, t \in Task : Makes(u, t)' <=> Makes(u, t)
      /\ FlowOf(c) = cpu /\ FlowOf(c)' = cpu'
  BY <1>1, <1>2, <1>3, <1>4, MakingKeeps DEF Core, TypeOK, CreatePlaces
<1>7. /\ \A t \in Task : ~Makes(c, t)'
      /\ \A t \in Task : Makes(c, t) <=> t = a
  BY <1>2, <1>4, <1>6 DEF Makes, Early, CreatePlaces
<1>8. Listed \subseteq Listed'
  BY <1>2, <1>3, <1>6, <1>7 DEF Listed, Started, Core, TypeOK
<1>9. LockInv' /\ ListInv'
  BY <1>4, <1>6, <1>8 DEF Core, LockInv, ListInv, UnlockPlaces
<1>10. PidInv'
  <2>1. Holders' \subseteq Holders
    BY <1>2, <1>3, <1>4 DEF Holders, Core, TypeOK
  <2>2. \A u \in Task : FlowOf(u).at = "create_undo_unlock" => FlowOf(u)' = FlowOf(u)
    BY <1>6
  <2>. QED
    BY <2>1, <2>2, SMTT(30) DEF Core, PidInv
<1>11. IdleInv' /\ SavedInv'
  BY <1>1, <1>2, <1>3, <1>4, SMTT(30) DEF Core, IdleInv, SavedInv, TypeOK, Started
<1>12. QueueInv'
  <2>1. \A t \in Task : nodes'[t] = 1 => state'[t] = "READY"
    BY <1>1, <1>2, <1>3 DEF Core, QueueInv, TypeOK
  <2>2. \A t \in Task \ {a} : state'[t] = state[t] /\ nodes'[t] = nodes[t]
                           /\ \A u \in Task : Makes(u, t) => Makes(u, t)'
    BY <1>2, <1>6, <1>7 DEF Core, TypeOK, Makes
  <2>3. state'[a] # "READY"
    BY <1>2 DEF Core, TypeOK
  <2>4. NodeForAll => \A t \in Task \ {Idle} :
          nodes[t] = 1 \/ state[t] # "READY" \/ \E u \in Task : Makes(u, t)
    BY DEF Core, QueueInv
  <2>. QED
    BY <1>4, <2>1, <2>2, <2>3, <2>4 DEF QueueInv
<1>. QED
  BY <1>5, <1>6, <1>9, <1>10, <1>11, <1>12 DEF Core

\* The PID taken is no live task's: theirs are in the bitmap, and whoever is
\* between clearing a bit and forgetting the PID holds pid_lock.
LEMMA CreatePidTakes ==
  ASSUME Core, cpu.at = "create_pid", NEW p \in FreePids, Lock,
         pid' = [pid EXCEPT ![cpu.arg] = p], bitmap' = bitmap \cup {p}, Goto("create_unlock"),
         UNCHANGED <<state, masked, head, nxt, prv, nodes, current, ctx>>
  PROVE  Core'
<1>1. PICK c \in Task : c = cpu.task
  BY CpuListed
<1>2. PICK a \in Task \ {Idle} : a = cpu.arg
  BY Making DEF CreatePlaces
<1>3. a # c /\ nodes[a] = 0 /\ ctx[a] = Stale /\ pid[a] = 0 /\ state[a] = "NEW"
  BY <1>1, <1>2, Making DEF MakerInv, Early, CreatePlaces
<1>4. cpu' \in Flow /\ cpu'.task = c /\ cpu'.at = "create_unlock" /\ cpu'.arg = a
  <2>1. "create_unlock" \in Location /\ cpu \in Flow
    BY DEF Location, CreatePlaces, Core, TypeOK
  <2>. QED
    BY <1>1, <1>2, <2>1, FlowGoto DEF Goto
<1>5. p \in Nat /\ p # 0 /\ p \notin bitmap
  BY SMTT(30) DEF FreePids
<1>6. TypeOK'
  BY <1>1, <1>2, <1>4, <1>5 DEF Core, TypeOK, Lock
<1>7. pid'[a] = p /\ \A t \in Task \ {a} : pid'[t] = pid[t]
  BY <1>2 DEF Core, TypeOK
<1>8. MakerInv(cpu)'
  BY <1>1, <1>2, <1>3, <1>4, <1>5, <1>7 DEF MakerInv, Early, CreatePlaces
<1>9. /\ CpuInv' /\ NextInv' /\ KillInv' /\ CreateInv'
      /\ \A u \in Task \ {c} :
           \/ FlowOf(u)' = FlowOf(u)
           \/ FlowOf(u)'.at = "body" /\ FlowOf(u).at = "stale"
      /\ \A u \in Task \ {c}, t \in Task : Makes(u, t)' <=> Makes(u, t)
      /\ FlowOf(c) = cpu /\ FlowOf(c)' = cpu'
  BY <1>1, <1>2, <1>3, <1>4, <1>7, <1>8, MakingKeeps DEF Core, TypeOK, CreatePlaces
<1>10. \A t \in Task : Makes(c, t)' <=> Makes(c, t)
  BY <1>2, <1>4, <1>9 DEF Makes, Early, CreatePlaces
<1>11. Listed \subseteq Listed'
  BY <1>9, <1>10 DEF Listed
<1>12. \A u \in Task : FlowOf(u).at \notin UnlockPlaces
  BY SchedIrqConstants DEF Core, LockInv, Lock
<1>13. LockInv' /\ ListInv'
  BY <1>1, <1>4, <1>9, <1>11, <1>12 DEF Core, LockInv, ListInv, UnlockPlaces, Lock
<1>14. PidInv'
  <2>1. Holders' \subseteq Holders \cup {a}
    BY <1>2, <1>3, <1>4, <1>7 DEF Holders
  <2>2. \A t \in Holders : pid[t] \in bitmap /\ t # a
    BY <1>3, <1>12 DEF Core, PidInv, UnlockPlaces, Holders
  <2>3. \A t \in Holders : pid'[t] = pid[t] /\ pid'[t] # p
    BY <2>2, <1>5, <1>7 DEF Holders
  <2>4. \A t, u \in Holders : t # u => pid[t] # pid[u]
    BY DEF Core, PidInv
  <2>. QED
    BY <1>7, <2>1, <2>2, <2>3, <2>4, SMTT(30) DEF PidInv
<1>15. IdleInv' /\ SavedInv'
  BY <1>1, <1>2, <1>3, <1>4, <1>5, <1>7, SMTT(30) DEF Core, IdleInv, SavedInv, Started
<1>16. QueueInv'
  BY <1>1, <1>2, <1>3, <1>4, <1>9, <1>10 DEF Core, QueueInv
<1>. QED
  BY <1>6, <1>9, <1>13, <1>14, <1>15, <1>16 DEF Core

\* pid_alloc up to the unlock.
LEMMA CreatePidKeeps ==
  ASSUME Core, CreatePid
  PROVE  Core'
<1>1. /\ cpu.at = "create_pid"
      /\ UNCHANGED <<head, nxt, prv, nodes, current, ctx>>
  BY DEF CreatePid, At
<1>2. CASE /\ state' = [state EXCEPT ![cpu.arg] = "NONE"] /\ Return
           /\ UNCHANGED <<pid, bitmap, pid_lock>>
  BY <1>1, <1>2, CreatePidFails
<1>3. CASE \E p \in FreePids :
             /\ Lock
             /\ pid' = [pid EXCEPT ![cpu.arg] = p] /\ bitmap' = bitmap \cup {p}
             /\ Goto("create_unlock") /\ UNCHANGED <<state, masked>>
  BY <1>1, <1>3, CreatePidTakes
<1>. QED
  BY <1>2, <1>3 DEF CreatePid

\* pid_alloc releases the lock it holds.
LEMMA CreateUnlockKeeps == ASSUME Core, CreateUnlock PROVE Core'
<1>0. /\ cpu.at = "create_unlock" /\ pid_lock' = NULL /\ Goto("create_stack")
      /\ UNCHANGED <<state, pid, bitmap, head, nxt, prv, nodes, current, ctx, masked>>
  BY DEF CreateUnlock, PidUnlock, At, Unlock, Stay
<1>1. PICK c \in Task : c = cpu.task
  BY CpuListed
<1>2. PICK a \in Task \ {Idle} : a = cpu.arg
  BY <1>0, Making DEF CreatePlaces
<1>3. a # c /\ nodes[a] = 0 /\ ctx[a] = Stale /\ pid[a] # 0 /\ state[a] = "NEW"
  BY <1>0, <1>1, <1>2, Making DEF MakerInv, Early, CreatePlaces
<1>4. cpu' \in Flow /\ cpu'.task = c /\ cpu'.at = "create_stack" /\ cpu'.arg = a
  <2>1. "create_stack" \in Location /\ cpu \in Flow
    BY DEF Location, CreatePlaces, Core, TypeOK
  <2>. QED
    BY <1>0, <1>1, <1>2, <2>1, FlowGoto DEF Goto
<1>5. TypeOK'
  BY <1>0, <1>4 DEF Core, TypeOK
<1>6. MakerInv(cpu)'
  BY <1>0, <1>1, <1>2, <1>3, <1>4 DEF MakerInv, Early, CreatePlaces
<1>7. /\ CpuInv' /\ NextInv' /\ KillInv' /\ CreateInv'
      /\ \A u \in Task \ {c} :
           \/ FlowOf(u)' = FlowOf(u)
           \/ FlowOf(u)'.at = "body" /\ FlowOf(u).at = "stale"
      /\ \A u \in Task \ {c}, t \in Task : Makes(u, t)' <=> Makes(u, t)
      /\ FlowOf(c) = cpu /\ FlowOf(c)' = cpu'
  BY <1>0, <1>1, <1>2, <1>3, <1>4, <1>6, MakingKeeps DEF Core, TypeOK, CreatePlaces
<1>8. \A t \in Task : Makes(c, t)' <=> Makes(c, t)
  BY <1>0, <1>2, <1>4, <1>7 DEF Makes, Early, CreatePlaces
<1>9. Listed \subseteq Listed'
  BY <1>0, <1>7, <1>8 DEF Listed
<1>10. LockInv' /\ ListInv'
  <2>1. pid_lock = c
    BY <1>0, <1>7 DEF Core, LockInv, UnlockPlaces
  <2>2. \A u \in Task : FlowOf(u)'.at \notin UnlockPlaces
    BY <1>4, <1>7, <2>1 DEF Core, LockInv, UnlockPlaces
  <2>. QED
    BY <1>0, <1>9, <2>2 DEF Core, LockInv, ListInv
<1>11. PidInv'
  <2>1. Holders' \subseteq Holders
    BY <1>0, <1>4 DEF Holders
  <2>2. \A u \in Task : FlowOf(u).at = "create_undo_unlock" => FlowOf(u)' = FlowOf(u)
    BY <1>0, <1>7
  <2>. QED
    BY <1>0, <2>1, <2>2, PidKept DEF Core
<1>12. IdleInv' /\ SavedInv' /\ QueueInv'
  <2>1. cpu.at \in CreatePlaces /\ cpu'.at \in CreatePlaces \cup {"body"}
    BY <1>0, <1>4 DEF CreatePlaces
  <2>2. \A u, t \in Task : Makes(u, t)' <=> Makes(u, t)
    BY <1>7, <1>8
  <2>3. IdleInv' /\ SavedInv'
    BY <1>0, <1>1, <1>4, IdleKept, SavedKept DEF Core
  <2>4. QueueInv'
    BY <1>0, <2>1, <2>2, MakingQueue DEF Core
  <2>. QED
    BY <2>3, <2>4
<1>. QED
  BY <1>5, <1>7, <1>10, <1>11, <1>12 DEF Core

\* The new task becomes READY; it has a context to resume if it got a stack.
LEMMA CreateStackKeeps == ASSUME Core, CreateStack PROVE Core'
<1>0. /\ cpu.at = "create_stack" /\ state' = [state EXCEPT ![cpu.arg] = "READY"]
      /\ UNCHANGED <<pid, bitmap, pid_lock, head, nxt, prv, nodes, current, masked>>
      /\ \/ ctx' = [ctx EXCEPT ![cpu.arg] = Body(cpu.arg)] /\ Goto("create_enqueue")
         \/ ctx' = ctx /\ Goto("create_undo")
  BY DEF CreateStack, At
<1>1. PICK c \in Task : c = cpu.task
  BY CpuListed
<1>2. PICK a \in Task \ {Idle} : a = cpu.arg
  BY <1>0, Making DEF CreatePlaces
<1>3. a # c /\ nodes[a] = 0 /\ ctx[a] = Stale /\ pid[a] # 0 /\ state[a] = "NEW"
  BY <1>0, <1>1, <1>2, Making DEF MakerInv, Early, CreatePlaces
<1>4. /\ cpu' \in Flow /\ cpu'.task = c /\ cpu'.arg = a
      /\ \/ cpu'.at = "create_enqueue" /\ ctx' = [ctx EXCEPT ![a] = Body(a)]
         \/ cpu'.at = "create_undo" /\ ctx' = ctx
  <2>1. "create_enqueue" \in Location /\ "create_undo" \in Location /\ cpu \in Flow
    BY DEF Location, CreatePlaces, Core, TypeOK
  <2>2. CASE ctx' = [ctx EXCEPT ![cpu.arg] = Body(cpu.arg)] /\ Goto("create_enqueue")
    BY <1>1, <1>2, <2>1, <2>2, FlowGoto DEF Goto
  <2>3. CASE ctx' = ctx /\ Goto("create_undo")
    BY <1>1, <1>2, <2>1, <2>3, FlowGoto DEF Goto
  <2>. QED
    BY <1>0, <2>2, <2>3
<1>5. /\ ctx' \in [Task -> Flow \cup {Stale}]
      /\ \A t \in Task \ {a} : ctx'[t] = ctx[t]
      /\ \/ cpu'.at = "create_enqueue" /\ ctx'[a] = Body(a)
         \/ cpu'.at = "create_undo" /\ ctx'[a] = Stale
  BY <1>2, <1>3, <1>4, FlowBody DEF Core, TypeOK
<1>6. /\ state' \in [Task -> {"NONE", "NEW"} \cup Started] /\ state'[a] = "READY"
      /\ \A t \in Task \ {a} : state'[t] = state[t]
  BY <1>0, <1>2 DEF Core, TypeOK, Started
<1>7. TypeOK'
  BY <1>0, <1>4, <1>5, <1>6 DEF Core, TypeOK
<1>8. MakerInv(cpu)'
  BY <1>0, <1>1, <1>2, <1>3, <1>4, <1>5, <1>6, FlowBody, SMTT(30) DEF MakerInv, Early, CreatePlaces
<1>9. /\ CpuInv' /\ NextInv' /\ KillInv' /\ CreateInv'
      /\ \A u \in Task \ {c} :
           \/ FlowOf(u)' = FlowOf(u)
           \/ FlowOf(u)'.at = "body" /\ FlowOf(u).at = "stale"
      /\ \A u \in Task \ {c}, t \in Task : Makes(u, t)' <=> Makes(u, t)
      /\ FlowOf(c) = cpu /\ FlowOf(c)' = cpu'
  BY <1>0, <1>1, <1>2, <1>3, <1>4, <1>5, <1>6, <1>8, MakingKeeps
     DEF Core, TypeOK, CreatePlaces
<1>10. /\ \A t \in Task : Makes(c, t)' <=> t = a
       /\ \A t \in Task : Makes(c, t) <=> t = a
  BY <1>0, <1>2, <1>4, <1>9 DEF Makes, Early, CreatePlaces
<1>11. Listed \subseteq Listed'
  <2>1. \A u, t \in Task : Makes(u, t)' <=> Makes(u, t)
    BY <1>9, <1>10
  <2>2. \A t \in Listed : t # a
    BY <1>2, <1>10 DEF Listed
  <2>. QED
    BY <1>6, <2>1, <2>2 DEF Listed
<1>12. LockInv' /\ ListInv'
  BY <1>0, <1>4, <1>9, <1>11 DEF Core, LockInv, ListInv, UnlockPlaces
<1>13. PidInv'
  <2>1. Holders' \subseteq Holders
    BY <1>0, <1>3, <1>4, <1>6 DEF Holders
  <2>2. \A u \in Task : FlowOf(u).at = "create_undo_unlock" => FlowOf(u)' = FlowOf(u)
    BY <1>0, <1>9
  <2>. QED
    BY <1>0, <2>1, <2>2, PidKept DEF Core
<1>14. IdleInv'
  BY <1>0, <1>2, <1>3, <1>6, SMTT(30) DEF Core, IdleInv
<1>15. SavedInv'
  <2>1. Body(a).task = a /\ Body(a).at = "body"
    BY FlowBody
  <2>2. /\ SavedInv /\ cpu'.task = cpu.task /\ cpu.task \in Task /\ a # cpu.task
        /\ \A t \in Task \ {a} :
             state'[t] = state[t] /\ ctx'[t] = ctx[t] /\ nodes'[t] = nodes[t]
        /\ nodes'[a] = 1 => ctx'[a] # Stale
        /\ ctx'[a] # Stale =>
             \/ ctx'[a] = ctx[a] /\ state'[a] = state[a]
             \/ ctx'[a].task = a /\ ctx'[a].at = "body" /\ state'[a] \in Started
    BY <1>0, <1>1, <1>3, <1>4, <1>5, <1>6, <2>1, SMTT(30) DEF Core, Started
  <2>. QED
    BY <2>2, MakingSavedOf
<1>16. QueueInv'
  <2>1. cpu.at \in CreatePlaces /\ cpu'.at \in CreatePlaces \cup {"body"}
    BY <1>0, <1>4 DEF CreatePlaces
  <2>2. \A u \in Task, t \in Task \ {a} : Makes(u, t)' <=> Makes(u, t)
    BY <1>9, <1>10
  <2>3. /\ QueueInv
        /\ \A t \in Task \ {a} : state'[t] = state[t] /\ nodes'[t] = nodes[t]
        /\ nodes'[a] = 1 => state'[a] = "READY"
        /\ NodeForAll =>
             nodes'[a] = 1 \/ state'[a] # "READY" \/ \E u \in Task : Makes(u, a)'
    BY <1>0, <1>1, <1>3, <1>6, <1>10 DEF Core
  <2>. QED
    BY <2>1, <2>2, <2>3, MakingQueueOf
<1>. QED
  BY <1>7, <1>9, <1>12, <1>13, <1>14, <1>15, <1>16 DEF Core

\* Without a stack the PID is given back under pid_lock.
LEMMA CreateUndoKeeps == ASSUME Core, CreateUndo PROVE Core'
<1>0. /\ cpu.at = "create_undo" /\ Goto("create_undo_unlock")
      /\ pid[cpu.arg] # 0 /\ pid_lock = NULL /\ pid_lock' = cpu.task
      /\ bitmap' = bitmap \ {pid[cpu.arg]}
      /\ UNCHANGED <<state, pid, head, nxt, prv, nodes, current, ctx, masked>>
  <2>1. cpu.at = "create_undo" /\ cpu.arg \in Task \ {Idle} /\ state[cpu.arg] = "READY"
    BY Making DEF CreateUndo, At, MakerInv, CreatePlaces
  <2>2. pid[cpu.arg] # 0
    BY <2>1 DEF Core, IdleInv, Started
  <2>. QED
    BY <2>1, <2>2 DEF CreateUndo, PidFree, Lock, Stay
<1>1. PICK c \in Task : c = cpu.task
  BY CpuListed
<1>2. PICK a \in Task \ {Idle} : a = cpu.arg
  BY <1>0, Making DEF CreatePlaces
<1>3. a # c /\ nodes[a] = 0 /\ ctx[a] = Stale /\ state[a] = "READY"
  BY <1>0, <1>1, <1>2, Making DEF MakerInv, Early, CreatePlaces
<1>4. cpu' \in Flow /\ cpu'.task = c /\ cpu'.at = "create_undo_unlock" /\ cpu'.arg = a
  <2>1. "create_undo_unlock" \in Location /\ cpu \in Flow
    BY DEF Location, CreatePlaces, Core, TypeOK
  <2>. QED
    BY <1>0, <1>1, <1>2, <2>1, FlowGoto DEF Goto
<1>5. TypeOK'
  BY <1>0, <1>1, <1>4 DEF Core, TypeOK
<1>6. MakerInv(cpu)'
  BY <1>0, <1>1, <1>2, <1>3, <1>4 DEF MakerInv, Early, CreatePlaces
<1>7. /\ CpuInv' /\ NextInv' /\ KillInv' /\ CreateInv'
      /\ \A u \in Task \ {c} :
           \/ FlowOf(u)' = FlowOf(u)
           \/ FlowOf(u)'.at = "body" /\ FlowOf(u).at = "stale"
      /\ \A u \in Task \ {c}, t \in Task : Makes(u, t)' <=> Makes(u, t)
      /\ FlowOf(c) = cpu /\ FlowOf(c)' = cpu'
  BY <1>0, <1>1, <1>2, <1>3, <1>4, <1>6, MakingKeeps DEF Core, TypeOK, CreatePlaces
<1>8. \A t \in Task : Makes(c, t)' <=> Makes(c, t)
  BY <1>0, <1>2, <1>4, <1>7, SMTT(30) DEF Makes, Early, CreatePlaces
<1>9. Listed \subseteq Listed'
  BY <1>0, <1>7, <1>8 DEF Listed
<1>10. LockInv' /\ ListInv'
  <2>1. \A u \in Task : FlowOf(u).at \notin UnlockPlaces
    BY <1>0, SchedIrqConstants DEF Core, LockInv
  <2>2. \A u \in Task \ {c} : FlowOf(u)'.at \notin UnlockPlaces
    BY <1>7, <2>1 DEF UnlockPlaces
  <2>. QED
    BY <1>0, <1>1, <1>9, <2>2 DEF Core, LockInv, ListInv
<1>11. PidInv'
  <2>1. Holders' \subseteq Holders
    BY <1>0, <1>4 DEF Holders
  <2>2. \A u \in Task : FlowOf(u).at = "create_undo_unlock" => FlowOf(u)' = FlowOf(u)
    BY <1>0, <1>7
  <2>3. a \in Holders
    BY <1>0, <1>2, <1>3 DEF Holders
  <2>4. \A t \in Holders \ {a} : pid[t] # pid[a]
    BY <2>3 DEF Core, PidInv
  <2>5. FlowOf(c)'.at = "create_undo_unlock" /\ FlowOf(c)'.arg = a
    BY <1>4, <1>7
  <2>. QED
    BY <1>0, <1>2, <2>1, <2>2, <2>4, <2>5, SMTT(30) DEF Core, PidInv
<1>12. IdleInv' /\ SavedInv' /\ QueueInv'
  <2>1. cpu.at \in CreatePlaces /\ cpu'.at \in CreatePlaces \cup {"body"}
    BY <1>0, <1>4 DEF CreatePlaces
  <2>2. \A u, t \in Task : Makes(u, t)' <=> Makes(u, t)
    BY <1>7, <1>8
  <2>3. IdleInv' /\ SavedInv'
    BY <1>0, <1>1, <1>4, IdleKept, SavedKept DEF Core
  <2>4. QueueInv'
    BY <1>0, <2>1, <2>2, MakingQueue DEF Core
  <2>. QED
    BY <2>3, <2>4
<1>. QED
  BY <1>5, <1>7, <1>10, <1>11, <1>12 DEF Core

\* The lock is released and the object freed, PID and all.
LEMMA CreateUndoUnlockKeeps == ASSUME Core, CreateUndoUnlock PROVE Core'
<1>0. /\ cpu.at = "create_undo_unlock" /\ Return /\ pid_lock' = NULL
      /\ state' = [state EXCEPT ![cpu.arg] = "NONE"] /\ pid' = [pid EXCEPT ![cpu.arg] = 0]
      /\ UNCHANGED <<bitmap, head, nxt, prv, nodes, current, ctx>>
  BY DEF CreateUndoUnlock, At, Unlock
<1>1. PICK c \in Task : c = cpu.task
  BY CpuListed
<1>2. PICK a \in Task \ {Idle} : a = cpu.arg
  BY <1>0, Making DEF CreatePlaces
<1>3. a # c /\ nodes[a] = 0 /\ ctx[a] = Stale /\ state[a] = "READY"
  BY <1>0, <1>1, <1>2, Making DEF MakerInv, Early, CreatePlaces
<1>4. cpu' \in Flow /\ cpu'.task = c /\ cpu'.at = "body" /\ masked' \in BOOLEAN
  BY <1>0, <1>1, FlowBody, ReturnMasks DEF Return
<1>5. /\ state'[a] = "NONE" /\ \A t \in Task \ {a} : state'[t] = state[t]
      /\ pid'[a] = 0 /\ \A t \in Task \ {a} : pid'[t] = pid[t]
  BY <1>0, <1>2 DEF Core, TypeOK
<1>6. TypeOK'
  BY <1>0, <1>2, <1>4 DEF Core, TypeOK
<1>7. /\ CpuInv' /\ NextInv' /\ KillInv' /\ CreateInv'
      /\ \A u \in Task \ {c} :
           \/ FlowOf(u)' = FlowOf(u)
           \/ FlowOf(u)'.at = "body" /\ FlowOf(u).at = "stale"
      /\ \A u \in Task \ {c}, t \in Task : Makes(u, t)' <=> Makes(u, t)
      /\ FlowOf(c) = cpu /\ FlowOf(c)' = cpu'
  <2>1. cpu.at \in CreatePlaces /\ cpu'.at \in {"body"} /\ cpu'.at \notin CreatePlaces
    BY <1>0, <1>4 DEF CreatePlaces
  <2>2. /\ current' = current /\ ctx' = ctx /\ nodes' = nodes
        /\ state'[cpu.task] = state[cpu.task] /\ state'[cpu.arg] # "RUNNING"
        /\ \A t \in Task \ {cpu.arg} : state'[t] = state[t] /\ pid'[t] = pid[t]
    BY <1>0, <1>1, <1>2, <1>3, <1>5
  <2>. QED
    BY <1>1, <1>4, <2>1, <2>2, MakingKeeps
<1>8. /\ \A t \in Task : ~Makes(c, t)'
      /\ \A t \in Task : Makes(c, t) <=> t = a
  BY <1>0, <1>2, <1>4, <1>7 DEF Makes, Early, CreatePlaces
<1>9. Listed \subseteq Listed'
  <2>1. \A u, t \in Task : Makes(u, t)' => Makes(u, t)
    BY <1>7, <1>8
  <2>2. \A t \in Listed : t # a
    BY <1>2, <1>8 DEF Listed
  <2>. QED
    BY <1>5, <2>1, <2>2 DEF Listed
<1>10. pid_lock = c
  BY <1>0, <1>7 DEF Core, LockInv, UnlockPlaces
<1>11. LockInv' /\ ListInv'
  <2>1. \A u \in Task : FlowOf(u)'.at \notin UnlockPlaces
    BY <1>4, <1>7, <1>10 DEF Core, LockInv, UnlockPlaces
  <2>. QED
    BY <1>0, <1>9, <2>1 DEF Core, LockInv, ListInv
<1>12. PidInv'
  <2>1. Holders' \subseteq Holders \ {a}
    BY <1>0, <1>4, <1>5 DEF Holders
  <2>2. \A u \in Task \ {c} : FlowOf(u).at # "create_undo_unlock"
    BY <1>10 DEF Core, LockInv, UnlockPlaces
  <2>3. \A t \in Holders \ {a} : pid[t] \in bitmap
    BY <1>2, <1>7, <2>2 DEF Core, PidInv
  <2>4. \A t \in Holders \ {a} : pid'[t] = pid[t]
    BY <1>5 DEF Holders
  <2>5. \A t \in Holders' : pid'[t] \in bitmap'
    BY <1>0, <2>1, <2>3, <2>4, SMTT(30)
  <2>6. \A t, u \in Holders' : t # u => pid'[t] # pid'[u]
    BY <2>1, <2>4 DEF Core, PidInv
  <2>. QED
    BY <2>5, <2>6 DEF PidInv
<1>13. IdleInv' /\ SavedInv'
  <2>1. IdleInv'
    BY <1>0, <1>2, <1>5, SMTT(30) DEF Core, IdleInv, Started
  <2>2. SavedInv'
    <3>1. /\ SavedInv /\ cpu'.task = cpu.task /\ cpu.task \in Task /\ a # cpu.task
          /\ \A t \in Task \ {a} :
               state'[t] = state[t] /\ ctx'[t] = ctx[t] /\ nodes'[t] = nodes[t]
          /\ nodes'[a] = 1 => ctx'[a] # Stale
          /\ ctx'[a] # Stale =>
               \/ ctx'[a] = ctx[a] /\ state'[a] = state[a]
               \/ ctx'[a].task = a /\ ctx'[a].at = "body" /\ state'[a] \in Started
      BY <1>0, <1>1, <1>3, <1>4, <1>5, SMTT(30) DEF Core
    <3>. QED
      BY <3>1, MakingSavedOf
  <2>. QED
    BY <2>1, <2>2
<1>14. QueueInv'
  <2>1. cpu.at \in CreatePlaces /\ cpu'.at \in CreatePlaces \cup {"body"}
    BY <1>0, <1>4 DEF CreatePlaces
  <2>2. \A u \in Task, t \in Task \ {a} : Makes(u, t)' <=> Makes(u, t)
    BY <1>7, <1>8
  <2>3. /\ QueueInv
        /\ \A t \in Task \ {a} : state'[t] = state[t] /\ nodes'[t] = nodes[t]
        /\ nodes'[a] = 1 => state'[a] = "READY"
        /\ NodeForAll =>
             nodes'[a] = 1 \/ state'[a] # "READY" \/ \E u \in Task : Makes(u, a)'
    BY <1>0, <1>3, <1>5, SMTT(30) DEF Core
  <2>. QED
    BY <2>1, <2>2, <2>3, MakingQueueOf
<1>. QED
  BY <1>6, <1>7, <1>11, <1>12, <1>13, <1>14 DEF Core

\* The new task is queued; from here on it can be picked.
LEMMA CreateEnqueueKeeps == ASSUME Core, CreateEnqueue PROVE Core'
<1>0. /\ cpu.at = "create_enqueue" /\ Goto("create_link")
      /\ nodes' = Enqueue(nodes, state, cpu.arg)
      /\ UNCHANGED <<state, pid, bitmap, pid_lock, head, nxt, prv, current, ctx, masked>>
  BY DEF CreateEnqueue, At, Stay
<1>1. PICK c \in Task : c = cpu.task
  BY CpuListed
<1>2. PICK a \in Task \ {Idle} : a = cpu.arg
  BY <1>0, Making DEF CreatePlaces
<1>3. a # c /\ nodes[a] = 0 /\ ctx[a] # Stale /\ state[a] = "READY"
  BY <1>0, <1>1, <1>2, Making DEF MakerInv, Early, CreatePlaces
<1>4. cpu' \in Flow /\ cpu'.task = c /\ cpu'.at = "create_link" /\ cpu'.arg = a
  <2>1. "create_link" \in Location /\ cpu \in Flow
    BY DEF Location, CreatePlaces, Core, TypeOK
  <2>. QED
    BY <1>0, <1>1, <1>2, <2>1, FlowGoto DEF Goto
<1>5. /\ nodes' \in [Task -> {0, 1}] /\ \A t \in Task \ {a} : nodes'[t] = nodes[t]
      /\ NodeForAll => nodes'[a] = 1
  BY <1>0, <1>2, <1>3, EnqueueOne, SMTT(30) DEF Core, TypeOK, IdleInv
<1>6. TypeOK'
  BY <1>0, <1>4, <1>5 DEF Core, TypeOK
<1>7. MakerInv(cpu)'
  BY <1>0, <1>2, <1>3, <1>4 DEF MakerInv, Early, Started
<1>8. /\ CpuInv' /\ NextInv' /\ KillInv' /\ CreateInv'
      /\ \A u \in Task \ {c} :
           \/ FlowOf(u)' = FlowOf(u)
           \/ FlowOf(u)'.at = "body" /\ FlowOf(u).at = "stale"
      /\ \A u \in Task \ {c}, t \in Task : Makes(u, t)' <=> Makes(u, t)
      /\ FlowOf(c) = cpu /\ FlowOf(c)' = cpu'
  BY <1>0, <1>1, <1>2, <1>3, <1>4, <1>5, <1>7, MakingKeeps DEF Core, TypeOK, CreatePlaces
<1>9. /\ \A t \in Task : ~Makes(c, t)'
      /\ \A t \in Task : Makes(c, t) <=> t = a
  BY <1>0, <1>2, <1>4, <1>8 DEF Makes, Early, CreatePlaces
<1>10. Listed \subseteq Listed'
  BY <1>0, <1>8, <1>9 DEF Listed
<1>11. LockInv' /\ ListInv'
  BY <1>0, <1>4, <1>8, <1>10 DEF Core, LockInv, ListInv, UnlockPlaces
<1>12. PidInv'
  <2>1. Holders' \subseteq Holders
    BY <1>0, <1>4 DEF Holders
  <2>2. \A u \in Task : FlowOf(u).at = "create_undo_unlock" => FlowOf(u)' = FlowOf(u)
    BY <1>0, <1>8
  <2>. QED
    BY <1>0, <2>1, <2>2, PidKept DEF Core
<1>13. IdleInv' /\ SavedInv'
  <2>1. IdleInv'
    BY <1>0, <1>2, <1>5, SchedIrqConstants DEF Core, IdleInv
  <2>2. SavedInv'
    <3>1. /\ SavedInv /\ cpu'.task = cpu.task /\ cpu.task \in Task /\ a # cpu.task
          /\ \A t \in Task \ {a} :
               state'[t] = state[t] /\ ctx'[t] = ctx[t] /\ nodes'[t] = nodes[t]
          /\ nodes'[a] = 1 => ctx'[a] # Stale
          /\ ctx'[a] # Stale =>
               \/ ctx'[a] = ctx[a] /\ state'[a] = state[a]
               \/ ctx'[a].task = a /\ ctx'[a].at = "body" /\ state'[a] \in Started
      BY <1>0, <1>1, <1>3, <1>4, <1>5 DEF Core
    <3>. QED
      BY <3>1, MakingSavedOf
  <2>. QED
    BY <2>1, <2>2
<1>14. QueueInv'
  <2>1. cpu.at \in CreatePlaces /\ cpu'.at \in CreatePlaces \cup {"body"}
    BY <1>0, <1>4 DEF CreatePlaces
  <2>2. \A u \in Task, t \in Task \ {a} : Makes(u, t)' <=> Makes(u, t)
    BY <1>8, <1>9
  <2>3. /\ QueueInv
        /\ \A t \in Task \ {a} : state'[t] = state[t] /\ nodes'[t] = nodes[t]
        /\ nodes'[a] = 1 => state'[a] = "READY"
        /\ NodeForAll =>
             nodes'[a] = 1 \/ state'[a] # "READY" \/ \E u \in Task : Makes(u, a)'
    BY <1>0, <1>3, <1>5 DEF Core
  <2>. QED
    BY <2>1, <2>2, <2>3, MakingQueueOf
<1>. QED
  BY <1>6, <1>8, <1>11, <1>12, <1>13, <1>14 DEF Core

\* The new task points to the head of the list.
LEMMA CreateLinkKeeps == ASSUME Core, CreateLink PROVE Core'
<1>0. /\ cpu.at = "create_link" /\ Goto("create_back")
      /\ nxt' = [nxt EXCEPT ![cpu.arg] = head]
      /\ UNCHANGED <<state, pid, bitmap, pid_lock, head, prv, nodes, current, ctx, masked>>
  BY DEF CreateLink, At, Stay
<1>1. PICK c \in Task : c = cpu.task
  BY CpuListed
<1>2. PICK a \in Task \ {Idle} : a = cpu.arg
  BY <1>0, Making DEF CreatePlaces
<1>3. state[a] \in Started
  BY <1>0, <1>2, Making DEF MakerInv, CreatePlaces
<1>4. cpu' \in Flow /\ cpu'.task = c /\ cpu'.at = "create_back" /\ cpu'.arg = a
  <2>1. "create_back" \in Location /\ cpu \in Flow
    BY DEF Location, CreatePlaces, Core, TypeOK
  <2>. QED
    BY <1>0, <1>1, <1>2, <2>1, FlowGoto DEF Goto
<1>5. TypeOK'
  BY <1>0, <1>4 DEF Core, TypeOK
<1>6. MakerInv(cpu)'
  BY <1>0, <1>2, <1>3, <1>4 DEF MakerInv, Early
<1>7. /\ CpuInv' /\ NextInv' /\ KillInv' /\ CreateInv'
      /\ \A u \in Task \ {c} :
           \/ FlowOf(u)' = FlowOf(u)
           \/ FlowOf(u)'.at = "body" /\ FlowOf(u).at = "stale"
      /\ \A u \in Task \ {c}, t \in Task : Makes(u, t)' <=> Makes(u, t)
      /\ FlowOf(c) = cpu /\ FlowOf(c)' = cpu'
  BY <1>0, <1>1, <1>2, <1>3, <1>4, <1>6, MakingKeeps DEF Core, TypeOK, CreatePlaces
<1>8. \A t \in Task : Makes(c, t)' <=> Makes(c, t)
  BY <1>0, <1>2, <1>4, <1>7 DEF Makes, Early, CreatePlaces
<1>9. Listed \subseteq Listed'
  BY <1>0, <1>7, <1>8 DEF Listed
<1>10. LockInv' /\ ListInv'
  BY <1>0, <1>2, <1>4, <1>7, <1>9 DEF Core, TypeOK, LockInv, ListInv, UnlockPlaces
<1>11. PidInv'
  <2>1. Holders' \subseteq Holders
    BY <1>0, <1>4 DEF Holders
  <2>2. \A u \in Task : FlowOf(u).at = "create_undo_unlock" => FlowOf(u)' = FlowOf(u)
    BY <1>0, <1>7
  <2>. QED
    BY <1>0, <2>1, <2>2, PidKept DEF Core
<1>12. IdleInv' /\ SavedInv' /\ QueueInv'
  <2>1. cpu.at \in CreatePlaces /\ cpu'.at \in CreatePlaces \cup {"body"}
    BY <1>0, <1>4 DEF CreatePlaces
  <2>2. \A u, t \in Task : Makes(u, t)' <=> Makes(u, t)
    BY <1>7, <1>8
  <2>3. IdleInv' /\ SavedInv'
    BY <1>0, <1>1, <1>4, IdleKept, SavedKept DEF Core
  <2>4. QueueInv'
    BY <1>0, <2>1, <2>2, MakingQueue DEF Core
  <2>. QED
    BY <2>3, <2>4
<1>. QED
  BY <1>5, <1>7, <1>10, <1>11, <1>12 DEF Core

\* The head of the list points back to the new task.
LEMMA CreateBackKeeps == ASSUME Core, CreateBack PROVE Core'
<1>0. /\ cpu.at = "create_back" /\ Goto("create_publish")
      /\ prv' = IF head # NULL THEN [prv EXCEPT ![head] = cpu.arg] ELSE prv
      /\ UNCHANGED <<state, pid, bitmap, pid_lock, head, nxt, nodes, current, ctx, masked>>
  BY DEF CreateBack, At, Stay
<1>1. PICK c \in Task : c = cpu.task
  BY CpuListed
<1>2. PICK a \in Task \ {Idle} : a = cpu.arg
  BY <1>0, Making DEF CreatePlaces
<1>3. state[a] \in Started
  BY <1>0, <1>2, Making DEF MakerInv, CreatePlaces
<1>4. cpu' \in Flow /\ cpu'.task = c /\ cpu'.at = "create_publish" /\ cpu'.arg = a
  <2>1. "create_publish" \in Location /\ cpu \in Flow
    BY DEF Location, CreatePlaces, Core, TypeOK
  <2>. QED
    BY <1>0, <1>1, <1>2, <2>1, FlowGoto DEF Goto
<1>5. TypeOK'
  BY <1>0, <1>2, <1>4 DEF Core, TypeOK
<1>6. MakerInv(cpu)'
  BY <1>0, <1>2, <1>3, <1>4 DEF MakerInv, Early
<1>7. /\ CpuInv' /\ NextInv' /\ KillInv' /\ CreateInv'
      /\ \A u \in Task \ {c} :
           \/ FlowOf(u)' = FlowOf(u)
           \/ FlowOf(u)'.at = "body" /\ FlowOf(u).at = "stale"
      /\ \A u \in Task \ {c}, t \in Task : Makes(u, t)' <=> Makes(u, t)
      /\ FlowOf(c) = cpu /\ FlowOf(c)' = cpu'
  BY <1>0, <1>1, <1>2, <1>3, <1>4, <1>6, MakingKeeps DEF Core, TypeOK, CreatePlaces
<1>8. \A t \in Task : Makes(c, t)' <=> Makes(c, t)
  BY <1>0, <1>2, <1>4, <1>7 DEF Makes, Early, CreatePlaces
<1>9. Listed \subseteq Listed'
  BY <1>0, <1>7, <1>8 DEF Listed
<1>10. LockInv' /\ ListInv'
  BY <1>0, <1>2, <1>4, <1>7, <1>9 DEF Core, TypeOK, LockInv, ListInv, UnlockPlaces
<1>11. PidInv'
  <2>1. Holders' \subseteq Holders
    BY <1>0, <1>4 DEF Holders
  <2>2. \A u \in Task : FlowOf(u).at = "create_undo_unlock" => FlowOf(u)' = FlowOf(u)
    BY <1>0, <1>7
  <2>. QED
    BY <1>0, <2>1, <2>2, PidKept DEF Core
<1>12. IdleInv' /\ SavedInv' /\ QueueInv'
  <2>1. cpu.at \in CreatePlaces /\ cpu'.at \in CreatePlaces \cup {"body"}
    BY <1>0, <1>4 DEF CreatePlaces
  <2>2. \A u, t \in Task : Makes(u, t)' <=> Makes(u, t)
    BY <1>7, <1>8
  <2>3. IdleInv' /\ SavedInv'
    BY <1>0, <1>1, <1>4, IdleKept, SavedKept DEF Core
  <2>4. QueueInv'
    BY <1>0, <2>1, <2>2, MakingQueue DEF Core
  <2>. QED
    BY <2>3, <2>4
<1>. QED
  BY <1>5, <1>7, <1>10, <1>11, <1>12 DEF Core

\* The new task becomes the head of the list.
LEMMA CreatePublishKeeps == ASSUME Core, CreatePublish PROVE Core'
<1>0. /\ cpu.at = "create_publish" /\ Return /\ head' = cpu.arg
      /\ UNCHANGED <<state, pid, bitmap, pid_lock, nxt, prv, nodes, current, ctx>>
  BY DEF CreatePublish, At
<1>1. PICK c \in Task : c = cpu.task
  BY CpuListed
<1>2. PICK a \in Task \ {Idle} : a = cpu.arg
  BY <1>0, Making DEF CreatePlaces
<1>3. state[a] \in Started
  BY <1>0, <1>2, Making DEF MakerInv, CreatePlaces
<1>4. cpu' \in Flow /\ cpu'.task = c /\ cpu'.at = "body" /\ masked' \in BOOLEAN
  BY <1>0, <1>1, FlowBody, ReturnMasks DEF Return
<1>5. TypeOK'
  BY <1>0, <1>2, <1>4 DEF Core, TypeOK
<1>6. \A u \in Task \ {c} : ~Makes(u, a)
  BY <1>0, <1>1, <1>2, Making DEF Makes, Early, CreatePlaces
<1>7. /\ CpuInv' /\ NextInv' /\ KillInv' /\ CreateInv'
      /\ \A u \in Task \ {c} :
           \/ FlowOf(u)' = FlowOf(u)
           \/ FlowOf(u)'.at = "body" /\ FlowOf(u).at = "stale"
      /\ \A u \in Task \ {c}, t \in Task : Makes(u, t)' <=> Makes(u, t)
      /\ FlowOf(c) = cpu /\ FlowOf(c)' = cpu'
  BY <1>0, <1>1, <1>2, <1>4, MakingKeeps DEF Core, TypeOK, CreatePlaces
<1>8. \A t \in Task : ~Makes(c, t)' /\ ~Makes(c, t)
  BY <1>0, <1>4, <1>7 DEF Makes, Early, CreatePlaces
<1>9. Listed \subseteq Listed' /\ a \in Listed'
  BY <1>0, <1>3, <1>6, <1>7, <1>8 DEF Listed
<1>10. LockInv' /\ ListInv'
  BY <1>0, <1>2, <1>4, <1>7, <1>9 DEF Core, LockInv, ListInv, UnlockPlaces
<1>11. PidInv'
  <2>1. Holders' \subseteq Holders
    BY <1>0, <1>4 DEF Holders
  <2>2. \A u \in Task : FlowOf(u).at = "create_undo_unlock" => FlowOf(u)' = FlowOf(u)
    BY <1>0, <1>7
  <2>. QED
    BY <1>0, <2>1, <2>2, PidKept DEF Core
<1>12. IdleInv' /\ SavedInv' /\ QueueInv'
  <2>1. cpu.at \in CreatePlaces /\ cpu'.at \in CreatePlaces \cup {"body"}
    BY <1>0, <1>4 DEF CreatePlaces
  <2>2. \A u, t \in Task : Makes(u, t)' <=> Makes(u, t)
    BY <1>7, <1>8
  <2>3. IdleInv' /\ SavedInv'
    BY <1>0, <1>1, <1>4, IdleKept, SavedKept DEF Core
  <2>4. QueueInv'
    BY <1>0, <2>1, <2>2, MakingQueue DEF Core
  <2>. QED
    BY <2>3, <2>4
<1>. QED
  BY <1>5, <1>7, <1>10, <1>11, <1>12 DEF Core

-----------------------------------------------------------------------------
(* All of them. *)

\* Every step of the executing flow keeps the invariant.
LEMMA StepKeepsCore == ASSUME Core, ~wild, Step PROVE Core'
<1>1. CASE Schedule \/ SetReady \/ EnqueuePrev \/ CheckQueued \/ Pick \/ StayRunning
  BY <1>1, ScheduleKeeps, SetReadyKeeps, EnqueuePrevKeeps, CheckQueuedKeeps, PickKeeps,
     StayRunningKeeps
<1>2. CASE StayDequeue \/ DequeueNext \/ RunNext \/ SetCurrent \/ Switch
  BY <1>2, StayDequeueKeeps, DequeueNextKeeps, RunNextKeeps, SetCurrentKeeps, SwitchKeeps
<1>3. CASE Exit \/ ExitPidFree \/ ExitUnlock \/ ExitClear
  <2>1. CASE ExitUnlock
    BY <2>1, PidUnlockKeeps DEF ExitUnlock
  <2>. QED
    BY <1>3, <2>1, ExitKeeps, ExitPidFreeKeeps, ExitClearKeeps
<1>4. CASE Kill \/ KillDequeue \/ KillZombie \/ KillPidFree \/ KillUnlock \/ KillUnlink \/ KillEnd
  <2>1. CASE KillUnlock
    BY <2>1, PidUnlockKeeps DEF KillUnlock
  <2>. QED
    BY <1>4, <2>1, KillKeeps, KillDequeueKeeps, KillZombieKeeps, KillPidFreeKeeps,
       KillUnlinkKeeps, KillEndKeeps
<1>5. CASE CreatePid \/ CreateUnlock \/ CreateStack \/ CreateUndo
  BY <1>5, CreatePidKeeps, CreateUnlockKeeps, CreateStackKeeps, CreateUndoKeeps
<1>6. CASE CreateUndoUnlock \/ CreateEnqueue \/ CreateLink \/ CreateBack \/ CreatePublish
  BY <1>6, CreateUndoUnlockKeeps, CreateEnqueueKeeps, CreateLinkKeeps, CreateBackKeeps,
     CreatePublishKeeps
<1>. QED
  BY <1>1, <1>2, <1>3, <1>4, <1>5, <1>6 DEF Step

\* Only switch_to can restore a context; a step panics or it does not.
LEMMA StepControl ==
  ASSUME Core, ~wild, panicked = FALSE, Step
  PROVE  ~wild' /\ panicked' \in BOOLEAN
<1>1. CASE Switch
  BY <1>1, SwitchKeeps DEF Switch
<1>2. CASE Schedule
  BY <1>2 DEF Schedule, Stay
<1>3. CASE SetReady
  BY <1>3 DEF SetReady, Stay
<1>4. CASE EnqueuePrev
  BY <1>4 DEF EnqueuePrev, Stay
<1>5. CASE CheckQueued
  BY <1>5 DEF CheckQueued, Stay, Panic
<1>6. CASE Pick
  BY <1>6 DEF Pick, Stay, Panic
<1>7. CASE StayRunning
  BY <1>7 DEF StayRunning, Stay
<1>8. CASE StayDequeue
  BY <1>8 DEF StayDequeue, Panic
<1>9. CASE DequeueNext
  BY <1>9 DEF DequeueNext, Stay, Panic
<1>10. CASE RunNext
  BY <1>10 DEF RunNext, Stay, Panic
<1>11. CASE SetCurrent
  BY <1>11 DEF SetCurrent, Stay
<1>12. CASE Exit
  BY <1>12 DEF Exit, Stay
<1>13. CASE ExitPidFree
  BY <1>13 DEF ExitPidFree, PidFree, Stay
<1>14. CASE ExitUnlock
  BY <1>14 DEF ExitUnlock, PidUnlock, Stay
<1>15. CASE ExitClear
  BY <1>15 DEF ExitClear, Stay
<1>16. CASE Kill
  BY <1>16 DEF Kill, Stay
<1>17. CASE KillDequeue
  BY <1>17 DEF KillDequeue, Stay
<1>18. CASE KillZombie
  BY <1>18 DEF KillZombie, Stay
<1>19. CASE KillPidFree
  BY <1>19 DEF KillPidFree, PidFree, Stay
<1>20. CASE KillUnlock
  BY <1>20 DEF KillUnlock, PidUnlock, Stay
<1>21. CASE KillUnlink
  BY <1>21 DEF KillUnlink, Stay
<1>22. CASE KillEnd
  BY <1>22 DEF KillEnd, Stay
<1>23. CASE CreatePid
  BY <1>23 DEF CreatePid
<1>24. CASE CreateUnlock
  BY <1>24 DEF CreateUnlock, PidUnlock, Stay
<1>25. CASE CreateStack
  BY <1>25 DEF CreateStack
<1>26. CASE CreateUndo
  BY <1>26 DEF CreateUndo, PidFree, Stay
<1>27. CASE CreateUndoUnlock
  BY <1>27 DEF CreateUndoUnlock
<1>28. CASE CreateEnqueue
  BY <1>28 DEF CreateEnqueue, Stay
<1>29. CASE CreateLink
  BY <1>29 DEF CreateLink, Stay
<1>30. CASE CreateBack
  BY <1>30 DEF CreateBack, Stay
<1>31. CASE CreatePublish
  BY <1>31 DEF CreatePublish
<1>. QED
  BY <1>1, <1>2, <1>3, <1>4, <1>5, <1>6, <1>7, <1>8, <1>9, <1>10, <1>11, <1>12,
     <1>13, <1>14, <1>15, <1>16, <1>17, <1>18, <1>19, <1>20, <1>21, <1>22, <1>23,
     <1>24, <1>25, <1>26, <1>27, <1>28, <1>29, <1>30, <1>31 DEF Step

-----------------------------------------------------------------------------
(* The calls. *)

\* A call made from a task's own code, by a function call or by svc.
LEMMA CallKeeps ==
  ASSUME Core, cpu.at = "body", UNCHANGED <<sched, ctx>>, masked' \in BOOLEAN,
         cpu' \in Flow, cpu'.task = cpu.task, cpu'.at \in {"schedule", "exit", "kill"},
         cpu'.at = "exit" => cpu.task # Idle,
         cpu'.at = "kill" => cpu'.arg \in Listed
  PROVE  Core'
<1>1. UNCHANGED <<state, pid, bitmap, pid_lock, head, nxt, prv, nodes, current>>
  BY DEF sched
<1>2. TypeOK'
  BY <1>1 DEF Core, TypeOK
<1>3. Kept
  <2>1. Holders' \subseteq Holders
    BY <1>1 DEF Holders
  <2>. QED
    BY <1>1, <2>1, Quiet DEF CreatePlaces, UnlockPlaces
<1>4. CpuInv' /\ NextInv'
  BY <1>1
     DEF Core, CpuInv, NextInv, CpuRuns, CpuGone, CreatePlaces, ExitPlaces, Switching
<1>5. KillInv'
  BY <1>1, <1>3 DEF KillInv, Kept, KeptTasks, KillPlaces, ZombieKill
<1>6. IdleInv'
  BY <1>1 DEF Core, IdleInv
<1>7. QueueInv'
  BY <1>1, <1>3 DEF Core, QueueInv, Kept, KeptTasks
<1>8. SavedInv'
  BY <1>1 DEF Core, SavedInv
<1>. QED
  BY <1>2, <1>3, <1>4, <1>5, <1>6, <1>7, <1>8 DEF Core, Kept, KeptTasks

\* task_create starts on an object that no other flow creates.
LEMMA CallCreateKeeps ==
  ASSUME Core, NEW t \in Task, CallCreate(t), Stay
  PROVE  Core'
<1>1. /\ cpu.at = "body" /\ CpuRuns /\ cpu.task \in Listed /\ state[t] = "NONE"
      /\ state' = [state EXCEPT ![t] = "NEW"]
      /\ cpu' = [cpu EXCEPT !.at = "create_pid", !.arg = t]
      /\ UNCHANGED <<pid, bitmap, pid_lock, head, nxt, prv, nodes, current, ctx, masked>>
  BY CpuListed DEF CallCreate, Stay, At, Core, CpuInv
<1>2. PICK c \in Task : c = cpu.task
  BY CpuListed
<1>3. /\ cpu' \in Flow /\ cpu'.task = c /\ cpu'.at = "create_pid" /\ cpu'.arg = t
  <2>1. "create_pid" \in Location /\ cpu \in Flow
    BY DEF Location, CreatePlaces, Core, TypeOK
  <2>. QED
    BY <1>1, <1>2, <2>1 DEF Flow
<1>4. t # Idle /\ t # c /\ nodes[t] = 0 /\ ctx[t] = Stale /\ pid[t] = 0
  BY <1>1, <1>2, RunningNotQueued DEF Core, IdleInv, SavedInv, CpuRuns, Started
<1>5. TypeOK'
  BY <1>1, <1>3 DEF Core, TypeOK
<1>6. \A u \in Task : FlowOf(u).at \in CreatePlaces => FlowOf(u).arg # t
  BY <1>1 DEF Core, CreateInv, MakerInv, CreatePlaces, Started
<1>7. \A u \in Task \ {c} :
        /\ \/ FlowOf(u)' = FlowOf(u)
           \/ FlowOf(u)'.at = "body" /\ FlowOf(u).at = "stale"
        /\ FlowOf(u)'.at \in CreatePlaces => MakerInv(FlowOf(u))'
  BY <1>1, <1>2, <1>3, <1>6, OtherMakers DEF Core, TypeOK, Started
<1>8. FlowOf(c)' = cpu' /\ FlowOf(c) = cpu
  BY <1>2, <1>3 DEF FlowOf
<1>9. \A u \in Task \ {c}, x \in Task : Makes(u, x)' <=> Makes(u, x)
  BY <1>7, OthersMake
<1>10. /\ \A x \in Task : Makes(c, x)' <=> x = t
       /\ \A x \in Task : ~Makes(c, x)
  BY <1>1, <1>3, <1>8 DEF Makes, Early, CreatePlaces
<1>11. Listed \subseteq Listed'
  BY <1>1, <1>9, <1>10 DEF Listed, Started, Core, TypeOK
<1>12. CreateInv'
  <2>1. MakerInv(cpu)'
    BY <1>1, <1>2, <1>3, <1>4 DEF MakerInv, Early, CreatePlaces, Core, TypeOK
  <2>2. \A u \in Task \ {c} : FlowOf(u)'.at \in CreatePlaces => FlowOf(u)' = FlowOf(u)
    BY <1>7 DEF CreatePlaces
  <2>. QED
    BY <1>3, <1>6, <1>7, <1>8, <2>1, <2>2 DEF Core, CreateInv
<1>13. LockInv' /\ ListInv'
  BY <1>1, <1>3, <1>7, <1>8, <1>11 DEF Core, LockInv, ListInv, UnlockPlaces
<1>14. PidInv'
  <2>1. Holders' \subseteq Holders
    BY <1>1, <1>3, <1>4 DEF Holders, Core, TypeOK
  <2>2. \A u \in Task : FlowOf(u).at = "create_undo_unlock" => FlowOf(u)' = FlowOf(u)
    BY <1>1, <1>7, <1>8
  <2>. QED
    BY <1>1, <2>1, <2>2, SMTT(30) DEF Core, PidInv
<1>15. CpuInv' /\ NextInv' /\ KillInv'
  BY <1>1, <1>2, <1>3, <1>4, SMTT(30)
     DEF Core, TypeOK, CpuInv, NextInv, KillInv, CpuRuns, CreatePlaces, ExitPlaces,
         Switching, KillPlaces, ZombieKill
<1>16. IdleInv' /\ SavedInv'
  BY <1>1, <1>2, <1>3, <1>4, SMTT(30) DEF Core, IdleInv, SavedInv, TypeOK, Started
<1>17. QueueInv'
  BY <1>1, <1>2, <1>3, <1>4, <1>9, <1>10, SMTT(30) DEF Core, QueueInv, TypeOK
<1>. QED
  BY <1>5, <1>12, <1>13, <1>14, <1>15, <1>16, <1>17 DEF Core

\* The calls a task makes with IRQs enabled.
LEMMA CallActionKeeps == ASSUME Core, Call PROVE Core'
<1>1. Stay /\ masked' \in BOOLEAN /\ ctx' = ctx /\ cpu \in Flow /\ cpu.task \in Task
  BY CpuListed DEF Call, Stay, Core, TypeOK
<1>2. {"schedule", "exit", "kill"} \subseteq Location
  BY DEF Location, Switching, KillPlaces
<1>3. CASE CallSchedule /\ UNCHANGED sched
  <2>1. cpu.at = "body" /\ cpu' = [cpu EXCEPT !.at = "schedule"]
    BY <1>3 DEF CallSchedule, Goto, At
  <2>2. cpu' \in Flow /\ cpu'.task = cpu.task /\ cpu'.at = "schedule"
    BY <1>1, <1>2, <2>1, FlowGoto
  <2>. QED
    BY <1>1, <1>3, <2>1, <2>2, CallKeeps
<1>4. CASE CallExit /\ UNCHANGED sched
  <2>1. cpu.at = "body" /\ cpu' = [cpu EXCEPT !.at = "exit"] /\ cpu.task # Idle
    BY <1>4 DEF CallExit, Goto, At
  <2>2. cpu' \in Flow /\ cpu'.task = cpu.task /\ cpu'.at = "exit"
    BY <1>1, <1>2, <2>1, FlowGoto
  <2>. QED
    BY <1>1, <1>4, <2>1, <2>2, CallKeeps
<1>5. ASSUME NEW t \in Task, CallKill(t), UNCHANGED sched
      PROVE  Core'
  <2>1. /\ cpu.at = "body" /\ cpu' = [cpu EXCEPT !.at = "kill", !.arg = t]
        /\ state[t] \notin {"NONE", "NEW"} /\ t \notin BeingCreated(CreatePlaces)
    BY <1>5 DEF CallKill, At
  <2>2. cpu' \in Flow /\ cpu'.task = cpu.task /\ cpu'.at = "kill" /\ cpu'.arg = t
    BY <1>1, <1>2, <2>1 DEF Flow
  <2>3. \A u \in Task : ~Makes(u, t)
    <3>1. \A u \in Task : FlowOf(u) \in {cpu} \cup {ctx[v] : v \in Task}
      BY DEF FlowOf
    <3>. QED
      BY <2>1, <3>1 DEF Makes, BeingCreated, Early
  <2>4. t \in Listed
    BY <2>1, <2>3 DEF Listed, Core, TypeOK
  <2>. QED
    BY <1>1, <1>5, <2>1, <2>2, <2>4, CallKeeps
<1>6. ASSUME NEW t \in Task, CallCreate(t)
      PROVE  Core'
  BY <1>1, <1>6, CallCreateKeeps
<1>. QED
  BY <1>3, <1>4, <1>5, <1>6 DEF Call

\* The system calls find listed tasks only, and IRQs are masked.
LEMMA SvcKeeps == ASSUME Core, Svc PROVE Core'
<1> DEFINE from == IF masked THEN "masked" ELSE "unmasked"
<1>1. /\ cpu.at = "body" /\ masked' = TRUE /\ UNCHANGED <<sched, ctx>>
      /\ cpu \in Flow /\ cpu.task \in Task /\ from \in {"no", "unmasked", "masked"}
      /\ "exit" \in Location /\ "kill" \in Location
  <2>1. cpu.at = "body" /\ masked' = TRUE /\ UNCHANGED <<sched, ctx>>
    BY DEF Svc, At
  <2>2. "exit" \in Location /\ "kill" \in Location /\ from \in {"no", "unmasked", "masked"}
    BY SMTT(30) DEF Location, Switching, KillPlaces
  <2>. QED
    BY <2>1, <2>2, CpuListed, SMTT(30) DEF Core, TypeOK
<1>2. \/ cpu.task # Idle /\ cpu' = [cpu EXCEPT !.at = "exit", !.svc = from]
      \/ \E p \in 0 .. MaxPid - 1 : \E t \in FindByPid(p) :
           cpu' = [cpu EXCEPT !.at = "kill", !.arg = t, !.svc = from]
  BY DEF Svc
<1> HIDE DEF from
<1>3. CASE cpu.task # Idle /\ cpu' = [cpu EXCEPT !.at = "exit", !.svc = from]
  <2>1. cpu' \in Flow /\ cpu'.task = cpu.task /\ cpu'.at = "exit"
    BY <1>1, <1>3 DEF Flow
  <2>. QED
    BY <1>1, <1>3, <2>1, CallKeeps
<1>4. ASSUME NEW p, NEW t \in FindByPid(p),
             cpu' = [cpu EXCEPT !.at = "kill", !.arg = t, !.svc = from]
      PROVE  Core'
  <2>1. t \in Listed /\ t \in Task
    BY <1>4, FindListed DEF Listed
  <2>2. cpu' \in Flow /\ cpu'.task = cpu.task /\ cpu'.at = "kill" /\ cpu'.arg = t
    BY <1>1, <1>4, <2>1 DEF Flow
  <2>. QED
    BY <1>1, <2>1, <2>2, CallKeeps
<1>. QED
  BY <1>2, <1>3, <1>4

-----------------------------------------------------------------------------
(* The whole system. *)

\* task_init establishes the invariant.
LEMMA InitCore == Init => Core
<1> SUFFICES ASSUME Init PROVE Core
  OBVIOUS
<1>1. cpu \in Flow /\ cpu.task = Idle /\ cpu.at = "body"
  BY SchedIrqConstants, FlowBody DEF Init
<1>2. \A u \in Task : FlowOf(u).at \notin CreatePlaces \cup UnlockPlaces
  BY <1>1, StaleIsNoFlow DEF Init, FlowOf, CreatePlaces, UnlockPlaces
<1>3. TypeOK
  <2>1. /\ state \in [Task -> {"NONE", "NEW"} \cup Started] /\ pid \in [Task -> Nat]
        /\ bitmap \in SUBSET Nat /\ nodes \in [Task -> {0, 1}]
    BY SMTT(30) DEF Init, Started
  <2>2. ctx \in [Task -> Flow \cup {Stale}]
    BY DEF Init
  <2>. QED
    BY <1>1, <2>1, <2>2, SchedIrqConstants DEF Init, TypeOK
<1>4. CpuInv /\ NextInv /\ KillInv
  BY <1>1, SchedIrqConstants
     DEF Init, CpuInv, NextInv, KillInv, CpuRuns, CreatePlaces, ExitPlaces, Switching,
         KillPlaces, ZombieKill
<1>5. IdleInv /\ QueueInv /\ SavedInv
  <2>1. IdleInv
    BY <1>1, SchedIrqConstants DEF Init, IdleInv, Started
  <2>2. QueueInv
    BY <1>1, SchedIrqConstants, SMTT(30) DEF Init, QueueInv
  <2>3. SavedInv
    BY <1>1, SchedIrqConstants, SMTT(30) DEF Init, SavedInv
  <2>. QED
    BY <2>1, <2>2, <2>3
<1>6. CreateInv /\ LockInv
  BY <1>2 DEF CreateInv, LockInv
<1>7. PidInv /\ ListInv
  BY SchedIrqConstants DEF Init, PidInv, Holders, ListInv, Listed
<1>. QED
  BY <1>3, <1>4, <1>5, <1>6, <1>7 DEF Core

\* Nothing moves after a panic.
LEMMA NextAlive == ASSUME Next PROVE Alive
<1>1. CASE Call
  BY <1>1 DEF Call, CallSchedule, CallExit, CallKill, CallCreate, At
<1>2. CASE Svc \/ TimerIrq
  BY <1>2 DEF Svc, TimerIrq, At
<1>3. CASE Step
  BY <1>3
     DEF Step, At, Schedule, SetReady, EnqueuePrev, CheckQueued, Pick, StayRunning,
         StayDequeue, DequeueNext, RunNext, SetCurrent, Switch, Exit, ExitPidFree,
         ExitUnlock, ExitClear, Kill, KillDequeue, KillZombie, KillPidFree, KillUnlock,
         KillUnlink, KillEnd, CreatePid, CreateUnlock, CreateStack, CreateUndo,
         CreateUndoUnlock, CreateEnqueue, CreateLink, CreateBack, CreatePublish, PidUnlock
<1>. QED
  BY <1>1, <1>2, <1>3 DEF Next

\* Once the timer has cut into a switch or into task_kill it has.
LEMMA TornStays == ASSUME [Next]_vars, ~torn' PROVE ~torn
<1>1. CASE TimerIrq
  BY <1>1 DEF TimerIrq
<1>2. CASE Call \/ Svc \/ Step \/ UNCHANGED vars
  BY <1>2 DEF Call, Svc, Step, vars
<1>. QED
  BY <1>1, <1>2 DEF Next

\* Every other step of the system keeps the invariant, panics included.
LEMMA NextKeepsInv ==
  ASSUME Inv, Next, ~torn'
  PROVE  Inv'
<1>1. ~wild /\ panicked = FALSE /\ Core
  BY NextAlive DEF Alive, Inv
<1>2. ASSUME Core', ~wild', panicked' \in BOOLEAN
      PROVE  Inv'
  <2>1. OwnContext' /\ LivePidsReserved'
    BY <1>2, CoreIsSafe, PTL
  <2>. QED
    BY <1>2, <2>1 DEF Inv
<1>3. CASE Call
  BY <1>1, <1>2, <1>3, CallActionKeeps DEF Call, Stay
<1>4. CASE Svc
  BY <1>1, <1>2, <1>4, SvcKeeps DEF Svc
<1>5. CASE Step
  BY <1>1, <1>2, <1>5, StepKeepsCore, StepControl
<1>6. CASE TimerIrq
  <2>1. /\ ~wild' /\ panicked' \in BOOLEAN
        /\ panicked' => OwnContext' /\ LivePidsReserved'
        /\ ~panicked' => Core'
    BY <1>1, <1>6, TimerIrqKeeps
  <2>2. CASE panicked'
    BY <2>1, <2>2 DEF Inv
  <2>3. CASE ~panicked'
    BY <1>2, <2>1, <2>3
  <2>. QED
    BY <2>2, <2>3
<1>. QED
  BY <1>3, <1>4, <1>5, <1>6 DEF Next

\* The inductive invariant holds until the timer first cuts into a switch or into
\* task_kill: no step of the executing flow, no call and no interrupt anywhere
\* else breaks it.
THEOREM Inductive == Spec => [](~torn => Inv)
<1>1. Init => Inv
  BY InitCore, CoreIsSafe DEF Init, Inv
<1>2. (~torn => Inv) /\ [Next]_vars => (~torn => Inv)'
  <2> SUFFICES ASSUME ~torn => Inv, [Next]_vars, ~torn' PROVE Inv'
    OBVIOUS
  <2>1. ~torn /\ Inv
    BY TornStays
  <2>2. CASE UNCHANGED vars
    <3>1. UNCHANGED <<sched, ctx, cpu, masked, panicked, wild, torn>>
      BY <2>2 DEF vars
    <3>2. Core => Core'
      BY <3>1, Unmoved
    <3>3. OwnContext'
      BY <2>1, <3>1 DEF Inv, OwnContext
    <3>4. LivePidsReserved'
      BY <2>1, <3>1, SaveKeepsPids DEF Inv, sched
    <3>. QED
      BY <2>1, <3>1, <3>2, <3>3, <3>4 DEF Inv
  <2>. QED
    BY <2>1, <2>2, NextKeepsInv
<1>. QED
  BY <1>1, <1>2, PTL DEF Spec

\* Until the timer first cuts into a switch or into task_kill, a task that executes
\* its own code is the current one and the only one that is RUNNING, however the
\* timer cut into the rest of schedule, task_exit, task_create and the system calls.
THEOREM OneTaskRuns == Spec => []OneRunning
<1>1. (~torn => Inv) => OneRunning
  BY CoreAtBody DEF Inv, OneRunning, At, Alive
<1>. QED
  BY <1>1, Inductive, PTL

\* Until then registers are saved into the context of the task they belong to, and
\* into no other task's, even by an interrupt that leads to a panic.
THEOREM ContextsAreOwn == Spec => []OwnContext
<1>1. (~torn => Inv) => OwnContext
  BY DEF Inv, OwnContext
<1>. QED
  BY <1>1, Inductive, PTL

\* Until then no context is restored that its task did not leave there: neither
\* switch_to nor the interrupt's return jumps into a used-up or foreign frame.
THEOREM NoWildRestore == Spec => []NeverWild
<1>1. (~torn => Inv) => NeverWild
  BY DEF Inv, NeverWild
<1>. QED
  BY <1>1, Inductive, PTL

\* Until then the PID of a live task stays marked in the bitmap and is no other live
\* task's, although the interrupt may come between the halves of pid_alloc and
\* pid_free.
THEOREM PidsStayReserved == Spec => []LivePidsReserved
<1>1. (~torn => Inv) => LivePidsReserved
  BY DEF Inv, LivePidsReserved
<1>. QED
  BY <1>1, Inductive, PTL

-----------------------------------------------------------------------------
(* Enough nodes. *)

\* The run queue has a node for every task but idle.
EnoughNodes == Nodes + 1 >= Cardinality(Task)

\* Cardinality and IsFiniteSet under names that the instance below leaves alone.
Size(S) == Cardinality(S)
Finite(S) == IsFiniteSet(S)

\* What the two operators are.
LEMMA SizeIs ==
  ASSUME NEW S
  PROVE  /\ Size(S) = LET CS[T \in SUBSET S] ==
                            IF T = {} THEN 0 ELSE 1 + CS[T \ {CHOOSE x : x \in T}]
                     IN  CS[S]
         /\ Finite(S) <=> \E seq \in Seq(S) : \A s \in S : \E n \in 1 .. Len(seq) : seq[n] = s
<1>1. Size(S) = LET CS[T \in SUBSET S] ==
                      IF T = {} THEN 0 ELSE 1 + CS[T \ {CHOOSE x : x \in T}]
               IN  CS[S]
  BY DEF Size, Cardinality
<1>2. Finite(S) <=> \E seq \in Seq(S) : \A s \in S : \E n \in 1 .. Len(seq) : seq[n] = s
  BY DEF Finite, IsFiniteSet
<1>. QED
  BY <1>1, <1>2

\* The bound on the nodes in these names.
LEMMA NodeBounds ==
  /\ Finite(Task)
  /\ EnoughNodes <=> Nodes + 1 >= Size(Task)
  /\ NodeForAll <=> \A n \in [Task -> {0, 1}], t \in Task \ {Idle} :
                      n[Idle] = 0 /\ n[t] = 0 => Size(InUse(n)) < Nodes
<1>1. Finite(Task)
  BY SchedIrqConstants DEF Finite
<1>2. EnoughNodes <=> Nodes + 1 >= Size(Task)
  BY DEF EnoughNodes, Size
<1>3. NodeForAll <=> \A n \in [Task -> {0, 1}], t \in Task \ {Idle} :
                      n[Idle] = 0 /\ n[t] = 0 => Size(InUse(n)) < Nodes
  BY DEF NodeForAll, Size
<1>. QED
  BY <1>1, <1>2, <1>3

\* Only what follows needs the facts about finite sets.
LOCAL INSTANCE FiniteSetTheorems

\* The instance speaks of the same operators.
LEMMA SameSize ==
  ASSUME NEW S
  PROVE  Size(S) = Cardinality(S) /\ (Finite(S) <=> IsFiniteSet(S))
<1>1. Size(S) = Cardinality(S)
  BY SizeIs DEF Cardinality
<1>2. Finite(S) <=> IsFiniteSet(S)
  BY SizeIs DEF IsFiniteSet
<1>. QED
  BY <1>1, <1>2

\* Then the nodes in use do not reach Nodes while a task is without one.
LEMMA EnoughForAll == EnoughNodes => NodeForAll
<1> SUFFICES ASSUME EnoughNodes, NEW n \in [Task -> {0, 1}], NEW t \in Task \ {Idle},
                    n[Idle] = 0, n[t] = 0
             PROVE  Size(InUse(n)) < Nodes
  BY NodeBounds
<1> DEFINE S == Task \ {Idle}
           others == S \ {t}
<1>1. IsFiniteSet(others) /\ Cardinality(others) = Cardinality(Task) - 2
  <2>1. IsFiniteSet(Task) /\ Idle \in Task /\ Cardinality(Task) \in Nat
    BY SchedIrqConstants, NodeBounds, SameSize, FS_CardinalityType
  <2>2. IsFiniteSet(S) /\ Cardinality(S) = Cardinality(Task) - 1
    BY <2>1, FS_RemoveElement
  <2>3. t \in S /\ IsFiniteSet(S)
    BY <2>2
  <2>4. IsFiniteSet(S \ {t}) /\ Cardinality(S \ {t}) = Cardinality(S) - 1
    <3> HIDE DEF S
    <3>. QED
      BY <2>3, FS_RemoveElement
  <2> HIDE DEF S
  <2>. QED
    BY <2>1, <2>2, <2>4, SMTT(30)
<1>2. IsFiniteSet(others \X {1}) /\ Cardinality(others \X {1}) = Cardinality(others)
  <2>1. IsFiniteSet({1}) /\ Cardinality({1}) = 1
    BY FS_Singleton
  <2>2. Cardinality(others) \in Nat
    BY <1>1, FS_CardinalityType
  <2> HIDE DEF others
  <2>3. /\ IsFiniteSet(others \X {1})
        /\ Cardinality(others \X {1}) = Cardinality(others) * Cardinality({1})
    BY <1>1, <2>1, FS_Product
  <2>. QED
    BY <2>1, <2>2, <2>3, SMTT(30)
<1>3. InUse(n) \subseteq others \X {1}
  <2>1. \A u \in Task : n[u] \in {0, 1} /\ (n[u] = 1 => u \in others)
    BY SMTT(30)
  <2> HIDE DEF others
  <2>. QED
    BY <2>1, SMTT(30) DEF InUse
<1>4. Cardinality(InUse(n)) <= Cardinality(others) /\ Cardinality(InUse(n)) \in Nat
  <2> HIDE DEF others
  <2>. QED
    BY <1>2, <1>3, FS_Subset, FS_CardinalityType
<1>5. Cardinality(Task) \in Nat /\ Nodes \in Nat
  BY SchedIrqConstants, NodeBounds, SameSize, FS_CardinalityType
<1>6. Nodes + 1 >= Cardinality(Task)
  BY NodeBounds, SameSize
<1>7. Size(InUse(n)) = Cardinality(InUse(n))
  BY SameSize
<1> HIDE DEF others
<1>. QED
  BY <1>1, <1>4, <1>5, <1>6, <1>7, SMTT(30)

\* With a node for every task: until the timer first cuts into a switch or into
\* task_kill, every READY task is queued exactly once and no other task is queued,
\* whenever a task executes its own code.
THEOREM ReadyTasksAreQueued ==
  ASSUME EnoughNodes
  PROVE  Spec => []ReadyIsQueued
<1>1. (~torn => Inv) => ReadyIsQueued
  BY CoreAtBody, EnoughForAll DEF Inv, ReadyIsQueued, At, Alive
<1>. QED
  BY <1>1, Inductive, PTL
=============================================================================
