----------------------------- MODULE SchedRefine -----------------------------
(***************************************************************************)
(* The statement-level scheduler of SchedIrq implements the atomic one of  *)
(* Sched as long as the timer interrupt arrives in task bodies only.  What *)
(* Sched sees is the state at the last moment at which no call was in      *)
(* progress, kept in the history variable `seen'.                          *)
(***************************************************************************)
EXTENDS SchedIrq, Sequences

VARIABLE seen

\* task_list followed through the next pointers.
ListFrom[n \in 0 .. Cardinality(Task), t \in Task \cup {NULL}] ==
  IF n = 0 \/ t = NULL THEN <<>> ELSE <<t>> \o ListFrom[n - 1, nxt[t]]

TaskList == ListFrom[Cardinality(Task), head]

\* The variables of Sched, read off those of SchedIrq.
Visible ==
  [state |-> state, pid |-> pid, bitmap |-> bitmap, list |-> TaskList,
   rq |-> Queued(nodes), current |-> current, masked |-> masked,
   panicked |-> panicked]

SeenInit == Init /\ seen = Visible

\* The timer interrupt arrives between calls only.
Undisturbed == Call \/ Svc \/ Step \/ (At("body") /\ TimerIrq)

\* A call is seen when it has returned, or has ended in a panic.
SeenNext ==
  /\ Undisturbed
  /\ seen' = IF cpu'.at = "body" \/ panicked' THEN Visible' ELSE seen

SeenSpec == SeenInit /\ [][SeenNext]_<<vars, seen>> /\ WF_<<vars, seen>>(Step /\ SeenNext)

\* vruntime is left out of SchedIrq: any queued task may be leftmost, as when
\* all have the same.
Atomic == INSTANCE Sched WITH
  VrMod <- 1, DeltaFair <- {0}, vruntime <- [t \in Task |-> 0], min_vruntime <- 0,
  state <- seen.state, pid <- seen.pid, bitmap <- seen.bitmap, list <- seen.list,
  rq <- seen.rq, current <- seen.current, masked <- seen.masked,
  panicked <- seen.panicked

\* schedule, task_exit, task_kill and task_create, statement by statement, do
\* what Sched says they do in one step, on every path through them.
ImplementsSched == Atomic!Spec

\* Every call comes to an end: it returns, hands the CPU to another task or
\* panics; none spins for ever on pid_lock.
CallsEnd == (cpu.at # "body") ~> (cpu.at = "body" \/ panicked)
=============================================================================
