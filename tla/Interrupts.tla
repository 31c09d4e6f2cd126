----------------------------- MODULE Interrupts -----------------------------
(***************************************************************************)
(* Interrupts from kmain's boot sequence on, and what they and the other   *)
(* ways to leave and resume a task do to its registers: exception.S,       *)
(* context.S, the branch in schedule(), irq.c, irq_handler.c, gic.c,       *)
(* timer.c, and the SVC path of exception.c and syscall.c.                 *)
(*                                                                         *)
(* Registers are told apart by who saves and restores them:                *)
(*   "x9"        the scratch register of the exception paths               *)
(*   "x23"       kept in the context by switch_to, but also the field      *)
(*               where the scheduler keeps the time a task was resumed     *)
(*   "volatile"  x0-x8, x10-x18 and the condition flags                    *)
(*   "callee"    x19-x22 and x24-x28                                       *)
(*   "link"      x29, x30, sp and pc                                       *)
(* The value of a register is the task that put it there, or "junk".       *)
(*                                                                         *)
(* Which task is next is any the scheduler could pick; the calls are one   *)
(* step here (SchedIrq has the interrupt inside of them).                  *)
(***************************************************************************)
EXTENDS Integers, FiniteSets

CONSTANTS Task, Idle, NULL

ASSUME InterruptsConstants == Idle \in Task /\ NULL \notin Task /\ "junk" \notin Task

Reg == {"x9", "x23", "volatile", "callee", "link"}

\* What switch_to saves: x19-x30, sp and pc.
CalleeSaved == {"x23", "callee", "link"}

BootPlaces == {"gic_init", "install", "arm", "enable", "create_idle", "set_current", "daifclr"}

VARIABLES
  place,     \* the next statement of kmain, "body" when it is done
  flow,      \* the task whose code the CPU executes; kmain is the idle task
  current,   \* current_task
  alive,     \* the tasks created and not ended
  fresh,     \* the tasks that are still to be created
  started,   \* the tasks that are past the reads of task_entry_wrapper
  regs,      \* the registers
  masked,    \* PSTATE.I
  ctx,       \* task->context but for pstate
  spsr,      \* PSTATE.I in task->context.pstate
  frame,     \* the exception frame on the stack
  handler,   \* irq_table[TIMER_IRQ] is set
  enabled,   \* the interrupt controller forwards TIMER_IRQ
  gic,       \* the interrupt controller is on
  active,    \* TIMER_IRQ is acknowledged and not ended
  timer,     \* "off", "counting" or "expired"
  jiffies,   \* the lowest bit of jiffies
  saved,     \* history: how a task was left, "irq", "call" or "new", if it was
  excused,   \* history: the registers a task cannot count on
  bare,      \* history: the tasks resumed by the branch before they had started
  wild,      \* history: the tasks whose entry point was not their own
  svc_ended  \* history: a task was ended by a system call

cpuVars  == <<place, flow, regs, masked, frame>>
taskVars == <<current, alive, fresh, started, ctx, spsr>>
gicVars  == <<handler, enabled, gic, active, timer, jiffies>>
history  == <<saved, excused, bare, wild, svc_ended>>
vars     == <<cpuVars, taskVars, gicVars, history>>

All(v) == [r \in Reg |-> v]

NoFrame == [at |-> "none"]

-----------------------------------------------------------------------------
(* Saving and restoring. *)

\* The sync handler reads the syndrome into x9 before anything is saved.
SvcFrame == [regs EXCEPT !["x9"] = "junk"]

\* Every register is loaded from the frame, then x9 is used to load sp.
Eret(f) == [f EXCEPT !["x9"] = "junk"]

\* switch_to, the half that saves.
SwitchSave(c, t) ==
  [c EXCEPT ![t] = [r \in Reg |-> IF r \in CalleeSaved THEN regs[r] ELSE @[r]]]

\* Mutant: x19-x28 are not loaded.
SwitchLoadLink(c, t) == [r \in Reg |-> IF r = "link" THEN c[t][r] ELSE "junk"]

\* switch_to, the half that restores.
SwitchLoad(c, t) == [r \in Reg |-> IF r \in CalleeSaved THEN c[t][r] ELSE "junk"]

\* The branch in schedule() for a task that has ended.
BranchLoad(c, t) == [r \in Reg |-> IF r = "link" THEN c[t][r] ELSE "junk"]

\* The time stamp that eevdf_update_curr, schedule and schedule_preempt write.
Stamp(c, t) == [c EXCEPT ![t]["x23"] = "junk"]

\* The registers that a task left in one way and resumed in another loses.
Lost(left, resumed) ==
  {"x9", "x23"} \cup (IF left # "irq" \/ resumed # "eret" THEN {"volatile"} ELSE {})
                \cup (IF resumed = "branch" THEN {"callee"} ELSE {})

-----------------------------------------------------------------------------
(* Which task is next. *)

Ready == alive \ {Idle, current}

\* A task that goes on may be picked itself; idle is picked if nobody else is.
NextAfter(prev) ==
  IF Ready # {} THEN Ready \cup ({prev} \ {Idle}) ELSE {prev}

NextAfterEnd == IF Ready # {} THEN Ready ELSE {Idle}

\* The program goes on: no entry point was read from a lost context.
Sane == wild = {}

Running == Sane /\ frame = NoFrame

InBody == Running /\ place = "body" /\ flow \in started

-----------------------------------------------------------------------------
(* kmain from gic_init to its last loop. *)

BootGoto(from, to) == Running /\ place = from /\ place' = to

GicInit ==
  /\ BootGoto("gic_init", "install")
  /\ gic' = TRUE /\ enabled' = FALSE /\ masked' = FALSE
  /\ UNCHANGED <<flow, regs, frame, taskVars, handler, active, timer, jiffies, history>>

InstallHandler ==
  /\ BootGoto("install", "arm")
  /\ handler' = TRUE
  /\ UNCHANGED <<flow, regs, masked, frame, taskVars, enabled, gic, active, timer, jiffies, history>>

ArmTimer ==
  /\ BootGoto("arm", "enable")
  /\ timer' = "counting"
  /\ UNCHANGED <<flow, regs, masked, frame, taskVars, handler, enabled, gic, active, jiffies, history>>

EnableIrq ==
  /\ BootGoto("enable", "create_idle")
  /\ enabled' = TRUE
  /\ UNCHANGED <<flow, regs, masked, frame, taskVars, handler, gic, active, timer, jiffies, history>>

\* task_init up to where idle becomes the current task: nobody is, so far.
CreateIdle ==
  /\ BootGoto("create_idle", "set_current")
  /\ alive' = {Idle}
  /\ ctx' = [ctx EXCEPT ![Idle] = All(Idle)]
  /\ spsr' = [spsr EXCEPT ![Idle] = FALSE]
  /\ UNCHANGED <<flow, regs, masked, frame, current, fresh, started, gicVars, history>>

\* From here on kmain is the idle task.
SetCurrentIdle ==
  /\ BootGoto("set_current", "daifclr")
  /\ current' = Idle
  /\ UNCHANGED <<flow, regs, masked, frame, alive, fresh, started, ctx, spsr, gicVars, history>>

UnmaskIrqs ==
  /\ BootGoto("daifclr", "body")
  /\ masked' = FALSE
  /\ UNCHANGED <<flow, regs, frame, taskVars, gicVars, history>>

Boot ==
  \/ GicInit \/ InstallHandler \/ ArmTimer \/ EnableIrq
  \/ CreateIdle \/ SetCurrentIdle \/ UnmaskIrqs

-----------------------------------------------------------------------------
(* The timer interrupt. *)

Expire ==
  /\ timer = "counting" /\ timer' = "expired"
  /\ UNCHANGED <<cpuVars, taskVars, handler, enabled, gic, active, jiffies, history>>

Signalled == gic /\ enabled /\ timer = "expired" /\ ~active

\* irq_handler_spx up to handle_irq, and gic_ack_irq.  When the request was
\* withdrawn the controller has nothing to acknowledge and answers 1023.
IrqEnter ==
  /\ Running /\ ~masked /\ gic
  /\ frame' = [at |-> "dispatch", irq |-> IF Signalled THEN "timer" ELSE "spurious",
               regs |-> regs, i |-> masked, flow |-> flow, left |-> "irq",
               switched |-> FALSE]
  /\ active' = (active \/ Signalled)
  /\ regs' = All("junk") /\ masked' = TRUE
  /\ UNCHANGED <<place, flow, taskVars, handler, enabled, gic, timer, jiffies, history>>

\* schedule_preempt returns at once.
PreemptNobody ==
  /\ current = NULL
  /\ frame' = [frame EXCEPT !.at = "eoi"]
  /\ UNCHANGED <<current, ctx, spsr, saved>>

\* schedule_preempt saves the frame and keeps the task.
PreemptStay ==
  /\ current # NULL /\ current \in NextAfter(current)
  /\ ctx' = Stamp([ctx EXCEPT ![current] = frame.regs], current)
  /\ spsr' = [spsr EXCEPT ![current] = frame.i]
  /\ frame' = [frame EXCEPT !.at = "eoi"]
  /\ UNCHANGED <<current, saved>>

\* Mutant: the frame is not saved.
PreemptSwitchUnsaved(next) ==
  /\ current # NULL /\ next # current /\ next \in NextAfter(current)
  /\ ctx' = Stamp(Stamp(ctx, current), next)
  /\ spsr' = [spsr EXCEPT ![current] = frame.i]
  /\ frame' = [frame EXCEPT !.at = "eoi", !.regs = ctx'[next], !.i = spsr'[next],
                            !.flow = next, !.left = saved[next], !.switched = TRUE]
  /\ saved' = [saved EXCEPT ![current] = "irq", ![next] = "none"]
  /\ current' = next

\* schedule_preempt saves the frame and puts the context of next there.
PreemptSwitch(next) ==
  /\ current # NULL /\ next # current /\ next \in NextAfter(current)
  /\ ctx' = Stamp(Stamp([ctx EXCEPT ![current] = frame.regs], current), next)
  /\ spsr' = [spsr EXCEPT ![current] = frame.i]
  /\ frame' = [frame EXCEPT !.at = "eoi", !.regs = ctx'[next], !.i = spsr'[next],
                            !.flow = next, !.left = saved[next], !.switched = TRUE]
  /\ saved' = [saved EXCEPT ![current] = "irq", ![next] = "none"]
  /\ current' = next

\* timer_irq_handler: the next tick is set after the scheduler has run.
TimerTick ==
  /\ jiffies' = 1 - jiffies
  /\ timer' = "counting"
  /\ PreemptNobody \/ PreemptStay \/ \E next \in alive : PreemptSwitch(next)

\* handle_irq between acknowledging and ending the interrupt.
IrqDispatch ==
  /\ Sane /\ frame.at = "dispatch"
  /\ IF frame.irq = "timer" /\ handler
     THEN TimerTick
     ELSE /\ frame' = [frame EXCEPT !.at = "eoi"]
          /\ UNCHANGED <<current, ctx, spsr, saved, timer, jiffies>>
  /\ UNCHANGED <<place, flow, regs, masked, alive, fresh, started, handler,
                 enabled, gic, active, excused, bare, wild, svc_ended>>

\* Mutant: the interrupt is not ended.
IrqExitActive ==
  /\ Sane /\ frame.at = "eoi"
  /\ regs' = Eret(frame.regs) /\ masked' = frame.i /\ flow' = frame.flow
  /\ frame' = NoFrame
  /\ excused' = [excused EXCEPT ![frame.flow] = @ \cup {"x9"} \cup
                   (IF frame.switched THEN Lost(frame.left, "eret") ELSE {})]
  /\ UNCHANGED <<active, place, taskVars, handler, enabled, gic, timer, jiffies, saved,
                 bare, wild, svc_ended>>

\* gic_eoi_irq and the rest of irq_handler_spx.
IrqExit ==
  /\ Sane /\ frame.at = "eoi"
  /\ active' = (active /\ frame.irq # "timer")
  /\ regs' = Eret(frame.regs) /\ masked' = frame.i /\ flow' = frame.flow
  /\ frame' = NoFrame
  /\ excused' = [excused EXCEPT ![frame.flow] = @ \cup {"x9"} \cup
                   (IF frame.switched THEN Lost(frame.left, "eret") ELSE {})]
  /\ UNCHANGED <<place, taskVars, handler, enabled, gic, timer, jiffies, saved,
                 bare, wild, svc_ended>>

-----------------------------------------------------------------------------
(* What tasks do. *)

\* A task computes: its registers hold its own values again.
Compute ==
  /\ InBody /\ regs' = All(flow)
  /\ excused' = [excused EXCEPT ![flow] = {}]
  /\ UNCHANGED <<place, flow, masked, frame, taskVars, gicVars, saved, bare, wild, svc_ended>>

\* task_entry_wrapper reads entry and arguments from the context in memory.
EntryWrapper ==
  /\ Running /\ place = "body" /\ flow \notin started
  /\ started' = started \cup {flow}
  /\ wild' = IF ctx[flow]["callee"] = flow THEN wild ELSE wild \cup {flow}
  /\ UNCHANGED <<cpuVars, current, alive, fresh, ctx, spsr, gicVars, saved, excused,
                 bare, svc_ended>>

\* task_create: entry and arguments in x19-x22, IRQs enabled in pstate.
Create(t) ==
  /\ InBody /\ t \in fresh
  /\ fresh' = fresh \ {t} /\ alive' = alive \cup {t}
  /\ ctx' = [ctx EXCEPT ![t] = All(t)]
  /\ spsr' = [spsr EXCEPT ![t] = FALSE]
  /\ saved' = [saved EXCEPT ![t] = "new"]
  /\ UNCHANGED <<cpuVars, current, started, gicVars, excused, bare, wild, svc_ended>>

\* schedule() called by a task that is picked again.
ScheduleStay ==
  /\ InBody /\ flow \in NextAfter(flow)
  /\ ctx' = Stamp(ctx, flow)
  /\ UNCHANGED <<cpuVars, current, alive, fresh, started, spsr, gicVars, history>>

\* schedule() called by a task: switch_to neither saves nor restores PSTATE.
CallSchedule(next) ==
  /\ InBody /\ next \in NextAfter(flow) \ {flow}
  /\ LET c == Stamp(SwitchSave(ctx, flow), next)
     IN  ctx' = c /\ regs' = SwitchLoad(c, next)
  /\ flow' = next /\ current' = next
  /\ saved' = [saved EXCEPT ![flow] = "call", ![next] = "none"]
  /\ excused' = [excused EXCEPT ![next] = @ \cup Lost(saved[next], "switch")]
  /\ UNCHANGED <<place, masked, frame, alive, fresh, started, spsr, gicVars, bare, wild, svc_ended>>

\* task_kill of another task.
KillOther(t) ==
  /\ InBody /\ t \in Ready
  /\ alive' = alive \ {t}
  /\ UNCHANGED <<cpuVars, current, fresh, started, ctx, spsr, gicVars, history>>

\* The end of the current task, from task_set_current(NULL) to the branch; the
\* mask stays as it is.
EndTo(next, mask) ==
  /\ alive' = alive \ {flow}
  /\ ctx' = Stamp(ctx, next)
  /\ regs' = BranchLoad(ctx', next)
  /\ flow' = next /\ current' = next /\ masked' = mask
  /\ excused' = [excused EXCEPT ![next] = @ \cup Lost(saved[next], "branch"), ![flow] = {}]
  /\ saved' = [saved EXCEPT ![next] = "none"]
  /\ bare' = bare \cup ({next} \ started)
  /\ UNCHANGED <<place, frame, fresh, started, spsr, gicVars, wild>>

\* task_exit, or task_kill of the caller itself, called directly.
Exit ==
  /\ InBody /\ flow # Idle
  /\ \E next \in NextAfterEnd : EndTo(next, masked)
  /\ UNCHANGED svc_ended

\* SYS_EXIT, or SYS_KILL of the caller: as Exit, with IRQs masked by the
\* exception; the frame is abandoned with the stack.
SvcExit ==
  /\ InBody /\ flow # Idle
  /\ \E next \in NextAfterEnd : EndTo(next, TRUE)
  /\ svc_ended' = TRUE

\* Mutant: the mask of the caller is not restored.
SvcReturnMasked ==
  /\ InBody
  /\ \/ \E t \in Ready : alive' = alive \ {t}
     \/ UNCHANGED alive
  /\ regs' = Eret(SvcFrame) /\ masked' = TRUE
  /\ excused' = [excused EXCEPT ![flow] = @ \cup {"x9"}]
  /\ UNCHANGED <<place, flow, frame, current, fresh, started, ctx, spsr, gicVars, saved,
                 bare, wild, svc_ended>>

\* A system call that returns: SYS_WRITE, an invalid one, or SYS_KILL of
\* another task.  should_reschedule answers 0: the current task is no zombie.
SvcReturn ==
  /\ InBody
  /\ \/ \E t \in Ready : alive' = alive \ {t}
     \/ UNCHANGED alive
  /\ regs' = Eret(SvcFrame) /\ masked' = masked
  /\ excused' = [excused EXCEPT ![flow] = @ \cup {"x9"}]
  /\ UNCHANGED <<place, flow, frame, current, fresh, started, ctx, spsr, gicVars, saved,
                 bare, wild, svc_ended>>

-----------------------------------------------------------------------------
\* kmain before exception_init: nothing is enabled, no task exists.
Init ==
  /\ place = "gic_init" /\ flow = Idle /\ current = NULL
  /\ alive = {} /\ fresh = Task \ {Idle} /\ started = {Idle}
  /\ regs = All(Idle) /\ masked = TRUE
  /\ ctx = [t \in Task |-> All("junk")] /\ spsr = [t \in Task |-> FALSE]
  /\ frame = NoFrame
  /\ handler = FALSE /\ enabled = FALSE /\ gic = FALSE /\ active = FALSE
  /\ timer = "off" /\ jiffies = 0
  /\ saved = [t \in Task |-> "none"] /\ excused = [t \in Task |-> {}]
  /\ bare = {} /\ wild = {} /\ svc_ended = FALSE

Interrupt == IrqEnter \/ IrqDispatch \/ IrqExit

TaskStep ==
  \/ Compute \/ EntryWrapper \/ ScheduleStay \/ Exit \/ SvcExit \/ SvcReturn
  \/ \E t \in Task : Create(t) \/ CallSchedule(t) \/ KillOther(t)

Next == Boot \/ Expire \/ Interrupt \/ TaskStep

Spec == Init /\ [][Next]_vars

\* An armed timer expires, and a pending interrupt is taken and handled.  The
\* handlers take less time than a tick, so interrupts do not come one upon the
\* other for ever and kmain gets on between them.
FairSpec == Spec /\ SF_vars(Boot) /\ WF_vars(Expire) /\ WF_vars(Interrupt)

-----------------------------------------------------------------------------
(* Properties. *)

\* The values the variables take.
TypeOK ==
  /\ place \in BootPlaces \cup {"body"}
  /\ flow \in Task /\ current \in Task \cup {NULL}
  /\ alive \in SUBSET Task /\ fresh \in SUBSET Task /\ started \in SUBSET Task
  /\ regs \in [Reg -> Task \cup {"junk"}] /\ masked \in BOOLEAN
  /\ ctx \in [Task -> [Reg -> Task \cup {"junk"}]] /\ spsr \in [Task -> BOOLEAN]
  /\ saved \in [Task -> {"irq", "call", "new", "none"}] /\ excused \in [Task -> SUBSET Reg]

\* A task goes on with its own registers, whatever ran between: all of them but
\* x9 after an exception, x23 after a switch, the volatile ones if it was not
\* left by an interrupt and resumed by eret, and the callee-saved ones if it was
\* resumed by the branch in schedule().  Its stack and its place are never lost.
OnlyKnownLosses ==
  frame = NoFrame => /\ \A r \in Reg : regs[r] = flow \/ r \in excused[flow]
                     /\ regs["link"] = flow

\* task_entry_wrapper reads its own task's entry and arguments, unless the task
\* was resumed by the branch in schedule() before that: an interrupt before the
\* reads then saves registers never loaded over the entry in the context.
EntryIsOwn == wild \subseteq bare

\* A task's code runs with interrupts masked only after some task was ended by
\* a system call: the branch in schedule() inherits the mask of the exception,
\* every other way back restores or keeps an enabled one.
MaskedOnlyAfterSvcExit ==
  Running /\ place \in {"daifclr", "body"} /\ masked => svc_ended

\* The timer ticks for ever once the kernel is up, boot sequence, switches and
\* spurious interrupts included, unless a task was ended by a system call or
\* the program was lost.
TicksGoOn == ([]<>(jiffies = 0) /\ []<>(jiffies = 1)) \/ <>(svc_ended \/ ~Sane)
=============================================================================
