--------------------------- MODULE InterruptsProofs ---------------------------
(***************************************************************************)
(* Theorems about Interrupts, for any set of tasks: which registers a task *)
(* can count on, whose entry point it starts at, and when it runs with     *)
(* interrupts masked.                                                      *)
(***************************************************************************)
EXTENDS Interrupts, TLAPS

Value == Task \cup {"junk"}

Left == {"irq", "call", "new", "none"}

Frames ==
  [at : {"dispatch", "eoi"}, irq : {"timer", "spurious"}, regs : [Reg -> Value],
   i : BOOLEAN, flow : Task, left : Left, switched : BOOLEAN]

IrqType == TypeOK /\ frame \in Frames \cup {NoFrame}

\* Until kmain is the idle task there is no current task, and until it is done
\* with the boot sequence there is no other task at all.
BootInv ==
  /\ current = NULL <=> place \notin {"daifclr", "body"}
  /\ current # NULL => current \in alive
  /\ place \in {"set_current", "daifclr", "body"} => Idle \in alive
  /\ Idle \in started /\ Idle \notin fresh
  /\ fresh \cap alive = {} /\ fresh \cap started = {}
  /\ place # "body" => flow = Idle /\ alive \subseteq {Idle}

\* The current task is the one whose code runs or will when the exception ends.
FlowInv ==
  /\ frame = NoFrame /\ current # NULL => flow = current
  /\ frame # NoFrame /\ current # NULL => frame.flow = current
  /\ frame # NoFrame /\ current = NULL => frame.flow = Idle
  /\ frame.at = "dispatch" => frame.flow = flow /\ ~frame.switched

\* The registers in a frame are those of the task it belongs to, but for what
\* leaving the exception is known to lose.
FrameInv ==
  frame # NoFrame =>
    /\ \A r \in Reg : \/ frame.regs[r] = frame.flow
                      \/ r \in excused[frame.flow] \cup {"x9"}
                      \/ frame.switched /\ r \in Lost(frame.left, "eret")
    /\ frame.at = "dispatch" =>
         \A r \in Reg : frame.regs[r] = frame.flow \/ r \in excused[frame.flow]
    /\ frame.regs["link"] = frame.flow

\* The context of a task that does not run, as it was left.
SavedInv ==
  \A t \in alive : current # NULL /\ t # current =>
    /\ saved[t] # "none"
    /\ ctx[t]["link"] = t
    /\ ctx[t]["callee"] = t \/ "callee" \in excused[t]
    /\ saved[t] = "irq" =>
         \A r \in Reg \ {"x23"} : ctx[t][r] = t \/ r \in excused[t]

\* The entry point of a task that has yet to read it is in its context and
\* wherever its registers are.
EntryInv ==
  \A t \in alive \ (started \cup bare) :
    /\ ctx[t]["callee"] = t
    /\ frame = NoFrame /\ flow = t => regs["callee"] = t
    /\ frame # NoFrame /\ frame.flow = t => frame.regs["callee"] = t

\* Interrupts are enabled wherever one was taken.
MaskInv ==
  /\ \A t \in Task : ~spsr[t]
  /\ frame # NoFrame => ~frame.i
  /\ frame = NoFrame /\ masked => place = "gic_init" \/ svc_ended

\* The inductive invariant.
IrqInv ==
  /\ IrqType /\ BootInv /\ FlowInv /\ FrameInv /\ SavedInv /\ EntryInv /\ MaskInv
  /\ OnlyKnownLosses /\ EntryIsOwn

-----------------------------------------------------------------------------
(* The statements of kmain. *)

\* The invariant holds when kmain comes to gic_init.
LEMMA InitInv == Init => IrqInv
BY InterruptsConstants, SMTT(30)
DEF Init, IrqInv, IrqType, TypeOK, BootInv, FlowInv, FrameInv, SavedInv, EntryInv,
    MaskInv, OnlyKnownLosses, EntryIsOwn, BootPlaces, All, NoFrame, Reg

\* The statements of kmain from gic_init on keep the invariant.
LEMMA BootKeeps == IrqInv /\ Boot => IrqInv'
<1> SUFFICES ASSUME IrqInv, Boot PROVE IrqInv'
  OBVIOUS
<1> USE InterruptsConstants
    DEF IrqInv, IrqType, TypeOK, BootInv, FlowInv, FrameInv, SavedInv, EntryInv, MaskInv,
        OnlyKnownLosses, EntryIsOwn, BootPlaces, BootGoto, Running, taskVars, gicVars, history
<1>1. CASE GicInit
  BY <1>1 DEF GicInit
<1>2. CASE InstallHandler
  BY <1>2 DEF InstallHandler
<1>3. CASE ArmTimer
  BY <1>3 DEF ArmTimer
<1>4. CASE EnableIrq
  BY <1>4 DEF EnableIrq
<1>5. CASE CreateIdle
  BY <1>5 DEF CreateIdle, All, Reg
<1>6. CASE SetCurrentIdle
  BY <1>6 DEF SetCurrentIdle
<1>7. CASE UnmaskIrqs
  BY <1>7 DEF UnmaskIrqs
<1>. QED
  BY <1>1, <1>2, <1>3, <1>4, <1>5, <1>6, <1>7 DEF Boot

-----------------------------------------------------------------------------
(* The timer interrupt. *)

\* The timer's expiry, which touches nothing of a task, keeps it.
LEMMA ExpireKeeps == IrqInv /\ Expire => IrqInv'
BY DEF Expire, IrqInv, IrqType, TypeOK, BootInv, FlowInv, FrameInv, SavedInv,
   EntryInv, MaskInv, OnlyKnownLosses, EntryIsOwn, cpuVars, taskVars, history

\* irq_handler_spx saves the registers of the task it interrupts.
LEMMA IrqEnterKeeps == IrqInv /\ IrqEnter => IrqInv'
<1> SUFFICES ASSUME IrqInv, IrqEnter PROVE IrqInv'
  OBVIOUS
<1> USE InterruptsConstants
    DEF IrqInv, IrqType, TypeOK, BootInv, FlowInv, FrameInv, SavedInv, EntryInv, MaskInv,
        OnlyKnownLosses, EntryIsOwn, IrqEnter, Running, taskVars, history
<1>1. frame' \in Frames /\ frame' # NoFrame
  BY DEF Frames, Value, Left, NoFrame
<1>. QED
  BY <1>1 DEF All, Reg

\* A tick that keeps the task, or that finds nobody to switch to.
LEMMA DispatchStayKeeps ==
  ASSUME IrqInv, frame.at = "dispatch", frame' = [frame EXCEPT !.at = "eoi"],
         UNCHANGED <<place, flow, regs, masked, alive, fresh, started, current, saved,
                     excused, bare, wild, svc_ended>>,
         \/ UNCHANGED <<ctx, spsr>>
         \/ /\ current # NULL
            /\ ctx' = Stamp([ctx EXCEPT ![current] = frame.regs], current)
            /\ spsr' = [spsr EXCEPT ![current] = frame.i]
  PROVE  IrqInv'
<1> USE DEF IrqInv
<1>1. frame \in Frames /\ frame # NoFrame
  BY DEF IrqType, NoFrame
<1>2. /\ frame' \in Frames /\ frame' # NoFrame /\ frame'.at = "eoi"
      /\ frame'.regs = frame.regs /\ frame'.flow = frame.flow /\ frame'.i = frame.i
      /\ frame'.left = frame.left /\ frame'.switched = frame.switched
  BY <1>1 DEF Frames, NoFrame
<1>3. current # NULL => current \in Task /\ current = frame.flow
  BY <1>1 DEF IrqType, TypeOK, FlowInv
<1>4. ctx' \in [Task -> [Reg -> Value]] /\ spsr' \in [Task -> BOOLEAN]
  BY <1>1, <1>3 DEF IrqType, TypeOK, Frames, Stamp, Value, Reg
<1>5. \A t \in Task : t # current => ctx'[t] = ctx[t]
  BY <1>3 DEF Stamp, IrqType, TypeOK
<1>6. current # NULL => ctx'[current]["callee"] \in {ctx[current]["callee"], frame.regs["callee"]}
  BY <1>1, <1>3 DEF Stamp, IrqType, TypeOK, Reg, Frames
<1>7. IrqType' /\ BootInv' /\ EntryIsOwn'
  BY <1>2, <1>4 DEF IrqType, TypeOK, BootInv, EntryIsOwn, Value
<1>8. FlowInv' /\ FrameInv' /\ OnlyKnownLosses'
  BY <1>1, <1>2 DEF FlowInv, FrameInv, OnlyKnownLosses
<1>9. SavedInv'
  BY <1>5 DEF SavedInv, IrqType, TypeOK
<1>10. EntryInv'
  BY <1>1, <1>2, <1>3, <1>5, <1>6 DEF EntryInv, IrqType, TypeOK
<1>11. MaskInv'
  BY <1>1, <1>2, <1>3 DEF MaskInv, IrqType, TypeOK
<1>. QED
  BY <1>7, <1>8, <1>9, <1>10, <1>11

\* A tick that switches to another task.
LEMMA PreemptSwitchKeeps ==
  ASSUME NEW next \in alive, IrqInv, frame.at = "dispatch", PreemptSwitch(next),
         UNCHANGED <<place, flow, regs, masked, alive, fresh, started,
                     excused, bare, wild, svc_ended>>
  PROVE  IrqInv'
<1> USE DEF IrqInv
<1>1. frame \in Frames /\ frame # NoFrame
  BY DEF IrqType, NoFrame
<1>2. /\ current \in Task /\ next \in Task /\ current # next /\ current # NULL
      /\ frame.flow = current /\ flow = current
  BY <1>1 DEF IrqType, TypeOK, FlowInv, PreemptSwitch
<1>3. ctx' \in [Task -> [Reg -> Value]] /\ spsr' \in [Task -> BOOLEAN] /\ saved' \in [Task -> Left]
  BY <1>1, <1>2 DEF IrqType, TypeOK, Frames, Stamp, Value, Reg, Left, PreemptSwitch
<1>4. /\ \A t \in Task \ {current, next} : ctx'[t] = ctx[t] /\ saved'[t] = saved[t]
      /\ \A r \in Reg \ {"x23"} : ctx'[current][r] = frame.regs[r] /\ ctx'[next][r] = ctx[next][r]
      /\ saved'[current] = "irq" /\ current' = next
      /\ \A t \in Task \ {current} : spsr'[t] = spsr[t]
      /\ spsr'[current] = frame.i
  BY <1>1, <1>2 DEF IrqType, TypeOK, Frames, Stamp, Value, Reg, PreemptSwitch
<1>5. /\ frame' \in Frames /\ frame' # NoFrame /\ frame'.at = "eoi"
      /\ frame'.regs = ctx'[next] /\ frame'.flow = next /\ frame'.i = spsr'[next]
      /\ frame'.left = saved[next] /\ frame'.switched
  <2>1. ctx'[next] \in [Reg -> Value] /\ spsr'[next] \in BOOLEAN /\ saved[next] \in Left
    BY <1>2, <1>3 DEF IrqType, TypeOK, Left
  <2>2. frame' = [frame EXCEPT !.at = "eoi", !.regs = ctx'[next], !.i = spsr'[next],
                               !.flow = next, !.left = saved[next], !.switched = TRUE]
    BY DEF PreemptSwitch
  <2>. QED
    BY <1>1, <1>2, <2>1, <2>2 DEF Frames, NoFrame
<1>6. /\ next \notin started \cup bare => ctx[next]["callee"] = next
      /\ saved[next] # "none" /\ ctx[next]["link"] = next
      /\ ctx[next]["callee"] = next \/ "callee" \in excused[next]
      /\ saved[next] = "irq" => \A r \in Reg \ {"x23"} : ctx[next][r] = next \/ r \in excused[next]
  BY <1>2 DEF SavedInv, EntryInv
<1>7. IrqType' /\ EntryIsOwn'
  BY <1>2, <1>3, <1>4, <1>5 DEF IrqType, TypeOK, EntryIsOwn, Value, Left
<1>8. BootInv' /\ FlowInv' /\ OnlyKnownLosses'
  BY <1>2, <1>4, <1>5, InterruptsConstants
  DEF BootInv, FlowInv, OnlyKnownLosses, IrqType, TypeOK
<1>9. FrameInv'
  BY <1>4, <1>5, <1>6 DEF FrameInv, Lost, Reg
<1>10. SavedInv'
  <2>1. /\ frame.regs["link"] = current
        /\ \A r \in Reg : frame.regs[r] = current \/ r \in excused[current]
    BY <1>1, <1>2 DEF FrameInv
  <2>. QED
    BY <1>2, <1>4, <2>1 DEF SavedInv, IrqType, TypeOK, Reg
<1>11. EntryInv'
  BY <1>1, <1>2, <1>4, <1>5, <1>6 DEF EntryInv, IrqType, TypeOK, Reg
<1>12. MaskInv'
  BY <1>1, <1>2, <1>4, <1>5 DEF MaskInv, IrqType, TypeOK
<1>. QED
  BY <1>7, <1>8, <1>9, <1>10, <1>11, <1>12

\* handle_irq, whether the timer or nobody has asked for it, keeps the invariant.
LEMMA IrqDispatchKeeps == IrqInv /\ IrqDispatch => IrqInv'
<1> SUFFICES ASSUME IrqInv, IrqDispatch PROVE IrqInv'
  OBVIOUS
<1>1. CASE \E next \in alive : PreemptSwitch(next)
  BY <1>1, PreemptSwitchKeeps DEF IrqDispatch
<1>2. CASE PreemptNobody \/ PreemptStay
  BY <1>2, DispatchStayKeeps DEF IrqDispatch, PreemptNobody, PreemptStay
<1>3. CASE frame' = [frame EXCEPT !.at = "eoi"] /\ UNCHANGED <<current, ctx, spsr, saved>>
  BY <1>3, DispatchStayKeeps DEF IrqDispatch
<1>. QED
  BY <1>1, <1>2, <1>3 DEF IrqDispatch, TimerTick

\* What irq_handler_spx restores belongs to the task it returns to.
LEMMA IrqExitKeeps == IrqInv /\ IrqExit => IrqInv'
<1> SUFFICES ASSUME IrqInv, IrqExit PROVE IrqInv'
  OBVIOUS
<1> USE DEF IrqInv, IrqExit, taskVars
<1>1. frame \in Frames /\ frame # NoFrame /\ frame' = NoFrame
  BY DEF IrqType, NoFrame, Frames
<1>2. flow' = frame.flow /\ flow' \in Task /\ frame.regs \in [Reg -> Value]
  BY <1>1 DEF Frames
<1>3. IrqType' /\ EntryIsOwn'
  <2>1. excused' \in [Task -> SUBSET Reg]
    BY <1>2 DEF IrqType, TypeOK, Lost, Reg
  <2>2. regs' \in [Reg -> Value] /\ masked' \in BOOLEAN
    BY <1>1, <1>2 DEF Frames, Eret, Reg, Value
  <2>. QED
    BY <1>1, <1>2, <2>1, <2>2 DEF IrqType, TypeOK, EntryIsOwn, Value
<1>4. BootInv' /\ FlowInv' /\ FrameInv'
  BY <1>1, <1>2 DEF BootInv, FlowInv, FrameInv, NoFrame
<1>5. SavedInv' /\ EntryInv'
  BY <1>1, <1>2 DEF SavedInv, EntryInv, FlowInv, IrqType, TypeOK, Eret, Reg
<1>6. MaskInv'
  BY <1>1 DEF MaskInv
<1>7. OnlyKnownLosses'
  BY <1>1, <1>2 DEF OnlyKnownLosses, FrameInv, Eret, Reg, IrqType, TypeOK
<1>. QED
  BY <1>3, <1>4, <1>5, <1>6, <1>7

-----------------------------------------------------------------------------
(* What tasks do. *)

\* A task that computes gives its registers values of its own.
LEMMA ComputeKeeps == IrqInv /\ Compute => IrqInv'
BY InterruptsConstants
DEF Compute, InBody, Running, All, Reg, IrqInv, IrqType, TypeOK, BootInv, FlowInv,
    FrameInv, SavedInv, EntryInv, MaskInv, OnlyKnownLosses, EntryIsOwn, taskVars,
    gicVars

\* task_entry_wrapper reads the task's own entry point, unless it was resumed by the branch.
LEMMA EntryWrapperKeeps == IrqInv /\ EntryWrapper => IrqInv'
BY InterruptsConstants
DEF EntryWrapper, Running, IrqInv, IrqType, TypeOK, BootInv, FlowInv, FrameInv,
    SavedInv, EntryInv, MaskInv, OnlyKnownLosses, EntryIsOwn, cpuVars, gicVars

\* task_create prepares a context that is the new task's own.
LEMMA CreateKeeps == ASSUME NEW t \in Task PROVE IrqInv /\ Create(t) => IrqInv'
BY InterruptsConstants
DEF Create, InBody, Running, All, Reg, IrqInv, IrqType, TypeOK, BootInv, FlowInv,
    FrameInv, SavedInv, EntryInv, MaskInv, OnlyKnownLosses, EntryIsOwn, cpuVars,
    gicVars

\* task_kill of another task leaves all registers and contexts alone.
LEMMA KillOtherKeeps == ASSUME NEW t \in Task PROVE IrqInv /\ KillOther(t) => IrqInv'
BY InterruptsConstants
DEF KillOther, InBody, Running, Ready, IrqInv, IrqType, TypeOK, BootInv, FlowInv,
    FrameInv, SavedInv, EntryInv, MaskInv, OnlyKnownLosses, EntryIsOwn, cpuVars,
    gicVars, history

\* A system call that returns loses x9 and nothing else.
LEMMA SvcReturnKeeps == IrqInv /\ SvcReturn => IrqInv'
BY InterruptsConstants
DEF SvcReturn, SvcFrame, Eret, Reg, InBody, Running, Ready, IrqInv, IrqType, TypeOK,
    BootInv, FlowInv, FrameInv, SavedInv, EntryInv, MaskInv, OnlyKnownLosses,
    EntryIsOwn, gicVars

\* schedule() that stays with its caller writes only the time stamp.
LEMMA ScheduleStayKeeps == IrqInv /\ ScheduleStay => IrqInv'
BY InterruptsConstants
DEF ScheduleStay, Stamp, Reg, InBody, Running, IrqInv, IrqType, TypeOK, BootInv,
    FlowInv, FrameInv, SavedInv, EntryInv, MaskInv, OnlyKnownLosses, EntryIsOwn,
    cpuVars, gicVars, history
\* switch_to saves and restores x19 to x30 and sp of the two tasks.
LEMMA CallScheduleKeeps ==
  ASSUME NEW next \in Task PROVE IrqInv /\ CallSchedule(next) => IrqInv'
<1> SUFFICES ASSUME IrqInv, CallSchedule(next) PROVE IrqInv'
  OBVIOUS
<1> USE DEF IrqInv, CallSchedule, InBody, Running
<1>1. /\ flow = current /\ current # NULL /\ flow \in Task /\ flow \in started
      /\ next \in alive /\ next # flow /\ frame = NoFrame /\ frame' = NoFrame /\ place = "body"
  BY InterruptsConstants DEF IrqType, TypeOK, BootInv, FlowInv, NextAfter, Ready
<1>2. ctx' \in [Task -> [Reg -> Value]] /\ regs' \in [Reg -> Value] /\ saved' \in [Task -> Left]
  BY <1>1, SMTT(30)
  DEF IrqType, TypeOK, Stamp, SwitchSave, SwitchLoad, CalleeSaved, Value, Reg, Left
<1>3. /\ \A t \in Task \ {flow, next} : ctx'[t] = ctx[t] /\ saved'[t] = saved[t]
      /\ \A r \in {"callee", "link"} : /\ ctx'[flow][r] = regs[r]
                                      /\ ctx'[next][r] = ctx[next][r] /\ regs'[r] = ctx[next][r]
      /\ saved'[flow] = "call"
  BY <1>1 DEF IrqType, TypeOK, Stamp, SwitchSave, SwitchLoad, CalleeSaved, Reg
<1>4. /\ next \notin started \cup bare => ctx[next]["callee"] = next
      /\ ctx[next]["link"] = next
      /\ ctx[next]["callee"] = next \/ "callee" \in excused[next]
  BY <1>1 DEF SavedInv, EntryInv
<1>5. /\ excused' \in [Task -> SUBSET Reg]
      /\ \A t \in Task \ {next} : excused'[t] = excused[t]
      /\ excused[next] \cup {"x9", "x23", "volatile"} \subseteq excused'[next]
  BY DEF IrqType, TypeOK, Lost, Reg
<1>6. IrqType' /\ BootInv' /\ FlowInv' /\ FrameInv' /\ EntryIsOwn'
  <2>1. IrqType'
    BY <1>1, <1>2, <1>5, SMTT(30) DEF IrqType, TypeOK, Value, Left
  <2>2. BootInv'
    BY <1>1, InterruptsConstants DEF IrqType, TypeOK, BootInv
  <2>3. FlowInv' /\ FrameInv'
    BY <1>1 DEF FlowInv, FrameInv, NoFrame
  <2>. QED
    BY <2>1, <2>2, <2>3 DEF EntryIsOwn
<1>7. SavedInv'
  BY <1>1, <1>3, <1>5, SMTT(30) DEF SavedInv, OnlyKnownLosses, IrqType, TypeOK, Reg
<1>8. EntryInv'
  BY <1>1, <1>3, <1>4, SMTT(30) DEF EntryInv, IrqType, TypeOK
<1>9. MaskInv'
  BY <1>1 DEF MaskInv
<1>10. OnlyKnownLosses'
  BY <1>3, <1>4, <1>5 DEF OnlyKnownLosses, Reg
<1>. QED
  BY <1>6, <1>7, <1>8, <1>9, <1>10

\* The branch in schedule() at the end of a task restores x29, x30, sp and pc.
LEMMA EndToKeeps ==
  ASSUME IrqInv, InBody, flow # Idle, NEW next \in NextAfterEnd, NEW mask \in BOOLEAN,
         EndTo(next, mask), mask => masked \/ svc_ended', svc_ended => svc_ended'
  PROVE  IrqInv'
<1> USE DEF IrqInv, EndTo, InBody, Running
<1>1. /\ flow = current /\ current # NULL /\ flow \in Task /\ flow \in started
      /\ next \in alive /\ next \in Task /\ next # flow
      /\ frame = NoFrame /\ frame' = NoFrame /\ place = "body"
  BY InterruptsConstants DEF IrqType, TypeOK, BootInv, FlowInv, NextAfterEnd, Ready
<1>2. ctx' \in [Task -> [Reg -> Value]] /\ regs' \in [Reg -> Value] /\ saved' \in [Task -> Left]
  BY <1>1 DEF IrqType, TypeOK, Stamp, BranchLoad, Value, Reg, Left
<1>3. /\ \A t \in Task \ {next} : ctx'[t] = ctx[t] /\ saved'[t] = saved[t]
      /\ \A r \in {"callee", "link"} : ctx'[next][r] = ctx[next][r]
      /\ regs'["link"] = ctx[next]["link"]
  BY <1>1 DEF IrqType, TypeOK, Stamp, BranchLoad, Reg
<1>4. ctx[next]["link"] = next
  BY <1>1 DEF SavedInv
<1>5. /\ excused' \in [Task -> SUBSET Reg]
      /\ \A t \in Task \ {flow, next} : excused'[t] = excused[t]
      /\ {"x9", "x23", "volatile", "callee"} \subseteq excused'[next]
  BY <1>1 DEF IrqType, TypeOK, Lost, Reg
<1>6. IrqType' /\ BootInv' /\ FlowInv' /\ FrameInv' /\ EntryIsOwn'
  <2>1. IrqType'
    BY <1>1, <1>2, <1>5, SMTT(30) DEF IrqType, TypeOK, Value, Left
  <2>2. BootInv'
    BY <1>1, InterruptsConstants DEF IrqType, TypeOK, BootInv
  <2>3. FlowInv' /\ FrameInv'
    BY <1>1, SMTT(30) DEF FlowInv, FrameInv, NoFrame
  <2>. QED
    BY <2>1, <2>2, <2>3 DEF EntryIsOwn
<1>7. SavedInv'
  BY <1>1, <1>3, <1>5, SMTT(30) DEF SavedInv, IrqType, TypeOK, Reg
<1>8. EntryInv'
  BY <1>1, <1>3, SMTT(30) DEF EntryInv, IrqType, TypeOK
<1>9. MaskInv'
  BY <1>1 DEF MaskInv
<1>10. OnlyKnownLosses'
  BY <1>3, <1>4, <1>5 DEF OnlyKnownLosses, Reg
<1>. QED
  BY <1>6, <1>7, <1>8, <1>9, <1>10

\* task_exit and a system call that ends its caller keep the invariant.
LEMMA EndKeeps == IrqInv /\ (Exit \/ SvcExit) => IrqInv'
<1>1. IrqInv => masked \in BOOLEAN
  BY DEF IrqInv, IrqType, TypeOK
<1>2. ASSUME IrqInv, Exit PROVE IrqInv'
  BY <1>1, <1>2, EndToKeeps DEF Exit
<1>3. ASSUME IrqInv, SvcExit PROVE IrqInv'
  <2>1. InBody /\ flow # Idle /\ svc_ended'
    BY <1>3, Zenon DEF SvcExit
  <2>2. PICK next \in NextAfterEnd : EndTo(next, TRUE)
    BY <1>3, Zenon DEF SvcExit
  <2>. QED
    BY <1>3, <2>1, <2>2, EndToKeeps, Zenon
<1>. QED
  BY <1>2, <1>3

-----------------------------------------------------------------------------
\* The invariant is about the variables of the model only.
LEMMA StutterKeeps == IrqInv /\ UNCHANGED vars => IrqInv'
<1> SUFFICES ASSUME IrqInv, UNCHANGED vars PROVE IrqInv'
  OBVIOUS
<1> USE DEF IrqInv, vars, cpuVars, taskVars, gicVars, history
<1>1. IrqType'
  BY DEF IrqType, TypeOK
<1>2. BootInv' /\ FlowInv' /\ MaskInv' /\ EntryIsOwn'
  BY DEF BootInv, FlowInv, MaskInv, EntryIsOwn
<1>3. FrameInv'
  BY DEF FrameInv
<1>4. SavedInv' /\ EntryInv'
  BY SMTT(30) DEF SavedInv, EntryInv
<1>5. OnlyKnownLosses'
  BY DEF OnlyKnownLosses
<1>. QED
  BY <1>1, <1>2, <1>3, <1>4, <1>5

\* Every step of the boot sequence, of the interrupt and of a task keeps the
\* inductive invariant.
THEOREM IrqInvariant == Spec => []IrqInv
<1>1. IrqInv /\ [Next]_vars => IrqInv'
  <2> SUFFICES ASSUME IrqInv, [Next]_vars PROVE IrqInv'
    OBVIOUS
  <2>1. CASE Boot \/ Expire
    BY <2>1, BootKeeps, ExpireKeeps
  <2>2. CASE Interrupt
    BY <2>2, IrqEnterKeeps, IrqDispatchKeeps, IrqExitKeeps DEF Interrupt
  <2>3. CASE TaskStep
    BY <2>3, ComputeKeeps, EntryWrapperKeeps, ScheduleStayKeeps, EndKeeps, SvcReturnKeeps,
       CreateKeeps, CallScheduleKeeps, KillOtherKeeps DEF TaskStep
  <2>. QED
    BY <2>1, <2>2, <2>3, StutterKeeps DEF Next
<1>. QED
  BY InitInv, <1>1, PTL DEF Spec

\* Whatever interrupts, switches and ends of tasks come between, a task goes on
\* with its own registers, but for the ones that its way of being left and
\* resumed is known to lose, and always at its own place and on its own stack.
THEOREM RegistersSurvive == Spec => []OnlyKnownLosses
<1>1. IrqInv => OnlyKnownLosses
  BY DEF IrqInv
<1>. QED
  BY IrqInvariant, <1>1, PTL

\* A task that was not resumed by the branch in schedule() before it had read
\* its entry point starts at its own.
THEOREM EntriesAreOwn == Spec => []EntryIsOwn
<1>1. IrqInv => EntryIsOwn
  BY DEF IrqInv
<1>. QED
  BY IrqInvariant, <1>1, PTL

\* Once the kernel is up, code runs with interrupts masked only after a task was
\* ended by a system call.
THEOREM MaskedOnlyBySvcExit == Spec => []MaskedOnlyAfterSvcExit
<1>1. IrqInv => MaskedOnlyAfterSvcExit
  BY DEF IrqInv, MaskInv, MaskedOnlyAfterSvcExit, Running
<1>. QED
  BY IrqInvariant, <1>1, PTL
=============================================================================
