------------------------------ MODULE Scheduler ------------------------------
(****************************************************************************)
(* The deferred-switch round-robin scheduler (kernel/src/sched.rs), the      *)
(* register switch it ends in (kernel/asm/switch.asm) and the part of        *)
(* kernel_main that drives it (kernel/src/main.rs): spawn the tasks, close   *)
(* the ring, rotate until four switches happened, then either descend to     *)
(* ring 3 or stay in the idle loop.                                          *)
(*                                                                           *)
(* One CPU.  The contexts are the boot context and one stack per task.  The  *)
(* PIT interrupt may arrive between any two steps; its handler only counts   *)
(* a kick.  A stack pointer is represented by the context whose stack it     *)
(* points into; it may be loaded only while that stack carries a switch      *)
(* frame (the synthetic one of alloc_task_stack, or one that context_switch  *)
(* pushed and that was not popped since).                                    *)
(****************************************************************************)
EXTENDS Naturals

CONSTANTS
  TASKS_CAP,     \* sched.rs: ring slots, one of them kept for idle
  Spawns,        \* how many times kernel_main calls spawn (3)
  MinSwitches,   \* kernel_main rotates until this many switches (4)
  Iterations,    \* length of the loop in task_closure (100_000)
  SpinLimit,     \* kernel_main gives up after this many spins (500_000_000)
  SwitchCap,     \* `switches` is exact below this value and saturates at it
  KickCap,       \* PIT_KICKS is exact below this value and saturates at it
  Boot,          \* the boot context, which is also the idle slot
  Wild,          \* where the CPU is after loading a stack pointer that is not live
  Null           \* the null stack pointer

ASSUME BoundsAssumption ==
  /\ TASKS_CAP \in Nat \ {0}
  /\ Spawns \in Nat
  /\ MinSwitches \in Nat \ {0}
  /\ Iterations \in Nat
  /\ SpinLimit \in Nat
  /\ SwitchCap \in Nat /\ MinSwitches <= SwitchCap
  /\ KickCap \in Nat \ {0}

ASSUME NamesAssumption ==
  /\ Boot \notin Nat /\ Wild \notin Nat /\ Null \notin Nat
  /\ Boot # Wild /\ Boot # Null /\ Wild # Null

VARIABLES
  tasks,            \* Scheduler.tasks: slot index -> Pcb, for the slots below len
  len,              \* Scheduler.tasks.len()
  current,          \* Scheduler.current: the slot selected to run
  switches,         \* Scheduler.switches
  started,          \* Scheduler.started; SCHED_ON always has the same value
  switch_pending,   \* Scheduler.switch_pending
  real_tasks,       \* Scheduler.real_tasks
  CURRENT_ID,       \* the slot that is running
  IDLE_RSP,         \* saved stack pointer of the idle slot
  TASK_FN,          \* whether a task closure is registered
  PIT_KICKS,        \* timer interrupts not consumed yet
  rsp,              \* the CPU's stack pointer: the context that executes
  frames,           \* the contexts whose stack carries a live switch frame
  pc,               \* control point of every context
  count,            \* local counter `t` of task_closure, per task
  ROTATIONS,        \* the shared counter of task_closure
  calls,            \* spawn calls kernel_main has made
  spins             \* kernel_main's spin counter

ring  == <<tasks, len, started, real_tasks, TASK_FN, calls>>
saved == <<CURRENT_ID, IDLE_RSP, rsp, frames, switches>>
work  == <<count, ROTATIONS>>
vars  == <<ring, saved, work, current, switch_pending, PIT_KICKS, pc, spins>>

Slots     == 0 .. (TASKS_CAP - 1)
Contexts  == Slots \cup {Boot}
Pointers  == Contexts \cup {Null, Wild}
TaskState == {"Ready", "Running", "Blocked"}
Pcb       == [state : TaskState, saved_rsp : Pointers]
NewPcb    == [state |-> "Ready", saved_rsp |-> Null]

Setup        == {"spawn"}
Waiting      == {"wait", "wait_switch", "wait_pause"}
Idling       == {"idle", "idle_switch", "hlt"}
SwitchPoints == {"wait_switch", "idle_switch", "park_switch"}
Points == Setup \cup Waiting \cup Idling \cup SwitchPoints
            \cup {"ring3", "entry", "closure", "park"}

At(c, p)   == rsp = c /\ pc[c] = p
Goto(c, p) == pc' = [pc EXCEPT ![c] = p]

Init ==
  /\ tasks = [i \in Slots |-> NewPcb]
  /\ len = 0
  /\ current = 0
  /\ switches = 0
  /\ started = FALSE
  /\ switch_pending = FALSE
  /\ real_tasks = 0
  /\ CURRENT_ID = 0
  /\ IDLE_RSP = Null
  /\ TASK_FN = FALSE
  /\ PIT_KICKS = 0
  /\ rsp = Boot
  /\ frames = {}
  /\ pc = [c \in Contexts |-> IF c = Boot THEN "spawn" ELSE "entry"]
  /\ count = [c \in Slots |-> 0]
  /\ ROTATIONS = 0
  /\ calls = 0
  /\ spins = 0

-----------------------------------------------------------------------------
(* Building the ring *)

\* Mutant: the capacity test forgets the slot kept for idle.
Spawn_FillsRing ==
  /\ At(Boot, "spawn") /\ calls < Spawns
  /\ calls' = calls + 1
  /\ TASK_FN' = TRUE
  /\ IF real_tasks >= TASKS_CAP
       THEN UNCHANGED <<tasks, len, real_tasks, frames, started, CURRENT_ID>>
       ELSE /\ tasks' = [tasks EXCEPT ![real_tasks].saved_rsp = real_tasks]
            /\ len' = len + 1
            /\ real_tasks' = real_tasks + 1
            /\ frames' = frames \cup {real_tasks}
            /\ started' = TRUE
            /\ CURRENT_ID' = IF real_tasks = 0 THEN 1 ELSE CURRENT_ID
  /\ UNCHANGED <<work, current, switches, switch_pending, IDLE_RSP, PIT_KICKS,
                 rsp, pc, spins>>

\* spawn: the closure is registered before the capacity test, the stack gets
\* its synthetic frame, and the first task starts the scheduler.
Spawn ==
  /\ At(Boot, "spawn") /\ calls < Spawns
  /\ calls' = calls + 1
  /\ TASK_FN' = TRUE
  /\ IF real_tasks >= TASKS_CAP - 1
       THEN UNCHANGED <<tasks, len, real_tasks, frames, started, CURRENT_ID>>
       ELSE /\ tasks' = [tasks EXCEPT ![real_tasks].saved_rsp = real_tasks]
            /\ len' = len + 1
            /\ real_tasks' = real_tasks + 1
            /\ frames' = frames \cup {real_tasks}
            /\ started' = TRUE
            /\ CURRENT_ID' = IF real_tasks = 0 THEN 1 ELSE CURRENT_ID
  /\ UNCHANGED <<work, current, switches, switch_pending, IDLE_RSP, PIT_KICKS,
                 rsp, pc, spins>>

\* Mutant: CURRENT_ID keeps the value the first spawn gave it.
Finish_KeepsCurrentId ==
  /\ At(Boot, "spawn") /\ calls = Spawns
  /\ Goto(Boot, "wait")
  /\ tasks' = [tasks EXCEPT ![real_tasks] = NewPcb]
  /\ len' = len + 1
  /\ current' = real_tasks
  /\ UNCHANGED <<work, switches, started, switch_pending, real_tasks, IDLE_RSP,
                 CURRENT_ID, TASK_FN, PIT_KICKS, rsp, frames, calls, spins>>

\* finish: append the idle slot, which the boot context runs as.
Finish ==
  /\ At(Boot, "spawn") /\ calls = Spawns
  /\ Goto(Boot, "wait")
  /\ IF real_tasks = 0
       THEN UNCHANGED <<tasks, len, current, CURRENT_ID>>
       ELSE /\ tasks' = [tasks EXCEPT ![real_tasks] = NewPcb]
            /\ len' = len + 1
            /\ current' = real_tasks
            /\ CURRENT_ID' = real_tasks
  /\ UNCHANGED <<work, switches, started, switch_pending, real_tasks, IDLE_RSP,
                 TASK_FN, PIT_KICKS, rsp, frames, calls, spins>>

-----------------------------------------------------------------------------
(* Selecting and switching *)

\* Mutant: the search starts one slot too far.
RunnableSteps_FromTwo(cur) ==
  {k \in 2 .. len : tasks[(cur + k) % len].state \in {"Ready", "Running"}}

\* Mutant: the search passes over the idle slot.
RunnableSteps_TasksOnly(cur) ==
  {k \in 1 .. len : /\ (cur + k) % len < real_tasks
                    /\ tasks[(cur + k) % len].state \in {"Ready", "Running"}}

\* The distances from cur at which a runnable slot lies; len is the slot itself.
RunnableSteps(cur) ==
  {k \in 1 .. len : tasks[(cur + k) % len].state \in {"Ready", "Running"}}

Nearest(steps) == CHOOSE k \in steps : \A j \in steps : k <= j

next_index(cur) ==
  IF RunnableSteps(cur) = {} THEN Null
  ELSE (cur + Nearest(RunnableSteps(cur))) % len

\* tick: select the next runnable slot, if it is not the one selected already.
Tick ==
  LET i == next_index(current)
  IN  IF started /\ i # Null /\ i # current
        THEN current' = i /\ switch_pending' = TRUE
        ELSE UNCHANGED <<current, switch_pending>>

\* Mutant: every kick moves the selection on by one slot.
pump_ticks_PerKick(c, from, to) ==
  /\ At(c, from)
  /\ Goto(c, to)
  /\ PIT_KICKS' = 0
  /\ IF PIT_KICKS = 0 \/ ~started THEN UNCHANGED <<current, switch_pending>>
       ELSE current' = (current + PIT_KICKS) % len /\ switch_pending' = (current' # current)
  /\ UNCHANGED <<ring, saved, work, spins>>

\* pump_ticks: any number of kicks is consumed as one tick.
pump_ticks(c, from, to) ==
  /\ At(c, from)
  /\ Goto(c, to)
  /\ PIT_KICKS' = 0
  /\ IF PIT_KICKS = 0 THEN UNCHANGED <<current, switch_pending>> ELSE Tick
  /\ UNCHANGED <<ring, saved, work, spins>>

\* Where the stack pointer of slot i is kept.
SlotRsp(i) == IF i >= real_tasks THEN IDLE_RSP ELSE tasks[i].saved_rsp

\* Mutant: the idle slot's pointer is taken for a task's (> for >=).
context_switch_MisplacesIdle(prev, next) ==
  /\ IF prev > real_tasks
       THEN IDLE_RSP' = rsp /\ UNCHANGED tasks
       ELSE tasks' = [tasks EXCEPT ![prev].saved_rsp = rsp] /\ UNCHANGED IDLE_RSP
  /\ rsp' = IF next \in frames THEN next ELSE Wild
  /\ frames' = (frames \cup {rsp}) \ {next}

\* context_switch: push the frame of the running context, store its stack
\* pointer in slot prev and continue on the stack `next` points into.
context_switch(prev, next) ==
  /\ IF prev >= real_tasks
       THEN IDLE_RSP' = rsp /\ UNCHANGED tasks
       ELSE tasks' = [tasks EXCEPT ![prev].saved_rsp = rsp] /\ UNCHANGED IDLE_RSP
  /\ rsp' = IF next \in frames THEN next ELSE Wild
  /\ frames' = (frames \cup {rsp}) \ {next}

\* run_pending_switch: the context resumes at `to` when it is switched back to.
run_pending_switch(c, from, to) ==
  /\ At(c, from)
  /\ Goto(c, to)
  /\ IF started /\ switch_pending
       THEN /\ switch_pending' = FALSE
            /\ switches' = IF switches < SwitchCap THEN switches + 1 ELSE switches
            /\ CURRENT_ID' = current
            /\ context_switch(CURRENT_ID, SlotRsp(current))
       ELSE UNCHANGED <<tasks, switch_pending, saved>>
  /\ UNCHANGED <<len, current, started, real_tasks, TASK_FN, calls, PIT_KICKS,
                 work, spins>>

-----------------------------------------------------------------------------
(* kernel_main after the spawns *)

WaitPump ==
  /\ switches < MinSwitches /\ spins < SpinLimit
  /\ pump_ticks(Boot, "wait", "wait_switch")

WaitSwitch == run_pending_switch(Boot, "wait_switch", "wait_pause")

WaitPause ==
  /\ At(Boot, "wait_pause")
  /\ Goto(Boot, "wait")
  /\ spins' = spins + 1
  /\ UNCHANGED <<ring, saved, work, current, switch_pending, PIT_KICKS>>

\* The loop ends, the LIONOS_SCHED marker is printed, and bring_up either
\* descends to ring 3 for good or returns FALSE and the idle loop starts.
LeaveWait ==
  /\ At(Boot, "wait")
  /\ ~(switches < MinSwitches /\ spins < SpinLimit)
  /\ \E p \in {"ring3", "idle"} : Goto(Boot, p)
  /\ UNCHANGED <<ring, saved, work, current, switch_pending, PIT_KICKS, spins>>

\* One turn of idle_loop: its last call, ffi::hlt, is lion_hlt (cpu.s), a loop
\* around the instruction that does not return.  An interrupt that ends the
\* instruction only takes the processor back to it, so "hlt" has no exit.
IdlePump   == pump_ticks(Boot, "idle", "idle_switch")
IdleSwitch == run_pending_switch(Boot, "idle_switch", "hlt")

-----------------------------------------------------------------------------
(* The tasks *)

\* task_entry: run the registered closure, if any.
task_entry(c) ==
  /\ At(c, "entry")
  /\ Goto(c, IF TASK_FN THEN "closure" ELSE "park")
  /\ UNCHANGED <<ring, saved, work, current, switch_pending, PIT_KICKS, spins>>

\* One iteration of task_closure, or its return.
task_closure(c) ==
  /\ At(c, "closure")
  /\ IF count[c] < Iterations
       THEN /\ count' = [count EXCEPT ![c] = @ + 1]
            /\ ROTATIONS' = count[c] + 1
            /\ UNCHANGED pc
       ELSE Goto(c, "park") /\ UNCHANGED work
  /\ UNCHANGED <<ring, saved, current, switch_pending, PIT_KICKS, spins>>

\* Mutant: a finished task parks without pumping.
ParkPump_Parks(c) == At(c, "park") /\ UNCHANGED vars

ParkPump(c)   == pump_ticks(c, "park", "park_switch")
ParkSwitch(c) == run_pending_switch(c, "park_switch", "park")

-----------------------------------------------------------------------------
(* Interrupts *)

\* Mutant: the handler itself switches a task that is in its closure to boot.
TimerIrq_Preempts ==
  /\ PIT_KICKS' = IF started /\ PIT_KICKS < KickCap THEN PIT_KICKS + 1 ELSE PIT_KICKS
  /\ IF \E c \in Slots : At(c, "closure")
       THEN context_switch(CURRENT_ID, IDLE_RSP) /\ CURRENT_ID' = real_tasks
       ELSE UNCHANGED <<tasks, saved>>
  /\ UNCHANGED <<len, started, real_tasks, TASK_FN, calls, switches, work, current,
                 switch_pending, pc, spins>>

\* on_timer_irq, called by the PIT handler at any moment.  The keyboard and the
\* mouse interrupt touch nothing that is modelled here.
TimerIrq ==
  /\ PIT_KICKS' = IF started /\ PIT_KICKS < KickCap THEN PIT_KICKS + 1 ELSE PIT_KICKS
  /\ UNCHANGED <<ring, saved, work, current, switch_pending, pc, spins>>

-----------------------------------------------------------------------------
BootStep ==
  \/ Spawn \/ Finish
  \/ WaitPump \/ WaitSwitch \/ WaitPause \/ LeaveWait
  \/ IdlePump \/ IdleSwitch

TaskStep(c) == task_entry(c) \/ task_closure(c) \/ ParkPump(c) \/ ParkSwitch(c)

CpuStep == BootStep \/ \E c \in Slots : TaskStep(c)

Next == CpuStep \/ TimerIrq

Spec == Init /\ [][Next]_vars

\* The CPU keeps executing and the PIT keeps firing (it is programmed as a
\* periodic source and interrupts stay enabled).
FairSpec == Spec /\ WF_vars(CpuStep) /\ WF_vars(TimerIrq)

-----------------------------------------------------------------------------
(* Properties *)

TypeOK ==
  /\ tasks \in [Slots -> Pcb]
  /\ len \in 0 .. TASKS_CAP
  /\ current \in Slots
  /\ switches \in 0 .. SwitchCap
  /\ started \in BOOLEAN
  /\ switch_pending \in BOOLEAN
  /\ real_tasks \in Slots
  /\ CURRENT_ID \in 0 .. TASKS_CAP
  /\ IDLE_RSP \in Pointers
  /\ TASK_FN \in BOOLEAN
  /\ PIT_KICKS \in 0 .. KickCap
  /\ rsp \in Contexts \cup {Wild}
  /\ frames \subseteq Contexts
  /\ pc \in [Contexts -> Points]
  /\ count \in [Slots -> 0 .. Iterations]
  /\ ROTATIONS \in 0 .. Iterations
  /\ calls \in 0 .. Spawns
  /\ spins \in 0 .. SpinLimit

Closed == pc[Boot] \notin Setup

\* The context a slot stands for: boot runs as every slot past the real tasks.
Owner(i) == IF i >= real_tasks THEN Boot ELSE i

\* A switch only ever continues on a stack that carries a live switch frame:
\* the pointer run_pending_switch would load is the owner's own, and no switch
\* has left the CPU on a dead or null stack.
LiveStack ==
  /\ rsp # Wild
  /\ switch_pending => SlotRsp(current) = Owner(current) /\ SlotRsp(current) \in frames

\* CURRENT_ID names the slot whose context really executes, so that the save
\* half of run_pending_switch stores the pointer into the right slot.
RunningSlot == Closed => rsp = Owner(CURRENT_ID)

\* The SAFETY argument of task_closure ("only tasks touch ROTATIONS, all
\* single-threaded"): no context off the CPU is inside the closure.
ClosureAtomic == \A c \in Slots : pc[c] = "closure" => rsp = c

\* The LIONOS_SCHED marker is honest: whenever the boot context executes, every
\* task's closure has completed or none has begun; boot never observes a
\* partial rotation, and a marker with MinSwitches switches means completion.
MarkerHonest ==
  rsp = Boot =>
    \/ \A c \in 0 .. (real_tasks - 1) : count[c] = Iterations
    \/ switches < MinSwitches /\ \A c \in Slots : count[c] = 0

\* However many kicks piled up while the running context did not pump, a
\* switch goes to the ring successor and to no other slot.
RoundRobin == [][rsp' # rsp => CURRENT_ID' = (CURRENT_ID + 1) % len]_vars

\* kernel_main always gets past the scheduler self-test.
BootProceeds == <>(pc[Boot] \in Idling \cup {"ring3"})

\* sched.rs:15-16, "rotation always returns control to the boot loop (it
\* re-acquires)": whichever task has the CPU, the rotation comes round to the boot
\* context, although a task gives the CPU up only by pumping a kick.
BootReacquires == \A c \in Slots : (rsp = c) ~> (rsp = Boot)

\* sched.rs:252-253, "The boot/idle scheduler loop: consume PIT kicks, perform
\* deferred switches, park on `hlt`": once the loop is reached every task gets
\* the CPU again while the timer keeps firing.
NoStarvation ==
  \A c \in Slots : (pc[Boot] = "idle" /\ c < real_tasks) ~> (rsp = c)
==============================================================================
