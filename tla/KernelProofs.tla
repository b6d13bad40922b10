---------------------------- MODULE KernelProofs ----------------------------
(****************************************************************************)
(* The parts of the kernel that stand alone: the scheduler, the deferred-    *)
(* work queue and the canvas.                                                *)
(****************************************************************************)
EXTENDS Scheduler, DeferredQueue, Canvas, TLAPS

-----------------------------------------------------------------------------
(* The scheduler: the stack-safety of the deferred switch, for every ring    *)
(* size, number of spawns and placement of timer interrupts.                 *)

BootPoints == Setup \cup Waiting \cup Idling \cup {"ring3"}
TaskPoints == {"entry", "closure", "park", "park_switch"}

\* Boot and the tasks keep to their own control points, and the spin counter
\* has room for the increment that ends the iteration.  Nothing ever blocks.
ControlInv ==
  /\ pc[Boot] \in BootPoints
  /\ \A c \in Slots : pc[c] \in TaskPoints
  /\ pc[Boot] \in {"wait_switch", "wait_pause"} => spins < SpinLimit
  /\ rsp \in Contexts
  /\ started <=> real_tasks > 0
  /\ \A i \in Slots : tasks[i].state = "Ready"

\* While the ring is being built only boot runs, every spawned stack carries
\* its synthetic frame and nothing is selected.
BuildInv ==
  ~Closed =>
    /\ rsp = Boot
    /\ len = real_tasks
    /\ current = 0
    /\ ~switch_pending
    /\ real_tasks = 0 => CURRENT_ID = 0
    /\ frames = 0 .. (real_tasks - 1)
    /\ \A i \in 0 .. (real_tasks - 1) : tasks[i].saved_rsp = i

\* Once the ring is closed, every slot but the running one holds the pointer to
\* its owner's live frame, and a pending switch names the slot after the running one.
RingInv ==
  Closed =>
    /\ len = (IF started THEN real_tasks + 1 ELSE 0)
    /\ current \in 0 .. real_tasks
    /\ CURRENT_ID \in 0 .. real_tasks
    /\ rsp = Owner(CURRENT_ID)
    /\ rsp \notin frames
    /\ \A i \in 0 .. real_tasks :
         i # CURRENT_ID => SlotRsp(i) = Owner(i) /\ Owner(i) \in frames
    /\ IF switch_pending
         THEN /\ started /\ pc[rsp] \in SwitchPoints
              /\ current # CURRENT_ID /\ current = (CURRENT_ID + 1) % len
         ELSE current = CURRENT_ID

Inv == TypeOK /\ ControlInv /\ BuildInv /\ RingInv /\ ClosureAtomic

-----------------------------------------------------------------------------
\* The remainder of a division by a positive number lies below it.
LEMMA ModBound ==
  ASSUME NEW a \in Nat, NEW n \in Nat \ {0}
  PROVE  a % n \in 0 .. (n - 1)
BY SMT

\* The boot context is not a task.
LEMMA ContextFacts == Boot \notin Slots /\ Boot \in Contexts /\ Slots \subseteq Contexts
BY NamesAssumption DEF Slots, Contexts

\* What a jump does to the control points.
LEMMA GotoFacts ==
  ASSUME Inv, NEW c \in Contexts, NEW p \in Points, Goto(c, p)
  PROVE  /\ pc' \in [Contexts -> Points]
         /\ pc'[c] = p
         /\ \A d \in Contexts : d # c => pc'[d] = pc[d]
BY DEF Goto, Inv, TypeOK

\* The nearest of a set of distances that contains 1 is 1.
LEMMA NearestOne ==
  ASSUME NEW S \in SUBSET Nat, 1 \in S, \A m \in S : 1 <= m
  PROVE  Nearest(S) = 1
<1>1. Nearest(S) \in S /\ \A m \in S : Nearest(S) <= m
  BY Zenon DEF Nearest
<1>2. \A n \in Nat : 1 <= n /\ n <= 1 => n = 1
  BY SMT
<1> QED
  BY <1>1, <1>2, Zenon

\* Nothing blocks, so tick selects the ring successor of the selected slot.
LEMMA NextIsSuccessor ==
  ASSUME Inv, Closed, started
  PROVE  /\ next_index(current) = (current + 1) % len
         /\ (current + 1) % len \in 0 .. real_tasks
<1> DEFINE steps == RunnableSteps(current)
<1>1. /\ len = real_tasks + 1 /\ len \in Nat \ {0} /\ real_tasks \in Nat /\ current \in Nat
      /\ 0 .. (len - 1) \subseteq Slots
  BY BoundsAssumption DEF Inv, TypeOK, RingInv, Slots
<1>2. steps = 1 .. len
  <2>1. ASSUME NEW j \in 1 .. len
        PROVE  tasks[(current + j) % len].state = "Ready"
    <3>1. current + j \in Nat
      BY <1>1
    <3>2. (current + j) % len \in Slots
      BY <1>1, <3>1, ModBound
    <3> QED
      BY <3>2 DEF Inv, ControlInv
  <2> QED
    BY <2>1 DEF RunnableSteps
<1>3. 1 \in steps /\ \A m \in steps : 1 <= m
  BY <1>1, <1>2
<1>4. Nearest(steps) = 1
  BY <1>1, <1>2, <1>3, NearestOne
<1>5. (current + 1) % len \in 0 .. (len - 1)
  BY <1>1, ModBound
<1>6. next_index(current) = (current + 1) % len
  BY <1>3, <1>4 DEF next_index
<1> QED
  BY <1>1, <1>5, <1>6

-----------------------------------------------------------------------------
\* Every step of pump_ticks keeps the invariant: at a pump point nothing is
\* pending, so what tick selects is a slot that is not running.
LEMMA PumpStep ==
  ASSUME Inv, NEW c \in Contexts, NEW from, NEW to, pump_ticks(c, from, to),
         \/ c = Boot /\ <<from, to>> = <<"wait", "wait_switch">> /\ spins < SpinLimit
         \/ c = Boot /\ <<from, to>> = <<"idle", "idle_switch">>
         \/ c \in Slots /\ <<from, to>> = <<"park", "park_switch">>
  PROVE  Inv'
<1> USE BoundsAssumption, NamesAssumption
<1>1. /\ rsp = c /\ pc[c] = from /\ Goto(c, to)
      /\ PIT_KICKS' = 0 /\ UNCHANGED <<ring, saved, work, spins>>
  BY DEF pump_ticks, At
<1>2. to \in Points /\ to \in SwitchPoints /\ from \notin SwitchPoints
  BY DEF Points, SwitchPoints
<1>3. /\ pc' \in [Contexts -> Points] /\ pc'[c] = to
      /\ \A d \in Contexts : d # c => pc'[d] = pc[d]
  BY <1>1, <1>2, GotoFacts
<1>4. Closed /\ Closed' /\ ~switch_pending
  <2>1. Closed
    BY <1>1, ContextFacts DEF Inv, BuildInv, Closed, Setup
  <2>2. Closed'
    BY <2>1, <1>3, ContextFacts DEF Closed, Setup
  <2> QED
    BY <1>1, <1>2, <2>1, <2>2 DEF Inv, RingInv
<1>5. ControlInv' /\ ClosureAtomic'
  BY <1>1, <1>3, ContextFacts
  DEF Inv, ControlInv, ClosureAtomic, BootPoints, TaskPoints, Waiting, Idling, ring, saved
<1>6. /\ current' \in 0 .. real_tasks /\ switch_pending' \in BOOLEAN
      /\ IF switch_pending'
           THEN started /\ current' # CURRENT_ID /\ current' = (CURRENT_ID + 1) % len
           ELSE current' = CURRENT_ID
  <2>1. CASE UNCHANGED <<current, switch_pending>>
    BY <1>4, <2>1 DEF Inv, TypeOK, RingInv
  <2>2. CASE started /\ next_index(current) # current /\ current' = next_index(current)
             /\ switch_pending' = TRUE
    BY <1>4, <2>2, NextIsSuccessor, Zenon DEF Inv, TypeOK, RingInv
  <2> QED
    BY <2>1, <2>2, Zenon DEF pump_ticks, Tick
<1>7. TypeOK'
  <2>1. current' \in Slots
    BY <1>6 DEF Inv, TypeOK, Slots
  <2> QED
    BY <1>1, <1>3, <1>6, <2>1 DEF Inv, TypeOK, ring, saved, work
<1>8. RingInv'
  BY <1>1, <1>2, <1>3, <1>4, <1>6 DEF Inv, RingInv, Owner, SlotRsp, ring, saved
<1> QED
  BY <1>4, <1>5, <1>7, <1>8 DEF Inv, BuildInv

\* A step that leaves the ring, the saved pointers and the selection alone and
\* only moves a context between its own control points.
LEMMA LocalStep ==
  ASSUME Inv, UNCHANGED <<ring, saved, current, switch_pending>>,
         PIT_KICKS' \in 0 .. KickCap, spins' \in 0 .. SpinLimit,
         count' \in [Slots -> 0 .. Iterations], ROTATIONS' \in 0 .. Iterations,
         pc' \in [Contexts -> Points],
         pc'[Boot] \in BootPoints, \A c \in Slots : pc'[c] \in TaskPoints,
         pc'[Boot] \in {"wait_switch", "wait_pause"} => spins' < SpinLimit,
         Closed' = Closed,
         pc[rsp] \in SwitchPoints => pc'[rsp] = pc[rsp],
         \A c \in Slots : pc'[c] = "closure" => rsp = c
  PROVE  Inv'
<1>1. TypeOK'
  BY DEF Inv, TypeOK, ring, saved
<1>2. ControlInv' /\ ClosureAtomic'
  BY DEF Inv, ControlInv, ClosureAtomic, ring, saved
<1>3. BuildInv'
  BY DEF Inv, BuildInv, ring, saved
<1>4. RingInv'
  BY DEF Inv, RingInv, Owner, SlotRsp, ring, saved
<1> QED
  BY <1>1, <1>2, <1>3, <1>4 DEF Inv

\* Different slots of the ring belong to different contexts.
LEMMA OwnerInjective ==
  ASSUME real_tasks \in Slots, NEW i \in 0 .. real_tasks, NEW j \in 0 .. real_tasks, i # j
  PROVE  /\ Owner(i) # Owner(j)
         /\ Owner(i) \in Contexts
         /\ i < real_tasks => i \in Slots
<1>1. i \in Nat /\ j \in Nat /\ real_tasks \in Nat
  BY BoundsAssumption DEF Slots
<1>2. i < real_tasks => i \in Slots
  BY <1>1, BoundsAssumption DEF Slots
<1>3. Owner(i) = (IF i = real_tasks THEN Boot ELSE i) /\ Owner(j) = (IF j = real_tasks THEN Boot ELSE j)
  BY <1>1 DEF Owner
<1> QED
  BY <1>1, <1>2, <1>3, NamesAssumption DEF Contexts

\* Every step of run_pending_switch keeps the invariant: the pointer it loads is
\* the target's own live frame, and the one it saves goes to the slot that ran.
LEMMA SwitchStep ==
  ASSUME Inv, NEW c \in Contexts, NEW from, NEW to, run_pending_switch(c, from, to),
         \/ c = Boot /\ <<from, to>> = <<"wait_switch", "wait_pause">>
         \/ c = Boot /\ <<from, to>> = <<"idle_switch", "hlt">>
         \/ c \in Slots /\ <<from, to>> = <<"park_switch", "park">>
  PROVE  Inv'
<1> USE BoundsAssumption, NamesAssumption
<1>1. /\ rsp = c /\ pc[c] = from /\ Goto(c, to)
      /\ UNCHANGED <<len, current, started, real_tasks, TASK_FN, calls, PIT_KICKS, work, spins>>
  BY DEF run_pending_switch, At
<1>2. to \in Points /\ to \notin SwitchPoints
  BY DEF Points, SwitchPoints, Waiting, Idling
<1>3. /\ pc' \in [Contexts -> Points] /\ pc'[c] = to
      /\ \A d \in Contexts : d # c => pc'[d] = pc[d]
  BY <1>1, <1>2, GotoFacts
<1>4. Closed /\ Closed'
  <2>1. Closed
    BY <1>1, ContextFacts DEF Inv, BuildInv, Closed, Setup
  <2> QED
    BY <2>1, <1>3, ContextFacts DEF Closed, Setup
<1>5. /\ pc'[Boot] \in BootPoints /\ \A d \in Slots : pc'[d] \in TaskPoints
      /\ pc'[Boot] \in {"wait_switch", "wait_pause"} => spins < SpinLimit
      /\ \A d \in Slots : pc'[d] # "closure" \/ (d # c /\ pc[d] = "closure")
  BY <1>1, <1>3, ContextFacts DEF Inv, ControlInv, BootPoints, TaskPoints, Waiting, Idling
<1>6. \A d \in Slots : pc'[d] # "closure"
  BY <1>1, <1>5 DEF Inv, ClosureAtomic
<1>7. CASE ~(started /\ switch_pending)
  <2>1. UNCHANGED <<tasks, switch_pending, saved>>
    BY <1>7 DEF run_pending_switch
  <2>2. ~switch_pending
    BY <1>4, <1>7 DEF Inv, TypeOK, RingInv
  <2>3. TypeOK'
    BY <1>1, <1>3, <2>1 DEF Inv, TypeOK, saved, work
  <2>4. ControlInv' /\ ClosureAtomic'
    BY <1>1, <1>5, <1>6, <2>1 DEF Inv, ControlInv, ClosureAtomic, saved
  <2>5. RingInv'
    BY <1>1, <1>4, <2>1, <2>2 DEF Inv, RingInv, Owner, SlotRsp, saved
  <2> QED
    BY <1>4, <2>3, <2>4, <2>5 DEF Inv, BuildInv
<1>8. CASE started /\ switch_pending
  <2> DEFINE next == SlotRsp(current)
  <2>1. /\ switch_pending' = FALSE /\ CURRENT_ID' = current
        /\ switches' = IF switches < SwitchCap THEN switches + 1 ELSE switches
        /\ context_switch(CURRENT_ID, next)
    BY <1>8 DEF run_pending_switch
  <2>2. /\ current \in 0 .. real_tasks /\ CURRENT_ID \in 0 .. real_tasks
        /\ current # CURRENT_ID /\ real_tasks \in Slots /\ rsp = Owner(CURRENT_ID)
        /\ rsp \notin frames /\ rsp \in Contexts /\ tasks \in [Slots -> Pcb]
    BY <1>4, <1>8 DEF Inv, RingInv, TypeOK, ControlInv
  <2>3. next = Owner(current) /\ next \in frames /\ next \in Contexts
    BY <1>4, <2>2 DEF Inv, RingInv, TypeOK
  <2>4. rsp' = next /\ frames' = (frames \cup {rsp}) \ {next}
    BY <2>1, <2>3 DEF context_switch
  <2>5. /\ tasks' \in [Slots -> Pcb] /\ IDLE_RSP' \in Pointers
        /\ \A i \in Slots : tasks'[i].state = "Ready"
    BY <2>1, <2>2, OwnerInjective
    DEF context_switch, Inv, TypeOK, ControlInv, Pcb, Pointers
  <2>6. TypeOK'
    <3>1. switches' \in 0 .. SwitchCap
      BY <2>1 DEF Inv, TypeOK
    <3>2. CURRENT_ID' \in 0 .. TASKS_CAP
      BY <2>1, <2>2 DEF Slots
    <3> QED
      BY <1>1, <1>3, <2>1, <2>2, <2>3, <2>4, <2>5, <3>1, <3>2, Zenon DEF Inv, TypeOK, work
  <2>7. ControlInv' /\ ClosureAtomic'
    BY <1>1, <1>5, <1>6, <2>3, <2>4, <2>5, Zenon DEF Inv, ControlInv, ClosureAtomic
  <2>8. ASSUME NEW i \in 0 .. real_tasks, i # current
        PROVE  SlotRsp(i)' = Owner(i) /\ Owner(i) \in frames'
    <3>1. Owner(i) # next
      BY <2>2, <2>3, <2>8, OwnerInjective
    <3>2. CASE i = CURRENT_ID
      <4>1. i < real_tasks => i \in Slots
        BY <2>2, <2>8, OwnerInjective
      <4>2. SlotRsp(i)' = rsp
        BY <1>1, <2>1, <2>2, <3>2, <4>1 DEF context_switch, SlotRsp, Pcb, Slots
      <4> QED
        BY <2>2, <2>4, <3>1, <3>2, <4>2
    <3>3. CASE i # CURRENT_ID
      <4>1. SlotRsp(i) = Owner(i) /\ Owner(i) \in frames
        BY <1>4, <3>3 DEF Inv, RingInv
      <4>2. SlotRsp(i)' = SlotRsp(i)
        BY <1>1, <2>1, <2>2, <3>3, OwnerInjective, SMTT(30) DEF context_switch, SlotRsp, Pcb, Slots
      <4> QED
        BY <2>4, <3>1, <4>1, <4>2
    <3> QED
      BY <3>2, <3>3
  <2>9. RingInv'
    <3>1. Owner(current)' = Owner(current) /\ \A i \in 0 .. real_tasks : Owner(i)' = Owner(i)
      BY <1>1 DEF Owner
    <3> QED
      BY <1>1, <1>4, <2>1, <2>2, <2>3, <2>4, <2>8, <3>1, Zenon DEF Inv, RingInv
  <2> QED
    BY <1>4, <2>6, <2>7, <2>9 DEF Inv, BuildInv
<1> QED
  BY <1>7, <1>8

\* spawn adds a slot whose stack carries a fresh frame, or changes nothing.
LEMMA SpawnStep ==
  ASSUME Inv, Spawn
  PROVE  Inv'
<1> USE BoundsAssumption, NamesAssumption
<1>1. /\ ~Closed /\ rsp = Boot /\ len = real_tasks /\ real_tasks \in Nat /\ Boot \notin Slots
      /\ pc' = pc /\ rsp' = rsp /\ switch_pending' = switch_pending /\ current' = current
      /\ TASK_FN' \in BOOLEAN
  BY ContextFacts DEF Spawn, At, Inv, TypeOK, BuildInv, Closed, Setup, Slots
<1>a. calls' \in 0 .. Spawns
  BY SMTT(30) DEF Spawn, Inv, TypeOK
<1>2. CASE real_tasks >= TASKS_CAP - 1
  <2>1. UNCHANGED <<tasks, len, real_tasks, frames, started, CURRENT_ID, work, switches,
                    IDLE_RSP, PIT_KICKS, spins>>
    BY <1>2 DEF Spawn
  <2> QED
    BY <1>1, <1>a, <2>1 DEF Inv, TypeOK, ControlInv, BuildInv, RingInv, ClosureAtomic, Closed, work
<1>3. CASE ~(real_tasks >= TASKS_CAP - 1)
  <2>1. /\ tasks' = [tasks EXCEPT ![real_tasks].saved_rsp = real_tasks]
        /\ len' = len + 1 /\ real_tasks' = real_tasks + 1
        /\ frames' = frames \cup {real_tasks} /\ started' = TRUE
        /\ CURRENT_ID' = IF real_tasks = 0 THEN 1 ELSE CURRENT_ID
        /\ UNCHANGED <<work, switches, IDLE_RSP, PIT_KICKS, spins>>
    BY <1>3 DEF Spawn
  <2>2. /\ real_tasks \in Slots /\ real_tasks' \in Slots /\ len' \in 0 .. TASKS_CAP
    <3>1. real_tasks \in Nat /\ real_tasks + 1 <= TASKS_CAP - 1
      BY <1>1, <1>3
    <3> QED
      BY <1>1, <2>1, <3>1 DEF Slots
  <2>a. CURRENT_ID' \in 0 .. TASKS_CAP
    BY <2>1 DEF Inv, TypeOK
  <2>3. tasks' \in [Slots -> Pcb]
    BY <2>1, <2>2 DEF Inv, TypeOK, Pcb, Pointers, Contexts
  <2>4. TypeOK'
    BY <1>1, <1>a, <2>1, <2>2, <2>a, <2>3 DEF Inv, TypeOK, work, Contexts
  <2>5. \A i \in Slots : tasks'[i].state = "Ready"
    BY <2>1, <2>2 DEF Inv, TypeOK, Pcb, ControlInv
  <2>b. ASSUME NEW i \in 0 .. real_tasks PROVE tasks'[i].saved_rsp = i
    <3>1. i \in Slots /\ (i # real_tasks => i \in 0 .. (real_tasks - 1))
      BY <1>1, <2>2 DEF Slots
    <3>2. i # real_tasks => tasks[i].saved_rsp = i
      BY <1>1, <3>1 DEF Inv, BuildInv
    <3> QED
      BY <2>1, <3>1, <3>2 DEF Inv, TypeOK, Pcb
  <2>6. ControlInv' /\ ClosureAtomic'
    BY <1>1, <2>1, <2>2, <2>5 DEF Inv, ControlInv, ClosureAtomic, work
  <2>7. BuildInv' /\ RingInv'
    BY <1>1, <2>1, <2>b, SMTT(30) DEF Inv, BuildInv, RingInv, Closed
  <2> QED
    BY <2>4, <2>6, <2>7 DEF Inv
<1> QED
  BY <1>2, <1>3

\* finish closes the ring with boot as its running slot.
LEMMA FinishStep ==
  ASSUME Inv, Finish
  PROVE  Inv'
<1> USE BoundsAssumption, NamesAssumption
<1>1. /\ ~Closed /\ rsp = Boot /\ len = real_tasks /\ real_tasks \in Slots
      /\ real_tasks \in Nat /\ Boot \notin Slots
      /\ pc' = [pc EXCEPT ![Boot] = "wait"] /\ pc \in [Contexts -> Points]
      /\ UNCHANGED <<work, switches, started, switch_pending, real_tasks, IDLE_RSP,
                     TASK_FN, PIT_KICKS, rsp, frames, calls, spins>>
  BY DEF Finish, At, Goto, Inv, TypeOK, BuildInv, Closed, Setup, Slots
<1>2. /\ pc' \in [Contexts -> Points] /\ pc'[Boot] = "wait"
      /\ \A c \in Slots : pc'[c] = pc[c]
  BY <1>1 DEF Contexts, Points, Waiting
<1>3. Closed'
  BY <1>2 DEF Closed, Setup
<1>4. ControlInv' /\ ClosureAtomic'
  <2>1. \A i \in Slots : tasks'[i].state = "Ready"
    BY <1>1 DEF Finish, Inv, TypeOK, ControlInv, NewPcb
  <2> QED
    BY <1>1, <1>2, <2>1, ContextFacts, Zenon
    DEF Inv, ControlInv, ClosureAtomic, BootPoints, Waiting
<1>5. CASE real_tasks = 0
  <2>1. UNCHANGED <<tasks, len, current, CURRENT_ID>>
    BY <1>5, Zenon DEF Finish
  <2>2. TypeOK'
    BY <1>1, <1>2, <2>1, Zenon DEF Inv, TypeOK, work
  <2>3. RingInv'
    BY <1>1, <1>5, <2>1 DEF Inv, ControlInv, BuildInv, RingInv, Owner
  <2> QED
    BY <1>3, <1>4, <2>2, <2>3 DEF Inv, BuildInv
<1>6. CASE real_tasks # 0
  <2>1. /\ tasks' = [tasks EXCEPT ![real_tasks] = NewPcb]
        /\ len' = len + 1 /\ current' = real_tasks /\ CURRENT_ID' = real_tasks
    BY <1>6 DEF Finish
  <2>2. tasks' \in [Slots -> Pcb]
    BY <1>1, <2>1 DEF Inv, TypeOK, Pcb, NewPcb, TaskState, Pointers
  <2>3. len' \in 0 .. TASKS_CAP /\ CURRENT_ID' \in 0 .. TASKS_CAP /\ current' \in Slots
    BY <1>1, <2>1 DEF Slots
  <2>4. TypeOK'
    BY <1>1, <1>2, <2>2, <2>3, Zenon DEF Inv, TypeOK, work
  <2>5. ASSUME NEW i \in 0 .. real_tasks, i # real_tasks
        PROVE  i \in frames /\ tasks'[i].saved_rsp = i /\ ~(i >= real_tasks)
    <3>1. i \in 0 .. (real_tasks - 1) /\ i \in Slots
      BY <1>1, <2>5 DEF Slots
    <3>2. i \in frames /\ tasks[i].saved_rsp = i
      BY <1>1, <3>1 DEF Inv, BuildInv
    <3> QED
      BY <1>1, <2>1, <2>5, <3>1, <3>2 DEF Inv, TypeOK
  <2>6. Boot \notin frames
    BY <1>1 DEF Inv, BuildInv
  <2>7. started /\ ~switch_pending
    BY <1>1, <1>6 DEF Inv, ControlInv, BuildInv
  <2>8. RingInv'
    BY <1>1, <2>1, <2>5, <2>6, <2>7, SMTT(30) DEF RingInv, Owner, SlotRsp
  <2> QED
    BY <1>3, <1>4, <2>4, <2>8 DEF Inv, BuildInv
<1> QED
  BY <1>5, <1>6

\* A step of the closure touches only the running task's counter.
LEMMA ClosureStep ==
  ASSUME Inv, NEW c \in Slots, task_closure(c)
  PROVE  Inv'
<1> USE BoundsAssumption, NamesAssumption
<1>1. /\ rsp = c /\ pc[c] = "closure" /\ c \in Contexts /\ c # Boot
      /\ UNCHANGED <<ring, saved, current, switch_pending, PIT_KICKS, spins>>
  BY ContextFacts DEF task_closure, At
<1>2. count' \in [Slots -> 0 .. Iterations] /\ ROTATIONS' \in 0 .. Iterations
  <2>1. /\ count \in [Slots -> 0 .. Iterations] /\ ROTATIONS \in 0 .. Iterations
        /\ count[c] \in 0 .. Iterations
    BY DEF Inv, TypeOK
  <2>2. CASE count[c] < Iterations
    <3>1. count[c] + 1 \in 0 .. Iterations
      BY <2>1, <2>2
    <3> QED
      BY <2>1, <2>2, <3>1 DEF task_closure
  <2>3. CASE ~(count[c] < Iterations)
    BY <2>1, <2>3, SMTT(30) DEF task_closure, work
  <2> QED
    BY <2>2, <2>3
<1>3. /\ pc' \in [Contexts -> Points] /\ pc'[c] \in {"closure", "park"}
      /\ \A d \in Contexts : d # c => pc'[d] = pc[d]
  <2>1. "park" \in Points
    BY DEF Points
  <2> QED
    BY <1>1, <2>1, GotoFacts DEF task_closure, Inv, TypeOK
<1> QED
  BY <1>1, <1>2, <1>3, LocalStep, ContextFacts
  DEF Inv, TypeOK, ControlInv, ClosureAtomic, Closed, TaskPoints, SwitchPoints

\* The timer interrupt only counts.
LEMMA TimerStep == ASSUME Inv, TimerIrq PROVE Inv'
<1> USE BoundsAssumption
<1>1. /\ PIT_KICKS' \in 0 .. KickCap /\ UNCHANGED <<ring, saved, current, switch_pending>>
      /\ UNCHANGED <<spins, count, ROTATIONS, pc, rsp>>
  BY DEF TimerIrq, Inv, TypeOK, work, saved
<1> QED
  BY <1>1, LocalStep, Zenon DEF Inv, TypeOK, ControlInv, ClosureAtomic, Closed

\* The invariant holds initially and every step keeps it.
THEOREM Inductive == Spec => []Inv
<1> USE BoundsAssumption, NamesAssumption
<1>1. Init => Inv
  <2> SUFFICES ASSUME Init PROVE Inv
    OBVIOUS
  <2>1. TypeOK
    <3>1. pc \in [Contexts -> Points]
      BY DEF Init, Points, Setup
    <3>2. tasks \in [Slots -> Pcb] /\ IDLE_RSP \in Pointers
      BY DEF Init, Pcb, NewPcb, TaskState, Pointers
    <3>3. /\ current \in Slots /\ real_tasks \in Slots /\ len \in 0 .. TASKS_CAP
          /\ CURRENT_ID \in 0 .. TASKS_CAP /\ rsp \in Contexts \cup {Wild}
          /\ frames \subseteq Contexts
      BY DEF Init, Slots, Contexts
    <3>4. count \in [Slots -> 0 .. Iterations] /\ ROTATIONS \in 0 .. Iterations
      BY DEF Init
    <3>5. /\ switches \in 0 .. SwitchCap /\ PIT_KICKS \in 0 .. KickCap
          /\ calls \in 0 .. Spawns /\ spins \in 0 .. SpinLimit
      BY DEF Init
    <3>6. started \in BOOLEAN /\ switch_pending \in BOOLEAN /\ TASK_FN \in BOOLEAN
      BY Zenon DEF Init
    <3> QED
      BY <3>1, <3>2, <3>3, <3>4, <3>5, <3>6 DEF TypeOK
  <2>2. ControlInv /\ ClosureAtomic
    <3>1. Boot \notin Slots /\ Slots \subseteq Contexts /\ Boot \in Contexts
      BY DEF Slots, Contexts
    <3>2. pc[Boot] = "spawn" /\ \A c \in Slots : pc[c] = "entry"
      BY <3>1 DEF Init
    <3> QED
      BY <3>1, <3>2 DEF Init, ControlInv, ClosureAtomic, NewPcb, BootPoints, TaskPoints, Setup
  <2>3. BuildInv /\ RingInv
    BY DEF Init, BuildInv, RingInv, Closed, Contexts, Setup
  <2> QED
    BY <2>1, <2>2, <2>3 DEF Inv
<1>2. Inv /\ [Next]_vars => Inv'
  <2> SUFFICES ASSUME Inv, [Next]_vars PROVE Inv'
    OBVIOUS
  <2>1. CASE Spawn
    BY <2>1, SpawnStep
  <2>2. CASE Finish
    BY <2>2, FinishStep
  <2>3. CASE WaitPump
    BY <2>3, PumpStep DEF WaitPump, Contexts
  <2>4. CASE WaitSwitch
    BY <2>4, SwitchStep, Zenon DEF WaitSwitch, Contexts
  <2>5. CASE WaitPause
    <3>1. /\ Goto(Boot, "wait") /\ pc[Boot] = "wait_pause" /\ rsp = Boot /\ "wait" \in Points
          /\ UNCHANGED <<ring, saved, work, current, switch_pending, PIT_KICKS>>
      BY <2>5, Zenon DEF WaitPause, At, Points, Waiting
    <3>2. spins' \in 0 .. SpinLimit
      BY <2>5, <3>1 DEF WaitPause, Inv, TypeOK, ControlInv
    <3>3. /\ pc' \in [Contexts -> Points] /\ pc'[Boot] = "wait"
          /\ \A c \in Slots : pc'[c] = pc[c]
      BY <3>1, GotoFacts, ContextFacts
    <3>4. /\ pc'[Boot] \in BootPoints /\ \A c \in Slots : pc'[c] \in TaskPoints
          /\ pc'[Boot] \notin {"wait_switch", "wait_pause"} /\ Closed' = Closed
          /\ pc[rsp] \notin SwitchPoints
          /\ \A c \in Slots : pc'[c] = "closure" => rsp = c
      <4>1. /\ \A c \in Slots : pc[c] \in TaskPoints
            /\ \A c \in Slots : pc[c] = "closure" => rsp = c
        BY Zenon DEF Inv, ControlInv, ClosureAtomic
      <4>2. "wait" \in BootPoints /\ "wait" \notin Setup /\ "wait_pause" \notin Setup
            /\ "wait_pause" \notin SwitchPoints
        BY DEF BootPoints, Waiting, Setup, SwitchPoints
      <4>3. Closed' = Closed
        BY <3>1, <3>3, <4>2, Zenon DEF Closed, Setup
      <4> QED
        BY <3>1, <3>3, <4>1, <4>2, <4>3, Zenon
    <3> QED
      BY <3>1, <3>2, <3>3, <3>4, LocalStep DEF Inv, TypeOK, work
  <2>6. CASE LeaveWait
    <3>1. PICK p \in {"ring3", "idle"} : Goto(Boot, p)
      BY <2>6 DEF LeaveWait
    <3>2. /\ p \in Points /\ pc[Boot] = "wait" /\ rsp = Boot
          /\ UNCHANGED <<ring, saved, work, current, switch_pending, PIT_KICKS, spins>>
      BY <2>6 DEF LeaveWait, At, Points, Idling
    <3>3. /\ pc' \in [Contexts -> Points] /\ pc'[Boot] = p
          /\ \A c \in Slots : pc'[c] = pc[c]
      BY <3>1, <3>2, GotoFacts, ContextFacts, Zenon
    <3>4. /\ pc'[Boot] \in BootPoints /\ \A c \in Slots : pc'[c] \in TaskPoints
          /\ pc'[Boot] \notin {"wait_switch", "wait_pause"} /\ Closed' = Closed
          /\ pc[rsp] \notin SwitchPoints
          /\ \A c \in Slots : pc'[c] = "closure" => rsp = c
      BY <3>2, <3>3, Zenon DEF Inv, ControlInv, ClosureAtomic, Closed, Setup, BootPoints, Idling, SwitchPoints
    <3> QED
      BY <3>2, <3>3, <3>4, LocalStep DEF Inv, TypeOK, work
  <2>7. CASE IdlePump
    BY <2>7, PumpStep DEF IdlePump, Contexts
  <2>8. CASE IdleSwitch
    BY <2>8, SwitchStep, Zenon DEF IdleSwitch, Contexts
  <2>9. ASSUME NEW c \in Slots, task_entry(c) PROVE Inv'
    <3> DEFINE p == IF TASK_FN THEN "closure" ELSE "park"
    <3>1. /\ Goto(c, p) /\ p \in Points /\ p \in TaskPoints /\ pc[c] = "entry" /\ rsp = c
          /\ UNCHANGED <<ring, saved, work, current, switch_pending, PIT_KICKS, spins>>
      BY <2>9 DEF task_entry, At, Points, TaskPoints
    <3> HIDE DEF p
    <3>2. /\ pc' \in [Contexts -> Points] /\ pc'[c] = p
          /\ \A d \in Contexts : d # c => pc'[d] = pc[d]
      BY <3>1, GotoFacts, ContextFacts, Zenon
    <3>3. /\ pc[Boot] \in BootPoints /\ \A d \in Slots : pc[d] \in TaskPoints
          /\ pc[Boot] \in {"wait_switch", "wait_pause"} => spins < SpinLimit
          /\ \A d \in Slots : pc[d] = "closure" => rsp = d
      BY DEF Inv, ControlInv, ClosureAtomic
    <3>4. /\ pc'[Boot] = pc[Boot] /\ \A d \in Slots : pc'[d] \in TaskPoints
          /\ \A d \in Slots : pc'[d] = "closure" => rsp = d
      BY <3>1, <3>2, <3>3, ContextFacts, Zenon
    <3>5. Closed' = Closed
      BY <3>1, <3>4, Zenon DEF Closed
    <3>6. pc[rsp] \notin SwitchPoints
      BY <3>1 DEF SwitchPoints
    <3>7. /\ PIT_KICKS' \in 0 .. KickCap /\ spins' \in 0 .. SpinLimit
          /\ count' \in [Slots -> 0 .. Iterations] /\ ROTATIONS' \in 0 .. Iterations
      BY <3>1 DEF Inv, TypeOK, work
    <3> QED
      BY <3>1, <3>2, <3>3, <3>4, <3>5, <3>6, <3>7, LocalStep, Zenon
  <2>10. ASSUME NEW c \in Slots, task_closure(c) PROVE Inv'
    BY <2>10, ClosureStep
  <2>11. ASSUME NEW c \in Slots, ParkPump(c) PROVE Inv'
    BY <2>11, PumpStep DEF ParkPump, Contexts
  <2>12. ASSUME NEW c \in Slots, ParkSwitch(c) PROVE Inv'
    BY <2>12, SwitchStep, Zenon DEF ParkSwitch, Contexts
  <2>13. CASE TimerIrq
    BY <2>13, TimerStep
  <2>14. CASE UNCHANGED vars
    <3>1. /\ UNCHANGED <<ring, saved, current, switch_pending>>
          /\ UNCHANGED <<PIT_KICKS, spins, count, ROTATIONS, pc, rsp>>
      BY <2>14 DEF vars, work, saved
    <3> QED
      BY <3>1, LocalStep, Zenon DEF Inv, TypeOK, ControlInv, ClosureAtomic, Closed
  <2> QED
    BY <2>1, <2>2, <2>3, <2>4, <2>5, <2>6, <2>7, <2>8, <2>9, <2>10, <2>11, <2>12,
       <2>13, <2>14 DEF Next, CpuStep, BootStep, TaskStep
<1> QED
  BY <1>1, <1>2, PTL DEF Spec

-----------------------------------------------------------------------------
\* The scheduler's state stays well-formed: no ring index, counter or saved
\* pointer of sched.rs leaves its range.
THEOREM TypeCorrect == Spec => []TypeOK
BY Inductive, PTL DEF Inv

\* run_pending_switch never loads a stack pointer that is null, stale or another
\* slot's, whatever the number of tasks and the placement of interrupts.
THEOREM StackSafety == Spec => []LiveStack
<1>1. Inv => LiveStack
  <2> SUFFICES ASSUME Inv PROVE LiveStack
    OBVIOUS
  <2>1. rsp # Wild
    BY NamesAssumption, BoundsAssumption, SMTT(30) DEF Inv, ControlInv, Contexts, Slots
  <2>2. ASSUME switch_pending
        PROVE  SlotRsp(current) = Owner(current) /\ SlotRsp(current) \in frames
    BY <2>2, Zenon DEF Inv, BuildInv, RingInv
  <2> QED
    BY <2>1, <2>2 DEF LiveStack
<1> QED
  BY <1>1, Inductive, PTL

\* CURRENT_ID always names the slot whose context executes.
THEOREM RunningSlotCorrect == Spec => []RunningSlot
<1>1. Inv => RunningSlot
  BY DEF Inv, RingInv, RunningSlot
<1> QED
  BY <1>1, Inductive, PTL

\* No task is switched away from inside its closure.
THEOREM ClosuresAreAtomic == Spec => []ClosureAtomic
BY Inductive, PTL DEF Inv

\* Every switch goes to the ring successor of the slot that ran.
THEOREM RoundRobinOrder == Spec => RoundRobin
<1>1. Inv /\ [Next]_vars => [rsp' # rsp => CURRENT_ID' = (CURRENT_ID + 1) % len]_vars
  <2> SUFFICES ASSUME Inv, Next, rsp' # rsp
               PROVE  CURRENT_ID' = (CURRENT_ID + 1) % len
    BY DEF vars, saved
  <2>1. ASSUME NEW c, NEW from, NEW to, run_pending_switch(c, from, to)
        PROVE  CURRENT_ID' = (CURRENT_ID + 1) % len
    <3>1. started /\ switch_pending /\ CURRENT_ID' = current
      BY <2>1, Zenon DEF run_pending_switch, saved
    <3> QED
      BY <3>1 DEF Inv, BuildInv, RingInv
  <2>2. \E c, from, to : run_pending_switch(c, from, to)
    BY Zenon DEF Next, CpuStep, BootStep, TaskStep, Spawn, Finish, WaitPump, WaitSwitch, WaitPause,
       LeaveWait, IdlePump, IdleSwitch, task_entry, task_closure, ParkPump, ParkSwitch,
       TimerIrq, pump_ticks, saved
  <2> QED
    BY <2>1, <2>2
<1> QED
  BY <1>1, Inductive, PTL DEF Spec, RoundRobin
-----------------------------------------------------------------------------
(* How far the rotation got *)

Parked(c) == pc[c] \in {"park", "park_switch"}

\* The first rotation runs the tasks to completion one after the other: those
\* before the running slot are parked, those after it have not been entered.
\* From the second rotation on every task is parked.
RotationInv ==
  /\ real_tasks > 0 => TASK_FN
  /\ \A c \in Slots : pc[c] = "entry" => count[c] = 0
  /\ \A c \in Slots : Parked(c) => count[c] = Iterations
  /\ ~Closed => switches = 0
  /\ \A c \in Slots : (~Closed \/ c >= real_tasks) => pc[c] = "entry"
  /\ Closed =>
       \/ \A c \in 0 .. (real_tasks - 1) : Parked(c)
       \/ /\ CURRENT_ID < real_tasks
          /\ \A c \in 0 .. (CURRENT_ID - 1) : Parked(c)
          /\ \A c \in (CURRENT_ID + 1) .. (real_tasks - 1) : pc[c] = "entry"
       \/ /\ CURRENT_ID = real_tasks /\ switches = 0
          /\ \A c \in 0 .. (real_tasks - 1) : pc[c] = "entry"

\* A step that neither switches nor moves a task into or out of its closure.
LEMMA RotationStays ==
  ASSUME Inv, RotationInv, Closed' = Closed,
         UNCHANGED <<count, switches, CURRENT_ID, real_tasks, TASK_FN>>,
         \A c \in Slots : /\ pc'[c] = "entry" <=> pc[c] = "entry"
                          /\ Parked(c)' <=> Parked(c)
  PROVE  RotationInv'
<1>1. real_tasks \in Nat /\ CURRENT_ID \in Nat /\ 0 .. (real_tasks - 1) \subseteq Slots
  BY BoundsAssumption DEF Inv, TypeOK, Slots
<1>2. \A c \in 0 .. (CURRENT_ID - 1) : CURRENT_ID < real_tasks => c \in Slots
  BY <1>1
<1>3. \A c \in (CURRENT_ID + 1) .. (real_tasks - 1) : c \in Slots
  BY <1>1
<1> QED
  BY <1>1, <1>2, <1>3 DEF RotationInv

\* A jump of the boot context moves no task.
LEMMA BootJump ==
  ASSUME Inv, RotationInv, NEW p \in Points, Goto(Boot, p), pc[Boot] # "spawn", p # "spawn",
         UNCHANGED <<count, switches, CURRENT_ID, real_tasks, TASK_FN>>
  PROVE  RotationInv'
<1>1. /\ Closed /\ Closed'
      /\ \A c \in Slots : pc'[c] = pc[c]
  BY GotoFacts, ContextFacts DEF Closed, Setup
<1> QED
  BY <1>1, RotationStays DEF Parked

\* A switch continues the rotation at the ring successor of the slot that ran,
\* which is parked or is the boot context.
LEMMA RotationSwitch ==
  ASSUME Inv, RotationInv, NEW c \in Contexts, NEW from, NEW to,
         run_pending_switch(c, from, to),
         \/ c = Boot /\ <<from, to>> = <<"wait_switch", "wait_pause">>
         \/ c = Boot /\ <<from, to>> = <<"idle_switch", "hlt">>
         \/ c \in Slots /\ <<from, to>> = <<"park_switch", "park">>
  PROVE  RotationInv'
<1> USE BoundsAssumption, NamesAssumption
<1>1. /\ rsp = c /\ pc[c] = from /\ Goto(c, to) /\ to \in Points
      /\ UNCHANGED <<count, real_tasks, TASK_FN, len>>
  BY DEF run_pending_switch, At, Points, Waiting, Idling, work
<1>2. /\ pc'[c] = to
      /\ \A d \in Contexts : d # c => pc'[d] = pc[d]
  BY <1>1, GotoFacts
<1>3. Closed /\ Closed'
  <2>1. Closed
    BY <1>1, ContextFacts DEF Inv, BuildInv, Closed, Setup
  <2> QED
    BY <2>1, <1>2, ContextFacts, Zenon DEF Closed, Setup
<1>4. \A d \in Slots : /\ pc'[d] = "entry" <=> pc[d] = "entry"
                       /\ Parked(d)' <=> Parked(d)
  BY <1>1, <1>2, ContextFacts, Zenon DEF Parked
<1>5. CASE ~(started /\ switch_pending)
  BY <1>1, <1>3, <1>4, <1>5, RotationStays, Zenon DEF run_pending_switch, saved
<1>6. CASE started /\ switch_pending
  <2>1. CURRENT_ID' = (CURRENT_ID + 1) % len /\ len = real_tasks + 1
    BY <1>3, <1>6, Zenon DEF run_pending_switch, Inv, RingInv
  <2>2. real_tasks \in Nat /\ CURRENT_ID \in 0 .. real_tasks /\ real_tasks \in Slots
    BY <1>3 DEF Inv, TypeOK, RingInv, Slots
  <2>3. real_tasks > 0
    BY <1>6, <2>2 DEF Inv, ControlInv
  <2>4. CURRENT_ID < real_tasks => Parked(CURRENT_ID)
    <3>1. CURRENT_ID < real_tasks => c = CURRENT_ID /\ c \in Slots
      BY <1>1, <1>3, <2>2 DEF Inv, RingInv, Owner, Slots
    <3> QED
      BY <1>1, <3>1, ContextFacts, Zenon DEF Parked
  <2>5. CURRENT_ID' = (IF CURRENT_ID = real_tasks THEN 0 ELSE CURRENT_ID + 1)
    BY <2>1, <2>2
  <2>6. 0 .. (real_tasks - 1) \subseteq Slots
    BY <2>2, SMTT(30) DEF Slots
  <2>7. CASE \A d \in 0 .. (real_tasks - 1) : Parked(d)
    BY <1>1, <1>3, <1>4, <2>6, <2>7 DEF RotationInv
  <2>8. CASE /\ CURRENT_ID < real_tasks
             /\ \A d \in 0 .. (CURRENT_ID - 1) : Parked(d)
             /\ \A d \in (CURRENT_ID + 1) .. (real_tasks - 1) : pc[d] = "entry"
    <3>1. \A d \in 0 .. CURRENT_ID : Parked(d) /\ d \in Slots
      BY <2>2, <2>4, <2>6, <2>8
    <3>2. CURRENT_ID' = CURRENT_ID + 1
      BY <2>5, <2>8, <2>2
    <3>3. CASE CURRENT_ID + 1 = real_tasks
      <4>1. \A d \in 0 .. (real_tasks - 1) : Parked(d)'
        BY <1>4, <2>2, <3>1, <3>3, SMTT(30)
      <4> QED
        BY <1>1, <1>3, <1>4, <2>6, <4>1 DEF RotationInv
    <3>4. CASE CURRENT_ID + 1 < real_tasks
      <4>1. \A d \in 0 .. (CURRENT_ID' - 1) : Parked(d)'
        BY <1>4, <2>2, <3>1, <3>2
      <4>2. \A d \in (CURRENT_ID' + 1) .. (real_tasks - 1) : pc'[d] = "entry"
        BY <1>4, <2>2, <2>6, <2>8, <3>2
      <4> QED
        BY <1>1, <1>3, <1>4, <2>6, <3>2, <3>4, <4>1, <4>2 DEF RotationInv
    <3> QED
      BY <2>2, <2>8, <3>3, <3>4
  <2>9. CASE /\ CURRENT_ID = real_tasks
             /\ \A d \in 0 .. (real_tasks - 1) : pc[d] = "entry"
    <3>1. CURRENT_ID' = 0 /\ CURRENT_ID' < real_tasks
      BY <2>3, <2>5, <2>9
    <3>2. \A d \in (CURRENT_ID' + 1) .. (real_tasks - 1) : pc'[d] = "entry"
      BY <1>4, <2>2, <2>6, <2>9, <3>1
    <3> QED
      BY <1>1, <1>3, <1>4, <3>1, <3>2 DEF RotationInv
  <2> QED
    BY <1>3, <2>7, <2>8, <2>9, Zenon DEF RotationInv
<1> QED
  BY <1>5, <1>6

\* Boot observes complete rotations only, for every ring size, every number of
\* iterations and spins, and every placement of the timer interrupts.
LEMMA RotationStep ==
  ASSUME Inv, RotationInv, [Next]_vars
  PROVE  RotationInv'
<1> USE BoundsAssumption, NamesAssumption
<1>1. CASE Spawn
  <2>1. /\ UNCHANGED <<count, switches, pc>> /\ TASK_FN' = TRUE /\ ~Closed /\ ~Closed'
    BY <1>1, Zenon DEF Spawn, At, Closed, Setup, work
  <2> QED
    BY <2>1 DEF RotationInv, Parked
<1>2. CASE Finish
  <2>1. /\ Goto(Boot, "wait") /\ "wait" \in Points /\ ~Closed
        /\ UNCHANGED <<count, switches, real_tasks, TASK_FN>>
    BY <1>2, Zenon DEF Finish, At, Closed, Setup, Points, Waiting, work
  <2>2. Closed' /\ \A c \in Slots : pc'[c] = pc[c]
    BY <2>1, GotoFacts, ContextFacts, Zenon DEF Closed, Setup
  <2>3. real_tasks \in Nat /\ 0 .. (real_tasks - 1) \subseteq Slots
    BY DEF Inv, TypeOK, Slots
  <2>4. real_tasks # 0 => CURRENT_ID' = real_tasks
    BY <1>2, Zenon DEF Finish
  <2>5. \A c \in Slots : pc'[c] = "entry"
    BY <2>1, <2>2, Zenon DEF RotationInv
  <2> QED
    BY <2>1, <2>2, <2>3, <2>4, <2>5 DEF RotationInv, Parked
<1>3. CASE WaitPump
  BY <1>3, BootJump DEF WaitPump, pump_ticks, At, Points, SwitchPoints, ring, saved, work
<1>4. CASE WaitSwitch
  BY <1>4, RotationSwitch, Zenon DEF WaitSwitch, Contexts
<1>5. CASE WaitPause
  BY <1>5, BootJump, Zenon DEF WaitPause, At, Points, Waiting, ring, saved, work
<1>6. CASE LeaveWait
  <2>1. PICK p \in {"ring3", "idle"} : Goto(Boot, p)
    BY <1>6, Zenon DEF LeaveWait
  <2> QED
    BY <1>6, <2>1, BootJump DEF LeaveWait, At, Points, Idling, ring, saved, work
<1>7. CASE IdlePump
  BY <1>7, BootJump DEF IdlePump, pump_ticks, At, Points, SwitchPoints, ring, saved, work
<1>8. CASE IdleSwitch
  BY <1>8, RotationSwitch, Zenon DEF IdleSwitch, Contexts
<1>9. ASSUME NEW c \in Slots, task_entry(c) PROVE RotationInv'
  <2>1. /\ rsp = c /\ pc[c] = "entry" /\ c \in Contexts /\ c # Boot
        /\ UNCHANGED <<count, switches, CURRENT_ID, real_tasks, TASK_FN>>
    BY <1>9, ContextFacts, Zenon DEF task_entry, At, ring, saved, work
  <2>2. Closed /\ real_tasks \in Nat /\ CURRENT_ID \in 0 .. real_tasks
    BY <2>1, ContextFacts DEF Inv, TypeOK, BuildInv, RingInv, Slots
  <2>3. c = CURRENT_ID /\ c < real_tasks
    BY <2>1, <2>2 DEF Inv, RingInv, Owner
  <2>4. Goto(c, "closure") /\ "closure" \in Points
    BY <1>9, <2>2, <2>3 DEF task_entry, RotationInv, Points, Slots
  <2>5. pc'[c] = "closure" /\ \A d \in Contexts : d # c => pc'[d] = pc[d]
    BY <2>1, <2>4, GotoFacts
  <2>6. Closed' /\ \A d \in Slots : d # c => pc'[d] = pc[d]
    BY <2>1, <2>2, <2>5, ContextFacts, Zenon DEF Closed
  <2>7. 0 .. (real_tasks - 1) \subseteq Slots
    BY DEF Inv, TypeOK, Slots
  <2>8. /\ \A d \in 0 .. (CURRENT_ID - 1) : Parked(d)
        /\ \A d \in (CURRENT_ID + 1) .. (real_tasks - 1) : pc[d] = "entry"
    BY <2>1, <2>2, <2>3 DEF RotationInv, Parked
  <2>9. /\ \A d \in 0 .. (CURRENT_ID - 1) : Parked(d)'
        /\ \A d \in (CURRENT_ID + 1) .. (real_tasks - 1) : pc'[d] = "entry"
    BY <2>2, <2>3, <2>6, <2>7, <2>8 DEF Parked
  <2> QED
    BY <2>1, <2>2, <2>3, <2>5, <2>6, <2>9 DEF RotationInv, Parked
<1>10. ASSUME NEW c \in Slots, task_closure(c) PROVE RotationInv'
  <2>1. /\ rsp = c /\ pc[c] = "closure" /\ c \in Contexts /\ c # Boot
        /\ UNCHANGED <<switches, CURRENT_ID, real_tasks, TASK_FN>>
    BY <1>10, ContextFacts, Zenon DEF task_closure, At, ring, saved, work
  <2>2. Closed /\ real_tasks \in Nat /\ CURRENT_ID \in 0 .. real_tasks
    BY <2>1, ContextFacts DEF Inv, TypeOK, BuildInv, RingInv, Slots
  <2>3. c = CURRENT_ID /\ c < real_tasks
    BY <2>1, <2>2 DEF Inv, RingInv, Owner
  <2>4. 0 .. (real_tasks - 1) \subseteq Slots
    BY DEF Inv, TypeOK, Slots
  <2>5. /\ \A d \in 0 .. (CURRENT_ID - 1) : Parked(d)
        /\ \A d \in (CURRENT_ID + 1) .. (real_tasks - 1) : pc[d] = "entry"
    BY <2>1, <2>2, <2>3 DEF RotationInv, Parked
  <2>6. CASE count[c] < Iterations
    <3>1. pc' = pc /\ \A d \in Slots : d # c => count'[d] = count[d]
      BY <1>10, <2>6, Zenon DEF task_closure, Inv, TypeOK
    <3> QED
      BY <2>1, <2>2, <2>3, <2>5, <3>1, Zenon DEF RotationInv, Parked, Closed
  <2>7. CASE ~(count[c] < Iterations)
    <3>1. Goto(c, "park") /\ "park" \in Points /\ UNCHANGED count /\ count[c] = Iterations
      BY <1>10, <2>7 DEF task_closure, Points, work, Inv, TypeOK
    <3>2. pc'[c] = "park" /\ \A d \in Contexts : d # c => pc'[d] = pc[d]
      BY <2>1, <3>1, GotoFacts
    <3>3. Closed' /\ \A d \in Slots : d # c => pc'[d] = pc[d]
      BY <2>1, <2>2, <3>2, ContextFacts DEF Closed
    <3>4. /\ \A d \in 0 .. (CURRENT_ID - 1) : Parked(d)'
          /\ \A d \in (CURRENT_ID + 1) .. (real_tasks - 1) : pc'[d] = "entry"
      BY <2>2, <2>3, <2>4, <2>5, <3>3 DEF Parked
    <3> QED
      BY <2>1, <2>2, <2>3, <3>1, <3>2, <3>3, <3>4, Zenon DEF RotationInv, Parked
  <2> QED
    BY <2>6, <2>7, Zenon
<1>11. ASSUME NEW c \in Slots, ParkPump(c) PROVE RotationInv'
  <2>1. /\ pc[c] = "park" /\ c \in Contexts /\ c # Boot
        /\ Goto(c, "park_switch") /\ "park_switch" \in Points
        /\ UNCHANGED <<count, switches, CURRENT_ID, real_tasks, TASK_FN>>
    BY <1>11, ContextFacts DEF ParkPump, pump_ticks, At, Points, SwitchPoints, ring, saved, work
  <2>2. pc'[c] = "park_switch" /\ \A d \in Contexts : d # c => pc'[d] = pc[d]
    BY <2>1, GotoFacts
  <2>3. Closed' = Closed
    BY <2>1, <2>2, ContextFacts DEF Closed
  <2> QED
    BY <2>1, <2>2, <2>3, RotationStays, ContextFacts, Zenon DEF Parked
<1>12. ASSUME NEW c \in Slots, ParkSwitch(c) PROVE RotationInv'
  BY <1>12, RotationSwitch DEF ParkSwitch, Contexts
<1>13. CASE TimerIrq
  BY <1>13, RotationStays, Zenon DEF TimerIrq, ring, saved, work, Parked, Closed
<1>14. CASE UNCHANGED vars
  BY <1>14, RotationStays DEF vars, ring, saved, work, Parked, Closed
<1> QED
  BY <1>1, <1>2, <1>3, <1>4, <1>5, <1>6, <1>7, <1>8, <1>9, <1>10, <1>11, <1>12,
     <1>13, <1>14, Zenon DEF Next, CpuStep, BootStep, TaskStep

\* The LIONOS_SCHED marker is honest: when kernel_main looks at the scheduler,
\* every task's closure is complete or none was begun, and after MinSwitches
\* switches it is complete.
THEOREM MarkerIsHonest == Spec => []MarkerHonest
<1> USE BoundsAssumption, NamesAssumption
<1>1. Init => RotationInv
  BY ContextFacts DEF Init, RotationInv, Parked, Closed, Setup
<1>2. Inv /\ RotationInv /\ [Next]_vars => RotationInv'
  BY RotationStep
<1>3. Inv /\ RotationInv => MarkerHonest
  <2> SUFFICES ASSUME Inv, RotationInv, rsp = Boot PROVE MarkerHonest
    BY Zenon DEF MarkerHonest
  <2>1. real_tasks \in Nat /\ 0 .. (real_tasks - 1) \subseteq Slots /\ CURRENT_ID \in Nat
    BY DEF Inv, TypeOK, Slots
  <2>2. CASE ~Closed
    BY <2>1, <2>2 DEF RotationInv, MarkerHonest
  <2>3. CASE Closed
    <3>1. ~(CURRENT_ID < real_tasks)
      BY <2>1, <2>3 DEF Inv, RingInv, Owner
    <3>2. CASE \A c \in 0 .. (real_tasks - 1) : Parked(c)
      BY <2>1, <3>2, Zenon DEF RotationInv, MarkerHonest
    <3>3. CASE switches = 0 /\ \A c \in 0 .. (real_tasks - 1) : pc[c] = "entry"
      <4>1. \A c \in Slots : pc[c] = "entry"
        BY <2>1, <3>3 DEF RotationInv, Slots
      <4> QED
        BY <3>3, <4>1 DEF RotationInv, MarkerHonest
    <3> QED
      BY <2>3, <3>1, <3>2, <3>3, Zenon DEF RotationInv
  <2> QED
    BY <2>2, <2>3, Zenon
<1> QED
  BY <1>1, <1>2, <1>3, Inductive, PTL DEF Spec

-----------------------------------------------------------------------------
(* The queue: for every ring size and every placement of interrupts, enqueue  *)
(* and run_deferred exclude each other from the critical section, and         *)
(* accepted work runs in the order in which it was accepted.                  *)

\* A step keeps the flag in agreement with the two control points.
LEMMA ExclusionStep == MutualExclusion /\ [QueueNext]_queueVars => MutualExclusion'
<1> USE DEF MutualExclusion
<1> SUFFICES ASSUME MutualExclusion, [QueueNext]_queueVars PROVE MutualExclusion'
  OBVIOUS
<1>1. CASE Interrupt
  BY <1>1 DEF Interrupt
<1>2. CASE EnqueueLock
  BY <1>2, Zenon DEF EnqueueLock
<1>3. CASE EnqueuePut
  BY <1>3 DEF EnqueuePut
<1>4. CASE EnqueueUnlock
  BY <1>4 DEF EnqueueUnlock
<1>5. CASE BeginDrain
  BY <1>5 DEF BeginDrain
<1>6. CASE DrainLock
  BY <1>6 DEF DrainLock
<1>7. CASE DrainTake
  BY <1>7 DEF DrainTake
<1>8. CASE DrainUnlock
  BY <1>8 DEF DrainUnlock
<1>9. CASE DrainCall
  BY <1>9 DEF DrainCall
<1>10. CASE UNCHANGED queueVars
  BY <1>10 DEF queueVars
<1> QED
  BY <1>1, <1>2, <1>3, <1>4, <1>5, <1>6, <1>7, <1>8, <1>9, <1>10
     DEF QueueNext, Handler, Main

\* enqueue and run_deferred are never in the critical section together.
THEOREM Exclusion == QueueSpec => []MutualExclusion
<1>1. QueueInit => MutualExclusion
  BY DEF QueueInit, MutualExclusion
<1> QED
  BY <1>1, ExclusionStep, PTL DEF QueueSpec

-----------------------------------------------------------------------------
(* Arithmetic of the ring *)

\* A remainder without division, for what the ring's indices can reach.
LEMMA ModSmall ==
  ASSUME NEW n \in Nat \ {0}, NEW a \in Nat, a < n + n
  PROVE  a % n = IF a < n THEN a ELSE a - n
BY SMT

\* How far slot t lies after slot h.
LEMMA Distance ==
  ASSUME NEW h \in Ring, NEW t \in Ring
  PROVE  (QUEUE_CAP + t - h) % QUEUE_CAP = IF h <= t THEN t - h ELSE QUEUE_CAP + t - h
<1> USE QueueAssumption DEF Ring
<1> DEFINE a == QUEUE_CAP + t - h
<1>1. a \in Nat /\ a < QUEUE_CAP + QUEUE_CAP
  OBVIOUS
<1>2. a % QUEUE_CAP = IF a < QUEUE_CAP THEN a ELSE a - QUEUE_CAP
  <2> HIDE DEF a
  <2> QED
    BY <1>1, ModSmall, Zenon
<1> QED
  BY <1>1, <1>2

\* The i-th slot from h on.
LEMMA SlotFrom ==
  ASSUME NEW h \in Ring, NEW i \in 1 .. QUEUE_CAP
  PROVE  /\ (h + i - 1) % QUEUE_CAP
              = IF h + i - 1 < QUEUE_CAP THEN h + i - 1 ELSE h + i - 1 - QUEUE_CAP
         /\ (h + i - 1) % QUEUE_CAP \in Ring
<1> USE QueueAssumption DEF Ring
<1> DEFINE a == h + i - 1
<1>1. a \in Nat /\ a < QUEUE_CAP + QUEUE_CAP
  OBVIOUS
<1>2. a % QUEUE_CAP = IF a < QUEUE_CAP THEN a ELSE a - QUEUE_CAP
  <2> HIDE DEF a
  <2> QED
    BY <1>1, ModSmall, Zenon
<1> QED
  BY <1>1, <1>2

Count == (QUEUE_CAP + Q_TAIL - Q_HEAD) % QUEUE_CAP

\* The i-th occupied slot.
Slot(i) == (Q_HEAD + i - 1) % QUEUE_CAP

\* The ring arithmetic of the queue without the remainder.
LEMMA RingFacts ==
  ASSUME Q_HEAD \in Ring, Q_TAIL \in Ring
  PROVE  /\ Count = IF Q_HEAD <= Q_TAIL THEN Q_TAIL - Q_HEAD ELSE QUEUE_CAP + Q_TAIL - Q_HEAD
         /\ Count \in Nat /\ Count < QUEUE_CAP
         /\ \A i \in Ring : /\ Succ(i) = IF i + 1 < QUEUE_CAP THEN i + 1 ELSE 0
                            /\ Succ(i) \in Ring
         /\ \A i \in 1 .. QUEUE_CAP :
              /\ Slot(i) = IF Q_HEAD + i - 1 < QUEUE_CAP THEN Q_HEAD + i - 1
                                                         ELSE Q_HEAD + i - 1 - QUEUE_CAP
              /\ Slot(i) \in Ring
<1> USE QueueAssumption DEF Ring
<1>1. Count = IF Q_HEAD <= Q_TAIL THEN Q_TAIL - Q_HEAD ELSE QUEUE_CAP + Q_TAIL - Q_HEAD
  BY Distance DEF Count
<1>2. Count \in Nat /\ Count < QUEUE_CAP
  BY <1>1
<1>3. ASSUME NEW i \in Ring
      PROVE  Succ(i) = (IF i + 1 < QUEUE_CAP THEN i + 1 ELSE 0) /\ Succ(i) \in Ring
  <2> DEFINE a == i + 1
  <2>1. a \in Nat /\ a < QUEUE_CAP + QUEUE_CAP /\ Succ(i) = a % QUEUE_CAP
    BY DEF Succ
  <2>2. a % QUEUE_CAP = IF a < QUEUE_CAP THEN a ELSE a - QUEUE_CAP
    <3> HIDE DEF a
    <3> QED
      BY <2>1, ModSmall, Zenon
  <2> QED
    BY <2>1, <2>2
<1>4. ASSUME NEW i \in 1 .. QUEUE_CAP
      PROVE  /\ Slot(i) = IF Q_HEAD + i - 1 < QUEUE_CAP THEN Q_HEAD + i - 1
                                                        ELSE Q_HEAD + i - 1 - QUEUE_CAP
             /\ Slot(i) \in Ring
  BY SlotFrom, Zenon DEF Slot
<1> QED
  BY <1>1, <1>2, <1>3, <1>4

-----------------------------------------------------------------------------
(* What each step does to the queue *)

\* run_deferred holds an item only between taking and running it, enqueue is
\* called with an item, and the occupied slots hold items.
Local ==
  /\ item # None => main \in {"unlock", "call"}
  /\ main = "call" => item # None
  /\ isr # "off" => offered # 0
  /\ \A i \in 1 .. Count : QUEUE[Slot(i)] # None

QueueInv == QueueTypeOK /\ MutualExclusion /\ Local /\ FifoOrder

Items == 1 .. Calls

\* Contents is a sequence of items.
LEMMA ContentsFacts ==
  ASSUME QueueTypeOK, Local
  PROVE  /\ Contents \in Seq(Items) /\ Len(Contents) = Count
         /\ \A i \in 1 .. Count : Contents[i] = QUEUE[Slot(i)]
         /\ InHand \in Seq(Items) /\ ran \in Seq(Items) /\ accepted \in Seq(Items)
<1>1. Count \in Nat /\ Count < QUEUE_CAP /\ \A i \in 1 .. QUEUE_CAP : Slot(i) \in Ring
  BY RingFacts, Zenon DEF QueueTypeOK
<1>2. \A i \in 1 .. Count : QUEUE[Slot(i)] \in Items
  <2> SUFFICES ASSUME NEW i \in 1 .. Count PROVE QUEUE[Slot(i)] \in Items
    OBVIOUS
  <2>1. Slot(i) \in Ring
    BY <1>1, QueueAssumption
  <2>2. QUEUE[Slot(i)] \in 0 .. Calls /\ QUEUE[Slot(i)] # 0
    BY <2>1 DEF QueueTypeOK, Local, None
  <2> QED
    BY <2>2, QueueAssumption DEF Items
<1>3. Contents = [i \in 1 .. Count |-> QUEUE[Slot(i)]]
  BY DEF Contents, Count, Slot
<1>4. Contents \in [1 .. Count -> Items]
  BY <1>2, <1>3
<1>5. Contents \in Seq(Items) /\ Len(Contents) = Count
  BY <1>1, <1>4
<1>6. InHand \in Seq(Items)
  <2>1. CASE item = None
    BY <2>1 DEF InHand
  <2>2. CASE item # None
    <3>1. item \in Items
      BY <2>2, QueueAssumption, SMTT(30) DEF QueueTypeOK, Items, None
    <3> QED
      BY <2>2, <3>1 DEF InHand
  <2> QED
    BY <2>1, <2>2
<1> QED
  BY <1>3, <1>5, <1>6, Zenon DEF QueueTypeOK, Items

\* A step that leaves the ring, the item and the histories alone.
LEMMA QuietStep ==
  ASSUME QueueInv, UNCHANGED <<queue, item, accepted, ran>>
  PROVE  FifoOrder' /\ (\A i \in 1 .. Count : QUEUE[Slot(i)] # None)'
<1>1. UNCHANGED <<Q_HEAD, Q_TAIL, QUEUE, item, accepted, ran>>
  BY DEF queue
<1> QED
  BY <1>1 DEF QueueInv, FifoOrder, Local, Contents, InHand, Count, Slot

\* Appending to a concatenation appends to its second part.
LEMMA AppendOverConcat ==
  \A s, t \in Seq(Items), e \in Items : Append(s \o t, e) = s \o Append(t, e)
<1> SUFFICES ASSUME NEW s \in Seq(Items), NEW t \in Seq(Items), NEW e \in Items
             PROVE  Append(s \o t, e) = s \o Append(t, e)
  BY Zenon
<1> DEFINE one == <<e>>
<1>1. one \in Seq(Items)
  OBVIOUS
<1>2. s \o t \in Seq(Items)
  OBVIOUS
<1>3. Append(s \o t, e) = (s \o t) \o one
  BY <1>2
<1>4. Append(t, e) = t \o one
  OBVIOUS
<1> HIDE DEF one
<1>5. (s \o t) \o one = s \o (t \o one)
  BY <1>1, SMTT(60)
<1> QED
  BY <1>3, <1>4, <1>5, Zenon

\* An accepted item goes to the end of the queue.
LEMMA PutStep ==
  ASSUME QueueInv, isr = "put", RoomFor,
         QUEUE' = [QUEUE EXCEPT ![Q_TAIL] = offered],
         Q_TAIL' = Succ(Q_TAIL), accepted' = Append(accepted, offered),
         UNCHANGED <<Q_HEAD, item, ran>>
  PROVE  FifoOrder' /\ (\A i \in 1 .. Count : QUEUE[Slot(i)] # None)'
<1> DEFINE n == Count
<1>1. /\ Q_HEAD \in Ring /\ Q_TAIL \in Ring /\ Q_TAIL' \in Ring /\ Q_HEAD' \in Ring
      /\ QUEUE \in [Ring -> 0 .. Calls]
  BY RingFacts, Zenon DEF QueueInv, QueueTypeOK
<1>2. n \in Nat /\ n < QUEUE_CAP - 1
  BY <1>1, RingFacts, QueueAssumption, Zenon DEF RoomFor, Count
<1>3. Count' = n + 1
  <2>1. /\ n = IF Q_HEAD <= Q_TAIL THEN Q_TAIL - Q_HEAD ELSE QUEUE_CAP + Q_TAIL - Q_HEAD
        /\ Q_TAIL' = IF Q_TAIL + 1 < QUEUE_CAP THEN Q_TAIL + 1 ELSE 0
    BY <1>1, RingFacts, Zenon
  <2>2. Count' = IF Q_HEAD' <= Q_TAIL' THEN Q_TAIL' - Q_HEAD' ELSE QUEUE_CAP + Q_TAIL' - Q_HEAD'
    BY <1>1, Distance, Zenon DEF Count
  <2> HIDE DEF n
  <2> QED
    BY <2>1, <2>2, <1>1, <1>2, QueueAssumption DEF Ring
<1>4. \A i \in 1 .. (n + 1) : /\ Slot(i)' = Slot(i) /\ Slot(i) \in Ring
                              /\ Slot(i) = Q_TAIL <=> i = n + 1
  <2> SUFFICES ASSUME NEW i \in 1 .. (n + 1)
               PROVE  /\ Slot(i)' = Slot(i) /\ Slot(i) \in Ring
                      /\ Slot(i) = Q_TAIL <=> i = n + 1
    OBVIOUS
  <2>1. i \in 1 .. QUEUE_CAP
    BY <1>2, QueueAssumption
  <2>2. Slot(i)' = Slot(i)
    BY Zenon DEF Slot
  <2>3. /\ Slot(i) = IF Q_HEAD + i - 1 < QUEUE_CAP THEN Q_HEAD + i - 1
                                                   ELSE Q_HEAD + i - 1 - QUEUE_CAP
        /\ Slot(i) \in Ring
    BY <1>1, <2>1, RingFacts, Zenon
  <2>4. n = IF Q_HEAD <= Q_TAIL THEN Q_TAIL - Q_HEAD ELSE QUEUE_CAP + Q_TAIL - Q_HEAD
    BY <1>1, RingFacts, Zenon
  <2> HIDE DEF n
  <2> QED
    BY <2>1, <2>2, <2>3, <2>4, <1>1, <1>2, QueueAssumption, SMTT(30) DEF Ring
<1>5. offered \in Items
  BY QueueAssumption DEF QueueInv, QueueTypeOK, Local, Items
<1>6. \A i \in 1 .. (n + 1) : QUEUE'[Slot(i)'] = IF i = n + 1 THEN offered ELSE QUEUE[Slot(i)]
  BY <1>1, <1>4, Zenon
<1>7. \A i \in 1 .. (n + 1) : QUEUE'[Slot(i)'] # None
  BY <1>2, <1>5, <1>6 DEF QueueInv, Local, Items, None
<1>8. /\ Contents \in Seq(Items) /\ Len(Contents) = n
      /\ \A i \in 1 .. n : Contents[i] = QUEUE[Slot(i)]
      /\ InHand \in Seq(Items) /\ ran \in Seq(Items) /\ accepted \in Seq(Items)
  BY ContentsFacts DEF QueueInv
<1>9. Contents' = [i \in 1 .. (n + 1) |-> QUEUE'[Slot(i)']]
  BY <1>3, Zenon DEF Contents, Count, Slot
<1> HIDE DEF n
<1>10. Contents' = Append(Contents, offered)
  <2>1. Contents' \in [1 .. (n + 1) -> Items]
    <3>1. \A i \in 1 .. (n + 1) : QUEUE'[Slot(i)'] \in Items
      <4> SUFFICES ASSUME NEW i \in 1 .. (n + 1), i # n + 1
                   PROVE  QUEUE[Slot(i)] \in Items
        BY <1>5, <1>6
      <4>1. i \in 1 .. n
        BY <1>2
      <4> QED
        BY <4>1, <1>8
    <3> QED
      BY <3>1, <1>9
  <2>2. Contents' \in Seq(Items) /\ Len(Contents') = n + 1
    BY <2>1, <1>2
  <2>3. Append(Contents, offered) \in Seq(Items) /\ Len(Append(Contents, offered)) = n + 1
    BY <1>5, <1>8
  <2>4. ASSUME NEW i \in 1 .. (n + 1)
        PROVE  Contents'[i] = Append(Contents, offered)[i]
    <3>1. CASE i = n + 1
      BY <3>1, <1>6, <1>8, <1>9, <1>5, <1>2
    <3>2. CASE i # n + 1
      <4>1. i \in 1 .. n
        BY <3>2, <1>2
      <4> QED
        <5>1. Contents'[i] = Contents[i]
          BY <3>2, <4>1, <1>6, <1>8, <1>9, Zenon
        <5>2. Append(Contents, offered)[i] = Contents[i]
          BY <4>1, <1>5, <1>8
        <5> QED
          BY <5>1, <5>2, Zenon
    <3> QED
      BY <3>1, <3>2, Zenon
  <2> QED
    BY <2>2, <2>3, <2>4
<1>11. InHand' = InHand
  BY DEF InHand
<1>12. FifoOrder'
  <2> DEFINE front == ran \o InHand
  <2>1. front \in Seq(Items) /\ accepted = front \o Contents
    BY <1>8 DEF QueueInv, FifoOrder
  <2> HIDE DEF front
  <2>2. Append(front \o Contents, offered) = front \o Append(Contents, offered)
    <3>1. front \in Seq(Items) /\ Contents \in Seq(Items) /\ offered \in Items
      BY <2>1, <1>5, <1>8
    <3> QED
      BY <3>1, AppendOverConcat, Zenon
  <2>3. accepted' = front \o Contents'
    BY <2>1, <2>2, <1>10
  <2> QED
    BY <2>3, <1>11 DEF FifoOrder, front
<1> QED
  BY <1>3, <1>7, <1>12

\* A sequence is its first element followed by the rest.
LEMMA Uncons ==
  ASSUME NEW S, NEW c \in Seq(S), NEW t \in Seq(S), Len(c) = Len(t) + 1,
         \A i \in 1 .. Len(t) : t[i] = c[i + 1]
  PROVE  <<c[1]>> \o t = c
<1>1. Len(t) \in Nat /\ c[1] \in S
  OBVIOUS
<1> DEFINE one == <<c[1]>>
<1>2. one \in Seq(S) /\ Len(one) = 1 /\ one[1] = c[1]
  BY <1>1
<1> HIDE DEF one
<1>3. /\ one \o t \in Seq(S) /\ Len(one \o t) = Len(one) + Len(t)
      /\ \A i \in 1 .. Len(one) + Len(t) :
           (one \o t)[i] = IF i <= Len(one) THEN one[i] ELSE t[i - Len(one)]
  <2>1. one \in Seq(S) /\ t \in Seq(S)
    BY <1>2, Zenon
  <2> QED
    BY <2>1
<1>4. Len(one \o t) = Len(c)
  BY <1>1, <1>2, <1>3
<1>5. ASSUME NEW i \in 1 .. Len(c) PROVE (one \o t)[i] = c[i]
  <2>1. CASE i = 1
    BY <2>1, <1>1, <1>2, <1>3
  <2>2. CASE i # 1
    <3>1. i - 1 \in 1 .. Len(t) /\ (i - 1) + 1 = i /\ i \in 1 .. (1 + Len(t)) /\ ~(i <= 1)
      BY <2>2, <1>1
    <3>2. (one \o t)[i] = t[i - 1]
      BY <3>1, <1>2, <1>3, Zenon
    <3> QED
      BY <3>1, <3>2, Zenon
  <2> QED
    BY <2>1, <2>2, Zenon
<1>6. one \o t = c
  BY <1>3, <1>4, <1>5
<1> QED
  BY <1>6 DEF one

\* The item taken is the oldest one.
LEMMA TakeStep ==
  ASSUME QueueInv, item = None, Q_HEAD # Q_TAIL,
         item' = QUEUE[Q_HEAD], QUEUE' = [QUEUE EXCEPT ![Q_HEAD] = None],
         Q_HEAD' = Succ(Q_HEAD), UNCHANGED <<Q_TAIL, accepted, ran>>
  PROVE  /\ FifoOrder' /\ (\A i \in 1 .. Count : QUEUE[Slot(i)] # None)'
         /\ item' # None
<1> DEFINE n == Count
<1>1. /\ Q_HEAD \in Ring /\ Q_TAIL \in Ring /\ Q_TAIL' \in Ring /\ Q_HEAD' \in Ring
      /\ QUEUE \in [Ring -> 0 .. Calls]
      /\ Q_HEAD' = IF Q_HEAD + 1 < QUEUE_CAP THEN Q_HEAD + 1 ELSE 0
  BY RingFacts, Zenon DEF QueueInv, QueueTypeOK
<1>2. /\ n = IF Q_HEAD <= Q_TAIL THEN Q_TAIL - Q_HEAD ELSE QUEUE_CAP + Q_TAIL - Q_HEAD
      /\ n \in Nat /\ n < QUEUE_CAP
  BY <1>1, RingFacts, Zenon
<1>3. n > 0 /\ Count' = n - 1
  <2>1. Count' = IF Q_HEAD' <= Q_TAIL' THEN Q_TAIL' - Q_HEAD' ELSE QUEUE_CAP + Q_TAIL' - Q_HEAD'
    BY <1>1, Distance, Zenon DEF Count
  <2> HIDE DEF n
  <2> QED
    BY <2>1, <1>1, <1>2, QueueAssumption DEF Ring
<1>4. Slot(1) = Q_HEAD
  <2>1. 1 \in 1 .. QUEUE_CAP
    BY QueueAssumption, SMTT(30)
  <2> QED
    BY <1>1, <2>1, RingFacts, QueueAssumption DEF Ring
<1>5. \A i \in 1 .. (n - 1) : /\ Slot(i)' = Slot(i + 1) /\ Slot(i + 1) \in Ring
                              /\ Slot(i + 1) # Q_HEAD
  <2> SUFFICES ASSUME NEW i \in 1 .. (n - 1)
               PROVE  /\ Slot(i)' = Slot(i + 1) /\ Slot(i + 1) \in Ring
                      /\ Slot(i + 1) # Q_HEAD
    BY Zenon
  <2>1. i + 1 \in 1 .. QUEUE_CAP /\ i \in 1 .. QUEUE_CAP
    BY <1>2, QueueAssumption
  <2>2. /\ Slot(i + 1) = IF Q_HEAD + (i + 1) - 1 < QUEUE_CAP
                           THEN Q_HEAD + (i + 1) - 1
                           ELSE Q_HEAD + (i + 1) - 1 - QUEUE_CAP
        /\ Slot(i + 1) \in Ring
    BY <1>1, <2>1, RingFacts, Zenon
  <2>3. Slot(i)' = IF Q_HEAD' + i - 1 < QUEUE_CAP THEN Q_HEAD' + i - 1
                                                  ELSE Q_HEAD' + i - 1 - QUEUE_CAP
    <3>1. Slot(i)' = (Q_HEAD' + i - 1) % QUEUE_CAP
      BY Zenon DEF Slot
    <3> DEFINE h == Q_HEAD'
    <3>2. (h + i - 1) % QUEUE_CAP
            = IF h + i - 1 < QUEUE_CAP THEN h + i - 1 ELSE h + i - 1 - QUEUE_CAP
      <4>1. h \in Ring
        BY <1>1, Zenon
      <4> HIDE DEF h
      <4> QED
        BY <4>1, <2>1, SlotFrom, Zenon
    <3> QED
      BY <3>1, <3>2
  <2> HIDE DEF n
  <2> QED
    BY <2>1, <2>2, <2>3, <1>1, <1>2, QueueAssumption DEF Ring
<1>6. /\ Contents \in Seq(Items) /\ Len(Contents) = n
      /\ \A i \in 1 .. n : Contents[i] = QUEUE[Slot(i)]
      /\ ran \in Seq(Items) /\ accepted \in Seq(Items)
  BY ContentsFacts, Zenon DEF QueueInv
<1>7. \A i \in 1 .. (n - 1) : QUEUE'[Slot(i)'] = Contents[i + 1] /\ QUEUE'[Slot(i)'] # None
  <2> SUFFICES ASSUME NEW i \in 1 .. (n - 1)
               PROVE  QUEUE'[Slot(i)'] = Contents[i + 1] /\ QUEUE'[Slot(i)'] # None
    BY Zenon
  <2>1. i + 1 \in 1 .. n
    BY <1>2
  <2>2. QUEUE'[Slot(i)'] = QUEUE[Slot(i + 1)]
    BY <1>1, <1>5, Zenon
  <2> QED
    BY <2>1, <2>2, <1>6, Zenon DEF QueueInv, Local
<1>8. Contents' = [i \in 1 .. (n - 1) |-> QUEUE'[Slot(i)']]
  BY <1>3, Zenon DEF Contents, Count, Slot
<1>9. item' = Contents[1] /\ item' # None /\ item' \in Items
  <2>1. 1 \in 1 .. n
    BY <1>2, <1>3, SMTT(30)
  <2>2. item' = Contents[1] /\ item' # None
    BY <2>1, <1>4, <1>6 DEF QueueInv, Local
  <2> QED
    BY <2>1, <2>2, <1>6
<1> HIDE DEF n
<1>10. InHand' = <<item'>> /\ InHand = <<>>
  BY <1>9, Zenon DEF InHand, None
<1>11. Contents' \in Seq(Items) /\ Len(Contents') = n - 1
       /\ \A i \in 1 .. (n - 1) : Contents'[i] = Contents[i + 1]
  <2>1. n - 1 \in Nat
    BY <1>2, <1>3, SMTT(30)
  <2>2. \A i \in 1 .. (n - 1) : Contents[i + 1] \in Items
    BY <1>2, <1>6, SMTT(30)
  <2>3. Contents' \in [1 .. (n - 1) -> Items]
    BY <1>7, <1>8, <2>2
  <2>4. Contents' \in Seq(Items) /\ Len(Contents') = n - 1
    BY <2>1, <2>3
  <2> QED
    BY <2>4, <1>7, <1>8, Zenon
<1>12. <<item'>> \o Contents' = Contents
  <2>1. Len(Contents) = Len(Contents') + 1
    BY <1>2, <1>6, <1>11
  <2>2. \A i \in 1 .. Len(Contents') : Contents'[i] = Contents[i + 1]
    BY <1>11, Zenon
  <2> DEFINE t == Contents'
  <2>3. <<Contents[1]>> \o t = Contents
    <3>1. /\ t \in Seq(Items) /\ Len(Contents) = Len(t) + 1
          /\ \A i \in 1 .. Len(t) : t[i] = Contents[i + 1]
      BY <2>1, <2>2, <1>11, Zenon
    <3> HIDE DEF t
    <3> QED
      BY <3>1, <1>6, Uncons, Zenon
  <2> QED
    BY <2>3, <1>9, Zenon
<1>13. FifoOrder'
  <2>1. accepted = ran \o Contents
    BY <1>6, <1>10 DEF QueueInv, FifoOrder
  <2>2. (ran \o <<item'>>) \o Contents' = ran \o (<<item'>> \o Contents')
    <3> DEFINE one == <<item'>>
    <3>1. one \in Seq(Items)
      BY <1>9, SMTT(30)
    <3> HIDE DEF one
    <3>2. (ran \o one) \o Contents' = ran \o (one \o Contents')
      BY <3>1, <1>6, <1>11, SMTT(60)
    <3> QED
      BY <3>2 DEF one
  <2> QED
    BY <2>1, <2>2, <1>10, <1>12, Zenon DEF FifoOrder
<1> QED
  BY <1>3, <1>7, <1>9, <1>13, Zenon

\* Running the item moves it from the hand to the history.
LEMMA CallStep ==
  ASSUME QueueInv, item # None, ran' = Append(ran, item), item' = None,
         UNCHANGED <<queue, accepted>>
  PROVE  FifoOrder' /\ (\A i \in 1 .. Count : QUEUE[Slot(i)] # None)'
<1>1. UNCHANGED <<Q_HEAD, Q_TAIL, QUEUE>>
  BY DEF queue
<1>2. Contents' = Contents /\ (\A i \in 1 .. Count : QUEUE[Slot(i)] # None)'
  BY <1>1 DEF QueueInv, Local, Contents, Count, Slot
<1>3. ran \in Seq(Items) /\ InHand = <<item>> /\ InHand' = <<>> /\ item \in Items
  BY QueueAssumption DEF QueueInv, QueueTypeOK, InHand, Items, None
<1>4. ran' = ran \o <<item>>
  BY <1>3
<1>5. ran' \in Seq(Items)
  BY <1>3
<1>6. ran' \o <<>> = ran'
  BY <1>5
<1> QED
  BY <1>2, <1>3, <1>4, <1>6, Zenon DEF FifoOrder, QueueInv

-----------------------------------------------------------------------------
(* The queue is first in, first out *)

\* The inductive invariant is preserved by every step: only the step that
\* stores, the one that takes and the one that runs an item touch the order.
LEMMA InvStep == QueueInv /\ [QueueNext]_queueVars => QueueInv'
<1> SUFFICES ASSUME QueueInv, [QueueNext]_queueVars PROVE QueueInv'
  BY Zenon
<1> DEFINE Occupied == \A i \in 1 .. Count : QUEUE[Slot(i)] # None
<1>1. \A i \in Ring : Succ(i) \in Ring
  BY RingFacts DEF QueueInv, QueueTypeOK
<1>2. MutualExclusion'
  BY ExclusionStep, Zenon DEF QueueInv
<1>3. CASE Interrupt
  <2>1. FifoOrder' /\ Occupied'
    BY <1>3, QuietStep, Zenon DEF Interrupt
  <2>2. QueueTypeOK'
    BY <1>3, QueueAssumption DEF Interrupt, QueueInv, QueueTypeOK, queue
  <2> QED
    BY <1>3, <1>2, <2>1, <2>2, QueueAssumption, SMTT(30) DEF Interrupt, QueueInv, Local, QueueTypeOK
<1>4. CASE EnqueueLock
  <2>1. FifoOrder' /\ Occupied'
    BY <1>4, QuietStep, Zenon DEF EnqueueLock
  <2>2. QueueTypeOK'
    BY <1>4, QueueAssumption DEF EnqueueLock, QueueInv, QueueTypeOK, queue
  <2> QED
    BY <1>4, <1>2, <2>1, <2>2, Zenon DEF EnqueueLock, QueueInv, Local, QueueTypeOK
<1>5. CASE EnqueuePut
  <2>1. CASE RoomFor
    <3>1. FifoOrder' /\ Occupied'
      BY <1>5, <2>1, PutStep, Zenon DEF EnqueuePut
    <3>2. offered \in 1 .. Calls
      BY <1>5, QueueAssumption DEF EnqueuePut, QueueInv, QueueTypeOK, Local
    <3>3. QueueTypeOK'
      <4>1. QUEUE' \in [Ring -> 0 .. Calls] /\ Q_TAIL' \in Ring
        <5>1. offered \in 0 .. Calls
          BY Zenon DEF QueueInv, QueueTypeOK
        <5>2. /\ QUEUE \in [Ring -> 0 .. Calls] /\ Q_TAIL \in Ring
              /\ QUEUE' = [QUEUE EXCEPT ![Q_TAIL] = offered] /\ Q_TAIL' = Succ(Q_TAIL)
          BY <1>5, <2>1 DEF EnqueuePut, QueueInv, QueueTypeOK
        <5> QED
          BY <5>1, <5>2, <1>1
      <4>2. accepted' \in Seq(1 .. Calls)
        <5>1. accepted' = Append(accepted, offered) /\ accepted \in Seq(1 .. Calls)
          BY <1>5, <2>1, Zenon DEF EnqueuePut, QueueInv, QueueTypeOK
        <5> QED
          BY <5>1, <3>2
      <4> QED
        BY <4>1, <4>2, <1>5 DEF EnqueuePut, QueueInv, QueueTypeOK
    <3> QED
      BY <1>5, <1>2, <3>1, <3>3, Zenon DEF EnqueuePut, QueueInv, Local
  <2>2. CASE ~RoomFor
    <3>1. FifoOrder' /\ Occupied'
      BY <1>5, <2>2, QuietStep, Zenon DEF EnqueuePut, queue
    <3>2. QueueTypeOK'
      BY <1>5, <2>2, Zenon DEF EnqueuePut, QueueInv, QueueTypeOK
    <3> QED
      BY <1>5, <1>2, <3>1, <3>2 DEF EnqueuePut, QueueInv, Local
  <2> QED
    BY <2>1, <2>2, Zenon
<1>6. CASE EnqueueUnlock
  <2>1. FifoOrder' /\ Occupied'
    BY <1>6, QuietStep, Zenon DEF EnqueueUnlock
  <2>2. QueueTypeOK'
    BY <1>6, QueueAssumption, Zenon DEF EnqueueUnlock, QueueInv, QueueTypeOK, queue
  <2> QED
    BY <1>6, <1>2, <2>1, <2>2 DEF EnqueueUnlock, QueueInv, Local, QueueTypeOK
<1>7. CASE BeginDrain
  <2>1. FifoOrder' /\ Occupied'
    BY <1>7, QuietStep DEF BeginDrain
  <2>2. QueueTypeOK'
    BY <1>7, QueueAssumption, SMTT(30) DEF BeginDrain, QueueInv, QueueTypeOK, queue
  <2> QED
    BY <1>7, <1>2, <2>1, <2>2, Zenon DEF BeginDrain, QueueInv, Local, QueueTypeOK
<1>8. CASE DrainLock
  <2>1. FifoOrder' /\ Occupied'
    BY <1>8, QuietStep, Zenon DEF DrainLock
  <2>2. QueueTypeOK'
    BY <1>8, QueueAssumption DEF DrainLock, QueueInv, QueueTypeOK, queue
  <2> QED
    BY <1>8, <1>2, <2>1, <2>2 DEF DrainLock, QueueInv, Local, QueueTypeOK
<1>9. CASE DrainTake
  <2>1. item = None
    BY <1>9, Zenon DEF DrainTake, QueueInv, Local
  <2>2. CASE Q_HEAD # Q_TAIL
    <3>1. FifoOrder' /\ Occupied' /\ item' # None
      BY <1>9, <2>1, <2>2, TakeStep, Zenon DEF DrainTake
    <3>2. QueueTypeOK'
      <4>1. QUEUE' \in [Ring -> 0 .. Calls] /\ item' \in 0 .. Calls /\ Q_HEAD' \in Ring
        <5>1. None \in 0 .. Calls
          BY QueueAssumption DEF None
        <5>2. /\ QUEUE \in [Ring -> 0 .. Calls] /\ Q_HEAD \in Ring
              /\ item' = QUEUE[Q_HEAD] /\ QUEUE' = [QUEUE EXCEPT ![Q_HEAD] = None]
              /\ Q_HEAD' = Succ(Q_HEAD)
          BY <1>9, <2>2, Zenon DEF DrainTake, QueueInv, QueueTypeOK
        <5> QED
          BY <5>1, <5>2, <1>1
      <4> QED
        BY <4>1, <1>9 DEF DrainTake, QueueInv, QueueTypeOK
    <3> QED
      BY <1>9, <1>2, <3>1, <3>2, Zenon DEF DrainTake, QueueInv, Local
  <2>3. CASE Q_HEAD = Q_TAIL
    <3>1. FifoOrder' /\ Occupied'
      BY <1>9, <2>1, <2>3, QuietStep, Zenon DEF DrainTake, queue
    <3>2. QueueTypeOK'
      BY <1>9, <2>1, <2>3, Zenon DEF DrainTake, QueueInv, QueueTypeOK
    <3> QED
      BY <1>9, <1>2, <2>1, <2>3, <3>1, <3>2, Zenon DEF DrainTake, QueueInv, Local
  <2> QED
    BY <2>2, <2>3, Zenon
<1>10. CASE DrainUnlock
  <2>1. FifoOrder' /\ Occupied'
    BY <1>10, QuietStep, Zenon DEF DrainUnlock
  <2>2. QueueTypeOK'
    BY <1>10, QueueAssumption, Zenon DEF DrainUnlock, QueueInv, QueueTypeOK, queue
  <2> QED
    BY <1>10, <1>2, <2>1, <2>2, Zenon DEF DrainUnlock, QueueInv, Local, QueueTypeOK
<1>11. CASE DrainCall
  <2>1. item # None
    BY <1>11 DEF DrainCall, QueueInv, Local
  <2>2. FifoOrder' /\ Occupied'
    BY <1>11, <2>1, CallStep, Zenon DEF DrainCall
  <2>3. QueueTypeOK'
    <3>1. item \in 1 .. Calls
      BY <2>1, QueueAssumption DEF QueueInv, QueueTypeOK, None
    <3> QED
      BY <1>11, <3>1, QueueAssumption DEF DrainCall, QueueInv, QueueTypeOK, queue, None
  <2> QED
    BY <1>11, <1>2, <2>2, <2>3, Zenon DEF DrainCall, QueueInv, Local
<1>12. CASE UNCHANGED queueVars
  <2>1. UNCHANGED <<queue, item, accepted, ran>>
    BY <1>12 DEF queueVars, queue
  <2>2. FifoOrder' /\ Occupied'
    BY <2>1, QuietStep, Zenon
  <2>3. QueueTypeOK'
    BY <1>12 DEF QueueInv, QueueTypeOK, queueVars
  <2> QED
    BY <1>12, <1>2, <2>2, <2>3 DEF QueueInv, Local, queueVars
<1> QED
  BY <1>3, <1>4, <1>5, <1>6, <1>7, <1>8, <1>9, <1>10, <1>11, <1>12 DEF QueueNext, Handler, Main

\* The queue starts empty.
LEMMA InvInit == QueueInit => QueueInv
<1> SUFFICES ASSUME QueueInit PROVE QueueInv
  BY Zenon
<1>1. QueueTypeOK
  <2>1. 0 \in Ring /\ 0 \in 0 .. Calls
    BY QueueAssumption DEF Ring
  <2>2. QUEUE \in [Ring -> 0 .. Calls]
    BY <2>1 DEF QueueInit, None
  <2>3. <<>> \in Seq(1 .. Calls)
    OBVIOUS
  <2> QED
    BY <2>1, <2>2, <2>3 DEF QueueInit, QueueTypeOK, None
<1>2. Count = 0
  <2>1. Q_HEAD \in Ring /\ Q_TAIL \in Ring /\ Q_HEAD = Q_TAIL
    BY <1>1 DEF QueueInit, QueueTypeOK
  <2> QED
    BY <2>1, RingFacts DEF Ring
<1>3. Local /\ MutualExclusion
  BY <1>2 DEF QueueInit, Local, MutualExclusion, None
<1>4. FifoOrder
  <2>1. Contents \in Seq(Items) /\ Len(Contents) = 0
    BY <1>1, <1>2, <1>3, ContentsFacts
  <2>2. Contents = <<>>
    BY <2>1
  <2> QED
    BY <2>2 DEF QueueInit, FifoOrder, InHand
<1> QED
  BY <1>1, <1>3, <1>4 DEF QueueInv

\* enqueue and run_deferred keep their indices in the ring.
THEOREM QueueTypeCorrect == QueueSpec => []QueueTypeOK
<1>1. QueueInv => QueueTypeOK
  BY DEF QueueInv
<1> QED
  BY <1>1, InvInit, InvStep, PTL DEF QueueSpec

\* Work that enqueue accepted is neither lost, nor run twice, nor overtaken.
THEOREM Fifo == QueueSpec => []FifoOrder
<1>1. QueueInv => FifoOrder
  BY DEF QueueInv
<1> QED
  BY <1>1, InvInit, InvStep, PTL DEF QueueSpec

-----------------------------------------------------------------------------
(* The canvas: the bounds and clipping arithmetic of gfx.rs, for every        *)
(* geometry that Canvas::new accepts and every argument a usize can hold.     *)

\* Products of integers are integers.
LEMMA Times == \A a, b \in Int : a * b \in Int
  OBVIOUS

\* Products grow with their factors.
LEMMA Monotone ==
  ASSUME NEW a \in Nat, NEW b \in Nat, NEW k \in Nat, a <= b
  PROVE  a * k <= b * k
  BY Z3

\* One row or pixel more.
LEMMA Distributes ==
  ASSUME NEW a \in Int, NEW k \in Int
  PROVE  (a + 1) * k = a * k + k
  BY Z3

\* A run of bytes that ends inside the buffer lies inside it.
LEMMA Within ==
  ASSUME NEW o \in Nat, NEW b \in Nat, NEW n \in Nat, o + b <= n
  PROVE  o .. o + b - 1 \subseteq 0 .. n - 1
  OBVIOUS

\* Runs of bytes of which one ends before the other begins share none.
LEMMA Apart ==
  ASSUME NEW o \in Nat, NEW q \in Nat, NEW b \in Nat, o + b <= q \/ q + b <= o
  PROVE  (o .. o + b - 1) \cap (q .. q + b - 1) = {}
  OBVIOUS

\* Where a pixel lies: inside its row, which lies inside the buffer.
LEMMA Offsets ==
  ASSUME NEW c \in Geometry, new(c), NEW x \in Nat, NEW y \in Nat, x < c.width, y < c.height
  PROVE  /\ pixel_offset(c, x, y) \in Nat
         /\ y * c.pitch <= pixel_offset(c, x, y)
         /\ pixel_offset(c, x, y) + c.bpp <= (y + 1) * c.pitch
         /\ (y + 1) * c.pitch <= c.len
<1> DEFINE w == c.width
           h == c.height
           p == c.pitch
           b == c.bpp
<1>1. w \in Nat /\ h \in Nat /\ p \in Nat /\ b \in Nat /\ c.len \in Nat
  BY DEF Geometry, usize
<1>2. w * b <= p /\ h * p <= c.len
  BY DEF new
<1>3. x + 1 <= w /\ y + 1 <= h
  BY <1>1
<1> HIDE DEF w, h, p, b
<1>4. (x + 1) * b <= w * b /\ (y + 1) * p <= h * p
  BY <1>1, <1>3, Monotone
<1>5. (x + 1) * b = x * b + b /\ (y + 1) * p = y * p + p
  BY <1>1, Distributes
<1>6. x * b \in Nat /\ y * p \in Nat
  BY <1>1, Z3
<1>7. w * b \in Int /\ h * p \in Int
  BY <1>1, Times
<1>8. pixel_offset(c, x, y) = y * p + x * b
  BY DEF pixel_offset, p, b
<1> QED  BY <1>1, <1>2, <1>4, <1>5, <1>6, <1>7, <1>8 DEF b, p

\* A pixel is drawn inside the buffer or not at all.
LEMMA PixelInside ==
  ASSUME NEW c \in Geometry, new(c), NEW x \in Nat, NEW y \in Nat
  PROVE  set_pixel(c, x, y) \subseteq 0 .. c.len - 1
<1>1. x \in Nat /\ y \in Nat /\ c.len \in Nat /\ c.bpp \in Nat /\ (y + 1) * c.pitch \in Int
  BY Times DEF Geometry, usize
<1>2. CASE x < c.width /\ y < c.height
  <2> DEFINE o == pixel_offset(c, x, y)
             e == (y + 1) * c.pitch
  <2>1. o \in Nat /\ o + c.bpp <= e /\ e <= c.len
    BY <1>1, <1>2, Offsets
  <2>2. set_pixel(c, x, y) = o .. o + c.bpp - 1
    BY <1>2 DEF set_pixel
  <2>3. e \in Int
    BY <1>1
  <2> HIDE DEF o, e
  <2>4. o + c.bpp <= c.len
    BY <1>1, <2>1, <2>3
  <2> QED  BY <1>1, <2>1, <2>2, <2>4, Within, Zenon
<1>3. CASE ~(x < c.width /\ y < c.height)
  BY <1>3, Zenon DEF set_pixel
<1> QED  BY <1>2, <1>3

\* Two pixels share no byte, whatever the padding of a row and the bytes of a
\* pixel: drawing one changes no other (pixel_offset under new's conditions).
THEOREM PixelsApart ==
  ASSUME NEW c \in Geometry, new(c),
         NEW x \in usize, NEW y \in usize, NEW u \in usize, NEW v \in usize,
         <<x, y>> # <<u, v>>
  PROVE  set_pixel(c, x, y) \cap set_pixel(c, u, v) = {}
<1> DEFINE In(a, b) == a < c.width /\ b < c.height
<1>1. x \in Nat /\ y \in Nat /\ u \in Nat /\ v \in Nat /\ c.bpp \in Nat /\ c.pitch \in Nat
  BY DEF Geometry, usize
<1>2. CASE ~(In(x, y) /\ In(u, v))
  BY <1>2, Zenon DEF set_pixel
<1>3. CASE In(x, y) /\ In(u, v)
  <2> DEFINE o == pixel_offset(c, x, y)
             q == pixel_offset(c, u, v)
  <2>1. /\ o \in Nat /\ y * c.pitch <= o /\ o + c.bpp <= (y + 1) * c.pitch
        /\ q \in Nat /\ v * c.pitch <= q /\ q + c.bpp <= (v + 1) * c.pitch
    BY <1>1, <1>3, Offsets, Zenon
  <2>2. /\ y * c.pitch \in Int /\ v * c.pitch \in Int
        /\ (y + 1) * c.pitch \in Int /\ (v + 1) * c.pitch \in Int
        /\ x * c.bpp \in Int /\ u * c.bpp \in Int
    BY <1>1, Times, SMTT(30)
  <2>3. o + c.bpp <= q \/ q + c.bpp <= o
    <3>1. CASE y < v
      <4>1. (y + 1) * c.pitch <= v * c.pitch
        BY <1>1, <3>1, Monotone, SMTT(30)
      <4> QED  BY <1>1, <2>1, <2>2, <4>1
    <3>2. CASE v < y
      <4>1. (v + 1) * c.pitch <= y * c.pitch
        BY <1>1, <3>2, Monotone
      <4> QED  BY <1>1, <2>1, <2>2, <4>1
    <3>3. CASE y = v /\ x < u
      <4>1. (x + 1) * c.bpp <= u * c.bpp
        BY <1>1, <3>3, Monotone
      <4>2. (x + 1) * c.bpp = x * c.bpp + c.bpp
        BY <1>1, Distributes
      <4> QED  BY <1>1, <2>2, <3>3, <4>1, <4>2 DEF pixel_offset
    <3>4. CASE y = v /\ u < x
      <4>1. (u + 1) * c.bpp <= x * c.bpp
        BY <1>1, <3>4, Monotone
      <4>2. (u + 1) * c.bpp = u * c.bpp + c.bpp
        BY <1>1, Distributes
      <4> QED  BY <1>1, <2>2, <3>4, <4>1, <4>2 DEF pixel_offset
    <3> QED  BY <1>1, <3>1, <3>2, <3>3, <3>4, SMTT(30)
  <2>4. set_pixel(c, x, y) = o .. o + c.bpp - 1 /\ set_pixel(c, u, v) = q .. q + c.bpp - 1
    BY <1>3 DEF set_pixel
  <2> HIDE DEF o, q
  <2> QED  BY <1>1, <2>1, <2>3, <2>4, Apart, Zenon
<1> QED  BY <1>2, <1>3

\* Clamping both ends to n keeps exactly the coordinates below n.
LEMMA Clip ==
  ASSUME NEW x \in usize, NEW w \in usize, NEW n \in usize, NEW a \in Int
  PROVE  a \in Lesser(x, n) .. Lesser(saturating_add(x, w), n) - 1 <=> a \in x .. x + w - 1 /\ a < n
<1>1. USIZE_MAX \in Nat
  BY SMTT(30) DEF USIZE_MAX
<1> QED  BY <1>1 DEF usize, Lesser, saturating_add

\* fill_rect writes the pixels of the rectangle that lie on the canvas and no
\* others, also when the rectangle ends beyond the largest usize (fill_rect,
\* paint_scene, decorate_window).
THEOREM FillExact ==
  ASSUME NEW c \in Geometry, NEW x \in usize, NEW y \in usize, NEW w \in usize, NEW h \in usize
  PROVE  fill_rect(c, x, y, w, h) =
           UNION {set_pixel(c, a, b) : a \in x .. x + w - 1, b \in y .. y + h - 1}
<1> DEFINE X == Lesser(x, c.width) .. Lesser(saturating_add(x, w), c.width) - 1
           Y == Lesser(y, c.height) .. Lesser(saturating_add(y, h), c.height) - 1
           A == x .. x + w - 1
           B == y .. y + h - 1
<1>1. c.width \in usize /\ c.height \in usize
  BY Zenon DEF Geometry
<1>2. X \subseteq Int /\ Y \subseteq Int /\ A \subseteq Int /\ B \subseteq Int
  OBVIOUS
<1>3. \A a \in Int : a \in X <=> a \in A /\ a < c.width
  BY <1>1, Clip, Zenon
<1>4. \A b \in Int : b \in Y <=> b \in B /\ b < c.height
  BY <1>1, Clip, Zenon
<1>5. fill_rect(c, x, y, w, h) = UNION {set_pixel(c, a, b) : a \in X, b \in Y}
  BY DEF fill_rect
<1>6. \A a, b : ~(a < c.width /\ b < c.height) => set_pixel(c, a, b) = {}
  BY Zenon DEF set_pixel
<1> HIDE DEF X, Y, A, B
<1>7. ASSUME NEW e PROVE e \in UNION {set_pixel(c, a, b) : a \in X, b \in Y} <=>
                         e \in UNION {set_pixel(c, a, b) : a \in A, b \in B}
  <2>1. e \in UNION {set_pixel(c, a, b) : a \in X, b \in Y} <=>
          \E a \in X, b \in Y : e \in set_pixel(c, a, b)
    OBVIOUS
  <2>2. e \in UNION {set_pixel(c, a, b) : a \in A, b \in B} <=>
          \E a \in A, b \in B : e \in set_pixel(c, a, b)
    OBVIOUS
  <2>3. ASSUME NEW a \in A, NEW b \in B, e \in set_pixel(c, a, b) PROVE a \in X /\ b \in Y
    <3>1. a < c.width /\ b < c.height
      BY <1>6, <2>3, Zenon
    <3> QED  BY <1>2, <1>3, <1>4, <3>1, Zenon
  <2>4. \A a \in X : a \in A
    BY <1>2, <1>3
  <2>5. \A b \in Y : b \in B
    BY <1>2, <1>4
  <2>6. (\E a \in X, b \in Y : e \in set_pixel(c, a, b)) <=>
          \E a \in A, b \in B : e \in set_pixel(c, a, b)
    BY <2>3, <2>4, <2>5, Zenon
  <2> QED  BY <2>1, <2>2, <2>6
<1> QED  BY <1>5, <1>7 DEF A, B

\* No pixel is written outside the buffer, whatever position, size, scale and
\* length of text an operation gets (set_pixel, fill_rect, draw_text_aa; the
\* module comment of gfx.rs).
THEOREM DrawsInside ==
  ASSUME NEW c \in Geometry, new(c), NEW x \in usize, NEW y \in usize,
         NEW w \in usize, NEW h \in usize, NEW n \in usize, NEW scale \in usize
  PROVE  /\ set_pixel(c, x, y) \subseteq 0 .. c.len - 1
         /\ fill_rect(c, x, y, w, h) \subseteq 0 .. c.len - 1
         /\ draw_text_aa(c, x, y, n, scale) \subseteq 0 .. c.len - 1
<1>1. x \in Nat /\ y \in Nat /\ w \in Nat /\ h \in Nat /\ n \in Nat /\ scale \in Nat
  BY DEF usize
<1>2. set_pixel(c, x, y) \subseteq 0 .. c.len - 1
  BY <1>1, PixelInside, Zenon
<1>3. \A a \in x .. x + w - 1, b \in y .. y + h - 1 : set_pixel(c, a, b) \subseteq 0 .. c.len - 1
  BY <1>1, PixelInside, SMTT(30)
<1>4. fill_rect(c, x, y, w, h) \subseteq 0 .. c.len - 1
  BY <1>3, FillExact
<1>5. ASSUME NEW k \in Nat, NEW ox \in Nat, NEW oy \in Nat
      PROVE  set_pixel(c, CellStart(x, k, scale) + ox, y + oy) \subseteq 0 .. c.len - 1
  <2>1. k * (scale * (GLYPH_W + 1)) \in Nat
    BY <1>1, Z3 DEF GLYPH_W
  <2>2. CellStart(x, k, scale) + ox \in Nat /\ y + oy \in Nat
    BY <1>1, <2>1 DEF CellStart
  <2> QED  BY <2>2, PixelInside
<1>6. ASSUME NEW e \in draw_text_aa(c, x, y, n, scale) PROVE e \in 0 .. c.len - 1
  <2>1. PICK k \in {j \in 0 .. n - 1 : \A i \in 0 .. j : CellFits(c, x, i, scale)},
             ox \in 0 .. scale * GLYPH_W - 1, oy \in 0 .. scale * GLYPH_H - 1 :
          e \in set_pixel(c, CellStart(x, k, scale) + ox, y + oy)
    BY <1>6 DEF draw_text_aa
  <2>2. k \in Nat /\ ox \in Nat /\ oy \in Nat
    OBVIOUS
  <2> QED  BY <1>5, <2>1, <2>2, Zenon
<1> QED  BY <1>2, <1>4, <1>6

\* blit_from copies inside both buffers and never past the end of a row of the
\* destination, and none of its subtractions goes below zero, when dx is at
\* most the destination's width (blit_from).
THEOREM BlitInside ==
  ASSUME NEW c \in Geometry, new(c), NEW src \in Geometry, new(src),
         NEW sw \in usize, NEW sh \in usize, NEW dx \in usize, NEW dy \in usize,
         dx <= c.width,
         NEW row \in 0 .. BlitHeight(c, src, sh, dy) - 1
  PROVE  LET n == BlitBytes(c, src, sw, row, dx, dy)
             s == src_off(src, row)
             d == dst_off(c, row, dx, dy)
         IN  /\ s <= src.len /\ d <= c.len
             /\ n \in Nat /\ s + n <= src.len /\ d + n <= c.len
             /\ d + n <= (dy + row + 1) * c.pitch
<1> DEFINE s == src_off(src, row)
           d == dst_off(c, row, dx, dy)
           n == BlitBytes(c, src, sw, row, dx, dy)
           k == BlitWidth(c, src, sw, dx)
           m == Lesser(c.bpp, src.bpp)
           r == dy + row
<1>1. /\ c.width \in Nat /\ c.height \in Nat /\ c.pitch \in Nat /\ c.bpp \in Nat /\ c.len \in Nat
      /\ src.width \in Nat /\ src.height \in Nat /\ src.pitch \in Nat /\ src.bpp \in Nat
      /\ src.len \in Nat /\ sw \in Nat /\ sh \in Nat /\ dx \in Nat /\ dy \in Nat
  BY DEF Geometry, usize
<1>2. row \in Nat /\ row < src.height /\ r \in Nat /\ r < c.height
  BY <1>1, SMTT(30) DEF BlitHeight, Lesser, saturating_sub
<1>3. k \in Nat /\ dx + k <= c.width
  BY <1>1 DEF BlitWidth, Lesser, saturating_sub
<1>4. m \in Nat /\ m <= c.bpp
  BY <1>1 DEF Lesser
<1>5. c.width * c.bpp <= c.pitch /\ c.height * c.pitch <= c.len /\ src.height * src.pitch <= src.len
  BY Zenon DEF new
<1>6. s = row * src.pitch /\ d = r * c.pitch + dx * c.bpp
  BY Zenon DEF src_off, dst_off
<1>7. n = Lesser(Lesser(k * m, src.len - s), c.len - d)
  BY Zenon DEF BlitBytes
<1> HIDE DEF s, d, n, k, m, r
<1>8. s \in Nat /\ s <= src.len
  <2>1. row * src.pitch <= src.height * src.pitch
    BY <1>1, <1>2, Monotone
  <2>2. row * src.pitch \in Nat /\ src.height * src.pitch \in Int
    BY <1>1, <1>2, Z3
  <2> QED  BY <1>1, <1>5, <1>6, <2>1, <2>2
<1>9. /\ r * c.pitch \in Nat /\ dx * c.bpp \in Nat /\ k * c.bpp \in Nat /\ k * m \in Nat
      /\ c.width * c.bpp \in Int /\ c.height * c.pitch \in Int /\ (r + 1) * c.pitch \in Int
  BY <1>1, <1>2, <1>3, <1>4, Z3
<1>10. k * m <= k * c.bpp
  <2>1. m * k <= c.bpp * k
    BY <1>1, <1>3, <1>4, Monotone, Zenon
  <2> QED  BY <1>1, <1>3, <1>4, <2>1, Z3
<1>11. dx * c.bpp + k * c.bpp <= c.width * c.bpp
  <2>1. (dx + k) * c.bpp <= c.width * c.bpp
    BY <1>1, <1>3, Monotone
  <2>2. (dx + k) * c.bpp = dx * c.bpp + k * c.bpp
    BY <1>1, <1>3, Z3
  <2> QED  BY <2>1, <2>2, Zenon
<1>12. (r + 1) * c.pitch = r * c.pitch + c.pitch /\ (r + 1) * c.pitch <= c.height * c.pitch
  <2>1. r + 1 \in Nat /\ r + 1 <= c.height /\ r \in Int /\ c.pitch \in Int
    BY <1>1, <1>2
  <2>2. (r + 1) * c.pitch = r * c.pitch + c.pitch
    BY <2>1, Distributes, Zenon
  <2>3. (r + 1) * c.pitch <= c.height * c.pitch
    BY <1>1, <2>1, Monotone, Zenon
  <2> QED  BY <2>2, <2>3, Zenon
<1>13. d \in Nat /\ d + k * m <= (r + 1) * c.pitch /\ (r + 1) * c.pitch <= c.len /\ d <= c.len
  <2> DEFINE rp == r * c.pitch
             db == dx * c.bpp
             kb == k * c.bpp
             km == k * m
             wb == c.width * c.bpp
             hp == c.height * c.pitch
             np == (r + 1) * c.pitch
  <2>1. /\ rp \in Nat /\ db \in Nat /\ kb \in Nat /\ km \in Nat /\ wb \in Int /\ hp \in Int
        /\ np \in Int /\ km <= kb /\ db + kb <= wb /\ wb <= c.pitch /\ np = rp + c.pitch
        /\ np <= hp /\ hp <= c.len /\ d = rp + db
    BY <1>5, <1>6, <1>9, <1>10, <1>11, <1>12, Zenon
  <2> HIDE DEF rp, db, kb, km, wb, hp, np
  <2>2. d \in Nat /\ d + km <= np /\ np <= c.len /\ d <= c.len
    BY <1>1, <2>1, SMTT(30)
  <2> QED  BY <2>2, Zenon DEF km, np
<1>14. /\ n \in Nat /\ s + n <= src.len /\ d + n <= c.len /\ n <= k * m
  BY <1>1, <1>7, <1>8, <1>9, <1>13 DEF Lesser
<1>15. d + n <= (r + 1) * c.pitch
  BY <1>9, <1>13, <1>14
<1> QED  BY <1>8, <1>13, <1>14, <1>15, Zenon DEF s, d, n, r

\* The bytes that fill_rect writes are those of the pixels of the rectangle.
LEMMA FillMembers ==
  ASSUME NEW c \in Geometry, NEW x \in usize, NEW y \in usize, NEW w \in usize, NEW h \in usize
  PROVE  \A e : e \in fill_rect(c, x, y, w, h)
           <=> \E a \in x .. x + w - 1, b \in y .. y + h - 1 : e \in set_pixel(c, a, b)
<1> DEFINE A == x .. x + w - 1
           B == y .. y + h - 1
           P == {set_pixel(c, a, b) : a \in A, b \in B}
<1>1. fill_rect(c, x, y, w, h) = UNION P
  BY FillExact
<1> HIDE DEF A, B
<1>2. \A t : t \in P <=> \E a \in A, b \in B : t = set_pixel(c, a, b)
  OBVIOUS
<1> HIDE DEF P
<1>3. ASSUME NEW e PROVE e \in fill_rect(c, x, y, w, h) <=> \E a \in A, b \in B : e \in set_pixel(c, a, b)
  <2>1. e \in fill_rect(c, x, y, w, h) <=> \E t \in P : e \in t
    BY <1>1, Zenon
  <2>2. ASSUME NEW t \in P, e \in t PROVE \E a \in A, b \in B : e \in set_pixel(c, a, b)
    <3>1. PICK a \in A, b \in B : t = set_pixel(c, a, b)
      BY <1>2, <2>2, Zenon
    <3> QED  BY <2>2, <3>1, Zenon
  <2>3. ASSUME NEW a \in A, NEW b \in B, e \in set_pixel(c, a, b) PROVE \E t \in P : e \in t
    <3>1. set_pixel(c, a, b) \in P
      BY <1>2, Zenon
    <3> QED  BY <2>3, <3>1, Zenon
  <2> QED  BY <2>1, <2>2, <2>3, Zenon
<1> QED  BY <1>3, Zenon DEF A, B

\* The window that focus finds at a point of the canvas is the one whose colour
\* the point shows: paint_scene and focus agree on which windows are there, so
\* they agree on the topmost (paint_scene, focus, Window::covers).
THEOREM FocusIsVisible ==
  ASSUME NEW c \in Geometry, new(c), NEW windows,
         \A i \in DOMAIN windows : /\ windows[i] \in Window
                                   /\ windows[i].x + windows[i].w <= USIZE_MAX
                                   /\ windows[i].y + windows[i].h <= USIZE_MAX,
         NEW px \in usize, NEW py \in usize, px < c.width, py < c.height
  PROVE  paint_scene(c, windows, px, py) = focus(windows, px, py)
<1> SUFFICES ASSUME NEW i \in DOMAIN windows
             PROVE  set_pixel(c, px, py) \subseteq Fill(c, windows[i]) <=> covers(windows[i], px, py)
  BY Zenon DEF paint_scene, focus
<1> DEFINE win == windows[i]
           A == win.x .. win.x + win.w - 1
           B == win.y .. win.y + win.h - 1
<1>1. /\ win.x \in usize /\ win.y \in usize /\ win.w \in usize /\ win.h \in usize
      /\ win.x + win.w <= USIZE_MAX /\ win.y + win.h <= USIZE_MAX
  BY Zenon DEF Window
<1>2. A \subseteq usize /\ B \subseteq usize
  <2>1. USIZE_MAX \in Nat
    BY SMTT(30) DEF USIZE_MAX
  <2> QED  BY <1>1, <2>1 DEF usize
<1>3. covers(win, px, py) <=> px \in A /\ py \in B
  <2>1. PICK x, y, w, h : x = win.x /\ y = win.y /\ w = win.w /\ h = win.h
    BY Zenon
  <2>2. covers(win, px, py) <=> px >= x /\ px < x + w /\ py >= y /\ py < y + h
    BY <2>1, Zenon DEF covers
  <2>3. A = x .. x + w - 1 /\ B = y .. y + h - 1
    BY <2>1, Zenon
  <2>4. x \in Int /\ y \in Int /\ w \in Int /\ h \in Int /\ px \in Int /\ py \in Int
    BY <1>1, <2>1 DEF usize
  <2> HIDE DEF A, B, win
  <2> QED  BY <2>2, <2>3, <2>4
<1>4. Fill(c, win) = fill_rect(c, win.x, win.y, win.w, win.h)
  BY Zenon DEF Fill
<1>5. \A e : e \in Fill(c, win) <=> \E a \in A, b \in B : e \in set_pixel(c, a, b)
  <2>1. PICK x, y, w, h : x = win.x /\ y = win.y /\ w = win.w /\ h = win.h
    BY Zenon
  <2>2. x \in usize /\ y \in usize /\ w \in usize /\ h \in usize
    BY <1>1, <2>1, Zenon
  <2>3. A = x .. x + w - 1 /\ B = y .. y + h - 1 /\ Fill(c, win) = fill_rect(c, x, y, w, h)
    BY <1>4, <2>1, Zenon
  <2> HIDE DEF A, B, win
  <2>4. \A e : e \in fill_rect(c, x, y, w, h)
          <=> \E a \in x .. x + w - 1, b \in y .. y + h - 1 : e \in set_pixel(c, a, b)
    BY <2>2, FillMembers, Zenon
  <2> QED  BY <2>3, <2>4, Zenon
<1>6. PICK o : o \in set_pixel(c, px, py)
  <2>1. px \in Nat /\ py \in Nat /\ c.bpp \in Nat /\ c.bpp # 0
    BY DEF usize, Geometry, new
  <2>2. pixel_offset(c, px, py) \in Nat
    BY <2>1, Offsets, Zenon
  <2>3. pixel_offset(c, px, py) \in pixel_offset(c, px, py) .. pixel_offset(c, px, py) + c.bpp - 1
    BY <2>1, <2>2
  <2> QED  BY <2>3, Zenon DEF set_pixel
<1> HIDE DEF A, B, win
<1>7. ASSUME px \in A, py \in B PROVE set_pixel(c, px, py) \subseteq Fill(c, win)
  BY <1>5, <1>7, Zenon
<1>8. ASSUME set_pixel(c, px, py) \subseteq Fill(c, win) PROVE px \in A /\ py \in B
  <2>1. PICK a \in A, b \in B : o \in set_pixel(c, a, b)
    BY <1>5, <1>6, <1>8, Zenon
  <2>2. a \in usize /\ b \in usize
    BY <1>2, Zenon
  <2>3. <<a, b>> = <<px, py>>
    <3> SUFFICES ASSUME <<a, b>> # <<px, py>> PROVE FALSE
      BY Zenon
    <3>1. set_pixel(c, a, b) \cap set_pixel(c, px, py) = {}
      BY <2>2, PixelsApart
    <3> QED  BY <1>6, <2>1, <3>1, Zenon
  <2> QED  BY <2>3
<1> QED  BY <1>3, <1>7, <1>8, Zenon DEF win
=============================================================================
