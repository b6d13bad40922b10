---------------------------- MODULE DeferredQueue ----------------------------
(****************************************************************************)
(* The deferred-work queue of kernel/src/interrupts.rs: interrupt handlers   *)
(* enqueue, kernel_main drains it once with run_deferred.  One CPU: while a  *)
(* handler is active the interrupted context does not move, and handlers do  *)
(* not nest (an interrupt gate clears IF).  Work items are numbered in the   *)
(* order enqueue is called with them.                                        *)
(****************************************************************************)
EXTENDS Integers, Sequences, Functions

CONSTANTS
  QUEUE_CAP,   \* length of the ring
  Calls        \* bound on the calls of enqueue

ASSUME QueueAssumption == QUEUE_CAP \in Nat \ {0} /\ Calls \in Nat

VARIABLES
  Q_HEAD, Q_TAIL, Q_LOCK,
  QUEUE,       \* 0 .. QUEUE_CAP - 1 -> item or None
  main,        \* control point of kernel_main in and around run_deferred
  item,        \* run_deferred's local
  isr,         \* control point of enqueue in the handler, or "off"
  offered,     \* calls of enqueue so far: the number of the latest item
  accepted,    \* items for which enqueue returned true, in order
  ran          \* items that were run, in order

queue == <<Q_HEAD, Q_TAIL, QUEUE>>
queueVars == <<Q_HEAD, Q_TAIL, Q_LOCK, QUEUE, main, item, isr, offered, accepted, ran>>

None == 0
Ring == 0 .. (QUEUE_CAP - 1)

\* Mutant: the index does not wrap around.
Succ_NoWrap(i) == i + 1

Succ(i) == (i + 1) % QUEUE_CAP

QueueInit ==
  /\ Q_HEAD = 0 /\ Q_TAIL = 0 /\ Q_LOCK = FALSE
  /\ QUEUE = [i \in Ring |-> None]
  /\ main = "boot" /\ item = None
  /\ isr = "off" /\ offered = 0
  /\ accepted = <<>> /\ ran = <<>>

-----------------------------------------------------------------------------
(* enqueue, in a handler *)

\* An interrupt whose handler defers work.
Interrupt ==
  /\ isr = "off"
  /\ offered < Calls
  /\ offered' = offered + 1
  /\ isr' = "lock"
  /\ UNCHANGED <<queue, Q_LOCK, main, item, accepted, ran>>

\* Mutant: the lock is not taken.
EnqueueLock_Unlocked ==
  /\ isr = "lock"
  /\ isr' = "put"
  /\ UNCHANGED <<queue, Q_LOCK, main, item, offered, accepted, ran>>

\* The compare_exchange that succeeds; until then the handler spins.
EnqueueLock ==
  /\ isr = "lock"
  /\ ~Q_LOCK
  /\ Q_LOCK' = TRUE
  /\ isr' = "put"
  /\ UNCHANGED <<queue, main, item, offered, accepted, ran>>

\* Mutant: a full ring takes one more, and looks empty.
RoomFor_NoSpare == (QUEUE_CAP + Q_TAIL - Q_HEAD) % QUEUE_CAP < QUEUE_CAP

RoomFor == (QUEUE_CAP + Q_TAIL - Q_HEAD) % QUEUE_CAP < QUEUE_CAP - 1

EnqueuePut ==
  /\ isr = "put"
  /\ isr' = "unlock"
  /\ \/ /\ RoomFor
        /\ QUEUE' = [QUEUE EXCEPT ![Q_TAIL] = offered]
        /\ Q_TAIL' = Succ(Q_TAIL)
        /\ accepted' = Append(accepted, offered)
     \/ /\ ~RoomFor
        /\ UNCHANGED <<QUEUE, Q_TAIL, accepted>>
  /\ UNCHANGED <<Q_HEAD, Q_LOCK, main, item, offered, ran>>

\* The lock is released and the handler returns.
EnqueueUnlock ==
  /\ isr = "unlock"
  /\ Q_LOCK' = FALSE
  /\ isr' = "off"
  /\ UNCHANGED <<queue, main, item, offered, accepted, ran>>

-----------------------------------------------------------------------------
(* run_deferred, in kernel_main *)

BeginDrain ==
  /\ isr = "off" /\ main = "boot"
  /\ main' = "lock"
  /\ UNCHANGED <<queue, Q_LOCK, item, isr, offered, accepted, ran>>

DrainLock ==
  /\ isr = "off" /\ main = "lock"
  /\ ~Q_LOCK
  /\ Q_LOCK' = TRUE
  /\ main' = "take"
  /\ UNCHANGED <<queue, item, isr, offered, accepted, ran>>

DrainTake ==
  /\ isr = "off" /\ main = "take"
  /\ main' = "unlock"
  /\ \/ /\ Q_HEAD # Q_TAIL
        /\ item' = QUEUE[Q_HEAD]
        /\ QUEUE' = [QUEUE EXCEPT ![Q_HEAD] = None]
        /\ Q_HEAD' = Succ(Q_HEAD)
     \/ /\ Q_HEAD = Q_TAIL
        /\ item' = None
        /\ UNCHANGED <<QUEUE, Q_HEAD>>
  /\ UNCHANGED <<Q_TAIL, Q_LOCK, isr, offered, accepted, ran>>

DrainUnlock ==
  /\ isr = "off" /\ main = "unlock"
  /\ Q_LOCK' = FALSE
  /\ main' = IF item = None THEN "done" ELSE "call"
  /\ UNCHANGED <<queue, item, isr, offered, accepted, ran>>

\* Mutant: one item is run and the rest is left.
DrainCall_Once ==
  /\ isr = "off" /\ main = "call"
  /\ ran' = Append(ran, item)
  /\ item' = None
  /\ main' = "done"
  /\ UNCHANGED <<queue, Q_LOCK, isr, offered, accepted>>

\* The item runs outside the lock; then the loop goes on.
DrainCall ==
  /\ isr = "off" /\ main = "call"
  /\ ran' = Append(ran, item)
  /\ item' = None
  /\ main' = "lock"
  /\ UNCHANGED <<queue, Q_LOCK, isr, offered, accepted>>

-----------------------------------------------------------------------------
Handler == EnqueueLock \/ EnqueuePut \/ EnqueueUnlock
Main == BeginDrain \/ DrainLock \/ DrainTake \/ DrainUnlock \/ DrainCall
QueueNext == Interrupt \/ Handler \/ Main

QueueSpec == QueueInit /\ [][QueueNext]_queueVars

\* The CPU executes: the handler if one is active, kernel_main otherwise.
FairQueueSpec == QueueSpec /\ WF_queueVars(Handler) /\ WF_queueVars(Main)

-----------------------------------------------------------------------------
(* Properties *)

\* Indices stay in the ring, the lock is a flag, contexts keep to their code.
QueueTypeOK ==
  /\ Q_HEAD \in Ring /\ Q_TAIL \in Ring /\ Q_LOCK \in BOOLEAN
  /\ QUEUE \in [Ring -> 0 .. Calls]
  /\ main \in {"boot", "lock", "take", "unlock", "call", "done"}
  /\ isr \in {"off", "lock", "put", "unlock"}
  /\ item \in 0 .. Calls /\ offered \in 0 .. Calls
  /\ accepted \in Seq(1 .. Calls) /\ ran \in Seq(1 .. Calls)

\* The handler and kernel_main are never inside the critical section together,
\* and the flag is set exactly while one of them is.
MutualExclusion ==
  /\ ~(isr \in {"put", "unlock"} /\ main \in {"take", "unlock"})
  /\ Q_LOCK <=> isr \in {"put", "unlock"} \/ main \in {"take", "unlock"}

\* What lies in the ring from head to tail.
Contents ==
  [i \in 1 .. ((QUEUE_CAP + Q_TAIL - Q_HEAD) % QUEUE_CAP) |->
     QUEUE[(Q_HEAD + i - 1) % QUEUE_CAP]]

InHand == IF item = None THEN <<>> ELSE <<item>>

\* Accepted work is neither lost, nor run twice, nor overtaken: what was
\* accepted is what ran, then what is about to run, then what is queued.
FifoOrder == accepted = ran \o InHand \o Contents

\* A handler that waits for the lock of the context it interrupted.
Stuck == isr = "lock" /\ Q_LOCK

\* run_deferred still has a look at the queue before it.  kernel_main calls it
\* once (main.rs:645); what is accepted after its last look stays in the ring.
Draining == main \in {"boot", "lock", "take", "call"} \/ (main = "unlock" /\ item # None)

\* Work accepted before run_deferred saw the queue empty is run, also work that
\* comes in while it drains, unless a handler gets stuck.
AcceptedWorkRuns ==
  \A n \in 1 .. Calls :
    (Draining /\ n \in Range(accepted)) ~> (n \in Range(ran) \/ Stuck)

\* interrupts.rs:153-154, "work is dropped, not blocked -- an ISR must never
\* spin": a handler that calls enqueue returns.
HandlerReturns == isr # "off" ~> isr = "off"
==============================================================================
