-------------------------------- MODULE Ring3 --------------------------------
(****************************************************************************)
(* The ring-3 program (user/src/main.rs), the syscall stub                   *)
(* (kernel/asm/cpu.s), the dispatcher (kernel/src/syscall.rs) and the        *)
(* mailbox (kernel/src/ipc.rs).  syscall and sysretq do what the processor    *)
(* does: the stack stays the caller's, rcx and r11 take the return address   *)
(* and the flags, and sysretq finds its selectors 16 and 8 above STAR.        *)
(****************************************************************************)
EXTENDS Integers, Sequences

CONSTANTS
  CAP,       \* bytes the mailbox holds (64)
  PIECE,     \* bytes SYS_RECV drains at most (8)
  BASE,      \* lowest address of the user program
  TOP,       \* user_stack_top
  KSTACK,    \* SYSCALL_KSTACK
  Seed       \* the message bring_up puts into the mailbox

ASSUME Ring3Assumption ==
  /\ CAP \in Nat /\ PIECE \in Nat /\ BASE \in Nat /\ TOP \in Nat /\ KSTACK \in Nat
  /\ Seed \in Seq({"L", "i", "O", "S"})

VARIABLES
  cpu,       \* ring, control point of the stub, registers
  call,      \* what the program had in rip, rsp and flags when it called
  stack,     \* what the stub pushed on the syscall stack
  mailbox,   \* bytes held
  served     \* SYSCALLS and the bytes the last SYS_RECV drained

ring3 == <<cpu, call, stack, mailbox, served>>

USER_CODE == 40
USER_DATA == 48

\* STAR[63:48].
star_value == USER_CODE

\* The flags syscall clears: IF.
sfmask_value == {"IF"}

\* The calls of _start; SYS_PUTS passes a buffer it has pushed on its stack.
Program == <<3, 2, 5, 6, 7, 0>>

Pushed(num) == IF num = 2 THEN 8 ELSE 0

MinLen(msg, n) == IF Len(msg) < n THEN Len(msg) ELSE n

\* Mailbox::send and Mailbox::peek.
send(msg) == SubSeq(msg, 1, MinLen(msg, CAP))
peek(n) == SubSeq(mailbox, 1, MinLen(mailbox, n))

Ring3Init ==
  /\ cpu = [ring |-> 0, at |-> "boot", rip |-> 0, rsp |-> KSTACK, flags |-> {"IF"}, cs |-> 8, ss |-> 16,
            rax |-> 0, rcx |-> 0, r11 |-> {}, r13 |-> 0]
  /\ call = [rip |-> 0, rsp |-> 0, flags |-> {}]
  /\ stack = <<>>
  /\ mailbox = <<>>
  /\ served = [calls |-> 0, read |-> <<>>, range |-> TRUE]

\* bring_up's last lines: the mailbox is seeded, then cli and usermode_go.
usermode_go ==
  /\ cpu.at = "boot"
  /\ mailbox' = send(Seed)
  /\ cpu' = [cpu EXCEPT !.ring = 3, !.at = "user", !.rip = 1, !.rsp = TOP, !.flags = {},
                        !.cs = USER_CODE + 3, !.ss = USER_DATA + 3]
  /\ call' = [rip |-> 1, rsp |-> TOP, flags |-> {}]
  /\ UNCHANGED <<stack, served>>

\* The program runs up to its next syscall instruction.
Syscall ==
  /\ cpu.at = "user" /\ cpu.rip \in DOMAIN Program
  /\ LET rsp == cpu.rsp - Pushed(Program[cpu.rip])
     IN  /\ cpu' = [cpu EXCEPT !.ring = 0, !.at = "entry", !.rsp = rsp, !.rax = Program[cpu.rip],
                               !.rcx = cpu.rip + 1, !.r11 = cpu.flags, !.flags = @ \ sfmask_value,
                               !.cs = 8, !.ss = 16]
         /\ call' = [rip |-> cpu.rip + 1, rsp |-> rsp, flags |-> cpu.flags]
  /\ UNCHANGED <<stack, mailbox, served>>

\* lion_syscall_entry up to the call of the dispatcher.
lion_syscall_entry ==
  /\ cpu.at = "entry"
  /\ cpu' = [cpu EXCEPT !.at = "dispatch", !.r13 = cpu.rsp, !.rsp = KSTACK - 24]
  /\ stack' = <<cpu.rcx, cpu.r11, cpu.rsp>>
  /\ UNCHANGED <<call, mailbox, served>>

\* The bounds check of SYS_PUTS.
InRange(src, n) == BASE # 0 /\ src >= BASE /\ src + n <= TOP

\* The dispatcher may use rcx and r11, and keeps r13.
syscall_dispatch ==
  /\ cpu.at = "dispatch"
  /\ cpu' = [cpu EXCEPT !.at = "return", !.rcx = 0, !.r11 = {},
                        !.rax = IF cpu.rax \in 0 .. 7 THEN 0 ELSE -38]
  /\ mailbox' = CASE cpu.rax = 6 -> <<>>
                  [] cpu.rax = 7 -> send(<<"o", "k", "!">>)
                  [] OTHER -> mailbox
  /\ served' = [calls |-> served.calls + 1,
                read |-> IF cpu.rax = 6 THEN peek(PIECE) ELSE served.read,
                range |-> IF cpu.rax = 2 THEN InRange(cpu.r13, 6) ELSE served.range]
  /\ UNCHANGED <<call, stack>>

\* Mutant: the stub trusts rcx to survive the dispatcher.
Sysret_KeepsRcx ==
  /\ cpu.at = "return"
  /\ cpu' = [cpu EXCEPT !.ring = 3, !.at = "resume", !.r13 = stack[3], !.r11 = stack[2],
                        !.rsp = stack[3], !.flags = stack[2], !.rip = cpu.rcx,
                        !.cs = star_value + 16 + 3, !.ss = star_value + 8 + 3]
  /\ stack' = <<>>
  /\ UNCHANGED <<call, mailbox, served>>

\* The rest of the stub: pops, the stack switch and sysretq.
Sysret ==
  /\ cpu.at = "return"
  /\ cpu' = [cpu EXCEPT !.ring = 3, !.at = "resume", !.r13 = stack[3], !.r11 = stack[2], !.rcx = stack[1],
                        !.rsp = stack[3], !.flags = stack[2], !.rip = stack[1],
                        !.cs = star_value + 16 + 3, !.ss = star_value + 8 + 3]
  /\ stack' = <<>>
  /\ UNCHANGED <<call, mailbox, served>>

\* The program takes its buffer off the stack again.
Resume ==
  /\ cpu.at = "resume"
  /\ cpu' = [cpu EXCEPT !.at = "user", !.rsp = @ + Pushed(Program[cpu.rip - 1])]
  /\ UNCHANGED <<call, stack, mailbox, served>>

Ring3Next ==
  \/ usermode_go \/ Syscall \/ lion_syscall_entry \/ syscall_dispatch \/ Sysret \/ Resume

Ring3Spec == Ring3Init /\ [][Ring3Next]_ring3

\* The program is in its final loop.
Looping == cpu.at = "user" /\ cpu.rip \notin DOMAIN Program

-----------------------------------------------------------------------------
(* Properties *)

\* A call returns to the instruction after it with the caller's stack pointer
\* and flags, although syscall changes none of the stack and the dispatcher is
\* free to use rcx and r11; and the kernel runs on the syscall stack with
\* interrupts off from the stub's switch to its return (they are off in the
\* program too, which starts with flags 0x2, so SFMASK is not what this tests).
RoundTrip ==
  /\ cpu.at = "resume" => /\ cpu.rip = call.rip /\ cpu.rsp = call.rsp /\ cpu.flags = call.flags
                          /\ cpu.ring = 3
  /\ cpu.at \in {"dispatch", "return"} =>
       /\ cpu.ring = 0 /\ cpu.rsp = KSTACK - 24 /\ "IF" \notin cpu.flags
       /\ stack = <<call.rip, call.flags, call.rsp>>
=============================================================================
