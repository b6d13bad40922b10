--------------------------------- MODULE Ps2 ---------------------------------
(****************************************************************************)
(* The PS/2 mouse and keyboard: kernel/src/drivers/mouse.rs, the PIC setup    *)
(* and the two interrupt handlers of kernel/src/interrupts.rs, over the two   *)
(* PICs and the 8042 controller (external).  A byte is the set of its bits;   *)
(* the controller is a process of its own, and a handler may run between any  *)
(* two steps of mouse::init, which leaves interrupts on.                      *)
(****************************************************************************)
EXTENDS Integers, Sequences

CONSTANTS
  Scancodes,   \* bytes the keyboard may send
  KEYS,        \* key presses at most
  MOVES        \* mouse movements at most

VARIABLES
  pic,     \* masked lines of the master and the slave, and raised interrupts
  ctl,     \* the 8042: written byte, command waiting for data, reply, output
           \* buffer and the byte last in it, configuration byte
  input,   \* bytes the keyboard and the mouse have to send, and their bounds
  kern     \* mouse::init: control point and cfg; the handlers' counters

ps2 == <<pic, ctl, input, kern>>

Empty == [port |-> "none", byte |-> {}]
Ack == {1, 3, 4, 5, 6, 7}

Pic == [master |-> 0 .. 7, slave |-> 0 .. 7, raised |-> {}]
Ctl == [in |-> Empty, cmd |-> "none", reply |-> Empty, out |-> Empty, last |-> {}, config |-> {0, 5, 6}]
Input == [keys |-> <<>>, mouse |-> <<>>, streaming |-> FALSE, pressed |-> 0, moved |-> 0]
Kern == [pc |-> 0, cfg |-> {}, key_count |-> 0, idx |-> 0, packets |-> 0]

Ps2Init == pic = Pic /\ ctl = Ctl /\ input = Input /\ kern = Kern

-----------------------------------------------------------------------------
(* interrupts.rs *)

\* The masks remap leaves: only timer and keyboard on the master.
remap == [pic EXCEPT !.master = 2 .. 7, !.slave = 0 .. 7]

\* init: remap, then the slave's line 4 (IRQ12) is unmasked.
interrupts_init ==
  /\ kern.pc = 0
  /\ pic' = [remap EXCEPT !.slave = (0 .. 7) \ {4}]
  /\ kern' = [kern EXCEPT !.pc = 1]
  /\ UNCHANGED <<ctl, input>>

\* A raised interrupt reaches the CPU when its line is open, and for the slave's
\* lines also the line of the master that the slave is wired to.
Delivered(irq) ==
  /\ kern.pc > 0 /\ irq \in pic.raised
  /\ IF irq < 8 THEN irq \notin pic.master ELSE (irq - 8) \notin pic.slave /\ 2 \notin pic.master

\* inb(0x60) takes the byte in the output buffer, or reads the last one again.
Inb == [ctl EXCEPT !.out = Empty]

keyboard_isr ==
  /\ Delivered(1)
  /\ ctl' = Inb
  /\ pic' = [pic EXCEPT !.raised = @ \ {1}]
  /\ kern' = [kern EXCEPT !.key_count = @ + 1]
  /\ UNCHANGED input

\* handle_byte: every third byte ends a packet.
mouse_isr ==
  /\ Delivered(12)
  /\ ctl' = Inb
  /\ pic' = [pic EXCEPT !.raised = @ \ {12}]
  /\ kern' = [kern EXCEPT !.idx = (@ + 1) % 3, !.packets = IF kern.idx = 2 THEN @ + 1 ELSE @]
  /\ UNCHANGED input

-----------------------------------------------------------------------------
(* mouse::init *)

\* What is written, in order; "read" takes the configuration byte.
Script == <<"A8", "20", "read", "60", "config", "D4", "F4">>

\* Each step waits until the controller has taken the byte written before.
wait_cmd_ready == ctl.in = Empty

mouse_init ==
  /\ kern.pc \in DOMAIN Script
  /\ wait_cmd_ready
  /\ LET step == Script[kern.pc]
     IN  IF step = "read"
           THEN /\ ctl' = Inb
                /\ kern' = [kern EXCEPT !.pc = @ + 1, !.cfg = (ctl.last \cup {1}) \ {6}]
           ELSE /\ ctl' = [ctl EXCEPT !.in = [port |-> step, byte |-> IF step = "config" THEN kern.cfg ELSE {}]]
                /\ kern' = [kern EXCEPT !.pc = @ + 1]
  /\ UNCHANGED <<pic, input>>

-----------------------------------------------------------------------------
(* The 8042 and the devices *)

\* The controller takes a written byte; data goes where the last command said.
Accept ==
  /\ ctl.in # Empty
  /\ ctl' = [ctl EXCEPT !.in = Empty,
               !.cmd = IF ctl.in.port \in {"60", "D4"} THEN ctl.in.port ELSE "none",
               !.reply = IF ctl.in.port = "20" THEN [port |-> "ctl", byte |-> ctl.config] ELSE @,
               !.config = CASE ctl.in.port = "A8" -> @ \ {5}
                            [] ctl.in.port = "config" /\ ctl.cmd = "60" -> ctl.in.byte
                            [] OTHER -> @]
  /\ input' = IF ctl.in.port = "F4" /\ ctl.cmd = "D4"
                THEN [input EXCEPT !.streaming = TRUE, !.mouse = Append(@, Ack)] ELSE input
  /\ UNCHANGED <<pic, kern>>

Raise(irq, bit) == pic' = [pic EXCEPT !.raised = IF bit \in ctl.config THEN @ \cup {irq} ELSE @]

Output(port, byte) == [ctl EXCEPT !.out = [port |-> port, byte |-> byte], !.last = byte]

SendReply ==
  /\ ctl.reply # Empty /\ ctl.out = Empty
  /\ ctl' = [Output("ctl", ctl.reply.byte) EXCEPT !.reply = Empty]
  /\ Raise(1, 0)
  /\ UNCHANGED <<input, kern>>

SendKey ==
  /\ input.keys # <<>> /\ ctl.out = Empty /\ 4 \notin ctl.config
  /\ ctl' = Output("kbd", Head(input.keys))
  /\ Raise(1, 0)
  /\ input' = [input EXCEPT !.keys = Tail(@)]
  /\ UNCHANGED kern

SendMouse ==
  /\ input.mouse # <<>> /\ ctl.out = Empty /\ 5 \notin ctl.config
  /\ ctl' = Output("aux", Head(input.mouse))
  /\ Raise(12, 1)
  /\ input' = [input EXCEPT !.mouse = Tail(@)]
  /\ UNCHANGED kern

Controller == Accept \/ SendReply \/ SendKey \/ SendMouse

KeyPress ==
  /\ input.pressed < KEYS
  /\ \E b \in Scancodes : input' = [input EXCEPT !.keys = Append(@, b), !.pressed = @ + 1]
  /\ UNCHANGED <<pic, ctl, kern>>

Move ==
  /\ input.streaming /\ input.moved < MOVES
  /\ input' = [input EXCEPT !.mouse = @ \o <<{3}, {}, {}>>, !.moved = @ + 1]
  /\ UNCHANGED <<pic, ctl, kern>>

-----------------------------------------------------------------------------

Ps2Next ==
  \/ interrupts_init \/ mouse_init \/ keyboard_isr \/ mouse_isr
  \/ Controller \/ KeyPress \/ Move

\* The CPU runs, a delivered interrupt is taken, and the controller keeps
\* moving bytes; nobody has to press a key or move the mouse.
Ps2Fairness ==
  /\ WF_ps2(interrupts_init) /\ WF_ps2(mouse_init)
  /\ WF_ps2(keyboard_isr) /\ WF_ps2(mouse_isr)
  /\ WF_ps2(Accept) /\ WF_ps2(SendReply) /\ WF_ps2(SendKey) /\ WF_ps2(SendMouse)

Ps2Spec == Ps2Init /\ [][Ps2Next]_ps2 /\ Ps2Fairness

-----------------------------------------------------------------------------
(* Properties *)

\* What interrupts::init says of its last mask: with IRQ12 unmasked, mouse
\* packets arrive.  Once the mouse has moved, mouse_isr decodes a packet.
MouseMoves == (input.moved > 0) ~> (kern.packets > 0)
=============================================================================
