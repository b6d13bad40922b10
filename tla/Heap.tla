-------------------------------- MODULE Heap ---------------------------------
(****************************************************************************)
(* The kernel heap (kernel/src/heap.rs): a first-fit free list over one      *)
(* arena.  Addresses and sizes are in bytes.  The linked list of Node        *)
(* headers is the sequence `free` of the blocks they describe, in list       *)
(* order.  `live` holds the blocks the clients have; a client frees a block  *)
(* with the layout it allocated it with, once.  The allocator is never       *)
(* entered from an interrupt handler, so its operations are atomic.          *)
(****************************************************************************)
EXTENDS Integers, Sequences, FiniteSetsExt

CONSTANTS
  Base,      \* start of the arena
  Size,      \* its size
  Layouts    \* the layouts that are asked for: [bytes, align]

NodeSize == 16
ALIGN == 8

ASSUME ArenaAssumption ==
  /\ Base \in Nat /\ Base % ALIGN = 0
  /\ Size \in Nat /\ Size % ALIGN = 0 /\ Size >= NodeSize

\* GlobalAlloc is never asked for zero bytes.
ASSUME LayoutsAssumption == Layouts \subseteq [bytes : Nat \ {0}, align : Nat]

VARIABLES
  free,   \* the free list: sequence of [addr, size], size includes the header
  used,   \* State.used
  live,   \* blocks in use: [addr, bytes], bytes as in the layout
  slack   \* bytes handed out beyond a block's Need, so far (history variable)

vars == <<free, used, live, slack>>

align_up(v) == ((v + ALIGN - 1) \div ALIGN) * ALIGN

\* Bytes a request takes from a block, and gives back: payload and header.
Need(bytes) == align_up(bytes) + NodeSize

\* init: one free block covers the arena.
Init ==
  /\ free = <<[addr |-> Base, size |-> Size]>>
  /\ used = 0
  /\ live = {}
  /\ slack = 0

-----------------------------------------------------------------------------
(* List surgery *)

\* The list without its i-th node.
Unlink(i) == [k \in 1 .. (Len(free) - 1) |-> IF k < i THEN free[k] ELSE free[k + 1]]

\* The list without its i-th node and with b as its new head.
Relink(i, b) ==
  [k \in 1 .. Len(free) |-> IF k = 1 THEN b ELSE IF k <= i THEN free[k - 1] ELSE free[k]]

\* The list with the nodes lo..hi (none if hi = lo - 1) replaced by b.
Replace(lo, hi, b) ==
  [k \in 1 .. (Len(free) - hi + lo) |->
     IF k < lo THEN free[k] ELSE IF k = lo THEN b ELSE free[k + hi - lo]]

-----------------------------------------------------------------------------
(* alloc_layout *)

\* Mutant: the request is compared without its header.
FirstFit_PayloadOnly(i, bytes) ==
  /\ free[i].size >= align_up(bytes)
  /\ \A j \in 1 .. (i - 1) : free[j].size < align_up(bytes)

\* Node i is the first that is large enough.
FirstFit(i, bytes) ==
  /\ free[i].size >= Need(bytes)
  /\ \A j \in 1 .. (i - 1) : free[j].size < Need(bytes)

\* Mutant: the tail's node is written where the payload ends if the header is
\* forgotten.
TailNode_NoHeader(b, bytes) ==
  [addr |-> b.addr + align_up(bytes), size |-> b.size - Need(bytes)]

TailNode(b, bytes) == [addr |-> b.addr + Need(bytes), size |-> b.size - Need(bytes)]

\* The block is unlinked; a tail that can hold a node becomes the list's head,
\* a smaller one stays with the block that is handed out.
AllocLayout(layout) ==
  /\ layout.align <= ALIGN
  /\ \E i \in 1 .. Len(free) :
       LET tail == TailNode(free[i], layout.bytes)
       IN  /\ FirstFit(i, layout.bytes)
           /\ \/ tail.size >= NodeSize /\ free' = Relink(i, tail) /\ UNCHANGED slack
              \/ tail.size < NodeSize /\ free' = Unlink(i) /\ slack' = slack + tail.size
           /\ live' = live \cup {[addr |-> free[i].addr, bytes |-> layout.bytes]}
  /\ used' = used + align_up(layout.bytes)

\* Over-aligned, or no node is large enough: null, and nothing changes.
AllocFails(layout) ==
  /\ \/ layout.align > ALIGN
     \/ \A i \in 1 .. Len(free) : free[i].size < Need(layout.bytes)
  /\ UNCHANGED vars

-----------------------------------------------------------------------------
(* dealloc_layout *)

\* The walk stops at node i, the first beyond the address, or at the end.
WalkEnds(i, addr) ==
  /\ i <= Len(free) => free[i].addr > addr
  /\ \A j \in 1 .. (i - 1) : free[j].addr <= addr

JoinsRight(i, b) == i <= Len(free) /\ b.addr + Need(b.bytes) = free[i].addr
JoinsLeft(i, b) == i > 1 /\ free[i - 1].addr + free[i - 1].size = b.addr

\* Mutant: the successor's size is not added.
Merged_SuccessorLost(i, b) ==
  [addr |-> IF JoinsLeft(i, b) THEN free[i - 1].addr ELSE b.addr,
   size |-> (IF JoinsLeft(i, b) THEN free[i - 1].size ELSE 0) + Need(b.bytes)]

\* The freed block with the neighbours in the list it touches.
Merged(i, b) ==
  [addr |-> IF JoinsLeft(i, b) THEN free[i - 1].addr ELSE b.addr,
   size |-> (IF JoinsLeft(i, b) THEN free[i - 1].size ELSE 0)
              + Need(b.bytes)
              + (IF JoinsRight(i, b) THEN free[i].size ELSE 0)]

\* Mutant: the header is taken off as well.
Deduct_Header(u, bytes) == IF u >= Need(bytes) THEN u - Need(bytes) ELSE 0

\* used.saturating_sub(size)
Deduct(u, bytes) == IF u >= align_up(bytes) THEN u - align_up(bytes) ELSE 0

DeallocLayout(b) ==
  /\ \E i \in 1 .. (Len(free) + 1) :
       /\ WalkEnds(i, b.addr)
       /\ free' = Replace(IF JoinsLeft(i, b) THEN i - 1 ELSE i,
                          IF JoinsRight(i, b) THEN i ELSE i - 1,
                          Merged(i, b))
  /\ used' = Deduct(used, b.bytes)
  /\ live' = live \ {b}
  /\ UNCHANGED slack

-----------------------------------------------------------------------------
Next ==
  \/ \E layout \in Layouts : AllocLayout(layout)
  \/ \E layout \in Layouts : AllocFails(layout)
  \/ \E b \in live : DeallocLayout(b)

Spec == Init /\ [][Next]_vars

-----------------------------------------------------------------------------
(* Properties *)

Blocks == [addr : Nat, size : Nat]

\* The free list is a sequence of blocks and the counters are counters.
TypeOK ==
  /\ free \in Seq(Blocks)
  /\ used \in Nat
  /\ live \subseteq [addr : Nat, bytes : Nat \ {0}]
  /\ slack \in Nat

Inside(a, size) == Base <= a /\ a + size <= Base + Size

Disjoint(a, m, b, n) == a + m <= b \/ b + n <= a

\* No byte belongs to two blocks, free or in use, headers included, and every
\* free block can hold the node that is written into it, aligned: the header
\* writes of alloc_layout and dealloc_layout never touch a client's data.
BlocksDisjoint ==
  /\ \A i \in 1 .. Len(free) :
       /\ Inside(free[i].addr, free[i].size)
       /\ free[i].size >= NodeSize
       /\ free[i].addr % ALIGN = 0
       /\ \A j \in 1 .. Len(free) :
            i # j => Disjoint(free[i].addr, free[i].size, free[j].addr, free[j].size)
       /\ \A b \in live : Disjoint(free[i].addr, free[i].size, b.addr, Need(b.bytes))
  /\ \A b \in live :
       /\ Inside(b.addr, Need(b.bytes))
       /\ b.addr % ALIGN = 0
       /\ \A c \in live :
            b # c => Disjoint(b.addr, Need(b.bytes), c.addr, Need(c.bytes))

\* used() is the sum of the sizes in use: the saturating subtraction of
\* dealloc_layout never saturates.
UsedIsLive == used = MapThenSumSet(LAMBDA b : align_up(b.bytes), live)

\* Splitting and merging neither lose nor invent memory: what is neither free
\* nor in use is the slack that alloc_layout handed out and dealloc_layout,
\* which rebuilds the block from the layout, does not take back.
Conservation ==
  Size = slack + MapThenSumSet(LAMBDA i : free[i].size, 1 .. Len(free))
               + MapThenSumSet(LAMBDA b : Need(b.bytes), live)

\* The payload a client sees starts after the header.
Payload(b) == [ptr |-> b.addr + NodeSize, bytes |-> b.bytes]

Abs == INSTANCE Allocator
         WITH Requests <- {l.bytes : l \in Layouts},
              payloads <- {Payload(b) : b \in live}

\* The heap is an allocator: no payload overlaps another one, ever.
ImplementsAllocator == Abs!ASpec
==============================================================================
