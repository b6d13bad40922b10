------------------------------ MODULE Allocator ------------------------------
(****************************************************************************)
(* What #[global_allocator] owes its callers: a block that was handed out    *)
(* overlaps no other block in use and lies inside the arena until it is      *)
(* given back.  Where the block is placed, and whether a request is refused, *)
(* is the allocator's choice.                                                *)
(****************************************************************************)
EXTENDS Integers

CONSTANTS Base, Size,     \* the arena is [Base, Base + Size)
          Requests        \* the layout sizes (in bytes) that are asked for

VARIABLE payloads         \* blocks in use: [ptr, bytes]

Apart(p, q) == p.ptr + p.bytes <= q.ptr \/ q.ptr + q.bytes <= p.ptr

AInit == payloads = {}

AAlloc ==
  \E n \in Requests, ptr \in Base .. (Base + Size) :
    LET p == [ptr |-> ptr, bytes |-> n]
    IN  /\ ptr + n <= Base + Size
        /\ \A q \in payloads : Apart(p, q)
        /\ payloads' = payloads \cup {p}

ADealloc == \E p \in payloads : payloads' = payloads \ {p}

ANext == AAlloc \/ ADealloc

ASpec == AInit /\ [][ANext]_payloads
==============================================================================
