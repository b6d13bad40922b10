------------------------------- MODULE MCHeap --------------------------------
(* Instance of Heap for TLC. *)
EXTENDS Heap

\* Sizes that need rounding, that leave a slack when one reuses the block of
\* another, that only a large block serves, and one over-aligned layout.
MCLayouts ==
  {[bytes |-> n, align |-> 8] : n \in {1, 16, 24, 56}} \cup {[bytes |-> 8, align |-> 16]}
==============================================================================
