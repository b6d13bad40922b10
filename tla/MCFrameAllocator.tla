-------------------------- MODULE MCFrameAllocator ---------------------------
(* Instance of FrameAllocator for TLC: frames of 4 bytes, floor at frame 2. *)
EXTENDS FrameAllocator

Region(s, e, k) == [start |-> s, end |-> e, kind |-> k]

\* Regions that straddle the floor, begin or end inside a frame, touch, overlap
\* or are empty.
Regions ==
  {Region(1, 12, "Usable"), Region(12, 21, "Usable"), Region(21, 36, "Usable"),
   Region(14, 24, "Usable"), Region(24, 24, "Usable"), Region(8, 36, "Usable"),
   Region(12, 21, "Reserved")}

MCMaps ==
  UNION {[1 .. n -> Regions] : n \in 0 .. 2}
    \cup {<<a, b, c>> : a \in {Region(1, 12, "Usable"), Region(8, 36, "Usable")},
                        b \in Regions, c \in Regions}
    \cup {[i \in 1 .. 4 |-> Region(1, 12, "Usable")]}
==============================================================================
