------------------------------ MODULE FramePool ------------------------------
(****************************************************************************)
(* What the physical frame allocator owes the kernel: frames are handed out  *)
(* one at a time, to one owner at a time, and refused only when none is left. *)
(* A frame that is given back may be dropped for good, never handed out      *)
(* twice.                                                                    *)
(****************************************************************************)
EXTENDS Integers

CONSTANTS Frames,         \* the frames that may be put into the pool
          None, Unit      \* a refused allocation; an operation without result

VARIABLES avail,          \* frames that can be handed out
          held,           \* frames in use
          answer          \* what the last operation returned

PInit == avail = {} /\ held = {} /\ answer = Unit

\* The pool is filled once, at boot.
PFill ==
  /\ avail = {} /\ held = {}
  /\ avail' \in SUBSET Frames
  /\ UNCHANGED <<held, answer>>

PAllocate ==
  \E f \in avail :
    /\ avail' = avail \ {f}
    /\ held' = held \cup {f}
    /\ answer' = f

PRefuse ==
  /\ avail = {}
  /\ answer' = None
  /\ UNCHANGED <<avail, held>>

PFree ==
  \E f \in held :
    /\ held' = held \ {f}
    /\ avail' = avail \cup {f}
    /\ answer' = Unit

PDrop ==
  \E f \in held :
    /\ held' = held \ {f}
    /\ answer' = Unit
    /\ UNCHANGED avail

PNext == PFill \/ PAllocate \/ PRefuse \/ PFree \/ PDrop

PSpec == PInit /\ [][PNext]_<<avail, held, answer>>
==============================================================================
