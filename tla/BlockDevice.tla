----------------------------- MODULE BlockDevice -----------------------------
(****************************************************************************)
(* What BlockDevice::read_sector promises its caller (kernel/src/fs.rs,      *)
(* lines 128-133): one call at a time, which fails or returns the sector it  *)
(* was asked for.  A call that fails promises nothing about the buffer.  A   *)
(* call in doubt may return another sector; each call starts without doubt,  *)
(* so what one call met excuses no later one.                                *)
(****************************************************************************)
EXTENDS BlockIo

CONSTANTS
  Sectors,   \* sectors a caller may ask for
  LBA28      \* sector numbers from here on have more than 28 bits (2^28)

Contents == Sectors \cup {Blank, Junk}

read_sector == \E lba \in Sectors : Ask(lba)

\* The transfer, before the call is over.
Transfer ==
  /\ asked # None
  /\ buf' \in Contents
  /\ UNCHANGED <<asked, got, doubt>>

Fail == Answer("false") /\ buf' \in Contents

Succeed ==
  /\ Answer("true")
  /\ buf' = asked \/ (doubt # {} /\ buf' \in Contents)

\* Only a sector number that is too wide is the caller's doing.
Doubt ==
  /\ asked # None
  /\ \E why \in Doubts :
        /\ why = "wide" => asked >= LBA28
        /\ doubt' = doubt \cup {why}
  /\ buf' \in Contents
  /\ UNCHANGED <<asked, got>>

Next == read_sector \/ Transfer \/ Fail \/ Succeed \/ Doubt \/ Consume

Spec == BlockIoInit /\ [][Next]_blockio
=============================================================================
