------------------------------- MODULE BlockIo -------------------------------
(****************************************************************************)
(* The call of BlockDevice::read_sector (kernel/src/fs.rs) as state shared   *)
(* by its caller and the driver that implements it.  The contents of a      *)
(* sector are abstracted to its number: buf = l says that the buffer holds   *)
(* what the disk stores at l.                                                *)
(****************************************************************************)
EXTENDS Integers

VARIABLES
  asked,    \* the sector of the call that is running, or None
  got,      \* what the call returned: "true", "false", or "none" before
  buf,      \* the caller's buffer: Blank, a sector or Junk
  doubt     \* what happened in this call that the driver does not look for

blockio == <<asked, got, buf, doubt>>

None == -1
Blank == -2
Junk == -3

\* late: the device still held a request of an earlier call when this one was
\* published.  stale: it took a leftover ring entry for the request.  wide: the
\* sector number has more than 28 bits.  fault: the drive ended the command
\* with neither data nor an error.
Doubts == {"late", "stale", "wide", "fault"}

BlockIoInit == asked = None /\ got = "none" /\ buf = Blank /\ doubt = {}

\* The caller clears a buffer of its own and enters read_sector.
Ask(lba) ==
  /\ asked = None /\ got = "none"
  /\ asked' = lba
  /\ UNCHANGED <<got, buf, doubt>>

\* read_sector returns; the driver's step says what is in the buffer.
Answer(value) ==
  /\ asked # None
  /\ asked' = None
  /\ got' = value
  /\ UNCHANGED doubt

\* The caller goes on with what it got, and its buffer is gone.
Consume ==
  /\ got # "none"
  /\ got' = "none" /\ buf' = Blank /\ doubt' = {}
  /\ UNCHANGED asked

\* A driver value is made or dropped: no call is running.
Attach ==
  /\ asked = None /\ got = "none"
  /\ UNCHANGED blockio
=============================================================================
