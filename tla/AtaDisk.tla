------------------------------- MODULE AtaDisk -------------------------------
(****************************************************************************)
(* The ATA PIO driver (kernel/src/drivers/ide.rs) and the drive behind its   *)
(* registers.  status abstracts the status register to the bits the driver   *)
(* looks at: busy (BSY), data (DRQ), error (ERR), ready (none of them after  *)
(* a command that succeeded) and silent (none of them after one that did     *)
(* not: a device fault).                                                     *)
(****************************************************************************)
EXTENDS BlockIo

CONSTANT LBA28   \* a command names a sector with 28 bits (2^28)

ASSUME AtaAssumption == LBA28 \in Nat \ {0}

VARIABLES
  ata,     \* the driver: control point and the disk's lba28_capacity
  drive    \* the drive: status and the sector the last command named

ide == <<ata, drive>>

NoDisk == [pc |-> "off", capacity |-> 0]
Quiet == [status |-> "ready", lba |-> Junk]

Detached == ata = NoDisk /\ drive = Quiet
Detach == ata' = NoDisk /\ drive' = Quiet

\* What a channel holds and how it answers IDENTIFY: a floating bus reads busy,
\* an empty one reads no status at all, a packet device reports an error.
IdentifyStatus == [floating |-> "busy", empty |-> "silent", packet |-> "error", disk |-> "data"]

\* identify: BSY clears in time, no ERR, and DRQ is set.
identify(kind, intime) ==
  LET status == IdentifyStatus[kind]
  IN  intime /\ status # "busy" /\ status # "error" /\ status = "data"

\* from_identify: the capacity is read from the payload.
from_identify(capacity) ==
  /\ ata' = [pc |-> "idle", capacity |-> capacity]
  /\ drive' = Quiet

-----------------------------------------------------------------------------
(* read_sector *)

\* Beyond the capacity: nothing is sent to the drive.
OutOfRange ==
  /\ ata.pc = "idle" /\ asked # None
  /\ asked >= ata.capacity
  /\ Answer("false")
  /\ UNCHANGED <<ata, drive, buf>>

\* The three address registers and the low nibble of drive_reg.
Address(lba) == lba % LBA28

\* BSY is clear: drive, count, address and READ SECTOR are written.  The
\* capacity is not held to 28 bits, so the address may name another sector.
Command ==
  /\ ata.pc = "idle" /\ asked # None
  /\ asked < ata.capacity
  /\ drive.status # "busy"
  /\ ata' = [ata EXCEPT !.pc = "wait"]
  /\ drive' = [status |-> "busy", lba |-> Address(asked)]
  /\ doubt' = IF asked >= LBA28 THEN doubt \cup {"wide"} ELSE doubt
  /\ UNCHANGED <<asked, got, buf>>

\* wait_bs runs out, before or after the command.
WaitTimeout ==
  /\ ata.pc \in {"idle", "wait"} /\ asked # None
  /\ ata.pc = "idle" => asked < ata.capacity
  /\ drive.status = "busy"
  /\ ata' = [ata EXCEPT !.pc = "idle"]
  /\ Answer("false")
  /\ UNCHANGED <<drive, buf>>

\* BSY is clear and ERR is set.
CommandError ==
  /\ ata.pc = "wait" /\ drive.status = "error"
  /\ ata' = [ata EXCEPT !.pc = "idle"]
  /\ Answer("false")
  /\ UNCHANGED <<drive, buf>>

\* BSY and ERR are clear: 256 words are read into the caller's buffer without a
\* look at DRQ.  They are the sector if the drive had it ready and met no error
\* while it was read.
Stream ==
  /\ ata.pc = "wait" /\ drive.status \in {"data", "silent"}
  /\ ata' = [ata EXCEPT !.pc = "check"]
  /\ \E after \in IF drive.status = "data" THEN {"ready", "error"} ELSE {"silent"} :
        /\ drive' = [drive EXCEPT !.status = after]
        /\ buf' = IF after = "ready" THEN drive.lba ELSE Junk
        /\ doubt' = IF after = "silent" THEN doubt \cup {"fault"} ELSE doubt
  /\ UNCHANGED <<asked, got>>

\* The status after the transfer decides; the buffer keeps what was read.
Check ==
  /\ ata.pc = "check"
  /\ ata' = [ata EXCEPT !.pc = "idle"]
  /\ Answer(IF drive.status = "error" THEN "false" ELSE "true")
  /\ UNCHANGED <<drive, buf>>

read_sector == OutOfRange \/ Command \/ WaitTimeout \/ CommandError \/ Stream \/ Check

\* The drive ends a command.
Drive ==
  /\ drive.status = "busy"
  /\ \E status \in {"data", "error", "silent"} : drive' = [drive EXCEPT !.status = status]
  /\ UNCHANGED <<ata, blockio>>
=============================================================================
