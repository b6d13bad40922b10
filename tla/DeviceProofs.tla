---------------------------- MODULE DeviceProofs -----------------------------
(****************************************************************************)
(* What holds of the devices for every value of the constants: both block    *)
(* drivers keep the promise of BlockDevice::read_sector, alone with any      *)
(* caller and under the whole bring-up of init_all, file system included;    *)
(* and a syscall comes back as it left.                                      *)
(****************************************************************************)
EXTENDS Drivers, FoldLemmas

\* The sectors a u32 can name.
Sect == 0 .. (U32 - 1)

\* What the caller's buffer can hold.
Held512 == Sect \cup {Blank, Junk}

\* No sector number is None, Blank, Junk or Stray.
LEMMA SectFacts ==
  Sect \subseteq Nat /\ 0 \in Sect /\ -1 \notin Sect /\ -2 \notin Sect /\ -3 \notin Sect /\ -4 \notin Sect
BY Fat32Assumption DEF Sect

\* A remainder is below the divisor, and a number below it is its own remainder.
LEMMA ModFacts ==
  ASSUME NEW n \in Nat \ {0}, NEW a \in Nat
  PROVE  a % n \in 0 .. (n - 1) /\ (a < n => a % n = a)
OBVIOUS

\* The address of a sector is a sector, and the same one if it has 28 bits.
LEMMA AddressFacts ==
  ASSUME NEW lba \in Sect
  PROVE  Address(lba) \in Sect /\ (~(lba >= LBA28) => Address(lba) = lba)
<1>1. lba \in Nat /\ lba < U32 /\ LBA28 \in Nat \ {0} /\ U32 \in Nat
  BY Fat32Assumption, AtaAssumption DEF Sect
<1>2. Address(lba) \in 0 .. (LBA28 - 1) /\ (lba < LBA28 => Address(lba) = lba)
  BY <1>1, ModFacts, Zenon DEF Address
<1> QED  BY <1>1, <1>2 DEF Sect

-----------------------------------------------------------------------------
(* The ATA driver: AtaSpec is the driver and the drive with a caller that     *)
(* asks for anything, one call at a time.                                     *)

AtaInit ==
  /\ BlockIoInit
  /\ \E capacity \in Nat : ata = [pc |-> "idle", capacity |-> capacity]
  /\ drive = Quiet

\* The caller calls and goes on; a driver value is made for another disk.
AtaCaller == ((\E lba \in Sect : Ask(lba)) \/ Consume) /\ UNCHANGED ide
Reprobe == Attach /\ \E capacity \in Nat : from_identify(capacity)

AtaNext == AtaCaller \/ Reprobe \/ read_sector \/ Drive

AtaSpec == AtaInit /\ [][AtaNext]_<<ide, blockio>>

\* From the command to the check the drive works on the address of the call's
\* sector.  A sector that is too wide, and a drive that delivered nothing, are
\* in doubt.
AInv ==
  /\ asked \in Sect \cup {None} /\ buf \in Held512 /\ (asked = None \/ got = "none")
  /\ DOMAIN ata = {"pc", "capacity"} /\ DOMAIN drive = {"status", "lba"}
  /\ ata.pc \in {"idle", "wait", "check"}
  /\ ata.pc \in {"wait", "check"} =>
       asked \in Sect /\ drive.lba = Address(asked) /\ (asked >= LBA28 => doubt # {})
  /\ ata.pc = "check" =>
       /\ drive.status \in {"ready", "error", "silent"}
       /\ drive.status = "ready" => buf = drive.lba
       /\ drive.status = "silent" => doubt # {}

USE DEF None, Blank, Junk, Stray, Held512

\* The driver starts idle, which is all AInv asks of it.
LEMMA AtaStart == AtaInit => AInv /\ BlockIoInit
<1> SUFFICES ASSUME AtaInit PROVE AInv
  BY DEF AtaInit
<1>1. PICK capacity \in Nat : ata = [pc |-> "idle", capacity |-> capacity]
  BY DEF AtaInit
<1> QED  BY <1>1, Zenon DEF AtaInit, AInv, BlockIoInit, Quiet

\* What the promise of read_sector allows: a call that fails, one that succeeds,
\* a transfer, and a reason for doubt.
LEMMA Allowed ==
  ASSUME asked # None, asked' = asked => got' = got, asked' # asked => asked' = None, buf' \in Held512,
         \/ asked' = asked /\ UNCHANGED doubt
         \/ asked' = asked /\ \E why \in {"late", "stale", "fault"} : doubt' = doubt \cup {why}
         \/ asked' = asked /\ asked >= LBA28 /\ doubt' = doubt \cup {"wide"}
         \/ asked' = None /\ got' = "false" /\ UNCHANGED doubt
         \/ asked' = None /\ got' = "true" /\ UNCHANGED doubt /\ (buf' = asked \/ doubt # {})
  PROVE  Blocks!Next
<1> USE DEF Blocks!Next, Blocks!None, Blocks!Blank, Blocks!Junk, Blocks!Contents, Sect
<1>1. CASE asked' = asked /\ UNCHANGED doubt
  BY <1>1 DEF Blocks!Transfer
<1>2. CASE asked' = asked /\ \E why \in {"late", "stale", "fault"} : doubt' = doubt \cup {why}
  <2>1. PICK why \in {"late", "stale", "fault"} : doubt' = doubt \cup {why}
    BY <1>2
  <2>2. why \in Blocks!Doubts /\ why # "wide"
    BY <2>1 DEF Blocks!Doubts
  <2> QED  BY <1>2, <2>1, <2>2 DEF Blocks!Doubt
<1>3. CASE asked' = asked /\ asked >= LBA28 /\ doubt' = doubt \cup {"wide"}
  <2>1. "wide" \in Blocks!Doubts
    BY DEF Blocks!Doubts
  <2> QED  BY <1>3, <2>1 DEF Blocks!Doubt
<1>4. CASE asked' = None /\ got' = "false" /\ UNCHANGED doubt
  BY <1>4 DEF Blocks!Fail, Blocks!Answer
<1>5. CASE asked' = None /\ got' = "true" /\ UNCHANGED doubt /\ (buf' = asked \/ doubt # {})
  BY <1>5 DEF Blocks!Succeed, Blocks!Answer
<1> QED  BY <1>1, <1>2, <1>3, <1>4, <1>5, Zenon

\* What a caller does is a step of the promise, and keeps the buffer in range.
LEMMA CallerStep ==
  ASSUME (\E lba \in Sect : Ask(lba)) \/ Consume, asked \in Sect \cup {None}, buf \in Held512
  PROVE  /\ Blocks!Next /\ asked' \in Sect \cup {None} /\ buf' \in Held512
         /\ asked = None \/ got = "none" => asked' = None \/ got' = "none"
<1>1. CASE \E lba \in Sect : Ask(lba)
  BY <1>1 DEF Sect, Ask, Blocks!Next, Blocks!read_sector, Blocks!Ask, Blocks!None
<1>2. CASE Consume
  BY <1>2 DEF Consume, Blocks!Next, Blocks!Consume, Blocks!None, Blocks!Blank
<1> QED  BY <1>1, <1>2, Zenon

\* A step of caller, driver or drive keeps AInv and is one that the promise of
\* read_sector allows.
LEMMA AtaStep ==
  ASSUME AInv, [AtaNext]_<<ide, blockio>>
  PROVE  AInv' /\ [Blocks!Next]_blockio
<1> USE DEF AInv
<1>1. CASE AtaCaller
  <2>1. /\ Blocks!Next /\ asked' \in Sect \cup {None} /\ buf' \in Held512 /\ UNCHANGED <<ata, drive>>
        /\ asked' = None \/ got' = "none"
    BY <1>1, CallerStep, Zenon DEF AtaCaller, ide
  <2>2. ata.pc = "idle" \/ UNCHANGED <<asked, buf, doubt>>
    BY <1>1, SectFacts DEF AtaCaller, Ask, Consume
  <2> QED  BY <2>1, <2>2
<1>2. CASE Reprobe
  <2>1. PICK capacity \in Nat : from_identify(capacity)
    BY <1>2 DEF Reprobe
  <2> QED  BY <1>2, <2>1, Zenon DEF Reprobe, Attach, from_identify, Quiet, blockio
<1>3. CASE OutOfRange
  BY <1>3, Allowed DEF OutOfRange, Answer
<1>4. CASE Command
  <2>1. AInv'
    BY <1>4 DEF Command
  <2>2. asked # None /\ UNCHANGED <<asked, got, buf>>
    BY <1>4 DEF Command
  <2>3. CASE asked >= LBA28
    BY <1>4, <2>1, <2>2, <2>3, Allowed DEF Command
  <2>4. CASE ~(asked >= LBA28)
    BY <1>4, <2>1, <2>2, <2>4 DEF Command, blockio
  <2> QED  BY <2>3, <2>4
<1>5. CASE WaitTimeout
  BY <1>5, Allowed DEF WaitTimeout, Answer
<1>6. CASE CommandError
  BY <1>6, Allowed DEF CommandError, Answer
<1>7. CASE Stream
  <2>1. PICK after \in {"ready", "error", "silent"} :
          /\ drive' = [drive EXCEPT !.status = after]
          /\ buf' = IF after = "ready" THEN drive.lba ELSE Junk
          /\ doubt' = IF after = "silent" THEN doubt \cup {"fault"} ELSE doubt
    BY <1>7, Zenon DEF Stream
  <2>2. /\ asked \in Sect /\ asked # None /\ UNCHANGED <<asked, got>>
        /\ ata.pc = "wait" /\ ata' = [ata EXCEPT !.pc = "check"]
    BY <1>7, SectFacts DEF Stream
  <2>3. buf' \in Held512
    BY <2>1, <2>2, AddressFacts
  <2>4. AInv'
    BY <2>1, <2>2, <2>3
  <2>5. Blocks!Next
    BY <2>1, <2>2, <2>3, Allowed
  <2> QED  BY <2>4, <2>5
<1>8. CASE Check
  <2>1. AInv'
    BY <1>8 DEF Check, Answer
  <2>2. buf = asked \/ doubt # {} \/ drive.status = "error"
    BY <1>8, AddressFacts DEF Check
  <2>3. asked # None /\ asked' = None /\ UNCHANGED <<doubt, buf>>
    BY <1>8 DEF Check, Answer
  <2>4. got' = "false" \/ (got' = "true" /\ drive.status # "error")
    BY <1>8 DEF Check, Answer
  <2> QED  BY <2>1, <2>2, <2>3, <2>4, Allowed
<1>9. CASE Drive
  BY <1>9 DEF Drive, blockio
<1>10. CASE UNCHANGED <<ide, blockio>>
  BY <1>10 DEF ide, blockio
<1> QED  BY <1>1, <1>2, <1>3, <1>4, <1>5, <1>6, <1>7, <1>8, <1>9, <1>10, Zenon
         DEF AtaNext, read_sector

\* read_sector of the ATA driver returns true only with the sector it was asked
\* for, however many calls fail, time out or are refused before; the exceptions
\* are a sector number of 2^28 or more and a call in which the drive ended the
\* command with neither data nor an error (ide.rs).
THEOREM AtaKeepsPromise == AtaSpec => Blocks!Spec
<1>1. AtaInit => Blocks!BlockIoInit
  BY DEF AtaInit, BlockIoInit, Blocks!BlockIoInit, Blocks!None, Blocks!Blank
<1>2. AInv /\ [AtaNext]_<<ide, blockio>> => AInv'
  BY AtaStep
<1>3. AInv /\ [AtaNext]_<<ide, blockio>> => [Blocks!Next]_Blocks!blockio
  BY AtaStep DEF blockio, Blocks!blockio
<1>4. AtaInit => AInv
  BY AtaStart
<1> QED  BY <1>1, <1>2, <1>3, <1>4, PTL DEF AtaSpec, Blocks!Spec

-----------------------------------------------------------------------------
(* The virtio driver: VirtioSpec is the driver and the device with a caller   *)
(* that asks for anything, for every queue size, index width and disk, and    *)
(* whatever the frames of the rings hold before.                              *)

VNext == VirtioNext(Sect)

VirtioSpec == VirtioInit /\ [][VNext]_<<virtio, blockio>>

\* The parts of VNext: the caller calls and goes on; a driver value is made,
\* and dropped.
VirtioCaller == ((\E lba \in Sect : Ask(lba)) \/ Consume) /\ UNCHANGED virtio
Make == setup_queue(QSZ, TRUE) /\ Attach
Forget == Drop /\ Attach

-----------------------------------------------------------------------------
(* What the frames and the device hold *)

Stored == Sect \cup {Junk}
Request == Stored \cup {Stray}

Announced == {"slot", "sample", "notify", "poll"}

VType ==
  /\ asked \in Sect \cup {None} /\ buf \in Held512 /\ (asked = None \/ got = "none")
  /\ DOMAIN drv = {"pc", "head", "done"}
  /\ DOMAIN mem = {"avail", "ring", "used", "header", "data", "status"}
  /\ DOMAIN dev = {"kicked", "last", "inflight", "written", "completed", "broken"}
  /\ drv.pc \in {"off", "idle", "index"} \cup Announced
  /\ drv.pc \in {"index"} \cup Announced => asked \in Sect
  /\ mem.header \in Stored /\ mem.data \in Stored /\ dev.inflight \in Seq(Request)
  /\ dev.written \in Nat

\* What avail.idx counts, and how much of the ring has been written: all of it,
\* or the entries before avail_head, in the first round.
Published == IF drv.pc = "slot" THEN (drv.head + 1) % IDX ELSE drv.head

Filled == \A i \in 0 .. (QSZ - 1) : mem.ring[i] = 0

FirstRound ==
  /\ drv.head < QSZ /\ dev.last <= mem.avail
  /\ \A i \in 0 .. (QSZ - 1) : i < drv.head => mem.ring[i] = 0

VRing ==
  /\ drv.head \in 0 .. (IDX - 1) /\ dev.last \in 0 .. (IDX - 1)
  /\ DOMAIN mem.ring = 0 .. (QSZ - 1)
  /\ mem.avail = Published
  /\ Filled \/ FirstRound

\* How far the device is with the request of a call that is not in doubt: it
\* holds that request and no other, and used.idx moves after the sample only
\* when the request is over.
Nothing == dev.inflight = <<>> /\ dev.written = 0

Right == mem.status = 0 => mem.data = asked

Unfetched == (dev.last + 1) % IDX = mem.avail /\ Nothing
Fetched == dev.last = mem.avail /\ dev.inflight = <<asked>> /\ dev.written = 0
Written == dev.last = mem.avail /\ dev.inflight = <<>> /\ dev.written = 1 /\ Right
Ended == dev.last = mem.avail /\ Nothing /\ Right

VCall ==
  /\ drv.pc \in {"index"} \cup Announced => mem.header = asked
  /\ drv.pc \in Announced /\ doubt = {} => Unfetched \/ Fetched \/ Written \/ Ended
  /\ drv.pc \in {"notify", "poll"} /\ doubt = {} /\ mem.used # drv.done => Ended

VInv ==
  /\ VType
  /\ VRing
  /\ drv.pc = "off" => Off
  /\ VCall

USE DEF Announced, Stored, Request

\* The parts of a step.
LEMMA VParts ==
  ASSUME [VNext]_<<virtio, blockio>>
  PROVE  VirtioCaller \/ Make \/ Forget \/ xfer \/ Device \/ UNCHANGED <<virtio, blockio>>
BY Zenon DEF VNext, VirtioNext, VirtioCaller, Make, Forget

\* The fields of a driver, its frames and a device at rest.
LEMMA Fresh ==
  /\ DOMAIN NoDriver = {"pc", "head", "done"} /\ NoDriver.pc = "off" /\ NoDriver.head = 0
  /\ DOMAIN NoFrames = {"avail", "ring", "used", "header", "data", "status"}
  /\ NoFrames.header = Junk /\ NoFrames.data = Junk /\ NoFrames.avail = 0
  /\ DOMAIN NoFrames.ring = 0 .. (QSZ - 1)
  /\ DOMAIN Idle = {"kicked", "last", "inflight", "written", "completed", "broken"}
  /\ Idle.inflight = <<>> /\ Idle.inflight \in Seq(Request) /\ Idle.last = 0 /\ Idle.written = 0 /\ Idle.written \in Nat
<1>1. DOMAIN NoDriver = {"pc", "head", "done"} /\ NoDriver.pc = "off" /\ NoDriver.head = 0
  BY DEF NoDriver
<1>2. /\ DOMAIN NoFrames = {"avail", "ring", "used", "header", "data", "status"}
      /\ NoFrames.header = Junk /\ NoFrames.data = Junk /\ NoFrames.avail = 0
      /\ DOMAIN NoFrames.ring = 0 .. (QSZ - 1)
  BY DEF NoFrames
<1>3. DOMAIN Idle = {"kicked", "last", "inflight", "written", "completed", "broken"}
  BY DEF Idle
<1>4. Idle.inflight = <<>> /\ Idle.inflight \in Seq(Request) /\ Idle.last = 0 /\ Idle.written = 0 /\ Idle.written \in Nat
  BY DEF Idle
<1> QED  BY <1>1, <1>2, <1>3, <1>4

\* A driver that is off, or was just made, has written nothing yet.
LEMMA AtRest ==
  ASSUME drv.head = 0, mem.avail = 0, dev.last = 0, DOMAIN mem.ring = 0 .. (QSZ - 1), drv.pc # "slot"
  PROVE  VRing
<1>1. IDX \in Nat /\ QSZ \in Nat /\ 0 < QSZ /\ QSZ < IDX
  BY VirtioAssumption
<1>2. FirstRound
  BY <1>1 DEF FirstRound
<1> QED  BY <1>1, <1>2 DEF VRing, Published

\* The driver starts off, with no request in flight.
LEMMA VStart == VirtioInit => VInv
<1> SUFFICES ASSUME VirtioInit PROVE VInv
  OBVIOUS
<1>1. VType
  BY Fresh, Zenon DEF VirtioInit, BlockIoInit, Off, VType
<1>2. drv.pc = "off" /\ Off
  BY Fresh, Zenon DEF VirtioInit, Off
<1>3. VRing
  BY <1>2, Fresh, AtRest DEF Off
<1>4. VCall
  BY <1>2 DEF VCall
<1> QED  BY <1>1, <1>2, <1>3, <1>4 DEF VInv

\* setup_queue changes the ring and used.idx only.
LEMMA MakeFacts ==
  ASSUME VInv, Make
  PROVE  /\ Off /\ UNCHANGED <<dev, asked, got, buf, doubt>> /\ drv'.pc = "idle" /\ drv'.head = 0
         /\ DOMAIN drv' = DOMAIN drv /\ DOMAIN mem' = DOMAIN mem
         /\ mem'.avail = 0 /\ mem'.header = Junk /\ mem'.data = Junk
         /\ DOMAIN mem'.ring = 0 .. (QSZ - 1)
<1>1. Off /\ UNCHANGED <<dev, asked, got, buf, doubt>>
  BY DEF Make, setup_queue, VInv, Attach, blockio
<1>2. drv' = [drv EXCEPT !.pc = "idle"]
  BY DEF Make, setup_queue
<1>3. PICK old \in Leftovers :
        mem' = [mem EXCEPT !.used = old.used, !.ring = [i \in 0 .. (QSZ - 1) |-> old.slot]]
  BY Zenon DEF Make, setup_queue
<1>4. DOMAIN drv' = DOMAIN drv /\ drv'.pc = "idle" /\ drv'.head = 0
  BY <1>1, <1>2, Fresh DEF Off
<1>5. /\ DOMAIN mem' = DOMAIN mem /\ mem'.avail = 0 /\ mem'.header = Junk /\ mem'.data = Junk
      /\ DOMAIN mem'.ring = 0 .. (QSZ - 1)
  BY <1>1, <1>3, Fresh DEF Off
<1> QED  BY <1>1, <1>4, <1>5

\* A step keeps the fields of driver, frames and device in their ranges.
LEMMA VTypeStep ==
  ASSUME VInv, [VNext]_<<virtio, blockio>>
  PROVE  VType'
<1> USE DEF VInv, VType
<1>1. CASE VirtioCaller
  <2>1. asked' \in Sect \cup {None} /\ buf' \in Held512 /\ (asked' = None \/ got' = "none")
    BY <1>1, CallerStep, Zenon DEF VirtioCaller
  <2>2. drv.pc \in {"index"} \cup Announced => asked' = asked
    BY <1>1, SectFacts DEF VirtioCaller, Ask, Consume
  <2> QED  BY <1>1, <2>1, <2>2 DEF VirtioCaller, virtio
<1>2. CASE Make
  BY <1>2, MakeFacts DEF Off
<1>3. CASE Forget
  BY <1>3, Fresh, Zenon DEF Forget, Drop, Attach, blockio
<1>4. CASE XferRequest
  BY <1>4 DEF XferRequest, blockio
<1>5. CASE XferIndex
  BY <1>5 DEF XferIndex
<1>6. CASE XferSlot
  BY <1>6 DEF XferSlot, blockio
<1>7. CASE XferSample
  BY <1>7 DEF XferSample, blockio
<1>8. CASE XferNotify
  BY <1>8 DEF XferNotify, blockio
<1>9. CASE XferDone
  BY <1>9 DEF XferDone, Answer
<1>10. CASE XferTimeout
  BY <1>10 DEF XferTimeout, Answer
<1>11. CASE DeviceFetch
  BY <1>11 DEF DeviceFetch
<1>12. CASE DeviceSettle
  BY <1>12 DEF DeviceSettle, blockio
<1>13. CASE DeviceWrite
  BY <1>13 DEF DeviceWrite, blockio, Without
<1>14. CASE DeviceComplete
  BY <1>14 DEF DeviceComplete, blockio
<1>15. CASE UNCHANGED <<virtio, blockio>>
  BY <1>15 DEF virtio, blockio
<1> QED  BY <1>1, <1>2, <1>3, <1>4, <1>5, <1>6, <1>7, <1>8, <1>9, <1>10, <1>11, <1>12, <1>13,
         <1>14, <1>15, VParts, ZenonT(40) DEF xfer, Device

\* What the device has fetched and the ring it fetches from change in few steps.
LEMMA VRingStep ==
  ASSUME VInv, [VNext]_<<virtio, blockio>>
  PROVE  VRing'
<1>0. /\ IDX \in Nat \ {0} /\ QSZ \in Nat \ {0} /\ QSZ < IDX
      /\ IDX \in Nat /\ QSZ \in Nat /\ 0 < QSZ
  BY VirtioAssumption
<1>1. CASE VirtioCaller \/ XferRequest \/ XferSample \/ XferNotify \/ XferDone \/ XferTimeout
           \/ DeviceSettle \/ DeviceWrite \/ DeviceComplete \/ UNCHANGED <<virtio, blockio>>
  <2>1. drv'.head = drv.head /\ (drv'.pc = "slot" <=> drv.pc = "slot")
    BY <1>1, ZenonT(40) DEF VInv, VType, VirtioCaller, virtio, XferRequest, XferSample, XferNotify, XferDone, XferTimeout,
       DeviceSettle, DeviceWrite, DeviceComplete
  <2>2. dev'.last = dev.last
    BY <1>1, ZenonT(40) DEF VInv, VType, VirtioCaller, virtio, XferRequest, XferSample, XferNotify, XferDone, XferTimeout,
       DeviceSettle, DeviceWrite, DeviceComplete
  <2>3. mem'.avail = mem.avail /\ mem'.ring = mem.ring
    BY <1>1, ZenonT(40) DEF VInv, VType, VirtioCaller, virtio, XferRequest, XferSample, XferNotify, XferDone, XferTimeout,
       DeviceSettle, DeviceWrite, DeviceComplete
  <2>4. VRing
    BY DEF VInv
  <2> QED  BY <2>1, <2>2, <2>3, <2>4, ZenonT(40) DEF VRing, Published, Filled, FirstRound
<1>2. CASE Make
  <2>1. /\ drv'.head = 0 /\ mem'.avail = 0 /\ dev'.last = 0
        /\ DOMAIN mem'.ring = 0 .. (QSZ - 1) /\ drv'.pc # "slot"
    BY <1>2, MakeFacts, Fresh DEF Off
  <2>2. FirstRound'
    BY <1>0, <2>1 DEF FirstRound
  <2> QED  BY <1>0, <2>1, <2>2 DEF VRing, Published
<1>3. CASE Forget
  <2>1. /\ drv'.head = 0 /\ mem'.avail = 0 /\ dev'.last = 0
        /\ DOMAIN mem'.ring = 0 .. (QSZ - 1) /\ drv'.pc # "slot"
    BY <1>3, Fresh DEF Forget, Drop
  <2>2. FirstRound'
    BY <1>0, <2>1 DEF FirstRound
  <2> QED  BY <1>0, <2>1, <2>2 DEF VRing, Published
<1>4. CASE XferIndex
  <2>1. /\ drv.pc = "index" /\ drv'.pc = "slot" /\ drv'.head = drv.head /\ dev' = dev
        /\ mem'.ring = mem.ring /\ mem'.avail = (drv.head + 1) % IDX
    BY <1>4 DEF XferIndex, VInv, VType
  <2>2. drv.head \in 0 .. (IDX - 1) /\ mem.avail = drv.head
    BY <2>1 DEF VInv, VRing, Published
  <2>3. FirstRound => FirstRound'
    <3> SUFFICES ASSUME FirstRound PROVE FirstRound'
      OBVIOUS
    <3>1. drv.head + 1 \in Nat /\ drv.head + 1 < IDX
      BY <1>0, <2>2 DEF FirstRound
    <3>2. (drv.head + 1) % IDX = drv.head + 1
      BY <1>0, <3>1, ModFacts, Zenon
    <3> QED  BY <1>0, <2>1, <2>2, <3>2 DEF FirstRound, VInv, VRing
  <2> QED  BY <2>1, <2>2, <2>3 DEF VInv, VRing, Published, Filled
<1>5. CASE XferSlot
  <2>1. /\ drv.pc = "slot" /\ drv'.pc = "sample" /\ drv'.head = (drv.head + 1) % IDX /\ dev' = dev
        /\ mem'.avail = mem.avail /\ mem'.ring = [mem.ring EXCEPT ![drv.head % QSZ] = 0]
    BY <1>5 DEF XferSlot, VInv, VType
  <2>2. drv.head \in 0 .. (IDX - 1) /\ mem.avail = (drv.head + 1) % IDX
    BY <2>1 DEF VInv, VRing, Published
  <2>3. (drv.head + 1) % IDX \in 0 .. (IDX - 1)
    BY <1>0, <2>2
  <2>4. Filled => Filled'
    BY <2>1 DEF Filled, VInv, VRing
  <2>5. FirstRound => Filled' \/ FirstRound'
    <3> SUFFICES ASSUME FirstRound PROVE Filled' \/ FirstRound'
      OBVIOUS
    <3>1. drv.head \in Nat /\ drv.head < QSZ /\ drv.head + 1 \in Nat /\ drv.head + 1 < IDX
      BY <1>0, <2>2 DEF FirstRound
    <3>2. (drv.head + 1) % IDX = drv.head + 1 /\ drv.head % QSZ = drv.head
      BY <1>0, <3>1, ModFacts, Zenon
    <3>3. mem'.ring = [mem.ring EXCEPT ![drv.head] = 0] /\ DOMAIN mem.ring = 0 .. (QSZ - 1)
      BY <2>1, <3>2 DEF VInv, VRing
    <3>4. \A i \in 0 .. (QSZ - 1) : i < drv.head => mem.ring[i] = 0
      BY DEF FirstRound
    <3>5. \A i \in 0 .. (QSZ - 1) : i < drv.head + 1 => mem'.ring[i] = 0
      BY <1>0, <3>1, <3>3, <3>4
    <3>6. drv'.head = drv.head + 1 /\ dev'.last <= mem'.avail
      BY <2>1, <3>2 DEF FirstRound
    <3>7. CASE drv.head + 1 < QSZ
      BY <3>5, <3>6, <3>7, Zenon DEF FirstRound
    <3>8. CASE drv.head + 1 = QSZ
      BY <1>0, <3>5, <3>8 DEF Filled
    <3> QED  BY <1>0, <3>1, <3>7, <3>8
  <2> QED  BY <2>1, <2>2, <2>3, <2>4, <2>5 DEF VInv, VRing, Published
<1>6. CASE DeviceFetch
  <2>1. UNCHANGED <<drv, mem>> /\ dev.last # mem.avail
    BY <1>6, Zenon DEF DeviceFetch
  <2>2. dev'.last = dev.last \/ dev'.last = (dev.last + 1) % IDX
    BY <1>6 DEF DeviceFetch, VInv, VType
  <2>3. dev.last \in 0 .. (IDX - 1) /\ drv.head \in 0 .. (IDX - 1) /\ mem.avail = Published
    BY DEF VInv, VRing
  <2>4. dev'.last \in 0 .. (IDX - 1)
    BY <1>0, <2>2, <2>3
  <2>5. FirstRound => FirstRound'
    <3> SUFFICES ASSUME FirstRound PROVE FirstRound'
      OBVIOUS
    <3>1. mem.avail \in 0 .. (IDX - 1)
      BY <1>0, <2>3 DEF Published
    <3>2. dev.last + 1 \in Nat /\ dev.last + 1 < IDX /\ dev.last + 1 <= mem.avail
      BY <1>0, <2>1, <2>3, <3>1 DEF FirstRound
    <3>3. (dev.last + 1) % IDX = dev.last + 1
      BY <1>0, <3>2, ModFacts, Zenon
    <3> QED  BY <2>1, <2>2, <3>2, <3>3 DEF FirstRound
  <2>6. Filled => Filled'
    BY <2>1, Zenon DEF Filled
  <2>7. Published' = Published
    BY <2>1, Zenon DEF Published
  <2> QED  BY <2>1, <2>4, <2>5, <2>6, <2>7, Zenon DEF VInv, VRing
<1> QED  BY <1>1, <1>2, <1>3, <1>4, <1>5, <1>6, VParts, ZenonT(40) DEF xfer, Device

\* The device meets a leftover ring entry only between the two steps that
\* publish a request, avail.idx and the entry.
LEMMA StrayInCall ==
  ASSUME VInv, dev.last # mem.avail, mem.ring[dev.last % QSZ] = Stray
  PROVE  drv.pc = "slot"
<1>0. /\ IDX \in Nat \ {0} /\ QSZ \in Nat \ {0} /\ QSZ < IDX
      /\ IDX \in Nat /\ QSZ \in Nat /\ 0 < QSZ
  BY VirtioAssumption
<1>1. VRing /\ dev.last \in 0 .. (IDX - 1) /\ drv.head \in 0 .. (IDX - 1)
  BY DEF VInv, VRing
<1>2. dev.last % QSZ \in 0 .. (QSZ - 1)
  BY <1>0, <1>1
<1>3. ~Filled
  BY <1>2 DEF Filled
<1>4. FirstRound
  BY <1>1, <1>3 DEF VRing
<1> SUFFICES ASSUME drv.pc # "slot" PROVE FALSE
  OBVIOUS
<1>5. mem.avail = drv.head /\ dev.last < drv.head /\ drv.head < QSZ
  BY <1>1, <1>4 DEF VRing, Published, FirstRound
<1>6. dev.last \in Nat /\ dev.last < QSZ
  BY <1>0, <1>1, <1>5
<1>7. dev.last % QSZ = dev.last
  BY <1>0, <1>6, ModFacts, Zenon
<1> QED  BY <1>1, <1>2, <1>4, <1>5, <1>7, SMTT(30) DEF FirstRound

\* A driver that is off has an empty queue and no request in flight.
LEMMA VOffStep ==
  ASSUME VInv, [VNext]_<<virtio, blockio>>
  PROVE  (drv.pc = "off" => Off)'
<1> USE DEF VInv, VType
<1>1. CASE VirtioCaller \/ UNCHANGED <<virtio, blockio>>
  BY <1>1 DEF VirtioCaller, virtio, Off
<1>2. CASE Make
  BY <1>2, MakeFacts
<1>3. CASE Forget
  BY <1>3 DEF Forget, Drop, Off
<1>4. CASE xfer
  BY <1>4, Zenon DEF xfer, XferRequest, XferIndex, XferSlot, XferSample, XferNotify, XferDone, XferTimeout
<1>5. CASE Device
  <2>1. drv.pc # "off"
    <3> SUFFICES ASSUME drv.pc = "off" PROVE FALSE
      BY Zenon
    <3>1. dev.kicked = FALSE /\ dev.inflight = <<>> /\ dev.written = 0
      BY DEF Off, Idle
    <3> QED  BY <1>5, <3>1 DEF Device, DeviceFetch, DeviceSettle, DeviceWrite, DeviceComplete
  <2> QED  BY <1>5, <2>1, Zenon DEF Device, DeviceFetch, DeviceSettle, DeviceWrite, DeviceComplete
<1> QED  BY <1>1, <1>2, <1>3, <1>4, <1>5, VParts, Zenon

\* A step keeps a call that is not in doubt alone with the device.
LEMMA VCallStep ==
  ASSUME VInv, [VNext]_<<virtio, blockio>>
  PROVE  VCall'
<1> USE DEF VCall, Nothing
<1>0. VType /\ VCall
  BY DEF VInv
<1>1. CASE VirtioCaller
  <2>1. UNCHANGED <<drv, mem, dev>>
    BY <1>1 DEF VirtioCaller, virtio
  <2>2. drv.pc \in {"index"} \cup Announced => asked' = asked /\ doubt' = doubt
    BY <1>0, <1>1, SectFacts, SMTT(30) DEF VirtioCaller, Ask, Consume, VType
  <2> QED  BY <1>0, <2>1, <2>2 DEF Unfetched, Fetched, Written, Ended, Right
<1>2. CASE Make
  BY <1>2, MakeFacts
<1>3. CASE Forget
  BY <1>3, Fresh DEF Forget, Drop
<1>4. CASE XferRequest
  BY <1>0, <1>4 DEF XferRequest, blockio, VType
<1>5. CASE XferIndex
  <2>1. /\ drv.pc = "index" /\ drv'.pc = "slot" /\ UNCHANGED <<dev, asked>>
        /\ mem'.header = mem.header /\ mem'.avail = (drv.head + 1) % IDX
    BY <1>0, <1>5 DEF XferIndex, VType
  <2>2. doubt' = {} => ~Held
    BY <1>5 DEF XferIndex
  <2>3. mem.avail = drv.head
    BY <2>1 DEF VInv, VRing, Published
  <2>4. dev.written > 0 \/ dev.written = 0
    BY <1>0 DEF VType
  <2> QED  BY <1>0, <2>1, <2>2, <2>3, <2>4 DEF Held, Unfetched
<1>6. CASE XferSlot
  BY <1>0, <1>6 DEF XferSlot, blockio, VType, Unfetched, Fetched, Written, Ended, Right
<1>7. CASE XferSample
  BY <1>0, <1>7 DEF XferSample, blockio, VType, Unfetched, Fetched, Written, Ended, Right
<1>8. CASE XferNotify
  BY <1>0, <1>8 DEF XferNotify, blockio, VType, Unfetched, Fetched, Written, Ended, Right
<1>9. CASE XferDone \/ XferTimeout
  BY <1>0, <1>9 DEF XferDone, XferTimeout, VType
<1>10. CASE DeviceFetch
  <2>1. UNCHANGED <<drv, mem, asked>> /\ dev.last # mem.avail
    BY <1>10, Zenon DEF DeviceFetch
  <2>2. CASE drv.pc \in Announced /\ doubt' = {}
    <3>1. mem.ring[dev.last % QSZ] # Stray /\ doubt = {}
      BY <1>10, <2>2 DEF DeviceFetch
    <3>2. Unfetched /\ ~Ended /\ mem.header = asked
      BY <1>0, <2>1, <2>2, <3>1, Zenon DEF Fetched, Written, Ended
    <3>3. CASE mem.ring[dev.last % QSZ] = Junk
      <4>1. dev' = [dev EXCEPT !.broken = TRUE]
        BY <1>10, <3>3 DEF DeviceFetch
      <4>2. dev'.last = dev.last /\ dev'.inflight = dev.inflight /\ dev'.written = dev.written
        BY <1>0, <4>1 DEF VType
      <4>3. Unfetched'
        BY <2>1, <3>2, <4>2, Zenon DEF Unfetched
      <4> QED  BY <1>0, <2>1, <2>2, <3>1, <3>2, <4>3, Zenon
    <3>4. CASE mem.ring[dev.last % QSZ] # Junk
      <4>1. dev' = [dev EXCEPT !.last = (dev.last + 1) % IDX,
                               !.inflight = Append(dev.inflight, mem.header)]
        BY <1>10, <3>1, <3>4 DEF DeviceFetch
      <4>2. Append(dev.inflight, mem.header) = <<asked>>
        BY <3>2 DEF Unfetched
      <4>3. Fetched'
        BY <1>0, <2>1, <3>2, <4>1, <4>2 DEF VType, Unfetched, Fetched
      <4> QED  BY <1>0, <2>1, <2>2, <3>1, <3>2, <4>3, ZenonT(40)
    <3> QED  BY <3>3, <3>4, Zenon
  <2>3. CASE ~(drv.pc \in Announced /\ doubt' = {})
    BY <1>0, <2>1, <2>3
  <2> QED  BY <2>2, <2>3, Zenon
<1>11. CASE DeviceSettle
  BY <1>0, <1>11 DEF DeviceSettle, blockio, VType, Unfetched, Fetched, Written, Ended, Right
<1>12. CASE DeviceWrite
  <2>1. UNCHANGED <<drv, asked, doubt>> /\ dev.inflight # <<>>
    BY <1>12 DEF DeviceWrite, blockio
  <2>2. PICK i \in DOMAIN dev.inflight, ok \in BOOLEAN :
          /\ mem' = IF dev.inflight[i] = Stray THEN mem
                    ELSE [mem EXCEPT !.data = IF ok THEN dev.inflight[i] ELSE Junk,
                                     !.status = IF ok THEN 0 ELSE 1]
          /\ dev' = [dev EXCEPT !.inflight = Without(dev.inflight, i),
                                !.written = dev.written + 1]
    BY <1>12, Zenon DEF DeviceWrite
  <2>3. mem'.header = mem.header /\ mem'.used = mem.used /\ mem'.avail = mem.avail
    BY <1>0, <2>2 DEF VType
  <2>4. CASE drv.pc \in Announced /\ doubt = {}
    <3>1. Fetched /\ ~Ended /\ asked \in Sect
      BY <1>0, <2>1, <2>4 DEF Unfetched, Written, Ended, VType
    <3>2. dev.inflight[i] = asked /\ Without(dev.inflight, i) = <<>> /\ asked # Stray
      BY <3>1, SectFacts DEF Fetched, Without
    <3>3. mem'.status = 0 => mem'.data = asked
      BY <1>0, <2>2, <3>2 DEF VType
    <3>4. dev'.last = dev.last /\ dev'.inflight = <<>> /\ dev'.written = 1
      BY <1>0, <2>2, <3>1, <3>2, SMTT(30) DEF VType, Fetched
    <3>5. Written'
      BY <2>1, <2>3, <3>1, <3>3, <3>4, SMTT(30) DEF Fetched, Written, Right
    <3> QED  BY <1>0, <2>1, <2>3, <2>4, <3>1, <3>5, ZenonT(40)
  <2>5. CASE ~(drv.pc \in Announced /\ doubt = {})
    BY <1>0, <2>1, <2>3, <2>5
  <2> QED  BY <2>4, <2>5, Zenon
<1>13. CASE DeviceComplete
  <2>1. UNCHANGED <<drv, asked, doubt>> /\ dev.written > 0
    BY <1>13 DEF DeviceComplete, blockio
  <2>2. /\ mem'.header = mem.header /\ mem'.avail = mem.avail
        /\ mem'.status = mem.status /\ mem'.data = mem.data
    BY <1>0, <1>13 DEF DeviceComplete, VType
  <2>3. dev'.last = dev.last /\ dev'.inflight = dev.inflight /\ dev'.written = dev.written - 1
    BY <1>0, <1>13 DEF DeviceComplete, VType
  <2>4. CASE drv.pc \in Announced /\ doubt = {}
    <3>1. Written
      BY <1>0, <2>1, <2>4 DEF Unfetched, Fetched, Ended
    <3>2. Ended'
      BY <2>1, <2>2, <2>3, <3>1, SMTT(30) DEF Written, Ended, Right
    <3> QED  BY <1>0, <2>1, <2>2, <2>4, <3>2, ZenonT(40)
  <2>5. CASE ~(drv.pc \in Announced /\ doubt = {})
    BY <1>0, <2>1, <2>2, <2>5, SMTT(30)
  <2> QED  BY <2>4, <2>5, Zenon
<1>14. CASE UNCHANGED <<virtio, blockio>>
  BY <1>0, <1>14 DEF virtio, blockio, Unfetched, Fetched, Written, Ended, Right
<1> QED  BY <1>1, <1>2, <1>3, <1>4, <1>5, <1>6, <1>7, <1>8, <1>9, <1>10, <1>11, <1>12, <1>13, <1>14,
         VParts, ZenonT(40) DEF xfer, Device

\* A step of caller, driver or device keeps VInv.
LEMMA VStep == VInv /\ [VNext]_<<virtio, blockio>> => VInv'
  BY VTypeStep, VRingStep, VCallStep, VOffStep DEF VInv

\* A step of caller, driver or device is one that the promise of read_sector
\* allows.
LEMMA VBlocks ==
  ASSUME VInv, [VNext]_<<virtio, blockio>>
  PROVE  [Blocks!Next]_blockio
<1>0. /\ asked \in Sect \cup {None} /\ buf \in Held512 /\ (asked = None \/ got = "none")
      /\ drv.pc \in {"index"} \cup Announced => asked \in Sect
  BY DEF VInv, VType
<1>1. CASE VirtioCaller
  BY <1>0, <1>1, CallerStep, Zenon DEF VirtioCaller
<1>2. CASE XferIndex
  <2>1. asked # None /\ UNCHANGED <<asked, got, buf>> /\ (UNCHANGED doubt \/ doubt' = doubt \cup {"late"})
    BY <1>0, <1>2, SectFacts, SMTT(30) DEF XferIndex
  <2> QED  BY <1>0, <2>1, Allowed
<1>3. CASE XferDone
  <2>1. /\ asked # None /\ asked' = None /\ UNCHANGED doubt
        /\ drv.pc = "poll" /\ mem.used # drv.done
        /\ buf' = mem.data /\ got' = IF mem.status = 0 THEN "true" ELSE "false"
    BY <1>3 DEF XferDone, Answer
  <2>2. buf' \in Held512
    BY <2>1 DEF VInv, VType
  <2>3. doubt = {} => (mem.status = 0 => mem.data = asked)
    BY <2>1 DEF VInv, VCall, Ended, Right
  <2> QED  BY <2>1, <2>2, <2>3, Allowed
<1>4. CASE XferTimeout
  BY <1>0, <1>4, Allowed DEF XferTimeout, Answer
<1>5. CASE DeviceFetch
  <2>1. CASE mem.ring[dev.last % QSZ] = Stray
    <3>1. drv.pc = "slot"
      BY <1>5, <2>1, StrayInCall DEF DeviceFetch
    <3>2. asked # None /\ UNCHANGED <<asked, got, buf>> /\ doubt' = doubt \cup {"stale"}
      BY <1>0, <1>5, <2>1, <3>1, SectFacts, SMTT(30) DEF DeviceFetch
    <3> QED  BY <1>0, <3>2, Allowed
  <2>2. CASE mem.ring[dev.last % QSZ] # Stray
    BY <1>5, <2>2 DEF DeviceFetch, blockio
  <2> QED  BY <2>1, <2>2, Zenon
<1>6. CASE UNCHANGED blockio
  BY <1>6
<1> QED  BY <1>1, <1>2, <1>3, <1>4, <1>5, <1>6, VParts, ZenonT(40) DEF Make, Forget, Attach, xfer, Device,
         XferRequest, XferSlot, XferSample, XferNotify, DeviceSettle, DeviceWrite, DeviceComplete

\* xfer returns true only with the sector it was asked for in the buffer, in
\* every call for which the device holds no earlier request when avail.idx
\* moves and meets no leftover ring entry, also after calls that timed out:
\* although avail.idx announces the request before its ring entry is written,
\* the used index is sampled before the notification only, and the device works
\* at its own pace (virtio_blk.rs, xfer).
THEOREM VirtioKeepsPromise == VirtioSpec => Blocks!Spec
<1>1. VirtioInit => Blocks!BlockIoInit
  BY DEF VirtioInit, BlockIoInit, Blocks!BlockIoInit, Blocks!None, Blocks!Blank
<1>2. VInv /\ [VNext]_<<virtio, blockio>> => [Blocks!Next]_Blocks!blockio
  BY VBlocks, ZenonT(40) DEF blockio, Blocks!blockio
<1> QED  BY <1>1, <1>2, VStart, VStep, PTL DEF VirtioSpec, Blocks!Spec

-----------------------------------------------------------------------------
(* Ring 3.  RoundTrip is not inductive: what sysretq restores was in rcx and  *)
(* r11 before the stub saved it, so the invariant also says what the          *)
(* registers hold at the stub's first instruction.                            *)

Fields == {"ring", "at", "rip", "rsp", "flags", "cs", "ss", "rax", "rcx", "r11", "r13"}

RInv ==
  /\ DOMAIN cpu = Fields
  /\ cpu.at = "entry" =>
       /\ cpu.rcx = call.rip /\ cpu.r11 = call.flags /\ cpu.rsp = call.rsp
       /\ cpu.ring = 0 /\ "IF" \notin cpu.flags
  /\ RoundTrip

\* Before the first syscall nothing is saved.
LEMMA RInit == Ring3Init => RInv
  BY DEF Ring3Init, RInv, Fields, RoundTrip

\* Each instruction of the syscall path keeps RInv.
LEMMA RStep == RInv /\ [Ring3Next]_ring3 => RInv'
<1> SUFFICES ASSUME RInv, [Ring3Next]_ring3 PROVE RInv'
  OBVIOUS
<1>1. CASE usermode_go
  BY <1>1 DEF usermode_go, RInv, Fields, RoundTrip
<1>2. CASE Syscall
  BY <1>2, Zenon DEF Syscall, RInv, Fields, RoundTrip, sfmask_value
<1>3. CASE lion_syscall_entry
  BY <1>3 DEF lion_syscall_entry, RInv, Fields, RoundTrip
<1>4. CASE syscall_dispatch
  BY <1>4 DEF syscall_dispatch, RInv, Fields, RoundTrip
<1>5. CASE Sysret
  <2>1. stack[1] = call.rip /\ stack[2] = call.flags /\ stack[3] = call.rsp
    BY <1>5 DEF Sysret, RInv, RoundTrip
  <2>2. /\ DOMAIN cpu' = Fields
        /\ cpu'.at = "resume" /\ cpu'.ring = 3
        /\ cpu'.rip = stack[1] /\ cpu'.flags = stack[2] /\ cpu'.rsp = stack[3]
    BY <1>5, Zenon DEF Sysret, RInv, Fields
  <2> QED  BY <1>5, <2>1, <2>2, Zenon DEF Sysret, RInv, RoundTrip
<1>6. CASE Resume
  BY <1>6, Zenon DEF Resume, RInv, Fields, RoundTrip
<1>7. CASE UNCHANGED ring3
  BY <1>7 DEF ring3, RInv, Fields, RoundTrip
<1> QED  BY <1>1, <1>2, <1>3, <1>4, <1>5, <1>6, <1>7, SMTT(30) DEF Ring3Next

\* A call returns to the instruction after it with the caller's stack pointer
\* and flags, and the kernel runs it on the syscall stack with interrupts off,
\* wherever the program, its stack and the syscall stack lie
\* (lion_syscall_entry in cpu.s, syscall_dispatch).
THEOREM CallsReturn == Ring3Spec => []RoundTrip
<1>1. RInv => RoundTrip
  BY Zenon DEF RInv
<1> QED  BY RInit, RStep, <1>1, PTL DEF Ring3Spec

-----------------------------------------------------------------------------
(* The whole bring-up.  Drivers implements BlockDevice: every step of init_all *)
(* and of the devices is a step of one of the two drivers above, or leaves the *)
(* call alone.  What has to be shown is that the FAT32 reader never asks for   *)
(* a sector that is none, which rests on the checks of parse_boot, on the test *)
(* for the end of a chain before each walk, and on what the disk stores.       *)

Disks == Volumes.virtio \cup Volumes.ide

Readable == parse_boot(vol.boot) = "Ok"

\* What parse_boot guarantees about the geometry.
LEMMA ParseFacts ==
  ASSUME NEW b, parse_boot(b) = "Ok"
  PROVE  /\ b.sectors_per_cluster \in PowersOfTwo /\ b.fat_count # 0
         /\ b.reserved_sectors + b.fat_count * b.sectors_per_fat < U32
<1> DEFINE checks == << <<b.signature, "BadSignature">>,
                   <<b.bytes = SECTOR, "UnsupportedSectorSize">>,
                   <<b.sectors_per_cluster \in PowersOfTwo, "BadSectorsPerCluster">>,
                   <<b.reserved_sectors # 0, "BadReserved">>,
                   <<b.fat_count # 0, "BadFatCount">>,
                   <<b.total_sectors # 0, "ZeroTotal">>,
                   <<b.sectors_per_fat # 0, "BadFatsParam">>,
                   <<b.root_cluster >= 2, "NotFat32">>,
                   <<b.fat_count * b.sectors_per_fat < U32, "Overflow">>,
                   <<b.reserved_sectors + b.fat_count * b.sectors_per_fat < U32, "ZeroTotal">> >>
           failing == {i \in DOMAIN checks : ~checks[i][1]}
<1>1. parse_boot(b) = IF failing = {} THEN "Ok" ELSE checks[Min(failing)][2]
  BY Zenon DEF parse_boot
<1>2. DOMAIN checks = 1 .. 10
  OBVIOUS
<1>3. \A i \in 1 .. 10 : checks[i][2] # "Ok"
  <2>1. \A i \in 1 .. 10 : i \in {1, 2, 3, 4, 5, 6, 7, 8, 9, 10}
    OBVIOUS
  <2> QED
    BY <2>1
<1>4. checks[3][1] /\ checks[5][1] /\ checks[10][1]
  <2>1. failing \subseteq 1 .. 10
    BY <1>2, Zenon
  <2> HIDE DEF checks
  <2>2. CASE failing # {}
    <3>1. Min(failing) \in 1 .. 10
      <4>1. failing \subseteq Nat
        BY <2>1
      <4> HIDE DEF failing
      <4> QED
        BY <2>1, <2>2, <4>1, MinOf, Zenon
    <3> QED
      BY <1>1, <1>3, <2>2, <3>1
  <2>3. CASE failing = {}
    BY <1>2, <2>3
  <2> QED
    BY <2>2, <2>3, Zenon
<1> QED
  BY <1>4, Zenon

\* The numbers of a volume are unsigned.
LEMMA VolumeFacts ==
  ASSUME vol \in Disks
  PROVE  /\ vol.boot.reserved_sectors \in Nat /\ vol.boot.fat_count \in Nat
         /\ vol.boot.sectors_per_fat \in Nat /\ vol.boot.sectors_per_cluster \in Nat
         /\ vol.boot.root_cluster \in Nat
  BY DriversAssumption, Zenon DEF Disks

\* A product is at least each of its positive factors.
LEMMA FactorBound ==
  ASSUME NEW a \in Nat \ {0}, NEW b \in Nat
  PROVE  b <= a * b /\ a * b \in Nat
<1>1. a - 1 \in Nat /\ (a - 1) * b \in Nat /\ a * b = (a - 1) * b + b
  OBVIOUS
<1> QED
  BY <1>1

\* The sectors of a cluster that ends no chain are sectors of the data area.
LEMMA SectorFacts ==
  ASSUME vol \in Disks, NEW c \in Nat, ~is_chain_end(c), NEW s \in Nat, SectorOf(c, s) < U32
  PROVE  SectorOf(c, s) \in Sect
<1> DEFINE p == vol.boot.sectors_per_cluster
           f == vol.boot.fat_count * vol.boot.sectors_per_fat
<1>1. p \in Nat /\ f \in Nat /\ vol.boot.reserved_sectors \in Nat
  BY VolumeFacts
<1>2. (c - 2) \in Nat /\ (c - 2) * p \in Nat
  BY <1>1, Fat32Assumption DEF is_chain_end
<1>3. SectorOf(c, s) = vol.boot.reserved_sectors + f + (c - 2) * p + s
  BY Zenon DEF SectorOf, data_start
<1> HIDE DEF p, f
<1> QED
  BY <1>1, <1>2, <1>3, Fat32Assumption DEF Sect

\* The FAT sector of a cluster inside the FAT can be asked for, and the FAT has
\* an entry for it.
LEMMA EntryFacts ==
  ASSUME vol \in Disks, Readable, NEW c \in Nat, InFat(c)
  PROVE  FatSector(c) \in Sect /\ vol.fat[c] \in Nat
<1> DEFINE n == vol.boot.sectors_per_fat
           f == vol.boot.fat_count
           r == vol.boot.reserved_sectors
           q == c \div ENTRIES
<1>1. n \in Nat /\ f \in Nat \ {0} /\ r \in Nat /\ r + f * n < U32
  BY VolumeFacts, ParseFacts DEF Readable
<1>2. q \in Nat /\ q < n /\ ENTRIES \in Nat \ {0} /\ c < ENTRIES * q + ENTRIES
  BY Fat32Assumption DEF InFat
<1>3. n <= f * n /\ f * n \in Nat
  BY <1>1, FactorBound
<1>4. FatSector(c) \in Sect
  <2>1. FatSector(c) = r + q
    BY DEF FatSector
  <2> HIDE DEF n, f, r, q
  <2> QED
    BY <1>1, <1>2, <1>3, <2>1, Fat32Assumption, SMTT(30) DEF Sect
<1>5. c \in 0 .. (ENTRIES * n - 1)
  <2> HIDE DEF n, f, r, q
  <2>1. PICK d \in Nat : n = q + 1 + d
    <3>1. n - q - 1 \in Nat /\ n = q + 1 + (n - q - 1)
      BY <1>1, <1>2
    <3> QED
      BY <3>1
  <2>2. ENTRIES * n = ENTRIES * q + ENTRIES + ENTRIES * d /\ ENTRIES * d \in Nat
    BY <1>2, <2>1
  <2>3. ENTRIES * n \in Nat /\ ENTRIES * q \in Nat
    BY <1>1, <1>2
  <2> QED
    BY <1>2, <2>2, <2>3
<1> QED
  BY <1>4, <1>5, DriversAssumption, Zenon DEF Readable, Disks

-----------------------------------------------------------------------------
(* A sector of a directory *)

DirEntry ==
  [short : Seq(STRING), long : {lfn_reassemble(l) : l \in Seq(DirSlot)},
   is_dir : BOOLEAN, cluster : Nat, size : Nat]

Scan == [end : BOOLEAN, lfn : Seq(DirSlot), out : Seq(DirEntry)]

\* What one slot adds.
LEMMA ScanSlotFacts ==
  ASSUME NEW acc \in Scan, NEW slot \in DirSlot
  PROVE  ScanSlot(acc, slot) \in Scan
<1>1. acc.end \in BOOLEAN /\ acc.lfn \in Seq(DirSlot) /\ acc.out \in Seq(DirEntry)
  BY DEF Scan
<1>2. acc = [end |-> acc.end, lfn |-> acc.lfn, out |-> acc.out]
  BY DEF Scan
<1> DEFINE empty == << >>
<1>8. empty \in Seq(DirSlot)
  OBVIOUS
<1>3. CASE acc.end
  BY <1>3 DEF ScanSlot
<1>4. CASE ~acc.end /\ slot.kind = "end"
  <2>1. ScanSlot(acc, slot) = [acc EXCEPT !.end = TRUE]
    BY <1>4 DEF ScanSlot
  <2> QED
    BY <2>1, Zenon DEF Scan
<1>5. CASE ~acc.end /\ slot.kind = "deleted"
  <2>1. ScanSlot(acc, slot) = [acc EXCEPT !.lfn = empty]
    BY <1>5 DEF ScanSlot
  <2> HIDE DEF empty
  <2> QED
    BY <1>8, <2>1, Zenon DEF Scan
<1>6. CASE ~acc.end /\ slot.kind = "lfn"
  <2> DEFINE l == Append(acc.lfn, slot)
  <2>1. ScanSlot(acc, slot) = [acc EXCEPT !.lfn = l]
    BY <1>6 DEF ScanSlot
  <2>2. l \in Seq(DirSlot)
    BY <1>1
  <2> HIDE DEF l
  <2> QED
    BY <2>1, <2>2, Zenon DEF Scan
<1>7. CASE ~acc.end /\ slot.kind \notin {"end", "deleted", "lfn"}
  <2> DEFINE e == [short |-> slot.short, long |-> lfn_reassemble(acc.lfn),
                   is_dir |-> slot.is_dir, cluster |-> slot.cluster, size |-> slot.size]
  <2> DEFINE es == Append(acc.out, e)
  <2>1. ScanSlot(acc, slot) = [acc EXCEPT !.lfn = empty, !.out = es]
    BY <1>7 DEF ScanSlot
  <2>2. /\ slot.short \in Seq(STRING) /\ slot.is_dir \in BOOLEAN
        /\ slot.cluster \in Nat /\ slot.size \in Nat
    BY <1>7, SMTT(30) DEF DirSlot
  <2>3. e \in DirEntry
    BY <1>1, <2>2 DEF DirEntry
  <2> HIDE DEF e
  <2>4. es \in Seq(DirEntry)
    BY <1>1, <2>3, SMTT(30)
  <2> HIDE DEF es, empty
  <2> QED
    BY <1>8, <2>1, <2>4, Zenon DEF Scan
<1> QED
  BY <1>3, <1>4, <1>5, <1>6, <1>7

ScanStep(s) == [q \in Scan \X (1 .. Len(s)) |-> ScanSlot(q[1], s[q[2]])]

\* ScanSlots is a run of ScanSlot.
LEMMA ScanRun ==
  ASSUME NEW s \in Seq(DirSlot), NEW lfn \in Seq(DirSlot), NEW out \in Seq(DirEntry)
  PROVE  \E r : /\ RunOf(r, ScanStep(s), [end |-> FALSE, lfn |-> lfn, out |-> out], Scan, Len(s))
                /\ ScanSlots(s, lfn, out) = r[Len(s)]
<1> DEFINE n == Len(s)
           T == Scan
           g == ScanStep(s)
           b == [end |-> FALSE, lfn |-> lfn, out |-> out]
           o(a, i) == ScanSlot(a, s[i])
           eq(it) == it = [u \in SUBSET DOMAIN s |->
                             IF u = {} THEN b ELSE o(it[u \ {Max(u)}], Max(u))]
           c == CHOOSE it : eq(it)
<1>1. ScanSlots(s, lfn, out) = c[DOMAIN s]
  BY Zenon DEF ScanSlots, FoldList, MapThenFoldSet
<1>2. n \in Nat /\ DOMAIN s = 1 .. n
  OBVIOUS
<1>b. b \in T
  BY Zenon DEF Scan
<1> HIDE DEF b
<1>3. \A a \in T : \A i \in 1 .. n : g[<<a, i>>] = o(a, i) /\ o(a, i) \in T
  <2> SUFFICES ASSUME NEW a \in T, NEW i \in 1 .. n PROVE g[<<a, i>>] = o(a, i) /\ o(a, i) \in T
    BY Zenon
  <2>1. s[i] \in DirSlot
    OBVIOUS
  <2>2. o(a, i) \in T
    BY <2>1, ScanSlotFacts, Zenon
  <2>3. g[<<a, i>>] = o(a, i)
    BY DEF ScanStep
  <2> QED
    BY <2>2, <2>3
<1>4. FoldStep(g, b, T, n)
  <2>1. g \in [T \X (1 .. n) -> T]
    <3>1. g = [q \in T \X (1 .. n) |-> o(q[1], q[2])]
      BY Zenon DEF ScanStep
    <3>2. \A q \in T \X (1 .. n) : o(q[1], q[2]) \in T
      BY <1>3, Zenon
    <3> HIDE DEF o, g, T, n
    <3> QED
      BY <3>1, <3>2
  <2> HIDE DEF g
  <2> QED
    BY <1>2, <1>b, <2>1, Zenon DEF FoldStep
<1> HIDE DEF g, o
<1>5. \E it : eq(it)
  <2>1. PICK it \in [SUBSET (1 .. n) -> T] : Folds1(it, g, b, n)
    <3> HIDE DEF T, n
    <3> QED
      BY <1>4, FoldExists, Zenon
  <2>2. ASSUME NEW u \in SUBSET (1 .. n)
        PROVE  it[u] = IF u = {} THEN b ELSE o(it[u \ {Max(u)}], Max(u))
    <3>1. CASE u = {}
      BY <2>1, <3>1, Zenon DEF Folds1
    <3>2. CASE u # {}
      <4>1. Max(u) \in 1 .. n /\ u \ {Max(u)} \in SUBSET (1 .. n)
        BY <1>2, <3>2, MaxOf, Zenon
      <4>2. it[u] = g[<<it[u \ {Max(u)}], Max(u)>>] /\ it[u \ {Max(u)}] \in T
        BY <2>1, <3>2, <4>1, Zenon DEF Folds1
      <4> QED
        BY <1>3, <3>2, <4>1, <4>2, Zenon
    <3> QED
      BY <3>1, <3>2, Zenon
  <2>3. eq(it)
    BY <1>2, <2>2, Zenon
  <2> QED
    BY <2>3, Zenon
<1>6. eq(c)
  <2> HIDE DEF eq
  <2> QED
    BY <1>5, Zenon
<1> HIDE DEF c
<1>7. GoesOn(c, g, b, T, n)
  <2>1. c[{}] = b
    BY <1>6, Zenon
  <2>2. ASSUME NEW k \in 1 .. n, c[1 .. (k - 1)] \in T
        PROVE  c[1 .. k] = g[<<c[1 .. (k - 1)], k>>]
    <3>1. /\ 1 .. k \in SUBSET (1 .. n) /\ 1 .. k # {}
          /\ Max(1 .. k) = k /\ (1 .. k) \ {k} = 1 .. (k - 1)
      BY <1>2, PrefixFacts, Zenon
    <3>2. c[1 .. k] = o(c[1 .. (k - 1)], k)
      BY <1>2, <1>6, <3>1, ZenonT(40)
    <3> QED
      BY <1>3, <2>2, <3>2
  <2> QED
    BY <2>1, <2>2 DEF GoesOn
<1>8. PICK r : RunOf(r, g, b, T, n) /\ c[1 .. n] = r[n]
  <2> HIDE DEF T, n
  <2> QED
    BY <1>4, <1>7, FoldRun
<1> QED
  BY <1>1, <1>2, <1>8 DEF g, b

\* A scanned sector leaves pieces of a long name and entries.
LEMMA ScanFacts ==
  ASSUME NEW s \in Seq(DirSlot), NEW lfn \in Seq(DirSlot), NEW out \in Seq(DirEntry)
  PROVE  ScanSlots(s, lfn, out) \in Scan
<1>1. PICK r : /\ RunOf(r, ScanStep(s), [end |-> FALSE, lfn |-> lfn, out |-> out], Scan, Len(s))
               /\ ScanSlots(s, lfn, out) = r[Len(s)]
  BY ScanRun, Zenon
<1>2. Len(s) \in 0 .. Len(s)
  BY SMTT(30)
<1> QED
  BY <1>1, <1>2, Zenon DEF RunOf

-----------------------------------------------------------------------------
(* The calls of the reader *)

CallFields == {"at", "goal", "path", "full", "first", "c", "s", "hops", "need", "size",
               "lfn", "out", "cut", "doubt", "ok"}

\* A record of a call: what is collected has its type, and a walk is at a
\* cluster that ends no chain, on a volume that parse_boot has accepted.
CallOK(f) ==
  /\ DOMAIN f = CallFields
  /\ f.at \in {"none", "boot", "sector", "entry", "returned"}
  /\ f.lfn \in Seq(DirSlot)
  /\ (f.goal = "list" \/ f.path # << >>) => f.out \in Seq(DirEntry)
  /\ f.at \in {"sector", "entry"} => Readable /\ f.c \in Nat /\ ~is_chain_end(f.c) /\ f.s \in Nat

\* g is what f may become: a call that runs or has returned, for the same end.
Follows(f, g) ==
  /\ CallOK(g) /\ g.at \in {"sector", "entry", "returned"}
  /\ f.goal = "list" => g.goal = "list"

\* Ending a call is a step a call may take.
LEMMA ReturnedOK ==
  ASSUME NEW f, CallOK(f), NEW ok
  PROVE  Follows(f, Returned(f, ok))
<1> DEFINE g == Returned(f, ok)
<1> SUFFICES Follows(f, g)
  OBVIOUS
<1>1. /\ DOMAIN g = CallFields /\ g.at = "returned" /\ g.goal = f.goal /\ g.path = f.path
      /\ g.lfn = f.lfn /\ g.out = f.out
  BY Zenon DEF Returned, CallOK, CallFields
<1> HIDE DEF g
<1> QED
  BY <1>1 DEF Follows, CallOK

\* Starting on a cluster chain is a step a call may take.
LEMMA StartWalkOK ==
  ASSUME NEW f, DOMAIN f = CallFields, Readable, NEW c \in Nat, ~is_chain_end(c)
  PROVE  Follows(f, StartWalk(f, c))
<1> DEFINE g == StartWalk(f, c)
           empty == << >>
<1> SUFFICES Follows(f, g)
  OBVIOUS
<1>1. /\ DOMAIN g = CallFields /\ g.at = "sector" /\ g.goal = f.goal /\ g.path = f.path
      /\ g.lfn = empty /\ g.out = empty /\ g.c = c /\ g.s = 0
  BY DEF StartWalk, CallFields
<1>2. empty \in Seq(DirSlot) /\ empty \in Seq(DirEntry)
  OBVIOUS
<1> HIDE DEF g, empty
<1> QED
  BY <1>1, <1>2 DEF Follows, CallOK

\* read_file returns, or starts on the chain of the file.
LEMMA ReadFileOK ==
  ASSUME NEW f, CallOK(f), f.goal # "list", Readable, NEW first \in Nat, NEW size
  PROVE  Follows(f, read_file(f, first, size))
<1> DEFINE empty == << >>
           g == [f EXCEPT !.goal = "file", !.path = << >>, !.first = first, !.out = << >>, !.size = size]
           h == [StartWalk(g, first) EXCEPT !.need = size]
<1>1. /\ DOMAIN g = CallFields /\ g.at = f.at /\ g.goal = "file" /\ g.path = << >>
      /\ g.lfn = f.lfn /\ g.out = empty /\ g.c = f.c /\ g.s = f.s
  BY Zenon DEF CallOK, CallFields
<1>2. CallOK(g)
  <2>1. empty \in Seq(DirEntry)
    OBVIOUS
  <2> HIDE DEF g, empty
  <2> QED
    BY <1>1, <2>1 DEF CallOK
<1>3. CASE is_chain_end(first)
  <2>1. read_file(f, first, size) = Returned(g, FALSE)
    BY <1>3 DEF read_file
  <2> HIDE DEF g
  <2> QED
    BY <1>2, <2>1, ReturnedOK, Zenon DEF Follows
<1>4. CASE ~is_chain_end(first) /\ size = 0
  <2>1. read_file(f, first, size) = Returned(g, TRUE)
    BY <1>4 DEF read_file
  <2> HIDE DEF g
  <2> QED
    BY <1>2, <2>1, ReturnedOK, Zenon DEF Follows
<1>5. CASE ~is_chain_end(first) /\ size # 0
  <2>1. read_file(f, first, size) = h
    BY <1>5, Zenon DEF read_file
  <2>2. Follows(g, StartWalk(g, first))
    <3> HIDE DEF g
    <3> QED
      BY <1>1, <1>5, StartWalkOK
  <2> DEFINE w == StartWalk(g, first)
  <2>3. DOMAIN w = CallFields
    BY <2>2 DEF Follows, CallOK
  <2> HIDE DEF w
  <2>4. /\ DOMAIN h = CallFields /\ h.at = w.at /\ h.goal = w.goal /\ h.path = w.path
        /\ h.lfn = w.lfn /\ h.out = w.out /\ h.c = w.c /\ h.s = w.s
    <3>1. h = [w EXCEPT !.need = size]
      BY DEF w
    <3> QED
      BY <2>3, <3>1 DEF CallFields
  <2> HIDE DEF h
  <2> QED
    BY <2>1, <2>2, <2>4 DEF Follows, CallOK, w
<1> QED
  BY <1>3, <1>4, <1>5

\* list_dir returns, or starts on the chain of the directory.
LEMMA ListDirOK ==
  ASSUME NEW f, CallOK(f), Readable, NEW c \in Nat
  PROVE  Follows(f, list_dir(f, c))
<1> DEFINE empty == << >>
           g == [f EXCEPT !.first = c, !.out = << >>]
<1>1. CASE ~is_chain_end(c)
  BY <1>1, StartWalkOK, Zenon DEF list_dir, CallOK
<1>2. CASE is_chain_end(c)
  <2>1. list_dir(f, c) = Returned(g, TRUE)
    BY <1>2 DEF list_dir
  <2>2. /\ DOMAIN g = CallFields /\ g.at = f.at /\ g.goal = f.goal /\ g.path = f.path
        /\ g.lfn = f.lfn /\ g.out = empty /\ g.c = f.c /\ g.s = f.s
    BY DEF CallOK, CallFields
  <2>3. CallOK(g)
    <3>1. empty \in Seq(DirEntry)
      OBVIOUS
    <3> HIDE DEF g, empty
    <3> QED
      BY <2>2, <3>1 DEF CallOK
  <2> HIDE DEF g
  <2> QED
    BY <2>1, <2>2, <2>3, ReturnedOK, Zenon DEF Follows
<1> QED
  BY <1>1, <1>2

\* The position of an entry in a listing is one of its places.
LEMMA FoundFacts ==
  ASSUME NEW E, NEW s \in Seq(E), NEW S, S \subseteq 1 .. Len(s),
         NEW i, i = IF S = {} THEN 0 ELSE Min(S), i # 0
  PROVE  i \in 1 .. Len(s) /\ i \in S /\ s[i] \in E /\ \A j \in S : i <= j
<1>1. S \subseteq Nat /\ S # {}
  OBVIOUS
<1>2. i \in S /\ \A j \in S : i <= j
  BY <1>1, MinOf, Zenon
<1>3. i \in 1 .. Len(s)
  BY <1>2
<1> QED
  BY <1>2, <1>3

\* One component of a path: the call goes down a directory or ends.
LEMMA ResolveStepOK ==
  ASSUME NEW f, CallOK(f), Readable, f.path # << >>
  PROVE  Follows(f, ResolveStep(f))
<1> DEFINE S == {j \in 1 .. Len(f.out) : entry_matches(f.out[j], Head(f.path))}
           i == IF S = {} THEN 0 ELSE Min(S)
           e == f.out[i]
           p == Tail(f.path)
           rest == [f EXCEPT !.path = p]
<1>1. f.out \in Seq(DirEntry)
  BY DEF CallOK
<1>2. i # 0 => e.cluster \in Nat
  <2>1. S \subseteq 1 .. Len(f.out)
    BY Zenon
  <2> HIDE DEF S
  <2>2. ASSUME i # 0 PROVE i \in 1 .. Len(f.out) /\ f.out[i] \in DirEntry
    BY <1>1, <2>1, <2>2, FoundFacts, Zenon
  <2> HIDE DEF i
  <2> QED
    BY <2>2, Zenon DEF DirEntry
<1>3. ResolveStep(f) =
        IF i = 0 THEN Returned(f, FALSE)
        ELSE IF rest.path # << >>
          THEN IF ~e.is_dir \/ is_chain_end(e.cluster) THEN Returned(rest, FALSE)
               ELSE StartWalk(rest, e.cluster)
          ELSE IF f.goal = "list" THEN list_dir(rest, e.cluster)
               ELSE IF e.is_dir THEN Returned(rest, FALSE) ELSE read_file(rest, e.cluster, e.size)
  <2>1. Position(f.out, LAMBDA x : entry_matches(x, Head(f.path))) = i
    BY DEF Position
  <2> HIDE DEF i
  <2> QED
    BY <2>1, Zenon DEF ResolveStep
<1>4. /\ DOMAIN rest = CallFields /\ rest.at = f.at /\ rest.goal = f.goal /\ rest.path = p
      /\ rest.lfn = f.lfn /\ rest.out = f.out /\ rest.c = f.c /\ rest.s = f.s
  <2>1. DOMAIN f = CallFields
    BY Zenon DEF CallOK
  <2> HIDE DEF p
  <2> QED
    BY <2>1 DEF CallFields
<1> HIDE DEF i, e, p, rest, S
<1>5. CallOK(rest)
  BY <1>1, <1>4, Zenon DEF CallOK
<1>6. ASSUME NEW g, Follows(rest, g) PROVE Follows(f, g)
  BY <1>4, <1>6, Zenon DEF Follows
<1>7. CASE i = 0
  BY <1>3, <1>7, ReturnedOK, Zenon
<1>8. Follows(rest, Returned(rest, FALSE))
  BY <1>5, ReturnedOK, Zenon
<1>9. CASE i # 0 /\ rest.path # << >>
  <2>1. CASE ~e.is_dir \/ is_chain_end(e.cluster)
    BY <1>3, <1>6, <1>8, <1>9, <2>1, ZenonT(40)
  <2>2. CASE ~(~e.is_dir \/ is_chain_end(e.cluster))
    <3>1. Follows(rest, StartWalk(rest, e.cluster))
      BY <1>2, <1>4, <1>9, <2>2, StartWalkOK, Zenon
    <3> QED
      BY <1>3, <1>6, <1>9, <2>2, <3>1, SMTT(30)
  <2> QED
    BY <2>1, <2>2
<1>10. CASE i # 0 /\ rest.path = << >> /\ f.goal = "list"
  <2>1. Follows(rest, list_dir(rest, e.cluster))
    BY <1>2, <1>5, <1>10, ListDirOK, Zenon
  <2> QED
    BY <1>3, <1>6, <1>10, <2>1, Zenon
<1>11. CASE i # 0 /\ rest.path = << >> /\ f.goal # "list"
  <2>1. Follows(rest, read_file(rest, e.cluster, e.size))
    BY <1>2, <1>4, <1>5, <1>11, ReadFileOK
  <2> QED
    BY <1>3, <1>6, <1>8, <1>11, <2>1, ZenonT(40)
<1> QED
  BY <1>7, <1>9, <1>10, <1>11, Zenon

\* A listing that is complete is returned, or is searched for the next component.
LEMMA ListedOK ==
  ASSUME NEW f, CallOK(f), Readable, NEW ok
  PROVE  Follows(f, Listed(f, ok))
<1>1. CASE f.path = << >>
  BY <1>1, ReturnedOK, Zenon DEF Listed
<1>2. CASE f.path # << >>
  BY <1>2, ResolveStepOK DEF Listed
<1> QED
  BY <1>1, <1>2, Zenon

\* A call that begins is one that reads, lists or resolves.
LEMMA BeginOK ==
  ASSUME vol \in Disks, Readable, NEW f, CallOK(f)
  PROVE  Follows(f, Begin(f))
<1>1. vol.boot.root_cluster \in Nat
  BY VolumeFacts, Zenon
<1>2. CASE is_chain_end(vol.boot.root_cluster)
  BY <1>2, ListedOK, Zenon DEF Begin
<1>3. CASE ~is_chain_end(vol.boot.root_cluster)
  BY <1>1, <1>3, StartWalkOK, SMTT(30) DEF Begin, CallOK
<1> QED
  BY <1>2, <1>3, Zenon

\* The walk goes on in the cluster it is in, or asks for the next one.
LEMMA NextSectorOK ==
  ASSUME NEW f, CallOK(f), f.at = "sector"
  PROVE  Follows(f, NextSector(f)) /\ NextSector(f).c = f.c
<1> DEFINE g == NextSector(f)
<1> SUFFICES Follows(f, g) /\ g.c = f.c
  BY Zenon
<1>1. DOMAIN f = CallFields /\ f.s \in Nat /\ f.c \in Nat /\ ~is_chain_end(f.c) /\ Readable
  BY DEF CallOK
<1>2. /\ DOMAIN g = CallFields /\ g.at \in {"sector", "entry"} /\ g.goal = f.goal /\ g.path = f.path
      /\ g.lfn = f.lfn /\ g.out = f.out /\ g.c = f.c /\ g.s \in {f.s, f.s + 1}
  BY <1>1, Zenon DEF NextSector, CallFields
<1> HIDE DEF g
<1> QED
  BY <1>1, <1>2 DEF Follows, CallOK

\* The reader between two of its steps: while it waits for a FAT sector, the FAT
\* has an entry for the cluster.
FsInv ==
  /\ vol \in Disks
  /\ CallOK(fs)
  /\ fs.at = "entry" /\ (asked # None \/ got # "none") => InFat(fs.c)
  /\ fs.at = "returned" => asked = None /\ got = "none"
  /\ asked = None \/ got = "none"

\* A step of a call leaves a call.
LEMMA CallStep ==
  ASSUME FsInv, vol' = vol, NEW g, g = fs', Follows(fs, g),
         asked' = None, got' = "none"
  PROVE  FsInv'
<1>1. vol' \in Disks
  BY DEF FsInv
<1>2. CallOK(g)
  BY Zenon DEF Follows
<1>3. CallOK(fs)'
  BY <1>2, Zenon DEF CallOK, Readable
<1> QED
  BY <1>1, <1>3, Zenon DEF FsInv

\* A call that stops because the heap is full stays as it is.
LEMMA CallStops ==
  ASSUME FsInv, vol' = vol, fs' = fs, fs.at = "sector", asked' = None, got' = "none"
  PROVE  FsInv'
<1>1. vol' \in Disks /\ CallOK(fs)'
  BY Zenon DEF FsInv, CallOK, Readable
<1> QED
  BY <1>1, Zenon DEF FsInv

\* Whether its sectors are in doubt is no matter for a call.
LEMMA UsedOK ==
  ASSUME NEW f, CallOK(f)
  PROVE  /\ CallOK(Used(f)) /\ Used(f).at = f.at /\ Used(f).goal = f.goal /\ Used(f).path = f.path
         /\ \A g : Follows(Used(f), g) => Follows(f, g)
<1> DEFINE d == (f.doubt \/ doubt # {})
           g == [f EXCEPT !.doubt = d]
<1>1. Used(f) = g /\ DOMAIN f = CallFields
  BY Zenon DEF Used, CallOK
<1> HIDE DEF d
<1>2. /\ DOMAIN g = CallFields /\ g.at = f.at /\ g.goal = f.goal /\ g.path = f.path
      /\ g.lfn = f.lfn /\ g.out = f.out /\ g.c = f.c /\ g.s = f.s
  BY <1>1, Zenon DEF CallFields
<1> HIDE DEF g
<1>3. CallOK(g)
  BY <1>2, Zenon DEF CallOK
<1> QED
  BY <1>1, <1>2, <1>3, Zenon DEF Follows

\* What a step of the reader does to the call of read_sector.
FsAsks == (\E lba \in Sect : Ask(lba)) \/ Consume \/ UNCHANGED blockio

\* Asking for a sector of a cluster changes no call and no volume.
LEMMA SectorAskOK ==
  ASSUME FsInv, SectorAsk
  PROVE  FsInv' /\ FsAsks /\ UNCHANGED <<vol, fs>>
<1> DEFINE x == SectorOf(fs.c, fs.s)
<1>1. fs.at = "sector" /\ fs.c \in Nat /\ ~is_chain_end(fs.c) /\ fs.s \in Nat /\ vol \in Disks
  BY Zenon DEF SectorAsk, FsInv, CallOK
<1>2. CASE x < U32
  <2>1. x \in Sect
    BY <1>1, <1>2, SectorFacts, Zenon
  <2>2. Ask(x) /\ UNCHANGED fat
    BY <1>2 DEF SectorAsk
  <2>3. FsAsks
    BY <2>1, <2>2 DEF FsAsks
  <2>4. asked' # None => got' = "none"
    BY <2>2, Zenon DEF Ask
  <2> QED
    BY <1>1, <2>2, <2>3, <2>4, Zenon DEF FsInv, CallOK, Readable, fat, Ask
<1>3. CASE ~(x < U32)
  <2>1. UNCHANGED <<vol, fs, blockio>>
    BY <1>3, Zenon DEF SectorAsk
  <2> QED
    BY <1>1, <2>1, Zenon DEF FsInv, CallOK, Readable, FsAsks, blockio
<1> QED
  BY <1>2, <1>3, Zenon

\* A sector of a directory is scanned and the walk goes on, ends or panics.
LEMMA DirSectorOK ==
  ASSUME FsInv, DirSector
  PROVE  FsInv' /\ FsAsks /\ (Follows(fs, fs') \/ fs' = fs)
<1>1. fs.at = "sector" /\ Listing /\ Consume /\ vol' = vol /\ CallOK(fs) /\ Readable /\ vol \in Disks
  BY Zenon DEF DirSector, FsInv, CallOK
<1>2. fs.lfn \in Seq(DirSlot) /\ fs.out \in Seq(DirEntry) /\ DOMAIN fs = CallFields
  BY <1>1 DEF CallOK, Listing
<1>3. PICK g : g = fs'
  BY Zenon
<1>4. asked' = None /\ got' = "none"
  BY <1>1, Zenon DEF Consume, FsInv
<1>5. CASE got = "false" /\ fs' = Listed(fs, FALSE)
  <2>1. Follows(fs, g)
    BY <1>1, <1>3, <1>5, ListedOK, Zenon
  <2> QED
    BY <1>1, <1>3, <1>4, <2>1, CallStep, ZenonT(40) DEF FsAsks
<1>6. CASE fs' = fs
  BY <1>1, <1>4, <1>6, CallStops, Zenon DEF FsAsks
<1>7. CASE \E slots \in SlotsAt(buf) :
             LET scan == ScanSlots(slots, fs.lfn, fs.out)
                 f == Used([fs EXCEPT !.lfn = scan.lfn, !.out = scan.out])
             IN  fs' = IF scan.end THEN Listed(f, TRUE) ELSE NextSector(f)
  <2>1. PICK slots \in SlotsAt(buf) :
          LET scan == ScanSlots(slots, fs.lfn, fs.out)
              f == Used([fs EXCEPT !.lfn = scan.lfn, !.out = scan.out])
          IN  fs' = IF scan.end THEN Listed(f, TRUE) ELSE NextSector(f)
    BY <1>7, Zenon
  <2> DEFINE scan == ScanSlots(slots, fs.lfn, fs.out)
             l == scan.lfn
             o == scan.out
             e == [fs EXCEPT !.lfn = l, !.out = o]
             f == Used(e)
  <2>2. slots \in Seq(DirSlot)
    <3>1. << >> \in Seq(DirSlot)
      OBVIOUS
    <3>2. <<[kind |-> "end"]>> \in Seq(DirSlot)
      <4>1. [kind |-> "end"] \in DirSlot
        BY DEF DirSlot
      <4> QED
        BY <4>1
    <3>3. buf \in DOMAIN vol.dirs => vol.dirs[buf] \in Seq(DirSlot)
      BY <1>1, DriversAssumption DEF Disks
    <3> QED
      BY <3>1, <3>2, <3>3, Zenon DEF SlotsAt
  <2>3. l \in Seq(DirSlot) /\ o \in Seq(DirEntry)
    <3>1. scan \in Scan
      BY <1>2, <2>2, ScanFacts
    <3> HIDE DEF scan
    <3> QED
      BY <3>1, Zenon DEF Scan
  <2>4. g = IF scan.end THEN Listed(f, TRUE) ELSE NextSector(f)
    BY <1>3, <2>1, Zenon
  <2> HIDE DEF scan, l, o
  <2>5. /\ DOMAIN e = CallFields /\ e.at = fs.at /\ e.goal = fs.goal /\ e.path = fs.path
        /\ e.lfn = l /\ e.out = o /\ e.c = fs.c /\ e.s = fs.s
    BY <1>2, Zenon DEF CallFields
  <2> HIDE DEF e
  <2>6. CallOK(e)
    BY <1>1, <2>3, <2>5, Zenon DEF CallOK
  <2>7. CallOK(f) /\ f.at = e.at /\ (Follows(f, g) => Follows(e, g))
    BY <2>6, UsedOK, Zenon
  <2> HIDE DEF f
  <2>8. Follows(f, g)
    BY <1>1, <2>4, <2>5, <2>7, ListedOK, NextSectorOK, Zenon
  <2>9. Follows(fs, g)
    BY <2>5, <2>7, <2>8, Zenon DEF Follows
  <2> QED
    BY <1>1, <1>3, <1>4, <2>9, CallStep, Zenon DEF FsAsks
<1> QED
  BY <1>5, <1>6, <1>7, Zenon DEF DirSector, Grow

\* A sector of a file is copied and the walk goes on, ends or panics.
LEMMA FileSectorOK ==
  ASSUME FsInv, FileSector
  PROVE  FsInv' /\ FsAsks /\ (Follows(fs, fs') \/ fs' = fs)
<1>1. fs.at = "sector" /\ ~Listing /\ Consume /\ vol' = vol /\ CallOK(fs) /\ Readable
  BY Zenon DEF FileSector, FsInv, CallOK
<1>2. DOMAIN fs = CallFields /\ fs.goal # "list" /\ fs.path = << >>
  BY <1>1, Zenon DEF CallOK, Listing
<1>3. PICK g : g = fs'
  OBVIOUS
<1>4. asked' = None /\ got' = "none"
  BY <1>1, Zenon DEF Consume, FsInv
<1>5. CASE got = "false" /\ fs' = Returned(fs, FALSE)
  <2>1. Follows(fs, g)
    BY <1>1, <1>3, <1>5, ReturnedOK, Zenon
  <2> QED
    BY <1>1, <1>3, <1>4, <2>1, CallStep, Zenon DEF FsAsks
<1>6. CASE fs' = fs
  BY <1>1, <1>4, <1>6, CallStops, ZenonT(40) DEF FsAsks
<1> DEFINE take == Min({fs.need, SECTOR})
<1>7. CASE fs' = Taken(fs, BytesAt(buf), take)
  <2> DEFINE n == fs.need - take
             o == fs.out \o SubSeq(BytesAt(buf), 1, take)
             e == [fs EXCEPT !.need = n, !.out = o]
             u == Used(e)
             f == NextSector(u)
  <2>1. g = IF f.need = 0 /\ f.at = "sector" THEN Returned(f, TRUE) ELSE f
    BY <1>3, <1>7, Zenon DEF Taken
  <2> HIDE DEF n, o
  <2>2. /\ DOMAIN e = CallFields /\ e.at = fs.at /\ e.goal = fs.goal /\ e.path = fs.path
        /\ e.lfn = fs.lfn /\ e.c = fs.c /\ e.s = fs.s
    BY <1>2, SMTT(30) DEF CallFields
  <2> HIDE DEF e
  <2>3. CallOK(e)
    BY <1>1, <1>2, <2>2 DEF CallOK
  <2>4. CallOK(u) /\ u.at = e.at
    BY <2>3, UsedOK, Zenon
  <2> HIDE DEF u
  <2>5. Follows(u, f)
    BY <1>1, <2>2, <2>4, NextSectorOK, Zenon
  <2> HIDE DEF f
  <2>6. CallOK(g) /\ g.at \in {"sector", "entry", "returned"}
    <3>1. Follows(f, Returned(f, TRUE))
      BY <2>5, ReturnedOK, Zenon DEF Follows
    <3> QED
      BY <2>1, <2>5, <3>1, Zenon DEF Follows
  <2>7. Follows(fs, g)
    BY <1>2, <2>6, Zenon DEF Follows
  <2> QED
    BY <1>1, <1>3, <1>4, <2>7, CallStep, Zenon DEF FsAsks
<1> QED
  BY <1>5, <1>6, <1>7, Zenon DEF FileSector, Grow

\* The walk goes on only at a cluster that ends no chain.
LEMMA NextClusterOK ==
  ASSUME NEW f, CallOK(f), f.at = "entry", NEW next \in Nat \cup {None}, NextCluster(f, next)
  PROVE  Follows(f, fs')
<1> DEFINE more == next # None /\ ~is_chain_end(next) /\ f.hops + 1 < WALK
           h == f.hops + 1
           on == [f EXCEPT !.at = "sector", !.c = next, !.s = 0, !.hops = h]
           b == (next = None \/ ~is_chain_end(next))
           cut == [f EXCEPT !.cut = b]
<1>1. PICK g : g = fs'
  OBVIOUS
<1> SUFFICES Follows(f, g)
  BY <1>1, SMTT(30)
<1>2. CallOK(f) /\ Readable /\ DOMAIN f = CallFields
  BY DEF CallOK
<1>3. \/ more /\ g = on
      \/ Listing /\ g = Listed(cut, TRUE)
      \/ \E ok : g = Returned(f, ok)
  <2> HIDE DEF more
  <2>1. g = CASE Listing /\ more -> on
              [] Listing /\ ~more -> Listed(cut, TRUE)
              [] ~Listing /\ more /\ f.need > 0 -> on
              [] OTHER -> Returned(f, f.need = 0)
    BY <1>1 DEF NextCluster, more
  <2> HIDE DEF on, cut
  <2>2. CASE Listing /\ more
    BY <2>1, <2>2
  <2>3. CASE Listing /\ ~more
    BY <2>1, <2>3
  <2>4. CASE ~Listing /\ more /\ f.need > 0
    BY <2>1, <2>4, Zenon
  <2>5. CASE ~(Listing /\ more) /\ ~(Listing /\ ~more) /\ ~(~Listing /\ more /\ f.need > 0)
    <3>1. g = Returned(f, f.need = 0)
      BY <2>1, <2>5, ZenonT(40)
    <3> QED
      BY <3>1, Zenon
  <2> QED
    BY <2>2, <2>3, <2>4, <2>5, ZenonT(40)
<1>4. CASE more /\ g = on
  <2>1. next \in Nat /\ ~is_chain_end(next)
    BY <1>4
  <2> HIDE DEF h
  <2>2. /\ DOMAIN on = CallFields /\ on.at = "sector" /\ on.goal = f.goal /\ on.path = f.path
        /\ on.lfn = f.lfn /\ on.out = f.out /\ on.c = next /\ on.s = 0
    BY <1>2, Zenon DEF CallFields
  <2> HIDE DEF on
  <2> QED
    BY <1>2, <1>4, <2>1, <2>2, SMTT(30) DEF Follows, CallOK
<1>5. CASE Listing /\ g = Listed(cut, TRUE)
  <2> HIDE DEF b
  <2>1. /\ DOMAIN cut = CallFields /\ cut.at = f.at /\ cut.goal = f.goal /\ cut.path = f.path
        /\ cut.lfn = f.lfn /\ cut.out = f.out /\ cut.c = f.c /\ cut.s = f.s
    BY <1>2, Zenon DEF CallFields
  <2> HIDE DEF cut
  <2>2. CallOK(cut)
    BY <1>2, <2>1, Zenon DEF CallOK
  <2>3. Follows(cut, g)
    BY <1>2, <1>5, <2>2, ListedOK, Zenon
  <2> QED
    BY <2>1, <2>3 DEF Follows
<1>6. CASE \E ok : g = Returned(f, ok)
  BY <1>2, <1>6, ReturnedOK, Zenon
<1> QED
  BY <1>3, <1>4, <1>5, <1>6, Zenon

\* A walk is not at its cluster's FAT entry right after it.
LEMMA NextClusterMoves ==
  ASSUME FsInv, fs.at = "entry", NEW next \in Nat \cup {None}, vol' = vol,
         NextCluster(fs, next) \/ NextCluster(Used(fs), next),
         asked' = None, got' = "none"
  PROVE  FsInv' /\ Follows(fs, fs')
<1>1. PICK g : g = fs'
  BY Zenon
<1>2. CallOK(fs)
  BY Zenon DEF FsInv
<1>3. ASSUME NextCluster(fs, next) PROVE Follows(fs, g)
  BY <1>1, <1>2, <1>3, NextClusterOK, Zenon
<1>4. ASSUME NextCluster(Used(fs), next) PROVE Follows(fs, g)
  <2>1. CallOK(Used(fs)) /\ Used(fs).at = "entry"
    BY <1>2, UsedOK, Zenon
  <2>2. Follows(Used(fs), g)
    BY <1>1, <1>4, <2>1, NextClusterOK, Zenon
  <2> QED
    BY <1>2, <2>2, UsedOK, Zenon
<1>5. Follows(fs, g)
  BY <1>1, <1>3, <1>4, Zenon
<1> QED
  BY <1>1, <1>5, CallStep

\* The FAT entry of a cluster: asked for, out of range, or followed.
LEMMA EntryOK ==
  ASSUME FsInv, EntryAsk \/ EntryOutside \/ EntryGot
  PROVE  FsInv' /\ FsAsks /\ (Follows(fs, fs') \/ fs' = fs) /\ vol' = vol
<1>0. fs.at = "entry" /\ CallOK(fs) /\ Readable /\ fs.c \in Nat /\ vol \in Disks
  BY Zenon DEF EntryAsk, EntryOutside, EntryGot, FsInv, CallOK
<1>1. CASE EntryAsk
  <2>1. InFat(fs.c) /\ Ask(FatSector(fs.c)) /\ UNCHANGED <<vol, fs>>
    BY <1>1, Zenon DEF EntryAsk, fat
  <2>2. FatSector(fs.c) \in Sect
    BY <1>0, <2>1, EntryFacts, Zenon
  <2>3. FsAsks
    BY <2>1, <2>2, Zenon DEF FsAsks
  <2>4. got' = "none"
    BY <2>1, Zenon DEF Ask
  <2>5. InFat(fs.c)'
    BY <2>1, Zenon DEF InFat
  <2>6. CallOK(fs)'
    BY <1>0, <2>1, Zenon DEF CallOK, Readable
  <2> QED
    BY <1>0, <2>1, <2>3, <2>4, <2>5, <2>6, Zenon DEF FsInv
<1>2. CASE EntryOutside
  <2>1. ~InFat(fs.c) /\ NextCluster(fs, None) /\ UNCHANGED <<vol, blockio>>
    BY <1>2, Zenon DEF EntryOutside
  <2>2. asked' = None /\ got' = "none"
    BY <1>0, <2>1, Zenon DEF FsInv, blockio
  <2>3. FsInv' /\ Follows(fs, fs')
    BY <1>0, <2>1, <2>2, NextClusterMoves, Zenon
  <2> QED
    BY <2>1, <2>3, Zenon DEF FsAsks
<1>3. CASE EntryGot
  <2>1. Consume /\ vol' = vol /\ got # "none"
    BY <1>3, Zenon DEF EntryGot, Consume
  <2>2. asked' = None /\ got' = "none" /\ InFat(fs.c)
    BY <1>0, <2>1 DEF FsInv, Consume
  <2>3. PICK next \in Nat \cup {None} : NextCluster(fs, next) \/ NextCluster(Used(fs), next)
    <3>1. CASE NextCluster(fs, None)
      BY <3>1
    <3>2. CASE \E next \in FatEntries(buf, fs.c) : NextCluster(Used(fs), next)
      <4>1. PICK next \in FatEntries(buf, fs.c) : NextCluster(Used(fs), next)
        BY <3>2, Zenon
      <4>2. vol.fat[fs.c] \in Nat
        BY <1>0, <2>2, EntryFacts, ZenonT(40)
      <4>3. next \in Nat
        BY <4>1, <4>2, Fat32Assumption DEF FatEntries
      <4> QED
        BY <4>1, <4>3, Zenon
    <3> QED
      BY <1>3, <3>1, <3>2, Zenon DEF EntryGot
  <2>4. FsInv' /\ Follows(fs, fs')
    BY <1>0, <2>1, <2>2, <2>3, NextClusterMoves, ZenonT(40)
  <2> QED
    BY <2>1, <2>4, Zenon DEF FsAsks
<1> QED
  BY <1>1, <1>2, <1>3, Zenon

-----------------------------------------------------------------------------
(* The script of init_all *)

BootFields == {"stage", "step", "tries", "entries", "cp", "common", "disks", "files", "reports"}

\* The steps after a mount that succeeded.
Reading == {"ls", "read_path", "ls_path", "read_sub", "read"}

\* The steps after a mount that failed.
Diagnosing == {"diagnose", "diagnosed", "over"}

Scripted ==
  /\ DOMAIN boot = BootFields
  /\ boot.entries \in Seq(DirEntry)
  /\ boot.step \in Reading => Readable
  /\ boot.step = "mount" => /\ fs.at \in {"boot", "returned"}
                            /\ fs.at = "returned" /\ fs.ok => Readable
  /\ fs.at = "boot" => boot.stage \in {"virtio", "ide"} /\ boot.step = "mount"
  /\ boot.step \in {"ls", "ls_path"} => fs.goal = "list"
  /\ boot.step \in Diagnosing => boot.stage = "virtio" /\ fs.at = "none"

\* The steps before the queue of a virtio device is set up.
Setup == {"probe", "caps", "negotiate", "queue"}

\* A driver is there only in its own stage.
Attached ==
  /\ VInv
  /\ Off \/ (boot.stage = "virtio" /\ boot.step \notin Setup)
  /\ Detached \/ (AInv /\ boot.stage = "ide" /\ boot.step # "probe")

DInv == FsInv /\ Scripted /\ Attached

\* mount reads one sector, and a volume it accepts can be read.
LEMMA MountOK ==
  ASSUME FsInv, Scripted, MountAsk \/ MountGot
  PROVE  /\ FsInv' /\ FsAsks /\ fs.at = "boot" /\ vol' = vol
         /\ fs' = fs \/ (CallOK(fs)' /\ fs'.at = "returned" /\ (fs'.ok => Readable))
<1>0. fs.at = "boot" /\ CallOK(fs)
  BY DEF MountAsk, MountGot, FsInv
<1>1. CASE MountAsk
  <2>1. Ask(0) /\ UNCHANGED <<vol, fs>>
    BY <1>1, Zenon DEF MountAsk, fat
  <2>2. FsAsks
    BY <2>1, SectFacts, Zenon DEF FsAsks
  <2>3. got' = "none"
    BY <2>1, Zenon DEF Ask
  <2> QED
    BY <1>0, <2>1, <2>2, <2>3, ZenonT(40) DEF FsInv, CallOK, Readable
<1>2. CASE MountGot
  <2> DEFINE verdict == IF got = "true" /\ buf = 0 THEN parse_boot(vol.boot) ELSE "BadSignature"
             ok == (verdict = "Ok")
  <2>1. Consume /\ vol' = vol /\ fs' = Returned(fs, ok)
    BY <1>2 DEF MountGot
  <2>2. PICK g : g = fs'
    BY Zenon
  <2>3. Follows(fs, g)
    BY <1>0, <2>1, <2>2, ReturnedOK, Zenon
  <2>4. asked' = None /\ got' = "none"
    BY <2>1, Zenon DEF Consume, FsInv
  <2>5. FsInv'
    BY <2>1, <2>2, <2>3, <2>4, CallStep, SMTT(30)
  <2>6. g.at = "returned" /\ g.ok = ok
    <3>1. DOMAIN fs = CallFields
      BY <1>0, Zenon DEF CallOK
    <3> HIDE DEF ok
    <3> QED
      BY <2>1, <2>2, <3>1, Zenon DEF Returned, CallFields
  <2>7. ok => Readable
    BY DEF Readable
  <2>8. g.ok => Readable
    <3> HIDE DEF ok
    <3> QED
      BY <2>6, <2>7, Zenon
  <2> QED
    BY <1>0, <2>1, <2>2, <2>5, <2>6, <2>8, ZenonT(40) DEF FsAsks, FsInv
<1> QED
  BY <1>1, <1>2, ZenonT(40)

\* A step of the reader keeps its invariant and that of the script.
LEMMA FsKeeps ==
  ASSUME FsInv, Scripted, Fs, boot' = boot
  PROVE  FsInv' /\ Scripted' /\ FsAsks
<1>1. CASE MountAsk \/ MountGot
  <2>1. FsInv' /\ FsAsks /\ fs.at = "boot" /\ vol' = vol
    BY <1>1, MountOK, Zenon
  <2>2. CASE fs' = fs
    BY <2>1, <2>2, Zenon DEF Scripted, Readable
  <2>3. CASE CallOK(fs)' /\ fs'.at = "returned" /\ (fs'.ok => Readable)
    <3>1. boot.step = "mount"
      BY <2>1, Zenon DEF Scripted
    <3>2. fs'.ok => Readable'
      BY <2>1, <2>3, Zenon DEF Readable
    <3> QED
      BY <2>1, <2>3, <3>1, <3>2, Zenon DEF Scripted, Reading
  <2> QED
    BY <1>1, <2>1, <2>2, <2>3, MountOK, Zenon
<1>2. CASE ~(MountAsk \/ MountGot)
  <2>1. /\ FsInv' /\ FsAsks /\ vol' = vol /\ fs.at \in {"sector", "entry"}
        /\ Follows(fs, fs') \/ fs' = fs
    <3>1. CASE SectorAsk
      <4>1. fs.at = "sector"
        BY <3>1 DEF SectorAsk
      <4> QED
        BY <3>1, <4>1, SectorAskOK, ZenonT(40)
    <3>2. CASE DirSector
      <4>1. fs.at = "sector" /\ vol' = vol
        BY <3>2, ZenonT(40) DEF DirSector
      <4> QED
        BY <3>2, <4>1, DirSectorOK
    <3>3. CASE FileSector
      <4>1. fs.at = "sector" /\ vol' = vol
        BY <3>3, Zenon DEF FileSector
      <4> QED
        BY <3>3, <4>1, FileSectorOK
    <3>4. CASE EntryAsk \/ EntryOutside \/ EntryGot
      <4>1. fs.at = "entry"
        BY <3>4, Zenon DEF EntryAsk, EntryOutside, EntryGot
      <4> QED
        BY <3>4, <4>1, EntryOK, Zenon
    <3> QED
      BY <1>2, <3>1, <3>2, <3>3, <3>4, ZenonT(40) DEF Fs
  <2>2. /\ fs'.at # "boot" /\ (fs.goal = "list" => fs'.goal = "list")
    BY <2>1, Zenon DEF Follows
  <2>3. boot.step # "mount"
    BY <2>1 DEF Scripted
  <2> QED
    BY <2>1, <2>2, <2>3, Zenon DEF Scripted, Readable
<1> QED
  BY <1>1, <1>2, Zenon

\* A call that is made starts from nothing.
LEMMA NoCallOK ==
  ASSUME NEW goal, NEW p
  PROVE  /\ CallOK(NoCall) /\ NoCall.at = "none" /\ NoCall.goal # "list"
         /\ CallOK([NoCall EXCEPT !.goal = goal]) /\ [NoCall EXCEPT !.goal = goal].goal = goal
         /\ CallOK([NoCall EXCEPT !.goal = goal, !.path = p, !.full = p])
         /\ [NoCall EXCEPT !.goal = goal, !.path = p, !.full = p].goal = goal
<1> DEFINE empty == << >>
           a == [NoCall EXCEPT !.goal = goal]
           b == [NoCall EXCEPT !.goal = goal, !.path = p, !.full = p]
<1>1. empty \in Seq(DirSlot) /\ empty \in Seq(DirEntry)
  BY SMTT(30)
<1>2. /\ DOMAIN NoCall = CallFields /\ NoCall.at = "none" /\ NoCall.goal = "none"
      /\ NoCall.lfn = empty /\ NoCall.out = empty
  BY ZenonT(40) DEF NoCall, CallFields
<1>3. /\ DOMAIN a = CallFields /\ a.at = "none" /\ a.goal = goal /\ a.lfn = empty /\ a.out = empty
  <2> HIDE DEF empty
  <2> QED
    BY <1>2 DEF CallFields
<1>4. /\ DOMAIN b = CallFields /\ b.at = "none" /\ b.goal = goal /\ b.lfn = empty /\ b.out = empty
  <2> HIDE DEF empty
  <2> QED
    BY <1>2 DEF CallFields
<1>5. CallOK(a) /\ CallOK(b) /\ CallOK(NoCall)
  <2> HIDE DEF a, b, empty
  <2> QED
    BY <1>1, <1>2, <1>3, <1>4, ZenonT(40) DEF CallOK
<1> QED
  BY <1>2, <1>3, <1>4, <1>5, SMTT(30)

\* The calls of a script that has mounted its volume.
LEMMA CallsOK ==
  ASSUME vol \in Disks, Readable
  PROVE  /\ ls => \E g : g = fs' /\ CallOK(g) /\ g.at \in {"sector", "entry", "returned"} /\ g.goal = "list"
         /\ \A p : ls_path(p) =>
              \E g : g = fs' /\ CallOK(g) /\ g.at \in {"sector", "entry", "returned"} /\ g.goal = "list"
         /\ \A p : read_path(p) =>
              \E g : g = fs' /\ CallOK(g) /\ g.at \in {"sector", "entry", "returned"}
         /\ \A first \in Nat : \A size : read(first, size) =>
              \E g : g = fs' /\ CallOK(g) /\ g.at \in {"sector", "entry", "returned"}
<1>1. ASSUME ls PROVE \E g : g = fs' /\ CallOK(g) /\ g.at \in {"sector", "entry", "returned"} /\ g.goal = "list"
  <2> DEFINE f == [NoCall EXCEPT !.goal = "list"]
  <2>1. CallOK(f) /\ f.goal = "list"
    BY NoCallOK, Zenon
  <2>2. fs' = Begin(f)
    BY <1>1, Zenon DEF ls
  <2> HIDE DEF f
  <2>3. Follows(f, Begin(f))
    BY <2>1, BeginOK, SMTT(30)
  <2> QED
    BY <2>1, <2>2, <2>3 DEF Follows
<1>2. ASSUME NEW p, ls_path(p)
      PROVE \E g : g = fs' /\ CallOK(g) /\ g.at \in {"sector", "entry", "returned"} /\ g.goal = "list"
  <2> DEFINE f == [NoCall EXCEPT !.goal = "list", !.path = p, !.full = p]
  <2>1. CallOK(f) /\ f.goal = "list"
    BY NoCallOK, Zenon
  <2>2. fs' = Begin(f)
    BY <1>2, Zenon DEF ls_path
  <2> HIDE DEF f
  <2>3. Follows(f, Begin(f))
    BY <2>1, BeginOK
  <2> QED
    BY <2>1, <2>2, <2>3 DEF Follows
<1>3. ASSUME NEW p, read_path(p)
      PROVE \E g : g = fs' /\ CallOK(g) /\ g.at \in {"sector", "entry", "returned"}
  <2> DEFINE f == [NoCall EXCEPT !.goal = "file", !.path = p, !.full = p]
  <2>1. CallOK(f)
    BY NoCallOK, Zenon
  <2>2. fs' = Begin(f)
    BY <1>3, Zenon DEF read_path
  <2> HIDE DEF f
  <2>3. Follows(f, Begin(f))
    BY <2>1, BeginOK, Zenon
  <2> QED
    BY <2>2, <2>3 DEF Follows
<1>4. ASSUME NEW first \in Nat, NEW size, read(first, size)
      PROVE \E g : g = fs' /\ CallOK(g) /\ g.at \in {"sector", "entry", "returned"}
  <2>1. CallOK(NoCall) /\ NoCall.goal # "list"
    BY NoCallOK, Zenon
  <2>2. fs' = read_file(NoCall, first, size)
    BY <1>4, Zenon DEF read
  <2>3. Follows(NoCall, read_file(NoCall, first, size))
    BY <2>1, ReadFileOK, Zenon
  <2> QED
    BY <2>2, <2>3 DEF Follows
<1> QED
  BY <1>1, <1>2, <1>3, <1>4, ZenonT(40)

\* The script makes its next call.
LEMMA ScriptCalls ==
  ASSUME DInv, fs.at = "returned", Readable, NEW b, boot' = b, DOMAIN b = BootFields,
         b.entries \in Seq(DirEntry), b.stage = boot.stage, b.step \in Reading,
         UNCHANGED <<vol, blockio>>, NEW g, g = fs', CallOK(g),
         g.at \in {"sector", "entry", "returned"},
         b.step \in {"ls", "ls_path"} => g.goal = "list"
  PROVE  FsInv' /\ Scripted'
<1>1. vol' = vol /\ asked' = None /\ got' = "none" /\ vol \in Disks
  BY Zenon DEF DInv, FsInv, blockio
<1>2. CallOK(fs)' /\ Readable'
  BY <1>1, Zenon DEF CallOK, Readable
<1>3. FsInv'
  BY <1>1, <1>2, Zenon DEF FsInv
<1> QED
  BY <1>2, <1>3, Zenon DEF Scripted, Reading, Diagnosing

\* A volume is mounted, or forgotten.
LEMMA ScriptMounts ==
  ASSUME NEW b, boot' = b, DOMAIN b = BootFields, b.entries \in Seq(DirEntry), vol' \in Disks,
         asked' = None, got' = "none",
         \/ mount /\ b.step = "mount" /\ b.stage \in {"virtio", "ide"}
         \/ /\ fs' = NoCall /\ b.step \notin Reading \cup {"mount"}
            /\ b.step \in Diagnosing => b.stage = "virtio"
  PROVE  FsInv' /\ Scripted'
<1>1. PICK g : g = fs'
  BY Zenon
<1>2. /\ CallOK(g)
      /\ \/ /\ g.at = "none" /\ b.step \notin Reading \cup {"mount"}
            /\ b.step \in Diagnosing => b.stage = "virtio"
         \/ g.at = "boot" /\ b.step = "mount" /\ b.stage \in {"virtio", "ide"}
  <2>1. CASE /\ fs' = NoCall /\ b.step \notin Reading \cup {"mount"}
             /\ b.step \in Diagnosing => b.stage = "virtio"
    BY <1>1, <2>1, NoCallOK, Zenon
  <2>2. CASE mount /\ b.step = "mount" /\ b.stage \in {"virtio", "ide"}
    <3> DEFINE f == [NoCall EXCEPT !.goal = "mount"]
               h == [NoCall EXCEPT !.at = "boot", !.goal = "mount"]
    <3>1. g = h
      BY <1>1, <2>2 DEF mount
    <3>2. CallOK(f) /\ CallOK(NoCall) /\ NoCall.at = "none"
      BY NoCallOK, Zenon
    <3>3. /\ DOMAIN h = CallFields /\ h.at = "boot" /\ h.lfn = f.lfn /\ h.out = f.out
          /\ h.goal = f.goal /\ h.path = f.path
      <4>1. DOMAIN NoCall = CallFields
        BY <3>2, Zenon DEF CallOK
      <4> QED
        BY <4>1 DEF CallFields
    <3> HIDE DEF f, h
    <3> QED
      BY <2>2, <3>1, <3>2, <3>3, Zenon DEF CallOK
  <2> QED
    BY <2>1, <2>2
<1>3. CallOK(fs)'
  BY <1>1, <1>2, Zenon DEF CallOK
<1>4. FsInv'
  BY <1>1, <1>2, <1>3, Zenon DEF FsInv
<1> QED
  BY <1>1, <1>2, <1>4, Zenon DEF Scripted, Reading, Diagnosing

-----------------------------------------------------------------------------
(* init_all drives one disk at a time: each step of Drivers is a step of the  *)
(* driver of the running stage, and the other driver is not there.            *)

\* A driver that is not there satisfies its invariant.
LEMMA OffHolds ==
  ASSUME Off', asked' \in Sect \cup {None}, buf' \in Held512, asked' = None \/ got' = "none"
  PROVE  VInv'
<1>1. drv'.pc = "off"
  BY Zenon DEF Off, NoDriver
<1>2. VType'
  BY Fresh, Zenon DEF Off, VType
<1>3. VRing'
  <2>0. IDX \in Nat /\ QSZ \in Nat /\ 0 < QSZ /\ QSZ < IDX
    BY VirtioAssumption, SMTT(30)
  <2>1. drv'.head = 0 /\ mem'.avail = 0 /\ dev'.last = 0 /\ DOMAIN mem'.ring = 0 .. (QSZ - 1)
    BY Fresh, SMTT(30) DEF Off
  <2>2. FirstRound'
    BY <2>0, <2>1, SMTT(30) DEF FirstRound
  <2> QED
    BY <1>1, <2>0, <2>1, <2>2, SMTT(30) DEF VRing, Published
<1>4. VCall'
  BY <1>1 DEF VCall
<1> QED
  BY <1>2, <1>3, <1>4, Zenon DEF VInv

\* The call is typed whichever driver is there.
LEMMA CallTyped ==
  ASSUME DInv
  PROVE  asked \in Sect \cup {None} /\ buf \in Held512 /\ (asked = None \/ got = "none")
  BY Zenon DEF DInv, Attached, VInv, VType

\* Nothing of the disks and of their script changes.
LEMMA StorageKept ==
  ASSUME DInv, UNCHANGED <<virtio, ide, vol, fs, blockio>>,
         NEW b, b = boot', DOMAIN b = BootFields, b.entries = boot.entries,
         \/ b.stage = boot.stage /\ b.step = boot.step
         \/ b.stage = boot.stage /\ boot.step \in Setup /\ b.step \in Setup \ {"probe"} /\ Detached
         \/ boot.stage \notin {"virtio", "ide"} /\ b.step \in {boot.step, "probe"}
  PROVE  DInv' /\ [Blocks!Next]_blockio
<1>1. UNCHANGED <<drv, mem, dev, ata, drive, vol, fs, asked, got, buf, doubt>>
  BY Zenon DEF virtio, ide, blockio
<1>2. FsInv'
  BY <1>1, Zenon DEF DInv, FsInv, CallOK, Readable, InFat
<1>3. Scripted'
  <2>1. Readable' = Readable /\ fs' = fs /\ boot' = b
    BY <1>1, Zenon DEF Readable
  <2>2. Scripted
    BY Zenon DEF DInv
  <2>3. CASE b.stage = boot.stage /\ b.step = boot.step
    BY <2>1, <2>2, <2>3, Zenon DEF Scripted
  <2>4. CASE boot.stage \notin {"virtio", "ide"} /\ b.step = boot.step
    BY <2>1, <2>2, <2>4, Zenon DEF Scripted
  <2>5. CASE boot.stage \notin {"virtio", "ide"} /\ b.step = "probe"
    BY <2>1, <2>2, <2>5, Zenon DEF Scripted, Reading, Diagnosing
  <2>6. CASE b.stage = boot.stage /\ boot.step \in Setup /\ b.step \in Setup \ {"probe"}
    <3>1. fs.at # "boot"
      BY <2>2, <2>6, ZenonT(40) DEF Scripted, Setup
    <3> QED
      BY <2>1, <2>2, <2>6, <3>1, Zenon DEF Scripted, Reading, Diagnosing, Setup
  <2> QED
    BY <2>3, <2>4, <2>5, <2>6, Zenon
<1>4. UNCHANGED <<virtio, blockio>>
  OBVIOUS
<1>5. VInv'
  BY <1>4, VStep, Zenon DEF DInv, Attached
<1>6. (Off => Off') /\ (Detached => Detached')
  BY <1>1, ZenonT(40) DEF Off, Detached
<1>7. AInv => AInv'
  BY <1>1, SMTT(30) DEF AInv
<1>8. Attached'
  <2>1. /\ Off \/ (boot.stage = "virtio" /\ boot.step \notin Setup)
        /\ Detached \/ (AInv /\ boot.stage = "ide" /\ boot.step # "probe")
    BY Zenon DEF DInv, Attached
  <2>2. Off' \/ (b.stage = "virtio" /\ b.step \notin Setup)
    BY <1>6, <2>1, Zenon
  <2>3. Detached' \/ (AInv' /\ b.stage = "ide" /\ b.step # "probe")
    BY <1>6, <1>7, <2>1, Zenon
  <2> QED
    BY <1>5, <2>2, <2>3, Zenon DEF Attached
<1> QED
  BY <1>2, <1>3, <1>4, <1>8, Zenon DEF DInv, blockio

\* The stages without a disk.
LEMMA QuietStep ==
  ASSUME DInv,
         \/ Interrupts \/ read_datetime \/ MouseStep \/ ControllerStep \/ KeyboardStep
         \/ MouseArmed \/ Detect \/ UserStage
  PROVE  DInv' /\ [Blocks!Next]_blockio
<1>0. DOMAIN boot = BootFields
  BY DEF DInv, Scripted
<1>1. PICK b : b = boot'
  BY Zenon
<1>2. UNCHANGED <<virtio, ide, vol, fs, blockio>>
  BY ZenonT(40) DEF storage, fat, Interrupts, read_datetime, MouseStep, ControllerStep, KeyboardStep, MouseArmed, Detect, UserStage
<1>3. /\ DOMAIN b = BootFields /\ b.entries = boot.entries
      /\ boot.stage \notin {"virtio", "ide"} /\ b.step \in {boot.step, "probe"}
  <2>1. CASE Interrupts
    BY <1>0, <1>1, <2>1 DEF Interrupts, BootFields
  <2>2. CASE read_datetime
    BY <1>0, <1>1, <2>2, ZenonT(40) DEF read_datetime, BootFields
  <2>3. CASE MouseStep \/ ControllerStep \/ KeyboardStep \/ UserStage
    BY <1>0, <1>1, <2>3, SMTT(30) DEF MouseStep, ControllerStep, KeyboardStep, UserStage
  <2>4. CASE MouseArmed
    BY <1>0, <1>1, <2>4, SMTT(30) DEF MouseArmed, BootFields
  <2>5. CASE Detect
    <3> DEFINE more == Append(boot.reports, Reports[Len(boot.reports) + 1])
    <3>1. /\ boot.stage = "detect"
          /\ b = [boot EXCEPT !.reports = more] \/ b = [boot EXCEPT !.stage = "ring3"]
      BY <1>1, <2>5, Zenon DEF Detect
    <3> HIDE DEF more
    <3> QED
      BY <1>0, <3>1, Zenon DEF BootFields
  <2> QED
    BY <2>1, <2>2, <2>3, <2>4, <2>5, SMTT(30)
<1> QED
  BY <1>1, <1>2, <1>3, StorageKept, ZenonT(40)

\* What Leave does to the script.
LEMMA LeaveFacts ==
  ASSUME DInv, NEW stage, Leave(stage)
  PROVE  /\ FsInv' /\ Scripted' /\ boot'.stage = stage /\ boot'.step = "probe"
         /\ asked' = None /\ got' = "none" /\ UNCHANGED blockio
<1> DEFINE empty == << >>
           b == [boot EXCEPT !.stage = stage, !.step = "probe", !.entries = empty, !.cp = 0, !.disks = 0]
<1>1. boot' = b /\ fs' = NoCall /\ vol' = NoVolume /\ Attach
  BY Zenon DEF Leave
<1>2. empty \in Seq(DirEntry) /\ DOMAIN boot = BootFields
  BY DEF DInv, Scripted
<1>3. /\ DOMAIN b = BootFields /\ b.stage = stage /\ b.step = "probe" /\ b.entries = empty
  <2> HIDE DEF empty
  <2> QED
    BY <1>2, Zenon DEF BootFields
<1> HIDE DEF b, empty
<1>4. asked' = None /\ got' = "none" /\ UNCHANGED blockio
  BY <1>1, Zenon DEF Attach, blockio
<1>5. vol' \in Disks
  BY <1>1, DriversAssumption, ZenonT(40) DEF NoVolume, Disks
<1>6. FsInv' /\ Scripted'
  BY <1>1, <1>2, <1>3, <1>4, <1>5, ScriptMounts, SMTT(30) DEF Reading, Diagnosing
<1> QED
  BY <1>1, <1>3, <1>4, <1>6, SMTT(30)

\* A stage is over: its driver is dropped.
LEMMA LeaveKeeps ==
  ASSUME DInv, NEW stage, Leave(stage), Off', Detached'
  PROVE  DInv' /\ [Blocks!Next]_blockio
<1>1. FsInv' /\ Scripted' /\ asked' = None /\ got' = "none" /\ UNCHANGED blockio
  BY LeaveFacts, Zenon
<1>2. buf' \in Held512
  BY <1>1, CallTyped, Zenon DEF blockio
<1>3. VInv'
  BY <1>1, <1>2, OffHolds, Zenon
<1>4. Attached'
  BY <1>3 DEF Attached
<1> QED
  BY <1>1, <1>4 DEF DInv

\* The virtio driver, or the caller of it, makes a step and no drive is there.
LEMMA VirtioMoves ==
  ASSUME DInv, VNext \/ UNCHANGED <<virtio, blockio>>, UNCHANGED ide, Detached
  PROVE  VInv' /\ Detached' /\ [Blocks!Next]_blockio
<1>1. VInv
  BY DEF DInv, Attached
<1> QED
  BY <1>1, VStep, VBlocks, Zenon DEF ide, Detached

\* What makes a step of the virtio driver, of its device or of its caller.
LEMMA VNextParts ==
  ASSUME VirtioCaller \/ Make \/ xfer \/ Device
  PROVE  VNext
BY Zenon DEF VNext, VirtioNext, VirtioCaller, Make

\* A stage without a device that can be used.
LEMMA VirtioLeaves ==
  ASSUME DInv, boot.stage = "virtio", boot.step \in Setup, Leave("ide"), UNCHANGED <<virtio, ide>>
  PROVE  DInv' /\ [Blocks!Next]_blockio
<1>1. Off /\ Detached
  BY Zenon DEF DInv, Attached
<1>2. Off' /\ Detached'
  BY <1>1, Zenon DEF virtio, ide, Off, Detached
<1> QED
  BY <1>2, LeaveKeeps, Zenon

\* probe looks for the device, walks its capabilities and negotiates.
LEMMA VirtioSetupKeeps ==
  ASSUME DInv, VirtioProbe \/ caps \/ reset_and_negotiate
  PROVE  DInv' /\ [Blocks!Next]_blockio
<1>0. /\ boot.stage = "virtio" /\ boot.step \in Setup /\ UNCHANGED <<virtio, ide>>
      /\ Detached /\ DOMAIN boot = BootFields
  BY Zenon DEF VirtioProbe, caps, reset_and_negotiate, Setup, DInv, Attached, Scripted
<1>1. CASE Leave("ide")
  BY <1>0, <1>1, VirtioLeaves, Zenon
<1>2. CASE UNCHANGED <<boot, vol, fs, blockio>>
  BY <1>0, <1>2, StorageKept, Zenon
<1> DEFINE Goes(b) == /\ DOMAIN b = BootFields /\ b.entries = boot.entries
                      /\ b.stage = boot.stage /\ b.step \in Setup \ {"probe"}
<1>3. ASSUME NEW b, boot' = b, Goes(b), UNCHANGED <<fat, blockio>>
      PROVE  DInv' /\ [Blocks!Next]_blockio
  BY <1>0, <1>3, StorageKept, Zenon DEF fat
<1>4. ASSUME NEW cp PROVE Goes([boot EXCEPT !.step = "caps", !.cp = cp])
  BY <1>0, Zenon DEF BootFields, Setup
<1>5. ASSUME NEW cp, NEW common, boot.step = "caps" PROVE Goes([boot EXCEPT !.cp = cp, !.common = common])
  BY <1>0, <1>5, Zenon DEF BootFields, Setup
<1>6. Goes([boot EXCEPT !.step = "negotiate", !.common = 0])
  BY <1>0, Zenon DEF BootFields, Setup
<1>7. Goes([boot EXCEPT !.step = "queue"])
  BY <1>0, Zenon DEF BootFields, Setup
<1> HIDE DEF Goes
<1>8. CASE VirtioProbe
  BY <1>1, <1>3, <1>4, <1>8, Zenon DEF VirtioProbe
<1>9. CASE caps
  BY <1>1, <1>2, <1>3, <1>5, <1>6, <1>9, ZenonT(40) DEF caps
<1>10. CASE reset_and_negotiate
  BY <1>1, <1>3, <1>7, <1>10, Zenon DEF reset_and_negotiate
<1> QED
  BY <1>8, <1>9, <1>10, Zenon

\* A driver value is made and its volume mounted, or there is no queue.
LEMMA VirtioQueueKeeps ==
  ASSUME DInv, VirtioQueue
  PROVE  DInv' /\ [Blocks!Next]_blockio
<1>0. /\ boot.stage = "virtio" /\ boot.step \in Setup /\ UNCHANGED ide
      /\ Off /\ Detached /\ DOMAIN boot = BootFields /\ boot.entries \in Seq(DirEntry)
  BY Zenon DEF VirtioQueue, Setup, DInv, Attached, Scripted
<1>1. CASE Make /\ vol' \in Volumes.virtio /\ mount /\ boot' = [boot EXCEPT !.step = "mount"]
  <2>1. PICK b : b = boot'
    OBVIOUS
  <2>2. DOMAIN b = BootFields /\ b.stage = "virtio" /\ b.step = "mount" /\ b.entries = boot.entries
    BY <1>0, <1>1, <2>1 DEF BootFields
  <2>3. asked' = None /\ got' = "none" /\ vol' \in Disks
    BY <1>1, Zenon DEF Make, Attach, blockio, Disks
  <2>4. FsInv' /\ Scripted'
    BY <1>0, <1>1, <2>1, <2>2, <2>3, ScriptMounts, ZenonT(40)
  <2>5. VInv' /\ Detached' /\ [Blocks!Next]_blockio
    BY <1>0, <1>1, VirtioMoves, VNextParts, ZenonT(40)
  <2>6. boot'.stage = "virtio" /\ boot'.step \notin Setup
    BY <2>1, <2>2 DEF Setup
  <2> QED
    BY <2>4, <2>5, <2>6, Zenon DEF DInv, Attached
<1>2. CASE Leave("ide") /\ UNCHANGED virtio
  BY <1>0, <1>2, VirtioLeaves, Zenon
<1>3. ASSUME NEW size \in {0, QSZ, 257}, NEW frames \in BOOLEAN, setup_queue(size, frames), Attach
      PROVE  Make
  <2>1. size \in 1 .. 256 /\ frames
    BY <1>3, Zenon DEF setup_queue
  <2>2. size = QSZ
    BY <2>1
  <2>3. setup_queue(QSZ, TRUE)
    BY <1>3, <2>1, <2>2, ZenonT(40) DEF setup_queue
  <2> QED
    BY <1>3, <2>3, Zenon DEF Make
<1>4. PICK size \in {0, QSZ, 257}, frames \in BOOLEAN :
        \/ /\ setup_queue(size, frames) /\ Attach
           /\ vol' \in Volumes.virtio /\ mount /\ boot' = [boot EXCEPT !.step = "mount"]
        \/ Leave("ide") /\ UNCHANGED virtio
  BY DEF VirtioQueue
<1> QED
  BY <1>1, <1>2, <1>3, <1>4, ZenonT(40)

\* The script of the virtio disk makes its next call.
LEMMA VirtioCalls ==
  ASSUME DInv, boot.stage = "virtio", NEW step, Call([boot EXCEPT !.step = step]),
         step \notin Setup, UNCHANGED <<virtio, ide>>, FsInv', Scripted'
  PROVE  DInv' /\ [Blocks!Next]_blockio
<1>1. Detached
  BY DEF DInv, Attached
<1>2. UNCHANGED blockio
  BY DEF Call
<1>3. VInv' /\ Detached' /\ [Blocks!Next]_blockio
  BY <1>1, <1>2, VirtioMoves, Zenon
<1>4. boot'.stage = "virtio" /\ boot'.step = step
  BY Zenon DEF Call, DInv, Scripted, BootFields
<1> QED
  BY <1>3, <1>4 DEF DInv, Attached

\* The bring-up of the virtio disk keeps the invariant and the promise.
LEMMA VirtioScriptKeeps ==
  ASSUME DInv, VirtioScript
  PROVE  DInv' /\ [Blocks!Next]_blockio
<1>0. DOMAIN boot = BootFields /\ boot.entries \in Seq(DirEntry) /\ vol \in Disks /\ FsInv /\ Scripted
  BY Zenon DEF DInv, Scripted, FsInv
<1>1. ASSUME boot.stage = "virtio", Leave("ide"), Drop, UNCHANGED ide
      PROVE  DInv' /\ [Blocks!Next]_blockio
  <2>1. Off' /\ Detached'
    BY <1>1, Zenon DEF Drop, Off, ide, Detached, DInv, Attached
  <2> QED
    BY <1>1, <2>1, LeaveKeeps
<1>2. CASE Back("virtio", "mount") /\ fs.ok /\ ls /\ Call([boot EXCEPT !.step = "ls"]) /\ UNCHANGED <<virtio, ide>>
  <2>1. Readable /\ fs.at = "returned" /\ boot.stage = "virtio" /\ boot.step = "mount"
    BY <1>0, <1>2 DEF Back, Scripted
  <2>2. PICK g : g = fs' /\ CallOK(g) /\ g.at \in {"sector", "entry", "returned"} /\ g.goal = "list"
    BY <1>0, <1>2, <2>1, CallsOK, SMTT(30)
  <2>3. PICK b : b = boot' /\ b = [boot EXCEPT !.step = "ls"]
    BY <1>2 DEF Call
  <2>4. DOMAIN b = BootFields /\ b.stage = boot.stage /\ b.step = "ls" /\ b.entries = boot.entries
    BY <1>0, <2>3 DEF BootFields
  <2>5. UNCHANGED <<vol, blockio>>
    BY <1>2 DEF Call
  <2>6. FsInv' /\ Scripted'
    BY <1>0, <2>1, <2>2, <2>3, <2>4, <2>5, ScriptCalls, ZenonT(40) DEF Reading
  <2> QED
    BY <1>2, <2>1, <2>6, VirtioCalls, SMTT(30) DEF Setup
<1>3. CASE Back("virtio", "mount") /\ fs' = NoCall /\ Call([boot EXCEPT !.step = "diagnose"]) /\ UNCHANGED <<virtio, ide>>
  <2>1. fs.at = "returned" /\ boot.stage = "virtio" /\ boot.step = "mount"
    BY <1>3 DEF Back
  <2>2. PICK b : b = boot' /\ b = [boot EXCEPT !.step = "diagnose"]
    BY <1>3, Zenon DEF Call
  <2>3. DOMAIN b = BootFields /\ b.stage = "virtio" /\ b.step = "diagnose" /\ b.entries = boot.entries
    BY <1>0, <2>1, <2>2, SMTT(30) DEF BootFields
  <2>4. asked' = None /\ got' = "none" /\ vol' = vol
    BY <1>0, <1>3, <2>1, SMTT(30) DEF Call, blockio, FsInv
  <2>5. FsInv' /\ Scripted'
    BY <1>0, <1>3, <2>2, <2>3, <2>4, ScriptMounts, ZenonT(40) DEF Reading
  <2> QED
    BY <1>3, <2>1, <2>5, VirtioCalls, SMTT(30) DEF Setup
<1>4. CASE /\ Back("virtio", "ls") /\ Call([boot EXCEPT !.step = "read_path"]) /\ UNCHANGED <<virtio, ide>>
           /\ \E p : read_path(p)
  <2>1. Readable /\ fs.at = "returned" /\ boot.stage = "virtio" /\ boot.step = "ls"
    BY <1>0, <1>4, Zenon DEF Back, Scripted, Reading
  <2>2. PICK g : g = fs' /\ CallOK(g) /\ g.at \in {"sector", "entry", "returned"}
    BY <1>0, <1>4, <2>1, CallsOK, SMTT(30)
  <2>3. PICK b : b = boot' /\ b = [boot EXCEPT !.step = "read_path"]
    BY <1>4 DEF Call
  <2>4. DOMAIN b = BootFields /\ b.stage = boot.stage /\ b.step = "read_path" /\ b.entries = boot.entries
    BY <1>0, <2>3 DEF BootFields
  <2>5. UNCHANGED <<vol, blockio>>
    BY <1>4 DEF Call
  <2>6. FsInv' /\ Scripted'
    BY <1>0, <2>1, <2>2, <2>3, <2>4, <2>5, ScriptCalls, ZenonT(40) DEF Reading
  <2> QED
    BY <1>4, <2>1, <2>6, VirtioCalls, SMTT(30) DEF Setup
<1>5. CASE (Back("virtio", "ls") \/ Back("virtio", "read_path")) /\ Leave("ide") /\ Drop /\ UNCHANGED ide
  BY <1>1, <1>5, Zenon DEF Back
<1>6. CASE boot.step = "over" /\ Leave("ide") /\ Drop /\ UNCHANGED ide
  <2>1. boot.stage = "virtio"
    BY <1>0, <1>6, Zenon DEF Scripted, Diagnosing
  <2> QED
    BY <1>1, <1>6, <2>1, Zenon
<1> QED
  BY <1>2, <1>3, <1>4, <1>5, <1>6, SMTT(30) DEF VirtioScript

\* The read that diagnoses a failed mount.
LEMMA DiagnoseKeeps ==
  ASSUME DInv, Diagnose \/ Diagnosed
  PROVE  DInv' /\ [Blocks!Next]_blockio
<1>0. /\ DOMAIN boot = BootFields /\ FsInv /\ Scripted /\ Detached
      /\ boot.stage = "virtio" /\ boot.step \in {"diagnose", "diagnosed"}
  BY DEF Diagnose, Diagnosed, DInv, Attached, Scripted
<1>1. PICK step : boot' = [boot EXCEPT !.step = step] /\ step \in {"diagnosed", "over"}
  BY DEF Diagnose, Diagnosed
<1>2. PICK b : b = boot'
  OBVIOUS
<1>3. DOMAIN b = BootFields /\ b.step = step /\ b.stage = "virtio" /\ b.entries = boot.entries
  BY <1>0, <1>1, <1>2 DEF BootFields
<1>4. UNCHANGED <<vol, fs, virtio, ide>> /\ (Ask(0) \/ Consume)
  BY Zenon DEF Diagnose, Diagnosed, fat
<1>5. VInv' /\ Detached' /\ [Blocks!Next]_blockio
  <2>1. VirtioCaller
    BY <1>4, SectFacts, ZenonT(40) DEF VirtioCaller
  <2> QED
    BY <1>0, <1>4, <2>1, VirtioMoves, VNextParts, ZenonT(40)
<1>6. fs.at = "none"
  BY <1>0 DEF Scripted, Diagnosing
<1>7. FsInv'
  BY <1>0, <1>4, <1>6, ZenonT(40) DEF FsInv, CallOK, Readable, Ask, Consume
<1>8. Scripted'
  BY <1>0, <1>1, <1>2, <1>3, <1>4, <1>6, SMTT(30) DEF Scripted, Reading, Diagnosing
<1> QED
  BY <1>1, <1>2, <1>3, <1>5, <1>7, <1>8, SMTT(30) DEF DInv, Attached, Setup

\* A disk of a channel is mounted.
LEMMA MountDiskKeeps ==
  ASSUME DInv, NEW disks, MountDisk(disks), boot.stage = "ide", UNCHANGED virtio
  PROVE  DInv' /\ [Blocks!Next]_blockio
<1>0. DOMAIN boot = BootFields /\ boot.entries \in Seq(DirEntry) /\ Off
  BY Zenon DEF DInv, Attached, Scripted
<1>1. PICK b : b = boot'
  OBVIOUS
<1>2. DOMAIN b = BootFields /\ b.stage = "ide" /\ b.step = "mount" /\ b.entries = boot.entries
  BY <1>0, <1>1 DEF MountDisk, BootFields
<1>3. asked' = None /\ got' = "none" /\ buf' \in Held512 /\ vol' \in Disks /\ UNCHANGED blockio
  BY CallTyped, Zenon DEF MountDisk, Attach, blockio, Disks
<1>4. FsInv' /\ Scripted'
  BY <1>0, <1>1, <1>2, <1>3, ScriptMounts, ZenonT(40) DEF MountDisk
<1>5. PICK capacity \in Capacities : from_identify(capacity)
  BY DEF MountDisk
<1>6. AInv'
  BY <1>3, <1>5, Zenon DEF from_identify, AInv, Quiet
<1>7. Off'
  BY <1>0, Zenon DEF Off, virtio
<1>8. VInv'
  BY <1>3, <1>7, OffHolds, ZenonT(40)
<1> QED
  BY <1>1, <1>2, <1>3, <1>4, <1>6, <1>7, <1>8, SMTT(30) DEF DInv, Attached

\* So does probing the bus, whichever disks it finds.
LEMMA ProbeAllKeeps ==
  ASSUME DInv, probe_all
  PROVE  DInv' /\ [Blocks!Next]_blockio
<1>1. boot.stage = "ide" /\ Off /\ Detached /\ UNCHANGED virtio
  BY Zenon DEF probe_all, DInv, Attached
<1>2. CASE Leave("detect") /\ UNCHANGED ide
  <2>1. Off' /\ Detached'
    BY <1>1, <1>2, Zenon DEF virtio, ide, Off, Detached
  <2> QED
    BY <1>2, <2>1, LeaveKeeps, Zenon
<1>3. CASE \E disks : MountDisk(disks)
  BY <1>1, <1>3, MountDiskKeeps, SMTT(30)
<1> QED
  BY <1>2, <1>3 DEF probe_all

\* The script of an ide disk makes its next call.
LEMMA IdeCalls ==
  ASSUME DInv, boot.stage = "ide", boot.step # "probe", fs.at = "returned", Readable,
         NEW b, DOMAIN b = BootFields, b.entries \in Seq(DirEntry), b.stage = "ide",
         NEW step \in Reading, Call([b EXCEPT !.step = step]), UNCHANGED <<virtio, ide>>,
         \/ (\E p : read_path(p)) /\ step \notin {"ls", "ls_path"}
         \/ \E first \in Nat : \E size : read(first, size) /\ step \notin {"ls", "ls_path"}
         \/ ls
         \/ \E p : ls_path(p)
  PROVE  DInv' /\ [Blocks!Next]_blockio
<1>0. vol \in Disks /\ Off /\ VInv /\ (Detached \/ AInv)
  BY Zenon DEF DInv, Attached, FsInv
<1>1. PICK c : c = boot' /\ c = [b EXCEPT !.step = step]
  BY DEF Call
<1>2. DOMAIN c = BootFields /\ c.stage = boot.stage /\ c.step = step /\ c.entries = b.entries
  BY <1>1 DEF BootFields
<1>3. UNCHANGED <<vol, blockio>>
  BY DEF Call
<1>4. PICK g : /\ g = fs' /\ CallOK(g) /\ g.at \in {"sector", "entry", "returned"}
               /\ step \in {"ls", "ls_path"} => g.goal = "list"
  BY <1>0, CallsOK, SMTT(30)
<1>5. FsInv' /\ Scripted'
  BY <1>1, <1>2, <1>3, <1>4, ScriptCalls, ZenonT(40)
<1>6. Off' /\ (Detached => Detached')
  BY <1>0 DEF virtio, ide, Off, Detached
<1>7. AInv => AInv'
  BY <1>3 DEF ide, blockio, AInv
<1>8. VInv'
  BY <1>0, <1>3, VStep, Zenon
<1>9. step # "probe"
  BY Zenon DEF Reading
<1> QED
  BY <1>0, <1>1, <1>2, <1>3, <1>5, <1>6, <1>7, <1>8, <1>9, SMTT(30) DEF DInv, Attached

\* What the script remembers of a listing.
IdeBoot(b) ==
  /\ DOMAIN b = BootFields /\ b.entries \in Seq(DirEntry) /\ b.stage = "ide"

\* Between two calls of the script of an ide disk that is mounted.
IdeBack == DInv /\ boot.stage = "ide" /\ boot.step \in Reading /\ fs.at = "returned" /\ UNCHANGED virtio

\* So does leaving the IDE disks for the next stage.
LEMMA LeaveIdeKeeps ==
  ASSUME DInv, boot.stage = "ide", LeaveIde, UNCHANGED virtio
  PROVE  DInv' /\ [Blocks!Next]_blockio
<1>1. Off' /\ Detached'
  BY Zenon DEF LeaveIde, Detach, Detached, DInv, Attached, Off, virtio
<1> QED
  BY <1>1, LeaveKeeps, Zenon DEF LeaveIde

\* So does reading the first file by its cluster chain.
LEMMA ReadChainKeeps ==
  ASSUME IdeBack, NEW b, IdeBoot(b), ReadChain(b)
  PROVE  DInv' /\ [Blocks!Next]_blockio
<1> DEFINE i == firstFile(b.entries)
<1>1. Readable /\ boot.step # "probe" /\ boot.stage = "ide"
  BY Zenon DEF IdeBack, DInv, Scripted, Reading
<1>2. CASE i = 0
  <2>1. LeaveIde
    BY <1>2 DEF ReadChain
  <2> QED
    BY <1>1, <2>1, LeaveIdeKeeps, SMTT(30) DEF IdeBack
<1>3. CASE i # 0
  <2> DEFINE S == {k \in 1 .. Len(b.entries) : ~b.entries[k].is_dir}
  <2>0. i = IF S = {} THEN 0 ELSE Min(S)
    BY DEF firstFile, Position
  <2>1. b.entries[i].cluster \in Nat
    <3> HIDE DEF S, i
    <3>1. S \subseteq 1 .. Len(b.entries) /\ b.entries \in Seq(DirEntry)
      BY Zenon DEF S, IdeBoot
    <3>2. b.entries[i] \in DirEntry
      BY <1>3, <2>0, <3>1, FoundFacts, ZenonT(40)
    <3> QED
      BY <3>2, Zenon DEF DirEntry
  <2>2. /\ \E first \in Nat : \E size : read(first, size)
        /\ Call([b EXCEPT !.step = "read"]) /\ UNCHANGED ide
    BY <1>3, <2>1 DEF ReadChain
  <2> QED
    BY <1>1, <2>2, IdeCalls, ZenonT(40) DEF IdeBack, IdeBoot, Reading
<1> QED
  BY <1>2, <1>3, Zenon

\* So does listing its first subdirectory.
LEMMA ListSubKeeps ==
  ASSUME IdeBack, NEW b, IdeBoot(b), ListSub(b)
  PROVE  DInv' /\ [Blocks!Next]_blockio
<1> DEFINE i == firstDir(b.entries)
<1>1. Readable /\ boot.step # "probe" /\ boot.stage = "ide"
  BY DEF IdeBack, DInv, Scripted, Reading
<1>2. CASE i # 0
  <2>1. (\E p : ls_path(p)) /\ Call([b EXCEPT !.step = "ls_path"]) /\ UNCHANGED ide
    BY <1>2 DEF ListSub
  <2> QED
    BY <1>1, <2>1, IdeCalls, ZenonT(40) DEF IdeBack, IdeBoot, Reading
<1>3. CASE i = 0
  <2>1. ReadChain(b)
    BY <1>3, SMTT(30) DEF ListSub
  <2> QED
    BY <2>1, ReadChainKeeps
<1> QED
  BY <1>2, <1>3, ZenonT(40)

\* The bring-up of the IDE disk keeps the invariant and the promise.
LEMMA IdeScriptKeeps ==
  ASSUME DInv, IdeScript
  PROVE  DInv' /\ [Blocks!Next]_blockio
<1>0. /\ DOMAIN boot = BootFields /\ boot.entries \in Seq(DirEntry) /\ vol \in Disks
      /\ FsInv /\ Scripted /\ UNCHANGED virtio
  BY DEF DInv, Scripted, FsInv, IdeScript
<1>1. CASE /\ Back("ide", "mount") /\ fs.ok /\ ls /\ UNCHANGED ide
           /\ Call([boot EXCEPT !.step = "ls", !.disks = 0])
  <2> DEFINE b == [boot EXCEPT !.disks = 0]
  <2>1. Readable /\ fs.at = "returned" /\ boot.stage = "ide" /\ boot.step = "mount"
    BY <1>0, <1>1 DEF Back, Scripted
  <2>2. [b EXCEPT !.step = "ls"] = [boot EXCEPT !.step = "ls", !.disks = 0]
    BY <1>0, ZenonT(40) DEF BootFields
  <2>3. Call([b EXCEPT !.step = "ls"])
    BY <1>1, <2>2, Zenon
  <2>4. DOMAIN b = BootFields /\ b.stage = "ide" /\ b.entries = boot.entries
    BY <1>0, <2>1, SMTT(30) DEF BootFields
  <2> HIDE DEF b
  <2> QED
    BY <1>0, <1>1, <2>1, <2>3, <2>4, IdeCalls, ZenonT(40) DEF Reading
<1>2. CASE Back("ide", "mount") /\ \E disks : MountDisk(disks)
  BY <1>0, <1>2, MountDiskKeeps DEF Back
<1>3. CASE LeaveIde /\ \E step : Back("ide", step)
  BY <1>0, <1>3, LeaveIdeKeeps, ZenonT(40) DEF Back
<1>4. ASSUME NEW step \in Reading, Back("ide", step)
      PROVE  IdeBack /\ IdeBoot(boot) /\ Readable
  BY <1>0, <1>4 DEF Back, IdeBack, IdeBoot, Scripted
<1>5. CASE Back("ide", "ls") /\ fs.ok
  <2> DEFINE out == fs.out
             b == [boot EXCEPT !.entries = out, !.files = Len(out)]
  <2>1. IdeBack /\ Readable
    BY <1>4, <1>5 DEF Reading
  <2>2. out \in Seq(DirEntry)
    BY <1>0, <1>5, Zenon DEF Back, Scripted, FsInv, CallOK
  <2>3. IdeBoot(b)
    <3> HIDE DEF out
    <3> QED
      BY <1>0, <1>5, <2>2 DEF Back, IdeBoot, BootFields
  <2>4. CASE (\E p : read_path(p)) /\ Call([b EXCEPT !.step = "read_path"]) /\ UNCHANGED ide
    <3> HIDE DEF b, out
    <3>1. boot.step # "probe"
      BY <1>5 DEF Back
    <3> QED
      BY <2>1, <2>3, <2>4, <3>1, IdeCalls, ZenonT(40) DEF IdeBack, IdeBoot, Reading
  <2>5. CASE ListSub(b)
    <3> HIDE DEF b, out
    <3> QED
      BY <2>1, <2>3, <2>5, ListSubKeeps, SMTT(30)
  <2>6. \/ (\E p : read_path(p)) /\ Call([b EXCEPT !.step = "read_path"]) /\ UNCHANGED ide
        \/ ListSub(b)
        \/ LeaveIde
    BY <1>5, Zenon DEF IdeScript, Back
  <2> QED
    BY <1>3, <1>5, <2>4, <2>5, <2>6, SMTT(30)
<1>6. CASE Back("ide", "read_path") /\ ListSub(boot)
  BY <1>4, <1>6, ListSubKeeps, SMTT(30) DEF Reading
<1>7. CASE /\ Back("ide", "ls_path") /\ (\E p : read_path(p))
           /\ Call([boot EXCEPT !.step = "read_sub"]) /\ UNCHANGED ide
  <2>1. IdeBack /\ IdeBoot(boot) /\ Readable /\ boot.step # "probe"
    BY <1>4, <1>7, SMTT(30) DEF Reading, Back
  <2> QED
    BY <1>7, <2>1, IdeCalls, Zenon DEF IdeBack, IdeBoot, Reading
<1>8. CASE (Back("ide", "ls_path") \/ Back("ide", "read_sub")) /\ ReadChain(boot)
  BY <1>4, <1>8, ReadChainKeeps, SMTT(30) DEF Reading
<1> QED
  BY <1>1, <1>2, <1>3, <1>5, <1>6, <1>7, <1>8, SMTT(30) DEF IdeScript

\* The ATA driver, or the caller of it, makes a step and no virtio driver is there.
LEMMA AtaMoves ==
  ASSUME DInv, AtaNext, UNCHANGED virtio, Off, AInv
  PROVE  VInv' /\ Off' /\ AInv' /\ [Blocks!Next]_blockio
<1>1. AInv' /\ [Blocks!Next]_blockio
  BY AtaStep
<1>2. Off'
  BY ZenonT(40) DEF virtio, Off
<1>3. VInv'
  BY <1>1, <1>2, OffHolds, SMTT(30) DEF AInv
<1> QED
  BY <1>1, <1>2, <1>3

\* A step of the FAT32 reader.
LEMMA FsStepKeeps ==
  ASSUME DInv, FsStep
  PROVE  DInv' /\ [Blocks!Next]_blockio
<1>1. boot' = boot /\ Fs /\ UNCHANGED <<virtio, ide>> /\ FsInv /\ Scripted /\ VInv
  BY Zenon DEF FsStep, DInv, Attached
<1>2. FsInv' /\ Scripted' /\ FsAsks
  BY <1>1, FsKeeps, Zenon
<1>3. VNext \/ UNCHANGED <<virtio, blockio>>
  BY <1>1, <1>2, VNextParts, Zenon DEF FsAsks, VirtioCaller
<1>4. VInv' /\ [Blocks!Next]_blockio
  BY <1>1, <1>3, VStep, VBlocks, SMTT(30)
<1>5. (Off => Off') /\ (Detached => Detached')
  BY <1>1, Zenon DEF virtio, ide, Off, Detached
<1>6. AInv => AInv'
  BY <1>1, <1>2, AtaStep, Zenon DEF FsAsks, AtaNext, AtaCaller
<1> QED
  BY <1>1, <1>2, <1>4, <1>5, <1>6, SMTT(30) DEF DInv, Attached

\* Nothing but a driver or a device moved.
LEMMA ReaderWaits ==
  ASSUME DInv, UNCHANGED <<boot, vol, fs>>,
         UNCHANGED <<asked, got>> \/ (asked # None /\ asked' = None)
  PROVE  FsInv' /\ Scripted'
<1>1. Scripted'
  BY DEF DInv, Scripted, Readable
<1>2. vol' \in Disks /\ CallOK(fs)'
  BY Zenon DEF DInv, FsInv, CallOK, Readable
<1> QED
  BY <1>1, <1>2, ZenonT(40) DEF DInv, FsInv, InFat

\* A step of the driver of the running stage.
LEMMA DriverStepKeeps ==
  ASSUME DInv, DriverStep
  PROVE  DInv' /\ [Blocks!Next]_blockio
<1>0. UNCHANGED <<boot, vol, fs>> /\ VInv
  BY Zenon DEF DriverStep, fat, DInv, Attached
<1>1. CASE boot.stage = "virtio" /\ xfer /\ UNCHANGED ide
  <2>1. Detached
    BY <1>1, Zenon DEF DInv, Attached
  <2>2. VInv' /\ Detached' /\ [Blocks!Next]_blockio
    BY <1>1, <2>1, VirtioMoves, VNextParts, ZenonT(40)
  <2>3. boot.step \notin Setup
    <3>1. drv.pc # "off"
      BY <1>1, Zenon DEF xfer, XferRequest, XferIndex, XferSlot, XferSample, XferNotify, XferDone, XferTimeout
    <3> QED
      BY <3>1 DEF DInv, Attached, Off, NoDriver
  <2>4. UNCHANGED <<asked, got>> \/ (asked # None /\ asked' = None)
    BY <1>1, ZenonT(40) DEF xfer, XferRequest, XferIndex, XferSlot, XferSample, XferNotify, XferDone, XferTimeout,
                Answer, blockio
  <2> QED
    BY <1>0, <1>1, <2>2, <2>3, <2>4, ReaderWaits, SMTT(30) DEF DInv, Attached
<1>2. CASE boot.stage = "ide" /\ read_sector /\ UNCHANGED virtio
  <2>1. Off /\ ata.pc # "off"
    BY <1>2, ZenonT(40) DEF DInv, Attached, read_sector, OutOfRange, Command, WaitTimeout, CommandError, Stream, Check
  <2>2. AInv /\ boot.step # "probe"
    BY <2>1 DEF DInv, Attached, Detached, NoDisk
  <2>3. VInv' /\ Off' /\ AInv' /\ [Blocks!Next]_blockio
    BY <1>2, <2>1, <2>2, AtaMoves, SMTT(30) DEF AtaNext
  <2>4. UNCHANGED <<asked, got>> \/ (asked # None /\ asked' = None)
    BY <1>2, Zenon DEF read_sector, OutOfRange, Command, WaitTimeout, CommandError, Stream, Check, Answer, blockio
  <2> QED
    BY <1>0, <1>2, <2>2, <2>3, <2>4, ReaderWaits, SMTT(30) DEF DInv, Attached
<1> QED
  BY <1>1, <1>2, Zenon DEF DriverStep

\* A step of the device, which is there only while its driver is.
LEMMA DeviceStepKeeps ==
  ASSUME DInv, DeviceStep
  PROVE  DInv' /\ [Blocks!Next]_blockio
<1>0. UNCHANGED <<boot, vol, fs>> /\ VInv
  BY ZenonT(40) DEF DeviceStep, fat, DInv, Attached
<1>1. CASE Device /\ UNCHANGED ide
  <2>1. UNCHANGED <<asked, got>> /\ ~Off
    <3>1. CASE Off
      <4>1. dev.kicked = FALSE /\ dev.inflight = <<>> /\ dev.written = 0
        BY <3>1, Zenon DEF Off, Idle
      <4> QED
        BY <1>1, <4>1 DEF Device, DeviceFetch, DeviceSettle, DeviceWrite, DeviceComplete
    <3> QED
      BY <1>1, <3>1, Zenon DEF Device, DeviceFetch, DeviceSettle, DeviceWrite, DeviceComplete, blockio
  <2>2. boot.stage = "virtio" /\ boot.step \notin Setup /\ Detached
    BY <2>1, Zenon DEF DInv, Attached
  <2>3. VInv' /\ Detached' /\ [Blocks!Next]_blockio
    BY <1>1, <2>2, VirtioMoves, VNextParts, ZenonT(40)
  <2> QED
    BY <1>0, <2>1, <2>2, <2>3, ReaderWaits, SMTT(30) DEF DInv, Attached, blockio
<1>2. CASE Drive /\ UNCHANGED virtio
  <2>1. ~Detached /\ UNCHANGED blockio
    BY <1>2 DEF Drive, Detached, Quiet
  <2>2. AInv /\ boot.stage = "ide" /\ boot.step # "probe" /\ Off
    BY <2>1, Zenon DEF DInv, Attached
  <2>3. VInv' /\ Off' /\ AInv' /\ [Blocks!Next]_blockio
    BY <1>2, <2>2, AtaMoves, ZenonT(40) DEF AtaNext
  <2> QED
    BY <1>0, <2>1, <2>2, <2>3, ReaderWaits, SMTT(30) DEF DInv, Attached, blockio
<1> QED
  BY <1>1, <1>2, Zenon DEF DeviceStep

\* The machine starts with every component at rest.
LEMMA DStart == Init => DInv /\ Blocks!BlockIoInit
<1> SUFFICES ASSUME Init PROVE DInv /\ Blocks!BlockIoInit
  OBVIOUS
<1> DEFINE empty == << >>
<1>1. empty \in Seq(DirEntry)
  BY SMTT(30)
<1>2. /\ DOMAIN boot = BootFields /\ boot.stage = "interrupts" /\ boot.step = "none"
      /\ boot.entries = empty
  BY ZenonT(40) DEF Init, BootFields
<1>3. CallOK(fs) /\ fs.at = "none"
  BY NoCallOK, Zenon DEF Init
<1>4. vol \in Disks /\ asked = None /\ got = "none"
  BY DriversAssumption, Zenon DEF Init, NoVolume, Disks, BlockIoInit
<1>5. FsInv
  BY <1>3, <1>4, Zenon DEF FsInv
<1> HIDE DEF empty
<1>6. Scripted
  BY <1>1, <1>2, <1>3, Zenon DEF Scripted, Reading, Diagnosing
<1>7. Attached
  BY VStart, Zenon DEF Init, VirtioInit, Attached
<1> QED
  BY <1>5, <1>6, <1>7, SMTT(30) DEF DInv, Init, BlockIoInit, Blocks!BlockIoInit, Blocks!None, Blocks!Blank

\* Every step of the bring-up keeps the invariant and the promise of read_sector.
LEMMA DStep == DInv /\ [Next]_vars => DInv' /\ [Blocks!Next]_blockio
<1> SUFFICES ASSUME DInv, [Next]_vars PROVE DInv' /\ [Blocks!Next]_blockio
  BY Zenon
<1>1. CASE \/ Interrupts \/ read_datetime \/ MouseStep \/ ControllerStep \/ KeyboardStep
           \/ MouseArmed \/ Detect \/ UserStage
  BY <1>1, QuietStep, Zenon
<1>2. CASE VirtioProbe \/ caps \/ reset_and_negotiate \/ VirtioQueue \/ VirtioScript \/ Diagnose \/ Diagnosed
  BY <1>2, VirtioSetupKeeps, VirtioQueueKeeps, VirtioScriptKeeps, DiagnoseKeeps, ZenonT(40)
<1>3. CASE probe_all \/ IdeScript
  BY <1>3, ProbeAllKeeps, IdeScriptKeeps, ZenonT(40)
<1>4. CASE FsStep \/ DriverStep \/ DeviceStep
  BY <1>4, FsStepKeeps, DriverStepKeeps, DeviceStepKeeps, ZenonT(40)
<1>5. CASE UNCHANGED vars
  <2>1. boot' = boot /\ UNCHANGED <<virtio, ide, vol, fs, blockio>> /\ DOMAIN boot = BootFields
    BY <1>5 DEF vars, fat, DInv, Scripted
  <2> QED
    BY <2>1, StorageKept, ZenonT(40)
<1> QED
  BY <1>1, <1>2, <1>3, <1>4, <1>5, SMTT(30) DEF Next, Kernel

\* Whatever disks and volumes init_all finds, read_sector of the driver it uses
\* fails or returns the sector it was asked for, in every call that is not itself
\* in doubt: the FAT32 reader asks for sectors a u32 can name, one at a time,
\* and a driver value is made only between two calls (drivers/mod.rs, fs.rs,
\* virtio_blk.rs and ide.rs together).
THEOREM BringUpKeepsPromise == Spec => ImplementsBlockDevice
<1>1. DInv /\ [Next]_vars => [Blocks!Next]_Blocks!blockio
  BY DStep, Zenon DEF blockio, Blocks!blockio
<1> QED
  BY <1>1, DStart, DStep, PTL DEF Spec, ImplementsBlockDevice, Blocks!Spec

\* The bring-up leaves the processor of the ring-3 program alone.
LEMMA Ring3Alone == [Next]_vars => [Ring3Next]_ring3
<1> SUFFICES ASSUME [Next]_vars PROVE [Ring3Next]_ring3
  OBVIOUS
<1>1. CASE \/ Interrupts \/ read_datetime \/ MouseStep \/ ControllerStep \/ KeyboardStep
           \/ MouseArmed \/ Detect \/ UserStage
  BY <1>1, Zenon DEF Interrupts, read_datetime, MouseStep, ControllerStep, KeyboardStep, MouseArmed, Detect, UserStage
<1>2. CASE \/ VirtioProbe \/ caps \/ reset_and_negotiate \/ VirtioQueue
           \/ VirtioScript \/ Diagnose \/ Diagnosed \/ probe_all \/ IdeScript
  BY <1>2, Zenon DEF VirtioProbe, caps, reset_and_negotiate, VirtioQueue, VirtioScript, Diagnose, Diagnosed, probe_all, IdeScript
<1>3. CASE FsStep \/ DriverStep \/ DeviceStep
  BY <1>3, Zenon DEF FsStep, DriverStep, DeviceStep
<1>4. CASE UNCHANGED vars
  BY <1>4 DEF vars
<1> QED
  BY <1>1, <1>2, <1>3, <1>4, SMTT(30) DEF Next, Kernel

\* Under the whole of init_all, a call of the ring-3 program returns to the
\* instruction after it with its stack pointer and flags, and the kernel runs
\* it on the syscall stack with interrupts off (lion_syscall_entry,
\* syscall_dispatch).
THEOREM CallsReturnAfterBringUp == Spec => []RoundTrip
<1>1. RInv => RoundTrip
  BY SMTT(30) DEF RInv
<1>2. Init => RInv
  BY RInit DEF Init
<1> QED
  BY <1>1, <1>2, RStep, Ring3Alone, PTL DEF Spec
=============================================================================
