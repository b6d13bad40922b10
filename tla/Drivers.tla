------------------------------- MODULE Drivers -------------------------------
(****************************************************************************)
(* Device bring-up: drivers::init_all (kernel/src/drivers/mod.rs) over the    *)
(* PS/2 controller, the PCI bus, the two block drivers and the FAT32 reader,  *)
(* and the ring-3 program that kernel_main starts last.  The kernel is one    *)
(* sequential process; the 8042, the virtio device, the drive and the         *)
(* keyboard handler run beside it.  What a stage leaves behind and nothing    *)
(* reads later is put back to its initial value when the stage ends.          *)
(****************************************************************************)
EXTENDS Ps2, Pci, VirtioBlk, AtaDisk, Fat32, Ring3

CONSTANTS
  Volumes,      \* what a virtio or an ide disk may store
  Buses,        \* what bus 0 may hold
  Chips,        \* what the fixed registers may answer
  Capacities    \* what IDENTIFY may report

\* Numbers on a disk are unsigned, a boot sector that parse_boot accepts is
\* followed by the FAT it announces, and a directory sector holds slots.
ASSUME DriversAssumption ==
  /\ Capacities \subseteq Nat
  /\ Volumes.ide # {}
  /\ \A v \in Volumes.virtio \cup Volumes.ide :
       /\ v.boot.reserved_sectors \in Nat /\ v.boot.fat_count \in Nat
       /\ v.boot.sectors_per_fat \in Nat /\ v.boot.sectors_per_cluster \in Nat
       /\ v.boot.root_cluster \in Nat
       /\ parse_boot(v.boot) = "Ok" =>
            \A c \in 0 .. (ENTRIES * v.boot.sectors_per_fat - 1) : v.fat[c] \in Nat
       /\ \A lba \in DOMAIN v.dirs : v.dirs[lba] \in Seq(DirSlot)

VARIABLE boot   \* init_all: stage, step of the stage, and its locals

vars == <<boot, hardware, ps2, virtio, ide, fat, blockio, ring3>>

storage == <<virtio, ide, fat, blockio>>

NoVolume == CHOOSE v \in Volumes.ide : TRUE

Init ==
  /\ bus \in Buses /\ chips \in Chips
  /\ Ps2Init /\ Off /\ Detached /\ BlockIoInit /\ Ring3Init
  /\ vol = NoVolume /\ fs = NoCall /\ panicked = FALSE
  /\ boot = [stage |-> "interrupts", step |-> "none", tries |-> 0, entries |-> <<>>,
             cp |-> 0, common |-> 0, disks |-> 0, files |-> 0, reports |-> <<>>]

-----------------------------------------------------------------------------
(* Before the disks *)

\* interrupts::init, long before init_all.
Interrupts ==
  /\ boot.stage = "interrupts"
  /\ interrupts_init
  /\ boot' = [boot EXCEPT !.stage = "rtc"]
  /\ UNCHANGED <<hardware, storage, ring3>>

\* Mutant: wait_update waits until the flag is clear.
read_datetime_Unbounded ==
  /\ boot.stage = "rtc"
  /\ \E updating \in BOOLEAN :
        boot' = IF updating THEN [boot EXCEPT !.tries = (@ + 1) % 4]
                ELSE [boot EXCEPT !.stage = "mouse", !.tries = 0]
  /\ UNCHANGED <<hardware, ps2, storage, ring3>>

\* read_datetime: wait_update looks at the update flag up to four times; then
\* the registers are read and printed, and the bus is enumerated.
read_datetime ==
  /\ boot.stage = "rtc"
  /\ \E updating \in BOOLEAN :
        boot' = IF updating /\ boot.tries < 3 THEN [boot EXCEPT !.tries = @ + 1]
                ELSE [boot EXCEPT !.stage = "mouse", !.tries = 0]
  /\ UNCHANGED <<hardware, ps2, storage, ring3>>

\* mouse::init, with the controller and the keyboard handler around it.
MouseStep ==
  /\ boot.stage = "mouse"
  /\ mouse_init
  /\ UNCHANGED <<boot, hardware, storage, ring3>>

ControllerStep ==
  /\ boot.stage = "mouse"
  /\ Controller
  /\ UNCHANGED <<boot, hardware, storage, ring3>>

KeyboardStep ==
  /\ boot.stage = "mouse"
  /\ KeyPress \/ keyboard_isr
  /\ UNCHANGED <<boot, hardware, storage, ring3>>

MouseArmed ==
  /\ boot.stage = "mouse" /\ kern.pc > Len(Script)
  /\ pic' = Pic /\ ctl' = Ctl /\ input' = Input /\ kern' = Kern
  /\ boot' = [boot EXCEPT !.stage = "virtio", !.step = "probe"]
  /\ UNCHANGED <<hardware, storage, ring3>>

-----------------------------------------------------------------------------
(* The disks *)

firstFile(entries) == Position(entries, LAMBDA e : ~e.is_dir)
firstDir(entries) == Position(entries, LAMBDA e : e.is_dir)

\* A stage that is over forgets its disk.
Leave(stage) ==
  /\ boot' = [boot EXCEPT !.stage = stage, !.step = "probe", !.entries = <<>>, !.cp = 0, !.disks = 0]
  /\ fs' = NoCall /\ vol' = NoVolume
  /\ Attach
  /\ UNCHANGED panicked

\* An Fs call has returned to init_all.
Back(stage, step) ==
  /\ boot.stage = stage /\ boot.step = step
  /\ fs.at = "returned" /\ ~panicked

\* The next call of the script.
Call(b) ==
  /\ boot' = b
  /\ UNCHANGED <<vol, panicked, blockio>>

\* The device VirtioBlk::probe takes: the first one on the list.
Found == Position(probe_bus0, is_virtio_blk)
VirtioChip == probe_bus0[Found]

\* VirtioBlk::probe finds a device, or none.
VirtioProbe ==
  /\ boot.stage = "virtio" /\ boot.step = "probe"
  /\ \/ /\ Found # 0
        /\ boot' = [boot EXCEPT !.step = "caps", !.cp = VirtioChip.first]
        /\ UNCHANGED <<fat, blockio>>
     \/ Found = 0 /\ Leave("ide")
  /\ UNCHANGED <<hardware, ps2, virtio, ide, ring3>>

\* caps: one turn of the walk over the capability list, which has no bound; at
\* the end of the list there must have been common registers.
caps ==
  /\ boot.stage = "virtio" /\ boot.step = "caps" /\ ~panicked
  /\ \/ /\ boot.cp # 0 /\ Overflows(VirtioChip, boot.cp)
        /\ panicked' = TRUE
        /\ UNCHANGED <<boot, vol, fs, blockio>>
     \/ /\ boot.cp # 0 /\ ~Overflows(VirtioChip, boot.cp)
        /\ LET cap == VirtioChip.caps[boot.cp]
           IN  boot' = [boot EXCEPT !.cp = cap.next,
                                    !.common = IF cap.kind = "common" THEN cap.addr ELSE @]
        /\ UNCHANGED <<fat, blockio>>
     \/ /\ boot.cp = 0 /\ boot.common # 0
        /\ boot' = [boot EXCEPT !.step = "negotiate", !.common = 0]
        /\ UNCHANGED <<fat, blockio>>
     \/ boot.cp = 0 /\ boot.common = 0 /\ Leave("ide")
  /\ UNCHANGED <<hardware, ps2, virtio, ide, ring3>>

\* The device keeps FEATURES_OK set, or clears it.
reset_and_negotiate ==
  /\ boot.stage = "virtio" /\ boot.step = "negotiate"
  /\ \/ boot' = [boot EXCEPT !.step = "queue"] /\ UNCHANGED <<fat, blockio>>
     \/ Leave("ide")
  /\ UNCHANGED <<hardware, ps2, virtio, ide, ring3>>

\* The queue is set up and the volume mounted, or the device offers no size the
\* driver takes, or the frames have run out.
VirtioQueue ==
  /\ boot.stage = "virtio" /\ boot.step = "queue"
  /\ \E size \in {0, QSZ, 257}, frames \in BOOLEAN :
        \/ /\ setup_queue(size, frames)
           /\ vol' \in Volumes.virtio
           /\ Attach
           /\ mount
           /\ boot' = [boot EXCEPT !.step = "mount"]
           /\ UNCHANGED panicked
        \/ /\ size \notin 1 .. 256 \/ ~frames
           /\ Leave("ide")
           /\ UNCHANGED virtio
  /\ UNCHANGED <<hardware, ps2, ide, ring3>>

\* mount, ls, and read_path of the first file; a failed mount is diagnosed with
\* one more read of sector 0.
VirtioScript ==
  /\ \/ /\ Back("virtio", "mount")
        /\ \/ fs.ok /\ ls /\ Call([boot EXCEPT !.step = "ls"])
           \/ ~fs.ok /\ fs' = NoCall /\ Call([boot EXCEPT !.step = "diagnose"])
        /\ UNCHANGED virtio
     \/ /\ Back("virtio", "ls")
        /\ LET i == firstFile(fs.out)
           IN  IF fs.ok /\ i # 0
                 THEN /\ read_path(<<display_name(fs.out[i])>>)
                      /\ Call([boot EXCEPT !.step = "read_path"])
                      /\ UNCHANGED virtio
                 ELSE Leave("ide") /\ Drop
     \/ /\ Back("virtio", "read_path") \/ boot.step = "over"
        /\ Leave("ide") /\ Drop
  /\ UNCHANGED <<hardware, ps2, ide, ring3>>

Diagnose ==
  /\ boot.stage = "virtio" /\ boot.step = "diagnose"
  /\ Ask(0)
  /\ boot' = [boot EXCEPT !.step = "diagnosed"]
  /\ UNCHANGED <<hardware, ps2, virtio, ide, fat, ring3>>

Diagnosed ==
  /\ boot.stage = "virtio" /\ boot.step = "diagnosed"
  /\ Consume
  /\ boot' = [boot EXCEPT !.step = "over"]
  /\ UNCHANGED <<hardware, ps2, virtio, ide, fat, ring3>>

\* The first disk, or the next one after a disk that did not mount.
MountDisk(disks) ==
  /\ \E capacity \in Capacities : from_identify(capacity)
  /\ vol' \in Volumes.ide
  /\ Attach
  /\ mount
  /\ boot' = [boot EXCEPT !.step = "mount", !.disks = disks - 1]
  /\ UNCHANGED panicked

\* probe_all: the masters of both channels.
probe_all ==
  /\ boot.stage = "ide" /\ boot.step = "probe"
  /\ \E kind \in [1 .. 2 -> DOMAIN IdentifyStatus], intime \in [1 .. 2 -> BOOLEAN] :
        LET disks == Cardinality({i \in 1 .. 2 : identify(kind[i], intime[i])})
        IN  IF disks = 0 THEN Leave("detect") /\ UNCHANGED ide ELSE MountDisk(disks)
  /\ UNCHANGED <<hardware, ps2, virtio, ring3>>

LeaveIde == Leave("detect") /\ Detach

\* The last call: the first file by its cluster chain.
ReadChain(b) ==
  LET i == firstFile(b.entries)
  IN  IF i # 0 THEN read(b.entries[i].cluster, b.entries[i].size) /\ Call([b EXCEPT !.step = "read"]) /\ UNCHANGED ide
      ELSE LeaveIde

\* The first directory and the first file in it.
ListSub(b) ==
  LET i == firstDir(b.entries)
  IN  IF i # 0 THEN ls_path(<<display_name(b.entries[i])>>) /\ Call([b EXCEPT !.step = "ls_path"]) /\ UNCHANGED ide
      ELSE ReadChain(b)

IdeScript ==
  /\ \/ /\ Back("ide", "mount")
        /\ \/ fs.ok /\ ls /\ Call([boot EXCEPT !.step = "ls", !.disks = 0]) /\ UNCHANGED ide
           \/ ~fs.ok /\ boot.disks > 0 /\ MountDisk(boot.disks)
           \/ ~fs.ok /\ boot.disks = 0 /\ LeaveIde
     \/ /\ Back("ide", "ls") /\ ~fs.ok
        /\ LeaveIde
     \/ /\ Back("ide", "ls") /\ fs.ok
        /\ LET i == firstFile(fs.out)
               b == [boot EXCEPT !.entries = fs.out, !.files = Len(fs.out)]
           IN  IF i # 0
                 THEN read_path(<<display_name(fs.out[i])>>) /\ Call([b EXCEPT !.step = "read_path"]) /\ UNCHANGED ide
                 ELSE ListSub(b)
     \/ /\ Back("ide", "read_path")
        /\ ListSub(boot)
     \/ /\ Back("ide", "ls_path")
        /\ LET i == firstFile(fs.out)
           IN  IF fs.ok /\ i # 0
                 THEN /\ read_path(fs.full \o <<display_name(fs.out[i])>>)
                      /\ Call([boot EXCEPT !.step = "read_sub"])
                      /\ UNCHANGED ide
                 ELSE ReadChain(boot)
     \/ /\ Back("ide", "read_sub")
        /\ ReadChain(boot)
     \/ /\ Back("ide", "read")
        /\ LeaveIde
  /\ UNCHANGED <<hardware, ps2, virtio, ring3>>

FsStep ==
  /\ Fs
  /\ UNCHANGED <<boot, hardware, ps2, virtio, ide, ring3>>

DriverStep ==
  /\ \/ boot.stage = "virtio" /\ xfer /\ UNCHANGED ide
     \/ boot.stage = "ide" /\ read_sector /\ UNCHANGED virtio
  /\ UNCHANGED <<boot, hardware, ps2, fat, ring3>>

DeviceStep ==
  /\ \/ Device /\ UNCHANGED ide
     \/ Drive /\ UNCHANGED virtio
  /\ UNCHANGED <<boot, hardware, ps2, fat, ring3>>

-----------------------------------------------------------------------------
(* After the disks *)

\* The detect-only drivers, one after the other.
Detect ==
  /\ boot.stage = "detect"
  /\ boot' = IF Len(boot.reports) < Len(Reports)
               THEN [boot EXCEPT !.reports = Append(@, Reports[Len(@) + 1])]
               ELSE [boot EXCEPT !.stage = "ring3"]
  /\ UNCHANGED <<hardware, ps2, storage, ring3>>

UserStage ==
  /\ boot.stage = "ring3"
  /\ Ring3Next
  /\ UNCHANGED <<boot, hardware, ps2, storage>>

-----------------------------------------------------------------------------

Kernel ==
  \/ Interrupts \/ read_datetime \/ MouseStep \/ MouseArmed
  \/ VirtioProbe \/ caps \/ reset_and_negotiate \/ VirtioQueue \/ VirtioScript \/ Diagnose \/ Diagnosed \/ probe_all \/ IdeScript
  \/ FsStep \/ DriverStep \/ Detect \/ UserStage

Next == Kernel \/ KeyboardStep \/ ControllerStep \/ DeviceStep

\* The processor runs, and the 8042 takes the bytes written to it: mouse::init
\* waits for that without a bound.  No device is assumed to answer.
Fairness == WF_vars(Kernel) /\ WF_vars(ControllerStep)

Spec == Init /\ [][Next]_vars /\ Fairness

-----------------------------------------------------------------------------
(* Properties *)

Blocks == INSTANCE BlockDevice WITH Sectors <- 0 .. (U32 - 1)

\* Both drivers implement the BlockDevice trait as its callers understand it:
\* read_sector returns true only with the sector it was asked for, unless in
\* this very call the device still held an earlier request, took a leftover
\* ring entry for it or faulted, or the number is too wide for a command.
ImplementsBlockDevice == Blocks!Spec

\* Boot reaches the program's final loop, or panics: on a volume whose geometry
\* overflows 32 bits, on a file or a directory that does not fit the heap, on a
\* capability at the end of the configuration space.  No disk has to answer,
\* and the volume may be linked in any way.  The capability list has to end,
\* since caps follows it without a bound, and the 8042 has to take its bytes.
BringUpEnds == (Found # 0 => CapsEnd(VirtioChip)) => <>(Looping \/ panicked)
=============================================================================
