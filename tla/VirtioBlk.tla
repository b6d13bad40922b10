------------------------------ MODULE VirtioBlk ------------------------------
(****************************************************************************)
(* The virtio-blk driver (kernel/src/drivers/virtio_blk.rs) and the device   *)
(* at the other end of its virtqueue.  Driver and device share memory: the   *)
(* available ring, the used ring and the one request frame that every        *)
(* request reuses.  The device works on its own and may be slow: it can      *)
(* fetch or finish a request after xfer has stopped waiting for it.  The     *)
(* frames come from the allocator as they are: the ring may hold entries and *)
(* the descriptor frame descriptors that nobody wrote for this device.       *)
(****************************************************************************)
EXTENDS BlockIo, Lists

CONSTANTS
  IDX,       \* the ring indices count modulo IDX (2^16)
  QSZ,       \* a queue size the device offers and the driver accepts
  DEPTH,     \* requests the device works on at once
  Leftovers, \* what the frames of the rings may hold before: used.idx, entries
  DiskSize   \* sectors the device has

ASSUME VirtioAssumption == IDX \in Nat /\ QSZ \in 1 .. (IDX - 1) /\ IDX % QSZ = 0

VARIABLES
  drv,   \* the driver: control point, avail_head, done
  mem,   \* the frames: avail.idx, ring, used.idx, request header, data, status
  dev    \* the device: kicked, next ring entry, requests, indices, broken

virtio == <<drv, mem, dev>>

\* A leftover ring entry that names a leftover descriptor, and the request the
\* device makes of it.  An entry that makes no request at all is Junk, and 0 is
\* the driver's own descriptor.
Stray == -4

NoDriver == [pc |-> "off", head |-> 0, done |-> 0]
NoFrames == [avail |-> 0, ring |-> [i \in 0 .. (QSZ - 1) |-> Junk], used |-> 0,
             header |-> Junk, data |-> Junk, status |-> 0]
Idle == [kicked |-> FALSE, last |-> 0, inflight |-> <<>>, written |-> 0, completed |-> 0, broken |-> FALSE]

Off == drv = NoDriver /\ mem = NoFrames /\ dev = Idle

\* setup_queue: the size the device offers is accepted and there are four frames
\* for the queue.  They are not cleared.
setup_queue(size, frames) ==
  /\ drv.pc = "off"
  /\ size \in 1 .. 256 /\ frames
  /\ drv' = [drv EXCEPT !.pc = "idle"]
  /\ \E old \in Leftovers :
        mem' = [mem EXCEPT !.used = old.used, !.ring = [i \in 0 .. (QSZ - 1) |-> old.slot]]
  /\ UNCHANGED dev

-----------------------------------------------------------------------------
(* xfer: one READ of one sector *)

\* Header, status and descriptors of the request.
XferRequest ==
  /\ drv.pc = "idle" /\ asked # None
  /\ drv' = [drv EXCEPT !.pc = "index"]
  /\ mem' = [mem EXCEPT !.header = asked, !.status = 0]
  /\ UNCHANGED <<dev, blockio>>

\* The device still has something to do for an earlier call.
Held == dev.last # mem.avail \/ dev.inflight # <<>> \/ dev.written > 0

\* avail.idx counts the request before its ring entry is written.
XferIndex ==
  /\ drv.pc = "index"
  /\ drv' = [drv EXCEPT !.pc = "slot"]
  /\ mem' = [mem EXCEPT !.avail = (drv.head + 1) % IDX]
  /\ doubt' = IF Held THEN doubt \cup {"late"} ELSE doubt
  /\ UNCHANGED <<dev, asked, got, buf>>

XferSlot ==
  /\ drv.pc = "slot"
  /\ drv' = [drv EXCEPT !.pc = "sample", !.head = (@ + 1) % IDX]
  /\ mem' = [mem EXCEPT !.ring[drv.head % QSZ] = 0]
  /\ UNCHANGED <<dev, blockio>>

XferSample ==
  /\ drv.pc = "sample"
  /\ drv' = [drv EXCEPT !.pc = "notify", !.done = mem.used]
  /\ UNCHANGED <<mem, dev, blockio>>

XferNotify ==
  /\ drv.pc = "notify"
  /\ drv' = [drv EXCEPT !.pc = "poll"]
  /\ dev' = [dev EXCEPT !.kicked = TRUE]
  /\ UNCHANGED <<mem, blockio>>

\* Mutant: the status byte is not looked at.
XferDone_NoStatus ==
  /\ drv.pc = "poll" /\ mem.used # drv.done
  /\ drv' = [drv EXCEPT !.pc = "idle"]
  /\ buf' = mem.data
  /\ Answer("true")
  /\ UNCHANGED <<mem, dev>>

\* used.idx moved: the data is copied out, whatever the status byte says; the
\* status byte decides what is returned.
XferDone ==
  /\ drv.pc = "poll" /\ mem.used # drv.done
  /\ drv' = [drv EXCEPT !.pc = "idle"]
  /\ buf' = mem.data
  /\ Answer(IF mem.status = 0 THEN "true" ELSE "false")
  /\ UNCHANGED <<mem, dev>>

\* The polling loop runs out.  The request stays published.
XferTimeout ==
  /\ drv.pc = "poll" /\ mem.used = drv.done
  /\ drv' = [drv EXCEPT !.pc = "idle"]
  /\ Answer("false")
  /\ UNCHANGED <<mem, dev, buf>>

xfer == XferRequest \/ XferIndex \/ XferSlot \/ XferSample \/ XferNotify \/ XferDone \/ XferTimeout

-----------------------------------------------------------------------------
(* The device *)

\* It looks at the ring only after a notification and reads the entry, which
\* may not be written yet, and then the header that the entry leads to.  It
\* stops for good on an entry that makes no request.
DeviceFetch ==
  /\ dev.kicked /\ ~dev.broken /\ dev.last # mem.avail
  /\ Len(dev.inflight) + dev.written < DEPTH
  /\ LET entry == mem.ring[dev.last % QSZ]
     IN  /\ dev' = IF entry = Junk THEN [dev EXCEPT !.broken = TRUE]
                   ELSE [dev EXCEPT !.last = (@ + 1) % IDX,
                                    !.inflight = Append(@, IF entry = Stray THEN Stray ELSE mem.header)]
         /\ doubt' = IF entry = Stray THEN doubt \cup {"stale"} ELSE doubt
  /\ UNCHANGED <<drv, mem, asked, got, buf>>

DeviceSettle ==
  /\ dev.kicked /\ ~dev.broken /\ dev.last = mem.avail
  /\ dev' = [dev EXCEPT !.kicked = FALSE]
  /\ UNCHANGED <<drv, mem, blockio>>

\* Requests finish in any order; a failed one leaves the data undefined, and a
\* stray one has its data and its status elsewhere.
DeviceWrite ==
  /\ \E i \in DOMAIN dev.inflight, ok \in BOOLEAN :
        /\ ok => dev.inflight[i] < DiskSize
        /\ mem' = IF dev.inflight[i] = Stray THEN mem
                  ELSE [mem EXCEPT !.data = IF ok THEN dev.inflight[i] ELSE Junk,
                                   !.status = IF ok THEN 0 ELSE 1]
        /\ dev' = [dev EXCEPT !.inflight = Without(@, i), !.written = @ + 1]
  /\ UNCHANGED <<drv, blockio>>

DeviceComplete ==
  /\ dev.written > 0
  /\ dev' = [dev EXCEPT !.written = @ - 1, !.completed = (@ + 1) % IDX]
  /\ mem' = [mem EXCEPT !.used = dev'.completed]
  /\ UNCHANGED <<drv, blockio>>

Device == DeviceFetch \/ DeviceSettle \/ DeviceWrite \/ DeviceComplete

\* The driver value is dropped; its frames are never given back, so a device
\* that still writes them disturbs nothing.
Drop == drv' = NoDriver /\ mem' = NoFrames /\ dev' = Idle

-----------------------------------------------------------------------------
(* The driver and the device with a caller that asks for any of sectors, one  *)
(* call after the other.                                                      *)

VirtioInit == BlockIoInit /\ Off

VirtioNext(sectors) ==
  \/ ((\E lba \in sectors : Ask(lba)) \/ Consume) /\ UNCHANGED virtio
  \/ setup_queue(QSZ, TRUE) /\ Attach
  \/ Drop /\ Attach
  \/ xfer
  \/ Device

\* A call that returns true has the sector it was asked for in the buffer: when
\* xfer sees used.idx move, "a completion arrived (single-flight -> our
\* request)", also after an earlier call gave up waiting.
SectorAsAsked == [][got' = "true" /\ got = "none" => buf' = asked]_<<virtio, blockio>>
=============================================================================
