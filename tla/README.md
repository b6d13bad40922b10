# LionOS verification project

TLA+ models of LionOS, a single-CPU x86_64 kernel (`kernel/`), its ring-3 program (`user/`)
and its host launcher (`launcher/`). Each module is a translation of the source files it
names; `PROJECT.json` maps every definition to the lines it stands for.

## 1. The system

One CPU runs everything. `kernel_main` boots in a straight line: copy and validate the memory
map, initialise the frame allocator, take over the page tables, bring up GDT/TSS, IDT, PIC
and PIT, enable interrupts, map the heap, drain the deferred queue, initialise drivers, spawn
three tasks and rotate through them, and finally descend to ring 3 or idle. Concurrency comes
from three places: interrupt handlers that run between any two instructions of the interrupted
context; tasks that switch stacks cooperatively; devices that act on memory on their own.

| Component | State | Operations | Hard behaviour | Should hold |
|---|---|---|---|---|
| Scheduler (`sched.rs`, `switch.asm`) | ring of PCBs, `current`, `CURRENT_ID`, `IDLE_RSP`, `PIT_KICKS`, one stack per task | `spawn`, `finish`, `tick`, `pump_ticks`, `run_pending_switch`, `idle_loop`, `task_entry`, timer IRQ | kicks coalesce; two bookkeeping indices; a parked task must keep pumping | never resume a dead stack; ring order; the boot context comes back |
| Deferred work (`interrupts.rs`) | ring buffer, head, tail, spinlock | `enqueue` (handlers), `run_deferred` (main) | a handler interrupts the critical section | FIFO, nothing lost, handlers return |
| Heap (`heap.rs`) | address-linked free list, `used` | `init`, `alloc_layout`, `dealloc_layout` | splitting, merging, remainders too small for a node | no byte has two owners; none lost |
| Frames and map (`memory.rs`, `frames.rs`) | validated regions, list of runs, counters | validate, `init`, `allocate`, `deallocate` | unaligned, touching or overlapping regions; full list | one owner per frame; only usable memory |
| Page tables (`paging.rs`) | tables in frames, CR3 | `takeover`, `map_page` and variants, `map_range`, `translate`, `find_free_top_index` | failure half-way down a walk; stale table contents; U/S at every level | a call changes one translation; kernel out of ring 3's reach |
| GDT/TSS (`gdt.rs`) | TSS page, descriptors | `setup`, `set_rsp0` | memory layout read by the processor | the processor sees what was stored |
| User bring-up (`user.rs`, `elf.rs`) | user region, ranges, syscall stack | `bring_up` | order of several fallible steps | everything is in place at the descent |
| System calls and mailbox (`syscall.rs`, `ipc.rs`, `cpu.s`) | mailbox, user range, call counter | dispatch, `user_copy_in`, `send`, `peek`, `drain` | overwrite, truncation, range check | a message is delivered whole; copies stay in user pages |
| virtio-blk, IDE (`drivers/virtio_blk.rs`, `drivers/ide.rs`) | rings in shared memory; task-file registers | `probe`, `xfer`, `read_sector` | the device runs concurrently; timeout and late completion; stale ring contents | a successful read returns the sector asked for |
| Bus and bring-up (`pci.rs`, `drivers/mod.rs`, detect-only drivers) | none that lasts | `probe_bus0`, `init_all` | a long script over devices that may be absent, fail or hang | boot goes on |
| FAT32 (`fs.rs`) | none beyond the volume parameters | `parse_boot`, `list_dir`, `read_file`, `resolve` | failing reads, cyclic or broken chains, the 1000-cluster bound | terminates; `true` from a file read means complete |
| Serial port, spinlock, faults (`serial.rs`, `spinlock.rs`, `idt.rs`) | one lock | `write_*`, fault handlers | a fault inside a write | messages whole; a fault is reported |
| Mouse, keyboard, RTC | packet index and buffer; device registers | byte handler, `init`, `read_datetime` | handler and `init` read one port; registers change while read | packets in step; a time that was |
| Launcher and image build (`install.rs`, `setup.rs`, `selection.rs`, `update.rs`, the two `build.rs`) | saved selection, cached image, tools on PATH, cargo's target directory | provision, build, wizard, download and verify | crash between steps; two downloads; two processes; a build cargo takes for fresh | only verified images are cached; the image is the one selected |
| Drawing (`gfx.rs`) | a pixel plane | pixels, fills, blits, text, windows | clipping at 64 bits | no write outside the plane |
| Widgets, text output, FFI shims | framebuffer pixels | formatting, one-instruction wrappers | none: sequential, stateless | unit tested |

Components interact through the frame pool (page tables, heap, GDT/TSS, virtio and the user
program all draw on it), through the ring of tasks that the boot context is part of, through
the lock of the deferred queue, and through `read_sector`: the FAT reader calls whichever of
the two block drivers `init_all` hands it.

## 2. Modules

| Module | What it models |
|---|---|
| `Scheduler` | the scheduler, the register switch and the part of `kernel_main` that drives it |
| `Allocator` → `Heap` | what `#[global_allocator]` promises → the free list |
| `FramePool` → `FrameAllocator` | a pool of frames → map copy, validation, runs, counters |
| `DeferredQueue` | `enqueue` in handlers against `run_deferred`, one step per access |
| `AddressSpace` → `PageTables`, `UserLayout`, `BootMemory` | pages to frames, one request at a time → four-level tables, and all of their users along the boot path; `UserLayout` has the pages `bring_up` asks for |
| `BlockDevice` → `VirtioBlk`, `AtaDisk` | what the `BlockDevice` trait promises its callers → the two drivers, each with its device; `BlockIo` is the interface between caller and driver |
| `Fat32` | the FAT32 reader, one call of `read_sector` per step |
| `Pci`, `Ps2`, `Ring3` | the bus and what drivers look for; PICs, 8042, mouse and keyboard; syscall stub, dispatcher, mailbox and the ring-3 program |
| `Drivers` | all of these composed by `init_all`'s script |
| `Selection`, `Update`, `ImageBuild`, `Install` | component selection and its file; download and cache; the two build scripts under cargo; provisioning and the install steps |
| `Launcher` | these composed: commands, wizard, detached child, several processes, kills, a publisher |
| `Canvas` | which bytes the drawing operations write (operators only) |
| `Lists` | what Rust's loops and iterator adapters do to a list: fold, retain, position, remove |
| `FoldLemmas` | induction over the naturals, and what the folds of `Lists` compute |
| `KernelProofs`, `HeapProofs`, `FrameAllocatorProofs`, `PageTableProofs`, `BootMemoryProofs`, `DeviceProofs`, `LauncherProofs` | theorems and the lemmas they rest on |
| `MC*` | instances for TLC |

An arrow is a refinement: the right side is checked to implement the left one through
`INSTANCE ... WITH`.

**Scheduler.** Variables carry the names of the fields and statics. A stack pointer is the
context whose stack it points into; `frames` is the set of stacks that carry a switch frame
(made by `alloc_task_stack` or pushed by `context_switch`). Loading any other pointer puts the
CPU into `Wild`. Each loop of `kernel_main`, `idle_loop` and `task_entry` is split between the
pump and the switch, and `TimerIrq` may come between any two steps. `started` and `SCHED_ON`
are always equal and are one variable. The `hlt` of `idle_loop` has no exit: `ffi::hlt` is
`-> !`, and interrupts return into `lion_hlt`'s own loop.

**Heap.** The linked list is the sequence `free` in list order, with header bytes counted.
`live` holds what clients have; `slack` is a history variable: bytes that went with a block
because the remainder could not hold a node. No handler allocates, so operations are atomic.

**FrameAllocator.** The map goes through the copy loop of `kernel_main` (which panics when the
map is longer than its buffer), `validate_regions_bytes` and `init`; `sort_unstable` may order
equal starts either way. `held` and `lost` are history variables: frames in use, and frames
dropped because the list was full. Only whole frames matter, so `FRAME_SIZE` is small.

**DeferredQueue.** Lock, critical section and unlock are separate steps on both sides. While a
handler is active the interrupted context does not move; handlers do not nest. No handler of
the tree calls `enqueue` yet: the model takes the documented use, any handler at any point.

**PageTables and BootMemory.** `mem` maps table frames to tables; a virtual address is its
page number. Top-level entries follow the bootloader's layout, whose tables hold huge pages.
Frames the allocator hands out hold stale entries until `zero_table` runs. Each `expect` that
fails leads to `stopped`, and the loops of `map_range` and `bring_up` take one step per page,
so the pool can run dry at any level of any walk. The TSS is an array of 32-bit words:
`StoreU64` uses the offsets `repr(C)` gives, `LoadU64` the processor's. The bootloader gives a
physical-memory window (`BOOT_CONFIG`), or the kernel prints that there is none and stops at the
first step that needs it (`NoWindow`); physical contents of data pages are not modelled.
`AddressSpace` is asked for a page with rights and grants or refuses that request: `Wanted` says
which request the boot path stands at, so a mapping of another page, or with other rights, is no
step of it. The
embedded program is a file (`elf`): `entry_point` and `load_segments` accept or refuse it as
elf.rs does, with its magic, class, headers and how many of them lie inside the file.

**Block devices.** `asked` is the argument of the running `read_sector`, `got` its result and
`buf` the caller's buffer: the number of the sector whose contents it holds, `Blank` or `Junk`.
`BlockDevice` says that a call fails, with anything in the buffer, or succeeds with the sector
it was asked for. `doubt` is a history variable: what happened in the running call that the
driver does not look for. There are four: the device still held a request of an earlier call
when this one was published (`late`); it took a leftover ring entry for the request (`stale`);
the sector number has more than the 28 bits of the command (`wide`); the drive dropped BSY with
neither DRQ nor ERR (`fault`). A call in doubt may return another sector. Doubt starts empty in
every call, so a time-out excuses only the calls that the late request really touches. What the
code then does is not hidden: `virtio_late` shows a wrong sector returned with `true`. In
`VirtioBlk` the writes to the request frame are one step, then `avail.idx`, the ring entry, the
sample of `used.idx` and the notification one each, in program order; the device fetches after a
notification, finishes requests in any order, and keeps working after `xfer` gave up. The
frames are not cleared: a ring entry that nobody wrote may make no request at all, name the
driver's own descriptor, or lead to a leftover descriptor (`Stray`).

**Fat32.** `vol` is what the disk stores; `fs` is the running call with its loop variables.
The composition of several calls (`resolve` listing each directory on the way) is one record
with the path that is left. Arithmetic beyond 32 bits sets `panicked`, as the dev profile that
`build_disk` uses makes it do, and so may an allocation of more than `ROOM` elements, which
stands for the 64 KiB heap. `Entries`, `FileBytes` and `Lookup` are the reference
definitions the properties compare with.

**Ps2.** A byte is the set of its bits. `mouse::init` is the list of what it writes, each after
a wait; the controller and both handlers run between any two of them.

**Ring3.** `cpu` holds the registers the stub uses. `call` is a history variable: what the
program had when it executed `syscall`.

**Drivers.** `boot` is the position in `init_all`. When a stage ends, what no later stage reads
goes back to its initial value, which keeps the state space small and changes nothing else. The
capability walk of `caps` is one step per capability, over lists that end, that lack the common
registers, that run past 255 and that never end. The product `n * notify_mult` of `notify` is
taken to fit.

**Launcher.** `proc[p].at` is the line a process stands at; one step is one external effect (a
child process, a download, one half of a file write). cargo is external: a lock, the value of
`LIONOS_COMPONENTS` the kernel artifact was built with, and whether the image script is fresh.
Every cargo step and the copy of the image may fail.

**Canvas.** An operation is the set of byte offsets it writes; colours are left out, and a
text line is the set of bytes it may write, since which of them it does depends on the font.

## 3. Runs

| Run | Shows |
|---|---|
| `scheduler` | `LiveStack`, `RunningSlot`, `ClosureAtomic`, `MarkerHonest`, `RoundRobin`, and under fairness `BootProceeds` (the wait loop ends) and `BootReacquires` (the CPU always comes back to the boot context) |
| `scheduler_starvation` | violation: after `idle_loop`'s first round no task runs again (sched.rs:252) |
| `heap` | `BlocksDisjoint`, `UsedIsLive`, `Conservation`, and that `Heap` implements `Allocator` |
| `frames` | `NoDoubleHandout`, `FramesAreUsable`, `Accounting`, and that `FrameAllocator` implements `FramePool` |
| `deferred_queue` | `MutualExclusion`, `FifoOrder`, `AcceptedWorkRuns` |
| `deferred_queue_spin` | violation: a handler that interrupts the drain spins for ever (interrupts.rs:154) |
| `boot_memory` | `KernelStaysSupervisor`, `OneUsePerFrame`, `ReadyForRing3`, and that the tables implement `AddressSpace` |
| `boot_memory_fault_stack` | violation: the processor does not read the double-fault stack (gdt.rs:126) |
| `devices` | both drivers implement `BlockDevice` (`ImplementsBlockDevice`); `true` from a file read means exactly the file's bytes (`FilesExact`), from a listing the entries in order or a leading part of them (`ListingsHonest`); system calls return where they came from (`RoundTrip`); boot ends, in the program or in a panic, whatever the disks do (`BringUpEnds`) |
| `virtio_late` | violation: a completion that comes after a time-out is taken for the next request (virtio_blk.rs:238) |
| `mouse` | violation: no mouse packet ever arrives (interrupts.rs:250) |
| `launcher` | `CacheVerified`, `BuiltAsSelected`, `ToolsBeforeBuild` with two processes, kills, failing builds and a changing release |

Bounds.
- Scheduler: the real ring (three tasks and idle) and one `spawn` too many. `Iterations`,
  `SpinLimit` and `KickCap` are 3: the code only compares them with zero or their limit.
  `switches` saturates at the value the wait loop compares with.
- Heap: 120 bytes with layouts that round, split, leave eight bytes over and do not fit; up to
  five blocks at a time, which gives every shape of neighbourhood a merge can meet.
- Frames: frames of four bytes, maps of up to four regions that straddle the floor, begin and
  end inside frames, touch, overlap or are empty; a run list of three, so that it fills.
- Deferred queue: a ring of three and six calls: it wraps around twice and overflows.
- Boot memory: two entries per table, five at the top; every pool size from none to more than
  enough; bootloader layouts that leave the user program a low region, a high one or none;
  six program files, from the linked one to one without magic.
- Devices: sectors of two bytes and four FAT entries, so that names, files and chains cross
  sectors and clusters; `WALK` is 3, `U32` is 96, `EOC` 60, `LBA28` 16 and `ROOM` 2, so that
  the bound, the overflow, the sentinel, the truncated address and the full heap are all met;
  ring indices modulo 4 over a queue of two; nine volumes (regular, cyclic, chain outside the
  FAT, file ending inside a cluster, file beyond the 28-bit sectors, not FAT, FAT16, far root,
  huge FAT); four leftovers of the ring frames; five buses. The device works on one request at a
  time (`DEPTH`); the proof has no such bound. `virtio_late` needs two sectors and clean frames.
- Mouse: one key and two movements.
- Launcher: two processes and two disks (symmetric), two components (one required), five hosts
  that lack different tools; `COMMANDS` and `RELEASES` are set per host, and the host that
  lacks nothing gets the third command, so that a build can follow two others.

Fairness. `Scheduler!FairSpec` assumes that the CPU executes and that the PIT fires again and
again: it is programmed as a periodic source and interrupts stay on in every modelled loop.
`DeferredQueue!FairQueueSpec` assumes only that the CPU executes, handler first. `Drivers!Spec`
assumes that the CPU executes and that the 8042 takes the bytes written to it: `wait_cmd_ready`
spins on that without a bound (mouse.rs:90). No disk is assumed to answer. `BringUpEnds` also
assumes that the capability list of the virtio device ends, since `caps` follows it without a
bound; the panics it allows are an overflow of sector arithmetic, a file or directory beyond the
heap, and a capability that runs past 255. `Ps2!Ps2Spec` adds
that delivered interrupts are taken and that the controller passes bytes on; without that
`MouseMoves` would fail for want of hardware. No action gets strong fairness. `Launcher` has no
liveness: a process may be killed or left waiting for a key. Deadlock checking is off where the
model may rest: `DeferredQueue` when the drain is done and no interrupt is left (and when a
handler spins), `FrameAllocator` after the panic of the copy loop, `Drivers` in the program's
final loop or after a panic, `Ps2` and `Launcher` when nothing is left to do.

## 4. Proofs

Proved for every value of the constants that satisfies the named assumptions. TLC evaluates
the assumptions in the runs. Beyond the types of the constants they say:

- `BoundsAssumption`, `NamesAssumption` (scheduler): a ring with at least one slot; the wait
  loop waits for at least one switch; names of contexts are not numbers.
- `ArenaAssumption`, `LayoutsAssumption` (heap): the arena is aligned, a layout is not empty.
- `FramesAssumption`: the floor is the start of a frame, as `kernel_main` rounds it.
- `TablesAssumption`, `BootAssumption`: the top table is the largest; a bootloader's layout is
  a set of top-level indices.
- `LinkAssumption`: what user/linker.ld and the build give the embedded program. No two loaded
  segments share a page, they and the stack fit into a region, and the entry is in the text.
- `Fat32Assumption`, `DriversAssumption`: numbers on a disk are unsigned, and a boot sector
  that `parse_boot` accepts is followed by the FAT it announces. Nothing is assumed about
  chains, directories or names.
- `VirtioAssumption`: the queue size divides the range of the ring index. `Ring3Assumption`,
  `QueueAssumption`: types only.
- `RosterAssumption`: the component table is not empty and no key is a separator.
  `InstallAssumption`: a placeholder is no digest.

**Scheduler** (`KernelProofs`). `StackSafety` (`LiveStack`), `RunningSlotCorrect`,
`ClosuresAreAtomic`, `RoundRobinOrder`, `TypeCorrect`. `LiveStack` alone is not inductive: it
speaks of the selected slot, and the next switch selects another. `Inv` therefore says that
every slot of the closed ring other than the running one holds its owner's pointer and that
this owner's stack carries a frame; that the running context has none; that `CURRENT_ID` names
the running context; and that without a pending switch `current` equals `CURRENT_ID`.
`MarkerIsHonest` (`MarkerHonest`) adds how far a rotation has come: the slots before the
running one have completed their closures and the ones after it have not begun, which holds
because the ring is left in order and boot is its last slot.

**Deferred queue** (`KernelProofs`). `Exclusion`, `QueueTypeCorrect`, `Fifo`. `FifoOrder` needs
exclusion (the two sides never see each other's half-done work), the fact that every slot from
head to tail holds an item, and ring distances (`RingFacts`).

**Canvas** (`KernelProofs`). `PixelsApart`, `FillExact`, `DrawsInside`, `BlitInside`,
`FocusIsVisible`, from `Canvas::new`'s checks alone, at 64 bits. `BlitInside` assumes that the
left edge is on the canvas and `FocusIsVisible` that no window reaches past the last number:
section 5 says why. The products are nonlinear, so monotonicity and distribution are lemmas and
the leaves see the products as names. No TLC run repeats them: TLC's integers have 32 bits.

**Heap** (`HeapProofs`). `NoOverlap` (`BlocksDisjoint`), `Refinement` (`ImplementsAllocator`),
`TypeCorrect`: lemmas describe the three list operations, and both steps reduce to replacing
one free block by parts of it, or several free blocks by one that covers exactly them. No
ordering of the list is needed, which is why safety survives although the list is not sorted.
`UsedIsExact` (`UsedIsLive`) and `BytesConserved` (`Conservation`) are about sums over the
blocks. A sum over a finite set is additive over disjoint parts (by induction on the size of
the set), so a split, a merge or a new block changes the sums by what it changes in the blocks.
Disjointness is needed here too: two live blocks at one address would be counted once.

**Frames** (`FrameAllocatorProofs`). `OneOwner` (`NoDoubleHandout`), `OnlyUsableFrames`,
`CountersExact` (`Accounting`), `AllocatorIsPool` (`ImplementsPool`). `sort_and_merge` runs over
the whole list on every call, so the proofs carry no fact about single runs through it: they
show that sorting and merging keep the set of frames the list covers, that the result is sorted
with gaps in between, and that the lengths of such runs add up to the size of that set.
Validation gives the same for the regions of the map.

**Page tables** (`PageTableProofs`, `BootMemoryProofs`). `TablesAreAddressSpace`
(`ImplementsAddressSpace`), `SupervisorKept` (`KernelStaysSupervisor`), `FramesAccounted`
(`OneUsePerFrame`), `DescentReady` (`ReadyForRing3`), `BootTypes`. None of these is inductive,
because each speaks of translations, and one entry decides the translation of many pages. The
invariant says that the tables are a tree: some assignment of levels gives the root level 4,
every other table one parent entry and the level below its parent's, and everything else none
(`Tree`). A step of `map_page_impl` then changes the tree at one leaf, and what a walk returns
for any other page follows. `Accounted` says which frames are tables, data, the drivers' or
dropped; `Tops` that a top-level entry carries the user bit just in the user region; `Queued`
and `Program` that what is left to map lies in its region and what was asked for before is
mapped. A mapping that fails half-way leaves a shorter path in the tree, and its data frame
among the dropped ones. For `DescentReady` the segments of the program are followed through
`load_segments`, the fold of `bring_up` and the page loop.

**Devices** (`DeviceProofs`). `AtaKeepsPromise` and `VirtioKeepsPromise`: each driver with its
device, called for any sector, implements `BlockDevice`. For ATA the invariant ties the address
in the drive's registers to the sector asked for. For virtio it has three parts. `VType` has the
types. `VRing` says what the ring holds: the entries that have been published since the queue
was set up name the driver's descriptor, and only an entry not yet written may be a leftover.
`VCall` says what makes a moved `used.idx` mean "my request" in a call without doubt: nothing was
held when the request was published, so everything the device has in hand is that request, which
is unfetched, fetched, written or over, and `used.idx` differs from the sample only when it is
over. Nothing is said of a call in doubt, and nothing has to be carried from one call to the
next beyond `VType` and `VRing`, which is why an earlier time-out excuses nothing by itself.
`BringUpKeepsPromise` (`ImplementsBlockDevice`) is the composition: under the whole
of `init_all`, with the FAT reader as the caller. What it adds is that the reader only ever
asks for sectors that a `u32` can name, which rests on `parse_boot`'s checks and on the test
for the end of a chain before each step (`FsInv`), and that a driver is attached in its own
stage only (`Attached`). `CallsReturnAfterBringUp` and `CallsReturn` (`RoundTrip`): the
invariant records for each control point which of register and pushed slot carries the caller's
address, flags and stack.

**Launcher** (`LauncherProofs`). `ToolsFirst` (`ToolsBeforeBuild`), `CacheIsVerified`
(`CacheVerified`), `BuildIsAsSelected` (`BuiltAsSelected`), for any number of processes, hosts,
components and disks. Each has an invariant that says label by label what a process has reached
(`ToolsOf`, `DiskOf`, `SelectionOf`, `BuildOf`) and one about what is shared. `CacheInv` needs
that a downloaded checksum file vouches for a disk that was published, and that a writer which
is alone finds its first half still there. `BuildInv` needs that the lock on os/target keeps
others away between the kernel and the image, and what cargo's freshness means: an image that is
up to date was made from the environment that cargo remembers. That the image has exactly the
selected components, and that config.toml gives them back, are lemmas about `csv`,
`generate_manifest`, `to_toml` and `from_toml` on lists of any length.

Induction. The library's induction rules take an operator, which the provers cannot
instantiate. `FoldLemmas` states induction with the set of the numbers that have the property
instead, from the well-foundedness of `<` (`LeastElement`, `Induction`, `BoundedInduction`), and
derives that the function a fold chooses exists and runs through the list from left to right
(`FoldRun`). What a particular fold computes is then one step of the loop. `Lists` takes the
place of SequencesExt because proofs that reach Bags are ten times as expensive.

Only model-checked: liveness (`BootProceeds`, `BootReacquires`, `AcceptedWorkRuns`,
`BringUpEnds`), which is outside the prover's reach, and `FilesExact` and `ListingsHonest`: they
compare what a walk has collected with a reference that reads the same chain to its end, over
recursive paths and directories, and need for each call in progress what all of its earlier
sectors held.

## 5. Where the code and its comments differ

Shown by the five violation runs: `idle_loop` never gets past its first `hlt`; a virtio request
that completes late is taken for the next one; `enqueue` can spin for ever; `TaskStateSegment` is `repr(C)` and not packed, so the processor
reads RSP0 and IST1 four bytes before the place where the kernel stores them. Its size is 112,
not the 104 that gdt.rs:316 gives. `remap` masks the master PIC's cascade line, so unmasking
the mouse on the slave has no effect; and with that line open `MouseMoves` would still fail:
`mouse::init` may read the configuration byte before the controller has put it there
(mouse.rs:109), and the mouse's acknowledge byte counts as the first byte of a packet.

Seen while reading, without a run of their own:

- Tasks and heap: main.rs:44-45 says `ROTATIONS` grows across the tasks and that they are
  preempted mid-count; each stores a counter of its own from 1 on, and no switch happens inside
  a closure (`ClosureAtomic`). heap.rs:10-12 says freed memory is merged with its neighbours; a
  split tail pushed at the head of the list leaves it unordered and touching blocks apart.
  run_deferred is called once (main.rs:645), so work enqueued after it would stay in the ring.
- Memory and ring 3: paging.rs:359 says intermediate entries stay supervisor, the code gives
  them the user bit, as it must; syscall.rs:200 says a copy stays within mapped user pages, but
  the range starts one page before the first segment; `load_segments` does not look at the ELF
  class that `entry_point` checks.
- System calls: docs/SYSCALLS.md gives `puts` a count and `exit` no return, the dispatcher
  returns 0 from both; the stub does not preserve the caller's `r13`, which the document says
  it does; syscall.rs:70-73 says `sysretq` loads CS from STAR[63:48] and SS from 8 above, the
  processor adds 16 and 8 (the model does what the processor does, and `RoundTrip` claims
  nothing about the two selectors). The program starts with flags 0x2, so interrupts are off in
  ring 3 too and SFMASK changes nothing.
- Block devices: ide.rs:134 promises an untouched buffer on a failed read, which line 159 does
  not keep; ide.rs:153 says DRQ is set where only BSY and ERR were looked at; IDENTIFY's capacity
  has 32 bits and the command 28. mouse.rs:110 says that the translate
  bit is set, line 111 clears it.
- PCI: in a slot with several functions, function 0 is listed only if no other one answers; the
  modern id virtio_blk.rs looks for is 0x1041, the number of a network device.
- FAT32: `list_dir` returns `true` for a listing that a failed FAT read or the bound cut short
  (`ListingsHonest` says a leading part); `read_file` calls an empty file without a cluster a
  failure, which `FilesExact` does not judge. fs.rs:14-15 and 152 still say short names only and
  no subdirectories; the code and its tests have both. A first file of more than 64 KiB stops
  the boot in the allocator (heap.rs:248, fs.rs:409).
- Drawing: `blit_from` says it is clipped to both surfaces, but an edge far enough right of the
  canvas makes `buf.len() - dst_off` negative; `covers` adds without saturation where
  `fill_rect` saturates; a title longer than its window is clipped to the canvas and not to the
  window (gfx.rs:281-282); `set_pixel` takes `bpp` bytes of a `u32`, so `bpp` above 4 panics.
- Launcher: config.toml is saved for a re-run and never read (install.rs:546); the build does
  not prepend the staged directory (install.rs:404); the pinned hash is a placeholder, so the
  direct rung always fails; `ensure_build_tools` looks up only the compiler again after the
  package manager ran, so `install` may build without nasm, zig or mtools (`ToolsBeforeBuild`
  speaks of `setup` and of QEMU); an image that is published between the two downloads is
  refused; a cache file left half-written is booted unchecked by
  `run --kernel`; when target/bios.img is removed and the image script is fresh, cargo does not
  make it again and `build_disk` fails; the welcome page offers [Q] and ignores it; key 0
  toggles the first component.

## 6. Not modelled

- Output: serial formatting, boot text, fonts and glyph data, colours, window decoration, the
  graphics demo and the widgets. Sequential, without state that outlives a call, unit tested.
- IDT and fault handlers: they run after a processor exception, which no modelled behaviour
  raises; that a fault inside a serial write would spin on the serial lock is in the hazards.
- Registers that a driver reads only to print; the PIT and the speaker; MMIO and FFI wrappers
  of one instruction; the C, C++ and Zig routines, which no modelled path depends on.
- The six RTC values (printed, not read again), the deltas of a mouse packet, scancodes: pure
  conversions.
- Wording and argument parsing of the launcher, HTTP parsing, tar unpacking, the packaging
  scripts, the fuzz targets. `validate_regions` (frame numbers) is reached by host tests and
  fuzzing only.
- Memory ordering beyond program order: x86 keeps stores in order and the accesses are
  volatile.

## 7. What would come next

`FilesExact` and `ListingsHonest` as theorems; a run in which the device works on several
virtio requests (`DEPTH` above 1), which the proof already covers; the serial lock against the
fault handlers, once exceptions have a source in the model.
