--------------------------- MODULE FrameAllocator ----------------------------
(****************************************************************************)
(* From the boot memory map to physical frames: kernel_main copies and       *)
(* validates the map (main.rs, memory.rs), initialises the frame allocator   *)
(* over its usable regions above the floor (frames.rs), and the kernel then  *)
(* takes and returns frames.  Interrupts are off or never allocate, so every *)
(* operation is atomic.  Regions are [start, end, kind] in bytes.            *)
(****************************************************************************)
EXTENDS Integers, FiniteSets, Lists

CONSTANTS
  FRAME_SIZE,
  MAX_REGIONS,   \* capacity of the map buffers
  MAX_RUNS,      \* capacity of the run list
  Maps,          \* the memory maps the bootloader may hand over
  floor          \* end of the kernel image, rounded up, plus a margin

ASSUME FramesAssumption ==
  /\ FRAME_SIZE \in Nat \ {0}
  /\ MAX_REGIONS \in Nat \ {0} /\ MAX_RUNS \in Nat \ {0}
  /\ floor \in Nat /\ floor % FRAME_SIZE = 0
  /\ \A m \in Maps : m \in Seq([start : Nat, end : Nat, kind : STRING])

None == -1   \* Option::None, beside the frame numbers
Unit == -2   \* an operation without result

VARIABLES
  map,         \* boot_info.memory_regions
  phase,       \* "boot", then "ready" or how the boot path left it
  runs,        \* runs[..run_count], each [start, count] in frames
  total, allocated,
  held,        \* frames whose owner has not given them back
  lost,        \* frames deallocate dropped
  answer       \* what the last operation returned

vars == <<map, phase, runs, total, allocated, held, lost, answer>>

-----------------------------------------------------------------------------
(* Sorting and merging *)

\* sort_unstable_by start: the order of equal starts is not determined.
SortedByStart(s) ==
  {t \in {[i \in 1 .. Len(s) |-> s[p[i]]] : p \in Bijection(1 .. Len(s), 1 .. Len(s))} :
     \A i \in 1 .. (Len(t) - 1) : t[i].start <= t[i + 1].start}

\* One iteration of the merge loops.
Extend(merged, r) ==
  LET last == Len(merged)
  IN  IF last # 0 /\ merged[last].start + merged[last].count = r.start
        THEN [merged EXCEPT ![last].count = @ + r.count]
        ELSE Append(merged, r)

MergeAdjacent(s) == FoldList(Extend, <<>>, s)

free_frames(rs) == FoldList(LAMBDA n, r : n + r.count, 0, rs)

-----------------------------------------------------------------------------
(* Boot *)

Usable(rs) == Keep(rs, {r \in Range(rs) : r.kind = "Usable"})

\* Mutant: only the next region is compared.
Overlap_NextOnly(rs) ==
  \E i \in 1 .. (Len(rs) - 1) :
    rs[i].kind = "Usable" /\ rs[i + 1].kind = "Usable" /\ rs[i + 1].start < rs[i].end

\* rs is sorted by start; only pairs of usable regions are compared.
Overlap(rs) ==
  \E i, j \in 1 .. Len(rs) :
    /\ i < j
    /\ rs[i].kind = "Usable" /\ rs[j].kind = "Usable"
    /\ rs[j].start < rs[i].end

validate_regions_bytes(rs) ==
  IF \E i \in 1 .. Len(rs) : rs[i].start >= rs[i].end THEN "ZeroLength"
  ELSE IF Overlap(rs) THEN "Overlap" ELSE "Ok"

RoundUp(x) == (x + FRAME_SIZE - 1) \div FRAME_SIZE

Clip(r) == IF r.start > floor THEN r.start ELSE floor

\* Mutant: the start is rounded down.
Run_RoundDown(r) ==
  LET first == Clip(r) \div FRAME_SIZE
  IN  [start |-> first, count |-> (r.end \div FRAME_SIZE) - first]

\* The whole frames of a region above the floor.
Run(r) == [start |-> RoundUp(Clip(r)), count |-> (r.end \div FRAME_SIZE) - RoundUp(Clip(r))]

\* FrameAllocator::init's first loop: regions without a whole frame are skipped.
Collected(rs) ==
  LET kept == Keep(rs, {r \in Range(rs) : r.end > floor /\ Run(r).count > 0})
  IN  [i \in 1 .. Len(kept) |-> Run(kept[i])]

InitFrames(rs) ==
  LET collected == Collected(rs)
  IN  IF Len(collected) > MAX_RUNS
        THEN UNCHANGED <<runs, total, allocated>>          \* Err(TooManyRuns)
        ELSE \E sorted \in SortedByStart(collected) :
               /\ runs' = MergeAdjacent(sorted)
               /\ total' = free_frames(runs')
               /\ allocated' = 0

Init ==
  /\ map \in Maps
  /\ phase = "boot"
  /\ runs = <<>> /\ total = 0 /\ allocated = 0
  /\ held = {} /\ lost = {} /\ answer = Unit

\* The copy loop of kernel_main indexes a buffer of MAX_REGIONS: a longer map
\* panics there, before it could be rejected.
CopyPanics ==
  /\ phase = "boot"
  /\ Len(map) > MAX_REGIONS
  /\ phase' = "panic"
  /\ UNCHANGED <<map, runs, total, allocated, held, lost, answer>>

\* LIONOS_MEM_MAP_ERROR: the kernel goes on without frames.
MapRejected ==
  /\ phase = "boot"
  /\ Len(map) <= MAX_REGIONS
  /\ \E rs \in SortedByStart(map) : validate_regions_bytes(rs) # "Ok"
  /\ phase' = "ready"
  /\ UNCHANGED <<map, runs, total, allocated, held, lost, answer>>

MapAccepted ==
  /\ phase = "boot"
  /\ Len(map) <= MAX_REGIONS
  /\ \E rs \in SortedByStart(map) :
       validate_regions_bytes(rs) = "Ok" /\ InitFrames(Usable(rs))
  /\ phase' = "ready"
  /\ UNCHANGED <<map, held, lost, answer>>

-----------------------------------------------------------------------------
(* allocate, deallocate *)

\* Mutant: the scan looks at the first run only.
FirstNonEmpty_HeadOnly(i) == i = 1 /\ runs[i].count > 0

FirstNonEmpty(i) == runs[i].count > 0 /\ \A j \in 1 .. (i - 1) : runs[j].count = 0

Allocate ==
  /\ phase = "ready"
  /\ \E i \in 1 .. Len(runs) :
       /\ FirstNonEmpty(i)
       /\ runs' = [runs EXCEPT ![i] = [start |-> @.start + 1, count |-> @.count - 1]]
       /\ held' = held \cup {runs[i].start}
       /\ answer' = runs[i].start
  /\ allocated' = allocated + 1
  /\ UNCHANGED <<map, phase, total, lost>>

Exhausted ==
  /\ phase = "ready"
  /\ ~\E i \in 1 .. Len(runs) : FirstNonEmpty(i)
  /\ answer' = None
  /\ UNCHANGED <<map, phase, runs, total, allocated, held, lost>>

SaturatingDec(n) == IF n > 0 THEN n - 1 ELSE 0

\* The owner gives frame f back: a run of one frame, sorted in and merged.
Deallocate(f) ==
  /\ phase = "ready"
  /\ Len(runs) < MAX_RUNS
  /\ \E sorted \in SortedByStart(Append(runs, [start |-> f, count |-> 1])) :
       runs' = MergeAdjacent(sorted)
  /\ allocated' = SaturatingDec(allocated)
  /\ held' = held \ {f}
  /\ answer' = Unit
  /\ UNCHANGED <<map, phase, total, lost>>

\* Mutant: the dropped frame is deducted all the same.
DeallocateDrops_Deducts(f) ==
  /\ phase = "ready"
  /\ Len(runs) >= MAX_RUNS
  /\ held' = held \ {f}
  /\ lost' = lost \cup {f}
  /\ answer' = Unit
  /\ allocated' = SaturatingDec(allocated)
  /\ UNCHANGED <<map, phase, runs, total>>

\* No slot is left for the run, not even beside empty ones: the frame is gone,
\* and still counted as allocated.
DeallocateDrops(f) ==
  /\ phase = "ready"
  /\ Len(runs) >= MAX_RUNS
  /\ held' = held \ {f}
  /\ lost' = lost \cup {f}
  /\ answer' = Unit
  /\ UNCHANGED <<map, phase, runs, total, allocated>>

Next ==
  \/ CopyPanics
  \/ MapRejected
  \/ MapAccepted
  \/ Allocate
  \/ Exhausted
  \/ \E f \in held : Deallocate(f)
  \/ \E f \in held : DeallocateDrops(f)

Spec == Init /\ [][Next]_vars

-----------------------------------------------------------------------------
(* Properties *)

FramesOf(r) == r.start .. (r.start + r.count - 1)

FreeSet == UNION {FramesOf(runs[i]) : i \in 1 .. Len(runs)}

\* A frame has one owner: it is in one run, or in use, or lost, never two of
\* these, whatever regions the accepted map holds and however ties are sorted.
NoDoubleHandout ==
  /\ \A i, j \in 1 .. Len(runs) : i # j => FramesOf(runs[i]) \cap FramesOf(runs[j]) = {}
  /\ held \cap FreeSet = {}
  /\ lost \cap (FreeSet \cup held) = {}

\* Every frame that can be handed out lies wholly inside a usable region and
\* above the floor that protects the kernel image.
FramesAreUsable ==
  \A f \in FreeSet \cup held :
    /\ f * FRAME_SIZE >= floor
    /\ \E i \in 1 .. Len(map) :
         /\ map[i].kind = "Usable"
         /\ map[i].start <= f * FRAME_SIZE
         /\ (f + 1) * FRAME_SIZE <= map[i].end

\* The three counters printed at boot add up, `allocated` is the frames in use
\* plus those that a full list made deallocate drop, and the list never outgrows
\* its array.
Accounting ==
  /\ Len(runs) <= MAX_RUNS
  /\ total = free_frames(runs) + allocated
  /\ allocated = Cardinality(held) + Cardinality(lost)

Pool == INSTANCE FramePool
          WITH Frames <- Nat, avail <- FreeSet

\* The allocator is a pool of frames: in particular it refuses only when no
\* frame is left.
ImplementsPool == Pool!PSpec
==============================================================================
