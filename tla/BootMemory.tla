----------------------------- MODULE BootMemory ------------------------------
(****************************************************************************)
(* How the kernel builds its address space at boot: the page-table takeover  *)
(* and map test (main.rs), gdt::setup, heap::init_heap, the frames the       *)
(* virtio driver takes, and user::bring_up down to the descent to ring 3.    *)
(* One CPU runs this code and no interrupt handler touches page tables or    *)
(* frames, so the loops of map_range and bring_up take one step per page.    *)
(****************************************************************************)
EXTENDS PageTables, UserLayout

CONSTANTS
  LowHalf,       \* top-level indices below this are canonical low addresses
  HeapPages,     \* HEAP_SIZE / 4096
  VirtioFrames,  \* frames alloc_frames takes
  BootTops,      \* sets of top-level entries the bootloader may use
  PoolSizes,     \* numbers of frames the allocator may own
  Elfs           \* user programs: whether the file starts with the magic and
                 \* names a 64-bit little-endian class, its entry, its program
                 \* headers and how many of them come before the first one that
                 \* reaches past its end

ASSUME BootAssumption ==
  /\ LowHalf \in Nat /\ HeapPages \in Nat /\ VirtioFrames \in Nat
  /\ \A T \in BootTops : T \subseteq Index
  /\ \A n \in PoolSizes : n \in 0 .. FrameCount
  /\ \A e \in Elfs :
       /\ e.magic \in BOOLEAN /\ e.lsb64 \in BOOLEAN /\ e.entry \in Nat
       /\ e.phdrs \in Seq([load : BOOLEAN, vaddr : Nat, memsz : Nat, writable : BOOLEAN])
       /\ e.inside \in 0 .. Len(e.phdrs)

VARIABLES
  pc,            \* where the boot path stands
  todo,          \* pages the current loop has still to map: [page, user, nx]
  elf, cpu,      \* the embedded file; whether the CPU has syscall
  pool,          \* frames init_frames gave the allocator
  region,        \* first page of the regions of gdt::setup, the heap and the
                 \* user program (-1: none yet)
  tss,           \* the TSS page as 32-bit words
  user_range,    \* [USER_VA_START, USER_VA_END)
  kstack,        \* SYSCALL_KSTACK is set
  driver,        \* frames of the virtio queue
  leaked         \* frames nothing refers to any more

tables == <<mem, cr3, free>>
inputs == <<elf, cpu, pool>>
vars == <<tables, pc, todo, inputs, region, tss, user_range, kstack, driver, leaked>>

-----------------------------------------------------------------------------
(* The task state segment.  repr(C) aligns rsp0 and the fields after it to   *)
(* 8 bytes; the processor reads RSP0 at byte 4 and IST1 at byte 36.          *)

Word(name, half) == <<name, half>>
ZeroWord == Word("zero", "lo")

RSP0_OFFSET == 8      \* TaskStateSegment.rsp0
IST0_OFFSET == 40     \* TaskStateSegment.ist[0]
HW_IST1 == 36

StoreU64(t, byte, name) ==
  [t EXCEPT ![byte \div 4] = Word(name, "lo"), ![byte \div 4 + 1] = Word(name, "hi")]

LoadU64(t, byte) == <<t[byte \div 4], t[byte \div 4 + 1]>>

NewTss == StoreU64([w \in 0 .. 27 |-> ZeroWord], IST0_OFFSET, "ist_top")

-----------------------------------------------------------------------------

\* Mutant: map_range maps with map_user_page.
KernelPages_User(count) ==
  [k \in 1 .. count |-> [page |-> k - 1, user |-> TRUE, nx |-> FALSE]]

\* The pages of map_range, counted from its virt_base.
KernelPages(count) ==
  [k \in 1 .. count |-> [page |-> k - 1, user |-> FALSE, nx |-> FALSE]]

BootTable(tops) ==
  [i \in Index |-> IF i \in tops THEN entry_pointer(BootPdpt, FALSE) ELSE Absent]

Init ==
  /\ \E tops \in BootTops :
       mem = [f \in Frames \cup {BootPml4, BootPdpt, BootPage} |->
                CASE f = BootPml4 -> BootTable(tops)
                  [] f = BootPdpt -> [i \in Index |-> entry_huge(BootPage)]
                  [] OTHER -> Garbage]
  /\ cr3 = BootPml4
  /\ \E n \in PoolSizes : pool = 1 .. n
  /\ free = pool
  /\ pc = "takeover" /\ todo = <<>>
  /\ elf \in Elfs /\ cpu \in BOOLEAN
  /\ region = [r \in {"tss", "heap", "user"} |-> -1]
  /\ tss = [w \in 0 .. 27 |-> ZeroWord]
  /\ user_range = <<0, 0>> /\ kstack = FALSE
  /\ driver = {} /\ leaked = {}

\* An expect or unwrap failed: the panic handler parks the CPU.
Stop == pc' = "stopped"

\* LIONOS_TAKEOVER_ERR leaves the bootloader's tables in CR3 and boot goes on.
takeover ==
  /\ pc = "takeover"
  /\ IF free = {}
       THEN pc' = "gdt" /\ UNCHANGED tables
       ELSE LET f == Lowest(free) IN
            /\ mem' = [mem EXCEPT ![f] = mem[cr3]]
            /\ cr3' = f /\ free' = free \ {f}
            /\ pc' = "map_test"
  /\ UNCHANGED <<todo, inputs, region, tss, user_range, kstack, driver, leaked>>

\* LIONOS_MEM_MAP_ERROR and LIONOS_NO_PHYS_MAPPING: nothing is taken over and
\* PHYS_OFFSET stays 0.  Boot goes on, and gdt::setup, the next to walk the
\* tables, faults at the physical address it takes for a virtual one.
NoWindow ==
  /\ pc = "takeover"
  /\ Stop
  /\ UNCHANGED <<tables, todo, inputs, region, tss, user_range, kstack, driver, leaked>>

\* The boot self-test maps one page and leaves it mapped; LIONOS_MAP_ERR loses
\* the data frame.
MapTest ==
  /\ pc = "map_test"
  /\ pc' = "gdt"
  /\ IF FreeTop = {} \/ free = {}
       THEN UNCHANGED <<mem, free, leaked>>
       ELSE LET f == Lowest(free)
                w == map_page_impl(mem, free \ {f}, RegionPage(find_free_top_index),
                                   f, FALSE, FALSE)
            IN  /\ mem' = w.mem /\ free' = w.free
                /\ leaked' = IF w.ok THEN leaked ELSE leaked \cup {f}
  /\ UNCHANGED <<cr3, todo, inputs, region, tss, user_range, kstack, driver>>

\* One page of map_range, or of the loops of bring_up.
MapNext ==
  /\ pc \in {"gdt_map", "heap_map", "user_map"} /\ todo # <<>>
  /\ LET r == Head(todo)
         f == Lowest(free)
         w == map_page_impl(mem, free \ {f}, r.page, f, r.user, r.nx)
     IN  IF free = {}
           THEN Stop /\ UNCHANGED <<mem, free, leaked, todo>>
           ELSE /\ mem' = w.mem /\ free' = w.free
                /\ IF w.ok THEN todo' = Tail(todo) /\ UNCHANGED <<pc, leaked>>
                   ELSE Stop /\ leaked' = leaked \cup {f} /\ UNCHANGED todo
  /\ UNCHANGED <<cr3, inputs, region, tss, user_range, kstack, driver>>

\* A consumer takes the lowest free top-level region and queues the pages it
\* wants there.
Claim(who, next, pages) ==
  IF FreeTop = {}
    THEN Stop /\ UNCHANGED <<region, todo>>
    ELSE /\ pc' = next
         /\ LET first == RegionPage(find_free_top_index) IN
            /\ region' = [region EXCEPT ![who] = first]
            /\ todo' = [k \in 1 .. Len(pages) |-> [pages[k] EXCEPT !.page = @ + first]]

\* gdt::setup maps the GDT, the TSS and the double-fault stack ...
gdt_setup ==
  /\ pc = "gdt"
  /\ Claim("tss", "gdt_map", KernelPages(3))
  /\ UNCHANGED <<tables, inputs, tss, user_range, kstack, driver, leaked>>

\* ... then fills the TSS and loads both.
gdt_loaded ==
  /\ pc = "gdt_map" /\ todo = <<>>
  /\ tss' = NewTss
  /\ pc' = "heap"
  /\ UNCHANGED <<tables, todo, inputs, region, user_range, kstack, driver, leaked>>

init_heap ==
  /\ pc = "heap"
  /\ Claim("heap", "heap_map", KernelPages(HeapPages))
  /\ UNCHANGED <<tables, inputs, tss, user_range, kstack, driver, leaked>>

heap_loaded ==
  /\ pc = "heap_map" /\ todo = <<>>
  /\ pc' = "drivers"
  /\ UNCHANGED <<tables, todo, inputs, region, tss, user_range, kstack, driver, leaked>>

\* Mutant: the queue frames are not taken out of the pool.
probe_KeepsFree ==
  /\ pc = "drivers"
  /\ pc' = "user"
  /\ driver' = {f \in free : Cardinality({g \in free : g < f}) < VirtioFrames}
  /\ UNCHANGED <<tables, todo, inputs, region, tss, user_range, kstack, leaked>>

\* VirtioBlk::probe: alloc_frames gives up at the first refusal and forgets the
\* frames it already has.
probe ==
  /\ pc = "drivers"
  /\ pc' = "user"
  /\ \/ UNCHANGED <<free, driver, leaked>>
     \/ LET got == {f \in free : Cardinality({g \in free : g < f}) < VirtioFrames}
            all == Cardinality(got) = VirtioFrames
        IN  /\ free' = free \ got
            /\ driver' = IF all THEN got ELSE {}
            /\ leaked' = IF all THEN leaked ELSE leaked \cup got
  /\ UNCHANGED <<mem, cr3, todo, inputs, region, tss, user_range, kstack>>

-----------------------------------------------------------------------------
(* elf.rs *)

\* None unless the file is a 64-bit little-endian ELF.
entry_point == IF elf.magic /\ elf.lsb64 THEN {elf.entry} ELSE {}

\* The PT_LOAD headers up to the first one that reaches past the end of the
\* file; the class is not looked at.
load_segments ==
  IF elf.magic THEN Keep(SubSeq(elf.phdrs, 1, elf.inside), {h \in Range(elf.phdrs) : h.load})
  ELSE <<>>

-----------------------------------------------------------------------------
(* user::bring_up *)

\* The regions hold what is put into them, and user/linker.ld has laid out the
\* program: no two segments share a page, there is room for the stack behind the
\* last one, all headers or none are within the file, and a program with
\* something to load starts in its text.
ASSUME LinkAssumption ==
  /\ 3 <= RegionPage(1) /\ HeapPages <= RegionPage(1)
  /\ \A e \in Elfs :
       LET h == e.phdrs
           loaded == {k \in 1 .. Len(h) : h[k].load}
           pages(k) == {SegmentPages(h[k])[a].page : a \in 1 .. PagesOf(h[k].memsz)}
       IN  /\ \A j, k \in loaded : j # k => pages(j) \cap pages(k) = {}
           /\ \A k \in loaded : PagesOf(h[k].vaddr + h[k].memsz) < RegionPage(1)
           /\ e.inside \in {0, Len(h)}
           /\ loaded # {} => \E k \in loaded : ~h[k].writable /\ e.entry \div PAGE \in pages(k)

\* bring_up returns false: no syscall instruction, no low region, no segment.
CannotDescend ==
  \/ ~cpu
  \/ /\ FreeTop # {}
     /\ \/ find_free_top_index >= LowHalf
        \/ entry_point # {} /\ load_segments = <<>>

\* Its first two expects: a free region, then an entry point.
CannotStart == FreeTop = {} \/ entry_point = {}

bring_up ==
  /\ pc = "user"
  /\ \/ CannotDescend /\ pc' = "idle" /\ UNCHANGED <<region, todo>>
     \/ ~CannotDescend /\ CannotStart /\ Stop /\ UNCHANGED <<region, todo>>
     \/ ~CannotDescend /\ ~CannotStart /\ Claim("user", "user_map", UserPages(load_segments))
  /\ UNCHANGED <<tables, inputs, tss, user_range, kstack, driver, leaked>>

\* set_user_range, the syscall stack from the heap (which may be exhausted),
\* set_rsp0, and the descent.
descend ==
  /\ pc = "user_map" /\ todo = <<>>
  /\ user_range' = <<region["user"] * PAGE, (region["user"] + StackPage(load_segments) + 1) * PAGE>>
  /\ \/ /\ kstack' = TRUE
        /\ tss' = StoreU64(tss, RSP0_OFFSET, "ktop")
        /\ pc' = "ring3"
     \/ Stop /\ UNCHANGED <<kstack, tss>>
  /\ UNCHANGED <<tables, todo, inputs, region, driver, leaked>>

\* The panic handler, idle_loop and the user program run for ever.
Settled == pc \in {"stopped", "idle", "ring3"}
Run == Settled /\ UNCHANGED vars

Next ==
  \/ takeover \/ NoWindow \/ MapTest \/ MapNext \/ gdt_setup \/ gdt_loaded
  \/ init_heap \/ heap_loaded \/ probe \/ bring_up \/ descend \/ Run

Spec == Init /\ [][Next]_vars

-----------------------------------------------------------------------------
(* Properties *)

\* The bounds check of user_copy_in.
user_copy_in(src, n) ==
  user_range[1] # 0 /\ src >= user_range[1] /\ src + n <= user_range[2]

UserRegion ==
  IF region["user"] = -1 THEN {}
  ELSE {v \in Pages : index4(v) = index4(region["user"])}

Taken == pool \ free

\* State has the expected shape; a table never holds an entry outside memory.
TypeOK ==
  /\ cr3 \in Frames \cup {BootPml4} /\ free \subseteq pool /\ pool \subseteq Frames
  /\ \A f \in DOMAIN mem : \A i \in Index : mem[f][i].addr \in DOMAIN mem
  /\ pc \in {"takeover", "map_test", "gdt", "gdt_map", "heap", "heap_map", "drivers", "user",
             "user_map", "ring3", "idle", "stopped"}
  /\ todo \in Seq([page : Pages, user : BOOLEAN, nx : BOOLEAN])
  /\ driver \subseteq Taken /\ leaked \subseteq Taken

\* The calls of map_page and map_user_page that the boot path is about to make.
Wanted ==
  IF pc \in {"gdt_map", "heap_map", "user_map"} THEN todo
  ELSE IF pc = "map_test" /\ FreeTop # {}
  THEN <<[page |-> RegionPage(find_free_top_index), user |-> FALSE, nx |-> FALSE]>>
  ELSE <<>>

\* Every call of map_page_impl that succeeds changes the translation of the page
\* it was asked for and of no other, from unmapped to a frame no other page
\* shows, with the rights asked for at every level of the walk; a call that runs
\* out of frames, with tables made on the way left linked, changes none
\* (paging.rs, map_page_impl and its callers).
Abstract == INSTANCE AddressSpace WITH space <- Space, wanted <- Wanted
ImplementsAddressSpace == Abstract!ASpec

\* Ring 3 reaches pages of the user program's region only: no table the kernel
\* shares with it carries the user bit (map_page_impl, bring_up).
KernelStaysSupervisor == \A v \in Pages : UserMay(v) => v \in UserRegion

\* Every frame that left the pool has exactly one use: live table, mapped page,
\* driver queue, or dropped on running out of frames; none is forgotten, and no
\* table or page is a frame that may be handed out again (frame_phys's callers).
OneUsePerFrame ==
  LET live == LiveTables \cap Frames
      shown == DataFrames \cap Frames
  IN  /\ live \cup shown \cup driver \cup leaked = Taken
      /\ live \cap (shown \cup driver \cup leaked) = {}
      /\ shown \cap (driver \cup leaked) = {}

\* At the descent the program's pages can be fetched, its stack can be used and
\* not executed, the syscall stack is there, and the bounds check of user_copy_in
\* accepts every page of the program (bring_up, syscall.rs).
ReadyForRing3 ==
  pc = "ring3" =>
    /\ kstack
    /\ \A k \in DOMAIN elf.phdrs : elf.phdrs[k].load /\ elf.phdrs[k].memsz > 0 =>
         LET v == region["user"] + elf.phdrs[k].vaddr \div PAGE IN
         UserMay(v) /\ (translate(v).nx <=> elf.phdrs[k].writable)
    /\ LET v == region["user"] + elf.entry \div PAGE IN UserMay(v) /\ ~translate(v).nx
    /\ LET v == region["user"] + StackPage(load_segments) IN UserMay(v) /\ translate(v).nx
    /\ \A v \in Pages : UserMay(v) => user_copy_in(v * PAGE, PAGE)

\* "the double-fault handler then runs on its own stack" (gdt.rs): what the
\* processor reads as IST1 is what setup stored.
FaultStackLoaded ==
  pc \in {"heap", "heap_map", "drivers", "user", "user_map", "ring3"} =>
    LoadU64(tss, HW_IST1) = <<Word("ist_top", "lo"), Word("ist_top", "hi")>>
=============================================================================
