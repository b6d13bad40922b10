-------------------------- MODULE BootMemoryProofs ---------------------------
(****************************************************************************)
(* The address space the kernel builds at boot, for every pool of frames,    *)
(* table size, bootloader layout and linked program: which frames the tree   *)
(* of tables holds, and which pages it shows, as the boot path goes.         *)
(****************************************************************************)
EXTENDS BootMemory, PageTableProofs

-----------------------------------------------------------------------------
(* The linked program *)

\* What load_segments finds in a linked program.
LEMMA LoadFacts ==
  ASSUME elf \in Elfs, load_segments # << >>
  PROVE  /\ Loadable(load_segments)
         /\ \A k \in 1 .. Len(elf.phdrs) : elf.phdrs[k].load =>
              \E j \in 1 .. Len(load_segments) : load_segments[j] = elf.phdrs[k]
         /\ \E j \in 1 .. Len(load_segments) : \E a \in 1 .. PagesOf(load_segments[j].memsz) :
              /\ ~load_segments[j].writable
              /\ SegmentPages(load_segments[j])[a].page = elf.entry \div PAGE
<1> DEFINE h == elf.phdrs
           n == Len(h)
           S == {x \in Range(h) : x.load}
           im == load_segments
           pages(k) == {SegmentPages(h[k])[a].page : a \in 1 .. PagesOf(h[k].memsz)}
<1>1. h \in Seq(Segment) /\ elf.inside \in 0 .. n
  BY BootAssumption, Zenon DEF Segment
<1>2. /\ \A j, k \in 1 .. n : h[j].load /\ h[k].load /\ j # k => pages(j) \cap pages(k) = {}
      /\ \A k \in 1 .. n : h[k].load => PagesOf(h[k].vaddr + h[k].memsz) < RegionPage(1)
      /\ elf.inside \in {0, n}
      /\ \A k \in 1 .. n : h[k].load =>
           \E j \in 1 .. n : h[j].load /\ ~h[j].writable /\ elf.entry \div PAGE \in pages(j)
  <2> DEFINE loaded == {k \in 1 .. n : h[k].load}
  <2>1. /\ \A j, k \in loaded : j # k => pages(j) \cap pages(k) = {}
        /\ \A k \in loaded : PagesOf(h[k].vaddr + h[k].memsz) < RegionPage(1)
        /\ elf.inside \in {0, n}
        /\ loaded # {} => \E k \in loaded : ~h[k].writable /\ elf.entry \div PAGE \in pages(k)
    BY LinkAssumption, Zenon
  <2>2. \A k \in 1 .. n : h[k].load <=> k \in loaded
    OBVIOUS
  <2>3. loaded \subseteq 1 .. n
    OBVIOUS
  <2> HIDE DEF loaded, pages, n, h
  <2> QED
    BY <2>1, <2>2, <2>3
<1>3. RegionPage(1) = REGION
  BY TablesAssumption DEF RegionPage, REGION
<1>4. im = Keep(SubSeq(h, 1, elf.inside), S)
  BY DEF load_segments
<1>5. n \in Nat /\ Range(h) = {h[k] : k \in 1 .. n}
  BY <1>1 DEF Range
<1> HIDE DEF h, S, im
<1>6. elf.inside = n
  <2> SUFFICES ASSUME elf.inside = 0 PROVE FALSE
    BY <1>2
  <2>1. SubSeq(h, 1, 0) = << >> /\ << >> \in Seq(Segment) /\ Len(<< >>) = 0
    BY <1>1
  <2>2. Keep(<< >>, S) \in Seq(Segment) /\ \E f : Picks(f, Keep(<< >>, S), << >>, S, Len(<< >>))
    BY <2>1, KeepPicks, Zenon
  <2>3. im = Keep(<< >>, S)
    BY <1>4, <2>1, Zenon
  <2>4. PICK f : f \in [1 .. Len(im) -> 1 .. 0]
    BY <2>1, <2>2, <2>3 DEF Picks
  <2>5. im \in Seq(Segment) /\ im # << >>
    BY <2>2, <2>3 DEF im
  <2>6. 1 \in 1 .. Len(im)
    BY <2>5
  <2>7. f[1] \in 1 .. 0
    BY <2>4, <2>6
  <2> QED
    BY <2>7
<1>7. im = Keep(h, S)
  <2>1. SubSeq(h, 1, n) = h
    BY <1>1
  <2> QED
    BY <1>4, <1>6, <2>1, Zenon
<1>8. im \in Seq(Segment) /\ \E f : Picks(f, im, h, S, n)
  BY <1>1, <1>7, KeepPicks
<1>9. PICK f : Picks(f, im, h, S, n)
  BY <1>8
<1>10. /\ \A j \in 1 .. Len(im) : f[j] \in 1 .. n /\ im[j] = h[f[j]] /\ h[f[j]] \in S
       /\ \A i, j \in 1 .. Len(im) : i < j => f[i] < f[j]
       /\ \A i \in 1 .. n : h[i] \in S => \E j \in 1 .. Len(im) : f[j] = i
  BY <1>9 DEF Picks
<1>11. \A k \in 1 .. n : h[k] \in S <=> h[k].load
  BY <1>5, Zenon DEF S
<1>12. \A i, j \in 1 .. Len(im) : i # j => f[i] # f[j]
  <2> SUFFICES ASSUME NEW i \in 1 .. Len(im), NEW j \in 1 .. Len(im), i # j PROVE f[i] # f[j]
    BY Zenon
  <2>1. i \in Int /\ j \in Int /\ f[i] \in Int /\ f[j] \in Int
    BY <1>5, <1>8, <1>10
  <2>2. i < j \/ j < i
    BY <2>1
  <2> QED
    BY <1>10, <2>1, <2>2
<1>13. Disjoint(im)
  <2> SUFFICES ASSUME NEW j \in 1 .. Len(im), NEW k \in 1 .. Len(im), j # k,
                      NEW a \in 1 .. PagesOf(im[j].memsz), NEW b \in 1 .. PagesOf(im[k].memsz)
               PROVE  SegmentPages(im[j])[a].page # SegmentPages(im[k])[b].page
    BY Zenon DEF Disjoint
  <2>1. /\ im[j] = h[f[j]] /\ im[k] = h[f[k]] /\ f[j] # f[k] /\ f[j] \in 1 .. n /\ f[k] \in 1 .. n
        /\ h[f[j]].load /\ h[f[k]].load
    BY <1>10, <1>11, <1>12, Zenon
  <2>2. pages(f[j]) \cap pages(f[k]) = {}
    BY <1>2, <2>1, Zenon
  <2>3. SegmentPages(im[j])[a].page \in pages(f[j]) /\ SegmentPages(im[k])[b].page \in pages(f[k])
    BY <2>1, Zenon
  <2> QED
    BY <2>2, <2>3, Zenon
<1>14. \A k \in 1 .. Len(im) : PagesOf(im[k].vaddr + im[k].memsz) < REGION
  BY <1>2, <1>3, <1>10, <1>11, Zenon
<1>15. Loadable(im)
  BY <1>8, <1>13, <1>14, Zenon DEF Loadable, im
<1>16. \A k \in 1 .. n : h[k].load => \E j \in 1 .. Len(im) : im[j] = h[k]
  BY <1>10, <1>11
<1>17. \E j \in 1 .. Len(im) : \E a \in 1 .. PagesOf(im[j].memsz) :
         ~im[j].writable /\ SegmentPages(im[j])[a].page = elf.entry \div PAGE
  <2>1. 1 \in 1 .. Len(im)
    BY <1>8 DEF im
  <2>2. f[1] \in 1 .. n /\ h[f[1]].load
    BY <1>10, <1>11, <2>1, Zenon
  <2>3. PICK i \in 1 .. n : h[i].load /\ ~h[i].writable /\ elf.entry \div PAGE \in pages(i)
    BY <1>2, <2>2, Zenon
  <2>4. PICK j \in 1 .. Len(im) : im[j] = h[i]
    BY <1>16, <2>3, Zenon
  <2>5. PICK a \in 1 .. PagesOf(h[i].memsz) : elf.entry \div PAGE = SegmentPages(h[i])[a].page
    BY <2>3, Zenon
  <2> QED
    BY <2>3, <2>4, <2>5
<1> QED
  BY <1>15, <1>16, <1>17 DEF im, h

-----------------------------------------------------------------------------
(* The inductive invariant *)

Steps == {"takeover", "map_test", "gdt", "gdt_map", "heap", "heap_map", "drivers", "user",
          "user_map", "ring3", "idle", "stopped"}

Request == [page : Pages, user : BOOLEAN, nx : BOOLEAN]

\* The top-level entry of the user program's region.
UserTop(i) == region["user"] # -1 /\ i = index4(region["user"])

\* The tables are a tree, and every frame out of the pool is in it, the
\* driver's or lost.
Accounted(lv) ==
  /\ Tree(mem, cr3, lv) /\ free \subseteq pool /\ pool \subseteq Frames
  /\ free \cap Used(lv) = {} /\ pool \ free = Used(lv) \cup driver \cup leaked
  /\ Used(lv) \cap (driver \cup leaked) = {}

Located ==
  /\ pc \in Steps /\ region \in [{"tss", "heap", "user"} -> Pages \cup {-1}]
  /\ pc = "takeover" => free = pool /\ cr3 = BootPml4 /\ driver = {} /\ leaked = {}
  /\ pc \in {"takeover", "map_test"} => todo = << >>
  /\ region["user"] # -1 => pc \in {"user_map", "ring3", "stopped"}
  /\ pc \in {"takeover", "map_test", "gdt", "gdt_map", "heap", "heap_map", "drivers"} => driver = {}

\* A top-level entry has the user bit in the user program's region only.
Tops == \A i \in Index : mem[cr3][i].present => (mem[cr3][i].user <=> UserTop(i))

\* The pages that are queued are free, each queued once, and for the region
\* whose bit they ask for.
Queued ==
  /\ todo \in Seq(Request)
  /\ \A k \in 1 .. Len(todo) : /\ View(mem, cr3, todo[k].page) = Unmapped
                               /\ todo[k].user <=> UserTop(index4(todo[k].page))
  /\ \A j, k \in 1 .. Len(todo) : todo[j].page = todo[k].page => j = k

\* An empty queue is in order.
LEMMA NothingQueued == ASSUME todo' = << >> PROVE Queued'
BY DEF Queued

\* Frames, regions, rights and the queue together.
BootInv == (\E lv : Accounted(lv)) /\ Located /\ Tops /\ Queued

\* What bring_up asks for, once it has a region.
Asked ==
  IF region["user"] = -1 THEN {}
  ELSE {[r EXCEPT !.page = @ + region["user"]] : r \in Range(UserPages(load_segments))}

\* Of the user program, what was asked for is queued or there, and nothing else
\* is; the region is not the first one, which the first mappings took.
Program ==
  /\ elf \in Elfs
  /\ pc \in {"heap", "heap_map", "drivers", "user", "user_map", "ring3"} => mem[cr3][0].present
  /\ pc = "gdt_map" => mem[cr3][0].present \/ (todo # << >> /\ index4(todo[1].page) = 0)
  /\ pc \in {"user_map", "ring3"} => region["user"] # -1
  /\ region["user"] # -1 => /\ \E i \in Index \ {0} : region["user"] = RegionPage(i)
                            /\ load_segments # << >>
                            /\ \A k \in 1 .. Len(todo) : todo[k] \in Asked
  /\ \A r \in Asked : \/ \E k \in 1 .. Len(todo) : todo[k] = r
                      \/ View(mem, cr3, r.page).user /\ View(mem, cr3, r.page).nx = r.nx
  /\ \A v \in Pages : View(mem, cr3, v).user => \E r \in Asked : r.page = v
  /\ pc = "ring3" => /\ todo = << >> /\ kstack
                     /\ user_range = <<region["user"] * PAGE,
                                       (region["user"] + StackPage(load_segments) + 1) * PAGE>>

-----------------------------------------------------------------------------
(* The start: the bootloader's tables *)

\* Before takeover nothing hangs on the bootloader's top table.
LEMMA BareAtTakeover ==
  ASSUME NEW lv, Accounted(lv), Located, pc = "takeover"
  PROVE  Bare(mem, cr3) /\ Used(lv) = {}
<1>1. Used(lv) = {} /\ Tree(mem, cr3, lv)
  BY Zenon DEF Accounted, Located
<1>2. /\ mem \in Memory /\ cr3 \in Frames \cup {BootPml4} /\ cr3 \in Dom /\ lv[cr3] = 4
      /\ \A i \in Index : mem[BootPdpt][i] = entry_huge(BootPage)
  BY <1>1, FrameNumbers DEF Tree, Shape, Dom
<1>3. \A f \in Frames : lv[f] = 5
  BY <1>1, Zenon DEF Used
<1>4. ASSUME NEW i \in Index, mem[cr3][i].present
      PROVE  mem[cr3][i].addr = BootPdpt /\ ~mem[cr3][i].huge /\ ~mem[cr3][i].user
  BY <1>1, <1>2, <1>3, <1>4 DEF Tree, Down
<1> QED
  BY <1>1, <1>2, <1>4, Zenon DEF Bare

\* The initial states.
LEMMA InitInv ==
  ASSUME Init
  PROVE  /\ Accounted(RootOnly(cr3)) /\ Located /\ Tops /\ Queued /\ Program /\ Bare(mem, cr3)
<1>1. PICK tops \in BootTops :
        mem = [f \in Dom |-> CASE f = BootPml4 -> BootTable(tops)
                               [] f = BootPdpt -> [i \in Index |-> entry_huge(BootPage)]
                               [] OTHER -> Garbage]
  BY DEF Init, Dom
<1>2. /\ cr3 = BootPml4 /\ free = pool /\ pc = "takeover" /\ todo = << >> /\ elf \in Elfs
      /\ region = [r \in {"tss", "heap", "user"} |-> -1] /\ driver = {} /\ leaked = {}
  BY DEF Init
<1>3. pool \subseteq Frames
  <2>1. PICK n \in PoolSizes : pool = 1 .. n
    BY Zenon DEF Init
  <2>2. n \in 0 .. FrameCount
    BY BootAssumption, Zenon
  <2> QED
    BY <2>1, <2>2, TablesAssumption DEF Frames
<1>4. region["user"] = -1 /\ region \in [{"tss", "heap", "user"} -> Pages \cup {-1}]
  BY <1>2
<1>5. entry_huge(BootPage) \in Entry /\ Absent \in Entry /\ ~Absent.present
  <2>1. Absent \in Entry /\ ~Absent.present
    BY EntryTypes, Zenon DEF Absent
  <2>2. PICK e : e = entry_pointer(BootPage, FALSE)
    BY Zenon
  <2>3. e \in Entry
    BY <2>2, FrameNumbers, EntryTypes, Zenon
  <2>4. [e EXCEPT !.huge = TRUE] \in Entry
    BY <2>3, Zenon DEF Entry
  <2>5. entry_huge(BootPage) \in Entry
    BY <2>2, <2>4, Zenon DEF entry_huge
  <2> QED  BY <2>1, <2>5, Zenon
<1>6. BootTable(tops) \in [Index -> Entry] /\ Garbage \in [Index -> Entry]
  <2>1. entry_pointer(BootPdpt, FALSE) \in Entry
    BY FrameNumbers, EntryTypes, Zenon
  <2> HIDE DEF entry_pointer
  <2> QED
    BY <1>5, <2>1, Zenon DEF BootTable, Garbage
<1>7. \A i \in Index : mem[BootPdpt][i] = entry_huge(BootPage)
  BY <1>1, FrameNumbers
<1>8. mem[cr3] = BootTable(tops)
  BY <1>1, <1>2, FrameNumbers
<1>9. mem \in Memory
  <2>1. \A f \in Dom : mem[f] \in [Index -> Entry]
    BY <1>1, <1>5, <1>6, Zenon
  <2> QED
    BY <1>1, <2>1 DEF Memory
<1>10. ASSUME NEW i \in Index, mem[cr3][i].present
       PROVE  mem[cr3][i].addr = BootPdpt /\ ~mem[cr3][i].huge /\ ~mem[cr3][i].user
  <2>1. mem[cr3][i] = entry_pointer(BootPdpt, FALSE)
    BY <1>5, <1>8, <1>10, Zenon DEF BootTable
  <2> DEFINE e == entry_pointer(BootPdpt, FALSE)
  <2>2. e.addr = BootPdpt /\ ~e.huge /\ e.user = FALSE
    BY FrameNumbers, EntryTypes, Zenon
  <2> HIDE DEF e
  <2>3. ~e.user
    BY <2>2
  <2> QED
    BY <2>1, <2>2, <2>3, Zenon DEF e
<1>11. Bare(mem, cr3)
  BY <1>2, <1>7, <1>9, <1>10, Zenon DEF Bare
<1>12. /\ Tree(mem, cr3, RootOnly(cr3)) /\ Used(RootOnly(cr3)) = {}
       /\ \A x \in Pages : View(mem, cr3, x) = IF mem[cr3][index4(x)].present
            THEN [frame |-> BootPage, user |-> FALSE, nx |-> FALSE] ELSE Unmapped
  BY <1>2, <1>11, BareTree, FrameNumbers
<1>13. Accounted(RootOnly(cr3))
  BY <1>2, <1>3, <1>12, Zenon DEF Accounted
<1>14. Located
  BY <1>2, <1>4, Zenon DEF Located, Steps
<1>15. Tops
  BY <1>4, <1>10, Zenon DEF Tops, UserTop
<1>16. Queued
  BY <1>2 DEF Queued
<1>17. Asked = {}
  BY <1>4, Zenon DEF Asked
<1>18. \A v \in Pages : ~View(mem, cr3, v).user
  BY <1>12 DEF Unmapped
<1>19. Program
  BY <1>2, <1>4, <1>17, <1>18 DEF Program
<1> QED
  BY <1>11, <1>13, <1>14, <1>15, <1>16, <1>19, SMTT(30)

-----------------------------------------------------------------------------
(* The steps that map a page *)

\* A page that may be mapped next: nobody shows it, and a top entry on the way
\* has the right bit.
Ready(v, u, nx) ==
  /\ v \in Pages /\ u \in BOOLEAN /\ nx \in BOOLEAN /\ View(mem, cr3, v) = Unmapped
  /\ mem[cr3][index4(v)].present => mem[cr3][index4(v)].user = u

\* Mapping a page to the lowest free frame.
LEMMA MapEffect ==
  ASSUME NEW lv, Accounted(lv), free # {}, NEW v, NEW u, NEW nx, Ready(v, u, nx)
  PROVE  LET f == Lowest(free)
             r == map_page_impl(mem, free \ {f}, v, f, u, nx)
             lost == IF r.ok THEN {} ELSE {f}
         IN  /\ \E nl : /\ Tree(r.mem, cr3, nl) /\ r.free \subseteq pool
                        /\ r.free \cap Used(nl) = {}
                        /\ pool \ r.free = Used(nl) \cup driver \cup leaked \cup lost
                        /\ Used(nl) \cap (driver \cup leaked \cup lost) = {}
             /\ SameTops(r.mem, mem, index4(v), u)
             /\ r.ok => \A x \in Pages : View(r.mem, cr3, x) =
                          IF x = v THEN [frame |-> f, user |-> u, nx |-> nx] ELSE View(mem, cr3, x)
             /\ ~r.ok => \A x \in Pages : View(r.mem, cr3, x) = View(mem, cr3, x)
             /\ f \in Frames /\ \A x \in Pages : View(mem, cr3, x).frame # f
             /\ r.ok \in BOOLEAN
<1> DEFINE f == Lowest(free)
           fr == free \ {f}
           r == map_page_impl(mem, fr, v, f, u, nx)
           lost == IF r.ok THEN {} ELSE {f}
<1>1. /\ Tree(mem, cr3, lv) /\ free \subseteq pool /\ pool \subseteq Frames
      /\ free \cap Used(lv) = {} /\ pool \ free = Used(lv) \cup driver \cup leaked
      /\ Used(lv) \cap (driver \cup leaked) = {}
  BY Zenon DEF Accounted
<1>2. f \in free /\ f \in Frames
  BY <1>1, LowestIn, Zenon
<1> HIDE DEF f
<1>3. Mappable(mem, fr, lv, v, f, u, nx)
  BY <1>1, <1>2, Zenon DEF Mappable, Ready
<1>4. PICK nl : Mapped(r, nl, mem, fr, lv, v, f, u, nx)
  <2> HIDE DEF fr
  <2> QED
    BY <1>3, MapPage
<1> HIDE DEF r
<1>5. /\ r.ok \in BOOLEAN /\ r.free \in SUBSET Frames /\ Tree(r.mem, cr3, nl)
      /\ r.free \cap Used(nl) = {} /\ SameTops(r.mem, mem, index4(v), u)
      /\ r.ok => /\ r.free \cup Used(nl) = fr \cup Used(lv) \cup {f}
                 /\ \A x \in Pages : View(r.mem, cr3, x) =
                      IF x = v THEN [frame |-> f, user |-> u, nx |-> nx] ELSE View(mem, cr3, x)
      /\ ~r.ok => /\ r.free \cup Used(nl) = fr \cup Used(lv)
                  /\ \A x \in Pages : View(r.mem, cr3, x) = View(mem, cr3, x)
  BY <1>4, Zenon DEF Mapped
<1>6. /\ r.free \subseteq pool
      /\ pool \ r.free = Used(nl) \cup driver \cup leaked \cup lost
      /\ Used(nl) \cap (driver \cup leaked \cup lost) = {}
  <2> DEFINE U == Used(lv)
             W == Used(nl)
             g == r.free
  <2> HIDE DEF U, W, g
  <2>0. /\ free \subseteq pool /\ free \cap U = {} /\ pool \ free = U \cup driver \cup leaked
        /\ U \cap (driver \cup leaked) = {} /\ f \in free /\ g \cap W = {}
    BY <1>1, <1>2, <1>5, Zenon DEF U, W, g
  <2>1. CASE r.ok
    <3>1. g \cup W = free \cup U /\ lost = {}
      BY <1>2, <1>5, <2>1, Zenon DEF U, W, g
    <3>2. /\ g \subseteq pool /\ pool \ g = W \cup driver \cup leaked
          /\ W \cap (driver \cup leaked) = {}
      BY <2>0, <3>1, Zenon
    <3> QED
      BY <3>1, <3>2 DEF W, g
  <2>2. CASE ~r.ok
    <3>1. g \cup W = (free \ {f}) \cup U /\ lost = {f}
      BY <1>5, <2>2, Zenon DEF U, W, g
    <3>2. /\ g \subseteq pool /\ pool \ g = W \cup driver \cup leaked \cup {f}
          /\ W \cap (driver \cup leaked \cup {f}) = {}
      BY <2>0, <3>1, Zenon
    <3> QED
      BY <3>1, <3>2, Zenon DEF W, g
  <2> QED
    BY <2>1, <2>2
<1>7. \A x \in Pages : View(mem, cr3, x).frame # f
  BY <1>1, <1>2, ShownFrame, FrameNumbers
<1> QED
  BY <1>2, <1>5, <1>6, <1>7, Zenon DEF f, r, fr

\* What bring_up asked for is in its region.
LEMMA AskedFacts ==
  ASSUME Program
  PROVE  /\ \A r \in Asked : /\ r \in Request /\ r.user = TRUE
                             /\ region["user"] <= r.page
                             /\ r.page <= region["user"] + StackPage(load_segments)
         /\ region["user"] # -1 =>
              /\ region["user"] \in Nat \ {0} /\ StackPage(load_segments) \in Nat
              /\ \A x \in Range(UserPages(load_segments)) :
                   [x EXCEPT !.page = @ + region["user"]] \in Asked
<1> SUFFICES ASSUME region["user"] # -1
             PROVE  /\ \A r \in Asked : /\ r \in Request /\ r.user = TRUE
                                        /\ region["user"] <= r.page
                                        /\ r.page <= region["user"] + StackPage(load_segments)
                    /\ region["user"] \in Nat \ {0} /\ StackPage(load_segments) \in Nat
                    /\ \A x \in Range(UserPages(load_segments)) :
                         [x EXCEPT !.page = @ + region["user"]] \in Asked
  BY Zenon DEF Asked
<1> DEFINE b == region["user"]
           im == load_segments
           u == UserPages(im)
           s == StackPage(im)
<1>1. elf \in Elfs /\ im # << >> /\ \E i \in Index \ {0} : b = RegionPage(i)
  BY DEF Program
<1>2. PICK i \in Index \ {0} : b = RegionPage(i)
  BY <1>1, Zenon
<1>3. Loadable(im)
  BY <1>1, LoadFacts, Zenon
<1>4. /\ s \in Nat /\ s < REGION /\ u \in Seq(PageRequest)
      /\ \A x \in 1 .. Len(u) : u[x].user = TRUE /\ u[x].page <= s
  BY <1>3, UserFacts, Zenon
<1>5. Asked = {[x EXCEPT !.page = @ + b] : x \in Range(u)}
  BY DEF Asked
<1> HIDE DEF u, s, im
<1>6. \A x \in Range(u) : x \in PageRequest /\ x.user = TRUE /\ x.page <= s
  BY <1>4 DEF Range
<1>7. REGION \in Nat \ {0} /\ \A k \in 0 .. (REGION - 1) : b + k \in Pages
  BY <1>2, RegionPages, TablesAssumption DEF REGION
<1>8. b \in Nat \ {0}
  <2>1. 0 \in 0 .. (REGION - 1)
    BY <1>7
  <2>2. RegionPage(i) \in Nat /\ RegionPage(i) = i * REGION
    BY <2>1, RegionPages, Zenon
  <2>3. i \in Nat /\ i # 0
    BY TablesAssumption DEF Index
  <2>4. \A c, d \in Nat \ {0} : c * d # 0
    OBVIOUS
  <2> QED
    BY <1>2, <1>7, <2>2, <2>3, <2>4, SMTT(30)
<1> HIDE DEF b
<1>9. ASSUME NEW r \in Asked PROVE r \in Request /\ r.user = TRUE /\ b <= r.page /\ r.page <= b + s
  <2>1. PICK x \in Range(u) : r = [x EXCEPT !.page = @ + b]
    BY <1>5, Zenon
  <2>2. x \in PageRequest /\ x.user = TRUE /\ x.page <= s
    BY <1>6
  <2>3. x.page \in Nat
    BY <2>2, Zenon DEF PageRequest
  <2>4. x.page \in 0 .. (REGION - 1) /\ b + x.page = x.page + b
    BY <1>4, <1>7, <1>8, <2>2, <2>3, SMTT(30)
  <2>5. x.page + b \in Pages
    BY <1>7, <2>4
  <2>6. r.page = x.page + b /\ r.user = TRUE /\ r \in Request
    BY <2>1, <2>2, <2>5 DEF PageRequest, Request
  <2> QED
    BY <1>4, <1>8, <2>2, <2>3, <2>6
<1>10. \A x \in Range(u) : [x EXCEPT !.page = @ + b] \in Asked
  BY <1>5, Zenon
<1> QED
  BY <1>4, <1>8, <1>9, <1>10, Zenon DEF b, u, s, im

\* A list of pages a region is claimed for, and the list moved into it.
Listing(pages) ==
  /\ pages \in Seq(PageRequest) /\ \A k \in 1 .. Len(pages) : pages[k].page < REGION
  /\ \A j, k \in 1 .. Len(pages) : pages[j].page = pages[k].page => j = k

\* An empty list is one.
LEMMA NothingListed == Listing(<< >>)
BY DEF Listing

Moved(pages, b) == [k \in 1 .. Len(pages) |-> [pages[k] EXCEPT !.page = @ + b]]

\* The moved pages are unmapped, distinct, and under the top-level entry.
Placed(t, pages, i) ==
  /\ t \in Seq(Request) /\ Len(t) = Len(pages)
  /\ \A k \in 1 .. Len(t) : /\ t[k] = [pages[k] EXCEPT !.page = @ + RegionPage(i)]
                            /\ t[k].user = pages[k].user
                            /\ View(mem, cr3, t[k].page) = Unmapped
                            /\ index4(t[k].page) = i
  /\ \A j, k \in 1 .. Len(t) : t[j].page = t[k].page => j = k

\* A region that is claimed shows nothing yet.
LEMMA ClaimEffect ==
  ASSUME NEW lv, Tree(mem, cr3, lv), FreeTop # {}, NEW pages, Listing(pages),
         NEW t, t = Moved(pages, RegionPage(find_free_top_index))
  PROVE  /\ find_free_top_index \in Index /\ ~mem[cr3][find_free_top_index].present
         /\ mem[cr3][0].present => find_free_top_index # 0
         /\ 0 \in FreeTop => find_free_top_index = 0
         /\ RegionPage(find_free_top_index) \in Pages
         /\ index4(RegionPage(find_free_top_index)) = find_free_top_index
         /\ View(mem, cr3, RegionPage(find_free_top_index)) = Unmapped
         /\ Placed(t, pages, find_free_top_index)
<1> USE DEF Listing, Moved, Placed
<1> DEFINE i == find_free_top_index
           b == RegionPage(i)
           n == Len(pages)
<1>0. Index \subseteq Nat /\ 0 \in Index /\ REGION \in Nat \ {0} /\ n \in Nat
  BY TablesAssumption DEF Index, REGION
<1>1. i \in FreeTop /\ \A g \in FreeTop : i <= g
  BY <1>0, LowestOf, Zenon DEF FreeTop, find_free_top_index
<1>2. i \in Index /\ ~mem[cr3][i].present
  BY <1>1 DEF FreeTop
<1> HIDE DEF i
<1>3. \A k \in 0 .. (REGION - 1) : b \in Nat /\ b + k \in Pages /\ index4(b + k) = i
  BY <1>2, RegionPages
<1> HIDE DEF b
<1>4. b \in Nat /\ b \in Pages /\ index4(b) = i
  <2>1. 0 \in 0 .. (REGION - 1)
    BY <1>0
  <2>2. b \in Nat /\ b + 0 \in Pages /\ index4(b + 0) = i
    BY <1>3, <2>1
  <2>3. b + 0 = b
    BY <2>2
  <2> QED
    BY <2>2, <2>3
<1>5. ASSUME NEW x \in Pages, index4(x) = i PROVE View(mem, cr3, x) = Unmapped
  BY <1>2, <1>5, ShownFrame, Zenon
<1>6. ASSUME NEW k \in 1 .. n
      PROVE  /\ t[k] = [pages[k] EXCEPT !.page = @ + b] /\ t[k] \in Request
             /\ t[k].user = pages[k].user /\ t[k].page = pages[k].page + b
             /\ pages[k].page \in Nat /\ index4(t[k].page) = i /\ t[k].page \in Pages
  <2>1. pages[k] \in PageRequest
    OBVIOUS
  <2>2. pages[k].page \in Nat /\ pages[k].page < REGION
    BY <2>1 DEF PageRequest
  <2>3. pages[k].page \in 0 .. (REGION - 1) /\ pages[k].page + b = b + pages[k].page
    BY <1>0, <1>4, <2>2
  <2>4. pages[k].page + b \in Pages /\ index4(pages[k].page + b) = i
    BY <1>3, <2>3
  <2>5. t[k] = [pages[k] EXCEPT !.page = @ + b]
    BY DEF b, i
  <2>6. t[k].page = pages[k].page + b /\ t[k].user = pages[k].user /\ t[k] \in Request
    BY <2>1, <2>4, <2>5, Zenon DEF PageRequest, Request
  <2> QED
    BY <2>2, <2>4, <2>5, <2>6
<1>7. t \in Seq(Request) /\ Len(t) = n
  <2>1. DOMAIN t = 1 .. n /\ t = [k \in 1 .. n |-> t[k]]
    OBVIOUS
  <2>2. t \in [1 .. n -> Request]
    BY <1>6, <2>1, Zenon
  <2> QED
    BY <1>0, <2>2
<1>8. ASSUME NEW j \in 1 .. n, NEW k \in 1 .. n, t[j].page = t[k].page PROVE j = k
  <2>a. t[j].page = pages[j].page + b /\ pages[j].page \in Nat
    BY <1>6, Zenon
  <2>b. t[k].page = pages[k].page + b /\ pages[k].page \in Nat
    BY <1>6, Zenon
  <2>1. pages[j].page + b = pages[k].page + b /\ pages[j].page \in Nat /\ pages[k].page \in Nat
    BY <1>8, <2>a, <2>b
  <2>2. pages[j].page = pages[k].page
    BY <1>4, <2>1
  <2> QED
    BY <2>2
<1>9. mem[cr3][0].present => i # 0
  BY <1>2
<1>10. 0 \in FreeTop => i = 0
  BY <1>0, <1>1, <1>2
<1> QED
  BY <1>2, <1>4, <1>5, <1>6, <1>7, <1>8, <1>9, <1>10, SMTT(30) DEF i, b

-----------------------------------------------------------------------------
(* The steps *)

BInv == BootInv /\ Program

\* No page changes what it shows, or the page v does, which showed nothing: it
\* comes to show, with the rights u and nx, a frame that no other page shows.
Quiet == \A x \in Pages : View(mem', cr3', x) = View(mem, cr3, x)
Adds(v, u, nx) ==
  /\ v \in Pages /\ View(mem, cr3, v) = Unmapped
  /\ \E f \in Frames : /\ \A x \in Pages : View(mem, cr3, x).frame # f
                       /\ View(mem', cr3', v) = [frame |-> f, user |-> u, nx |-> nx]
  /\ \A x \in Pages : x # v => View(mem', cr3', x) = View(mem, cr3, x)

\* What a step may do to the requests and to what the pages show.
Serves ==
  \/ Quiet /\ (Wanted' = Wanted \/ Wanted = << >> \/ Wanted' = << >>)
  \/ /\ Wanted # << >> /\ Wanted' = Tail(Wanted)
     /\ Adds(Head(Wanted).page, Head(Wanted).user, Head(Wanted).nx)

\* Outside the loops and the self-test nothing is requested.
LEMMA NothingWanted ==
  /\ pc \notin {"gdt_map", "heap_map", "user_map", "map_test"} => Wanted = << >>
  /\ pc' \notin {"gdt_map", "heap_map", "user_map", "map_test"} => Wanted' = << >>
BY Zenon DEF Wanted

\* Conditions on where the boot path goes next.
NextPc ==
  /\ pc' \in Steps \ {"takeover", "map_test"}
  /\ region["user"] # -1 => pc' \in {"user_map", "ring3", "stopped"}
  /\ pc' \in {"user_map", "ring3"} => region["user"] # -1
  /\ pc' \in {"heap", "heap_map", "drivers", "user", "user_map", "ring3"} => mem[cr3][0].present
  /\ pc' = "gdt_map" => mem[cr3][0].present \/ (todo # << >> /\ index4(todo[1].page) = 0)
  /\ pc' \in {"gdt", "gdt_map", "heap", "heap_map", "drivers"} => driver = {}
  /\ pc' = "ring3" => /\ todo = << >> /\ kstack'
                      /\ user_range' = <<region["user"] * PAGE,
                                         (region["user"] + StackPage(load_segments) + 1) * PAGE>>

\* What the program asked for does not change with the rest.
LEMMA AskedSame ==
  ASSUME elf' = elf
  PROVE  load_segments' = load_segments /\ (region' = region => Asked' = Asked)
<1>1. load_segments' = load_segments
  BY DEF load_segments
<1>2. region' = region => Asked' = Asked
  BY <1>1, Zenon DEF Asked
<1> QED
  BY <1>1, <1>2

\* Steps that touch no table, frame, region or queue.
LEMMA QuietStep ==
  ASSUME BInv, NextPc,
         UNCHANGED <<mem, cr3, free, pool, region, todo, driver, leaked, elf>>
  PROVE  BInv' /\ Quiet
<1>1. PICK lv : Accounted(lv)
  BY Zenon DEF BInv, BootInv
<1>2. Accounted(lv)'
  BY <1>1, Zenon DEF Accounted
<1>3. Located'
  BY Zenon DEF BInv, BootInv, Located, NextPc
<1>4. Tops' /\ Queued'
  BY DEF BInv, BootInv, Tops, Queued, UserTop
<1>5. load_segments' = load_segments /\ Asked' = Asked
  BY AskedSame, Zenon
<1>6. Program'
  BY <1>5 DEF BInv, Program, NextPc
<1>7. Quiet
  BY Zenon DEF Quiet
<1>8. (\E l : Accounted(l))'
  BY <1>2
<1> QED
  BY <1>3, <1>4, <1>6, <1>7, <1>8, SMTT(30) DEF BInv, BootInv

\* A call of map_page_impl with the lowest free frame, as a step.
MapsPage(v, u, nx, ok) ==
  LET f == Lowest(free)
      r == map_page_impl(mem, free \ {f}, v, f, u, nx)
  IN  /\ mem' = r.mem /\ free' = r.free /\ (ok <=> r.ok) /\ ok \in BOOLEAN
      /\ leaked' = IF ok THEN leaked ELSE leaked \cup {f}
      /\ UNCHANGED <<cr3, pool, region, driver, elf>>

\* What such a step leaves.
PageMapped(v, u, nx, ok) ==
  /\ (\E lv : Accounted(lv))' /\ Tops' /\ UserTop(index4(v))' = UserTop(index4(v))
  /\ mem[cr3][0].present => mem'[cr3'][0].present
  /\ ok => /\ Adds(v, u, nx) /\ mem'[cr3'][index4(v)].present
           /\ View(mem', cr3', v).user = u /\ View(mem', cr3', v).nx = nx
           /\ \A x \in Pages : x # v => View(mem', cr3', x) = View(mem, cr3, x)
  /\ ~ok => Quiet

\* Mapping a page keeps the account of the frames and shows that page.
LEMMA MapStep ==
  ASSUME BInv, free # {}, NEW v, NEW u, NEW nx, NEW ok, Ready(v, u, nx), MapsPage(v, u, nx, ok),
         u <=> UserTop(index4(v))
  PROVE  PageMapped(v, u, nx, ok)
<1> DEFINE f == Lowest(free)
           r == map_page_impl(mem, free \ {f}, v, f, u, nx)
           lost == IF r.ok THEN {} ELSE {f}
<1>1. PICK lv : Accounted(lv)
  BY Zenon DEF BInv, BootInv
<1>2. /\ \E nl : /\ Tree(r.mem, cr3, nl) /\ r.free \subseteq pool
                 /\ r.free \cap Used(nl) = {}
                 /\ pool \ r.free = Used(nl) \cup driver \cup leaked \cup lost
                 /\ Used(nl) \cap (driver \cup leaked \cup lost) = {}
      /\ SameTops(r.mem, mem, index4(v), u)
      /\ r.ok => \A x \in Pages : View(r.mem, cr3, x) =
                   IF x = v THEN [frame |-> f, user |-> u, nx |-> nx] ELSE View(mem, cr3, x)
      /\ ~r.ok => \A x \in Pages : View(r.mem, cr3, x) = View(mem, cr3, x)
      /\ f \in Frames /\ \A x \in Pages : View(mem, cr3, x).frame # f
      /\ r.ok \in BOOLEAN
  BY <1>1, MapEffect, Zenon
<1>3. /\ mem' = r.mem /\ free' = r.free /\ (ok <=> r.ok) /\ ok \in BOOLEAN
      /\ leaked' = IF ok THEN leaked ELSE leaked \cup {f}
      /\ UNCHANGED <<cr3, pool, region, driver, elf>>
  BY Zenon DEF MapsPage
<1> HIDE DEF r, f
<1>4. leaked' = leaked \cup lost
  BY <1>3, Zenon
<1>5. v \in Pages /\ View(mem, cr3, v) = Unmapped /\ u \in BOOLEAN
  BY Zenon DEF Ready
<1>6. (\E l : Accounted(l))'
  <2>1. PICK nl : /\ Tree(r.mem, cr3, nl) /\ r.free \subseteq pool
                  /\ r.free \cap Used(nl) = {}
                  /\ pool \ r.free = Used(nl) \cup driver \cup leaked \cup lost
                  /\ Used(nl) \cap (driver \cup leaked \cup lost) = {}
    BY <1>2, Zenon
  <2>2. pool \subseteq Frames
    BY <1>1, Zenon DEF Accounted
  <2>3. driver \cup leaked \cup lost = driver' \cup leaked'
    BY <1>3, <1>4, Zenon
  <2> HIDE DEF lost
  <2>4. Accounted(nl)'
    BY <1>3, <1>4, <2>1, <2>2, <2>3, SMTT(30) DEF Accounted
  <2> QED
    BY <2>4
<1>7. \A i \in Index : \/ mem'[cr3'][i] = mem[cr3][i]
                       \/ i = index4(v) /\ ~mem[cr3][i].present /\ mem'[cr3'][i].present /\ mem'[cr3'][i].user = u
  BY <1>2, <1>3, Zenon DEF SameTops
<1>8. Tops'
  <2>1. \A i \in Index : mem[cr3][i].present => (mem[cr3][i].user <=> UserTop(i))
    BY Zenon DEF BInv, BootInv, Tops
  <2>2. ASSUME NEW i \in Index, mem'[cr3'][i].present
        PROVE  mem'[cr3'][i].user <=> UserTop(i)
    BY <1>5, <1>7, <2>1, <2>2, Zenon
  <2>3. \A i \in Index : UserTop(i)' <=> UserTop(i)
    BY <1>3, Zenon DEF UserTop
  <2> QED
    BY <2>2, <2>3, Zenon DEF Tops
<1>9. UserTop(index4(v))' = UserTop(index4(v))
  BY <1>3, Zenon DEF UserTop
<1>10. mem[cr3][0].present => mem'[cr3'][0].present
  <2>1. 0 \in Index
    BY TablesAssumption DEF Index
  <2> QED
    BY <1>7, <2>1, Zenon
<1>11. ASSUME ~ok PROVE Quiet
  BY <1>2, <1>3, <1>11, Zenon DEF Quiet
<1>12. ASSUME ok
       PROVE  /\ Adds(v, u, nx) /\ mem'[cr3'][index4(v)].present
              /\ View(mem', cr3', v).user = u /\ View(mem', cr3', v).nx = nx
              /\ \A x \in Pages : x # v => View(mem', cr3', x) = View(mem, cr3, x)
  <2> DEFINE y == [frame |-> f, user |-> u, nx |-> nx]
  <2>1. /\ \A x \in Pages : x # v => View(mem', cr3', x) = View(mem, cr3, x)
        /\ View(mem', cr3', v) = y
    BY <1>2, <1>3, <1>5, <1>12, Zenon
  <2>2. y.frame = f /\ y.user = u /\ y.nx = nx
    OBVIOUS
  <2> HIDE DEF y
  <2>3. Adds(v, u, nx)
    BY <1>2, <1>5, <2>1, Zenon DEF Adds, y
  <2>4. y # Unmapped
    <3>1. Unmapped.frame = -3
      BY DEF Unmapped
    <3> QED
      BY <1>2, <2>2, <3>1, FrameNumbers, Zenon
  <2>5. mem'[cr3'][index4(v)].present
    BY <1>2, <1>3, <1>5, <2>1, <2>4, ShownFrame, Zenon
  <2> QED
    BY <2>1, <2>2, <2>3, <2>5, SMTT(30)
<1> QED
  BY <1>6, <1>8, <1>9, <1>10, <1>11, <1>12, Zenon DEF PageMapped

\* One page of the queue.
LEMMA MapNextStep ==
  ASSUME BInv, MapNext
  PROVE  BInv' /\ Serves
<1>0. /\ pc \in {"gdt_map", "heap_map", "user_map"} /\ todo # << >>
      /\ UNCHANGED <<cr3, inputs, region, tss, user_range, kstack, driver>>
  BY DEF MapNext
<1>1. /\ Located /\ Tops /\ Queued /\ Program /\ BootInv
  BY DEF BInv, BootInv
<1>2. CASE free = {}
  <2>1. pc' = "stopped" /\ UNCHANGED <<mem, cr3, free, pool, region, todo, driver, leaked, elf>>
    BY <1>0, <1>2, Zenon DEF MapNext, Stop, inputs
  <2>2. NextPc
    BY <2>1 DEF NextPc, Steps
  <2>3. Serves
    BY <2>1, <2>2, QuietStep, NothingWanted, Zenon DEF Serves
  <2> QED
    BY <2>1, <2>2, <2>3, QuietStep, Zenon
<1>3. CASE free # {}
  <2> DEFINE h == todo[1]
             v == h.page
             u == h.user
             x0 == h.nx
             f == Lowest(free)
             r == map_page_impl(mem, free \ {f}, v, f, u, x0)
             n == Len(todo)
  <2>1. /\ todo \in Seq(Request) /\ n \in Nat /\ 1 \in 1 .. n /\ h \in Request /\ Head(todo) = h
        /\ Tail(todo) \in Seq(Request) /\ Len(Tail(todo)) = n - 1
        /\ \A k \in 1 .. (n - 1) : Tail(todo)[k] = todo[k + 1] /\ k + 1 \in 1 .. n /\ k + 1 # 1
    BY <1>0, <1>1 DEF Queued
  <2>2. /\ \A k \in 1 .. n : /\ View(mem, cr3, todo[k].page) = Unmapped
                             /\ todo[k].user <=> UserTop(index4(todo[k].page))
        /\ \A j, k \in 1 .. n : todo[j].page = todo[k].page => j = k
    BY <1>1, Zenon DEF Queued
  <2>3. /\ mem' = r.mem /\ free' = r.free
        /\ IF r.ok THEN todo' = Tail(todo) /\ UNCHANGED <<pc, leaked>>
           ELSE pc' = "stopped" /\ leaked' = leaked \cup {f} /\ UNCHANGED todo
    BY <1>3, <2>1 DEF MapNext, Stop
  <2> HIDE DEF r, f, n, h
  <2>a. \A k \in 1 .. n : todo[k].page \in Pages
    <3>1. \A k \in 1 .. n : todo[k] \in Request
      BY <2>1 DEF n
    <3> QED
      BY <3>1, Zenon DEF Request
  <2>4. v \in Pages /\ u \in BOOLEAN /\ x0 \in BOOLEAN
    BY <2>1, Zenon DEF Request
  <2>5. View(mem, cr3, v) = Unmapped /\ (u <=> UserTop(index4(v)))
    BY <2>1, <2>2, Zenon DEF h
  <2>6. mem[cr3][index4(v)].present => mem[cr3][index4(v)].user = u
    <3>1. index4(v) \in Index
      BY <2>4, PageDigits, Zenon
    <3>2. mem[cr3][index4(v)].present => (mem[cr3][index4(v)].user <=> UserTop(index4(v)))
      BY <1>1, <3>1 DEF Tops
    <3>3. \E lv : Accounted(lv)
      BY <1>1, Zenon DEF BootInv
    <3>4. mem \in Memory /\ cr3 \in Dom
      BY <3>3, FrameNumbers DEF Accounted, Tree, Shape, Dom
    <3>5. mem[cr3][index4(v)] \in Entry
      BY <3>1, <3>4, Zenon DEF Memory
    <3>6. mem[cr3][index4(v)].user \in BOOLEAN
      BY <3>5, Zenon DEF Entry
    <3> HIDE DEF u, v
    <3> QED
      BY <2>4, <2>5, <3>2, <3>6, Zenon
  <2>7. Ready(v, u, x0)
    BY <2>4, <2>5, <2>6, Zenon DEF Ready
  <2>8. ASSUME NEW ok \in BOOLEAN, ok <=> r.ok
        PROVE  MapsPage(v, u, x0, ok)
    <3>1. leaked' = IF ok THEN leaked ELSE leaked \cup {f}
      BY <2>3, <2>8
    <3> QED
      BY <1>0, <2>3, <2>8, <3>1, Zenon DEF MapsPage, inputs, r, f
  <2>9. PICK ok \in BOOLEAN : ok <=> r.ok
    BY Zenon
  <2>10. MapsPage(v, u, x0, ok)
    BY <2>8, <2>9, Zenon
  <2> HIDE DEF v, u, x0
  <2>11. /\ (\E lv : Accounted(lv))' /\ Tops'
         /\ mem[cr3][0].present => mem'[cr3'][0].present
         /\ ok => /\ Adds(v, u, x0) /\ mem'[cr3'][index4(v)].present
                  /\ View(mem', cr3', v).user = u /\ View(mem', cr3', v).nx = x0
                  /\ \A x \in Pages : x # v => View(mem', cr3', x) = View(mem, cr3, x)
         /\ ~ok => Quiet
    <3>1. PageMapped(v, u, x0, ok)
      BY <1>3, <2>5, <2>7, <2>10, MapStep, Zenon
    <3> QED  BY <3>1, Zenon DEF PageMapped
  <2>12. Located'
    BY <1>0, <1>1, <2>3, SMTT(30) DEF Located, Steps
  <2>13. load_segments' = load_segments /\ Asked' = Asked
    BY <1>0, AskedSame, Zenon DEF inputs
  <2>14. \A i : UserTop(i)' <=> UserTop(i)
    BY <1>0, Zenon DEF UserTop
  <2>15. CASE ~ok
    <3>1. pc' = "stopped" /\ todo' = todo /\ Quiet /\ region' = region /\ elf' = elf
      BY <1>0, <2>3, <2>9, <2>11, <2>15, SMTT(30) DEF inputs
    <3>2. \A k \in 1 .. n : View(mem', cr3', todo[k].page) = Unmapped
      BY <2>2, <2>a, <3>1, Zenon DEF Quiet
    <3>3. Queued'
      BY <2>1, <2>2, <2>14, <3>1, <3>2, SMTT(30) DEF Queued, n
    <3>4. \A q \in Asked : q.page \in Pages
      BY <1>1, AskedFacts, Zenon DEF Request
    <3>5. Program'
      BY <1>1, <2>13, <3>1, <3>4, Zenon DEF Program, Quiet
    <3>6. Serves
      BY <3>1, NothingWanted, Zenon DEF Serves
    <3> QED
      BY <2>11, <2>12, <3>1, <3>3, <3>5, <3>6, Zenon DEF BInv, BootInv
  <2>16. CASE ok
    <3>1. pc' = pc /\ todo' = Tail(todo) /\ region' = region /\ elf' = elf
      BY <1>0, <2>3, <2>9, <2>16, Zenon DEF inputs
    <3>2. ASSUME NEW k \in 1 .. (n - 1)
          PROVE  /\ View(mem', cr3', todo'[k].page) = Unmapped
                 /\ todo'[k].user <=> UserTop(index4(todo'[k].page))
      <4>1. todo'[k] = todo[k + 1] /\ k + 1 \in 1 .. n /\ k + 1 # 1
        BY <2>1, <3>1, Zenon
      <4>2. todo[k + 1].page # v /\ todo[k + 1].page \in Pages
        BY <2>1, <2>2, <2>a, <4>1, Zenon DEF v, h
      <4> QED
        BY <2>2, <2>11, <2>16, <4>1, <4>2, Zenon
    <3>3. ASSUME NEW j \in 1 .. (n - 1), NEW k \in 1 .. (n - 1), todo'[j].page = todo'[k].page
          PROVE  j = k
      <4>1. todo'[k] = todo[k + 1] /\ k + 1 \in 1 .. n /\ todo'[j] = todo[j + 1] /\ j + 1 \in 1 .. n
        BY <2>1, <3>1, Zenon
      <4>2. j + 1 = k + 1
        BY <2>2, <3>3, <4>1, Zenon
      <4> QED
        BY <2>1, <4>2
    <3>4. Queued'
      <4>1. Len(todo') = n - 1 /\ todo' \in Seq(Request)
        BY <2>1, <3>1, Zenon
      <4> QED
        BY <2>14, <3>2, <3>3, <4>1, Zenon DEF Queued
    <3>5. pc' = "gdt_map" => mem'[cr3'][0].present
      <4>1. CASE mem[cr3][0].present
        BY <2>11, <4>1, Zenon
      <4>2. CASE ~mem[cr3][0].present /\ pc = "gdt_map"
        <5>1. index4(v) = 0
          BY <1>1, <4>2, Zenon DEF Program, v, h
        <5> QED
          BY <2>11, <2>16, <5>1, SMTT(30)
      <4> QED
        BY <3>1, <4>1, <4>2, Zenon
    <3>6. ASSUME NEW q \in Asked
          PROVE  \/ \E k \in 1 .. Len(todo') : todo'[k] = q
                 \/ View(mem', cr3', q.page).user /\ View(mem', cr3', q.page).nx = q.nx
      <4>0. q \in Request /\ q.user = TRUE /\ q.page \in Pages
        BY <1>1, AskedFacts, Zenon DEF Request
      <4>1. CASE q = h
        <5>1. View(mem', cr3', q.page).user = q.user /\ View(mem', cr3', q.page).nx = q.nx
          BY <2>11, <2>16, <4>1, Zenon DEF v, u, x0
        <5> QED
          BY <4>0, <5>1
      <4>2. CASE q # h /\ \E k \in 1 .. n : todo[k] = q
        <5>1. PICK k \in 1 .. n : todo[k] = q
          BY <4>2, Zenon
        <5>2. k # 1
          BY <4>2, <5>1, Zenon DEF h
        <5>3. k - 1 \in 1 .. (n - 1) /\ (k - 1) + 1 = k
          BY <2>1, <5>2
        <5>4. todo'[k - 1] = q /\ k - 1 \in 1 .. Len(todo')
          BY <2>1, <3>1, <5>1, <5>3, Zenon
        <5> QED
          BY <5>4, Zenon
      <4>3. CASE View(mem, cr3, q.page).user /\ View(mem, cr3, q.page).nx = q.nx
        <5>1. ~Unmapped.user
          BY Zenon DEF Unmapped
        <5>2. q.page # v
          BY <2>5, <4>3, <5>1, Zenon
        <5>3. View(mem', cr3', q.page) = View(mem, cr3, q.page)
          BY <2>11, <2>16, <4>0, <5>2, SMTT(30)
        <5> QED
          BY <4>3, <5>3, Zenon
      <4> QED
        BY <1>1, <4>1, <4>2, <4>3, Zenon DEF Program, n
    <3>7. ASSUME NEW x \in Pages, View(mem', cr3', x).user PROVE \E q \in Asked : q.page = x
      <4>1. CASE x # v
        BY <1>1, <2>11, <2>16, <3>7, <4>1, SMTT(30) DEF Program
      <4>2. CASE x = v
        <5>1. u
          BY <2>11, <2>16, <3>7, <4>2, SMTT(30)
        <5>2. region["user"] # -1
          BY <2>5, <5>1, Zenon DEF UserTop
        <5>3. h \in Asked
          BY <1>1, <2>1, <5>2, Zenon DEF Program, h, n
        <5> QED
          BY <4>2, <5>3, Zenon DEF v
      <4> QED
        BY <4>1, <4>2, Zenon
    <3>8. region["user"] # -1 => \A k \in 1 .. Len(todo') : todo'[k] \in Asked
      BY <1>1, <2>1, <3>1, Zenon DEF Program, n
    <3>9. pc' # "ring3" /\ (pc' # "gdt_map" => mem[cr3][0].present)
      BY <1>0, <1>1, <3>1 DEF Program
    <3>10. Program'
      BY <1>1, <2>11, <2>13, <3>1, <3>5, <3>6, <3>7, <3>8, <3>9, Zenon DEF Program
    <3>11. Serves
      <4>1. Wanted = todo /\ Wanted' = Tail(todo)
        BY <1>0, <3>1, Zenon DEF Wanted
      <4> QED
        BY <1>0, <2>1, <2>11, <2>16, <4>1, Zenon DEF Serves, v, u, x0
    <3> QED
      BY <2>11, <2>12, <3>4, <3>10, <3>11, Zenon DEF BInv, BootInv
  <2> QED
    BY <2>15, <2>16, Zenon
<1> QED
  BY <1>2, <1>3, Zenon

\* The self-test.
LEMMA MapTestStep ==
  ASSUME BInv, MapTest
  PROVE  BInv' /\ Serves
<1>0. /\ pc = "map_test" /\ pc' = "gdt"
      /\ UNCHANGED <<cr3, todo, inputs, region, tss, user_range, kstack, driver>>
  BY Zenon DEF MapTest
<1>1. /\ Located /\ Tops /\ Queued /\ Program /\ BootInv
  BY DEF BInv, BootInv
<1>2. todo = << >> /\ region["user"] = -1 /\ driver = {}
  BY <1>0, <1>1, Zenon DEF Located
<1>3. CASE FreeTop = {} \/ free = {}
  <2>1. UNCHANGED <<mem, cr3, free, pool, region, todo, driver, leaked, elf>>
    BY <1>0, <1>3, Zenon DEF MapTest, inputs
  <2>2. NextPc
    BY <1>0, <1>2, Zenon DEF NextPc, Steps
  <2>3. Serves
    BY <1>0, <2>1, <2>2, QuietStep, NothingWanted, Zenon DEF Serves
  <2> QED
    BY <2>1, <2>2, <2>3, QuietStep
<1>4. CASE FreeTop # {} /\ free # {}
  <2> DEFINE v == RegionPage(find_free_top_index)
             f == Lowest(free)
             r == map_page_impl(mem, free \ {f}, v, f, FALSE, FALSE)
  <2>1. /\ mem' = r.mem /\ free' = r.free
        /\ leaked' = IF r.ok THEN leaked ELSE leaked \cup {f}
    BY <1>4, Zenon DEF MapTest
  <2>2. PICK lv : Tree(mem, cr3, lv)
    BY <1>1 DEF BootInv, Accounted
  <2>3. /\ v \in Pages /\ index4(v) = find_free_top_index /\ View(mem, cr3, v) = Unmapped
        /\ ~mem[cr3][find_free_top_index].present
    <3>1. PICK p : p = << >>
      OBVIOUS
    <3>2. Listing(p)
      BY <3>1, NothingListed, Zenon
    <3>3. PICK t : t = Moved(p, RegionPage(find_free_top_index))
      BY Zenon
    <3> QED
      BY <1>4, <2>2, <3>2, <3>3, ClaimEffect, Zenon
  <2> HIDE DEF v
  <2>4. Ready(v, FALSE, FALSE)
    BY <2>3 DEF Ready
  <2>5. PICK ok \in BOOLEAN : ok <=> r.ok
    BY Zenon
  <2>6. MapsPage(v, FALSE, FALSE, ok)
    <3> HIDE DEF r
    <3>1. leaked' = IF ok THEN leaked ELSE leaked \cup {f}
      BY <2>1, <2>5, Zenon
    <3> QED
      BY <1>0, <2>1, <2>5, <3>1, Zenon DEF MapsPage, inputs, r
  <2>7. FALSE <=> UserTop(index4(v))
    BY <1>2 DEF UserTop
  <2>8. /\ (\E l : Accounted(l))' /\ Tops'
        /\ ok => /\ Adds(v, FALSE, FALSE) /\ View(mem', cr3', v).user = FALSE
                 /\ \A x \in Pages : x # v => View(mem', cr3', x) = View(mem, cr3, x)
        /\ ~ok => Quiet
    <3>1. PageMapped(v, FALSE, FALSE, ok)
      BY <1>4, <2>4, <2>6, <2>7, MapStep, Zenon
    <3> QED  BY <3>1, Zenon DEF PageMapped
  <2>9. Located'
    BY <1>0, <1>1, <1>2, ZenonT(40) DEF Located, Steps
  <2>10. Queued'
    BY <1>0, <1>1, <1>2 DEF Queued
  <2>11. Asked' = {} /\ Asked = {}
    BY <1>0, <1>2, Zenon DEF Asked
  <2>12. ASSUME NEW x \in Pages PROVE ~View(mem', cr3', x).user
    <3>1. ~View(mem, cr3, x).user
      BY <1>1, <2>11 DEF Program
    <3> QED
      BY <2>8, <3>1, Zenon DEF Quiet
  <2>13. Program'
    BY <1>0, <1>1, <1>2, <2>11, <2>12, Zenon DEF Program, inputs
  <2>14. Serves
    <3>1. Wanted' = << >>
      BY <1>0, NothingWanted, Zenon
    <3>2. PICK q : q = [page |-> v, user |-> FALSE, nx |-> FALSE]
      BY ZenonT(40)
    <3>3. Wanted = <<q>>
      BY <1>0, <1>4, <3>2, Zenon DEF Wanted, v
    <3>4. /\ Wanted # << >> /\ Tail(Wanted) = << >> /\ Head(Wanted) = q
          /\ q.page = v /\ q.user = FALSE /\ q.nx = FALSE
      BY <3>2, <3>3
    <3> QED
      BY <2>8, <3>1, <3>4, ZenonT(40) DEF Serves
  <2> QED
    BY <2>8, <2>9, <2>10, <2>13, <2>14, Zenon DEF BInv, BootInv
<1> QED
  BY <1>3, <1>4

\* The takeover.
LEMMA TakeoverStep ==
  ASSUME BInv, takeover
  PROVE  BInv' /\ Quiet
<1>0. /\ pc = "takeover"
      /\ UNCHANGED <<todo, inputs, region, tss, user_range, kstack, driver, leaked>>
  BY Zenon DEF takeover
<1>1. /\ Located /\ Tops /\ Queued /\ Program /\ BootInv
  BY DEF BInv, BootInv
<1>2. /\ todo = << >> /\ region["user"] = -1 /\ cr3 = BootPml4 /\ free = pool
      /\ driver = {} /\ leaked = {}
  BY <1>0, <1>1, Zenon DEF Located
<1>3. CASE free = {}
  <2>1. pc' = "gdt" /\ UNCHANGED <<mem, cr3, free, pool, region, todo, driver, leaked, elf>>
    BY <1>0, <1>3, Zenon DEF takeover, inputs, tables
  <2>2. NextPc
    BY <1>2, <2>1, Zenon DEF NextPc, Steps
  <2> QED
    BY <2>1, <2>2, QuietStep, Zenon
<1>4. CASE free # {}
  <2> DEFINE f == Lowest(free)
  <2>1. /\ mem' = [mem EXCEPT ![f] = mem[cr3]] /\ cr3' = f /\ free' = free \ {f} /\ pc' = "map_test"
    BY <1>4, Zenon DEF takeover
  <2>2. PICK lv : Accounted(lv)
    BY <1>1 DEF BootInv
  <2>3. Bare(mem, cr3)
    BY <1>0, <1>1, <2>2, BareAtTakeover, Zenon
  <2>4. free \subseteq pool /\ pool \subseteq Frames
    BY <2>2, Zenon DEF Accounted
  <2>5. f \in free /\ f \in Frames /\ f \in Dom /\ cr3 \in Dom /\ BootPdpt \in Dom /\ f # BootPdpt
    BY <1>2, <1>4, <2>4, LowestIn, FrameNumbers, SMTT(30)
  <2> HIDE DEF f
  <2>6. mem'[f] = mem[cr3] /\ mem'[BootPdpt] = mem[BootPdpt] /\ mem' \in Memory
    <3>1. mem \in Memory
      BY <2>3, Zenon DEF Bare
    <3> QED
      BY <2>1, <2>5, <3>1, ZenonT(40) DEF Memory
  <2>7. Bare(mem', cr3')
    BY <2>1, <2>3, <2>5, <2>6, Zenon DEF Bare
  <2>8. /\ Tree(mem', cr3', RootOnly(cr3')) /\ Used(RootOnly(cr3')) = {f}
        /\ \A x \in Pages : View(mem', cr3', x) = IF mem'[cr3'][index4(x)].present
             THEN [frame |-> BootPage, user |-> FALSE, nx |-> FALSE] ELSE Unmapped
    <3>1. PICK m, c : m = mem' /\ c = cr3'
      BY Zenon
    <3>2. /\ Tree(m, c, RootOnly(c)) /\ Used(RootOnly(c)) = Frames \cap {c}
          /\ \A x \in Pages : View(m, c, x) = IF m[c][index4(x)].present
               THEN [frame |-> BootPage, user |-> FALSE, nx |-> FALSE] ELSE Unmapped
      BY <2>7, <3>1, BareTree, Zenon
    <3>3. Frames \cap {c} = {f}
      BY <2>1, <2>5, <3>1, ZenonT(40)
    <3> QED  BY <3>1, <3>2, <3>3, Zenon
  <2>9. \A x \in Pages : View(mem, cr3, x) = IF mem[cr3][index4(x)].present
             THEN [frame |-> BootPage, user |-> FALSE, nx |-> FALSE] ELSE Unmapped
    BY <2>3, BareTree
  <2>10. Quiet
    BY <2>1, <2>6, <2>8, <2>9, Zenon DEF Quiet
  <2>a. PICK nl : nl = RootOnly(cr3')
    BY Zenon
  <2>11. Accounted(nl)'
    BY <1>0, <1>2, <2>1, <2>4, <2>5, <2>8, <2>a, SMTT(30) DEF Accounted, inputs
  <2>12. (\E l : Accounted(l))'
    BY <2>11, Zenon
  <2>13. Located'
    BY <1>0, <1>1, <1>2, <2>1, ZenonT(40) DEF Located, Steps
  <2>14. Tops'
    <3>1. \A i : UserTop(i)' <=> UserTop(i)
      BY <1>0 DEF UserTop
    <3> QED
      BY <1>1, <2>1, <2>6, <3>1, SMTT(30) DEF Tops
  <2>15. Queued'
    BY <1>0, <1>2, NothingQueued, Zenon
  <2>16. Asked' = {} /\ Asked = {}
    BY <1>0, <1>2 DEF Asked
  <2>17. Program'
    BY <1>0, <1>1, <1>2, <2>1, <2>10, <2>16, Zenon DEF Program, inputs, Quiet
  <2> QED
    BY <2>10, <2>12, <2>13, <2>14, <2>15, <2>17, SMTT(30) DEF BInv, BootInv
<1> QED
  BY <1>3, <1>4, Zenon

\* A region that starts at a page is one.
LEMMA NoPage == -1 \notin Pages
BY TablesAssumption DEF Pages

\* A claim of a region for pages that are queued there.
LEMMA ClaimStep ==
  ASSUME BInv, NEW who \in {"tss", "heap", "user"}, NEW next, NEW pages, Claim(who, next, pages),
         UNCHANGED <<mem, cr3, free, pool, driver, leaked, elf>>,
         Listing(pages), \A k \in 1 .. Len(pages) : pages[k].user <=> (who = "user"),
         region["user"] = -1, pc \notin {"takeover", "map_test"},
         next \in Steps \ {"takeover", "map_test", "ring3"},
         next \in {"gdt", "gdt_map", "heap", "heap_map", "drivers"} => driver = {},
         who = "user" => /\ next = "user_map" /\ mem[cr3][0].present /\ load_segments # << >>
                         /\ pages = UserPages(load_segments),
         next \in {"heap", "heap_map", "drivers", "user", "user_map", "ring3"} => mem[cr3][0].present,
         next = "gdt_map" => pages # << >>, next = "user_map" => who = "user"
  PROVE  BInv' /\ Quiet
<1>1. /\ Located /\ Tops /\ Queued /\ Program /\ BootInv
  BY Zenon DEF BInv, BootInv
<1>2. CASE FreeTop = {}
  <2>1. pc' = "stopped" /\ UNCHANGED <<region, todo>>
    BY <1>2 DEF Claim, Stop
  <2>2. NextPc
    BY <2>1, Zenon DEF NextPc, Steps
  <2> QED
    BY <2>1, <2>2, QuietStep, Zenon
<1>3. CASE FreeTop # {}
  <2> DEFINE i == find_free_top_index
             b == RegionPage(i)
             n == Len(pages)
  <2>1. /\ pc' = next /\ region' = [region EXCEPT ![who] = b]
        /\ todo' = [k \in 1 .. Len(pages) |-> [pages[k] EXCEPT !.page = @ + b]]
    BY <1>3, Zenon DEF Claim
  <2>2. PICK lv : Accounted(lv)
    BY <1>1, Zenon DEF BootInv
  <2>3. Tree(mem, cr3, lv)
    BY <2>2, Zenon DEF Accounted
  <2>4. /\ i \in Index /\ ~mem[cr3][i].present
        /\ mem[cr3][0].present => i # 0
        /\ 0 \in FreeTop => i = 0
        /\ b \in Pages /\ index4(b) = i
        /\ todo' \in Seq(Request) /\ Len(todo') = n
        /\ \A k \in 1 .. Len(todo') : /\ todo'[k] = [pages[k] EXCEPT !.page = @ + b]
                                      /\ todo'[k].user = pages[k].user
                                      /\ View(mem, cr3, todo'[k].page) = Unmapped
                                      /\ index4(todo'[k].page) = i
        /\ \A j, k \in 1 .. Len(todo') : todo'[j].page = todo'[k].page => j = k
    <3>1. PICK t : t = Moved(pages, b)
      BY Zenon
    <3>2. todo' = t
      BY <2>1, <3>1 DEF Moved
    <3>3. /\ i \in Index /\ ~mem[cr3][i].present
          /\ mem[cr3][0].present => i # 0
          /\ 0 \in FreeTop => i = 0
          /\ b \in Pages /\ index4(b) = i
          /\ Placed(t, pages, i)
      BY <1>3, <2>3, <3>1, ClaimEffect, ZenonT(40)
    <3> QED
      BY <3>2, <3>3, Zenon DEF Placed
  <2>5. PICK c : c = b
    BY Zenon
  <2>6. PICK j0 : j0 = i
    BY Zenon
  <2> HIDE DEF i, b, n
  <2>7. /\ region' = [region EXCEPT ![who] = c] /\ c \in Pages /\ index4(c) = j0 /\ j0 \in Index
        /\ ~mem[cr3][j0].present /\ (mem[cr3][0].present => j0 # 0) /\ c = RegionPage(j0)
    BY <2>1, <2>4, <2>5, <2>6, SMTT(30) DEF b
  <2>8. /\ region' \in [{"tss", "heap", "user"} -> Pages \cup {-1}]
        /\ who = "user" => region'["user"] = c
        /\ who # "user" => region'["user"] = -1
    BY <1>1, <2>7, Zenon DEF Located
  <2>9. c # -1
    BY <2>7, NoPage, Zenon
  <2>10. \A k : UserTop(k)' <=> (who = "user" /\ k = j0)
    BY <2>7, <2>8, <2>9, Zenon DEF UserTop
  <2>11. (\E l : Accounted(l))'
    <3>1. Accounted(lv)'
      BY <2>2, Zenon DEF Accounted
    <3> QED
      BY <3>1
  <2>12. Located'
    BY <1>1, <2>1, <2>8, ZenonT(40) DEF Located
  <2>13. Tops'
    <3>1. \A k \in Index : mem[cr3][k].present => ~mem[cr3][k].user /\ k # j0
      BY <1>1, <2>7, Zenon DEF Tops, UserTop
    <3> QED
      BY <2>10, <3>1 DEF Tops
  <2>14. Queued'
    BY <2>4, <2>6, <2>10, ZenonT(40) DEF Queued, n
  <2>15. Quiet
    BY DEF Quiet
  <2>16. load_segments' = load_segments
    BY AskedSame, Zenon
  <2>17. \A x \in Pages : ~View(mem, cr3, x).user
    BY <1>1 DEF Program, Asked
  <2>18. Asked' = IF who = "user" THEN {[r EXCEPT !.page = @ + c] : r \in Range(pages)} ELSE {}
    BY <2>8, <2>9, <2>16, Zenon DEF Asked
  <2>19. who = "user" => \A k \in 1 .. Len(todo') : todo'[k] \in Asked'
    <3>1. Range(pages) = {pages[k] : k \in 1 .. n}
      BY DEF Range, n
    <3> SUFFICES ASSUME who = "user", NEW k \in 1 .. Len(todo') PROVE todo'[k] \in Asked'
      BY Zenon
    <3>2. k \in 1 .. n /\ todo'[k] = [pages[k] EXCEPT !.page = @ + c]
      BY <2>4, <2>5, Zenon
    <3>3. pages[k] \in Range(pages)
      BY <3>1, <3>2, ZenonT(40)
    <3> QED
      BY <2>18, <3>2, <3>3, ZenonT(40)
  <2>20. \A r \in Asked' : \E k \in 1 .. Len(todo') : todo'[k] = r
    <3>1. Range(pages) = {pages[k] : k \in 1 .. n}
      BY DEF Range, n
    <3> QED
      BY <2>4, <2>5, <2>18, <3>1, SMTT(30)
  <2>21. who = "user" => \E k \in Index \ {0} : region'["user"] = RegionPage(k)
    BY <2>7, <2>8
  <2>22. next = "gdt_map" => mem[cr3][0].present \/ (todo' # << >> /\ index4(todo'[1].page) = 0)
    <3> SUFFICES ASSUME next = "gdt_map", ~mem[cr3][0].present
                 PROVE  todo' # << >> /\ index4(todo'[1].page) = 0
      BY Zenon
    <3>1. 0 \in FreeTop
      BY TablesAssumption DEF FreeTop, Index
    <3>2. 1 \in 1 .. n /\ n # 0
      BY DEF n
    <3> QED
      BY <2>4, <3>1, <3>2, Zenon
  <2>23. pc' \in {"user_map", "ring3"} => region'["user"] # -1
    BY <2>1, <2>8, <2>9, Zenon
  <2>24. Program'
    BY <1>1, <2>1, <2>8, <2>16, <2>17, <2>19, <2>20, <2>21, <2>22, <2>23, Zenon DEF Program
  <2> QED
    BY <2>11, <2>12, <2>13, <2>14, <2>15, <2>24, SMTT(30) DEF BInv, BootInv
<1> QED
  BY <1>2, <1>3, Zenon

\* The frames of the virtio queue, or the frames lost on the way to it.
LEMMA ProbeStep ==
  ASSUME BInv, probe
  PROVE  BInv' /\ Quiet
<1>1. /\ Located /\ Tops /\ Queued /\ Program /\ BootInv
  BY DEF BInv, BootInv
<1>2. /\ pc = "drivers" /\ pc' = "user"
      /\ UNCHANGED <<mem, cr3, todo, elf, pool, region>>
  BY Zenon DEF probe, inputs
<1>3. driver = {} /\ region["user"] = -1 /\ mem[cr3][0].present
  BY <1>1, <1>2, Zenon DEF Located, Program
<1>4. PICK got : /\ got \subseteq free /\ free' = free \ got
                 /\ driver' \cup leaked' = got \cup leaked
  <2>1. CASE UNCHANGED <<free, driver, leaked>>
    BY <1>3, <2>1, Zenon
  <2>2. CASE ~UNCHANGED <<free, driver, leaked>>
    <3> DEFINE g == {f \in free : Cardinality({h \in free : h < f}) < VirtioFrames}
               all == Cardinality(g) = VirtioFrames
    <3>1. /\ free' = free \ g /\ driver' = IF all THEN g ELSE {}
          /\ leaked' = IF all THEN leaked ELSE leaked \cup g
      BY <2>2, Zenon DEF probe
    <3>2. g \subseteq free
      OBVIOUS
    <3> HIDE DEF g
    <3>3. driver' \cup leaked' = g \cup leaked
      BY <3>1, Zenon
    <3> QED
      BY <3>1, <3>2, <3>3, Zenon
  <2> QED
    BY <2>1, <2>2, Zenon
<1>5. PICK lv : Accounted(lv)
  BY <1>1 DEF BootInv
<1>6. Accounted(lv)'
  <2>1. /\ Tree(mem, cr3, lv) /\ free \subseteq pool /\ pool \subseteq Frames
        /\ free \cap Used(lv) = {} /\ pool \ free = Used(lv) \cup driver \cup leaked
        /\ Used(lv) \cap (driver \cup leaked) = {}
    BY <1>5, Zenon DEF Accounted
  <2> DEFINE u == Used(lv)
  <2> HIDE DEF u
  <2>2. /\ free' \subseteq pool /\ free' \cap u = {}
        /\ pool \ free' = u \cup driver' \cup leaked'
        /\ u \cap (driver' \cup leaked') = {}
    BY <1>3, <1>4, <2>1, ZenonT(40) DEF u
  <2> QED
    BY <1>2, <2>1, <2>2, Zenon DEF Accounted, u
<1>7. (\E l : Accounted(l))'
  BY <1>6, Zenon
<1>8. Located'
  BY <1>1, <1>2, <1>3, SMTT(30) DEF Located, Steps
<1>9. Tops' /\ Queued'
  BY <1>1, <1>2, Zenon DEF Tops, Queued, UserTop
<1>10. load_segments' = load_segments /\ Asked' = Asked
  BY <1>2, AskedSame
<1>11. Program'
  BY <1>1, <1>2, <1>3, <1>10, ZenonT(40) DEF Program
<1>12. Quiet
  BY <1>2, Zenon DEF Quiet
<1> QED
  BY <1>7, <1>8, <1>9, <1>11, <1>12, Zenon DEF BInv, BootInv

\* The pages of map_range fit a region.
LEMMA KernelListing ==
  ASSUME NEW n \in Nat, n <= RegionPage(1)
  PROVE  /\ Listing(KernelPages(n)) /\ Len(KernelPages(n)) = n
         /\ \A k \in 1 .. n : KernelPages(n)[k].user = FALSE
<1> DEFINE p == KernelPages(n)
<1>1. RegionPage(1) = REGION /\ REGION \in Nat
  BY TablesAssumption DEF RegionPage, REGION
<1>2. \A k \in 1 .. n : p[k] = [page |-> k - 1, user |-> FALSE, nx |-> FALSE] /\ k - 1 \in Nat
  BY DEF KernelPages
<1>3. DOMAIN p = 1 .. n /\ p = [k \in 1 .. n |-> p[k]]
  BY Zenon DEF KernelPages
<1> HIDE DEF p
<1>4. \A k \in 1 .. n : p[k] \in PageRequest /\ p[k].page = k - 1 /\ p[k].user = FALSE
  <2> SUFFICES ASSUME NEW k \in 1 .. n
               PROVE  p[k] \in PageRequest /\ p[k].page = k - 1 /\ p[k].user = FALSE
    BY Zenon
  <2>1. p[k] = [page |-> k - 1, user |-> FALSE, nx |-> FALSE] /\ k - 1 \in Nat
    BY <1>2, Zenon
  <2> DEFINE j == k - 1
  <2> HIDE DEF j
  <2>2. p[k] = [page |-> j, user |-> FALSE, nx |-> FALSE] /\ j \in Nat
    BY <2>1, Zenon DEF j
  <2>3. p[k] \in PageRequest /\ p[k].page = j
    BY <2>2 DEF PageRequest
  <2>4. p[k].user = FALSE
    BY <2>2
  <2> QED
    BY <2>3, <2>4, Zenon DEF j
<1>5. p \in Seq(PageRequest) /\ Len(p) = n
  BY <1>3, <1>4, SMTT(30)
<1>6. Listing(p)
  BY <1>1, <1>4, <1>5, SMTT(30) DEF Listing
<1> QED
  BY <1>4, <1>5, <1>6, Zenon DEF p

\* The user program's pages fit the region bring_up claims.
LEMMA UserListing ==
  ASSUME elf \in Elfs, load_segments # << >>
  PROVE  /\ Listing(UserPages(load_segments))
         /\ \A k \in 1 .. Len(UserPages(load_segments)) : UserPages(load_segments)[k].user = TRUE
<1>1. PICK im : im = load_segments
  BY Zenon
<1>2. Loadable(im)
  BY <1>1, LoadFacts, Zenon
<1>3. PICK u : u = UserPages(im)
  BY Zenon
<1>4. PICK s : s = StackPage(im)
  BY Zenon
<1>5. /\ s \in Nat /\ s < REGION /\ u \in Seq(PageRequest)
      /\ \A x \in 1 .. Len(u) : u[x].user = TRUE /\ u[x].page <= s
      /\ \A x, y \in 1 .. Len(u) : u[x].page = u[y].page => x = y
  BY <1>2, <1>3, <1>4, UserFacts, Zenon
<1>6. REGION \in Nat
  BY TablesAssumption DEF REGION
<1>7. \A x \in 1 .. Len(u) : u[x].page < REGION
  <2> SUFFICES ASSUME NEW x \in 1 .. Len(u) PROVE u[x].page < REGION
    BY Zenon
  <2>1. u[x] \in PageRequest
    BY <1>5
  <2>2. u[x].page \in Nat
    BY <2>1, Zenon DEF PageRequest
  <2> QED
    BY <1>5, <1>6, <2>2, SMTT(30)
<1>8. Listing(u)
  BY <1>5, <1>7, Zenon DEF Listing
<1> QED
  BY <1>1, <1>3, <1>5, <1>8, ZenonT(40)

\* gdt::setup and init_heap claim their regions.
LEMMA KernelClaims ==
  ASSUME BInv, gdt_setup \/ init_heap
  PROVE  BInv' /\ Quiet
<1>1. Located /\ Program
  BY Zenon DEF BInv, BootInv
<1>2. CASE gdt_setup
  <2>1. PICK p : p = KernelPages(3)
    OBVIOUS
  <2>2. Listing(p) /\ Len(p) = 3 /\ \A k \in 1 .. Len(p) : p[k].user = FALSE
    BY <2>1, KernelListing, LinkAssumption, Zenon
  <2>3. /\ pc = "gdt" /\ Claim("tss", "gdt_map", p)
        /\ UNCHANGED <<mem, cr3, free, pool, driver, leaked, elf>>
    BY <1>2, <2>1, Zenon DEF gdt_setup, tables, inputs
  <2>4. region["user"] = -1 /\ driver = {}
    BY <1>1, <2>3 DEF Located
  <2>5. \A k \in 1 .. Len(p) : p[k].user <=> ("tss" = "user")
    BY <2>2, Zenon
  <2>6. p # << >>
    BY <2>2, SMTT(30)
  <2> QED
    BY <2>2, <2>3, <2>4, <2>5, <2>6, ClaimStep, SMTT(30) DEF Steps
<1>3. CASE init_heap
  <2>1. PICK p : p = KernelPages(HeapPages)
    OBVIOUS
  <2>2. Listing(p) /\ \A k \in 1 .. Len(p) : p[k].user = FALSE
    BY <2>1, KernelListing, LinkAssumption, BootAssumption, ZenonT(40)
  <2>3. /\ pc = "heap" /\ Claim("heap", "heap_map", p)
        /\ UNCHANGED <<mem, cr3, free, pool, driver, leaked, elf>>
    BY <1>3, <2>1, ZenonT(40) DEF init_heap, tables, inputs
  <2>4. region["user"] = -1 /\ driver = {} /\ mem[cr3][0].present
    BY <1>1, <2>3 DEF Located, Program
  <2>5. \A k \in 1 .. Len(p) : p[k].user <=> ("heap" = "user")
    BY <2>2, Zenon
  <2> QED
    BY <2>2, <2>3, <2>4, <2>5, ClaimStep, SMTT(30) DEF Steps
<1> QED
  BY <1>2, <1>3

\* bring_up claims the user program's region, goes idle or stops.
LEMMA BringUpStep ==
  ASSUME BInv, bring_up
  PROVE  BInv' /\ Quiet
<1>1. Located /\ Program
  BY Zenon DEF BInv, BootInv
<1>2. pc = "user" /\ UNCHANGED <<mem, cr3, free, pool, driver, leaked, elf>>
  BY Zenon DEF bring_up, tables, inputs
<1>3. region["user"] = -1 /\ mem[cr3][0].present /\ elf \in Elfs
  BY <1>1, <1>2, Zenon DEF Located, Program
<1>4. CASE pc' \in {"idle", "stopped"} /\ UNCHANGED <<region, todo>>
  <2>1. NextPc
    BY <1>3, <1>4, Zenon DEF NextPc, Steps
  <2> QED
    BY <1>2, <1>4, <2>1, QuietStep, Zenon
<1>5. CASE ~CannotDescend /\ ~CannotStart /\ Claim("user", "user_map", UserPages(load_segments))
  <2>1. load_segments # << >>
    BY <1>5 DEF CannotDescend, CannotStart
  <2>2. PICK p : p = UserPages(load_segments)
    BY Zenon
  <2>3. Listing(p) /\ \A k \in 1 .. Len(p) : p[k].user = TRUE
    BY <1>3, <2>1, <2>2, UserListing, Zenon
  <2>4. Claim("user", "user_map", p)
    BY <1>5, <2>2, Zenon
  <2>5. \A k \in 1 .. Len(p) : p[k].user <=> ("user" = "user")
    BY <2>3, Zenon
  <2>6. /\ "user" \in {"tss", "heap", "user"} /\ pc \notin {"takeover", "map_test"}
        /\ "user_map" \in Steps \ {"takeover", "map_test", "ring3"} /\ "user_map" # "gdt_map"
        /\ "user_map" \notin {"gdt", "gdt_map", "heap", "heap_map", "drivers"}
    BY <1>2 DEF Steps
  <2> QED
    BY <1>2, <1>3, <2>1, <2>2, <2>3, <2>4, <2>5, <2>6, ClaimStep, Zenon
<1> QED
  BY <1>4, <1>5 DEF bring_up, Stop

\* Where the boot path only moves on.
LEMMA QuietSteps ==
  ASSUME BInv, gdt_loaded \/ heap_loaded \/ descend \/ NoWindow \/ Run \/ UNCHANGED vars
  PROVE  BInv' /\ Serves
<1>1. /\ Located /\ Program /\ Tops /\ Queued /\ \E lv : Accounted(lv)
  BY Zenon DEF BInv, BootInv
<1>2. CASE gdt_loaded
  <2>1. /\ pc = "gdt_map" /\ todo = << >> /\ pc' = "heap"
        /\ UNCHANGED <<mem, cr3, free, pool, region, todo, driver, leaked, elf>>
    BY <1>2 DEF gdt_loaded, tables, inputs
  <2>2. mem[cr3][0].present /\ region["user"] = -1 /\ driver = {}
    BY <1>1, <2>1, Zenon DEF Program, Located
  <2>3. NextPc
    BY <2>1, <2>2, Zenon DEF NextPc, Steps
  <2> QED
    BY <2>1, <2>3, QuietStep, NothingWanted, ZenonT(40) DEF Serves
<1>3. CASE heap_loaded
  <2>1. /\ pc = "heap_map" /\ todo = << >> /\ pc' = "drivers"
        /\ UNCHANGED <<mem, cr3, free, pool, region, todo, driver, leaked, elf>>
    BY <1>3, ZenonT(40) DEF heap_loaded, tables, inputs
  <2>2. mem[cr3][0].present /\ region["user"] = -1 /\ driver = {}
    BY <1>1, <2>1 DEF Program, Located
  <2>3. NextPc
    BY <2>1, <2>2, Zenon DEF NextPc, Steps
  <2> QED
    BY <2>1, <2>3, QuietStep, NothingWanted, Zenon DEF Serves
<1>4. CASE descend
  <2>1. /\ pc = "user_map" /\ todo = << >> /\ pc' \in {"ring3", "stopped"}
        /\ user_range' = <<region["user"] * PAGE,
                           (region["user"] + StackPage(load_segments) + 1) * PAGE>>
        /\ pc' = "ring3" => kstack'
        /\ UNCHANGED <<mem, cr3, free, pool, region, todo, driver, leaked, elf>>
    BY <1>4 DEF descend, Stop, tables, inputs
  <2>2. mem[cr3][0].present /\ region["user"] # -1
    BY <1>1, <2>1, Zenon DEF Program
  <2>3. NextPc
    BY <2>1, <2>2, Zenon DEF NextPc, Steps
  <2> QED
    BY <2>1, <2>3, QuietStep, NothingWanted, ZenonT(40) DEF Serves
<1>5. CASE Run \/ UNCHANGED vars
  <2>1. /\ UNCHANGED <<mem, cr3, free, pool, region, todo, driver, leaked, elf>>
        /\ UNCHANGED <<pc, user_range, kstack>>
    BY <1>5, Zenon DEF Run, vars, tables, inputs
  <2>2. PICK lv : Accounted(lv)
    BY <1>1, Zenon
  <2>3. Accounted(lv)'
    BY <2>1, <2>2 DEF Accounted
  <2>4. Located' /\ Tops' /\ Queued'
    BY <1>1, <2>1, Zenon DEF Located, Tops, Queued, UserTop
  <2>5. load_segments' = load_segments /\ Asked' = Asked
    BY <2>1, AskedSame
  <2>6. Program'
    BY <1>1, <2>1, <2>5, Zenon DEF Program
  <2>7. (\E l : Accounted(l))'
    BY <2>3, Zenon
  <2>8. Quiet
    BY <2>1, Zenon DEF Quiet
  <2>9. Serves
    BY <2>1, <2>8, Zenon DEF Serves, Wanted, FreeTop, find_free_top_index
  <2> QED
    BY <2>4, <2>6, <2>7, <2>9, Zenon DEF BInv, BootInv
<1>6. CASE NoWindow
  <2>1. /\ pc = "takeover" /\ pc' = "stopped"
        /\ UNCHANGED <<mem, cr3, free, pool, region, todo, driver, leaked, elf>>
    BY <1>6, Zenon DEF NoWindow, Stop, tables, inputs
  <2>2. NextPc
    BY <2>1, Zenon DEF NextPc, Steps
  <2> QED
    BY <2>1, <2>2, QuietStep, NothingWanted, ZenonT(40) DEF Serves
<1> QED
  BY <1>2, <1>3, <1>4, <1>5, <1>6, ZenonT(40)

\* The invariant is inductive, and every step serves the requests.
LEMMA BInductive ==
  ASSUME BInv, [Next]_vars
  PROVE  BInv' /\ Serves
<1>1. CASE takeover \/ probe \/ bring_up \/ gdt_setup \/ init_heap
  <2>1. Wanted = << >>
    BY <1>1, NothingWanted, Zenon DEF takeover, probe, bring_up, gdt_setup, init_heap
  <2>2. BInv' /\ Quiet
    BY <1>1, TakeoverStep, ProbeStep, BringUpStep, KernelClaims, Zenon
  <2> QED
    BY <2>1, <2>2, Zenon DEF Serves
<1>2. CASE MapTest
  BY <1>2, MapTestStep, Zenon
<1>3. CASE MapNext
  BY <1>3, MapNextStep, Zenon
<1>4. CASE gdt_loaded \/ heap_loaded \/ descend \/ NoWindow \/ Run \/ UNCHANGED vars
  BY <1>4, QuietSteps, Zenon
<1> QED
  BY <1>1, <1>2, <1>3, <1>4, Zenon DEF Next

\* The invariant holds at every step.
LEMMA BAlways == Spec => []BInv
<1>1. Init => BInv
  <2> SUFFICES ASSUME Init PROVE BInv
    BY Zenon
  <2>1. /\ Accounted(RootOnly(cr3)) /\ Located /\ Tops /\ Queued /\ Program
    BY InitInv, Zenon
  <2> QED
    BY <2>1 DEF BInv, BootInv
<1>2. BInv /\ [Next]_vars => BInv'
  BY BInductive
<1> QED
  BY <1>1, <1>2, PTL DEF Spec

-----------------------------------------------------------------------------
(* Theorems *)

\* State has the expected shape at every step, and no entry ever leads outside
\* memory (every operation of the boot path).
THEOREM BootTypes == Spec => []TypeOK
<1>1. BInv => TypeOK
  <2> SUFFICES ASSUME BInv PROVE TypeOK
    BY Zenon
  <2>1. PICK lv : Accounted(lv)
    BY Zenon DEF BInv, BootInv
  <2>2. mem \in Memory /\ cr3 \in Frames \cup {BootPml4}
    BY <2>1, Zenon DEF Accounted, Tree, Shape
  <2>3. DOMAIN mem = Dom /\ \A f \in Dom : \A i \in Index : mem[f][i].addr \in Dom
    BY <2>2, Zenon DEF Memory, Entry
  <2>4. /\ free \subseteq pool /\ pool \subseteq Frames
        /\ driver \subseteq pool \ free /\ leaked \subseteq pool \ free
    BY <2>1, Zenon DEF Accounted
  <2>5. pc \in Steps /\ todo \in Seq(Request)
    BY Zenon DEF BInv, BootInv, Located, Queued
  <2> QED
    BY <2>2, <2>3, <2>4, <2>5, SMTT(30) DEF TypeOK, Taken, Steps, Request
<1> QED
  BY <1>1, BAlways, PTL

\* Ring 3 reaches pages of the user program's region only, whatever the
\* bootloader mapped and wherever the allocation of a table fails
\* (map_page_impl, bring_up).
THEOREM SupervisorKept == Spec => []KernelStaysSupervisor
<1>1. BInv => KernelStaysSupervisor
  <2> SUFFICES ASSUME BInv, NEW v \in Pages, UserMay(v) PROVE v \in UserRegion
    BY Zenon DEF KernelStaysSupervisor
  <2>1. PICK lv : Tree(mem, cr3, lv)
    BY Zenon DEF BInv, BootInv, Accounted
  <2>2. Has0(mem, cr3, v) /\ mem[cr3][index4(v)].user
    BY <2>1, SpaceView
  <2>3. mem[cr3][index4(v)].present /\ index4(v) \in Index
    BY <2>1, <2>2, WalkBase, ZenonT(40) DEF Has0, Has1, Has2, Has3
  <2>4. UserTop(index4(v))
    BY <2>2, <2>3, ZenonT(40) DEF BInv, BootInv, Tops
  <2> QED
    BY <2>4, Zenon DEF UserTop, UserRegion
<1> QED
  BY <1>1, BAlways, PTL

\* Every frame that left the pool is a live table, a mapped page, the virtio
\* queue's or dropped on running out of frames, and only one of the first three
\* (frame_phys's callers).
THEOREM FramesAccounted == Spec => []OneUsePerFrame
<1>1. BInv => OneUsePerFrame
  <2> SUFFICES ASSUME BInv PROVE OneUsePerFrame
    OBVIOUS
  <2>1. PICK lv : Accounted(lv)
    BY DEF BInv, BootInv
  <2> DEFINE live == LiveTables \cap Frames
             shown == DataFrames \cap Frames
             other == driver \cup leaked
  <2>2. live = {f \in Frames : lv[f] \in 1 .. 4} /\ shown = {f \in Frames : lv[f] = 0}
    BY <2>1, LiveLevels, DataLevels, Zenon DEF Accounted
  <2>3. \A f \in Frames : lv[f] \in 0 .. 5
    BY <2>1, FrameNumbers, Zenon DEF Accounted, Tree, Shape
  <2>4. live \cup shown = Used(lv) /\ live \cap shown = {}
    BY <2>2, <2>3 DEF Used
  <2>5. pool \ free = Used(lv) \cup driver \cup leaked /\ Used(lv) \cap other = {}
    BY <2>1, Zenon DEF Accounted
  <2> HIDE DEF live, shown
  <2>6. /\ live \cup shown \cup driver \cup leaked = Taken
        /\ live \cap (shown \cup driver \cup leaked) = {}
        /\ shown \cap (driver \cup leaked) = {}
    BY <2>4, <2>5 DEF Taken
  <2> QED
    BY <2>6, Zenon DEF OneUsePerFrame, live, shown
<1> QED
  BY <1>1, BAlways, PTL

\* Every call of map_page_impl on the boot path grants the page it was asked for
\* and no other, in a frame no page shows and with the rights asked for, or
\* leaves the translation of every page as it was; so does every other step
\* (map_page_impl and its callers).
THEOREM TablesAreAddressSpace == Spec => ImplementsAddressSpace
<1>1. Init => Abstract!AInit
  <2> SUFFICES ASSUME Init PROVE Abstract!AInit
    BY Zenon
  <2>1. PICK lv : Tree(mem, cr3, lv) /\ lv = RootOnly(cr3)
    BY InitInv, Zenon DEF Accounted
  <2>2. ASSUME NEW v \in Pages PROVE Space[v].frame \notin Frames
    <3>1. Space[v] = View(mem, cr3, v)
      BY <2>1, SpaceView, ZenonT(40)
    <3>2. View(mem, cr3, v).frame \in Frames => Has0(mem, cr3, v)
      BY <2>1, ShownFrame, SMTT(30)
    <3>3. Has0(mem, cr3, v) => lv[At3(mem, cr3, v)] = 3 /\ At3(mem, cr3, v) \in Frames
      BY <2>1, Walk3, Zenon DEF Has0, Has1, Has2
    <3>4. \A f \in Dom : lv[f] # 3
      BY <2>1 DEF RootOnly
    <3> QED
      BY <3>1, <3>2, <3>3, <3>4, FrameNumbers, ZenonT(40)
  <2>3. Wanted = << >>
    BY NothingWanted, Zenon DEF Init
  <2> QED
    BY <2>2, <2>3, Zenon DEF Abstract!AInit
<1>2. BInv /\ [Next]_vars
        => [Abstract!Ask \/ Abstract!Grant \/ Abstract!Refuse]_<<Space, Wanted>>
  <2> SUFFICES ASSUME BInv, [Next]_vars
               PROVE  \/ Abstract!Ask \/ Abstract!Grant \/ Abstract!Refuse
                      \/ Space' = Space /\ Wanted' = Wanted
    OBVIOUS
  <2>1. BInv' /\ Serves
    BY BInductive, Zenon
  <2>2. PICK lv : Tree(mem, cr3, lv)
    BY Zenon DEF BInv, BootInv, Accounted
  <2>3. PICK lw : Tree(mem, cr3, lw)'
    BY <2>1, Zenon DEF BInv, BootInv, Accounted
  <2>4. \A x \in Pages : Space[x] = View(mem, cr3, x)
    BY <2>2, SpaceView
  <2>5. (\A x \in Pages : Space[x] = View(mem, cr3, x))'
    <3>1. (\E l : Tree(mem, cr3, l))'
      BY <2>3, Zenon
    <3> QED
      BY <3>1, SpaceViews, PTL
  <2>6. \A x \in Pages : Space'[x] = View(mem', cr3', x)
    BY <2>5, Zenon
  <2>7. Space = [x \in Pages |-> Space[x]] /\ Space' = [x \in Pages |-> Space'[x]]
    BY Zenon DEF Space
  <2>8. CASE Quiet /\ (Wanted' = Wanted \/ Wanted = << >> \/ Wanted' = << >>)
    <3>1. \A x \in Pages : Space'[x] = Space[x]
      BY <2>4, <2>6, <2>8, SMTT(30) DEF Quiet
    <3>2. Space' = Space
      BY <2>7, <3>1, Zenon
    <3> QED
      BY <2>8, <3>2, ZenonT(40) DEF Abstract!Ask, Abstract!Refuse
  <2>9. CASE /\ Wanted # << >> /\ Wanted' = Tail(Wanted)
             /\ Adds(Head(Wanted).page, Head(Wanted).user, Head(Wanted).nx)
    <3>1. PICK q : q = Head(Wanted)
      BY Zenon
    <3>2. PICK f \in Frames : /\ \A x \in Pages : View(mem, cr3, x).frame # f
                              /\ View(mem', cr3', q.page) = [frame |-> f, user |-> q.user, nx |-> q.nx]
      BY <2>9, <3>1, Zenon DEF Adds
    <3>3. /\ q.page \in Pages /\ View(mem, cr3, q.page) = Unmapped
          /\ \A x \in Pages : x # q.page => View(mem', cr3', x) = View(mem, cr3, x)
      BY <2>9, <3>1, Zenon DEF Adds
    <3>4. PICK y : y = [frame |-> f, user |-> q.user, nx |-> q.nx]
      BY ZenonT(40)
    <3>5. /\ Space[q.page] = Unmapped /\ Space'[q.page] = y
          /\ \A x \in Pages : x # q.page => Space'[x] = Space[x]
          /\ \A x \in Pages : Space[x].frame # f
      BY <2>4, <2>6, <3>2, <3>3, <3>4, Zenon
    <3>6. Space' = [Space EXCEPT ![q.page] = y]
      <4>1. [Space EXCEPT ![q.page] = y] = [x \in Pages |-> IF x = q.page THEN y ELSE Space[x]]
        BY <2>7, <3>3, Zenon
      <4>2. \A x \in Pages : Space'[x] = IF x = q.page THEN y ELSE Space[x]
        BY <3>5, Zenon
      <4> QED
        BY <2>7, <4>1, <4>2, ZenonT(40)
    <3>7. Abstract!Grant
      BY <2>9, <3>1, <3>4, <3>5, <3>6, ZenonT(40) DEF Abstract!Grant
    <3> QED
      BY <3>7
  <2> QED
    BY <2>1, <2>8, <2>9, Zenon DEF Serves
<1> QED
  BY <1>1, <1>2, BAlways, PTL DEF Spec, ImplementsAddressSpace, Abstract!ASpec

\* The pages bring_up asked for are there at the descent, with their rights.
LEMMA AskedShown ==
  ASSUME BInv, pc = "ring3", NEW x \in 1 .. Len(UserPages(load_segments))
  PROVE  LET r == UserPages(load_segments)[x]
             v == region["user"] + r.page
         IN  v \in Pages /\ UserMay(v) /\ translate(v).nx = r.nx
<1>1. Program
  BY Zenon DEF BInv
<1>2. /\ region["user"] # -1 /\ todo = << >> /\ elf \in Elfs /\ load_segments # << >>
  BY <1>1 DEF Program
<1>3. PICK u : u = UserPages(load_segments)
  BY Zenon
<1>4. PICK b : b = region["user"]
  OBVIOUS
<1>5. PICK r : r = u[x]
  BY Zenon
<1>6. PICK q : q = [r EXCEPT !.page = @ + b]
  BY Zenon
<1>7. r \in PageRequest
  BY <1>2, <1>3, <1>5, UserListing, SMTT(30) DEF Listing
<1>8. b \in Nat /\ r.page \in Nat /\ q.page = b + r.page /\ q.nx = r.nx
  <2>1. b \in Nat /\ r.page \in Nat
    BY <1>1, <1>2, <1>4, <1>7, AskedFacts, SMTT(30) DEF PageRequest
  <2>2. DOMAIN r = {"page", "user", "nx"}
    BY <1>7, Zenon DEF PageRequest
  <2>3. q.page = r.page + b
    BY <1>6, <2>2, Zenon
  <2>4. q.nx = r.nx
    BY <1>6, <2>2, ZenonT(40)
  <2> QED
    BY <2>1, <2>3, <2>4, SMTT(30)
<1>9. r \in Range(u)
  BY <1>3, <1>5 DEF Range
<1>10. q \in Asked
  BY <1>1, <1>2, <1>3, <1>4, <1>6, <1>9, AskedFacts, SMTT(30)
<1>11. q \in Request
  BY <1>1, <1>10, AskedFacts, Zenon
<1>12. q.page \in Pages
  BY <1>11, Zenon DEF Request
<1>13. View(mem, cr3, q.page).user /\ View(mem, cr3, q.page).nx = q.nx
  <2>1. \/ \E k \in 1 .. Len(todo) : todo[k] = q
        \/ View(mem, cr3, q.page).user /\ View(mem, cr3, q.page).nx = q.nx
    BY <1>1, <1>10, Zenon DEF Program
  <2>2. 1 .. Len(todo) = {}
    BY <1>2
  <2> QED  BY <2>1, <2>2, Zenon
<1>14. PICK v : v = q.page
  OBVIOUS
<1>15. PICK lv : Tree(mem, cr3, lv)
  BY Zenon DEF BInv, BootInv, Accounted
<1>16. Has0(mem, cr3, v) /\ mem[cr3][index4(v)].user
  BY <1>12, <1>13, <1>14, <1>15, ShownFrame, ZenonT(40)
<1>17. UserMay(v) /\ translate(v) = mem[At1(mem, cr3, v)][index1(v)]
  BY <1>12, <1>14, <1>15, <1>16, SpaceView, Zenon
<1>18. View(mem, cr3, v).nx = mem[At1(mem, cr3, v)][index1(v)].nx
  <2>1. ~Booted(mem, cr3, v)
    BY <1>12, <1>14, <1>15, <1>16, WalkTop, Zenon DEF Has0, Has1, Has2
  <2> QED
    BY <1>16, <2>1, ZenonT(40) DEF View
<1> QED
  BY <1>3, <1>4, <1>5, <1>8, <1>12, <1>13, <1>14, <1>17, <1>18, ZenonT(40)

\* The first page of a segment.
LEMMA FirstPage ==
  ASSUME NEW h \in Segment, h.memsz > 0
  PROVE  /\ 1 \in 1 .. PagesOf(h.memsz)
         /\ SegmentPages(h)[1] = [page |-> h.vaddr \div PAGE, user |-> TRUE, nx |-> h.writable]
<1>1. h.memsz \in Nat /\ h.vaddr \in Nat /\ PAGE \in Nat \ {0}
  BY PageAssumption, Zenon DEF Segment
<1>2. PagesOf(h.memsz) \in Nat /\ PagesOf(h.memsz) >= 1
  BY <1>1, PageCount, Zenon
<1>3. h.vaddr + (1 - 1) * PAGE = h.vaddr
  BY <1>1
<1> DEFINE R(k) == [page |-> (h.vaddr + (k - 1) * PAGE) \div PAGE, user |-> TRUE,
                    nx |-> h.writable]
<1>4. SegmentPages(h) = [k \in 1 .. PagesOf(h.memsz) |-> R(k)]
  BY Zenon DEF SegmentPages
<1>5. R(1) = [page |-> h.vaddr \div PAGE, user |-> TRUE, nx |-> h.writable]
  BY <1>3, Zenon
<1> HIDE DEF R
<1>6. 1 \in 1 .. PagesOf(h.memsz)
  BY <1>2
<1>7. SegmentPages(h)[1] = R(1)
  BY <1>4, <1>6, SMTT(30)
<1> QED
  BY <1>5, <1>6, <1>7, Zenon

\* At the descent every segment of the program is mapped with its rights, its
\* entry can be fetched, its stack can be used and not executed, and the bounds
\* check of user_copy_in accepts every page ring 3 can use (bring_up, syscall.rs).
THEOREM DescentReady == Spec => []ReadyForRing3
<1>1. BInv => ReadyForRing3
  <2> SUFFICES ASSUME BInv, pc = "ring3"
               PROVE  /\ kstack
                      /\ \A k \in DOMAIN elf.phdrs : elf.phdrs[k].load /\ elf.phdrs[k].memsz > 0 =>
                           LET v == region["user"] + elf.phdrs[k].vaddr \div PAGE IN
                           UserMay(v) /\ (translate(v).nx <=> elf.phdrs[k].writable)
                      /\ LET v == region["user"] + elf.entry \div PAGE IN UserMay(v) /\ ~translate(v).nx
                      /\ LET v == region["user"] + StackPage(load_segments) IN UserMay(v) /\ translate(v).nx
                      /\ \A v \in Pages : UserMay(v) => user_copy_in(v * PAGE, PAGE)
    BY Zenon DEF ReadyForRing3
  <2>1. Program
    BY Zenon DEF BInv
  <2>2. /\ region["user"] # -1 /\ elf \in Elfs /\ load_segments # << >> /\ kstack
        /\ user_range = <<region["user"] * PAGE,
                          (region["user"] + StackPage(load_segments) + 1) * PAGE>>
    BY <2>1, Zenon DEF Program
  <2>3. PICK im : im = load_segments
    OBVIOUS
  <2>4. PICK u : u = UserPages(im)
    OBVIOUS
  <2>5. PICK b : b = region["user"]
    OBVIOUS
  <2>6. /\ Loadable(im)
        /\ \A k \in 1 .. Len(elf.phdrs) : elf.phdrs[k].load =>
             \E j \in 1 .. Len(im) : im[j] = elf.phdrs[k]
        /\ \E j \in 1 .. Len(im) : \E a \in 1 .. PagesOf(im[j].memsz) :
             ~im[j].writable /\ SegmentPages(im[j])[a].page = elf.entry \div PAGE
    BY <2>2, <2>3, LoadFacts, Zenon
  <2>7. /\ \E x \in 1 .. Len(u) : u[x] = [page |-> StackPage(im), user |-> TRUE, nx |-> TRUE]
        /\ \A k \in 1 .. Len(im) : \A a \in 1 .. PagesOf(im[k].memsz) :
             \E x \in 1 .. Len(u) : u[x] = SegmentPages(im[k])[a]
    <3>1. Loadable(im)
      BY <2>6
    <3>2. \E x \in 1 .. Len(UserPages(im)) :
            UserPages(im)[x] = [page |-> StackPage(im), user |-> TRUE, nx |-> TRUE]
      BY <3>1, UserFacts, Zenon
    <3>3. HasPages(UserPages(im), im)
      BY <3>1, UserFacts, Zenon
    <3> QED
      BY <2>4, <3>2, <3>3, ZenonT(40) DEF HasPages
  <2>8. \A x \in 1 .. Len(u) : UserMay(b + u[x].page) /\ translate(b + u[x].page).nx = u[x].nx
    BY <2>3, <2>4, <2>5, AskedShown, ZenonT(40)
  <2>9. ASSUME NEW k \in DOMAIN elf.phdrs, elf.phdrs[k].load, elf.phdrs[k].memsz > 0
        PROVE  LET v == region["user"] + elf.phdrs[k].vaddr \div PAGE
               IN  UserMay(v) /\ (translate(v).nx <=> elf.phdrs[k].writable)
    <3>1. elf.phdrs \in Seq(Segment)
      BY <2>2, BootAssumption, Zenon DEF Segment
    <3>2. PICK h \in Segment : h = elf.phdrs[k]
      BY <3>1, SMTT(30)
    <3>3. PICK j \in 1 .. Len(im) : im[j] = h
      BY <2>6, <2>9, <3>1, <3>2, SMTT(30)
    <3>4. /\ 1 \in 1 .. PagesOf(h.memsz)
          /\ SegmentPages(h)[1] = [page |-> h.vaddr \div PAGE, user |-> TRUE, nx |-> h.writable]
      BY <2>9, <3>2, FirstPage, SMTT(30)
    <3>5. PICK x \in 1 .. Len(u) : u[x] = [page |-> h.vaddr \div PAGE, user |-> TRUE, nx |-> h.writable]
      BY <2>7, <3>3, <3>4, ZenonT(40)
    <3>6. u[x].page = h.vaddr \div PAGE /\ u[x].nx = h.writable
      BY <3>5
    <3>7. UserMay(b + h.vaddr \div PAGE) /\ translate(b + h.vaddr \div PAGE).nx = h.writable
      BY <2>8, <3>6, ZenonT(40)
    <3> QED
      BY <2>5, <3>2, <3>7, Zenon
  <2>10. LET v == region["user"] + elf.entry \div PAGE IN UserMay(v) /\ ~translate(v).nx
    <3>1. PICK j \in 1 .. Len(im) : \E a \in 1 .. PagesOf(im[j].memsz) :
             ~im[j].writable /\ SegmentPages(im[j])[a].page = elf.entry \div PAGE
      BY <2>6, Zenon
    <3>2. PICK a \in 1 .. PagesOf(im[j].memsz) :
             ~im[j].writable /\ SegmentPages(im[j])[a].page = elf.entry \div PAGE
      BY <3>1, Zenon
    <3>3. PICK x \in 1 .. Len(u) : u[x] = SegmentPages(im[j])[a]
      BY <2>7, Zenon
    <3>4. u[x].nx = im[j].writable
      BY <3>2, <3>3 DEF SegmentPages
    <3> QED
      BY <2>5, <2>8, <3>2, <3>3, <3>4, SMTT(30)
  <2>11. LET v == region["user"] + StackPage(load_segments) IN UserMay(v) /\ translate(v).nx
    <3>1. PICK x \in 1 .. Len(u) : u[x] = [page |-> StackPage(im), user |-> TRUE, nx |-> TRUE]
      BY <2>7, Zenon
    <3>2. u[x].page = StackPage(im) /\ u[x].nx = TRUE
      BY <3>1
    <3>3. UserMay(b + StackPage(im)) /\ translate(b + StackPage(im)).nx = TRUE
      BY <2>8, <3>2, Zenon
    <3> QED
      BY <2>3, <2>5, <3>3, Zenon
  <2>12. ASSUME NEW v \in Pages, UserMay(v) PROVE user_copy_in(v * PAGE, PAGE)
    <3>1. PICK lv : Tree(mem, cr3, lv)
      BY DEF BInv, BootInv, Accounted
    <3>2. View(mem, cr3, v).user
      BY <2>12, <3>1, SpaceView, ShownFrame, Zenon
    <3>3. PICK r \in Asked : r.page = v
      BY <2>1, <3>2, Zenon DEF Program
    <3>4. PICK s : s = StackPage(im)
      BY Zenon
    <3>5. b <= v /\ v <= b + s /\ b \in Nat \ {0} /\ s \in Nat
      BY <2>1, <2>2, <2>3, <2>5, <3>3, <3>4, AskedFacts, Zenon
    <3>6. v \in Nat /\ PAGE \in Nat \ {0}
      BY TablesAssumption, PageAssumption DEF Pages
    <3>7. PAGE * b <= PAGE * v /\ PAGE * (v + 1) <= PAGE * (b + s + 1)
      BY <3>5, <3>6, Monotone, SMTT(30)
    <3>8. b * PAGE = PAGE * b /\ v * PAGE = PAGE * v /\ (b + s + 1) * PAGE = PAGE * (b + s + 1)
          /\ PAGE * (v + 1) = PAGE * v + PAGE /\ PAGE * b # 0
      BY <3>5, <3>6, SMTT(30)
    <3>9. user_range[1] = PAGE * b /\ user_range[2] = PAGE * (b + s + 1)
      BY <2>2, <2>3, <2>5, <3>4, <3>8, SMTT(30)
    <3> QED
      BY <3>7, <3>8, <3>9, Zenon DEF user_copy_in
  <2> QED
    BY <2>2, <2>9, <2>10, <2>11, <2>12, Zenon
<1> QED
  BY <1>1, BAlways, PTL
==============================================================================
