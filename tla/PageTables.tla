----------------------------- MODULE PageTables ------------------------------
(****************************************************************************)
(* Four-level page tables (paging.rs): physical memory as tables of entries, *)
(* the walks over them and the code that extends them.  A virtual address is *)
(* its page number; a physical address is its frame.  The physical-memory    *)
(* window makes every table readable and writable, so table_read and         *)
(* table_write are plain accesses to mem.                                    *)
(****************************************************************************)
EXTENDS Integers, FiniteSets, Sequences

CONSTANTS
  TOP,          \* entries of the top table (512)
  ENTRIES,      \* entries of every other table (512)
  FrameCount    \* frames the allocator may own

ASSUME TablesAssumption ==
  ENTRIES \in Nat \ {0} /\ TOP \in Nat \ {0} /\ ENTRIES <= TOP /\ FrameCount \in Nat

Frames == 1 .. FrameCount    \* frames of the pool
BootPml4 == 0                \* the bootloader's tables and what they map
BootPdpt == -1
BootPage == -2

VARIABLES
  mem,          \* what each table frame holds
  cr3,          \* the frame CR3 points at
  free          \* frames the allocator has not handed out

Index == 0 .. (TOP - 1)
Pages == 0 .. (TOP * ENTRIES * ENTRIES * ENTRIES - 1)

\* The first page of a top-level entry.
RegionPage(i) == i * ENTRIES * ENTRIES * ENTRIES

index4(v) == (v \div (ENTRIES * ENTRIES * ENTRIES)) % TOP
index3(v) == (v \div (ENTRIES * ENTRIES)) % ENTRIES
index2(v) == (v \div ENTRIES) % ENTRIES
index1(v) == v % ENTRIES

\* Entries are always written writable, so only these fields differ.
Absent == [present |-> FALSE, addr |-> 0, user |-> FALSE, nx |-> FALSE, huge |-> FALSE]

entry_pointer(f, user) == [Absent EXCEPT !.present = TRUE, !.addr = f, !.user = user]
entry_page(f, user, nx) == [entry_pointer(f, user) EXCEPT !.nx = nx]
entry_huge(f) == [entry_pointer(f, FALSE) EXCEPT !.huge = TRUE]

\* What a table frame that was never zeroed may hold: stale entries that look
\* present.
Garbage == [i \in Index |-> entry_pointer(BootPdpt, FALSE)]

zero_table == [i \in Index |-> Absent]

\* allocate_frame takes the first frame of the first run, the lowest.
Lowest(S) == CHOOSE f \in S : \A g \in S : f <= g

-----------------------------------------------------------------------------
(* Walking *)

\* The entries a walk for v meets, from the top table down, up to the first
\* one that is absent, huge or a leaf.
Path(v) ==
  LET e4 == mem[cr3][index4(v)]
      e3 == mem[e4.addr][index3(v)]
      e2 == mem[e3.addr][index2(v)]
      e1 == mem[e2.addr][index1(v)]
  IN  IF ~e4.present THEN <<e4>>
      ELSE IF ~e3.present \/ e3.huge THEN <<e4, e3>>
      ELSE IF ~e2.present \/ e2.huge THEN <<e4, e3, e2>>
      ELSE <<e4, e3, e2, e1>>

translate(v) == LET p == Path(v) IN p[Len(p)]

\* The processor lets ring 3 use a page only if every entry on the way says so.
UserMay(v) ==
  LET p == Path(v) IN p[Len(p)].present /\ \A i \in 1 .. Len(p) : p[i].user

\* The lowest top-level index that is not present, if there is one.
FreeTop == {i \in Index : ~mem[cr3][i].present}
find_free_top_index == Lowest(FreeTop)

-----------------------------------------------------------------------------
(* Mapping.  A walk under construction: the table it stands at, and the      *)
(* memory and pool so far; ok is FALSE once a table could not be allocated.  *)

Walk(m, fr) == [ok |-> TRUE, at |-> cr3, mem |-> m, free |-> fr]

\* Mutant: alloc_table does not zero the new table.
Descend_NotZeroed(w, i, user) ==
  LET e == w.mem[w.at][i]  f == Lowest(w.free) IN
  IF ~w.ok THEN w
  ELSE IF e.present THEN [w EXCEPT !.at = e.addr]
  ELSE IF w.free = {} THEN [w EXCEPT !.ok = FALSE]
  ELSE [ok |-> TRUE, at |-> f, free |-> w.free \ {f},
        mem |-> [w.mem EXCEPT ![w.at][i] = entry_pointer(f, user)]]

\* Mutant: a new table is not linked into its parent.
Descend_NotLinked(w, i, user) ==
  LET e == w.mem[w.at][i]  f == Lowest(w.free) IN
  IF ~w.ok THEN w
  ELSE IF e.present THEN [w EXCEPT !.at = e.addr]
  ELSE IF w.free = {} THEN [w EXCEPT !.ok = FALSE]
  ELSE [ok |-> TRUE, at |-> f, free |-> w.free \ {f}, mem |-> [w.mem EXCEPT ![f] = zero_table]]

\* Mutant: new tables are linked without the user bit.
Descend_Supervisor(w, i, user) ==
  LET e == w.mem[w.at][i]  f == Lowest(w.free) IN
  IF ~w.ok THEN w
  ELSE IF e.present THEN [w EXCEPT !.at = e.addr]
  ELSE IF w.free = {} THEN [w EXCEPT !.ok = FALSE]
  ELSE [ok |-> TRUE, at |-> f, free |-> w.free \ {f},
        mem |-> [w.mem EXCEPT ![f] = zero_table, ![w.at][i] = entry_pointer(f, FALSE)]]

\* One level of map_page_impl: follow the entry, or allocate, zero and link a
\* new table.  The user bit goes onto entries it creates, not onto existing ones.
Descend(w, i, user) ==
  LET e == w.mem[w.at][i]  f == Lowest(w.free) IN
  IF ~w.ok THEN w
  ELSE IF e.present THEN [w EXCEPT !.at = e.addr]
  ELSE IF w.free = {} THEN [w EXCEPT !.ok = FALSE]
  ELSE [ok |-> TRUE, at |-> f, free |-> w.free \ {f},
        mem |-> [w.mem EXCEPT ![f] = zero_table, ![w.at][i] = entry_pointer(f, user)]]

\* Tables made before a failure stay linked.
map_page_impl(m, fr, v, phys, user, nx) ==
  LET w == Descend(Descend(Descend(Walk(m, fr), index4(v), user),
                           index3(v), user), index2(v), user)
  IN  IF w.ok THEN [w EXCEPT !.mem[w.at][index1(v)] = entry_page(phys, user, nx)]
      ELSE w

-----------------------------------------------------------------------------
(* What the tables say *)

\* Tables a walk from CR3 can reach, and the frames mapped as 4 KiB pages.
LiveTables ==
  LET Below(S) == {mem[x[1]][x[2]].addr : x \in {y \in S \X Index : mem[y[1]][y[2]].present
                                                                  /\ ~mem[y[1]][y[2]].huge}}
      pdpts == Below({cr3})
      pds == Below(pdpts)
  IN  {cr3} \cup pdpts \cup pds \cup Below(pds)

DataFrames == {translate(v).addr : v \in {w \in Pages : translate(w).present}}

Unmapped == [frame |-> -3, user |-> FALSE, nx |-> FALSE]

Space ==
  [v \in Pages |->
     LET e == translate(v) IN
     IF e.present THEN [frame |-> e.addr, user |-> UserMay(v), nx |-> e.nx] ELSE Unmapped]
==============================================================================
