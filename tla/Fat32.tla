-------------------------------- MODULE Fat32 --------------------------------
(****************************************************************************)
(* The read-only FAT32 reader (kernel/src/fs.rs) over a block device: mount, *)
(* directory listings with long names, path resolution and file reads.       *)
(* Every sector is one call of read_sector, which may fail.  Clusters,       *)
(* sectors and sizes are numbers as in the code, scaled down; a name is a    *)
(* sequence of tokens, equal when the code's comparison folds them together. *)
(****************************************************************************)
EXTENDS BlockIo, Lists, TLC

CONSTANTS
  SECTOR,    \* bytes in a sector (512)
  ENTRIES,   \* FAT entries in a sector (128)
  EOC,       \* first cluster number that ends a chain (0x0FFFFFF7)
  U32,       \* arithmetic on u32 overflows from here on (2^32)
  WALK,      \* clusters a walk visits at most (1000)
  ROOM       \* a Vec of no more than ROOM elements fits the heap (64 KiB)

ASSUME Fat32Assumption ==
  /\ SECTOR \in Nat \ {0} /\ ENTRIES \in Nat \ {0} /\ WALK \in Nat \ {0}
  /\ EOC \in Nat /\ U32 \in Nat \ {0} /\ ROOM \in Nat

VARIABLES
  vol,       \* what the disk stores: boot sector, FAT and directory sectors
  fs,        \* the call of an Fs method that is running
  panicked   \* arithmetic overflowed or the heap is full: the kernel has stopped

fat == <<vol, fs, panicked>>

is_chain_end(c) == c < 2 \/ c >= EOC

-----------------------------------------------------------------------------
(* The boot sector *)

PowersOfTwo == {1, 2, 4, 8, 16, 32, 64, 128}

\* The first of parse_boot's checks that fails, in its order, or "Ok".  The
\* product fat_count * sectors_per_fat is not a check of the code: when it does
\* not fit the build panics before checked_add is reached.
parse_boot(b) ==
  LET checks == << <<b.signature, "BadSignature">>,
                   <<b.bytes = SECTOR, "UnsupportedSectorSize">>,
                   <<b.sectors_per_cluster \in PowersOfTwo, "BadSectorsPerCluster">>,
                   <<b.reserved_sectors # 0, "BadReserved">>,
                   <<b.fat_count # 0, "BadFatCount">>,
                   <<b.total_sectors # 0, "ZeroTotal">>,
                   <<b.sectors_per_fat # 0, "BadFatsParam">>,
                   <<b.root_cluster >= 2, "NotFat32">>,
                   <<b.fat_count * b.sectors_per_fat < U32, "Overflow">>,
                   <<b.reserved_sectors + b.fat_count * b.sectors_per_fat < U32, "ZeroTotal">> >>
      failing == {i \in DOMAIN checks : ~checks[i][1]}
  IN  IF failing = {} THEN "Ok" ELSE checks[Min(failing)][2]

data_start == vol.boot.reserved_sectors + vol.boot.fat_count * vol.boot.sectors_per_fat

-----------------------------------------------------------------------------
(* Where things are on the disk *)

SectorOf(c, s) == data_start + (c - 2) * vol.boot.sectors_per_cluster + s

FatSector(c) == vol.boot.reserved_sectors + c \div ENTRIES

InFat(c) == c \div ENTRIES < vol.boot.sectors_per_fat

\* What a sector says when it is read as part of the FAT: its entry for c if it
\* is the right one, anything if the device delivered another.
FatEntries(lba, c) == IF lba = FatSector(c) THEN {vol.fat[c]} ELSE {0, 2, EOC}

\* The directory slots of a sector; none or an end marker if it is no directory.
SlotsAt(lba) == IF lba \in DOMAIN vol.dirs THEN {vol.dirs[lba]} ELSE {<<>>, <<[kind |-> "end"]>>}

BytesAt(lba) == [i \in 1 .. SECTOR |-> <<lba, i>>]

-----------------------------------------------------------------------------
(* Directory entries *)

\* The 32-byte slots of a directory sector.
DirSlot ==
  [kind : {"end", "deleted"}]
    \cup [kind : {"lfn"}, seq : Nat, text : STRING]
    \cup [kind : {"entry"}, short : Seq(STRING), is_dir : BOOLEAN, cluster : Nat, size : Nat]

\* Mutant: the pieces are taken in the order they are stored.
lfn_reassemble_Unsorted(lfn) == [i \in DOMAIN lfn |-> lfn[i].text]

\* The pieces of a long name, lowest sequence number first; <<>> is None.
lfn_reassemble(lfn) ==
  [i \in DOMAIN lfn |-> SortSeq(lfn, LAMBDA a, b : a.seq < b.seq)[i].text]

names(e) == {e.short} \cup (IF e.long = <<>> THEN {} ELSE {e.long})

entry_matches(e, component) == component \in names(e)

display_name(e) == IF e.long = <<>> THEN e.short ELSE e.long

\* One iteration of list_dir's loop over the slots of a sector: it stops at an
\* end marker, drops the pieces of a long name at a deleted slot, and gives the
\* pieces collected so far to the next entry.
ScanSlot(acc, slot) ==
  IF acc.end THEN acc ELSE
  CASE slot.kind = "end" -> [acc EXCEPT !.end = TRUE]
    [] slot.kind = "deleted" -> [acc EXCEPT !.lfn = <<>>]
    [] slot.kind = "lfn" -> [acc EXCEPT !.lfn = Append(@, slot)]
    [] OTHER -> [acc EXCEPT !.lfn = <<>>,
                            !.out = Append(@, [short |-> slot.short, long |-> lfn_reassemble(acc.lfn),
                                               is_dir |-> slot.is_dir, cluster |-> slot.cluster,
                                               size |-> slot.size])]

\* One sector of a directory.
ScanSlots(slots, lfn, out) == FoldList(ScanSlot, [end |-> FALSE, lfn |-> lfn, out |-> out], slots)

-----------------------------------------------------------------------------
(* Calls.  at is where the walk is: "sector" and "entry" of the FAT read the  *)
(* disk.  path holds the components resolve has still to look up (of full),   *)
(* goal what is done with the entry it finds.  first and size are the walk's  *)
(* arguments; cut says that a listing ended before its chain did, and doubt    *)
(* that a sector it used came from a read in doubt.                           *)

NoCall == [at |-> "none", goal |-> "none", path |-> <<>>, full |-> <<>>, first |-> 0,
           c |-> 0, s |-> 0, hops |-> 0, need |-> 0, size |-> 0, lfn |-> <<>>, out |-> <<>>, cut |-> FALSE,
           doubt |-> FALSE, ok |-> FALSE]

Returned(f, ok) == [f EXCEPT !.at = "returned", !.ok = ok]

StartWalk(f, c) ==
  [f EXCEPT !.at = "sector", !.first = c, !.c = c, !.s = 0, !.hops = 0,
            !.lfn = <<>>, !.out = <<>>, !.cut = FALSE]

read_file(f, first, size) ==
  LET g == [f EXCEPT !.goal = "file", !.path = <<>>, !.first = first, !.out = <<>>, !.size = size]
  IN  CASE is_chain_end(first) -> Returned(g, FALSE)
        [] ~is_chain_end(first) /\ size = 0 -> Returned(g, TRUE)
        [] OTHER -> [StartWalk(g, first) EXCEPT !.need = size]

\* list_dir on a chain that is already at its end lists nothing.
list_dir(f, c) ==
  IF is_chain_end(c) THEN Returned([f EXCEPT !.first = c, !.out = <<>>], TRUE) ELSE StartWalk(f, c)

\* A listing inside resolve has ended, whatever it returned: look up the next
\* component and go on from its entry.
ResolveStep(f) ==
  LET i == Position(f.out, LAMBDA e : entry_matches(e, Head(f.path)))
      e == f.out[i]
      rest == [f EXCEPT !.path = Tail(@)]
  IN  CASE i = 0 -> Returned(f, FALSE)
        [] i # 0 /\ rest.path # <<>> ->
             IF ~e.is_dir \/ is_chain_end(e.cluster) THEN Returned(rest, FALSE)
             ELSE StartWalk(rest, e.cluster)
        [] i # 0 /\ rest.path = <<>> /\ f.goal = "list" -> list_dir(rest, e.cluster)
        [] OTHER -> IF e.is_dir THEN Returned(rest, FALSE) ELSE read_file(rest, e.cluster, e.size)

\* list_dir returns, to resolve or to the caller of ls or ls_path.
Listed(f, ok) == IF f.path = <<>> THEN Returned(f, ok) ELSE ResolveStep(f)

Begin(f) ==
  LET root == vol.boot.root_cluster
  IN  IF is_chain_end(root) THEN Listed(f, TRUE) ELSE StartWalk(f, root)

mount == fs' = [NoCall EXCEPT !.at = "boot", !.goal = "mount"]
ls == fs' = Begin([NoCall EXCEPT !.goal = "list"])
ls_path(path) == fs' = Begin([NoCall EXCEPT !.goal = "list", !.path = path, !.full = path])
read_path(path) == fs' = Begin([NoCall EXCEPT !.goal = "file", !.path = path, !.full = path])
read(first, size) == fs' = read_file(NoCall, first, size)

Listing == fs.goal = "list" \/ fs.path # <<>>

\* The sector just read is used.
Used(f) == [f EXCEPT !.doubt = @ \/ doubt # {}]

\* A Vec grows to n elements, or its allocation fails and the kernel panics.
Grow(f, n) ==
  \/ fs' = f /\ UNCHANGED panicked
  \/ n > ROOM /\ panicked' = TRUE /\ UNCHANGED fs

-----------------------------------------------------------------------------
(* Steps of a call *)

MountAsk ==
  /\ fs.at = "boot"
  /\ Ask(0)
  /\ UNCHANGED fat

\* The sector is read as a boot sector; no other sector carries the signature.
MountGot ==
  /\ fs.at = "boot"
  /\ Consume
  /\ LET verdict == IF got = "true" /\ buf = 0 THEN parse_boot(vol.boot) ELSE "BadSignature"
     IN  /\ panicked' = (verdict = "Overflow")
         /\ fs' = Returned(fs, verdict = "Ok")
  /\ UNCHANGED vol

\* first_sector + s; the arithmetic overflows on a cluster number that is too big.
SectorAsk ==
  /\ fs.at = "sector"
  /\ IF SectorOf(fs.c, fs.s) < U32
       THEN Ask(SectorOf(fs.c, fs.s)) /\ UNCHANGED fat
       ELSE asked = None /\ got = "none" /\ panicked' = TRUE /\ UNCHANGED <<vol, fs, blockio>>

\* The next sector of the cluster, or its FAT entry after the last.
NextSector(f) ==
  IF f.s + 1 < vol.boot.sectors_per_cluster THEN [f EXCEPT !.s = @ + 1] ELSE [f EXCEPT !.at = "entry"]

\* A directory sector; a failed read ends the listing with false.
DirSector ==
  /\ fs.at = "sector" /\ Listing
  /\ Consume
  /\ \/ got = "false" /\ fs' = Listed(fs, FALSE) /\ UNCHANGED panicked
     \/ /\ got = "true"
        /\ \E slots \in SlotsAt(buf) :
             LET scan == ScanSlots(slots, fs.lfn, fs.out)
                 f == Used([fs EXCEPT !.lfn = scan.lfn, !.out = scan.out])
             IN  Grow(IF scan.end THEN Listed(f, TRUE) ELSE NextSector(f), Len(scan.out))
  /\ UNCHANGED vol

\* What the bytes of one sector add to a file.
Taken(f, bytes, take) ==
  LET g == NextSector(Used([f EXCEPT !.need = @ - take, !.out = @ \o SubSeq(bytes, 1, take)]))
  IN  IF g.need = 0 /\ g.at = "sector" THEN Returned(g, TRUE) ELSE g

\* Mutant: the buffer is used although the read failed.
FileSector_Unchecked ==
  /\ fs.at = "sector" /\ ~Listing
  /\ Consume
  /\ LET take == Min({fs.need, SECTOR})
     IN  Grow(Taken(fs, BytesAt(buf), take), Len(fs.out) + take)
  /\ UNCHANGED vol

\* A sector of a file; the read is over once nothing more is needed, except
\* that the FAT entry is still read after the last sector of a cluster.
FileSector ==
  /\ fs.at = "sector" /\ ~Listing
  /\ Consume
  /\ \/ got = "false" /\ fs' = Returned(fs, FALSE) /\ UNCHANGED panicked
     \/ /\ got = "true"
        /\ LET take == Min({fs.need, SECTOR})
           IN  Grow(Taken(fs, BytesAt(buf), take), Len(fs.out) + take)
  /\ UNCHANGED vol

\* The walk goes on at the next cluster, or ends: at the end of the chain, for
\* want of an entry (next = None), or at the bound.  Only a file read tells
\* these apart, by the bytes it still needs.
NextCluster(f, next) ==
  LET more == next # None /\ ~is_chain_end(next) /\ f.hops + 1 < WALK
      on == [f EXCEPT !.at = "sector", !.c = next, !.s = 0, !.hops = @ + 1]
  IN  fs' = CASE Listing /\ more -> on
              [] Listing /\ ~more ->
                   Listed([f EXCEPT !.cut = (next = None \/ ~is_chain_end(next))], TRUE)
              [] ~Listing /\ more /\ f.need > 0 -> on
              [] OTHER -> Returned(f, f.need = 0)

EntryAsk ==
  /\ fs.at = "entry" /\ InFat(fs.c)
  /\ Ask(FatSector(fs.c))
  /\ UNCHANGED fat

EntryOutside ==
  /\ fs.at = "entry" /\ ~InFat(fs.c)
  /\ NextCluster(fs, None)
  /\ UNCHANGED <<vol, panicked, blockio>>

EntryGot ==
  /\ fs.at = "entry"
  /\ Consume
  /\ \/ got = "false" /\ NextCluster(fs, None)
     \/ got = "true" /\ \E next \in FatEntries(buf, fs.c) : NextCluster(Used(fs), next)
  /\ UNCHANGED <<vol, panicked>>

Fs ==
  /\ ~panicked
  /\ \/ MountAsk \/ MountGot \/ SectorAsk \/ DirSector \/ FileSector
     \/ EntryAsk \/ EntryOutside \/ EntryGot

-----------------------------------------------------------------------------
(* Reference definitions: what the disk stores, read without a device *)

\* The clusters of the chain from c, as far as a walk follows it.
Chain(c) ==
  LET f[n \in 1 .. WALK] ==
        IF n = 1 THEN <<c>>
        ELSE LET last == f[n - 1][Len(f[n - 1])]
                 next == vol.fat[last]
             IN  IF ~InFat(last) \/ is_chain_end(next) THEN f[n - 1] ELSE Append(f[n - 1], next)
  IN  f[WALK]

\* The sectors of the chain from c, in order.
SectorsFrom(c) ==
  LET chain == Chain(c)
      n == vol.boot.sectors_per_cluster
  IN  [i \in 1 .. (Len(chain) * n) |-> SectorOf(chain[((i - 1) \div n) + 1], (i - 1) % n)]

\* The part of a directory before its end marker.
BeforeEnd(slots) ==
  SubSeq(slots, 1, Min({Len(slots)} \cup {i - 1 : i \in {j \in DOMAIN slots : slots[j].kind = "end"}}))

\* The long name spelled by the pieces that stand directly before the i-th slot.
Spelled(pieces) == [k \in DOMAIN pieces |-> pieces[k].text]
LongName(slots, i) ==
  LET first == Min({i} \cup {j \in 1 .. (i - 1) : \A k \in j .. (i - 1) : slots[k].kind = "lfn"})
  IN  Spelled(SortSeq(SubSeq(slots, first, i - 1), LAMBDA p, q : p.seq < q.seq))

EntryAt(slots, i) ==
  [short |-> slots[i].short, long |-> LongName(slots, i), is_dir |-> slots[i].is_dir,
   cluster |-> slots[i].cluster, size |-> slots[i].size]

EntriesIn(slots) ==
  Concat([i \in DOMAIN slots |-> IF slots[i].kind = "entry" THEN <<EntryAt(slots, i)>> ELSE <<>>])

\* The entries of the directory at c, in order.
SlotsOf(sectors) == Concat([i \in DOMAIN sectors |-> vol.dirs[sectors[i]]])
Entries(c) == IF is_chain_end(c) THEN <<>> ELSE EntriesIn(BeforeEnd(SlotsOf(SectorsFrom(c))))

\* The bytes of the file whose chain starts at c.
BytesOf(sectors) == Concat([i \in DOMAIN sectors |-> BytesAt(sectors[i])])
FileBytes(c, size) == SubSeq(BytesOf(SectorsFrom(c)), 1, size)

\* The first entry of the directory at c with a given name, and the one a path
\* leads to.
Named(entries, name) == entries[Position(entries, LAMBDA e : name \in names(e))]
Lookup(path) ==
  LET f[n \in 1 .. Len(path)] ==
        Named(Entries(IF n = 1 THEN vol.boot.root_cluster ELSE f[n - 1].cluster), path[n])
  IN  f[Len(path)]

-----------------------------------------------------------------------------
(* Properties *)

\* read_file and read_path return true only with exactly the bytes of the file
\* that was named: no sector is skipped, repeated or cut short, whatever reads
\* fail, however the chain is linked, and although resolve ignores a listing
\* that failed and the buffer of a failed read may hold anything.  A call that
\* used a sector from a read in doubt promises nothing; the next one does.
FilesExact ==
  (fs.at = "returned" /\ fs.goal = "file" /\ fs.ok /\ ~fs.doubt) =>
    /\ fs.size > 0 => fs.out = FileBytes(fs.first, fs.size)
    /\ fs.size = 0 => fs.out = <<>>
    /\ fs.full # <<>> => <<fs.first, fs.size>> = <<Lookup(fs.full).cluster, Lookup(fs.full).size>>

\* ls and ls_path return true with the directory's entries in order, long names
\* put together, or with a leading part of them: list_dir also returns true
\* when the FAT sector could not be read or the walk hit its bound.
ListingsHonest ==
  (fs.at = "returned" /\ fs.goal = "list" /\ fs.ok /\ ~fs.doubt) =>
    LET entries == Entries(fs.first)
    IN  /\ Len(fs.out) <= Len(entries) /\ fs.out = SubSeq(entries, 1, Len(fs.out))
        /\ ~fs.cut => fs.out = entries
=============================================================================
