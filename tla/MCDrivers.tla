------------------------------ MODULE MCDrivers ------------------------------
(****************************************************************************)
(* Instance of Drivers: sectors of two bytes, four FAT entries to a sector,   *)
(* volumes of up to eight clusters.                                           *)
(****************************************************************************)
EXTENDS Drivers

Boot(reserved, fats, spf, spc, root) ==
  [signature |-> TRUE, bytes |-> SECTOR, sectors_per_cluster |-> spc, reserved_sectors |-> reserved,
   fat_count |-> fats, total_sectors |-> 20, sectors_per_fat |-> spf, root_cluster |-> root]

End == [kind |-> "end"]
Deleted == [kind |-> "deleted"]
Long(seq, text) == [kind |-> "lfn", seq |-> seq, text |-> text]
File(name, cluster, size) == [kind |-> "entry", short |-> <<name>>, is_dir |-> FALSE, cluster |-> cluster, size |-> size]
Dir(name, cluster) == [kind |-> "entry", short |-> <<name>>, is_dir |-> TRUE, cluster |-> cluster, size |-> 0]

Table(links) == [c \in 0 .. (2 * ENTRIES - 1) |-> IF c \in DOMAIN links THEN links[c] ELSE 0]

\* A root of two clusters with a deleted slot and a long name across them, a
\* file of two clusters, and a subdirectory with a file.
Regular ==
  [boot |-> Boot(1, 1, 2, 1, 2),
   fat |-> Table(2 :> 3 @@ 3 :> EOC @@ 4 :> 5 @@ 5 :> EOC @@ 6 :> EOC @@ 7 :> EOC),
   dirs |-> 3 :> <<Deleted, Long(2, "b")>> @@ 4 :> <<Long(1, "a"), File("F", 4, 3), Dir("D", 6)>>
            @@ 7 :> <<Dir(".", 6), File("G", 7, 2), End>>]

\* Root and file chains that never end; the first entry is a volume label.
Cyclic ==
  [boot |-> Boot(1, 1, 2, 1, 2),
   fat |-> Table(2 :> 3 @@ 3 :> 2 @@ 4 :> 4),
   dirs |-> 3 :> <<Dir("D", 0)>> @@ 4 :> <<File("X", 4, 9)>>]

\* The chain leaves the FAT, which is too short; two sectors to a cluster.
Short ==
  [boot |-> Boot(1, 2, 1, 2, 2),
   fat |-> Table(2 :> 5 @@ 3 :> 6),
   dirs |-> 3 :> <<File("L", 0, 0), File("Y", 3, 1)>> @@ 4 :> <<>> @@ 9 :> <<>> @@ 10 :> <<End>>]

\* The first file ends in the middle of a cluster, at the end of a sector.
Inside ==
  [boot |-> Boot(1, 1, 1, 2, 2),
   fat |-> Table(2 :> EOC @@ 3 :> EOC),
   dirs |-> 2 :> <<File("Z", 3, 2)>> @@ 3 :> <<End>>]

\* Four sectors to a cluster, and a file in sectors that a command cannot name.
Wide ==
  [boot |-> Boot(1, 1, 2, 4, 2),
   fat |-> Table(2 :> EOC @@ 6 :> EOC),
   dirs |-> 3 :> <<File("W", 6, 1), End>> @@ 4 :> <<>> @@ 5 :> <<>> @@ 6 :> <<>>]

NotFat == [Regular EXCEPT !.boot.signature = FALSE]
Fat16 == [Regular EXCEPT !.boot.root_cluster = 0]
FarRoot == [Short EXCEPT !.boot.root_cluster = EOC - 1]
HugeFat == [Regular EXCEPT !.boot.fat_count = 2, !.boot.sectors_per_fat = U32 \div 2]

MCVolumes ==
  [virtio |-> {Inside, NotFat},
   ide |-> {Regular, Cyclic, Short, Inside, Wide, NotFat, Fat16, FarRoot, HugeFat}]

MCLeftovers == {[used |-> 0, slot |-> 0], [used |-> 0, slot |-> Junk],
                [used |-> 0, slot |-> Stray], [used |-> 1, slot |-> 0]}

Cap(kind, addr, next) == [kind |-> kind, addr |-> addr, next |-> next]

Chip(vendor, device, class, subclass) ==
  [vendor |-> vendor, device |-> device, class |-> class, subclass |-> subclass, first |-> 0, caps |-> <<>>]

Bridge == Chip(\h8086, \h7000, 6, 1)
Blk(first, list) == [Chip(\h1AF4, \h1001, 1, 0) EXCEPT !.first = first, !.caps = list]

\* A capability list as a device has it, and lists without common registers,
\* with a notify capability that reaches beyond 255, and without an end.
Whole == Blk(64, 64 :> Cap("notify", 5, 84) @@ 84 :> Cap("other", 0, 100) @@ 100 :> Cap("common", 3, 0))
Lacking == Blk(64, 64 :> Cap("common", 3, 80) @@ 80 :> Cap("common", 0, 0))
High == Blk(64, 64 :> Cap("common", 3, 240) @@ 240 :> Cap("notify", 5, 0))
Endless == Blk(64, 64 :> Cap("common", 3, 80) @@ 80 :> Cap("device", 4, 64))

\* A virtio disk in a slot of its own, and one that is not listed because its
\* multi-function slot holds it at function 0.
MCBuses ==
  {0 :> [multi |-> FALSE, funcs |-> 0 :> Bridge] @@ 2 :> [multi |-> FALSE, funcs |-> 0 :> disk]
     : disk \in {Whole, Lacking, High, Endless}}
    \cup {1 :> [multi |-> TRUE, funcs |-> 0 :> Whole @@ 2 :> Chip(\h8086, \h7020, 12, 3)]}

MCChips == {[hpet |-> TRUE, vbe |-> TRUE, latch |-> FALSE]}
MCCapacities == {6, 20}
MCScancodes == {{2, 3, 4}}
MCSeed == <<"L", "i", "O", "S">>
=============================================================================
