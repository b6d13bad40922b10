------------------------------- MODULE Update -------------------------------
(***************************************************************************)
(* `lionos update` (launcher/src/update.rs): fetch the disk, fetch         *)
(* checksums.txt, compare, write the cache.  The two files are fetched     *)
(* one after the other while the publisher may replace either, a download  *)
(* may be an error page or cut short, and fs::write is a truncation        *)
(* followed by writes that another process can interleave with.            *)
(***************************************************************************)
EXTENDS Integers, Lists

CONSTANTS Disks,       \* the disk images the publisher may release
          Junk         \* a body that is not a disk: an error page, a cut download

VARIABLES release,     \* what the source serves: disk, sums; vouched: hashes ever listed
          cache        \* cache/lionos-disk.bin: its two halves, the last writer, overlap

DISK_NAME == "lionos-disk.bin"

None == "none"

sha256_hex(data) == [sha |-> data]

\* checksums.txt as the publisher writes it for a disk.
Checksums(disk) ==
    << [file |-> "qemu-slim", hash |-> sha256_hex("qemu-slim")],
       [file |-> DISK_NAME, hash |-> sha256_hex(disk)] >>

Halves == {1, 2}

NoFile == [h \in Halves |-> None]

UpdateInit ==
    \E d \in Disks :
        /\ release = [disk |-> d, sums |-> Checksums(d), vouched |-> {sha256_hex(d)}]
        /\ cache = [data |-> NoFile, by |-> None, alone |-> TRUE]

\* Mutant: an entry for the disk is enough.
verify_AnyEntry(disk, sums, name) ==
    \E i \in DOMAIN sums : sums[i].file = name

\* The first entry for the name decides; no entry is a refusal.
verify(disk, sums, name) ==
    LET i == Position(sums, LAMBDA e : e.file = name)
    IN  i # 0 /\ sums[i].hash = sha256_hex(disk)

\* What fetch_bytes can return for a published file: the file, or a body that
\* is not it (curl runs without -f and http_get checks no length).  A failure
\* is the caller's early return.
fetch_bytes(published, other) == {published, other}

\* fs::write: the file is emptied, then filled from this writer's offset.
Truncate(p, others) ==
    cache' = [data |-> NoFile, by |-> p, alone |-> others = {}]

Fill(h, disk) ==
    cache' = [cache EXCEPT !.data[h] = disk]

\* The publisher replaces the release's two assets one at a time.
PublishDisk ==
    /\ \E d \in Disks \ {release.disk} : release' = [release EXCEPT !.disk = d]
    /\ UNCHANGED cache

PublishSums ==
    /\ release.sums # Checksums(release.disk)
    /\ release' = [release EXCEPT !.sums = Checksums(release.disk),
                                  !.vouched = @ \cup {sha256_hex(release.disk)}]
    /\ UNCHANGED cache
=============================================================================
