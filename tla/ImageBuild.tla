----------------------------- MODULE ImageBuild -----------------------------
(***************************************************************************)
(* The image build that the installer drives: kernel/build.rs's component  *)
(* manifest, os/build.rs's image and its copy to target/bios.img, and      *)
(* cargo's freshness rules and lock on os/target as the two build scripts  *)
(* rely on them.                                                           *)
(***************************************************************************)
EXTENDS Selection

VARIABLES os,          \* os/target: lock holder, env of the kernel artifact, script up to date
          image        \* target/bios.img: manifest keys, whole, who built last

Nobody == "nobody"

\* No selection is written as this.
Dirty == <<",">>

NoImage == [keys |-> << >>, present |-> FALSE, whole |-> FALSE, last |-> Nobody]

ImageInit ==
    /\ os = [lock |-> Nobody, env |-> Dirty, fresh |-> FALSE]
    /\ image = NoImage

REQUIRED_COMPONENTS ==
    LET must == Keep(COMPONENTS, {c \in Range(COMPONENTS) : c.required})
    IN  [i \in DOMAIN must |-> must[i].key]

WithoutDuplicates(s) ==
    FoldList(LAMBDA keys, k : IF k \in Range(keys) THEN keys ELSE Append(keys, k), << >>, s)

\* Required first, then the user's.
generate_manifest(raw) ==
    WithoutDuplicates(REQUIRED_COMPONENTS \o Keep(raw, Range(raw) \ {","}))

\* Mutant: the manifest's build script does not name the variable it reads.
rerun_if_env_changed_Unnamed(raw) == os.env = Dirty

\* The kernel artifact is rebuilt when the variable differs from last time.
rerun_if_env_changed(raw) == os.env # raw

\* cargo build in os/: take the lock, bring the kernel artifact up to date.  A
\* rebuilt artifact makes the image script stale, and a build that is cut short
\* leaves its unit dirty.
CargoLock(p) ==
    /\ os.lock = Nobody
    /\ os' = [os EXCEPT !.lock = p]
    /\ UNCHANGED image

CargoKernel(p, raw) ==
    /\ os.lock = p
    /\ os' = IF rerun_if_env_changed(raw)
             THEN [os EXCEPT !.env = raw, !.fresh = FALSE] ELSE os
    /\ UNCHANGED image

CargoFail(p) ==
    /\ os.lock = p
    /\ os' = [os EXCEPT !.lock = Nobody, !.env = Dirty, !.fresh = FALSE]
    /\ UNCHANGED image

\* A fresh image script is not run: target/bios.img stays as it is.
CargoFresh(p) ==
    /\ os.lock = p /\ os.fresh
    /\ os' = [os EXCEPT !.lock = Nobody]
    /\ image' = [image EXCEPT !.last = p]

\* os/build.rs: the image is made in OUT_DIR, then copied over the stable path,
\* which is a truncation and a write.
CopyStart(p) ==
    /\ os.lock = p /\ ~os.fresh
    /\ image' = [keys |-> generate_manifest(os.env), present |-> TRUE,
                 whole |-> FALSE, last |-> p]
    /\ UNCHANGED os

CopyEnd(p) ==
    /\ image' = [image EXCEPT !.whole = image.present]
    /\ os' = [os EXCEPT !.lock = Nobody, !.fresh = TRUE]

\* os/build.rs panics: no image, no directory, or a copy that stops part of the
\* way.  The script stays stale.
ScriptFail(p) ==
    /\ os.lock = p /\ ~os.fresh
    /\ os' = [os EXCEPT !.lock = Nobody]
    /\ UNCHANGED image

\* The repository's target/ is removed (it is not os/target, which cargo tracks);
\* a copy under way then ends in a file that has no name.
CleanTarget ==
    /\ image.present
    /\ image' = NoImage
    /\ UNCHANGED os
=============================================================================
