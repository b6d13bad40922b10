------------------------------ MODULE Launcher ------------------------------
(***************************************************************************)
(* The `lionos` command line on one host: the commands (launcher/src/      *)
(* main.rs), the setup wizard (setup.rs), QEMU and doctor, several         *)
(* processes at once (`install --detach` starts one), each of which may be *)
(* killed between any two steps, and a publisher replacing the release.    *)
(***************************************************************************)
EXTENDS Install

VARIABLE ran           \* how many of each so far

vars == <<installVars, ran>>

Init ==
    /\ InstallInit
    /\ ran = [commands |-> 0, releases |-> 0]

Free(p) == proc[p].at \in {"idle", "ok", "err"}

\* run_inner's first step for the two kinds of install.
run_inner(rel, skip) ==
    [NoProc EXCEPT !.cmd = "install", !.rel = rel, !.skip = skip, !.sel = DefaultSelection,
                   !.at = IF rel THEN "provision" ELSE "qemu",
                   !.todo = IF rel THEN <<"qemu">> ELSE <<"nasm", "zig", "mtools", "g++">>]

find_qemu == which("qemu", host.tools)

\* qemu::run needs the binary and the image; doctor needs the binary.
Ended(cmd, ok) == [NoProc EXCEPT !.cmd = cmd, !.at = Result(ok)]

Image(kernel) ==
    IF kernel = "bios.img" THEN image.present ELSE cache.by # None

\* setup::run: LIONOS_SMOKE skips the pages and takes the defaults.
setup_run(rel, smoke) ==
    [NoProc EXCEPT !.cmd = "setup", !.rel = rel, !.sel = DefaultSelection,
                   !.at = IF smoke THEN "persist" ELSE "welcome"]

\* main: one command begins in a free slot; what ends at once is ended.
main(p) ==
    /\ Free(p) /\ ran.commands < host.COMMANDS
    /\ ran' = [ran EXCEPT !.commands = @ + 1]
    /\ \/ \E kernel \in {"bios.img", "cache"} : Become(p, Ended("run", find_qemu /\ Image(kernel)))
       \/ Become(p, Ended("doctor", find_qemu))
       \/ \E rel, skip \in BOOLEAN : Become(p, run_inner(rel, skip))
       \/ Become(p, [NoProc EXCEPT !.cmd = "update", !.at = "fetch_disk"])
       \/ \E rel, smoke \in BOOLEAN : Become(p, setup_run(rel, smoke))
    /\ UNCHANGED <<host, Files>>

\* install --detach: the child runs the install, the parent is done; the log
\* that cannot be opened is the parent's error.
run_detached(p, q) ==
    /\ Free(p) /\ Free(q) /\ p # q /\ ran.commands + 1 < host.COMMANDS
    /\ \/ /\ ran' = [ran EXCEPT !.commands = @ + 2]
          /\ \E rel, skip \in BOOLEAN :
                proc' = [proc EXCEPT ![p] = Ended("install", TRUE), ![q] = run_inner(rel, skip)]
       \/ /\ ran' = [ran EXCEPT !.commands = @ + 1]
          /\ Become(p, Ended("install", FALSE))
    /\ UNCHANGED <<host, Files>>

\* run_wizard: Enter leaves the welcome screen and page 1; page 2 moves the
\* cursor, toggles, quits with Ok, or goes on to the work.
run_wizard(p) ==
    /\ \/ At(p, "welcome") /\ Goto(p, "page1")
       \/ At(p, "page1") /\ Goto(p, IF proc[p].rel THEN "persist" ELSE "page2")
       \/ /\ At(p, "page2")
          /\ LET c == proc[p].cursor
                 s == proc[p].sel
             IN  \/ c > 0 /\ Become(p, [cursor |-> c - 1])
                 \/ c < Len(COMPONENTS) - 1 /\ Become(p, [cursor |-> c + 1])
                 \/ Become(p, [sel |-> toggle(s, COMPONENTS[c + 1].key)])
                 \/ \E n \in 0 .. Len(COMPONENTS) :
                       Become(p, [sel |-> toggle(s, COMPONENTS[IF n = 0 THEN 1 ELSE n].key)])
                 \/ Leave(p, "persist", [cursor |-> 0])
                 \/ Goto(p, "ok")
    /\ UNCHANGED <<host, Files, ran>>

\* A process is killed; a cargo it ran dies with it and drops its lock, and the
\* unit it was building stays dirty.
Kill(p) ==
    /\ ~Free(p)
    /\ proc' = [proc EXCEPT ![p] = NoProc]
    /\ os' = IF os.lock = p
             THEN [os EXCEPT !.lock = Nobody,
                             !.env = IF At(p, "os_kernel") THEN Dirty ELSE @]
             ELSE os
    /\ UNCHANGED <<release, cache, image, host, config, ran>>

Publish ==
    /\ ran.releases < host.RELEASES
    /\ ran' = [ran EXCEPT !.releases = @ + 1]
    /\ PublishDisk \/ PublishSums
    /\ UNCHANGED <<os, image, host, proc, config>>

Clean ==
    /\ CleanTarget
    /\ UNCHANGED <<release, cache, host, proc, config, ran>>

Next ==
    \/ \E p \in Procs : main(p) \/ run_wizard(p) \/ Kill(p)
    \/ \E p, q \in Procs : run_detached(p, q)
    \/ \E p \in Procs : InstallStep(p) /\ UNCHANGED ran
    \/ Publish
    \/ Clean

Spec == Init /\ [][Next]_vars

-----------------------------------------------------------------------------
\* update.rs:5-7.  Whatever else goes on, nothing but a disk that the published
\* checksums.txt has vouched for reaches the cache, in whole or in part; and
\* after an update that no other writer overlapped, the cache is the disk it
\* verified until somebody writes again.
CacheVerified ==
    /\ \A h \in Halves :
          cache.data[h] # None => sha256_hex(cache.data[h]) \in release.vouched
    /\ \A p \in Procs :
          (proc[p].at \in {"cached", "ok"} /\ proc[p].disk # None /\ cache.by = p /\ cache.alone)
              => \A h \in Halves : cache.data[h] = proc[p].disk

\* install.rs:429-457 and :546.  A source build that reports success leaves an
\* image made of the selected components and the required ones, whatever builds
\* came before it or were cut short; and the config.toml that the run saved
\* gives those components back.
BuiltAsSelected ==
    \A p \in Procs :
        (proc[p].cmd \in {"install", "setup"} /\ At(p, "built") /\ image.present /\ image.last = p)
            => LET wanted == Range(proc[p].sel)
               IN  /\ image.whole /\ Range(image.keys) = wanted
                   /\ (proc[p].cmd = "setup" /\ config.by = p /\ config.alone)
                         => Range(from_toml(config.text)) = wanted

\* install.rs:381-414 and :182-198.  A tool that page 3 of setup ticks is on PATH
\* and setup builds only when every tool is ticked; and no command builds, or
\* installs a disk, on a host without QEMU.  (For nasm, zig and mtools `install`
\* takes the package manager's word, install.rs:209, so nothing is said of them.)
ToolsBeforeBuild ==
    \A p \in Procs :
        LET m       == proc[p].marks
            working == proc[p].at \in {"build_kernel", "build_os", "os_kernel", "os_image",
                                       "copying", "built"}
            loading == proc[p].at \in {"fetch_disk", "fetch_sums", "verify", "truncate",
                                       "fill1", "fill2", "cached"}
        IN  /\ \A i \in DOMAIN m \cap DOMAIN HOST_TOOLS :
                  (m[i] /\ ~proc[p].rel) => tool_present(HOST_TOOLS[i], host.tools)
            /\ (working /\ proc[p].cmd = "setup") => Len(m) = Len(HOST_TOOLS)
            /\ (working \/ (loading /\ proc[p].cmd # "update")) => find_qemu
=============================================================================
