------------------------------ MODULE Install ------------------------------
(***************************************************************************)
(* `lionos install` and the working half of `lionos setup`                 *)
(* (launcher/src/install.rs), as processes on one host: provisioning by    *)
(* package manager with a pinned download behind it, the source build, the *)
(* prebuilt-disk path, and the saved selection.  A process that has ended  *)
(* stays at "ok" or "err" until its slot is used again.                    *)
(***************************************************************************)
EXTENDS Update, ImageBuild, TLC

CONSTANTS Procs,       \* process slots
          Hosts        \* hosts: [os, mgr, tools, provision, repo], and two bounds:
                       \* COMMANDS started there, detached ones included, and
                       \* RELEASES, the assets the publisher replaces meanwhile

\* What a process may be called, and what a host says; no body that is not the
\* pinned file hashes to the placeholder.
ASSUME InstallAssumption ==
    /\ Nobody \notin Procs
    /\ \A h \in Hosts : {"os", "mgr", "tools", "provision", "repo", "COMMANDS", "RELEASES"} = DOMAIN h
    /\ Junk # "placeholder"

VARIABLES host,        \* the host; host.tools is what PATH resolves
          proc,        \* proc[p]: the state of one launcher process
          config       \* config.toml: its lines, the last writer, overlap

installVars == <<release, cache, os, image, host, proc, config>>

Files == <<release, cache, os, image, config>>

NoProc == [at |-> "idle", cmd |-> "none", rel |-> FALSE, skip |-> FALSE, sel |-> << >>,
           cursor |-> 0, todo |-> << >>, missing |-> FALSE, marks |-> << >>,
           disk |-> None, sums |-> << >>]

InstallInit ==
    /\ UpdateInit /\ ImageInit
    /\ host \in Hosts
    /\ proc = [p \in Procs |-> NoProc]
    /\ config = [text |-> << >>, by |-> Nobody, alone |-> TRUE]

At(p, label) == proc[p].at = label

\* A record with the fields of change.
With(r, change) == [x \in DOMAIN r |-> IF x \in DOMAIN change THEN change[x] ELSE r[x]]

Become(p, change) == proc' = [proc EXCEPT ![p] = With(@, change)]

Result(ok) == IF ok THEN "ok" ELSE "err"

\* A step that ends the process also ends its locals; what the user was told
\* stays: page 3's marks, and the disk that an Ok update named.
Locals(label) ==
    IF label \in {"ok", "err"}
    THEN [sel |-> << >>, todo |-> << >>, missing |-> FALSE, sums |-> << >>, cursor |-> 0]
    ELSE << >>

Leave(p, label, change) ==
    proc' = [proc EXCEPT ![p] = With(With(With(@, Locals(label)), [at |-> label]), change)]

Goto(p, label) == Leave(p, label, << >>)

HOST_TOOLS == <<"qemu", "rust", "nasm", "g++", "zig", "mtools">>

which(bin, tools) == bin \in tools

tool_present(name, tools) ==
    IF name = "rust" THEN which("rustup", tools) \/ which("cargo", tools)
    ELSE which(name, tools)

pkg_install_argv(package) ==
    \/ host.os = "macos"
    \/ host.os = "windows" /\ package \in {"qemu", "nasm", "zig"}
    \/ host.os = "linux" /\ host.mgr

\* A package manager's run: its exit status and what PATH resolves afterwards
\* need not agree.
stream(package) ==
    [exit : BOOLEAN,
     tools : {host.tools, host.tools \cup {IF package = "rust" THEN "cargo" ELSE package}}]

\* The hashes a direct download may have: for qemu the all-zero placeholder,
\* which no download has; for the others there is no download.
direct_spec(name) == IF name = "qemu" THEN {[sha |-> "placeholder"]} ELSE {}

stage_direct_tool(name) ==
    \E body \in {"qemu-slim", Junk} : sha256_hex(body) \in direct_spec(name)

\* Which rungs provision_one walks: the direct download is always the last.
rung_ladder(name) ==
    IF pkg_install_argv(name) /\ host.provision THEN <<"PkgMgr", "Direct">> ELSE <<"Direct">>

\* Where a run goes once its tools are provisioned: find_repo_root decides for
\* a source build.
AfterTools(p) ==
    IF proc[p].skip THEN "ok"
    ELSE IF proc[p].rel THEN "fetch_disk"
    ELSE IF host.repo THEN "build_kernel" ELSE "err"

\* on_step: `lionos setup` records each step's outcome for page 3.
Mark(p, ok) == IF proc[p].cmd = "setup" THEN Append(proc[p].marks, ok) ELSE << >>

Provisioned(p, ok) ==
    LET rest == Tail(proc[p].todo)
        next == IF ~ok THEN "err" ELSE IF rest = << >> THEN AfterTools(p) ELSE "provision"
    IN  Leave(p, next, [todo |-> IF ok THEN rest ELSE << >>, marks |-> Mark(p, ok)])

\* Mutant: a package manager that exits 0 is believed.
provision_one_Trusting(p) ==
    /\ At(p, "provision")
    /\ LET t == Head(proc[p].todo)
       IN  \/ tool_present(t, host.tools) /\ Provisioned(p, TRUE) /\ UNCHANGED host
           \/ /\ ~tool_present(t, host.tools) /\ rung_ladder(t)[1] = "PkgMgr"
              /\ \E run \in stream(t) :
                    /\ host' = [host EXCEPT !.tools = run.tools]
                    /\ Provisioned(p, run.exit)
    /\ UNCHANGED Files

\* Present already; or the package manager ran and exposed it; or the pinned
\* download stands in.
provision_one(p) ==
    /\ At(p, "provision")
    /\ LET t == Head(proc[p].todo)
       IN  \/ /\ tool_present(t, host.tools)
              /\ Provisioned(p, TRUE)
              /\ UNCHANGED host
           \/ /\ ~tool_present(t, host.tools)
              /\ rung_ladder(t)[1] = "PkgMgr"
              /\ \E run \in stream(t) :
                    /\ host' = [host EXCEPT !.tools = run.tools]
                    /\ Provisioned(p, \/ run.exit /\ tool_present(t, run.tools)
                                      \/ stage_direct_tool(t))
           \/ /\ ~tool_present(t, host.tools)
              /\ rung_ladder(t)[1] = "Direct"
              /\ Provisioned(p, stage_direct_tool(t))
              /\ UNCHANGED host
    /\ UNCHANGED Files

ensure_qemu(p) ==
    /\ At(p, "qemu")
    /\ \/ which("qemu", host.tools) /\ Goto(p, "tools") /\ UNCHANGED host
       \/ /\ ~which("qemu", host.tools) /\ pkg_install_argv("qemu")
          /\ \E run \in stream("qemu") :
                /\ host' = [host EXCEPT !.tools = run.tools]
                /\ Goto(p, IF run.exit /\ which("qemu", run.tools) THEN "tools" ELSE "err")
       \/ /\ ~which("qemu", host.tools) /\ ~pkg_install_argv("qemu")
          /\ Goto(p, "err") /\ UNCHANGED host
    /\ UNCHANGED Files

BuildTool(p, ok) ==
    LET rest    == Tail(proc[p].todo)
        missing == proc[p].missing \/ ~ok
    IN  IF rest = << >> /\ missing THEN Goto(p, "err")
        ELSE Leave(p, IF rest = << >> THEN "rustup" ELSE "tools",
                   [todo |-> rest, missing |-> missing])

\* One round of ensure_build_tools: a package manager's exit status is taken for
\* nasm, zig and mtools; only the compiler is looked up again.
ensure_build_tools(p) ==
    /\ At(p, "tools")
    /\ LET t     == Head(proc[p].todo)
           found == which(t, host.tools) \/ (t = "g++" /\ which("clang++", host.tools))
       IN  \/ found /\ BuildTool(p, TRUE) /\ UNCHANGED host
           \/ /\ ~found /\ pkg_install_argv(t)
              /\ \E run \in stream(t) :
                    /\ host' = [host EXCEPT !.tools = run.tools]
                    /\ BuildTool(p, run.exit /\ (t = "g++" => which("g++", run.tools)))
           \/ ~found /\ ~pkg_install_argv(t) /\ BuildTool(p, FALSE) /\ UNCHANGED host
    /\ UNCHANGED Files

\* rustup itself, then the pinned toolchain, its components and its target; a
\* rustup that PATH does not resolve cannot be spawned.
ensure_rust(p) ==
    /\ \/ /\ At(p, "rustup") /\ which("rustup", host.tools)
          /\ Goto(p, "toolchain") /\ UNCHANGED host
       \/ /\ At(p, "rustup") /\ ~which("rustup", host.tools)
          /\ \E run \in stream("rustup") :
                /\ host' = [host EXCEPT !.tools = run.tools]
                /\ Goto(p, IF run.exit THEN "toolchain" ELSE "err")
       \/ /\ At(p, "toolchain")
          /\ \E ok \in BOOLEAN :
                Goto(p, IF ok /\ which("rustup", host.tools) THEN AfterTools(p) ELSE "err")
          /\ UNCHANGED host
    /\ UNCHANGED Files

\* build_disk: cargo in kernel/, then cargo in os/ with the same variable, then
\* the image must exist.
build_disk(p) ==
    /\ \/ /\ At(p, "build_kernel")
          /\ \E ok \in BOOLEAN : Goto(p, IF ok THEN "build_os" ELSE "build_failed")
          /\ UNCHANGED <<os, image>>
       \/ At(p, "build_os") /\ CargoLock(p) /\ Goto(p, "os_kernel")
       \/ At(p, "os_kernel") /\ CargoKernel(p, csv(proc[p].sel)) /\ Goto(p, "os_image")
       \/ At(p, "os_kernel") /\ CargoFail(p) /\ Goto(p, "build_failed")
       \/ At(p, "os_image") /\ CargoFresh(p) /\ Goto(p, "built")
       \/ At(p, "os_image") /\ CopyStart(p) /\ Goto(p, "copying")
       \/ At(p, "copying") /\ CopyEnd(p) /\ Goto(p, "built")
       \/ (At(p, "os_image") \/ At(p, "copying")) /\ ScriptFail(p) /\ Goto(p, "build_failed")
       \/ /\ \/ At(p, "built")
             \/ At(p, "build_failed")
          /\ LET ok == At(p, "built") /\ image.present
             IN  Leave(p, Result(ok), [marks |-> Mark(p, ok)])
          /\ UNCHANGED <<os, image>>
    /\ UNCHANGED <<release, cache, host, config>>

\* update::run up to the comparison: two fetches, either of which may fail.
UpdateFetch(p) ==
    /\ \/ /\ At(p, "fetch_disk")
          /\ \E body \in fetch_bytes(release.disk, Junk) :
                Leave(p, "fetch_sums", [disk |-> body])
       \/ /\ At(p, "fetch_sums")
          /\ \E body \in fetch_bytes(release.sums, << >>) :
                Leave(p, "verify", [sums |-> body])
       \/ (At(p, "fetch_disk") \/ At(p, "fetch_sums")) /\ Goto(p, "refused")
       \/ /\ At(p, "verify")
          /\ Leave(p, IF verify(proc[p].disk, proc[p].sums, DISK_NAME)
                      THEN "truncate" ELSE "refused", [sums |-> << >>])
    /\ UNCHANGED <<host, Files>>

\* update::run from the comparison on: the write, which may fail part of the
\* way, and the result.
UpdateWrite(p) ==
    LET writers == {q \in Procs \ {p} : proc[q].at \in {"fill1", "fill2"}}
    IN  /\ \/ At(p, "truncate") /\ Truncate(p, writers) /\ Goto(p, "fill1")
           \/ At(p, "fill1") /\ Fill(1, proc[p].disk) /\ Goto(p, "fill2")
           \/ At(p, "fill2") /\ Fill(2, proc[p].disk) /\ Goto(p, "cached")
           \/ proc[p].at \in {"truncate", "fill1", "fill2"} /\ Goto(p, "refused") /\ UNCHANGED cache
           \/ /\ proc[p].at \in {"cached", "refused"}
              /\ LET ok == At(p, "cached")
                 IN  Leave(p, Result(ok), [marks |-> Mark(p, ok),
                                           disk |-> IF ok THEN proc[p].disk ELSE None])
              /\ UNCHANGED cache
        /\ UNCHANGED <<release, os, image, host, config>>

\* The start of run_setup_with_progress: config.toml is emptied and written.
Persist(p) ==
    /\ \/ /\ At(p, "persist")
          /\ Goto(p, "save")
          /\ config' = [text |-> << >>, by |-> p,
                        alone |-> \A q \in Procs \ {p} : ~At(q, "save")]
       \/ /\ At(p, "save")
          /\ Leave(p, "provision",
                   [todo |-> IF proc[p].rel THEN <<"qemu">> ELSE HOST_TOOLS])
          /\ \E text \in {to_toml(proc[p].sel)} \cup (IF config.alone THEN {} ELSE {<< >>}) :
                config' = [config EXCEPT !.text = text]
       \/ (At(p, "persist") \/ At(p, "save")) /\ Goto(p, "err") /\ UNCHANGED config
    /\ UNCHANGED <<release, cache, os, image, host>>

InstallStep(p) ==
    \/ provision_one(p)
    \/ ensure_qemu(p)
    \/ ensure_build_tools(p)
    \/ ensure_rust(p)
    \/ build_disk(p)
    \/ UpdateFetch(p)
    \/ UpdateWrite(p)
    \/ Persist(p)
=============================================================================
