--------------------------- MODULE LauncherProofs ----------------------------
(****************************************************************************)
(* What the launcher promises, for every host, roster, set of disks and      *)
(* number of processes: the tools are there before anything is built, only   *)
(* vouched bytes reach the cache, and a build that succeeds is of what was   *)
(* selected.  Each needs what the processes have reached so far: the three   *)
(* invariants below say it label by label.                                   *)
(****************************************************************************)
EXTENDS Launcher, FoldLemmas

Fields == {"at", "cmd", "rel", "skip", "sel", "cursor", "todo", "missing", "marks",
           "disk", "sums"}

\* The records of the state have their fields.
Shape ==
  /\ DOMAIN proc = Procs /\ \A p \in Procs : DOMAIN proc[p] = Fields
  /\ "tools" \in DOMAIN host

-----------------------------------------------------------------------------
(* Tools *)

Paging == {"welcome", "page1", "page2", "persist", "save"}
Preparing == {"qemu", "tools", "rustup", "toolchain"}
Working == {"build_kernel", "build_os", "os_kernel", "os_image", "copying", "built"}
Loading == {"fetch_disk", "fetch_sums", "verify", "truncate", "fill1", "fill2", "cached"}

\* What a process has marked is on PATH, and it is provisioning the first tool
\* that it has not marked.
ToolsOf(r, tools) ==
  /\ r.rel \in BOOLEAN /\ r.marks \in Seq(BOOLEAN)
  /\ r.at \in Paging => r.cmd = "setup" /\ r.marks = << >>
  /\ r.at \in Preparing => r.cmd = "install" /\ ~r.rel /\ r.marks = << >>
  /\ r.at = "provision" =>
       IF r.rel THEN r.todo = <<"qemu">>
       ELSE /\ r.cmd = "setup" /\ Len(r.marks) < Len(HOST_TOOLS)
            /\ r.todo = SubSeq(HOST_TOOLS, Len(r.marks) + 1, Len(HOST_TOOLS))
            /\ \A i \in DOMAIN r.marks : r.marks[i] = TRUE
  /\ ~r.rel => \A i \in DOMAIN r.marks \cap DOMAIN HOST_TOOLS :
                  r.marks[i] = TRUE => tool_present(HOST_TOOLS[i], tools)
  /\ r.at \in Working /\ r.cmd = "setup" => Len(r.marks) = Len(HOST_TOOLS)
  /\ r.at \in Working \cup (Preparing \ {"qemu"}) => "qemu" \in tools
  /\ r.at \in Loading /\ r.cmd # "update" => "qemu" \in tools /\ r.rel

ToolsInv == Shape /\ \A p \in Procs : ToolsOf(proc[p], host.tools)

-----------------------------------------------------------------------------
(* Cache *)

Vouched(sums) == \E d : sums = Checksums(d) /\ sha256_hex(d) \in release.vouched

\* A process that knows a disk has got it from the release, and writes it only
\* after the comparison.
DiskOf(r) ==
  /\ r.disk # None =>
       r.at \in {"fetch_sums", "verify", "truncate", "fill1", "fill2", "cached", "refused", "ok"}
  /\ r.at = "verify" => r.sums = << >> \/ Vouched(r.sums)
  /\ r.at \in {"truncate", "fill1", "fill2", "cached"} => sha256_hex(r.disk) \in release.vouched

\* As long as the last writer is alone, the cache is as far as that writer is.
Alone(p) ==
  /\ \A q \in Procs \ {p} : proc[q].at \notin {"fill1", "fill2"}
  /\ proc[p].at = "fill2" => cache.data[1] = proc[p].disk
  /\ proc[p].at \in {"cached", "ok"} /\ proc[p].disk # None =>
       \A h \in Halves : cache.data[h] = proc[p].disk

CacheInv ==
  /\ Shape
  /\ DOMAIN release = {"disk", "sums", "vouched"} /\ Vouched(release.sums)
  /\ DOMAIN cache = {"data", "by", "alone"} /\ DOMAIN cache.data = Halves
  /\ \A h \in Halves : cache.data[h] # None => sha256_hex(cache.data[h]) \in release.vouched
  /\ \A p \in Procs : DiskOf(proc[p])
  /\ \A p \in Procs : cache.by = p /\ cache.alone => Alone(p)

-----------------------------------------------------------------------------
(* Build *)

Keys == {COMPONENTS[i].key : i \in Roster}
RequiredKeys == {COMPONENTS[i].key : i \in {j \in Roster : COMPONENTS[j].required}}

\* The selection of a run holds what is required until the run ends.
SelectionOf(r) ==
  /\ r.sel \in Seq(Keys)
  /\ r.at \in {"welcome", "page1", "page2"} => r.cursor \in 0 .. (Len(COMPONENTS) - 1)
  /\ r.at \in Paging \cup Preparing \cup Working \cup {"provision", "build_failed"}
       => RequiredKeys \subseteq Range(r.sel)

\* Between the kernel and the image the lock keeps others away from os/target.
BuildOf(p) ==
  LET r == proc[p]
  IN  /\ r.at \in {"os_kernel", "os_image", "copying"} => os.lock = p
      /\ r.at \in {"os_image", "copying"} => os.env = csv(r.sel)
      /\ r.at = "copying" => ~os.fresh /\ (image.present => image.keys = generate_manifest(os.env))
      /\ r.at = "built" /\ image.present /\ image.last = p =>
           image.whole /\ image.keys = generate_manifest(csv(r.sel))

\* The file of a setup that wrote config.toml alone is its selection.
ConfigOf(p) ==
  /\ \A q \in Procs \ {p} : proc[q].at # "save"
  /\ proc[p].cmd = "setup" /\ proc[p].at \notin Paging \cup {"idle", "ok", "err"}
       => config.text = to_toml(proc[p].sel)

\* What is up to date was made from the environment that cargo remembers.
UpToDate ==
  /\ DOMAIN os = {"lock", "env", "fresh"} /\ os.fresh \in BOOLEAN
  /\ DOMAIN image = {"keys", "present", "whole", "last"}
  /\ image.present \in BOOLEAN /\ image.whole \in BOOLEAN
  /\ DOMAIN config = {"text", "by", "alone"}
  /\ os.fresh /\ os.env # Dirty /\ image.present =>
       image.whole /\ image.keys = generate_manifest(os.env)

BuildInv ==
  /\ Shape /\ UpToDate
  /\ \A p \in Procs : SelectionOf(proc[p]) /\ BuildOf(p)
  /\ \A p \in Procs : config.by = p /\ config.alone => ConfigOf(p)

-----------------------------------------------------------------------------
(* How a step of one process changes proc *)

Ends == {"ok", "err"}

\* Only the process p moves, and its record keeps its fields.
Moves(p) ==
  /\ DOMAIN proc' = Procs /\ DOMAIN proc'[p] = Fields
  /\ \A q \in Procs \ {p} : proc'[q] = proc[q]

Changeable == {"todo", "marks", "disk", "sums", "missing", "cursor"}

\* The record after Leave(p, label, change).
Left(p, label, change) ==
  LET r == proc[p]
      s == proc'[p]
  IN  /\ s.at = label
      /\ s.cmd = r.cmd /\ s.rel = r.rel /\ s.skip = r.skip
      /\ s.sel = IF label \in Ends THEN << >> ELSE r.sel
      /\ s.disk = IF "disk" \in DOMAIN change THEN change["disk"] ELSE r.disk
      /\ s.marks = IF "marks" \in DOMAIN change THEN change["marks"] ELSE r.marks
      /\ "sums" \in DOMAIN change => s.sums = change["sums"]
      /\ "todo" \in DOMAIN change => s.todo = change["todo"]
      /\ label \notin Ends =>
           /\ s.cursor = IF "cursor" \in DOMAIN change THEN change["cursor"] ELSE r.cursor
           /\ "todo" \notin DOMAIN change => s.todo = r.todo

\* Leave moves one process, to the given label, and changes only the given fields.
LEMMA LeaveFacts ==
  ASSUME Shape, NEW p \in Procs, NEW label, NEW change, DOMAIN change \subseteq Changeable,
         Leave(p, label, change)
  PROVE  Moves(p) /\ Left(p, label, change)
<1> DEFINE r == proc[p]
           a == With(r, Locals(label))
           b == With(a, [at |-> label])
           c == With(b, change)
<1>1. proc' = [proc EXCEPT ![p] = c]
  BY DEF Leave
<1>2. DOMAIN proc = Procs /\ DOMAIN r = Fields
  BY DEF Shape
<1>3. DOMAIN a = Fields /\ DOMAIN b = Fields /\ DOMAIN c = Fields
  BY <1>2 DEF With
<1>4. proc'[p] = c /\ DOMAIN proc' = Procs /\ \A q \in Procs \ {p} : proc'[q] = proc[q]
  <2> HIDE DEF c
  <2> QED
    BY <1>1, <1>2
<1>5. Moves(p)
  <2> HIDE DEF c
  <2> QED
    BY <1>3, <1>4 DEF Moves
<1>6. \A x \in Fields : a[x] = IF x \in DOMAIN Locals(label) THEN Locals(label)[x] ELSE r[x]
  <2> HIDE DEF r
  <2> QED
    BY <1>2 DEF With, r
<1>7. \A x \in Fields : b[x] = IF x = "at" THEN label ELSE a[x]
  <2> HIDE DEF a
  <2> QED
    BY <1>3 DEF With
<1>8. \A x \in Fields : c[x] = IF x \in DOMAIN change THEN change[x] ELSE b[x]
  <2> HIDE DEF b
  <2> QED
    BY <1>3 DEF With
<1>9. /\ label \in Ends => DOMAIN Locals(label) = {"sel", "todo", "missing", "sums", "cursor"}
      /\ label \in Ends => Locals(label)["sel"] = << >>
      /\ label \notin Ends => DOMAIN Locals(label) = {}
  BY DEF Locals, Ends
<1> HIDE DEF a, b, c, r
<1>10. \A x \in Fields : proc'[p][x] =
         IF x \in DOMAIN change THEN change[x]
         ELSE IF x = "at" THEN label
         ELSE IF x \in DOMAIN Locals(label) THEN Locals(label)[x] ELSE r[x]
  BY <1>4, <1>6, <1>7, <1>8
<1>11. Left(p, label, change)
  BY <1>9, <1>10 DEF Left, Fields, Changeable, r
<1> QED
  BY <1>5, <1>11

\* Goto changes nothing else.
LEMMA GotoFacts ==
  ASSUME Shape, NEW p \in Procs, NEW label, Goto(p, label)
  PROVE  /\ Moves(p) /\ proc'[p].at = label
         /\ proc'[p].cmd = proc[p].cmd /\ proc'[p].rel = proc[p].rel /\ proc'[p].skip = proc[p].skip
         /\ proc'[p].sel = IF label \in Ends THEN << >> ELSE proc[p].sel
         /\ proc'[p].disk = proc[p].disk /\ proc'[p].marks = proc[p].marks
         /\ label \notin Ends => proc'[p].cursor = proc[p].cursor /\ proc'[p].todo = proc[p].todo
<1>1. DOMAIN << >> = {}
  OBVIOUS
<1>2. Leave(p, label, << >>) /\ DOMAIN << >> \subseteq Changeable
  BY <1>1 DEF Goto
<1>3. Moves(p) /\ Left(p, label, << >>)
  BY <1>2, LeaveFacts
<1> QED
  BY <1>1, <1>3 DEF Left

\* Become changes the fields it is given.
LEMMA BecomeFacts ==
  ASSUME Shape, NEW p \in Procs, NEW change, Become(p, change)
  PROVE  /\ Moves(p)
         /\ \A x \in Fields :
               proc'[p][x] = IF x \in DOMAIN change THEN change[x] ELSE proc[p][x]
<1> DEFINE c == With(proc[p], change)
<1>1. proc' = [proc EXCEPT ![p] = c] /\ DOMAIN proc = Procs /\ DOMAIN proc[p] = Fields
  BY DEF Become, Shape
<1>2. /\ DOMAIN c = Fields
      /\ \A x \in Fields : c[x] = IF x \in DOMAIN change THEN change[x] ELSE proc[p][x]
  BY <1>1 DEF With
<1> HIDE DEF c
<1> QED
  BY <1>1, <1>2 DEF Moves

-----------------------------------------------------------------------------
(* Tools *)

\* A record that is right about the tools of a host stays right when tools are added.
LEMMA ToolsGrow ==
  ASSUME NEW r, NEW t, NEW u, t \subseteq u, ToolsOf(r, t)
  PROVE  ToolsOf(r, u)
<1>1. \A name : tool_present(name, t) => tool_present(name, u)
  BY DEF tool_present, which
<1> QED
  BY <1>1, Zenon DEF ToolsOf

\* Nothing stands in for a package manager.
LEMMA NoStaging == \A name : ~stage_direct_tool(name)
<1>1. "qemu-slim" # "placeholder" /\ Junk # "placeholder"
  BY InstallAssumption
<1>2. ASSUME NEW body, sha256_hex(body) = [sha |-> "placeholder"] PROVE body = "placeholder"
  <2>1. [sha |-> body].sha = [sha |-> "placeholder"].sha
    BY <1>2 DEF sha256_hex
  <2> QED
    BY <2>1
<1> QED
  BY <1>1, <1>2 DEF stage_direct_tool, direct_spec

\* A package manager removes nothing.
LEMMA StreamFacts ==
  ASSUME NEW package, NEW run \in stream(package)
  PROVE  run.exit \in BOOLEAN /\ host.tools \subseteq run.tools
  BY DEF stream

\* The step of one process preserves ToolsInv when its own record does.
LEMMA ToolsMove ==
  ASSUME ToolsInv, NEW p \in Procs, Moves(p),
         "tools" \in DOMAIN host', host.tools \subseteq host'.tools,
         ToolsOf(proc'[p], host'.tools)
  PROVE  ToolsInv'
<1>1. \A q \in Procs : DOMAIN proc'[q] = Fields /\ ToolsOf(proc'[q], host'.tools)
  <2> TAKE q \in Procs
  <2>1. CASE q = p
    BY <2>1 DEF Moves
  <2>2. CASE q # p
    <3>1. proc'[q] = proc[q] /\ DOMAIN proc[q] = Fields /\ ToolsOf(proc[q], host.tools)
      BY <2>2 DEF Moves, ToolsInv, Shape
    <3> QED
      BY <3>1, ToolsGrow
  <2> QED
    BY <2>1, <2>2
<1> QED
  BY <1>1 DEF ToolsInv, Shape, Moves

\* What is left to provision after one tool.
Names == {"qemu", "rust", "nasm", "g++", "zig", "mtools"}

\* Head and tail of what is left of HOST_TOOLS: the next tool, and the rest.
LEMMA NextTool ==
  ASSUME NEW k \in Nat, k < Len(HOST_TOOLS)
  PROVE  LET todo == SubSeq(HOST_TOOLS, k + 1, Len(HOST_TOOLS))
         IN  /\ Head(todo) = HOST_TOOLS[k + 1]
             /\ Tail(todo) = SubSeq(HOST_TOOLS, k + 2, Len(HOST_TOOLS))
             /\ (Tail(todo) = << >>) <=> (k + 1 = Len(HOST_TOOLS))
<1>1. HOST_TOOLS \in Seq(Names) /\ Len(HOST_TOOLS) = 6
  <2>1. Len(HOST_TOOLS) = 6 /\ DOMAIN HOST_TOOLS = 1 .. 6
    BY DEF HOST_TOOLS
  <2>2. HOST_TOOLS \in Seq(Names)
    BY DEF HOST_TOOLS, Names
  <2> QED
    BY <2>1, <2>2
<1> HIDE DEF HOST_TOOLS
<1> DEFINE n == Len(HOST_TOOLS)
           todo == SubSeq(HOST_TOOLS, k + 1, n)
<1>2. k + 1 \in 1 .. n /\ n \in (k + 1) .. n /\ (k + 1) + 1 = k + 2
  BY <1>1
<1>3. Head(todo) = HOST_TOOLS[k + 1] /\ Tail(todo) = SubSeq(HOST_TOOLS, (k + 1) + 1, n)
  BY <1>1, <1>2
<1>4. Len(SubSeq(HOST_TOOLS, k + 2, n)) = IF k + 2 <= n THEN n - (k + 2) + 1 ELSE 0
  BY <1>1
<1>5. k + 1 = n => SubSeq(HOST_TOOLS, k + 2, n) = << >>
  BY <1>1
<1>6. k + 1 # n => SubSeq(HOST_TOOLS, k + 2, n) # << >>
  <2>1. k + 1 # n => Len(SubSeq(HOST_TOOLS, k + 2, n)) # 0
    BY <1>1, <1>4
  <2>2. Len(<< >>) = 0
    OBVIOUS
  <2> HIDE DEF n
  <2> QED
    BY <2>1, <2>2, Zenon
<1> QED
  BY <1>2, <1>3, <1>5, <1>6

\* provision_one marks a tool only after it is there.
LEMMA ProvisionTools ==
  ASSUME ToolsInv, NEW p \in Procs, provision_one(p)
  PROVE  ToolsInv'
<1> DEFINE r == proc[p]
           s == proc'[p]
           t == Head(r.todo)
           n == Len(HOST_TOOLS)
<1>0. Shape /\ ToolsOf(r, host.tools) /\ r.at = "provision"
  BY DEF ToolsInv, provision_one, At
<1>1. PICK ok \in BOOLEAN :
        /\ Provisioned(p, ok) /\ (ok => tool_present(t, host'.tools))
        /\ host.tools \subseteq host'.tools /\ "tools" \in DOMAIN host'
  <2>1. CASE tool_present(t, host.tools) /\ Provisioned(p, TRUE) /\ UNCHANGED host
    BY <1>0, <2>1, Zenon DEF Shape
  <2>2. CASE /\ ~tool_present(t, host.tools)
             /\ \E run \in stream(t) :
                  /\ host' = [host EXCEPT !.tools = run.tools]
                  /\ Provisioned(p, \/ run.exit /\ tool_present(t, run.tools)
                                    \/ stage_direct_tool(t))
    <3>1. PICK run \in stream(t) :
            /\ host' = [host EXCEPT !.tools = run.tools]
            /\ Provisioned(p, \/ run.exit /\ tool_present(t, run.tools)
                              \/ stage_direct_tool(t))
      BY <2>2, Zenon
    <3>2. host'.tools = run.tools /\ "tools" \in DOMAIN host'
      BY <1>0, <3>1 DEF Shape
    <3>3. host.tools \subseteq run.tools
      BY StreamFacts
    <3> DEFINE ok == \/ run.exit /\ tool_present(t, run.tools)
                     \/ stage_direct_tool(t)
    <3>4. ok \in BOOLEAN /\ (ok => tool_present(t, run.tools))
      BY NoStaging
    <3> HIDE DEF ok
    <3>5. Provisioned(p, ok)
      BY <3>1, Zenon DEF ok
    <3> QED
      BY <3>2, <3>3, <3>4, <3>5
  <2>3. CASE Provisioned(p, stage_direct_tool(t)) /\ UNCHANGED host
    <3> DEFINE ok == stage_direct_tool(t)
    <3>1. ~ok /\ ok \in BOOLEAN
      BY NoStaging DEF stage_direct_tool
    <3> HIDE DEF ok
    <3>2. Provisioned(p, ok)
      BY <2>3 DEF ok
    <3> QED
      BY <1>0, <2>3, <3>1, <3>2 DEF Shape
  <2> QED
    BY <2>1, <2>2, <2>3, Zenon DEF provision_one
<1> DEFINE rest == Tail(r.todo)
           next == IF ~ok THEN "err" ELSE IF rest = << >> THEN AfterTools(p) ELSE "provision"
           change == [todo |-> IF ok THEN rest ELSE << >>, marks |-> Mark(p, ok)]
<1>2. Moves(p) /\ Left(p, next, change)
  <2>1. Leave(p, next, change) /\ DOMAIN change \subseteq Changeable
    BY <1>1, SMTT(30) DEF Provisioned, Changeable
  <2> HIDE DEF next, change
  <2> QED
    BY <1>0, <2>1, LeaveFacts
<1>3. /\ s.at = next /\ s.cmd = r.cmd /\ s.rel = r.rel /\ s.marks = Mark(p, ok)
      /\ s.todo = IF ok THEN rest ELSE << >>
  <2>1. /\ DOMAIN change = {"todo", "marks"} /\ change["marks"] = Mark(p, ok)
        /\ change["todo"] = IF ok THEN rest ELSE << >>
    OBVIOUS
  <2> HIDE DEF next, change
  <2> QED
    BY <1>2, <2>1 DEF Left
<1>4. /\ next \in {"err", "ok", "fetch_disk", "build_kernel", "provision"}
      /\ (next = "provision" => ok /\ rest # << >>)
      /\ (next \in {"fetch_disk", "build_kernel"} => ok /\ rest = << >>)
      /\ (next = "fetch_disk" => r.rel) /\ (next = "build_kernel" => ~r.rel)
  <2>1. CASE ~ok
    BY <2>1
  <2>2. CASE ok /\ rest = << >>
    <3>1. next = AfterTools(p)
      BY <2>2
    <3>2. AfterTools(p) \in {"ok", "err"}
             \cup (IF r.rel THEN {"fetch_disk"} ELSE {"build_kernel"})
      BY DEF AfterTools
    <3> HIDE DEF next
    <3> QED
      BY <2>2, <3>1, <3>2
  <2>3. CASE ok /\ rest # << >>
    BY <2>3
  <2> QED
    BY <2>1, <2>2, <2>3, Zenon
<1> HIDE DEF next
<1>5. s.marks \in Seq(BOOLEAN) /\ r.marks \in Seq(BOOLEAN) /\ r.rel \in BOOLEAN
  <2>1. r.marks \in Seq(BOOLEAN) /\ r.rel \in BOOLEAN
    BY <1>0 DEF ToolsOf
  <2>2. Append(r.marks, ok) \in Seq(BOOLEAN) /\ << >> \in Seq(BOOLEAN)
    BY <2>1
  <2>3. Mark(p, ok) \in Seq(BOOLEAN)
    BY <2>2, Zenon DEF Mark
  <2> QED
    BY <1>3, <2>1, <2>3
<1>6. CASE r.rel
  <2>1. r.todo = <<"qemu">>
    BY <1>0, <1>6 DEF ToolsOf
  <2>11. t = "qemu" /\ rest = << >>
    BY <2>1
  <2>2. next # "provision" /\ (next = "fetch_disk" => "qemu" \in host'.tools)
    BY <1>1, <1>4, <2>11 DEF tool_present, which
  <2>3. ToolsOf(s, host'.tools)
    BY <1>3, <1>4, <1>5, <1>6, <2>2 DEF ToolsOf, Paging, Preparing, Working, Loading
  <2> QED
    BY <1>1, <1>2, <2>3, ToolsMove
<1>7. CASE ~r.rel
  <2> DEFINE k == Len(r.marks)
  <2>1. /\ r.cmd = "setup" /\ k \in Nat /\ k < n /\ r.todo = SubSeq(HOST_TOOLS, k + 1, n)
        /\ \A i \in DOMAIN r.marks : r.marks[i] = TRUE
    <3>1. k \in Nat
      BY <1>5
    <3> HIDE DEF k
    <3> QED
      BY <1>0, <1>7, <3>1, Zenon DEF ToolsOf, k
  <2>2. /\ t = HOST_TOOLS[k + 1] /\ rest = SubSeq(HOST_TOOLS, k + 2, n)
        /\ rest = << >> <=> k + 1 = n
    BY <2>1, NextTool, Zenon
  <2>3. s.marks = Append(r.marks, ok)
    BY <1>3, <2>1 DEF Mark
  <2>4. /\ Len(s.marks) = k + 1 /\ DOMAIN s.marks = 1 .. (k + 1) /\ s.marks[k + 1] = ok
        /\ DOMAIN r.marks = 1 .. k /\ \A i \in 1 .. k : s.marks[i] = r.marks[i]
    BY <1>1, <1>5, <2>3
  <2>5. \A i \in 1 .. k : i \in DOMAIN HOST_TOOLS => tool_present(HOST_TOOLS[i], host'.tools)
    <3>1. ToolsOf(r, host'.tools)
      BY <1>0, <1>1, ToolsGrow
    <3> QED
      BY <1>7, <2>1, <2>4, <3>1 DEF ToolsOf
  <2>6. \A i \in DOMAIN s.marks \cap DOMAIN HOST_TOOLS :
           s.marks[i] = TRUE => tool_present(HOST_TOOLS[i], host'.tools)
    <3> SUFFICES ASSUME NEW i \in DOMAIN s.marks \cap DOMAIN HOST_TOOLS
                 PROVE  s.marks[i] = TRUE => tool_present(HOST_TOOLS[i], host'.tools)
      BY Zenon
    <3>1. CASE i = k + 1
      BY <1>1, <2>2, <2>4, <3>1, Zenon
    <3>2. CASE i \in 1 .. k
      BY <2>5, <3>2
    <3>3. i \in 1 .. (k + 1)
      BY <2>4
    <3> HIDE DEF k
    <3>4. i = k + 1 \/ i \in 1 .. k
      BY <2>1, <3>3
    <3> QED
      BY <3>1, <3>2, <3>4, Zenon
  <2>7. n = 6 /\ DOMAIN HOST_TOOLS = 1 .. 6 /\ HOST_TOOLS[1] = "qemu"
    BY DEF HOST_TOOLS
  <2>8. ok => "qemu" \in host'.tools
    <3>1. CASE k = 0
      BY <1>1, <2>2, <2>7, <3>1 DEF tool_present, which
    <3>2. CASE k # 0
      <4>1. tool_present(HOST_TOOLS[1], host'.tools)
        BY <2>1, <2>5, <2>7, <3>2
      <4> QED
        BY <2>7, <4>1 DEF tool_present, which
    <3> QED
      BY <3>1, <3>2
  <2>9. next = "provision" =>
          /\ Len(s.marks) < n /\ s.todo = SubSeq(HOST_TOOLS, Len(s.marks) + 1, n)
          /\ \A i \in DOMAIN s.marks : s.marks[i] = TRUE
    <3> SUFFICES ASSUME next = "provision"
                 PROVE  /\ Len(s.marks) < n /\ s.todo = SubSeq(HOST_TOOLS, Len(s.marks) + 1, n)
                        /\ \A i \in DOMAIN s.marks : s.marks[i] = TRUE
      BY Zenon
    <3>1. ok /\ k + 1 # n /\ s.todo = rest
      BY <1>3, <1>4, <2>2, Zenon
    <3>2. \A i \in 1 .. (k + 1) : s.marks[i] = TRUE
      <4> SUFFICES ASSUME NEW i \in 1 .. (k + 1) PROVE s.marks[i] = TRUE
        BY Zenon
      <4>1. \A j \in 1 .. k : s.marks[j] = TRUE
        BY <2>1, <2>4, Zenon
      <4>2. s.marks[k + 1] = TRUE
        BY <2>4, <3>1, Zenon
      <4> HIDE DEF k
      <4>3. i = k + 1 \/ i \in 1 .. k
        BY <2>1
      <4> QED
        BY <4>1, <4>2, <4>3, Zenon
    <3>3. k + 1 < n /\ (k + 1) + 1 = k + 2
      BY <2>1, <2>7, <3>1, SMTT(30)
    <3> QED
      BY <2>2, <2>4, <3>1, <3>2, <3>3, Zenon
  <2>10. next = "build_kernel" => Len(s.marks) = n
    BY <1>4, <2>2, <2>4, SMTT(30)
  <2>11. ToolsOf(s, host'.tools)
    <3> HIDE DEF n, k
    <3> QED
      BY <1>3, <1>4, <1>5, <1>7, <2>1, <2>6, <2>8, <2>9, <2>10, SMTT(30)
         DEF ToolsOf, Paging, Preparing, Working, Loading, n
  <2> QED
    BY <1>1, <1>2, <2>11, ToolsMove
<1> QED
  BY <1>6, <1>7

\* The records that a command starts with, and the empty one.
Starts(a) ==
  \/ \E cmd \in {"run", "doctor", "install"} : \E ok \in BOOLEAN : a = Ended(cmd, ok)
  \/ \E rel, skip \in BOOLEAN : a = run_inner(rel, skip)
  \/ \E rel, smoke \in BOOLEAN : a = setup_run(rel, smoke)
  \/ a = [NoProc EXCEPT !.cmd = "update", !.at = "fetch_disk"]
  \/ a = NoProc

\* They know nothing yet, and an install starts from the default selection.
Fresh(a) ==
  /\ a.marks = << >> /\ a.rel \in BOOLEAN /\ a.disk = None /\ a.cursor = 0
  /\ a.at \in {"idle", "ok", "err", "qemu", "provision", "welcome", "persist", "fetch_disk"}
  /\ a.at \in {"welcome", "persist"} => a.cmd = "setup"
  /\ a.at = "qemu" => a.cmd = "install" /\ ~a.rel
  /\ a.at = "provision" => a.cmd = "install" /\ a.rel /\ a.todo = <<"qemu">>
  /\ a.at = "fetch_disk" => a.cmd = "update"
  /\ a.sel = IF a.at \in {"qemu", "provision", "welcome", "persist"}
              THEN DefaultSelection ELSE << >>

\* A process that starts has fetched, read and marked nothing.
LEMMA StartFacts ==
  ASSUME NEW a, Starts(a)
  PROVE  Fresh(a) /\ DOMAIN a = Fields
<1>1. CASE \E cmd \in {"run", "doctor", "install"} : \E ok \in BOOLEAN : a = Ended(cmd, ok)
  BY <1>1 DEF Ended, Result, NoProc, Fields, Fresh
<1>2. CASE \E rel, skip \in BOOLEAN : a = run_inner(rel, skip)
  <2>1. PICK rel, skip \in BOOLEAN : a = run_inner(rel, skip)
    BY <1>2
  <2>2. CASE rel = TRUE
    BY <2>1, <2>2 DEF run_inner, NoProc, Fields, Fresh
  <2>3. CASE rel = FALSE
    BY <2>1, <2>3 DEF run_inner, NoProc, Fields, Fresh
  <2> QED
    BY <2>2, <2>3, Zenon
<1>3. CASE \E rel, smoke \in BOOLEAN : a = setup_run(rel, smoke)
  <2>1. PICK rel, smoke \in BOOLEAN : a = setup_run(rel, smoke)
    BY <1>3
  <2>2. CASE smoke = TRUE
    BY <2>1, <2>2 DEF setup_run, NoProc, Fields, Fresh
  <2>3. CASE smoke = FALSE
    BY <2>1, <2>3 DEF setup_run, NoProc, Fields, Fresh
  <2> QED
    BY <2>2, <2>3, Zenon
<1>4. CASE a = [NoProc EXCEPT !.cmd = "update", !.at = "fetch_disk"]
  BY <1>4 DEF NoProc, Fields, Fresh
<1>5. CASE a = NoProc
  BY <1>5 DEF NoProc, Fields, Fresh
<1> QED
  BY <1>1, <1>2, <1>3, <1>4, <1>5 DEF Starts

\* main, the processes of --detach, and Kill: a process gets such a record.
LEMMA CommandFacts ==
  ASSUME Shape, NEW p \in Procs
  PROVE  /\ main(p) => \E a : Starts(a) /\ Become(p, a)
         /\ Kill(p) => Moves(p) /\ proc'[p] = NoProc
<1>1. ASSUME main(p) PROVE \E a : Starts(a) /\ Become(p, a)
  <2>1. CASE \E kernel \in {"bios.img", "cache"} :
               Become(p, Ended("run", find_qemu /\ Image(kernel)))
    <3>1. PICK kernel : Become(p, Ended("run", find_qemu /\ Image(kernel)))
      BY <2>1
    <3> DEFINE ok == find_qemu /\ Image(kernel)
    <3>2. Ended("run", ok) = Ended("run", ok = TRUE) /\ (ok = TRUE) \in BOOLEAN
      BY DEF Ended, Result
    <3> QED
      BY <3>1, <3>2, Zenon DEF Starts
  <2>2. CASE Become(p, Ended("doctor", find_qemu))
    <3>1. find_qemu \in BOOLEAN
      BY DEF find_qemu, which
    <3> QED
      BY <2>2, <3>1, Zenon DEF Starts
  <2>3. CASE \E rel, skip \in BOOLEAN : Become(p, run_inner(rel, skip))
    BY <2>3, Zenon DEF Starts
  <2>4. CASE Become(p, [NoProc EXCEPT !.cmd = "update", !.at = "fetch_disk"])
    BY <2>4, Zenon DEF Starts
  <2>5. CASE \E rel, smoke \in BOOLEAN : Become(p, setup_run(rel, smoke))
    BY <2>5, Zenon DEF Starts
  <2> QED
    BY <1>1, <2>1, <2>2, <2>3, <2>4, <2>5, Zenon DEF main
<1>2. ASSUME Kill(p) PROVE Moves(p) /\ proc'[p] = NoProc
  <2>1. DOMAIN proc = Procs /\ DOMAIN NoProc = Fields
    BY DEF Shape, NoProc, Fields
  <2> HIDE DEF NoProc
  <2> QED
    BY <1>2, <2>1 DEF Kill, Moves
<1> QED
  BY <1>1, <1>2

\* A fresh process claims no tool.
LEMMA FreshTools ==
  ASSUME NEW r, NEW tools, Fresh(r)
  PROVE  ToolsOf(r, tools)
<1>1. DOMAIN << >> = {} /\ << >> \in Seq(BOOLEAN)
  OBVIOUS
<1>2. r.marks = << >> /\ r.marks \in Seq(BOOLEAN)
  BY <1>1 DEF Fresh
<1>3. \A i \in DOMAIN r.marks \cap DOMAIN HOST_TOOLS :
         r.marks[i] = TRUE => tool_present(HOST_TOOLS[i], tools)
  BY <1>1, <1>2
<1> QED
  BY <1>2, <1>3 DEF Fresh, ToolsOf, Paging, Preparing, Working, Loading

\* The steps before the build, of `lionos install` from source.
LEMMA PrepareTools ==
  ASSUME ToolsInv, NEW p \in Procs,
         ensure_qemu(p) \/ ensure_build_tools(p) \/ ensure_rust(p)
  PROVE  ToolsInv'
<1> DEFINE r == proc[p]
           s == proc'[p]
<1>0. Shape /\ ToolsOf(r, host.tools) /\ "tools" \in DOMAIN host
  BY DEF ToolsInv, Shape
<1>1. ASSUME NEW package, NEW run \in stream(package), host' = [host EXCEPT !.tools = run.tools]
      PROVE  /\ "tools" \in DOMAIN host' /\ host.tools \subseteq host'.tools
             /\ host'.tools = run.tools
  BY <1>0, <1>1, StreamFacts
<1>2. UNCHANGED host => "tools" \in DOMAIN host' /\ host.tools \subseteq host'.tools
  BY <1>0, Zenon
<1>3. /\ r.at \in Preparing /\ host.tools \subseteq host'.tools /\ "tools" \in DOMAIN host'
      /\ Moves(p) /\ s.cmd = r.cmd /\ s.rel = r.rel /\ s.marks = r.marks
      /\ s.at \in (Preparing \ {"qemu"}) \cup {"ok", "err", "build_kernel"}
      /\ s.at \notin {"ok", "err"} => "qemu" \in host'.tools
  <2>1. CASE ensure_qemu(p)
    <3>1. CASE which("qemu", host.tools) /\ Goto(p, "tools") /\ UNCHANGED host
      BY <1>0, <1>2, <2>1, <3>1, GotoFacts, SMTT(30) DEF ensure_qemu, At, Preparing, which
    <3>2. CASE \E run \in stream("qemu") :
                 /\ host' = [host EXCEPT !.tools = run.tools]
                 /\ Goto(p, IF run.exit /\ which("qemu", run.tools) THEN "tools" ELSE "err")
      <4>1. PICK run \in stream("qemu") :
                 /\ host' = [host EXCEPT !.tools = run.tools]
                 /\ Goto(p, IF run.exit /\ which("qemu", run.tools) THEN "tools" ELSE "err")
        BY <3>2
      <4> DEFINE label == IF run.exit /\ which("qemu", run.tools) THEN "tools" ELSE "err"
      <4>2. label \in {"tools", "err"} /\ (label = "tools" => "qemu" \in run.tools)
        BY DEF which
      <4> HIDE DEF label
      <4>3. Goto(p, label)
        BY <4>1 DEF label
      <4> QED
        BY <1>0, <1>1, <2>1, <4>1, <4>2, <4>3, GotoFacts, SMTT(30) DEF ensure_qemu, At, Preparing
    <3>3. CASE Goto(p, "err") /\ UNCHANGED host
      BY <1>0, <1>2, <2>1, <3>3, GotoFacts, Zenon DEF ensure_qemu, At, Preparing
    <3> QED
      BY <2>1, <3>1, <3>2, <3>3 DEF ensure_qemu
  <2>2. CASE ensure_build_tools(p)
    <3>1. /\ r.at = "tools" /\ "tools" \in DOMAIN host' /\ host.tools \subseteq host'.tools
          /\ \E ok : BuildTool(p, ok)
      <4>1. CASE UNCHANGED host
        BY <1>2, <2>2, <4>1, Zenon DEF ensure_build_tools, At
      <4>2. CASE ~UNCHANGED host
        <5>1. PICK run \in stream(Head(r.todo)) :
                /\ host' = [host EXCEPT !.tools = run.tools]
                /\ \E ok : BuildTool(p, ok)
          BY <2>2, <4>2, Zenon DEF ensure_build_tools
        <5> QED
          BY <1>1, <2>2, <5>1 DEF ensure_build_tools, At
      <4> QED
        BY <4>1, <4>2
    <3>2. PICK ok : BuildTool(p, ok)
      BY <3>1, Zenon
    <3>3. "qemu" \in host.tools
      BY <1>0, <3>1 DEF ToolsOf, Preparing
    <3> DEFINE rest == Tail(r.todo)
               label == IF rest = << >> THEN "rustup" ELSE "tools"
               change == [todo |-> rest, missing |-> r.missing \/ ~ok]
    <3>4. Goto(p, "err") \/ Leave(p, label, change)
      BY <3>2, Zenon DEF BuildTool
    <3>5. DOMAIN change = {"todo", "missing"} /\ label \in {"rustup", "tools"}
      OBVIOUS
    <3> HIDE DEF change, label
    <3>6. Goto(p, "err") \/ (Moves(p) /\ Left(p, label, change))
      BY <1>0, <3>4, <3>5, LeaveFacts, Zenon DEF Changeable
    <3> QED
      BY <1>0, <3>1, <3>3, <3>5, <3>6, GotoFacts DEF Left, Preparing
  <2>3. CASE ensure_rust(p)
    <3>1. PICK label :
            /\ r.at \in {"rustup", "toolchain"} /\ Goto(p, label)
            /\ label \in {"toolchain", "err", "ok", "build_kernel"}
            /\ "tools" \in DOMAIN host' /\ host.tools \subseteq host'.tools
      <4>1. CASE At(p, "rustup") /\ Goto(p, "toolchain") /\ UNCHANGED host
        BY <1>2, <4>1 DEF At
      <4>2. CASE /\ At(p, "rustup")
                 /\ \E run \in stream("rustup") :
                      /\ host' = [host EXCEPT !.tools = run.tools]
                      /\ Goto(p, IF run.exit THEN "toolchain" ELSE "err")
        BY <1>1, <4>2 DEF At
      <4>3. CASE /\ At(p, "toolchain") /\ UNCHANGED host
                 /\ \E ok \in BOOLEAN :
                      Goto(p, IF ok /\ which("rustup", host.tools) THEN AfterTools(p) ELSE "err")
        <5>1. PICK ok \in BOOLEAN :
                Goto(p, IF ok /\ which("rustup", host.tools) THEN AfterTools(p) ELSE "err")
          BY <4>3, SMTT(30)
        <5>2. AfterTools(p) \in {"ok", "err", "build_kernel"}
          BY <1>0, <4>3 DEF AfterTools, ToolsOf, At, Preparing
        <5> QED
          BY <1>2, <4>3, <5>1, <5>2 DEF At
      <4> QED
        BY <2>3, <4>1, <4>2, <4>3, SMTT(30) DEF ensure_rust
    <3>2. "qemu" \in host.tools
      BY <1>0, <3>1, Zenon DEF ToolsOf, Preparing
    <3> QED
      BY <1>0, <3>1, <3>2, GotoFacts DEF Preparing
  <2> QED
    BY <2>1, <2>2, <2>3, SMTT(30)
<1>4. s.cmd = "install" /\ ~s.rel /\ s.rel \in BOOLEAN /\ s.marks = << >> /\ r.marks \in Seq(BOOLEAN)
  BY <1>0, <1>3, SMTT(30) DEF ToolsOf
<1>5. ToolsOf(s, host'.tools)
  <2>1. DOMAIN << >> = {}
    OBVIOUS
  <2>2. \A i \in DOMAIN s.marks \cap DOMAIN HOST_TOOLS :
           s.marks[i] = TRUE => tool_present(HOST_TOOLS[i], host'.tools)
    BY <1>4, <2>1
  <2> QED
    BY <1>3, <1>4, <2>2 DEF ToolsOf, Paging, Preparing, Working, Loading
<1> QED
  BY <1>3, <1>5, ToolsMove

\* Every process is where it was or has just been started or killed.
Restarts ==
  /\ DOMAIN proc' = Procs
  /\ \A q \in Procs : DOMAIN proc'[q] = Fields /\ (proc'[q] = proc[q] \/ Fresh(proc'[q]))

\* A command that starts, dies or detaches leaves every record fresh or as it was.
LEMMA RestartFacts ==
  ASSUME Shape, NEW p \in Procs, NEW q \in Procs, main(p) \/ Kill(p) \/ run_detached(p, q)
  PROVE  Restarts
<1>1. ASSUME NEW a, Starts(a), Become(p, a) PROVE Restarts
  <2>1. Fresh(a) /\ DOMAIN a = Fields
    BY <1>1, StartFacts
  <2>2. Moves(p) /\ \A x \in Fields : proc'[p][x] = a[x]
    BY <1>1, <2>1, BecomeFacts, SMTT(30)
  <2>3. Fresh(proc'[p])
    BY <2>1, <2>2 DEF Fresh, Fields
  <2> QED
    BY <2>2, <2>3 DEF Restarts, Moves, Shape
<1>2. CASE main(p)
  BY <1>1, <1>2, CommandFacts
<1>3. CASE Kill(p)
  <2>1. Moves(p) /\ proc'[p] = NoProc
    BY <1>3, CommandFacts
  <2>2. Fresh(NoProc) /\ DOMAIN NoProc = Fields
    BY StartFacts DEF Starts
  <2> QED
    BY <2>1, <2>2, Zenon DEF Restarts, Moves, Shape
<1>4. CASE run_detached(p, q)
  <2>1. CASE Become(p, Ended("install", FALSE))
    <3>1. Starts(Ended("install", FALSE))
      BY Zenon DEF Starts
    <3> QED
      BY <1>1, <2>1, <3>1, Zenon
  <2>2. CASE \E rel, skip \in BOOLEAN :
               proc' = [proc EXCEPT ![p] = Ended("install", TRUE), ![q] = run_inner(rel, skip)]
    <3>1. PICK rel, skip \in BOOLEAN :
               proc' = [proc EXCEPT ![p] = Ended("install", TRUE), ![q] = run_inner(rel, skip)]
      BY <2>2, Zenon
    <3> DEFINE a == Ended("install", TRUE)
               b == run_inner(rel, skip)
    <3>2. Starts(a) /\ Starts(b)
      BY Zenon DEF Starts
    <3>3. Fresh(a) /\ DOMAIN a = Fields /\ Fresh(b) /\ DOMAIN b = Fields
      BY <3>2, StartFacts, Zenon
    <3> HIDE DEF a, b
    <3>4. proc' = [proc EXCEPT ![p] = a, ![q] = b] /\ DOMAIN proc = Procs
      BY <3>1 DEF Shape, a, b
    <3> QED
      BY <3>3, <3>4 DEF Restarts, Shape
  <2> QED
    BY <1>4, <2>1, <2>2, Zenon DEF run_detached
<1> QED
  BY <1>2, <1>3, <1>4

\* A step of p from one of the labels From to one of the labels To, by what the
\* steps of an install keep.
Edge(p, From, To) ==
  LET r == proc[p]
      s == proc'[p]
  IN  /\ Moves(p) /\ r.at \in From /\ s.at \in To
      /\ s.cmd = r.cmd /\ s.rel = r.rel
      /\ s.sel = IF s.at \in Ends THEN << >> ELSE r.sel

\* Goto changes the label and nothing else of the record.
LEMMA GotoEdge ==
  ASSUME Shape, NEW p \in Procs, NEW From, NEW To, NEW label \in To,
         proc[p].at \in From, Goto(p, label)
  PROVE  Edge(p, From, To) /\ proc'[p].marks = proc[p].marks /\ proc'[p].disk = proc[p].disk
  BY GotoFacts, SMTT(30) DEF Edge

\* The steps of update::run.
LEMMA UpdateEdges ==
  ASSUME Shape, NEW p \in Procs
  PROVE  /\ UpdateFetch(p) =>
              /\ Edge(p, {"fetch_disk", "fetch_sums", "verify"},
                      {"fetch_sums", "verify", "truncate", "refused"})
              /\ proc'[p].marks = proc[p].marks
         /\ UpdateWrite(p) =>
              /\ Edge(p, {"truncate", "fill1", "fill2", "cached", "refused"},
                      {"fill1", "fill2", "cached", "refused", "ok", "err"})
              /\ proc'[p].at \in Ends =>
                   proc'[p].marks = Mark(p, proc[p].at = "cached") /\ proc[p].at \in {"cached", "refused"}
              /\ proc'[p].at \notin Ends => proc'[p].marks = proc[p].marks
              /\ proc'[p].at \notin Ends =>
                   proc[p].at \in {"truncate", "fill1", "fill2"} /\ proc'[p].disk = proc[p].disk
<1> DEFINE r == proc[p]
           s == proc'[p]
<1>1. ASSUME NEW label, NEW change, DOMAIN change \subseteq {"disk", "sums"}, label \notin Ends,
             Leave(p, label, change)
      PROVE  /\ Moves(p) /\ s.at = label /\ s.cmd = r.cmd /\ s.rel = r.rel /\ s.sel = r.sel
             /\ s.marks = r.marks
  <2>1. Moves(p) /\ Left(p, label, change)
    BY <1>1, LeaveFacts DEF Changeable
  <2> QED
    BY <1>1, <2>1 DEF Left
<1>2. ASSUME UpdateFetch(p)
      PROVE  /\ Edge(p, {"fetch_disk", "fetch_sums", "verify"},
                      {"fetch_sums", "verify", "truncate", "refused"})
             /\ s.marks = r.marks
  <2>1. CASE At(p, "fetch_disk") /\ \E body : Leave(p, "fetch_sums", [disk |-> body])
    <3>1. PICK body : Leave(p, "fetch_sums", [disk |-> body])
      BY <2>1, Zenon
    <3> DEFINE change == [disk |-> body]
    <3>2. DOMAIN change \subseteq {"disk", "sums"} /\ Leave(p, "fetch_sums", change)
      BY <3>1
    <3> HIDE DEF change
    <3> QED
      BY <1>1, <2>1, <3>2 DEF Edge, At, Ends
  <2>2. CASE At(p, "fetch_sums") /\ \E body : Leave(p, "verify", [sums |-> body])
    <3>1. PICK body : Leave(p, "verify", [sums |-> body])
      BY <2>2, Zenon
    <3> DEFINE change == [sums |-> body]
    <3>2. DOMAIN change \subseteq {"disk", "sums"} /\ Leave(p, "verify", change)
      BY <3>1
    <3> HIDE DEF change
    <3> QED
      BY <1>1, <2>2, <3>2 DEF Edge, At, Ends
  <2>3. CASE (At(p, "fetch_disk") \/ At(p, "fetch_sums")) /\ Goto(p, "refused")
    BY <2>3, GotoEdge DEF At
  <2>4. CASE /\ At(p, "verify")
             /\ \E label \in {"truncate", "refused"} : Leave(p, label, [sums |-> << >>])
    <3>1. PICK label \in {"truncate", "refused"} : Leave(p, label, [sums |-> << >>])
      BY <2>4
    <3> DEFINE change == [sums |-> << >>]
    <3>2. DOMAIN change \subseteq {"disk", "sums"} /\ Leave(p, label, change)
      BY <3>1, Zenon
    <3> HIDE DEF change
    <3> QED
      BY <1>1, <2>4, <3>2 DEF Edge, At, Ends
  <2> QED
    BY <1>2, <2>1, <2>2, <2>3, <2>4, Zenon DEF UpdateFetch
<1>3. ASSUME UpdateWrite(p)
      PROVE  /\ Edge(p, {"truncate", "fill1", "fill2", "cached", "refused"},
                     {"fill1", "fill2", "cached", "refused", "ok", "err"})
             /\ s.at \in Ends => s.marks = Mark(p, r.at = "cached") /\ r.at \in {"cached", "refused"}
             /\ s.at \notin Ends => s.marks = r.marks
             /\ s.at \notin Ends => r.at \in {"truncate", "fill1", "fill2"} /\ s.disk = r.disk
  <2>1. CASE /\ r.at \in {"truncate", "fill1", "fill2"}
             /\ \E label \in {"fill1", "fill2", "cached", "refused"} : Goto(p, label)
    <3>1. PICK label \in {"fill1", "fill2", "cached", "refused"} : Goto(p, label)
      BY <2>1
    <3>2. label \notin Ends
      BY Zenon DEF Ends
    <3> QED
      BY <2>1, <3>1, <3>2, GotoFacts DEF Edge
  <2>2. CASE /\ r.at \in {"cached", "refused"}
             /\ Leave(p, Result(At(p, "cached")),
                      [marks |-> Mark(p, At(p, "cached")),
                       disk |-> IF At(p, "cached") THEN r.disk ELSE None])
    <3> DEFINE ok == r.at = "cached"
               label == Result(ok)
               change == [marks |-> Mark(p, ok), disk |-> IF ok THEN r.disk ELSE None]
    <3>1. /\ DOMAIN change \subseteq Changeable /\ Leave(p, label, change)
          /\ DOMAIN change = {"marks", "disk"} /\ change["marks"] = Mark(p, ok)
      BY <2>2 DEF At, Changeable
    <3>2. label \in Ends
      BY DEF Result, Ends
    <3> HIDE DEF label, change
    <3>3. Moves(p) /\ Left(p, label, change)
      BY <3>1, LeaveFacts, Zenon
    <3> QED
      BY <2>2, <3>1, <3>2, <3>3, SMTT(30) DEF Left, Edge, Ends
  <2> QED
    BY <1>3, <2>1, <2>2, Zenon DEF UpdateWrite, At
<1> QED
  BY <1>2, <1>3, SMTT(30)

\* The steps of build_disk.
LEMMA BuildEdges ==
  ASSUME Shape, NEW p \in Procs, build_disk(p)
  PROVE  /\ Edge(p, Working \cup {"build_failed"}, (Working \ {"build_kernel"}) \cup {"build_failed", "ok", "err"})
         /\ proc'[p].disk = proc[p].disk
         /\ proc'[p].at \in Ends =>
              /\ proc[p].at \in {"built", "build_failed"}
              /\ \E ok \in BOOLEAN : (ok => At(p, "built")) /\ proc'[p].marks = Mark(p, ok)
         /\ proc'[p].at \notin Ends => proc[p].at \in Working /\ proc'[p].marks = proc[p].marks
<1> DEFINE r == proc[p]
           s == proc'[p]
<1>1. CASE /\ r.at \in Working \cup {"build_failed"}
           /\ \E label \in (Working \ {"build_kernel"}) \cup {"build_failed"} : Goto(p, label)
           /\ r.at # "build_failed"
  <2>1. PICK label \in (Working \ {"build_kernel"}) \cup {"build_failed"} : Goto(p, label)
    BY <1>1
  <2>2. label \notin Ends
    BY Zenon DEF Ends, Working
  <2> QED
    BY <1>1, <2>1, <2>2, GotoFacts, SMTT(30) DEF Edge
<1>2. CASE /\ At(p, "built") \/ At(p, "build_failed")
           /\ LET ok == At(p, "built") /\ image.present
              IN  Leave(p, Result(ok), [marks |-> Mark(p, ok)])
  <2> DEFINE ok == At(p, "built") /\ image.present
             label == Result(ok)
             change == [marks |-> Mark(p, ok)]
  <2>1. ok \in BOOLEAN /\ (ok => At(p, "built"))
    OBVIOUS
  <2> HIDE DEF ok
  <2>2. /\ DOMAIN change = {"marks"} /\ change["marks"] = Mark(p, ok)
        /\ label \in Ends /\ Leave(p, label, change)
    BY <1>2 DEF Result, Ends, ok
  <2> HIDE DEF label, change
  <2>3. Moves(p) /\ Left(p, label, change)
    BY <2>2, LeaveFacts, SMTT(30) DEF Changeable
  <2> QED
    BY <1>2, <2>1, <2>2, <2>3, SMTT(30) DEF Left, Edge, At, Ends, Working
<1>3. CASE At(p, "build_kernel") /\ \E ok \in BOOLEAN : Goto(p, IF ok THEN "build_os" ELSE "build_failed")
  BY <1>1, <1>3, SMTT(30) DEF At, Working
<1> QED
  BY <1>1, <1>2, <1>3, Zenon DEF build_disk, At, Working

\* The steps of Persist.
LEMMA PersistEdges ==
  ASSUME Shape, NEW p \in Procs, Persist(p)
  PROVE  /\ Edge(p, {"persist", "save"}, {"save", "provision", "err"})
         /\ proc'[p].disk = proc[p].disk /\ proc'[p].marks = proc[p].marks
         /\ proc'[p].at = "save" => proc[p].at = "persist"
         /\ proc'[p].at = "provision" =>
              proc[p].at = "save" /\ proc'[p].todo = IF proc[p].rel THEN <<"qemu">> ELSE HOST_TOOLS
<1>1. CASE At(p, "persist") /\ Goto(p, "save")
  BY <1>1, GotoFacts DEF Edge, At, Ends
<1>2. CASE (At(p, "persist") \/ At(p, "save")) /\ Goto(p, "err")
  BY <1>2, GotoFacts, Zenon DEF Edge, At, Ends
<1>3. CASE /\ At(p, "save")
           /\ Leave(p, "provision", [todo |-> IF proc[p].rel THEN <<"qemu">> ELSE HOST_TOOLS])
  <2> DEFINE change == [todo |-> IF proc[p].rel THEN <<"qemu">> ELSE HOST_TOOLS]
  <2>1. /\ DOMAIN change = {"todo"} /\ Leave(p, "provision", change)
        /\ change["todo"] = IF proc[p].rel THEN <<"qemu">> ELSE HOST_TOOLS
    BY <1>3
  <2> HIDE DEF change
  <2>2. Moves(p) /\ Left(p, "provision", change)
    BY <2>1, LeaveFacts DEF Changeable
  <2> QED
    BY <1>3, <2>1, <2>2, SMTT(30) DEF Left, Edge, At, Ends
<1> QED
  BY <1>1, <1>2, <1>3, SMTT(30) DEF Persist

Rows == [key : STRING, required : BOOLEAN, recommended : BOOLEAN]

\* The roster is a non-empty list of rows whose keys are not punctuation.
LEMMA RosterFacts ==
  /\ COMPONENTS \in Seq(Rows) /\ Len(COMPONENTS) \in Nat \ {0} /\ Roster = 1 .. Len(COMPONENTS)
  /\ \A i \in Roster : COMPONENTS[i].key \notin Punctuation \cup {","}
<1>1. COMPONENTS \in Seq(Rows) /\ COMPONENTS # << >>
  BY RosterAssumption, Zenon DEF Rows
<1>2. Len(COMPONENTS) \in Nat \ {0}
  BY <1>1
<1>3. Roster = 1 .. Len(COMPONENTS)
  BY <1>1 DEF Roster
<1> QED
  BY <1>1, <1>2, <1>3, RosterAssumption, Zenon

\* The pages of the wizard.
LEMMA WizardEdges ==
  ASSUME Shape, NEW p \in Procs, run_wizard(p)
  PROVE  LET r == proc[p]
             s == proc'[p]
         IN  /\ Moves(p) /\ s.cmd = r.cmd /\ s.rel = r.rel /\ s.disk = r.disk /\ s.marks = r.marks
             /\ r.at \in {"welcome", "page1", "page2"}
             /\ s.at \in {"page1", "page2", "persist", "ok"}
             /\ r.at # "page2" /\ s.at \in {"page1", "page2"} => s.cursor = r.cursor
             /\ r.at = "page2" /\ s.at = "page2" =>
                  \/ s.cursor = r.cursor
                  \/ r.cursor > 0 /\ s.cursor = r.cursor - 1
                  \/ r.cursor < Len(COMPONENTS) - 1 /\ s.cursor = r.cursor + 1
             /\ IF s.at = "ok" THEN s.sel = << >>
                ELSE \/ s.sel = r.sel
                     \/ r.at = "page2" /\ s.sel = toggle(r.sel, COMPONENTS[r.cursor + 1].key)
                     \/ \E i \in Roster : s.sel = toggle(r.sel, COMPONENTS[i].key)
             /\ s.at = "page1" => r.at = "welcome"
<1> DEFINE r == proc[p]
           s == proc'[p]
           c == r.cursor
<1>1. CASE At(p, "welcome") /\ Goto(p, "page1")
  BY <1>1, GotoFacts, SMTT(30) DEF At, Ends
<1>2. CASE At(p, "page1") /\ Goto(p, IF proc[p].rel THEN "persist" ELSE "page2")
  <2>1. PICK label \in {"persist", "page2"} : Goto(p, label)
    BY <1>2, Zenon
  <2> QED
    BY <1>2, <2>1, GotoFacts DEF At, Ends
<1>3. ASSUME NEW d, At(p, "page2"), Become(p, [cursor |-> d])
      PROVE  /\ Moves(p) /\ s.cmd = r.cmd /\ s.rel = r.rel /\ s.disk = r.disk /\ s.marks = r.marks
             /\ s.at = "page2" /\ s.sel = r.sel /\ s.cursor = d
  <2> DEFINE change == [cursor |-> d]
  <2>1. DOMAIN change = {"cursor"} /\ change["cursor"] = d /\ Become(p, change)
    BY <1>3
  <2> HIDE DEF change
  <2>2. Moves(p) /\ \A x \in Fields : s[x] = IF x \in DOMAIN change THEN change[x] ELSE r[x]
    BY <2>1, BecomeFacts, Zenon
  <2> QED
    BY <1>3, <2>1, <2>2 DEF Fields, At
<1>4. ASSUME NEW d, At(p, "page2"), Become(p, [sel |-> d])
      PROVE  /\ Moves(p) /\ s.cmd = r.cmd /\ s.rel = r.rel /\ s.disk = r.disk /\ s.marks = r.marks
             /\ s.at = "page2" /\ s.sel = d /\ s.cursor = r.cursor
  <2> DEFINE change == [sel |-> d]
  <2>1. DOMAIN change = {"sel"} /\ change["sel"] = d /\ Become(p, change)
    BY <1>4
  <2> HIDE DEF change
  <2>2. Moves(p) /\ \A x \in Fields : s[x] = IF x \in DOMAIN change THEN change[x] ELSE r[x]
    BY <2>1, BecomeFacts, Zenon
  <2> QED
    BY <1>4, <2>1, <2>2, SMTT(30) DEF Fields, At
<1>5. CASE At(p, "page2") /\ Leave(p, "persist", [cursor |-> 0])
  <2> DEFINE change == [cursor |-> 0]
  <2>1. DOMAIN change = {"cursor"} /\ Leave(p, "persist", change)
    BY <1>5
  <2> HIDE DEF change
  <2>2. Moves(p) /\ Left(p, "persist", change)
    BY <2>1, LeaveFacts, Zenon DEF Changeable
  <2> QED
    BY <1>5, <2>1, <2>2, Zenon DEF Left, At, Ends
<1>6. CASE At(p, "page2") /\ Goto(p, "ok")
  BY <1>6, GotoFacts, Zenon DEF At, Ends
<1>7. CASE At(p, "page2") /\ c > 0 /\ Become(p, [cursor |-> c - 1])
  BY <1>3, <1>7, Zenon DEF At
<1>8. CASE At(p, "page2") /\ c < Len(COMPONENTS) - 1 /\ Become(p, [cursor |-> c + 1])
  BY <1>3, <1>8, Zenon DEF At
<1>9. CASE At(p, "page2") /\ Become(p, [sel |-> toggle(r.sel, COMPONENTS[c + 1].key)])
  BY <1>4, <1>9, Zenon DEF At
<1>10. CASE /\ At(p, "page2")
            /\ \E n \in 0 .. Len(COMPONENTS) :
                 Become(p, [sel |-> toggle(r.sel, COMPONENTS[IF n = 0 THEN 1 ELSE n].key)])
  <2>1. PICK n \in 0 .. Len(COMPONENTS) :
               Become(p, [sel |-> toggle(r.sel, COMPONENTS[IF n = 0 THEN 1 ELSE n].key)])
    BY <1>10
  <2> DEFINE i == IF n = 0 THEN 1 ELSE n
  <2>2. i \in Roster
    <3> DEFINE L == Len(COMPONENTS)
    <3>1. L \in Nat \ {0} /\ Roster = 1 .. L /\ n \in 0 .. L
      BY <2>1, RosterFacts, Zenon
    <3> HIDE DEF L
    <3> QED
      BY <3>1
  <2> HIDE DEF i
  <2>3. s.sel = toggle(r.sel, COMPONENTS[i].key)
    BY <1>4, <1>10, <2>1 DEF i
  <2> QED
    BY <1>4, <1>10, <2>1, <2>2, <2>3, SMTT(30) DEF At
<1> QED
  BY <1>1, <1>2, <1>5, <1>6, <1>7, <1>8, <1>9, <1>10, Zenon DEF run_wizard

\* One step of one process preserves ToolsInv.
LEMMA StepTools ==
  ASSUME ToolsInv, NEW p \in Procs,
         \/ UpdateFetch(p) \/ UpdateWrite(p) \/ Persist(p) \/ build_disk(p) \/ run_wizard(p)
  PROVE  ToolsInv'
<1> DEFINE r == proc[p]
           s == proc'[p]
           t == host.tools
<1>0. Shape /\ ToolsOf(r, t) /\ "tools" \in DOMAIN host /\ r.marks \in Seq(BOOLEAN)
  BY Zenon DEF ToolsInv, Shape, ToolsOf
<1>1. host' = host
  BY Zenon DEF UpdateFetch, UpdateWrite, Persist, build_disk, run_wizard
<1>2. SUFFICES Moves(p) /\ ToolsOf(s, t)
  BY <1>0, <1>1, ToolsMove
<1>3. ASSUME NEW ok \in BOOLEAN
      PROVE  /\ Mark(p, ok) \in Seq(BOOLEAN)
             /\ r.cmd # "setup" => Mark(p, ok) = << >>
             /\ r.cmd = "setup" => Mark(p, ok) = Append(r.marks, ok)
  <2>1. Append(r.marks, ok) \in Seq(BOOLEAN) /\ << >> \in Seq(BOOLEAN)
    BY <1>0
  <2> QED
    BY <2>1, Zenon DEF Mark
<1>4. ASSUME NEW ok \in BOOLEAN, s.marks = Mark(p, ok), s.at \in Ends, s.rel = r.rel,
             ok /\ r.cmd = "setup" => r.rel \/ Len(r.marks) = Len(HOST_TOOLS)
      PROVE  ToolsOf(s, t)
  <2>1. s.marks \in Seq(BOOLEAN) /\ s.rel \in BOOLEAN
    BY <1>0, <1>3, <1>4, Zenon DEF ToolsOf
  <2>2. ASSUME ~s.rel, NEW i \in DOMAIN s.marks \cap DOMAIN HOST_TOOLS, s.marks[i] = TRUE
        PROVE  tool_present(HOST_TOOLS[i], t)
    <3>1. CASE r.cmd # "setup"
      <4>1. DOMAIN << >> = {} /\ s.marks = << >>
        BY <1>3, <1>4, <3>1
      <4> QED
        BY <2>2, <4>1, Zenon
    <3>2. CASE r.cmd = "setup"
      <4> DEFINE k == Len(r.marks)
      <4>1. s.marks = Append(r.marks, ok) /\ k \in Nat /\ DOMAIN r.marks = 1 .. k
        BY <1>0, <1>3, <1>4, <3>2, SMTT(30)
      <4>2. /\ DOMAIN s.marks = 1 .. (k + 1) /\ s.marks[k + 1] = ok
            /\ \A j \in 1 .. k : s.marks[j] = r.marks[j]
        BY <1>0, <1>4, <4>1
      <4>3. DOMAIN HOST_TOOLS = 1 .. 6 /\ Len(HOST_TOOLS) = 6
        BY SMTT(30) DEF HOST_TOOLS
      <4> HIDE DEF k
      <4>4. i \in 1 .. k \/ i = k + 1
        BY <4>1, <4>2
      <4>5. CASE i \in 1 .. k
        <5>1. r.marks[i] = TRUE /\ i \in DOMAIN r.marks
          BY <2>2, <4>1, <4>2, <4>5, Zenon
        <5> QED
          BY <1>0, <1>4, <2>2, <5>1, Zenon DEF ToolsOf
      <4>6. CASE i = k + 1
        <5>1. ok
          BY <2>2, <4>2, <4>6, Zenon
        <5>2. k = 6
          BY <1>4, <2>2, <3>2, <4>3, <5>1 DEF k
        <5> QED
          BY <4>3, <4>6, <5>2
      <4> QED
        BY <4>4, <4>5, <4>6, Zenon
    <3> QED
      BY <3>1, <3>2
  <2> QED
    BY <1>4, <2>1, <2>2, Zenon DEF ToolsOf, Ends, Paging, Preparing, Working, Loading
<1>5. CASE UpdateFetch(p)
  <2>1. /\ Edge(p, {"fetch_disk", "fetch_sums", "verify"},
                {"fetch_sums", "verify", "truncate", "refused"})
        /\ s.marks = r.marks
    BY <1>0, <1>5, UpdateEdges
  <2> QED
    BY <1>0, <2>1, Zenon DEF Edge, ToolsOf, Ends, Paging, Preparing, Working, Loading
<1>6. CASE UpdateWrite(p)
  <2>1. /\ Edge(p, {"truncate", "fill1", "fill2", "cached", "refused"},
                {"fill1", "fill2", "cached", "refused", "ok", "err"})
        /\ s.at \in Ends => s.marks = Mark(p, r.at = "cached") /\ r.at \in {"cached", "refused"}
        /\ s.at \notin Ends => s.marks = r.marks
        /\ s.at \notin Ends => r.at \in {"truncate", "fill1", "fill2"} /\ s.disk = r.disk
    BY <1>0, <1>6, UpdateEdges, Zenon
  <2>2. CASE s.at \in Ends
    <3>1. r.at = "cached" /\ r.cmd = "setup" => r.rel
      BY <1>0, Zenon DEF ToolsOf, Loading
    <3> DEFINE ok == r.at = "cached"
    <3>2. ok \in BOOLEAN /\ (ok => r.at = "cached") /\ s.marks = Mark(p, ok)
      BY <2>1, <2>2, Zenon
    <3> HIDE DEF ok
    <3>3. ToolsOf(s, t)
      BY <1>4, <2>1, <2>2, <3>1, <3>2, SMTT(30) DEF Edge
    <3> QED
      BY <2>1, <3>3, Zenon DEF Edge
  <2>3. CASE s.at \notin Ends
    BY <1>0, <2>1, <2>3, Zenon DEF Edge, ToolsOf, Ends, Paging, Preparing, Working, Loading
  <2> QED
    BY <2>2, <2>3
<1>7. CASE Persist(p)
  <2>1. /\ Edge(p, {"persist", "save"}, {"save", "provision", "err"})
        /\ s.marks = r.marks
        /\ s.at = "provision" => s.todo = IF r.rel THEN <<"qemu">> ELSE HOST_TOOLS
    BY <1>0, <1>7, PersistEdges, Zenon
  <2>2. r.cmd = "setup" /\ r.marks = << >>
    BY <1>0, <2>1, Zenon DEF Edge, ToolsOf, Paging
  <2>3. /\ HOST_TOOLS = SubSeq(HOST_TOOLS, 1, Len(HOST_TOOLS))
        /\ Len(HOST_TOOLS) = 6 /\ Len(<< >>) = 0 /\ DOMAIN << >> = {} /\ 0 + 1 = 1 /\ 0 < 6
    <3>1. HOST_TOOLS \in Seq(Names) /\ Len(HOST_TOOLS) = 6
      BY SMTT(30) DEF HOST_TOOLS, Names
    <3> HIDE DEF HOST_TOOLS
    <3> QED
      BY <3>1
  <2>4. s.at = "provision" =>
          IF s.rel THEN s.todo = <<"qemu">>
          ELSE /\ s.cmd = "setup" /\ Len(s.marks) < Len(HOST_TOOLS)
               /\ s.todo = SubSeq(HOST_TOOLS, Len(s.marks) + 1, Len(HOST_TOOLS))
               /\ \A i \in DOMAIN s.marks : s.marks[i] = TRUE
    BY <2>1, <2>2, <2>3, SMTT(30) DEF Edge
  <2> QED
    BY <1>0, <2>1, <2>2, <2>4, Zenon DEF Edge, ToolsOf, Paging, Preparing, Working, Loading
<1>8. CASE build_disk(p)
  <2>1. /\ Edge(p, Working \cup {"build_failed"},
                (Working \ {"build_kernel"}) \cup {"build_failed", "ok", "err"})
        /\ s.at \in Ends =>
             /\ r.at \in {"built", "build_failed"}
             /\ \E ok \in BOOLEAN : (ok => At(p, "built")) /\ s.marks = Mark(p, ok)
        /\ s.at \notin Ends => r.at \in Working /\ s.marks = r.marks
    BY <1>0, <1>8, BuildEdges, Zenon
  <2>2. CASE s.at \in Ends
    <3>1. PICK ok \in BOOLEAN : (ok => At(p, "built")) /\ s.marks = Mark(p, ok)
      BY <2>1, <2>2, Zenon
    <3>2. ok /\ r.cmd = "setup" => Len(r.marks) = Len(HOST_TOOLS)
      BY <1>0, <3>1, Zenon DEF ToolsOf, At, Working
    <3>3. ToolsOf(s, t)
      BY <1>4, <2>1, <2>2, <3>1, <3>2 DEF Edge
    <3> QED
      BY <2>1, <3>3 DEF Edge
  <2>3. CASE s.at \notin Ends
    BY <1>0, <2>1, <2>3, Zenon DEF Edge, ToolsOf, Ends, Paging, Preparing, Working, Loading
  <2> QED
    BY <2>2, <2>3
<1>9. CASE run_wizard(p)
  <2>1. /\ Moves(p) /\ s.cmd = r.cmd /\ s.rel = r.rel /\ s.marks = r.marks
        /\ r.at \in {"welcome", "page1", "page2"}
        /\ s.at \in {"page1", "page2", "persist", "ok"}
    BY <1>0, <1>9, WizardEdges
  <2> QED
    BY <1>0, <2>1, Zenon DEF ToolsOf, Paging, Preparing, Working, Loading
<1> QED
  BY <1>5, <1>6, <1>7, <1>8, <1>9

\* Every reachable state satisfies the invariant on tools.
LEMMA ToolsInductive == Spec => []ToolsInv
<1>1. Init => ToolsInv
  <2> SUFFICES ASSUME Init PROVE ToolsInv
    OBVIOUS
  <2>1. Fresh(NoProc) /\ DOMAIN NoProc = Fields
    BY StartFacts DEF Starts
  <2>2. proc = [p \in Procs |-> NoProc] /\ "tools" \in DOMAIN host
    BY InstallAssumption DEF Init, InstallInit
  <2> HIDE DEF NoProc
  <2> QED
    BY <2>1, <2>2, FreshTools DEF ToolsInv, Shape
<1>2. ToolsInv /\ [Next]_vars => ToolsInv'
  <2> SUFFICES ASSUME ToolsInv, [Next]_vars PROVE ToolsInv'
    OBVIOUS
  <2>1. ASSUME host' = host, proc' = proc PROVE ToolsInv'
    BY <2>1 DEF ToolsInv, Shape
  <2>2. ASSUME NEW p \in Procs, NEW q \in Procs, main(p) \/ Kill(p) \/ run_detached(p, q)
        PROVE  ToolsInv'
    <3>1. host' = host
      BY <2>2, Zenon DEF main, Kill, run_detached
    <3>2. Restarts
      BY <2>2, RestartFacts DEF ToolsInv
    <3>3. ASSUME NEW x \in Procs PROVE ToolsOf(proc'[x], host.tools)
      BY <3>2, FreshTools DEF ToolsInv, Restarts
    <3> QED
      BY <3>1, <3>2, <3>3 DEF ToolsInv, Shape, Restarts
  <2>3. ASSUME NEW p \in Procs, InstallStep(p) \/ run_wizard(p) PROVE ToolsInv'
    BY <2>3, ProvisionTools, PrepareTools, StepTools DEF InstallStep
  <2>4. CASE Publish \/ Clean \/ UNCHANGED vars
    <3>1. host' = host /\ proc' = proc
      BY <2>4 DEF Publish, Clean, vars, installVars
    <3> QED
      BY <2>1, <3>1
  <2> QED
    BY <2>2, <2>3, <2>4 DEF Next
<1> QED
  BY <1>1, <1>2, PTL DEF Spec

\* What page 3 ticks is on PATH, setup builds only when every tool is ticked, and
\* nothing is built or downloaded on a host without QEMU: for every host, whatever
\* its package managers answer and whatever the other processes do.
THEOREM ToolsFirst == Spec => []ToolsBeforeBuild
<1>1. ToolsInv => ToolsBeforeBuild
  <2> SUFFICES ASSUME ToolsInv, NEW p \in Procs
               PROVE  LET m       == proc[p].marks
                          working == proc[p].at \in Working
                          loading == proc[p].at \in Loading
                      IN  /\ \A i \in DOMAIN m \cap DOMAIN HOST_TOOLS :
                                (m[i] /\ ~proc[p].rel) => tool_present(HOST_TOOLS[i], host.tools)
                          /\ (working /\ proc[p].cmd = "setup") => Len(m) = Len(HOST_TOOLS)
                          /\ (working \/ (loading /\ proc[p].cmd # "update")) => find_qemu
    BY DEF ToolsBeforeBuild, Working, Loading
  <2>1. ToolsOf(proc[p], host.tools)
    BY DEF ToolsInv
  <2> DEFINE m == proc[p].marks
  <2>2. ASSUME NEW i \in DOMAIN m PROVE m[i] => m[i] = TRUE
    <3>1. m \in Seq(BOOLEAN)
      BY <2>1 DEF ToolsOf
    <3>2. m[i] \in BOOLEAN
      BY <3>1
    <3> QED
      BY <3>2, Zenon
  <2>3. \A i \in DOMAIN m \cap DOMAIN HOST_TOOLS :
           (m[i] /\ ~proc[p].rel) => tool_present(HOST_TOOLS[i], host.tools)
    BY <2>1, <2>2, Zenon DEF ToolsOf
  <2> QED
    BY <2>1, <2>3, Zenon DEF ToolsOf, find_qemu, which
<1> QED
  BY <1>1, ToolsInductive, PTL

-----------------------------------------------------------------------------
(* Cache *)

\* A step that provisions or prepares tools leads to another such step, to the
\* work, or to the end, and keeps the rest of the record.
LEMMA ToolEdges ==
  ASSUME Shape, NEW p \in Procs,
         provision_one(p) \/ ensure_qemu(p) \/ ensure_build_tools(p) \/ ensure_rust(p)
  PROVE  /\ Edge(p, Preparing \cup {"provision"},
                 (Preparing \ {"qemu"}) \cup {"provision", "build_kernel", "fetch_disk", "ok", "err"})
         /\ proc'[p].disk = proc[p].disk
<1> DEFINE From == Preparing \cup {"provision"}
           To == (Preparing \ {"qemu"}) \cup {"provision", "build_kernel", "fetch_disk", "ok", "err"}
<1> SUFFICES Edge(p, From, To) /\ proc'[p].disk = proc[p].disk
  BY Zenon
<1>1. ASSUME NEW label \in To, NEW change, DOMAIN change \subseteq Changeable \ {"disk"},
             proc[p].at \in From, Leave(p, label, change)
      PROVE  Edge(p, From, To) /\ proc'[p].disk = proc[p].disk
  <2>1. Moves(p) /\ Left(p, label, change) /\ "disk" \notin DOMAIN change
    BY <1>1, LeaveFacts, Zenon
  <2> HIDE DEF From, To
  <2> QED
    BY <1>1, <2>1, Zenon DEF Left, Edge
<1>2. ASSUME NEW label \in To, proc[p].at \in From, Goto(p, label)
      PROVE  Edge(p, From, To) /\ proc'[p].disk = proc[p].disk
  <2> HIDE DEF From, To
  <2> QED
    BY <1>2, GotoEdge
<1>3. AfterTools(p) \in {"ok", "err", "fetch_disk", "build_kernel"}
  BY DEF AfterTools
<1>4. AfterTools(p) \in To
  BY <1>3, Zenon
<1>5. CASE provision_one(p)
  <2>1. PICK ok : Provisioned(p, ok)
    BY <1>5, Zenon DEF provision_one
  <2> DEFINE rest == Tail(proc[p].todo)
             next == IF ~ok THEN "err" ELSE IF rest = << >> THEN AfterTools(p) ELSE "provision"
             change == [todo |-> IF ok THEN rest ELSE << >>, marks |-> Mark(p, ok)]
  <2>2. Leave(p, next, change) /\ DOMAIN change \subseteq Changeable \ {"disk"}
    BY <2>1, Zenon DEF Provisioned, Changeable
  <2>3. next \in To /\ proc[p].at \in From
    BY <1>4, <1>5, SMTT(30) DEF provision_one, At
  <2> HIDE DEF From, To, next, change
  <2> QED
    BY <1>1, <2>2, <2>3
<1>6. CASE ensure_qemu(p)
  <2>1. PICK label \in {"tools", "err"} : Goto(p, label)
    BY <1>6 DEF ensure_qemu
  <2>2. label \in To /\ proc[p].at \in From
    BY <1>6, Zenon DEF ensure_qemu, At, Preparing
  <2> HIDE DEF From, To
  <2> QED
    BY <1>2, <2>1, <2>2
<1>7. CASE ensure_build_tools(p)
  <2>1. PICK ok : BuildTool(p, ok)
    BY <1>7, Zenon DEF ensure_build_tools
  <2> DEFINE rest == Tail(proc[p].todo)
             label == IF rest = << >> THEN "rustup" ELSE "tools"
             change == [todo |-> rest, missing |-> proc[p].missing \/ ~ok]
  <2>2. Goto(p, "err") \/ Leave(p, label, change)
    BY <2>1, Zenon DEF BuildTool
  <2>3. label \in To /\ "err" \in To /\ proc[p].at \in From
    BY <1>7 DEF ensure_build_tools, At, Preparing
  <2>4. DOMAIN change \subseteq Changeable \ {"disk"}
    BY Zenon DEF Changeable
  <2> HIDE DEF From, To, label, change
  <2> QED
    BY <1>1, <1>2, <2>2, <2>3, <2>4, SMTT(30)
<1>8. CASE ensure_rust(p)
  <2>1. PICK label \in {"toolchain", "err", AfterTools(p)} : Goto(p, label)
    BY <1>8 DEF ensure_rust
  <2>2. label \in To
    BY <1>4 DEF Preparing
  <2>3. proc[p].at \in From
    BY <1>8, Zenon DEF ensure_rust, At, Preparing
  <2> HIDE DEF From, To
  <2> QED
    BY <1>2, <2>1, <2>2, <2>3
<1> QED
  BY <1>5, <1>6, <1>7, <1>8, Zenon

Writing == {"truncate", "fill1", "fill2", "cached"}

\* Every other step of a process does not touch what an update knows.
LEMMA Quiet ==
  ASSUME Shape, NEW p \in Procs,
         \/ provision_one(p) \/ ensure_qemu(p) \/ ensure_build_tools(p) \/ ensure_rust(p)
         \/ build_disk(p) \/ Persist(p) \/ run_wizard(p)
  PROVE  /\ Moves(p) /\ release' = release /\ cache' = cache
         /\ proc'[p].disk = proc[p].disk
         /\ proc[p].at \notin Writing \cup {"fetch_sums", "verify", "refused", "ok"}
         /\ proc'[p].at \notin Writing \cup {"fetch_sums", "verify"}
<1>1. release' = release /\ cache' = cache
  BY Zenon DEF provision_one, ensure_qemu, ensure_build_tools, ensure_rust, build_disk, Persist,
         run_wizard, Files
<1>2. CASE provision_one(p) \/ ensure_qemu(p) \/ ensure_build_tools(p) \/ ensure_rust(p)
  BY <1>1, <1>2, ToolEdges DEF Edge, Preparing, Writing
<1>3. CASE build_disk(p)
  BY <1>1, <1>3, BuildEdges, Zenon DEF Edge, Working, Writing
<1>4. CASE Persist(p)
  BY <1>1, <1>4, PersistEdges DEF Edge, Writing
<1>5. CASE run_wizard(p)
  BY <1>1, <1>5, WizardEdges, Zenon DEF Writing
<1> QED
  BY <1>2, <1>3, <1>4, <1>5

\* What the comparison accepts, checksums.txt vouches for.
LEMMA VerifyFacts ==
  ASSUME NEW disk, NEW sums, sums = << >> \/ Vouched(sums), verify(disk, sums, DISK_NAME)
  PROVE  sha256_hex(disk) \in release.vouched
<1> DEFINE I == {i \in 1 .. Len(sums) : sums[i].file = DISK_NAME}
<1>1. I # {} /\ sums[Min(I)].hash = sha256_hex(disk)
  BY DEF verify, Position
<1>2. sums # << >>
  BY <1>1
<1>3. PICK d : sums = Checksums(d) /\ sha256_hex(d) \in release.vouched
  BY <1>2 DEF Vouched
<1>4. /\ Len(sums) = 2 /\ sums[1].file = "qemu-slim" /\ sums[2].file = DISK_NAME
      /\ sums[2].hash = sha256_hex(d)
  BY <1>3 DEF Checksums
<1>5. I = {2}
  BY <1>4 DEF DISK_NAME
<1>6. Min(I) = 2
  BY <1>5 DEF Min
<1> QED
  BY <1>1, <1>3, <1>4, <1>6

\* A step of p keeps CacheInv when it keeps what is said of the files, of p, and
\* of the last writer.
LEMMA CacheMove ==
  ASSUME CacheInv, NEW p \in Procs, Moves(p), host' = host \/ "tools" \in DOMAIN host',
         release' = release,
         DOMAIN cache' = {"data", "by", "alone"}, DOMAIN cache'.data = Halves,
         \A h \in Halves : cache'.data[h] # None => sha256_hex(cache'.data[h]) \in release.vouched,
         DiskOf(proc'[p]),
         \A q \in Procs : cache'.by = q /\ cache'.alone => Alone(q)'
  PROVE  CacheInv'
<1>1. ASSUME NEW q \in Procs PROVE DOMAIN proc'[q] = Fields /\ DiskOf(proc[q])'
  <2>1. DOMAIN proc'[q] = Fields /\ DiskOf(proc'[q])
    <3>1. CASE q = p
      BY <3>1 DEF Moves
    <3>2. CASE q # p
      BY <3>2, Zenon DEF Moves, CacheInv, Shape
    <3> QED
      BY <3>1, <3>2, SMTT(30)
  <2> QED
    BY <2>1 DEF DiskOf, Vouched
<1>2. Shape'
  BY <1>1, Zenon DEF Shape, Moves, CacheInv
<1>3. Vouched(release.sums)'
  BY Zenon DEF CacheInv, Vouched
<1>4. (\A q \in Procs : DiskOf(proc[q]))'
  BY <1>1
<1> QED
  BY <1>2, <1>3, <1>4, Zenon DEF CacheInv

\* The steps that touch neither the cache nor the update record keep CacheInv.
LEMMA QuietCache ==
  ASSUME CacheInv, NEW p \in Procs, "tools" \in DOMAIN host',
         \/ provision_one(p) \/ ensure_qemu(p) \/ ensure_build_tools(p) \/ ensure_rust(p)
         \/ build_disk(p) \/ Persist(p) \/ run_wizard(p)
  PROVE  CacheInv'
<1> DEFINE r == proc[p]
           s == proc'[p]
<1>1. /\ Moves(p) /\ release' = release /\ cache' = cache /\ s.disk = r.disk
      /\ r.at \notin Writing \cup {"fetch_sums", "verify", "refused", "ok"}
      /\ s.at \notin Writing \cup {"fetch_sums", "verify"}
  BY Quiet, Zenon DEF CacheInv
<1>2. s.disk = None
  BY <1>1, Zenon DEF CacheInv, DiskOf, Writing
<1>3. DiskOf(s)
  BY <1>1, <1>2, Zenon DEF DiskOf, Writing
<1>4. ASSUME NEW q \in Procs, cache'.by = q /\ cache'.alone PROVE Alone(q)'
  <2>1. Alone(q)
    BY <1>1, <1>4, Zenon DEF CacheInv
  <2>2. \A x \in Procs \ {q} : proc'[x].at \notin {"fill1", "fill2"}
    BY <1>1, <2>1, Zenon DEF Alone, Moves, Writing
  <2>3. CASE q = p
    BY <1>1, <1>2, <2>2, <2>3 DEF Alone, Writing
  <2>4. CASE q # p
    BY <1>1, <2>1, <2>2, <2>4, Zenon DEF Alone, Moves
  <2> QED
    BY <2>3, <2>4
<1> QED
  BY <1>1, <1>3, <1>4, CacheMove, Zenon DEF CacheInv

\* A fetch keeps CacheInv: what passes the digest check is the file the
\* manifest of the same fetch vouches for.
LEMMA FetchCache ==
  ASSUME CacheInv, NEW p \in Procs, UpdateFetch(p)
  PROVE  CacheInv'
<1> DEFINE r == proc[p]
           s == proc'[p]
<1>0. Shape /\ DiskOf(r)
  BY DEF CacheInv
<1>1. host' = host /\ release' = release /\ cache' = cache
  BY Zenon DEF UpdateFetch, Files
<1>2. Moves(p) /\ s.at \notin {"fill1", "fill2", "cached", "ok"}
  BY <1>0, UpdateEdges DEF Edge
<1>3. DiskOf(s)
  <2>1. CASE At(p, "fetch_disk") /\ \E body : Leave(p, "fetch_sums", [disk |-> body])
    <3>1. s.at = "fetch_sums"
      <4>1. PICK body : Leave(p, "fetch_sums", [disk |-> body])
        BY <2>1, Zenon
      <4> DEFINE change == [disk |-> body]
      <4>2. DOMAIN change \subseteq Changeable /\ Leave(p, "fetch_sums", change)
        BY <4>1, Zenon DEF Changeable
      <4> HIDE DEF change
      <4> QED
        BY <1>0, <4>2, LeaveFacts DEF Left
    <3> QED
      BY <3>1, Zenon DEF DiskOf
  <2>2. CASE /\ At(p, "fetch_sums")
             /\ \E body \in fetch_bytes(release.sums, << >>) : Leave(p, "verify", [sums |-> body])
    <3>1. PICK body \in {release.sums, << >>} : Leave(p, "verify", [sums |-> body])
      BY <2>2 DEF fetch_bytes
    <3> DEFINE change == [sums |-> body]
    <3>2. /\ DOMAIN change \subseteq Changeable /\ Leave(p, "verify", change)
          /\ "sums" \in DOMAIN change /\ change["sums"] = body
      BY <3>1, Zenon DEF Changeable
    <3> HIDE DEF change
    <3>3. s.at = "verify" /\ s.sums = body
      BY <1>0, <3>2, LeaveFacts, SMTT(30) DEF Left
    <3> QED
      BY <3>1, <3>3, Zenon DEF DiskOf, CacheInv
  <2>3. CASE (At(p, "fetch_disk") \/ At(p, "fetch_sums")) /\ Goto(p, "refused")
    BY <1>0, <2>3, GotoFacts DEF DiskOf
  <2>4. CASE /\ At(p, "verify")
             /\ Leave(p, IF verify(r.disk, r.sums, DISK_NAME) THEN "truncate" ELSE "refused",
                      [sums |-> << >>])
    <3> DEFINE label == IF verify(r.disk, r.sums, DISK_NAME) THEN "truncate" ELSE "refused"
               change == [sums |-> << >>]
    <3>1. DOMAIN change = {"sums"} /\ Leave(p, label, change)
      BY <2>4
    <3>2. label \in {"truncate", "refused"}
      BY Zenon
    <3>3. label = "truncate" => sha256_hex(r.disk) \in release.vouched
      BY <1>0, <2>4, VerifyFacts, Zenon DEF DiskOf, At
    <3> HIDE DEF label, change
    <3>4. s.at = label /\ s.disk = r.disk
      BY <1>0, <3>1, LeaveFacts DEF Left, Changeable
    <3> QED
      BY <3>2, <3>3, <3>4, Zenon DEF DiskOf
  <2> QED
    BY <2>1, <2>2, <2>3, <2>4, Zenon DEF UpdateFetch
<1>4. ASSUME NEW q \in Procs, cache'.by = q /\ cache'.alone PROVE Alone(q)'
  <2>1. Alone(q)
    BY <1>1, <1>4 DEF CacheInv
  <2>2. \A x \in Procs \ {q} : proc'[x].at \notin {"fill1", "fill2"}
    BY <1>2, <2>1 DEF Alone, Moves
  <2>3. CASE q = p
    BY <1>2, <2>2, <2>3, Zenon DEF Alone
  <2>4. CASE q # p
    BY <1>1, <1>2, <2>1, <2>2, <2>4, Zenon DEF Alone, Moves
  <2> QED
    BY <2>3, <2>4, Zenon
<1> QED
  BY <1>1, <1>2, <1>3, <1>4, CacheMove, Zenon DEF CacheInv

\* Writing a fetched file keeps CacheInv.
LEMMA WriteCache ==
  ASSUME CacheInv, NEW p \in Procs, UpdateWrite(p)
  PROVE  CacheInv'
<1> DEFINE r == proc[p]
           s == proc'[p]
<1>0. /\ Shape /\ DiskOf(r) /\ DOMAIN cache = {"data", "by", "alone"} /\ DOMAIN cache.data = Halves
      /\ \A h \in Halves : cache.data[h] # None => sha256_hex(cache.data[h]) \in release.vouched
  BY DEF CacheInv
<1>1. host' = host /\ release' = release
  BY Zenon DEF UpdateWrite
<1>2. CASE At(p, "truncate") /\ Goto(p, "fill1")
           /\ Truncate(p, {q \in Procs \ {p} : proc[q].at \in {"fill1", "fill2"}})
  <2>1. Moves(p) /\ s.at = "fill1" /\ s.disk = r.disk
    BY <1>0, <1>2, GotoFacts
  <2>2. /\ DOMAIN cache' = {"data", "by", "alone"} /\ DOMAIN cache'.data = Halves
        /\ \A h \in Halves : cache'.data[h] = None
        /\ cache'.by = p
        /\ cache'.alone => \A q \in Procs \ {p} : proc[q].at \notin {"fill1", "fill2"}
    BY <1>2, Zenon DEF Truncate, NoFile
  <2>3. DiskOf(s)
    BY <1>0, <1>2, <2>1 DEF DiskOf, At
  <2>4. ASSUME NEW q \in Procs, cache'.by = q /\ cache'.alone PROVE Alone(q)'
    BY <2>1, <2>2, <2>4, Zenon DEF Alone, Moves
  <2> QED
    BY <1>1, <2>1, <2>2, <2>3, <2>4, CacheMove, Zenon
<1>3. ASSUME NEW h \in Halves, NEW label \in {"fill2", "cached"},
             IF h = 1 THEN r.at = "fill1" /\ label = "fill2" ELSE r.at = "fill2" /\ label = "cached",
             Fill(h, r.disk), Goto(p, label)
      PROVE  CacheInv'
  <2>1. Moves(p) /\ s.at = label /\ s.disk = r.disk
    BY <1>0, <1>3, GotoFacts
  <2>2. /\ DOMAIN cache' = {"data", "by", "alone"} /\ DOMAIN cache'.data = Halves
        /\ cache'.by = cache.by /\ cache'.alone = cache.alone
        /\ cache'.data[h] = r.disk /\ \A g \in Halves \ {h} : cache'.data[g] = cache.data[g]
    BY <1>0, <1>3, Zenon DEF Fill
  <2>3. DiskOf(s) /\ sha256_hex(r.disk) \in release.vouched
    BY <1>0, <1>3, <2>1, Zenon DEF DiskOf
  <2>4. \A g \in Halves : cache'.data[g] # None => sha256_hex(cache'.data[g]) \in release.vouched
    BY <1>0, <2>2, <2>3
  <2>5. ASSUME NEW q \in Procs, cache'.by = q /\ cache'.alone PROVE Alone(q)'
    <3>1. Alone(q)
      BY <2>2, <2>5 DEF CacheInv
    <3>2. q = p
      BY <1>3, <3>1 DEF Alone
    <3>3. \A x \in Procs \ {q} : proc'[x].at \notin {"fill1", "fill2"}
      BY <2>1, <3>1, <3>2, Zenon DEF Alone, Moves
    <3>4. CASE h = 1
      BY <1>3, <2>1, <2>2, <3>2, <3>3, <3>4, Zenon DEF Alone
    <3>5. CASE h # 1
      <4>1. h = 2 /\ 1 \in Halves \ {2} /\ Halves = {1, 2}
        BY <3>5, Zenon DEF Halves
      <4>2. cache'.data[1] = r.disk /\ cache'.data[2] = r.disk
        BY <1>3, <2>2, <3>1, <3>2, <3>5, <4>1, Zenon DEF Alone
      <4> QED
        BY <1>3, <2>1, <3>2, <3>3, <4>1, <4>2 DEF Alone
    <3> QED
      BY <3>4, <3>5, Zenon
  <2> QED
    BY <1>1, <2>1, <2>2, <2>3, <2>4, <2>5, CacheMove, Zenon
<1>4. ASSUME cache' = cache, Moves(p), DiskOf(s),
             s.at \notin {"fill1", "fill2"},
             s.at \in {"cached", "ok"} /\ s.disk # None => r.at = "cached" /\ s.disk = r.disk
      PROVE  CacheInv'
  <2>1. ASSUME NEW q \in Procs, cache'.by = q /\ cache'.alone PROVE Alone(q)'
    <3>1. Alone(q)
      BY <1>4, <2>1 DEF CacheInv
    <3>2. \A x \in Procs \ {q} : proc'[x].at \notin {"fill1", "fill2"}
      BY <1>4, <3>1, Zenon DEF Alone, Moves
    <3>3. CASE q = p
      BY <1>4, <3>1, <3>2, <3>3, Zenon DEF Alone
    <3>4. CASE q # p
      BY <1>4, <3>1, <3>2, <3>4, Zenon DEF Alone, Moves
    <3> QED
      BY <3>3, <3>4, Zenon
  <2> QED
    BY <1>0, <1>1, <1>4, <2>1, CacheMove, SMTT(30)
<1>5. CASE r.at \in {"truncate", "fill1", "fill2"} /\ Goto(p, "refused") /\ UNCHANGED cache
  <2>1. Moves(p) /\ s.at = "refused"
    BY <1>0, <1>5, GotoFacts
  <2>2. DiskOf(s)
    BY <2>1, Zenon DEF DiskOf
  <2> QED
    BY <1>4, <1>5, <2>1, <2>2, Zenon
<1>6. CASE /\ r.at \in {"cached", "refused"} /\ UNCHANGED cache
           /\ LET ok == At(p, "cached")
              IN  Leave(p, Result(ok), [marks |-> Mark(p, ok),
                                        disk |-> IF ok THEN r.disk ELSE None])
  <2> DEFINE ok == At(p, "cached")
             label == Result(ok)
             change == [marks |-> Mark(p, ok), disk |-> IF ok THEN r.disk ELSE None]
  <2>1. /\ Leave(p, label, change) /\ DOMAIN change = {"marks", "disk"}
        /\ change["disk"] = IF ok THEN r.disk ELSE None
    BY <1>6
  <2>2. label = IF ok THEN "ok" ELSE "err"
    BY DEF Result
  <2> HIDE DEF label, change
  <2>3. Moves(p) /\ s.at = label /\ s.disk = IF ok THEN r.disk ELSE None
    BY <1>0, <2>1, LeaveFacts, Zenon DEF Left, Changeable
  <2>4. DiskOf(s)
    BY <2>2, <2>3, Zenon DEF DiskOf
  <2> QED
    BY <1>4, <1>6, <2>2, <2>3, <2>4, Zenon DEF At
<1>7. CASE At(p, "fill1") /\ Fill(1, r.disk) /\ Goto(p, "fill2")
  BY <1>3, <1>7, Zenon DEF At, Halves
<1>8. CASE At(p, "fill2") /\ Fill(2, r.disk) /\ Goto(p, "cached")
  BY <1>3, <1>8 DEF At, Halves
<1> QED
  BY <1>2, <1>5, <1>6, <1>7, <1>8, Zenon DEF UpdateWrite

\* Every reachable state satisfies the invariant on the cache.
LEMMA CacheInductive == Spec => []CacheInv
<1>1. Init => CacheInv
  <2> SUFFICES ASSUME Init PROVE CacheInv
    OBVIOUS
  <2>1. Fresh(NoProc) /\ DOMAIN NoProc = Fields
    BY StartFacts DEF Starts
  <2>2. /\ proc = [p \in Procs |-> NoProc] /\ "tools" \in DOMAIN host
    BY InstallAssumption DEF Init, InstallInit
  <2>3. PICK d \in Disks :
          /\ release = [disk |-> d, sums |-> Checksums(d), vouched |-> {sha256_hex(d)}]
          /\ cache = [data |-> NoFile, by |-> None, alone |-> TRUE]
    BY Zenon DEF Init, InstallInit, UpdateInit
  <2>4. DOMAIN release = {"disk", "sums", "vouched"} /\ Vouched(release.sums)
    BY <2>3, Zenon DEF Vouched
  <2>5. /\ DOMAIN cache = {"data", "by", "alone"} /\ DOMAIN cache.data = Halves
        /\ \A h \in Halves : cache.data[h] = None
    BY <2>3, Zenon DEF NoFile
  <2>6. NoProc.at = "idle" /\ NoProc.disk = None
    BY DEF NoProc
  <2> HIDE DEF NoProc
  <2>7. Shape /\ \A p \in Procs : proc[p].at = "idle" /\ proc[p].disk = None
    BY <2>1, <2>2, <2>6, Zenon DEF Shape
  <2>8. \A p \in Procs : DiskOf(proc[p]) /\ Alone(p)
    BY <2>7 DEF DiskOf, Alone
  <2> QED
    BY <2>4, <2>5, <2>7, <2>8, Zenon DEF CacheInv
<1>2. ToolsInv' /\ CacheInv /\ [Next]_vars => CacheInv'
  <2> SUFFICES ASSUME ToolsInv', CacheInv, [Next]_vars PROVE CacheInv'
    OBVIOUS
  <2>0. Shape'
    BY Zenon DEF ToolsInv
  <2>1. ASSUME NEW p \in Procs, NEW q \in Procs, main(p) \/ Kill(p) \/ run_detached(p, q)
        PROVE  CacheInv'
    <3>1. release' = release /\ cache' = cache
      BY <2>1, Zenon DEF main, Kill, run_detached, Files
    <3>2. Restarts
      BY <2>1, RestartFacts, Zenon DEF CacheInv
    <3>3. ASSUME NEW x \in Procs PROVE DiskOf(proc[x])'
      <4>1. DiskOf(proc'[x])
        <5> DEFINE a == proc'[x]
        <5>1. DiskOf(proc[x]) /\ (a = proc[x] \/ Fresh(a))
          BY <3>2, Zenon DEF CacheInv, Restarts
        <5> HIDE DEF a
        <5>2. Fresh(a) => DiskOf(a)
          BY DEF Fresh, DiskOf
        <5> QED
          BY <5>1, <5>2, Zenon DEF a
      <4> QED
        BY <3>1, <4>1 DEF DiskOf, Vouched
    <3>4. ASSUME NEW x \in Procs, cache'.by = x /\ cache'.alone PROVE Alone(x)'
      <4>1. Alone(x)
        BY <3>1, <3>4, Zenon DEF CacheInv
      <4>2. \A y \in Procs \ {x} : proc'[y].at \notin {"fill1", "fill2"}
        BY <3>2, <4>1, Zenon DEF Alone, Restarts, Fresh
      <4> QED
        BY <3>1, <3>2, <4>1, <4>2, Zenon DEF Alone, Restarts, Fresh
    <3>5. Vouched(release.sums)'
      BY <3>1, Zenon DEF CacheInv, Vouched
    <3> QED
      BY <2>0, <3>1, <3>3, <3>4, <3>5 DEF CacheInv
  <2>2. ASSUME NEW p \in Procs, InstallStep(p) \/ run_wizard(p) PROVE CacheInv'
    <3>1. "tools" \in DOMAIN host'
      BY <2>0, Zenon DEF Shape
    <3> QED
      BY <2>2, <3>1, QuietCache, FetchCache, WriteCache DEF InstallStep
  <2>3. ASSUME proc' = proc, cache' = cache, Vouched(release.sums)',
               DOMAIN release' = {"disk", "sums", "vouched"}, release.vouched \subseteq release'.vouched
        PROVE  CacheInv'
    <3>1. \A q \in Procs : DiskOf(proc[q])'
      BY <2>3 DEF CacheInv, DiskOf, Vouched
    <3>2. \A q \in Procs : cache'.by = q /\ cache'.alone => Alone(q)'
      BY <2>3, Zenon DEF CacheInv, Alone
    <3> QED
      BY <2>0, <2>3, <3>1, <3>2, Zenon DEF CacheInv
  <2>4. CASE Publish
    <3>1. proc' = proc /\ cache' = cache
      BY <2>4 DEF Publish, PublishDisk, PublishSums
    <3>2. CASE PublishDisk
      <4>1. PICK d : release' = [release EXCEPT !.disk = d]
        BY <3>2, Zenon DEF PublishDisk
      <4>2. /\ DOMAIN release' = {"disk", "sums", "vouched"} /\ release'.vouched = release.vouched
            /\ release'.sums = release.sums
        BY <4>1 DEF CacheInv
      <4>3. Vouched(release.sums)'
        BY <4>2 DEF CacheInv, Vouched
      <4> QED
        BY <2>3, <3>1, <4>2, <4>3
    <3>3. CASE PublishSums
      <4> DEFINE d == release.disk
      <4>1. release' = [release EXCEPT !.sums = Checksums(d), !.vouched = @ \cup {sha256_hex(d)}]
        BY <3>3 DEF PublishSums
      <4>2. /\ DOMAIN release' = {"disk", "sums", "vouched"}
            /\ release'.vouched = release.vouched \cup {sha256_hex(d)}
            /\ release'.sums = Checksums(d)
        BY <4>1 DEF CacheInv
      <4>3. Vouched(release.sums)'
        BY <4>2 DEF Vouched
      <4> QED
        BY <2>3, <3>1, <4>2, <4>3
    <3> QED
      BY <2>4, <3>2, <3>3 DEF Publish
  <2>5. CASE Clean \/ UNCHANGED vars
    <3>1. proc' = proc /\ cache' = cache /\ release' = release
      BY <2>5 DEF Clean, vars, installVars
    <3>2. Vouched(release.sums)' /\ DOMAIN release' = {"disk", "sums", "vouched"}
      BY <3>1, Zenon DEF CacheInv, Vouched
    <3> QED
      BY <2>3, <3>1, <3>2, SMTT(30)
  <2> QED
    BY <2>1, <2>2, <2>4, <2>5 DEF Next
<1> QED
  BY <1>1, <1>2, ToolsInductive, PTL DEF Spec

\* Only bytes of a disk that checksums.txt has vouched for reach the cache, and an
\* update that no writer overlapped leaves the disk it verified, for any number of
\* processes, releases and kills.
THEOREM CacheIsVerified == Spec => []CacheVerified
<1>1. CacheInv => CacheVerified
  BY Zenon DEF CacheInv, CacheVerified, Alone
<1> QED
  BY <1>1, CacheInductive, PTL

-----------------------------------------------------------------------------
(* Build: the texts of a selection *)

JoinStep(s, sep, T) ==
  [q \in T \X (1 .. Len(s)) |-> IF q[1] = << >> THEN <<s[q[2]]>> ELSE q[1] \o <<sep, s[q[2]]>>]

\* Join is a run.
LEMMA JoinRun ==
  ASSUME NEW E, NEW s \in Seq(E), NEW sep \in E
  PROVE  \E r : /\ RunOf(r, JoinStep(s, sep, Seq(E)), << >>, Seq(E), Len(s))
                /\ Join(s, sep) = r[Len(s)]
<1> DEFINE n == Len(s)
           T == Seq(E)
           g == JoinStep(s, sep, T)
           o(a, i) == IF a = << >> THEN <<s[i]>> ELSE a \o <<sep, s[i]>>
           eq(it) == it = [u \in SUBSET DOMAIN s |->
                             IF u = {} THEN << >> ELSE o(it[u \ {Max(u)}], Max(u))]
           c == CHOOSE it : eq(it)
<1>1. Join(s, sep) = c[DOMAIN s]
  BY Zenon DEF Join, FoldList, MapThenFoldSet
<1>2. n \in Nat /\ DOMAIN s = 1 .. n
  OBVIOUS
<1>3. \A a \in T : \A i \in 1 .. n : g[<<a, i>>] = o(a, i) /\ o(a, i) \in T
  <2> SUFFICES ASSUME NEW a \in T, NEW i \in 1 .. n PROVE g[<<a, i>>] = o(a, i) /\ o(a, i) \in T
    BY Zenon
  <2>1. s[i] \in E
    OBVIOUS
  <2>2. <<s[i]>> \in T /\ <<sep, s[i]>> \in T
    BY <2>1
  <2>3. a \o <<sep, s[i]>> \in T
    BY <2>2
  <2>4. g[<<a, i>>] = o(a, i)
    BY Zenon DEF JoinStep
  <2> QED
    BY <2>2, <2>3, <2>4, SMTT(30)
<1>4. FoldStep(g, << >>, T, n)
  <2>1. g \in [T \X (1 .. n) -> T]
    BY DEF JoinStep
  <2> HIDE DEF g
  <2> QED
    BY <1>2, <2>1 DEF FoldStep
<1> HIDE DEF g, o
<1>5. \E it : eq(it)
  <2>1. PICK it \in [SUBSET (1 .. n) -> T] : Folds1(it, g, << >>, n)
    <3> HIDE DEF T, n
    <3> QED
      BY <1>4, FoldExists, Zenon
  <2>2. ASSUME NEW u \in SUBSET (1 .. n)
        PROVE  it[u] = IF u = {} THEN << >> ELSE o(it[u \ {Max(u)}], Max(u))
    <3>1. CASE u = {}
      BY <2>1, <3>1, Zenon DEF Folds1
    <3>2. CASE u # {}
      <4>1. Max(u) \in 1 .. n /\ u \ {Max(u)} \in SUBSET (1 .. n)
        BY <1>2, <3>2, MaxOf, Zenon
      <4>2. it[u] = g[<<it[u \ {Max(u)}], Max(u)>>] /\ it[u \ {Max(u)}] \in T
        BY <2>1, <3>2, <4>1, Zenon DEF Folds1
      <4> QED
        BY <1>3, <3>2, <4>1, <4>2, SMTT(30)
    <3> QED
      BY <3>1, <3>2
  <2>3. eq(it)
    BY <1>2, <2>2
  <2> QED
    BY <2>3, Zenon
<1>6. eq(c)
  <2> HIDE DEF eq
  <2> QED
    BY <1>5
<1> HIDE DEF c
<1>7. GoesOn(c, g, << >>, T, n)
  <2>1. c[{}] = << >>
    BY <1>6, Zenon
  <2>2. ASSUME NEW k \in 1 .. n, c[1 .. (k - 1)] \in T
        PROVE  c[1 .. k] = g[<<c[1 .. (k - 1)], k>>]
    <3>1. /\ 1 .. k \in SUBSET (1 .. n) /\ 1 .. k # {}
          /\ Max(1 .. k) = k /\ (1 .. k) \ {k} = 1 .. (k - 1)
      BY <1>2, PrefixFacts
    <3>2. c[1 .. k] = o(c[1 .. (k - 1)], k)
      BY <1>2, <1>6, <3>1, Zenon
    <3> QED
      BY <1>3, <2>2, <3>2, SMTT(30)
  <2> QED
    BY <2>1, <2>2 DEF GoesOn
<1>8. PICK r : RunOf(r, g, << >>, T, n) /\ c[1 .. n] = r[n]
  <2> HIDE DEF T, n
  <2> QED
    BY <1>4, <1>7, FoldRun, SMTT(30)
<1> QED
  BY <1>1, <1>2, <1>8 DEF g

DistinctStep(s, T) ==
  [q \in T \X (1 .. Len(s)) |-> IF s[q[2]] \in Range(q[1]) THEN q[1] ELSE Append(q[1], s[q[2]])]

\* WithoutDuplicates is a run.
LEMMA DistinctRun ==
  ASSUME NEW E, NEW s \in Seq(E)
  PROVE  \E r : /\ RunOf(r, DistinctStep(s, Seq(E)), << >>, Seq(E), Len(s))
                /\ WithoutDuplicates(s) = r[Len(s)]
<1> DEFINE n == Len(s)
           T == Seq(E)
           g == DistinctStep(s, T)
           o(a, i) == IF s[i] \in Range(a) THEN a ELSE Append(a, s[i])
           eq(it) == it = [u \in SUBSET DOMAIN s |->
                             IF u = {} THEN << >> ELSE o(it[u \ {Max(u)}], Max(u))]
           c == CHOOSE it : eq(it)
<1>1. WithoutDuplicates(s) = c[DOMAIN s]
  BY Zenon DEF WithoutDuplicates, FoldList, MapThenFoldSet
<1>2. n \in Nat /\ DOMAIN s = 1 .. n
  OBVIOUS
<1>3. \A a \in T : \A i \in 1 .. n : g[<<a, i>>] = o(a, i) /\ o(a, i) \in T
  BY DEF DistinctStep
<1>4. FoldStep(g, << >>, T, n)
  <2>1. g \in [T \X (1 .. n) -> T]
    BY DEF DistinctStep
  <2> HIDE DEF g
  <2> QED
    BY <1>2, <2>1 DEF FoldStep
<1> HIDE DEF g, o
<1>5. \E it : eq(it)
  <2>1. PICK it \in [SUBSET (1 .. n) -> T] : Folds1(it, g, << >>, n)
    <3> HIDE DEF T, n
    <3> QED
      BY <1>4, FoldExists, Zenon
  <2>2. ASSUME NEW u \in SUBSET (1 .. n)
        PROVE  it[u] = IF u = {} THEN << >> ELSE o(it[u \ {Max(u)}], Max(u))
    <3>1. CASE u = {}
      BY <2>1, <3>1, Zenon DEF Folds1
    <3>2. CASE u # {}
      <4>1. Max(u) \in 1 .. n /\ u \ {Max(u)} \in SUBSET (1 .. n)
        BY <1>2, <3>2, MaxOf, Zenon
      <4>2. it[u] = g[<<it[u \ {Max(u)}], Max(u)>>] /\ it[u \ {Max(u)}] \in T
        BY <2>1, <3>2, <4>1, Zenon DEF Folds1
      <4> QED
        BY <1>3, <3>2, <4>1, <4>2, Zenon
    <3> QED
      BY <3>1, <3>2
  <2>3. eq(it)
    BY <1>2, <2>2
  <2> QED
    BY <2>3, Zenon
<1>6. eq(c)
  <2> HIDE DEF eq
  <2> QED
    BY <1>5, SMTT(30)
<1> HIDE DEF c
<1>7. GoesOn(c, g, << >>, T, n)
  <2>1. c[{}] = << >>
    BY <1>6
  <2>2. ASSUME NEW k \in 1 .. n, c[1 .. (k - 1)] \in T
        PROVE  c[1 .. k] = g[<<c[1 .. (k - 1)], k>>]
    <3>1. /\ 1 .. k \in SUBSET (1 .. n) /\ 1 .. k # {}
          /\ Max(1 .. k) = k /\ (1 .. k) \ {k} = 1 .. (k - 1)
      BY <1>2, PrefixFacts
    <3>2. c[1 .. k] = o(c[1 .. (k - 1)], k)
      BY <1>2, <1>6, <3>1, Zenon
    <3> QED
      BY <1>3, <2>2, <3>2, SMTT(30)
  <2> QED
    BY <2>1, <2>2 DEF GoesOn
<1>8. PICK r : RunOf(r, g, << >>, T, n) /\ c[1 .. n] = r[n]
  <2> HIDE DEF T, n
  <2> QED
    BY <1>4, <1>7, FoldRun, SMTT(30)
<1> QED
  BY <1>1, <1>2, <1>8 DEF g

\* The elements of two sequences in a row.
LEMMA ConcatSet ==
  ASSUME NEW E, NEW s \in Seq(E), NEW t \in Seq(E)
  PROVE  s \o t \in Seq(E) /\ Range(s \o t) = Range(s) \cup Range(t)
<1> DEFINE m == Len(s)
           n == Len(t)
           u == s \o t
<1>1. /\ m \in Nat /\ n \in Nat /\ DOMAIN s = 1 .. m /\ DOMAIN t = 1 .. n
      /\ u \in Seq(E) /\ DOMAIN u = 1 .. (m + n)
      /\ \A i \in 1 .. m : u[i] = s[i]
      /\ \A i \in 1 .. (m + n) : i > m => u[i] = t[i - m]
  OBVIOUS
<1> HIDE DEF m, n, u
<1>2. \A i \in 1 .. n : i + m \in 1 .. (m + n) /\ u[i + m] = t[i]
  <2> TAKE i \in 1 .. n
  <2>1. i + m \in 1 .. (m + n) /\ i + m > m /\ (i + m) - m = i
    BY <1>1, SMTT(30)
  <2> QED
    BY <1>1, <2>1
<1>3. \A i \in 1 .. (m + n) : i \in 1 .. m \/ (i > m /\ i - m \in 1 .. n)
  BY <1>1, SMTT(30)
<1>4. 1 .. m \subseteq 1 .. (m + n)
  BY <1>1, SMTT(30)
<1>5. Range(u) \subseteq Range(s) \cup Range(t)
  BY <1>1, <1>3, SMTT(30) DEF Range
<1>6. Range(s) \subseteq Range(u)
  BY <1>1, <1>4, SMTT(30) DEF Range
<1>7. Range(t) \subseteq Range(u)
  <2>1. ASSUME NEW i \in 1 .. n PROVE t[i] \in Range(u)
    <3>1. i + m \in DOMAIN u /\ u[i + m] = t[i]
      BY <1>1, <1>2, SMTT(30)
    <3> QED
      BY <3>1, Zenon DEF Range
  <2> QED
    BY <1>1, <2>1 DEF Range
<1> QED
  BY <1>1, <1>5, <1>6, <1>7, SMTT(30) DEF u

\* The elements of a list with one more element.
LEMMA AppendSet ==
  ASSUME NEW E, NEW s \in Seq(E), NEW x \in E
  PROVE  Append(s, x) \in Seq(E) /\ Range(Append(s, x)) = Range(s) \cup {x}
<1> DEFINE m == Len(s)
           u == Append(s, x)
<1>1. /\ m \in Nat /\ DOMAIN s = 1 .. m /\ u \in Seq(E) /\ DOMAIN u = 1 .. (m + 1)
      /\ \A i \in 1 .. m : u[i] = s[i]
      /\ u[m + 1] = x
  OBVIOUS
<1> HIDE DEF m, u
<1>2. \A i \in 1 .. (m + 1) : i \in 1 .. m \/ i = m + 1
  BY <1>1
<1>3. 1 .. m \subseteq 1 .. (m + 1) /\ m + 1 \in 1 .. (m + 1)
  BY <1>1, SMTT(30)
<1>4. Range(u) \subseteq Range(s) \cup {x}
  BY <1>1, <1>2, SMTT(30) DEF Range
<1>5. Range(s) \cup {x} \subseteq Range(u)
  BY <1>1, <1>3, SMTT(30) DEF Range
<1> QED
  BY <1>1, <1>4, <1>5, SMTT(30) DEF u

\* The elements of the first k.
First(s, k) == {s[i] : i \in 1 .. k}

\* The elements among the first k of a list, one at a time.
LEMMA FirstFacts ==
  ASSUME NEW E, NEW s \in Seq(E)
  PROVE  /\ First(s, 0) = {} /\ First(s, Len(s)) = Range(s)
         /\ \A k \in 1 .. Len(s) : First(s, k) = First(s, k - 1) \cup {s[k]} /\ s[k] \in E
<1>1. First(s, 0) = {}
  BY DEF First
<1>2. First(s, Len(s)) = Range(s)
  BY DEF First, Range
<1>3. ASSUME NEW k \in 1 .. Len(s)
      PROVE  First(s, k) = First(s, k - 1) \cup {s[k]} /\ s[k] \in E
  <2>1. k \in Nat /\ k \in 1 .. k /\ 1 .. (k - 1) \subseteq 1 .. k
    OBVIOUS
  <2>2. \A i \in 1 .. k : i \in 1 .. (k - 1) \/ i = k
    OBVIOUS
  <2>3. First(s, k) \subseteq First(s, k - 1) \cup {s[k]}
    BY <2>2 DEF First
  <2>4. First(s, k - 1) \cup {s[k]} \subseteq First(s, k)
    BY <2>1, Zenon DEF First
  <2> QED
    BY <2>3, <2>4, SMTT(30)
<1> QED
  BY <1>1, <1>2, <1>3, SMTT(30)

\* Dropping duplicates drops no element.
LEMMA DistinctSet ==
  ASSUME NEW E, NEW s \in Seq(E)
  PROVE  WithoutDuplicates(s) \in Seq(E) /\ Range(WithoutDuplicates(s)) = Range(s)
<1> DEFINE n == Len(s)
           T == Seq(E)
           g == DistinctStep(s, T)
<1>0. n \in Nat
  OBVIOUS
<1>1. PICK r : RunOf(r, g, << >>, T, n) /\ WithoutDuplicates(s) = r[n]
  BY DistinctRun
<1>2. r \in [0 .. n -> T] /\ r[0] = << >> /\ \A k \in 1 .. n : r[k] = g[<<r[k - 1], k>>]
  <2> HIDE DEF g, T, n
  <2> QED
    BY <1>1 DEF RunOf
<1> DEFINE P == {k \in 0 .. n : Range(r[k]) = First(s, k)}
<1>3. 0 \in P
  <2>1. Range(<< >>) = {} /\ First(s, 0) = {}
    BY FirstFacts DEF Range
  <2>2. Range(r[0]) = First(s, 0)
    BY <1>2, <2>1, Zenon
  <2>3. 0 \in 0 .. n
    BY <1>0
  <2> QED
    BY <2>2, <2>3, Zenon
<1>4. ASSUME NEW k \in 1 .. n, k - 1 \in P PROVE k \in P
  <2>1. k \in 0 .. n /\ k - 1 \in 0 .. n /\ Range(r[k - 1]) = First(s, k - 1)
    BY <1>0, <1>4
  <2> DEFINE a == r[k - 1]
             x == s[k]
  <2>2. a \in T /\ r[k] = g[<<a, k>>]
    BY <1>2, <2>1, Zenon
  <2>3. r[k] = IF x \in Range(a) THEN a ELSE Append(a, x)
    BY <2>2 DEF DistinctStep
  <2>4. First(s, k) = First(s, k - 1) \cup {x} /\ x \in E
    BY FirstFacts, Zenon
  <2>5. Range(Append(a, x)) = Range(a) \cup {x}
    BY <2>2, <2>4, AppendSet, SMTT(30)
  <2> HIDE DEF a, x
  <2>6. Range(r[k]) = Range(a) \cup {x}
    BY <2>3, <2>5
  <2>7. Range(r[k]) = First(s, k)
    BY <2>1, <2>4, <2>6 DEF a
  <2> QED
    BY <2>1, <2>7, SMTT(30)
<1>5. 0 .. n \subseteq P
  <2> HIDE DEF P
  <2> QED
    BY <1>0, <1>3, <1>4, BoundedInduction, Zenon
<1>6. n \in P /\ n \in 0 .. n
  <2> HIDE DEF P
  <2> QED
    BY <1>0, <1>5
<1>7. r[n] \in T /\ Range(r[n]) = First(s, n)
  BY <1>2, <1>6, Zenon
<1> QED
  BY <1>1, <1>7, FirstFacts, SMTT(30)

\* A joined text starts with a key, and its other tokens are the separator.
LEMMA JoinSet ==
  ASSUME NEW K, NEW s \in Seq(K), NEW sep, sep \notin K
  PROVE  /\ Join(s, sep) \in Seq(K \cup {sep}) /\ Range(Join(s, sep)) \ {sep} = Range(s)
         /\ Join(s, sep) # << >> => Join(s, sep)[1] \in K
<1> DEFINE E == K \cup {sep}
           n == Len(s)
           T == Seq(E)
           g == JoinStep(s, sep, T)
<1>0. n \in Nat /\ s \in Seq(E) /\ sep \in E
  OBVIOUS
<1>1. PICK r : RunOf(r, g, << >>, T, n) /\ Join(s, sep) = r[n]
  <2> HIDE DEF E
  <2> QED
    BY <1>0, JoinRun, Zenon
<1>2. r \in [0 .. n -> T] /\ r[0] = << >> /\ \A k \in 1 .. n : r[k] = g[<<r[k - 1], k>>]
  <2> HIDE DEF g, T, n
  <2> QED
    BY <1>1, Zenon DEF RunOf
<1> DEFINE P == {k \in 0 .. n : Range(r[k]) \ {sep} = First(s, k) /\ (r[k] # << >> => r[k][1] \in K)}
<1>3. 0 \in P
  <2>1. Range(<< >>) = {}
    BY DEF Range
  <2> QED
    BY <1>0, <1>2, <2>1, FirstFacts, SMTT(30)
<1>4. ASSUME NEW k \in 1 .. n, k - 1 \in P PROVE k \in P
  <2> DEFINE a == r[k - 1]
             x == s[k]
  <2>1. k \in 0 .. n /\ k - 1 \in 0 .. n /\ Range(a) \ {sep} = First(s, k - 1)
        /\ (a # << >> => a[1] \in K)
    BY <1>0, <1>4
  <2>2. a \in T /\ r[k] = g[<<a, k>>]
    BY <1>2, <2>1, Zenon
  <2>3. r[k] = IF a = << >> THEN <<x>> ELSE a \o <<sep, x>>
    <3> HIDE DEF E
    <3> QED
      BY <2>2, Zenon DEF JoinStep
  <2>4. First(s, k) = First(s, k - 1) \cup {x} /\ x \in K /\ x \in E
    BY FirstFacts, Zenon
  <2>5. CASE a = << >>
    <3>1. r[k] = <<x>> /\ Range(<<x>>) = {x} /\ <<x>>[1] = x
      BY <2>3, <2>5, SMTT(30) DEF Range
    <3>2. Range(a) = {}
      BY <2>5 DEF Range
    <3> QED
      BY <2>1, <2>4, <3>1, <3>2, SMTT(30)
  <2>6. CASE a # << >>
    <3> DEFINE b == <<sep, x>>
    <3>1. b \in T /\ Range(b) = {sep, x}
      BY <1>0, <2>4 DEF Range
    <3>2. r[k] = a \o b
      BY <2>3, <2>6, Zenon
    <3> HIDE DEF a, b, E, x
    <3>3. Range(a \o b) = Range(a) \cup Range(b)
      BY <2>2, <3>1, ConcatSet, SMTT(30)
    <3>4. (a \o b)[1] = a[1]
      <4>1. Len(a) \in Nat /\ Len(a) # 0
        BY <2>2, <2>6
      <4>2. 1 \in 1 .. Len(a)
        BY <4>1
      <4> QED
        BY <2>2, <3>1, <4>1, <4>2, SMTT(30)
    <3>5. Range(r[k]) \ {sep} = First(s, k)
      BY <2>1, <2>4, <3>1, <3>2, <3>3, SMTT(30)
    <3> QED
      BY <2>1, <2>6, <3>2, <3>4, <3>5, Zenon
  <2> QED
    BY <2>5, <2>6, Zenon
<1>5. 0 .. n \subseteq P
  <2> HIDE DEF P
  <2> QED
    BY <1>0, <1>3, <1>4, BoundedInduction, Zenon
<1>6. n \in P /\ n \in 0 .. n
  <2> HIDE DEF P
  <2> QED
    BY <1>0, <1>5, SMTT(30)
<1>7. r[n] \in T /\ Range(r[n]) \ {sep} = First(s, n) /\ (r[n] # << >> => r[n][1] \in K)
  BY <1>2, <1>6
<1> QED
  BY <1>1, <1>7, FirstFacts, SMTT(30)

\* The elements of a list of one.
LEMMA OneSet ==
  ASSUME NEW E, NEW x \in E
  PROVE  <<x>> \in Seq(E) /\ Range(<<x>>) = {x}
  BY DEF Range

\* A list over a set is a list over a larger one.
LEMMA SeqMono ==
  ASSUME NEW S, NEW T, S \subseteq T, NEW s \in Seq(S)
  PROVE  s \in Seq(T)
<1>1. Len(s) \in Nat /\ DOMAIN s = 1 .. Len(s) /\ s = [i \in 1 .. Len(s) |-> s[i]]
  OBVIOUS
<1>2. \A i \in 1 .. Len(s) : s[i] \in T
  OBVIOUS
<1> QED
  BY <1>1, <1>2

KeyList(f) == [i \in DOMAIN f |-> f[i].key]

\* The keys of the components that Keep takes from the roster.
LEMMA RosterKeys ==
  ASSUME NEW S
  PROVE  /\ KeyList(Keep(COMPONENTS, S)) \in Seq(Keys)
         /\ Range(KeyList(Keep(COMPONENTS, S))) = {c.key : c \in Range(COMPONENTS) \cap S}
<1> DEFINE f == Keep(COMPONENTS, S)
           k == KeyList(f)
<1>1. f \in Seq(Rows) /\ Range(f) = Range(COMPONENTS) \cap S
  BY RosterFacts, KeepSet, Zenon
<1> HIDE DEF f
<1>2. DOMAIN f = 1 .. Len(f) /\ Len(f) \in Nat
  BY <1>1
<1>3. DOMAIN k = DOMAIN f /\ \A i \in DOMAIN f : k[i] = f[i].key
  BY DEF KeyList
<1>4. ASSUME NEW i \in DOMAIN f PROVE f[i].key \in Keys
  <2>1. f[i] \in Range(COMPONENTS)
    BY <1>1, Zenon DEF Range
  <2>2. PICK j \in DOMAIN COMPONENTS : f[i] = COMPONENTS[j]
    BY <2>1 DEF Range
  <2> QED
    BY <2>2 DEF Keys, Roster
<1>5. k \in Seq(Keys)
  BY <1>2, <1>4 DEF KeyList
<1>6. Range(k) = {c.key : c \in Range(f)}
  BY <1>3 DEF Range
<1> QED
  BY <1>1, <1>5, <1>6 DEF f

\* Component keys are not separators; the required keys are those of the roster.
LEMMA KeyFacts ==
  /\ "," \notin Keys /\ Keys \cap Punctuation = {} /\ RequiredKeys \subseteq Keys
  /\ RequiredKeys = {c.key : c \in {d \in Range(COMPONENTS) : d.required}}
  /\ \A key : is_required(key) <=> key \in RequiredKeys
<1>1. "," \notin Keys /\ Keys \cap Punctuation = {} /\ RequiredKeys \subseteq Keys
  BY RosterFacts, Zenon DEF Keys, RequiredKeys
<1>2. \A key : is_required(key) <=> key \in RequiredKeys
  BY DEF is_required, RequiredKeys
<1>3. RequiredKeys = {c.key : c \in {d \in Range(COMPONENTS) : d.required}}
  BY DEF RequiredKeys, Range, Roster
<1> QED
  BY <1>1, <1>2, <1>3, Zenon

\* The default selection and the manifest's fixed part hold what is required.
LEMMA DefaultFacts ==
  /\ DefaultSelection \in Seq(Keys) /\ RequiredKeys \subseteq Range(DefaultSelection)
  /\ REQUIRED_COMPONENTS \in Seq(Keys) /\ Range(REQUIRED_COMPONENTS) = RequiredKeys
<1> DEFINE A == {c \in Range(COMPONENTS) : c.required \/ c.recommended}
           B == {c \in Range(COMPONENTS) : c.required}
<1>1. DefaultSelection = KeyList(Keep(COMPONENTS, A))
  BY Zenon DEF DefaultSelection, KeyList
<1>2. REQUIRED_COMPONENTS = KeyList(Keep(COMPONENTS, B))
  BY Zenon DEF REQUIRED_COMPONENTS, KeyList
<1>3. Range(COMPONENTS) \cap A = A /\ Range(COMPONENTS) \cap B = B /\ B \subseteq A
  OBVIOUS
<1>4. RequiredKeys = {c.key : c \in B}
  BY KeyFacts, Zenon
<1> HIDE DEF A, B
<1>5. /\ DefaultSelection \in Seq(Keys) /\ Range(DefaultSelection) = {c.key : c \in A}
      /\ REQUIRED_COMPONENTS \in Seq(Keys) /\ Range(REQUIRED_COMPONENTS) = {c.key : c \in B}
  BY <1>1, <1>2, <1>3, RosterKeys, SMTT(30)
<1> QED
  BY <1>3, <1>4, <1>5

\* toggle keeps what is required.
LEMMA ToggleFacts ==
  ASSUME NEW s \in Seq(Keys), RequiredKeys \subseteq Range(s), NEW key \in Keys
  PROVE  toggle(s, key) \in Seq(Keys) /\ RequiredKeys \subseteq Range(toggle(s, key))
<1>1. CASE is_required(key)
  BY <1>1 DEF toggle
<1>2. CASE ~is_required(key) /\ is_enabled(s, key)
  <2> DEFINE S == Range(s) \ {key}
  <2>1. toggle(s, key) = Keep(s, S)
    BY <1>2 DEF toggle
  <2>2. Keep(s, S) \in Seq(Keys) /\ Range(Keep(s, S)) = Range(s) \cap S
    BY KeepSet
  <2>3. key \notin RequiredKeys
    BY <1>2, KeyFacts, Zenon
  <2> QED
    BY <2>1, <2>2, <2>3, Zenon
<1>3. CASE ~is_required(key) /\ ~is_enabled(s, key)
  <2>1. toggle(s, key) = Append(s, key)
    BY <1>3 DEF toggle
  <2>2. Append(s, key) \in Seq(Keys) /\ Range(Append(s, key)) = Range(s) \cup {key}
    BY AppendSet
  <2> QED
    BY <2>1, <2>2
<1> QED
  BY <1>1, <1>2, <1>3

\* The manifest of a selection is the selection and what is required, and its
\* text is never the mark of a unit that has to be rebuilt.
LEMMA ManifestFacts ==
  ASSUME NEW s \in Seq(Keys)
  PROVE  csv(s) # Dirty /\ Range(generate_manifest(csv(s))) = RequiredKeys \cup Range(s)
<1> DEFINE raw == csv(s)
           E == Keys \cup {","}
           listed == Keep(raw, Range(raw) \ {","})
           both == REQUIRED_COMPONENTS \o listed
<1>1. /\ raw \in Seq(E) /\ Range(raw) \ {","} = Range(s)
      /\ raw # << >> => raw[1] \in Keys
  BY KeyFacts, JoinSet, Zenon DEF csv
<1>2. raw # Dirty
  <2>1. Dirty # << >> /\ Dirty[1] = ","
    BY DEF Dirty
  <2> QED
    BY <1>1, <2>1, KeyFacts, Zenon
<1> HIDE DEF raw, E
<1>3. listed \in Seq(E) /\ Range(listed) = Range(s)
  <2>1. listed \in Seq(E) /\ Range(listed) = Range(raw) \cap (Range(raw) \ {","})
    <3> DEFINE D == Range(raw) \ {","}
    <3> HIDE DEF D
    <3>1. Keep(raw, D) \in Seq(E) /\ Range(Keep(raw, D)) = Range(raw) \cap D
      BY <1>1, KeepSet, Zenon
    <3> QED
      BY <3>1, Zenon DEF D
  <2> QED
    BY <1>1, <2>1, Zenon
<1> HIDE DEF listed
<1>4. REQUIRED_COMPONENTS \in Seq(E) /\ Range(REQUIRED_COMPONENTS) = RequiredKeys
  BY DefaultFacts, SeqMono, Zenon DEF E
<1>5. both \in Seq(E) /\ Range(both) = RequiredKeys \cup Range(s)
  BY <1>3, <1>4, ConcatSet
<1> HIDE DEF both
<1>6. Range(WithoutDuplicates(both)) = Range(both)
  BY <1>5, DistinctSet
<1>7. generate_manifest(raw) = WithoutDuplicates(both)
  BY DEF generate_manifest, both, listed
<1> QED
  BY <1>2, <1>5, <1>6, <1>7, SMTT(30) DEF raw

\* config.toml gives a saved selection back.
LEMMA TomlFacts ==
  ASSUME NEW s \in Seq(Keys), RequiredKeys \subseteq Range(s)
  PROVE  Range(from_toml(to_toml(s))) = Range(s)
<1> DEFINE text == to_toml(s)
           E == Keys \cup Punctuation
           joined == Join(s, ", ")
           lead == <<"enabled = [">>
           last == <<"]">>
           line == lead \o joined \o last
           listed == Keep(line, Range(line) \ Punctuation)
           S == {c \in Range(COMPONENTS) : c.required /\ c.key \notin Range(listed)}
<1>1. Len(text) = 2 /\ text[1] = <<"[components]">> /\ text[2] = line
  BY Zenon DEF to_toml
<1>2. from_toml(text) = listed \o KeyList(Keep(COMPONENTS, S))
  <2> HIDE DEF text, line
  <2>1. (IF Len(text) > 1 /\ text[1] = <<"[components]">> THEN text[2] ELSE << >>) = line
    BY <1>1
  <2> QED
    BY <2>1, Zenon DEF from_toml, KeyList
<1>3. ", " \notin Keys /\ ", " \in Punctuation /\ Keys \cap Punctuation = {}
  BY KeyFacts, Zenon DEF Punctuation
<1>4. joined \in Seq(E) /\ Range(joined) \ {", "} = Range(s)
  <2>1. joined \in Seq(Keys \cup {", "}) /\ Range(joined) \ {", "} = Range(s)
    BY <1>3, JoinSet, Zenon
  <2>2. Keys \cup {", "} \subseteq E
    BY <1>3, Zenon
  <2> HIDE DEF joined, E
  <2> QED
    BY <2>1, <2>2, SeqMono, Zenon
<1>5. /\ lead \in Seq(E) /\ Range(lead) \subseteq Punctuation
      /\ last \in Seq(E) /\ Range(last) \subseteq Punctuation
  <2>1. "enabled = [" \in E /\ "]" \in E /\ {"enabled = [", "]"} \subseteq Punctuation
    BY DEF Punctuation
  <2> HIDE DEF E
  <2>2. lead \in Seq(E) /\ Range(lead) = {"enabled = ["}
    BY <2>1, OneSet, Zenon
  <2>3. last \in Seq(E) /\ Range(last) = {"]"}
    BY <2>1, OneSet, Zenon
  <2> HIDE DEF lead, last
  <2> QED
    BY <2>1, <2>2, <2>3, Zenon
<1> HIDE DEF lead, last, joined, E
<1> DEFINE start == lead \o joined
<1>6. start \in Seq(E) /\ Range(start) = Range(lead) \cup Range(joined)
  <2>1. lead \in Seq(E) /\ joined \in Seq(E)
    BY <1>4, <1>5, Zenon
  <2> QED
    BY <2>1, ConcatSet
<1>7. line \in Seq(E) /\ Range(line) = Range(start) \cup Range(last)
  <2> HIDE DEF start
  <2>1. start \o last \in Seq(E)
    BY <1>5, <1>6
  <2>2. Range(start \o last) = Range(start) \cup Range(last)
    BY <1>5, <1>6, ConcatSet
  <2> QED
    BY <2>1, <2>2 DEF start
<1> HIDE DEF start
<1> HIDE DEF line
<1>8. Range(s) \subseteq Keys
  BY DEF Range
<1>9. listed \in Seq(E) /\ Range(listed) = Range(line) \cap (Range(line) \ Punctuation)
  BY <1>7, KeepSet
<1>10. Range(listed) = Range(s)
  BY <1>3, <1>4, <1>5, <1>6, <1>7, <1>8, <1>9, Zenon
<1> HIDE DEF listed
<1>11. \A c \in S : c.key \in RequiredKeys /\ c.key \notin Range(s)
  BY <1>10, KeyFacts, Zenon
<1>12. S = {}
  BY <1>11
<1>13. KeyList(Keep(COMPONENTS, S)) \in Seq(E) /\ Range(KeyList(Keep(COMPONENTS, S))) = {}
  <2>1. /\ KeyList(Keep(COMPONENTS, S)) \in Seq(Keys)
        /\ Range(KeyList(Keep(COMPONENTS, S))) = {c.key : c \in Range(COMPONENTS) \cap S}
    BY RosterKeys
  <2> QED
    BY <1>12, <2>1 DEF E
<1> DEFINE forced == KeyList(Keep(COMPONENTS, S))
<1> HIDE DEF forced, S, text
<1>14. Range(listed \o forced) = Range(listed) \cup Range(forced)
  BY <1>9, <1>13, ConcatSet DEF forced
<1> QED
  BY <1>2, <1>10, <1>13, <1>14 DEF text, forced

-----------------------------------------------------------------------------
(* Build *)

Selecting == Paging \cup Preparing \cup Working \cup {"provision", "build_failed"}
Compiling == {"os_kernel", "os_image", "copying"}

\* A step of p keeps BuildInv when it keeps what is said of p and of the files.
LEMMA BuildMove ==
  ASSUME BuildInv, NEW p \in Procs, Moves(p), Shape', UpToDate', SelectionOf(proc'[p]),
         \A q \in Procs : BuildOf(q)',
         \A q \in Procs : config'.by = q /\ config'.alone => ConfigOf(q)'
  PROVE  BuildInv'
<1>1. ASSUME NEW q \in Procs PROVE SelectionOf(proc[q])'
  <2>1. SelectionOf(proc'[q])
    BY Zenon DEF BuildInv, Moves
  <2> QED
    BY <2>1, Zenon DEF SelectionOf
<1> QED
  BY <1>1, Zenon DEF BuildInv

\* A record that keeps its selection, or has dropped it at the end.
LEMMA SelectionKept ==
  ASSUME NEW r, NEW s, SelectionOf(r), s.sel = IF s.at \in Ends THEN << >> ELSE r.sel,
         s.at \in Selecting => r.at \in Selecting,
         s.at \notin {"welcome", "page1", "page2"}
  PROVE  SelectionOf(s)
<1>1. s.sel \in Seq(Keys)
  BY DEF SelectionOf
<1>2. s.at \in Selecting => RequiredKeys \subseteq Range(s.sel)
  BY Zenon DEF SelectionOf, Selecting, Ends, Paging, Preparing, Working
<1> QED
  BY <1>1, <1>2 DEF SelectionOf, Selecting

\* Steps that touch neither os/target, nor the image, nor config.toml.
LEMMA ElsewhereBuild ==
  ASSUME BuildInv, NEW p \in Procs, Shape', Moves(p),
         os' = os, image' = image, config' = config,
         SelectionOf(proc'[p]),
         proc'[p].at \notin Compiling \cup {"built", "save"},
         \/ proc'[p].at \in Paging \cup {"idle", "ok", "err"}
         \/ /\ proc'[p].cmd = proc[p].cmd /\ proc'[p].sel = proc[p].sel
            /\ proc[p].at \notin Paging \cup {"idle", "ok", "err"}
  PROVE  BuildInv'
<1>1. UpToDate'
  BY Zenon DEF BuildInv, UpToDate
<1>2. ASSUME NEW q \in Procs PROVE BuildOf(q)'
  <2>1. CASE q = p
    BY <2>1 DEF BuildOf, Compiling
  <2>2. CASE q # p
    BY <2>2, Zenon DEF BuildOf, BuildInv, Moves
  <2> QED
    BY <2>1, <2>2, Zenon
<1>3. ASSUME NEW q \in Procs, config'.by = q /\ config'.alone PROVE ConfigOf(q)'
  <2>0. ConfigOf(q)
    BY <1>3, Zenon DEF BuildInv
  <2>1. \A x \in Procs \ {q} : proc'[x].at # "save"
    BY <2>0, Zenon DEF ConfigOf, Moves
  <2>2. CASE q = p
    BY <2>0, <2>1, <2>2, Zenon DEF ConfigOf
  <2>3. CASE q # p
    BY <2>0, <2>1, <2>3, Zenon DEF ConfigOf, Moves
  <2> QED
    BY <2>2, <2>3, Zenon
<1> QED
  BY <1>1, <1>2, <1>3, BuildMove, Zenon

\* Provisioning and updating touch no configuration, image or build directory.
LEMMA ToolsBuild ==
  ASSUME BuildInv, NEW p \in Procs, Shape',
         \/ provision_one(p) \/ ensure_qemu(p) \/ ensure_build_tools(p) \/ ensure_rust(p)
         \/ UpdateFetch(p) \/ UpdateWrite(p)
  PROVE  BuildInv'
<1> DEFINE r == proc[p]
           s == proc'[p]
<1>0. Shape /\ SelectionOf(r)
  BY Zenon DEF BuildInv
<1>1. os' = os /\ image' = image /\ config' = config
  BY Zenon DEF provision_one, ensure_qemu, ensure_build_tools, ensure_rust, UpdateFetch, UpdateWrite, Files
<1>2. PICK From, To :
        /\ Edge(p, From, To)
        /\ \/ /\ From = Preparing \cup {"provision"}
              /\ To = (Preparing \ {"qemu"})
                        \cup {"provision", "build_kernel", "fetch_disk", "ok", "err"}
           \/ /\ From = {"fetch_disk", "fetch_sums", "verify"}
              /\ To = {"fetch_sums", "verify", "truncate", "refused"}
           \/ /\ From = {"truncate", "fill1", "fill2", "cached", "refused"}
              /\ To = {"fill1", "fill2", "cached", "refused", "ok", "err"}
  BY <1>0, ToolEdges, UpdateEdges, Zenon
<1>3. /\ Moves(p) /\ s.cmd = r.cmd /\ s.sel = IF s.at \in Ends THEN << >> ELSE r.sel
      /\ s.at \in Selecting => r.at \in Selecting
      /\ s.at \notin {"welcome", "page1", "page2"}
      /\ s.at \notin Compiling \cup {"built", "save"}
      /\ r.at \notin Paging \cup {"idle", "ok", "err"}
  BY <1>2, Zenon DEF Edge, Selecting, Compiling, Paging, Preparing, Working
<1>4. SelectionOf(s)
  BY <1>0, <1>3, SelectionKept, Zenon
<1>5. \/ s.at \in Paging \cup {"idle", "ok", "err"}
      \/ s.sel = r.sel
  BY <1>3 DEF Ends
<1> QED
  BY <1>1, <1>3, <1>4, <1>5, ElsewhereBuild, Zenon

\* The wizard keeps BuildInv: what it selects has every required component.
LEMMA WizardBuild ==
  ASSUME BuildInv, NEW p \in Procs, Shape', run_wizard(p)
  PROVE  BuildInv'
<1> DEFINE r == proc[p]
           s == proc'[p]
           L == Len(COMPONENTS)
<1>0. Shape /\ SelectionOf(r)
  BY DEF BuildInv
<1>1. os' = os /\ image' = image /\ config' = config
  BY Zenon DEF run_wizard, Files
<1>2. /\ Moves(p) /\ r.at \in {"welcome", "page1", "page2"}
      /\ s.at \in {"page1", "page2", "persist", "ok"}
      /\ r.at # "page2" /\ s.at \in {"page1", "page2"} => s.cursor = r.cursor
      /\ r.at = "page2" /\ s.at = "page2" =>
           \/ s.cursor = r.cursor
           \/ r.cursor > 0 /\ s.cursor = r.cursor - 1
           \/ r.cursor < Len(COMPONENTS) - 1 /\ s.cursor = r.cursor + 1
      /\ IF s.at = "ok" THEN s.sel = << >>
         ELSE \/ s.sel = r.sel
              \/ r.at = "page2" /\ s.sel = toggle(r.sel, COMPONENTS[r.cursor + 1].key)
              \/ \E i \in Roster : s.sel = toggle(r.sel, COMPONENTS[i].key)
      /\ s.at = "page1" => r.at = "welcome"
  BY <1>0, WizardEdges, Zenon
<1>3. /\ r.sel \in Seq(Keys) /\ RequiredKeys \subseteq Range(r.sel)
      /\ r.cursor \in 0 .. (L - 1)
  BY <1>0, <1>2, Zenon DEF SelectionOf, Paging
<1>4. L \in Nat \ {0} /\ Roster = 1 .. L
  BY RosterFacts, Zenon
<1>5. \A i \in Roster : COMPONENTS[i].key \in Keys
  BY Zenon DEF Keys
<1> HIDE DEF L
<1>6. r.cursor + 1 \in Roster
  BY <1>3, <1>4, SMTT(30)
<1>7. \A i \in Roster : /\ toggle(r.sel, COMPONENTS[i].key) \in Seq(Keys)
                        /\ RequiredKeys \subseteq Range(toggle(r.sel, COMPONENTS[i].key))
  BY <1>3, <1>5, ToggleFacts
<1>8. s.at # "ok" => s.sel \in Seq(Keys) /\ RequiredKeys \subseteq Range(s.sel)
  BY <1>2, <1>3, <1>6, <1>7, Zenon
<1>9. s.at = "ok" => s.sel \in Seq(Keys)
  <2>1. << >> \in Seq(Keys)
    OBVIOUS
  <2>2. s.at = "ok" => s.sel = << >>
    BY <1>2, Zenon
  <2> QED
    BY <2>1, <2>2, Zenon
<1>10. s.at \in {"page1", "page2"} => s.cursor \in 0 .. (L - 1)
  <2>1. s.at \in {"page1", "page2"} =>
           \/ s.cursor = r.cursor
           \/ r.cursor > 0 /\ s.cursor = r.cursor - 1
           \/ r.cursor < L - 1 /\ s.cursor = r.cursor + 1
    BY <1>2, Zenon DEF L
  <2> QED
    BY <1>3, <1>4, <2>1
<1>11. SelectionOf(s)
  BY <1>2, <1>8, <1>9, <1>10, Zenon DEF SelectionOf, L, Paging, Preparing, Working
<1> QED
  BY <1>1, <1>2, <1>11, ElsewhereBuild, Zenon DEF Paging, Compiling

\* Writing a configuration or a manifest keeps BuildInv.
LEMMA PersistBuild ==
  ASSUME BuildInv, NEW p \in Procs, Shape', Persist(p)
  PROVE  BuildInv'
<1> DEFINE r == proc[p]
           s == proc'[p]
<1>0. Shape /\ SelectionOf(r) /\ DOMAIN config = {"text", "by", "alone"}
  BY DEF BuildInv, UpToDate
<1>1. os' = os /\ image' = image
  BY DEF Persist
<1>2. /\ Moves(p) /\ s.at \in {"save", "provision", "err"} /\ r.at \in {"persist", "save"}
      /\ s.cmd = r.cmd /\ s.sel = IF s.at \in Ends THEN << >> ELSE r.sel
      /\ s.at = "save" => r.at = "persist" 
      /\ s.at = "provision" => r.at = "save"
  BY <1>0, PersistEdges, Zenon DEF Edge
<1>3. SelectionOf(s)
  BY <1>0, <1>2, SelectionKept DEF Selecting, Paging
<1>4. ASSUME NEW q \in Procs PROVE BuildOf(q)'
  <2>1. CASE q = p
    BY <1>2, <2>1 DEF BuildOf
  <2>2. CASE q # p
    BY <1>1, <1>2, <2>2, Zenon DEF BuildOf, BuildInv, Moves
  <2> QED
    BY <2>1, <2>2, Zenon
<1>5. ASSUME DOMAIN config' = {"text", "by", "alone"},
             \A q \in Procs : config'.by = q /\ config'.alone => ConfigOf(q)'
      PROVE  BuildInv'
  <2>1. UpToDate'
    BY <1>1, <1>5, Zenon DEF BuildInv, UpToDate
  <2> QED
    BY <1>2, <1>3, <1>4, <1>5, <2>1, BuildMove, Zenon
<1>6. CASE /\ At(p, "persist") /\ Goto(p, "save")
           /\ config' = [text |-> << >>, by |-> p,
                         alone |-> \A q \in Procs \ {p} : ~At(q, "save")]
  <2>1. s.at = "save"
    BY <1>0, <1>6, GotoFacts, Zenon
  <2>2. /\ DOMAIN config' = {"text", "by", "alone"} /\ config'.by = p
        /\ config'.alone => \A q \in Procs \ {p} : proc[q].at # "save"
    BY <1>6, Zenon DEF At
  <2>3. ASSUME NEW q \in Procs, config'.by = q /\ config'.alone PROVE ConfigOf(q)'
    BY <1>2, <2>1, <2>2, <2>3, SMTT(30) DEF ConfigOf, Moves, Paging
  <2> QED
    BY <1>5, <2>2, <2>3
<1>7. CASE /\ At(p, "save")
           /\ Leave(p, "provision", [todo |-> IF proc[p].rel THEN <<"qemu">> ELSE HOST_TOOLS])
           /\ \E text \in {to_toml(proc[p].sel)} \cup (IF config.alone THEN {} ELSE {<< >>}) :
                 config' = [config EXCEPT !.text = text]
  <2>1. PICK text : /\ config.alone => text = to_toml(r.sel)
                    /\ config' = [config EXCEPT !.text = text]
    BY <1>7, Zenon
  <2>2. /\ DOMAIN config' = {"text", "by", "alone"} /\ config'.by = config.by
        /\ config'.alone = config.alone /\ config'.text = text
    BY <1>0, <2>1, Zenon
  <2>3. ASSUME NEW q \in Procs, config'.by = q /\ config'.alone PROVE ConfigOf(q)'
    <3>1. ConfigOf(q)
      BY <2>2, <2>3 DEF BuildInv
    <3>2. q = p
      BY <1>7, <3>1 DEF ConfigOf, At
    <3>3. s.at = "provision"
      <4> DEFINE change == [todo |-> IF proc[p].rel THEN <<"qemu">> ELSE HOST_TOOLS]
      <4>1. DOMAIN change = {"todo"} /\ Leave(p, "provision", change)
        BY <1>7
      <4> HIDE DEF change
      <4> QED
        BY <1>0, <4>1, LeaveFacts, Zenon DEF Left, Changeable
    <3>4. s.sel = r.sel /\ config'.text = to_toml(r.sel)
      BY <1>2, <2>1, <2>2, <2>3, <3>3, Zenon DEF Ends
    <3> QED
      BY <1>2, <3>1, <3>2, <3>3, <3>4, SMTT(30) DEF ConfigOf, Moves
  <2> QED
    BY <1>5, <2>2, <2>3
<1>8. CASE (At(p, "persist") \/ At(p, "save")) /\ Goto(p, "err") /\ UNCHANGED config
  <2>1. s.at = "err"
    BY <1>0, <1>8, GotoFacts, Zenon
  <2>2. ASSUME NEW q \in Procs, config'.by = q /\ config'.alone PROVE ConfigOf(q)'
    <3>1. ConfigOf(q)
      BY <1>8, <2>2, Zenon DEF BuildInv
    <3>2. \A x \in Procs \ {q} : proc'[x].at # "save"
      BY <1>2, <2>1, <3>1, Zenon DEF ConfigOf, Moves
    <3>3. CASE q = p
      BY <2>1, <3>2, <3>3 DEF ConfigOf
    <3>4. CASE q # p
      BY <1>2, <1>8, <3>1, <3>2, <3>4, Zenon DEF ConfigOf, Moves
    <3> QED
      BY <3>3, <3>4
  <2> QED
    BY <1>0, <1>5, <1>8, <2>2
<1> QED
  BY <1>6, <1>7, <1>8, Zenon DEF Persist

\* A step of build_disk keeps BuildInv when it keeps what is said of os/target
\* and of the image.
LEMMA BuildDiskMove ==
  ASSUME BuildInv, NEW p \in Procs, Shape', build_disk(p), UpToDate',
         \A q \in Procs : BuildOf(q)'
  PROVE  BuildInv'
<1> DEFINE r == proc[p]
           s == proc'[p]
<1>0. Shape /\ SelectionOf(r)
  BY DEF BuildInv
<1>1. /\ Moves(p) /\ r.at \in Working \cup {"build_failed"}
      /\ s.at \in (Working \ {"build_kernel"}) \cup {"build_failed", "ok", "err"}
      /\ s.cmd = r.cmd /\ s.sel = IF s.at \in Ends THEN << >> ELSE r.sel
  BY <1>0, BuildEdges, Zenon DEF Edge
<1>2. SelectionOf(s)
  <2>1. s.at \notin {"welcome", "page1", "page2"} /\ r.at \in Selecting
    BY <1>1, Zenon DEF Selecting, Working
  <2> QED
    BY <1>0, <1>1, <2>1, SelectionKept, Zenon
<1>3. config' = config
  BY DEF build_disk
<1>4. ASSUME NEW q \in Procs, config'.by = q /\ config'.alone PROVE ConfigOf(q)'
  <2>0. ConfigOf(q)
    BY <1>3, <1>4, Zenon DEF BuildInv
  <2>1. \A x \in Procs \ {q} : proc'[x].at # "save"
    BY <1>1, <2>0 DEF ConfigOf, Moves, Working
  <2>2. CASE q = p
    <3>1. s.at \in Ends \/ s.sel = r.sel
      BY <1>1, Zenon
    <3>2. r.at \notin Paging \cup {"idle", "ok", "err"}
      BY <1>1, Zenon DEF Paging, Working
    <3> QED
      BY <1>1, <1>3, <2>0, <2>1, <2>2, <3>1, <3>2, Zenon DEF ConfigOf, Ends
  <2>3. CASE q # p
    BY <1>1, <1>3, <2>0, <2>1, <2>3, SMTT(30) DEF ConfigOf, Moves
  <2> QED
    BY <2>2, <2>3, Zenon
<1> QED
  BY <1>1, <1>2, <1>4, BuildMove, Zenon

\* While p holds the lock, or nobody does, no other process is compiling.
LEMMA NoOther ==
  ASSUME BuildInv, NEW p \in Procs, os.lock = p \/ os.lock = Nobody
  PROVE  \A q \in Procs \ {p} : proc[q].at \notin Compiling
<1> TAKE q \in Procs \ {p}
<1>1. BuildOf(q) /\ q # p /\ q # Nobody
  BY InstallAssumption DEF BuildInv
<1> QED
  BY <1>1, Zenon DEF BuildOf, Compiling

\* The steps of build_disk keep BuildInv: the lock covers what cargo writes.
LEMMA BuildBuild ==
  ASSUME BuildInv, NEW p \in Procs, Shape', build_disk(p)
  PROVE  BuildInv'
<1> DEFINE r == proc[p]
           s == proc'[p]
           m == generate_manifest(csv(r.sel))
<1>0. /\ Shape /\ SelectionOf(r) /\ BuildOf(p) /\ UpToDate
      /\ DOMAIN os = {"lock", "env", "fresh"} /\ os.fresh \in BOOLEAN
      /\ DOMAIN image = {"keys", "present", "whole", "last"}
      /\ image.present \in BOOLEAN /\ image.whole \in BOOLEAN
      /\ DOMAIN config = {"text", "by", "alone"}
  BY Zenon DEF BuildInv, UpToDate
<1>1. config' = config /\ Moves(p)
  BY <1>0, BuildEdges, Zenon DEF build_disk, Edge
<1>2. csv(r.sel) # Dirty
  BY <1>0, ManifestFacts, Zenon DEF SelectionOf
<1>3. ASSUME NEW label, label \notin Ends, Goto(p, label)
      PROVE  s.at = label /\ s.sel = r.sel
  BY <1>0, <1>3, GotoFacts, Zenon
<1>4. ASSUME os' = os, image' = image, s.at \notin Compiling \cup {"built"}
      PROVE  BuildInv'
  <2>1. UpToDate'
    BY <1>0, <1>1, <1>4, Zenon DEF UpToDate
  <2>2. ASSUME NEW q \in Procs PROVE BuildOf(q)'
    <3>1. CASE q = p
      BY <1>4, <3>1 DEF BuildOf, Compiling
    <3>2. CASE q # p
      BY <1>1, <1>4, <3>2, Zenon DEF BuildOf, BuildInv, Moves
    <3> QED
      BY <3>1, <3>2
  <2> QED
    BY <2>1, <2>2, BuildDiskMove, Zenon
<1>5. CASE /\ At(p, "build_kernel") /\ UNCHANGED <<os, image>>
           /\ \E ok \in BOOLEAN : Goto(p, IF ok THEN "build_os" ELSE "build_failed")
  <2>1. PICK label \in {"build_os", "build_failed"} : Goto(p, label)
    BY <1>5
  <2>2. label \notin Ends /\ label \notin Compiling \cup {"built"}
    BY DEF Ends, Compiling
  <2> QED
    BY <1>3, <1>4, <1>5, <2>1, <2>2
<1>6. CASE At(p, "build_os") /\ CargoLock(p) /\ Goto(p, "os_kernel")
  <2>1. /\ os.lock = Nobody /\ image' = image /\ DOMAIN os' = {"lock", "env", "fresh"}
        /\ os'.lock = p /\ os'.env = os.env /\ os'.fresh = os.fresh
    BY <1>0, <1>6, SMTT(30) DEF CargoLock
  <2>2. s.at = "os_kernel"
    BY <1>3, <1>6 DEF Ends
  <2>3. UpToDate'
    BY <1>0, <1>1, <2>1, Zenon DEF UpToDate
  <2>4. ASSUME NEW q \in Procs PROVE BuildOf(q)'
    <3>1. CASE q = p
      BY <2>1, <2>2, <3>1, Zenon DEF BuildOf
    <3>2. CASE q # p
      <4>1. proc'[q] = proc[q] /\ proc[q].at \notin Compiling /\ BuildOf(q)
        BY <1>1, <2>1, <3>2, NoOther, Zenon DEF Moves, BuildInv
      <4> QED
        BY <2>1, <4>1 DEF BuildOf, Compiling
    <3> QED
      BY <3>1, <3>2
  <2> QED
    BY <2>3, <2>4, BuildDiskMove
<1>7. CASE At(p, "os_kernel") /\ CargoKernel(p, csv(proc[p].sel)) /\ Goto(p, "os_image")
  <2>1. /\ os.lock = p /\ image' = image /\ DOMAIN os' = {"lock", "env", "fresh"}
        /\ os'.lock = p /\ os'.env = csv(r.sel) /\ os'.fresh \in BOOLEAN
        /\ os'.fresh => os' = os
    BY <1>0, <1>7, Zenon DEF CargoKernel, rerun_if_env_changed
  <2>2. s.at = "os_image" /\ s.sel = r.sel
    BY <1>3, <1>7 DEF Ends
  <2>3. UpToDate'
    BY <1>0, <1>1, <2>1, Zenon DEF UpToDate
  <2>4. ASSUME NEW q \in Procs PROVE BuildOf(q)'
    <3>1. CASE q = p
      BY <2>1, <2>2, <3>1, Zenon DEF BuildOf
    <3>2. CASE q # p
      <4>1. proc'[q] = proc[q] /\ proc[q].at \notin Compiling /\ BuildOf(q)
        BY <1>1, <2>1, <3>2, NoOther, Zenon DEF Moves, BuildInv
      <4> QED
        BY <2>1, <4>1, Zenon DEF BuildOf, Compiling
    <3> QED
      BY <3>1, <3>2
  <2> QED
    BY <2>3, <2>4, BuildDiskMove
<1>8. CASE \/ At(p, "os_kernel") /\ CargoFail(p) /\ Goto(p, "build_failed")
           \/ (At(p, "os_image") \/ At(p, "copying")) /\ ScriptFail(p) /\ Goto(p, "build_failed")
  <2>1. /\ os.lock = p /\ image' = image /\ DOMAIN os' = {"lock", "env", "fresh"}
        /\ os'.fresh = FALSE
    BY <1>0, <1>8, Zenon DEF CargoFail, ScriptFail
  <2>2. s.at = "build_failed"
    BY <1>3, <1>8, Zenon DEF Ends
  <2>3. UpToDate'
    BY <1>0, <1>1, <2>1, Zenon DEF UpToDate
  <2>4. ASSUME NEW q \in Procs PROVE BuildOf(q)'
    <3>1. CASE q = p
      BY <2>2, <3>1 DEF BuildOf
    <3>2. CASE q # p
      <4>1. proc'[q] = proc[q] /\ proc[q].at \notin Compiling /\ BuildOf(q)
        BY <1>1, <2>1, <3>2, NoOther, Zenon DEF Moves, BuildInv
      <4> QED
        BY <2>1, <4>1, Zenon DEF BuildOf, Compiling
    <3> QED
      BY <3>1, <3>2
  <2> QED
    BY <2>3, <2>4, BuildDiskMove
<1>9. CASE At(p, "os_image") /\ CargoFresh(p) /\ Goto(p, "built")
  <2>1. /\ os.lock = p /\ os.fresh /\ DOMAIN os' = {"lock", "env", "fresh"}
        /\ os'.env = os.env /\ os'.fresh = os.fresh
        /\ DOMAIN image' = {"keys", "present", "whole", "last"}
        /\ image'.keys = image.keys /\ image'.present = image.present
        /\ image'.whole = image.whole /\ image'.last = p
    BY <1>0, <1>9, Zenon DEF CargoFresh
  <2>2. s.at = "built" /\ s.sel = r.sel
    BY <1>3, <1>9, Zenon DEF Ends
  <2>3. UpToDate'
    BY <1>0, <1>1, <2>1 DEF UpToDate
  <2>4. os.env = csv(r.sel)
    BY <1>0, <1>9, Zenon DEF BuildOf, At
  <2>5. image.present => image.whole /\ image.keys = m
    BY <1>0, <1>2, <2>1, <2>4, SMTT(30) DEF UpToDate
  <2>6. ASSUME NEW q \in Procs PROVE BuildOf(q)'
    <3>1. CASE q = p
      BY <2>1, <2>2, <2>5, <3>1, Zenon DEF BuildOf
    <3>2. CASE q # p
      <4>1. proc'[q] = proc[q] /\ proc[q].at \notin Compiling
        BY <1>1, <2>1, <3>2, NoOther, Zenon DEF Moves
      <4> QED
        BY <2>1, <3>2, <4>1, Zenon DEF BuildOf, Compiling
    <3> QED
      BY <3>1, <3>2
  <2> QED
    BY <2>3, <2>6, BuildDiskMove
<1>10. CASE At(p, "os_image") /\ CopyStart(p) /\ Goto(p, "copying")
  <2>1. /\ os.lock = p /\ ~os.fresh /\ os' = os
        /\ DOMAIN image' = {"keys", "present", "whole", "last"}
        /\ image'.keys = generate_manifest(os.env) /\ image'.present = TRUE
        /\ image'.whole = FALSE /\ image'.last = p
    BY <1>10, Zenon DEF CopyStart
  <2>2. s.at = "copying" /\ s.sel = r.sel
    BY <1>3, <1>10 DEF Ends
  <2>3. UpToDate'
    BY <1>0, <1>1, <2>1, Zenon DEF UpToDate
  <2>4. os.env = csv(r.sel)
    BY <1>0, <1>10, Zenon DEF BuildOf, At
  <2>5. ASSUME NEW q \in Procs PROVE BuildOf(q)'
    <3>1. CASE q = p
      BY <2>1, <2>2, <2>4, <3>1, Zenon DEF BuildOf
    <3>2. CASE q # p
      <4>1. proc'[q] = proc[q] /\ proc[q].at \notin Compiling
        BY <1>1, <2>1, <3>2, NoOther, SMTT(30) DEF Moves
      <4> QED
        BY <2>1, <3>2, <4>1, Zenon DEF BuildOf, Compiling
    <3> QED
      BY <3>1, <3>2
  <2> QED
    BY <2>3, <2>5, BuildDiskMove
<1>11. CASE At(p, "copying") /\ CopyEnd(p) /\ Goto(p, "built")
  <2>1. /\ DOMAIN os' = {"lock", "env", "fresh"} /\ os'.env = os.env /\ os'.fresh = TRUE
        /\ DOMAIN image' = {"keys", "present", "whole", "last"}
        /\ image'.keys = image.keys /\ image'.present = image.present
        /\ image'.whole = image.present /\ image'.last = image.last
    BY <1>0, <1>11 DEF CopyEnd
  <2>2. s.at = "built" /\ s.sel = r.sel
    BY <1>3, <1>11, Zenon DEF Ends
  <2>3. /\ os.lock = p /\ os.env = csv(r.sel)
        /\ image.present => image.keys = generate_manifest(os.env)
    BY <1>0, <1>11 DEF BuildOf, At
  <2>4. UpToDate'
    BY <1>0, <1>1, <2>1, <2>3, Zenon DEF UpToDate
  <2>5. ASSUME NEW q \in Procs PROVE BuildOf(q)'
    <3>1. CASE q = p
      BY <2>1, <2>2, <2>3, <3>1, Zenon DEF BuildOf
    <3>2. CASE q # p
      <4>1. proc'[q] = proc[q] /\ proc[q].at \notin Compiling /\ BuildOf(q)
        BY <1>1, <2>3, <3>2, NoOther, Zenon DEF Moves, BuildInv
      <4> QED
        BY <2>1, <4>1 DEF BuildOf, Compiling
    <3> QED
      BY <3>1, <3>2
  <2> QED
    BY <2>4, <2>5, BuildDiskMove
<1>12. CASE /\ At(p, "built") \/ At(p, "build_failed")
            /\ LET ok == At(p, "built") /\ image.present
               IN  Leave(p, Result(ok), [marks |-> Mark(p, ok)])
            /\ UNCHANGED <<os, image>>
  <2> DEFINE ok == At(p, "built") /\ image.present
             label == Result(ok)
             change == [marks |-> Mark(p, ok)]
  <2>1. DOMAIN change = {"marks"} /\ Leave(p, label, change)
    BY <1>12, Zenon
  <2>2. label \in {"ok", "err"}
    BY DEF Result
  <2> HIDE DEF label, change
  <2>3. s.at = label
    BY <1>0, <2>1, LeaveFacts, Zenon DEF Left, Changeable
  <2>4. s.at \notin Compiling \cup {"built"}
    BY <2>2, <2>3 DEF Compiling
  <2> QED
    BY <1>4, <1>12, <2>4
<1> QED
  BY <1>5, <1>6, <1>7, <1>8, <1>9, <1>10, <1>11, <1>12, Zenon DEF build_disk

\* Commands start, and processes are killed, between any two steps of the others.
LEMMA RestartBuild ==
  ASSUME BuildInv, Shape', NEW p \in Procs, NEW q \in Procs, main(p) \/ Kill(p) \/ run_detached(p, q)
  PROVE  BuildInv'
<1>1. Restarts
  BY RestartFacts, Zenon DEF BuildInv
<1>2. image' = image /\ config' = config
  BY Zenon DEF main, Kill, run_detached, Files
<1>3. \/ os' = os
      \/ /\ os.lock \in Procs /\ proc'[os.lock].at = "idle"
         /\ \A x \in Procs \ {os.lock} : proc[x].at \notin Compiling
         /\ DOMAIN os' = {"lock", "env", "fresh"} /\ os'.fresh = os.fresh
         /\ os'.env \in {os.env, Dirty}
  <2>1. CASE main(p) \/ run_detached(p, q)
    BY <2>1, Zenon DEF main, run_detached, Files
  <2>2. CASE Kill(p) /\ os.lock = p
    <3>1. os' = [os EXCEPT !.lock = Nobody, !.env = IF At(p, "os_kernel") THEN Dirty ELSE @]
      BY <2>2 DEF Kill
    <3>2. /\ DOMAIN os' = {"lock", "env", "fresh"} /\ os'.fresh = os.fresh
          /\ os'.env \in {os.env, Dirty}
      BY <3>1, Zenon DEF BuildInv, UpToDate
    <3>3. proc'[p].at = "idle"
      <4>1. proc'[p] = NoProc
        BY <2>2, CommandFacts, Zenon DEF BuildInv
      <4>2. NoProc.at = "idle"
        BY DEF NoProc
      <4> QED
        BY <4>1, <4>2, Zenon
    <3> QED
      BY <2>2, <3>2, <3>3, NoOther, Zenon
  <2>3. CASE Kill(p) /\ os.lock # p
    BY <2>3 DEF Kill
  <2> QED
    BY <2>1, <2>2, <2>3
<1>4. UpToDate'
  BY <1>2, <1>3, Zenon DEF BuildInv, UpToDate
<1>5. ASSUME NEW x \in Procs, Fresh(proc'[x]) PROVE SelectionOf(proc'[x])
  <2> DEFINE s == proc'[x]
             L == Len(COMPONENTS)
  <2>1. s.sel = << >> \/ s.sel = DefaultSelection
    BY <1>5, Zenon DEF Fresh
  <2>2. << >> \in Seq(Keys)
    OBVIOUS
  <2>3. s.sel \in Seq(Keys)
    BY <2>1, <2>2, DefaultFacts, Zenon
  <2>4. s.at \in Selecting => RequiredKeys \subseteq Range(s.sel)
    <3>1. s.at \in Selecting => s.sel = DefaultSelection
      BY <1>5, Zenon DEF Fresh, Selecting, Paging, Preparing, Working
    <3> QED
      BY <3>1, DefaultFacts
  <2>5. s.cursor \in 0 .. (L - 1)
    <3>1. L \in Nat \ {0} /\ s.cursor = 0
      BY <1>5, RosterFacts, Zenon DEF Fresh
    <3> HIDE DEF L
    <3> QED
      BY <3>1
  <2> QED
    BY <2>3, <2>4, <2>5, Zenon DEF SelectionOf, Selecting
<1>6. ASSUME NEW x \in Procs PROVE SelectionOf(proc[x])'
  <2>1. SelectionOf(proc'[x])
    BY <1>1, <1>5, Zenon DEF Restarts, BuildInv
  <2> QED
    BY <2>1, Zenon DEF SelectionOf
<1>7. ASSUME NEW x \in Procs PROVE BuildOf(x)'
  <2>1. CASE Fresh(proc'[x])
    BY <2>1, Zenon DEF Fresh, BuildOf
  <2>2. CASE ~Fresh(proc'[x])
    <3>1. proc'[x] = proc[x] /\ BuildOf(x)
      BY <1>1, <2>2, Zenon DEF Restarts, BuildInv
    <3>2. CASE os' = os
      BY <1>2, <3>1, <3>2, Zenon DEF BuildOf
    <3>3. CASE os' # os
      <4>1. proc[x].at \notin Compiling
        <5>1. CASE x = os.lock
          BY <1>3, <3>1, <3>3, <5>1, Zenon DEF Compiling
        <5>2. CASE x # os.lock
          BY <1>3, <3>3, <5>2, Zenon
        <5> QED
          BY <5>1, <5>2, Zenon
      <4> QED
        BY <1>2, <3>1, <4>1, Zenon DEF BuildOf, Compiling
    <3> QED
      BY <3>2, <3>3, Zenon
  <2> QED
    BY <2>1, <2>2
<1>8. ASSUME NEW x \in Procs, config'.by = x /\ config'.alone PROVE ConfigOf(x)'
  <2>1. ConfigOf(x)
    BY <1>2, <1>8 DEF BuildInv
  <2>2. \A y \in Procs \ {x} : proc'[y].at # "save"
    BY <1>1, <2>1, Zenon DEF Restarts, Fresh, ConfigOf
  <2>3. CASE proc'[x] = proc[x]
    BY <1>2, <2>1, <2>2, <2>3, Zenon DEF ConfigOf
  <2>4. CASE Fresh(proc'[x])
    BY <2>2, <2>4, Zenon DEF ConfigOf, Fresh, Paging
  <2> QED
    BY <1>1, <2>3, <2>4, Zenon DEF Restarts
<1> QED
  BY <1>4, <1>6, <1>7, <1>8, Zenon DEF BuildInv

\* Every reachable state satisfies the invariant on builds.
LEMMA BuildInductive == Spec => []BuildInv
<1>1. Init => BuildInv
  <2> SUFFICES ASSUME Init PROVE BuildInv
    OBVIOUS
  <2>1. Fresh(NoProc) /\ DOMAIN NoProc = Fields
    BY StartFacts DEF Starts
  <2>2. /\ proc = [p \in Procs |-> NoProc] /\ "tools" \in DOMAIN host
        /\ os = [lock |-> Nobody, env |-> Dirty, fresh |-> FALSE] /\ image = NoImage
        /\ config = [text |-> << >>, by |-> Nobody, alone |-> TRUE]
    BY InstallAssumption, Zenon DEF Init, InstallInit, ImageInit
  <2>3. NoProc.at = "idle" /\ NoProc.sel = << >>
    BY DEF NoProc
  <2> HIDE DEF NoProc
  <2>4. Shape /\ \A p \in Procs : proc[p].at = "idle" /\ proc[p].sel = << >>
    BY <2>1, <2>2, <2>3, Zenon DEF Shape
  <2>5. UpToDate
    BY <2>2, Zenon DEF UpToDate, NoImage
  <2>6. \A p \in Procs : SelectionOf(proc[p])
    <3>1. << >> \in Seq(Keys)
      OBVIOUS
    <3>2. \A p \in Procs : proc[p].sel \in Seq(Keys)
      BY <2>4, <3>1, Zenon
    <3> QED
      BY <2>4, <3>2 DEF SelectionOf, Paging, Preparing, Working
  <2>7. \A p \in Procs : BuildOf(p) /\ ConfigOf(p)
    BY <2>4, Zenon DEF BuildOf, ConfigOf
  <2> QED
    BY <2>4, <2>5, <2>6, <2>7, Zenon DEF BuildInv
<1>2. ToolsInv' /\ BuildInv /\ [Next]_vars => BuildInv'
  <2> SUFFICES ASSUME ToolsInv', BuildInv, [Next]_vars PROVE BuildInv'
    OBVIOUS
  <2>0. Shape'
    BY DEF ToolsInv
  <2>1. ASSUME NEW p \in Procs, NEW q \in Procs, main(p) \/ Kill(p) \/ run_detached(p, q)
        PROVE  BuildInv'
    BY <2>0, <2>1, RestartBuild, Zenon
  <2>2. ASSUME NEW p \in Procs, InstallStep(p) \/ run_wizard(p) PROVE BuildInv'
    BY <2>0, <2>2, ToolsBuild, WizardBuild, PersistBuild, BuildBuild, SMTT(30) DEF InstallStep
  <2>3. CASE Publish \/ Clean \/ UNCHANGED vars
    <3>1. proc' = proc /\ os' = os /\ config' = config /\ (image' = image \/ image' = NoImage)
      BY <2>3 DEF Publish, Clean, CleanTarget, vars, installVars
    <3>2. UpToDate'
      <4>1. CASE image' = image
        BY <3>1, <4>1 DEF BuildInv, UpToDate
      <4>2. CASE image' = NoImage
        <5>1. /\ DOMAIN image' = {"keys", "present", "whole", "last"}
              /\ image'.present = FALSE /\ image'.whole = FALSE
          BY <4>2, Zenon DEF NoImage
        <5> QED
          BY <3>1, <5>1, Zenon DEF BuildInv, UpToDate
      <4> QED
        BY <3>1, <4>1, <4>2, Zenon
    <3>3. image' = image \/ image'.present = FALSE
      BY <3>1 DEF NoImage
    <3>4. \A p \in Procs : BuildOf(p)'
      BY <3>1, <3>3, Zenon DEF BuildInv, BuildOf
    <3>5. \A p \in Procs : SelectionOf(proc[p])' /\ (config'.by = p /\ config'.alone => ConfigOf(p)')
      BY <3>1, Zenon DEF BuildInv, SelectionOf, ConfigOf
    <3> QED
      BY <2>0, <3>2, <3>4, <3>5, Zenon DEF BuildInv
  <2> QED
    BY <2>1, <2>2, <2>3 DEF Next
<1> QED
  BY <1>1, <1>2, ToolsInductive, PTL DEF Spec

\* A source build that succeeds is whole and made of what was selected, and the
\* saved config.toml gives the selection back: for every roster, whatever builds
\* run beside it, fail, or are killed.
THEOREM BuildIsAsSelected == Spec => []BuiltAsSelected
<1>1. BuildInv => BuiltAsSelected
  <2> SUFFICES ASSUME BuildInv, NEW p \in Procs,
                      At(p, "built"), image.present, image.last = p
               PROVE  LET wanted == Range(proc[p].sel)
                      IN  /\ image.whole /\ Range(image.keys) = wanted
                          /\ (proc[p].cmd = "setup" /\ config.by = p /\ config.alone)
                                => Range(from_toml(config.text)) = wanted
    BY Zenon DEF BuiltAsSelected
  <2> DEFINE s == proc[p].sel
  <2>1. s \in Seq(Keys) /\ RequiredKeys \subseteq Range(s)
    BY DEF BuildInv, SelectionOf, At, Working
  <2>2. image.whole /\ image.keys = generate_manifest(csv(s))
    BY Zenon DEF BuildInv, BuildOf, At
  <2>3. Range(image.keys) = Range(s)
    <3>1. Range(generate_manifest(csv(s))) = RequiredKeys \cup Range(s)
      BY <2>1, ManifestFacts, Zenon
    <3> HIDE DEF s
    <3> QED
      BY <2>1, <2>2, <3>1, Zenon
  <2>4. proc[p].cmd = "setup" /\ config.by = p /\ config.alone => config.text = to_toml(s)
    BY Zenon DEF BuildInv, ConfigOf, At, Paging
  <2>5. Range(from_toml(to_toml(s))) = Range(s)
    BY <2>1, TomlFacts
  <2> QED
    BY <2>2, <2>3, <2>4, <2>5, Zenon
<1> QED
  BY <1>1, BuildInductive, PTL
=============================================================================
