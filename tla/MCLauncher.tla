----------------------------- MODULE MCLauncher -----------------------------
(***************************************************************************)
(* Two processes, a two-row roster (one row required), two disks, and a    *)
(* healthy host with three commands beside hosts that lack QEMU, a         *)
(* compiler, Rust or a package manager, with two.                          *)
(***************************************************************************)
EXTENDS Launcher

Symmetry == Permutations(Procs) \cup Permutations(Disks)

Row(k, must) == [key |-> k, required |-> must, recommended |-> TRUE]

MCComponents == <<Row("core", TRUE), Row("dock", FALSE)>>

Every == {"qemu", "rustup", "cargo", "nasm", "g++", "zig", "mtools"}

Host(kind, mgr, tools, provision, repo, commands, releases) ==
    [os |-> kind, mgr |-> mgr, tools |-> tools, provision |-> provision, repo |-> repo,
     COMMANDS |-> commands, RELEASES |-> releases]

MCHosts ==
    {Host("linux", TRUE, Every, TRUE, TRUE, 3, 0),
     Host("linux", TRUE, Every \ {"qemu", "zig"}, TRUE, TRUE, 2, 2),
     Host("macos", FALSE, (Every \ {"g++", "rustup", "cargo"}) \cup {"clang++"}, TRUE, TRUE, 2, 2),
     Host("windows", FALSE, Every \ {"g++"}, TRUE, FALSE, 2, 2),
     Host("linux", FALSE, Every \ {"qemu"}, FALSE, FALSE, 2, 2)}
=============================================================================
