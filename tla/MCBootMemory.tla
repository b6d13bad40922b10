---------------------------- MODULE MCBootMemory -----------------------------
(* Instance of BootMemory for TLC: tables of 2 entries below a top table of 5, *)
(* pages of 2 bytes.                                                           *)
EXTENDS BootMemory

\* With these, the user program gets a low region, a high one or none, or the
\* heap gets none.
MCBootTops == {{4}, {0}, {0, 4}, {0, 2, 4}}

\* user/linker.ld places the text at the second page; the data segment of the
\* program is empty, or starts a page of its own.
Text(memsz) == [load |-> TRUE, vaddr |-> 2, memsz |-> memsz, writable |-> FALSE]
Data(vaddr, memsz) == [load |-> TRUE, vaddr |-> vaddr, memsz |-> memsz, writable |-> TRUE]
GnuStack == [load |-> FALSE, vaddr |-> 0, memsz |-> 0, writable |-> TRUE]

Linked(phdrs) ==
  [magic |-> TRUE, lsb64 |-> TRUE, entry |-> 2, phdrs |-> phdrs, inside |-> Len(phdrs)]

Built == Linked(<<Text(3), Data(5, 0)>>)

\* Also a file that is no ELF, one of another class, one with nothing to load,
\* and one cut off before its headers.
MCElfs ==
  {Built, Linked(<<Text(2), GnuStack, Data(4, 3)>>), Linked(<<GnuStack>>),
   [Built EXCEPT !.magic = FALSE], [Built EXCEPT !.lsb64 = FALSE],
   [Built EXCEPT !.inside = 0]}

MCPoolSizes == 0 .. FrameCount
=============================================================================
