------------------------------ MODULE UserLayout -------------------------------
(****************************************************************************)
(* Where user::bring_up puts a program: the pages of its PT_LOAD segments    *)
(* and of its stack, counted from the base of the region it is given.        *)
(****************************************************************************)
EXTENDS Integers, Lists

CONSTANT PAGE    \* bytes of a page

ASSUME PageAssumption == PAGE \in Nat \ {0}

PagesOf(bytes) == (bytes + PAGE - 1) \div PAGE

\* The pages of one PT_LOAD segment: writable ones are mapped no-execute.
SegmentPages(seg) ==
  [k \in 1 .. PagesOf(seg.memsz) |->
     [page |-> (seg.vaddr + (k - 1) * PAGE) \div PAGE, user |-> TRUE, nx |-> seg.writable]]

Ends(im) == {im[k].vaddr + im[k].memsz : k \in 1 .. Len(im)}
max_end(im) == CHOOSE e \in Ends(im) : \A d \in Ends(im) : d <= e

StackPage(im) == PagesOf(max_end(im))

UserPages(im) ==
  FoldList(LAMBDA s, seg : s \o SegmentPages(seg), <<>>, im)
    \o <<[page |-> StackPage(im), user |-> TRUE, nx |-> TRUE]>>
================================================================================
