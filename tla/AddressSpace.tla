---------------------------- MODULE AddressSpace -----------------------------
(****************************************************************************)
(* What the page tables owe their users.  A user asks for pages, each with   *)
(* the rights it is to have; they are granted in that order and exactly as   *)
(* asked, each in a frame that no other page shows, or the user is refused   *)
(* and nothing changes.  No page is remapped, lost or given other rights.    *)
(****************************************************************************)
EXTENDS Integers, Sequences

CONSTANTS Pages, Frames,
          Unmapped        \* the translation of a page that is not mapped

VARIABLES space,          \* the translation of every page: [frame, user, nx]
          wanted          \* the requests not granted yet: [page, user, nx]

\* Whatever the bootloader left.  Its mappings never show a frame of the pool.
AInit ==
  /\ \A v \in Pages : space[v].frame \notin Frames
  /\ wanted = <<>>

Ask ==
  /\ wanted = <<>> /\ wanted' # <<>>
  /\ UNCHANGED space

Grant ==
  /\ wanted # <<>> /\ wanted' = Tail(wanted)
  /\ LET r == Head(wanted) IN
     /\ space[r.page] = Unmapped
     /\ \E f \in Frames :
          /\ \A v \in Pages : space[v].frame # f
          /\ space' = [space EXCEPT ![r.page] = [frame |-> f, user |-> r.user, nx |-> r.nx]]

Refuse ==
  /\ wanted # <<>> /\ wanted' = <<>>
  /\ UNCHANGED space

ASpec == AInit /\ [][Ask \/ Grant \/ Refuse]_<<space, wanted>>
==============================================================================
