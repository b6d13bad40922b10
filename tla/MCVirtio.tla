------------------------------ MODULE MCVirtio -------------------------------
(****************************************************************************)
(* Instance of VirtioBlk alone with a caller: two sectors, frames that were   *)
(* zero when they were allocated.                                             *)
(****************************************************************************)
EXTENDS VirtioBlk

MCLeftovers == {[used |-> 0, slot |-> 0]}

Spec == VirtioInit /\ [][VirtioNext(0 .. (DiskSize - 1))]_<<virtio, blockio>>
=============================================================================
