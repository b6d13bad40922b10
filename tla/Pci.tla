--------------------------------- MODULE Pci ---------------------------------
(****************************************************************************)
(* PCI enumeration (kernel/src/drivers/pci.rs) and the drivers that only     *)
(* look for their device on bus 0.  A function of the bus is the record of   *)
(* its vendor, device, class, subclass and capability list; a register a     *)
(* driver reads and prints is left out.                                      *)
(****************************************************************************)
EXTENDS Integers, Lists

CONSTANT Slots   \* slots of bus 0, 0 .. Slots-1 (32)

VARIABLES
  bus,      \* per slot: the multi-function bit and the functions that answer
  chips     \* fixed registers: HPET counter present, VBE adapter id and latch

hardware == <<bus, chips>>

\* A function answers with a vendor other than 0 and 0xFFFF.
is_present(slot, func) == slot \in DOMAIN bus /\ func \in DOMAIN bus[slot].funcs

\* The devices probe_bus0 pushes for a slot.  Function 0 is pushed only when no
\* other function was.
SlotDevices(slot) ==
  LET others == IF bus[slot].multi THEN Keep(<<1, 2, 3, 4, 5, 6, 7>>, {f \in 1 .. 7 : is_present(slot, f)}) ELSE <<>>
      listed == IF others = <<>> THEN <<0>> ELSE others
  IN  [i \in DOMAIN listed |-> bus[slot].funcs[listed[i]]]

probe_bus0 ==
  FoldList(LAMBDA found, slot : IF is_present(slot, 0) THEN found \o SlotDevices(slot) ELSE found,
           <<>>, [i \in 1 .. Slots |-> i - 1])

-----------------------------------------------------------------------------
(* The capability list of a function: caps is indexed by the u8 pointers that *)
(* occur in it, first is the one at 0x34, and 0 ends the list.  kind tells     *)
(* the capabilities that virtio_blk's caps looks at from all others; addr is   *)
(* where the BAR and the offset lead.                                          *)

U8 == 256

\* The largest offset from its pointer that is read of a capability, the
\* pointer to the next one included.
Extent(cap) == CASE cap.kind = "other" -> 1 [] cap.kind = "notify" -> 19 [] OTHER -> 11

\* cp + offset is computed in a u8.
Overflows(d, cp) == cp + Extent(d.caps[cp]) >= U8

\* The list comes to its end.
CapsEnd(d) ==
  LET n == Cardinality(DOMAIN d.caps)
      at[i \in 0 .. n] == IF i = 0 THEN d.first ELSE IF at[i - 1] = 0 THEN 0 ELSE d.caps[at[i - 1]].next
  IN  at[n] = 0

-----------------------------------------------------------------------------
(* What each driver looks for *)

is_virtio_blk(d) == d.vendor = \h1AF4 /\ d.device \in {\h1041, \h1001} /\ d.class = 1
is_ahci(d) == d.class = 1 /\ d.subclass = 6
is_nvme(d) == d.class = 1 /\ d.subclass = 8
is_e1000(d) == d.vendor = \h8086 /\ d.device = \h100E
is_rtl8139(d) == d.vendor = \h10EC /\ d.device = \h8139
is_uhci(d) == d.vendor = \h8086 /\ d.device = \h7020
is_ehci(d) == d.class = 12 /\ d.subclass = 3

\* The found=1 or ABSENT each init reports.
ahci_init == Position(probe_bus0, is_ahci) # 0
nvme_init == Position(probe_bus0, is_nvme) # 0
e1000_init == Position(probe_bus0, is_e1000) # 0
rtl8139_init == Position(probe_bus0, is_rtl8139) # 0
uhci_init == Position(probe_bus0, is_uhci) # 0
ehci_init == Position(probe_bus0, is_ehci) # 0

\* The capabilities register has bit 15 set.
hpet_init == chips.hpet

\* Reported whatever the version register reads.
ioapic_init == TRUE

\* The adapter answers its id, and the width written is read back not zero.
vbe_init == chips.vbe /\ chips.latch

\* The detect-only drivers in the order init_all calls them.
Reports == <<ahci_init, nvme_init, e1000_init, rtl8139_init, uhci_init, ehci_init,
             hpet_init, ioapic_init, vbe_init>>
=============================================================================
