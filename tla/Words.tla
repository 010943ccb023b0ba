-------------------------------- MODULE Words --------------------------------
(***************************************************************************)
(* Machine words, and the routines of the kernel that take them apart and  *)
(* put them together: linear addresses (memory/memory.cpp), page table     *)
(* entries (memory/pstructs.hpp), segment descriptors (cpu/gdt.cpp), gates *)
(* (cpu/idt.cpp, cpu/interrupts.cpp), control registers (cpu/features.cpp) *)
(* and addresses of the PCI configuration space (io/pci.hpp).              *)
(*                                                                         *)
(* A word is the set of the positions of its ones, so that & is            *)
(* intersection and | is union.                                            *)
(***************************************************************************)
EXTENDS Integers

Low(n) == 0..n - 1                                   \* 2^n - 1
Word == SUBSET Low(64)

Shl(w, n) == {b + n : b \in {c \in w : c + n < 64}}
Shr(w, n) == {b - n : b \in {c \in w : c >= n}}

\* A signed int of 32 bits taken for a word.
SignExtended(w) == IF 31 \in w THEN w \union (32..63) ELSE w

\* What (w & (mask << n)) >> n yields for a mask of the given width.
Field(w, n, width) == Shr(w \intersect Shl(Low(width), n), n)

-----------------------------------------------------------------------------
(* Linear addresses. *)

\* One index of nine bits behind what the address holds so far.
Behind(vaddr, index) == Shl(vaddr, 9) \union (index \intersect Low(9))

FormLinearAddress(pm4le_i, pdpte_i, pde_i, pt_i, offset) ==
    Shl(Behind(Behind(Behind(Behind(Low(16), pm4le_i), pdpte_i), pde_i), pt_i), 12)
        \union (offset \intersect Low(12))

\* Mistake: the two middle fields begin at the same bit.
IndexShared(vaddr, level) == Field(vaddr, IF level = 3 THEN 21 ELSE 3 + 9 * level, 9)

\* The index into the table of a level, 4 for the top.
Index(vaddr, level) == Field(vaddr, 3 + 9 * level, 9)

PageOffset(vaddr) == vaddr \intersect Low(12)

\* An address the processor accepts.
Canonical(vaddr) == (47..63) \subseteq vaddr \/ (47..63) \intersect vaddr = {}

-----------------------------------------------------------------------------
(* Page table entries and cr3. *)

Present(entry) == 0 \in entry
\* 0xFFF'FFFF << 12 is an int, and a negative one.
AddressMask == SignExtended(Shl(Low(28), 12) \intersect Low(32))

address(entry) == entry \intersect AddressMask

PM4LAddress(cr3) == Shl(Shr(cr3, 12), 12)

\* x8664::features::getPML4 names the number of the page, not its address.
getPML4(cr3) == Shr(cr3 \intersect AddressMask, 12)

-----------------------------------------------------------------------------
(* Segment descriptors. *)

\* >> binds tighter than &: the two upper bytes are the lowest byte again.
constructSegtor(vaddr, limit, accessbyte, flagslimit) ==
    [limit0 |-> limit, accessbyte |-> accessbyte, flags_limit |-> flagslimit,
     base0 |-> vaddr \intersect Low(16),
     base1 |-> vaddr \intersect Shr(Shl(Low(8), 16), 16),
     base2 |-> vaddr \intersect Shr(Shl(Low(8), 24), 24)]

\* The access byte is 0b1000'1001: present, an available task state segment.
constructTsstor(vaddr, limit) ==
    [limit0 |-> limit \intersect Low(16), accessbyte |-> {0, 3, 7},
     flags_limit |-> Field(limit, 16, 4),
     base0 |-> vaddr \intersect Low(16),
     base1 |-> Field(vaddr, 16, 8),
     base2 |-> Field(vaddr, 24, 8),
     base3 |-> Field(vaddr, 32, 32)]

\* What the processor reads.
SegmentBase(d) == d.base0 \union Shl(d.base1, 16) \union Shl(d.base2, 24)
TssBase(d) == SegmentBase(d) \union Shl(d.base3, 32)
Limit(d) == d.limit0 \union Shl(d.flags_limit \intersect Low(4), 16)

-----------------------------------------------------------------------------
(* Gates. *)

\* Present, for the kernel only, an interrupt gate: 0b1'00'0'1110'00000'000.
constructIdtGate(vaddr) ==
    [offset0 |-> vaddr \intersect Low(16), segment_selector |-> {3},
     p_dpl_gatetype_ist |-> {9, 10, 11, 15},
     offset1 |-> Field(vaddr, 16, 16), offset2 |-> Field(vaddr, 32, 32)]

\* 0xFFFF << 0x10 is a negative int too; the conversion to 16 bits drops what it
\* lets through.  The selector and the flags are not set.
formInterruptGate(vaddr, segSelector) ==
    [offset0 |-> vaddr \intersect Low(16), segment_selector |-> {},
     p_dpl_gatetype_ist |-> {},
     offset1 |-> Shr(vaddr \intersect SignExtended(Shl(Low(16), 16)), 16) \intersect Low(16),
     offset2 |-> Field(vaddr, 32, 32)]

\* What the processor reads.
GateOffset(gate) == gate.offset0 \union Shl(gate.offset1, 16) \union Shl(gate.offset2, 32)
GatePresent(gate) == 15 \in gate.p_dpl_gatetype_ist

-----------------------------------------------------------------------------
(* PCI configuration addresses. *)

FormConfigAddress(enable, busn, devn, funcn, regOffset) ==
    (IF enable THEN {31} ELSE {})
        \union Shl(busn, 16) \union Shl(devn, 11) \union Shl(funcn, 8)
        \union (regOffset \intersect (2..7))

\* What the host bridge reads.
ConfigBus(address32) == Field(address32, 16, 8)
ConfigDevice(address32) == Field(address32, 11, 5)
=============================================================================
