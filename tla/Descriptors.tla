---------------------------- MODULE Descriptors ----------------------------
(***************************************************************************)
(* The constant-level part of src/src/mmu.c and mmu.h: the shape of the    *)
(* ARM1176 page-table descriptors the VM writes, the decoding of a call's  *)
(* flags into descriptor fields, the index arithmetic on virtual           *)
(* addresses, and the alignment test the map functions assert.             *)
(*                                                                         *)
(* Addresses are the integers the code computes with.  Only the meaning of *)
(* a descriptor is kept: the position of each field inside its word is     *)
(* abstracted into a record.                                               *)
(***************************************************************************)
EXTENDS Integers

-----------------------------------------------------------------------------
(* The lower half of the address space: all of the Pi's RAM and its
   peripherals (0x20000000) lie in it, and TLC's integers are signed. *)
Address == {a \in Nat : a <= 2147483647}

(* Sizes, in bytes and in 4KB pages. *)

PAGE_SIZE    == 4096
LG_PAGE_SIZE == 65536
SECTION_SIZE == 1048576

SLDS_PER_TABLE == 256       \* 4-byte entries of a 1KB coarse page table
REPLICAS       == 16        \* consecutive entries of one large page

SlotIdx == 0 .. SLDS_PER_TABLE - 1

-----------------------------------------------------------------------------
(* Bit n of x, n at most 8. *)
Pow2 == [n \in 0 .. 8 |-> <<1, 2, 4, 8, 16, 32, 64, 128, 256>>[n + 1]]
Bit(x, n) == (x \div Pow2[n]) % 2

(* is_aligned(x, a) is x & (a - 1) = 0: no bit set in both words.  The map
   functions pass the NUMBER OF BITS (12, 16, 20) for a, so only bits of the
   page offset take part.  a is at most 20, hence the five bits. *)
is_aligned(x, a) == \A n \in 0 .. 4 : ~(Bit(x, n) = 1 /\ Bit(a - 1, n) = 1)

(* What a caller who passes the size would have asserted. *)
TrulyAligned(x, size) == x % size = 0

get_first_level_table_idx(va)  == va \div SECTION_SIZE
get_second_level_table_idx(va) == (va \div PAGE_SIZE) % SLDS_PER_TABLE
PageOf(a) == a \div PAGE_SIZE

-----------------------------------------------------------------------------
(* The flags of mmu.h, as the callers combine them. *)
F_NO_ACCESS        == 4
F_NO_USR_ACCESS    == 5
F_NO_USR_WR_ACCESS == 6
F_FULL_ACCESS      == 7
F_CACHEABLE        == 8
F_BUFFERABLE       == 16
F_NOT_GLOBAL       == 64
F_SHARED           == 128
F_EXEC_NEVER       == 256

AP_FULL_ACCESS == 3

(* Permissions default to full access unless bit 2 of the flags is set.
   (A mutant forgets the mask.) *)
FGET_AP_UNMASKED(flags) == IF Bit(flags, 2) = 1 THEN flags ELSE AP_FULL_ACCESS
FGET_AP(flags)  == IF Bit(flags, 2) = 1 THEN flags % 4 ELSE AP_FULL_ACCESS
FGET_C(flags)   == Bit(flags, 3)
FGET_B(flags)   == Bit(flags, 4)
FGET_APX(flags) == Bit(flags, 5)
FGET_NG(flags)  == Bit(flags, 6)
FGET_S(flags)   == Bit(flags, 7)
FGET_XN(flags)  == Bit(flags, 8)

Attr(flags) ==
    [AP |-> FGET_AP(flags), APX |-> FGET_APX(flags), nG |-> FGET_NG(flags),
     XN |-> FGET_XN(flags), S |-> FGET_S(flags), C |-> FGET_C(flags),
     B |-> FGET_B(flags)]

AttrSet == [AP : 0 .. 3, APX : 0 .. 1, nG : 0 .. 1, XN : 0 .. 1,
            S : 0 .. 1, C : 0 .. 1, B : 0 .. 1]

(* memset(&d, 0, sizeof d) *)
ZeroAttr == [AP |-> 0, APX |-> 0, nG |-> 0, XN |-> 0, S |-> 0, C |-> 0,
             B |-> 0]

-----------------------------------------------------------------------------
(* First-level descriptors: the base of a section is the upper 12 bits of a
   physical address, the base of a coarse table is the table's number. *)
FldSet == [tag : {"fault", "coarse", "section"}, base : Nat,
           domain : 0 .. 15, attr : AttrSet]

FaultFld == [tag |-> "fault", base |-> 0, domain |-> 0, attr |-> ZeroAttr]

mk_section(pa, domain, flags) ==
    [tag |-> "section", base |-> pa \div SECTION_SIZE, domain |-> domain,
     attr |-> Attr(flags)]

CoarseFld(table, domain) ==
    [tag |-> "coarse", base |-> table, domain |-> domain, attr |-> ZeroAttr]

(* Second-level descriptors. *)
SldSet == [tag : {"fault", "large", "small"}, base : Nat, attr : AttrSet]

FaultSld == [tag |-> "fault", base |-> 0, attr |-> ZeroAttr]

mk_sm_page(pa, flags) ==
    [tag |-> "small", base |-> pa \div PAGE_SIZE, attr |-> Attr(flags)]

mk_lg_page(pa, flags) ==
    [tag |-> "large", base |-> pa \div LG_PAGE_SIZE, attr |-> Attr(flags)]

(* How the two C structs read the tag of a second-level entry.  A small page
   carries XN in bit 0, so sm_page_desc_t.tag is bit 1 alone: 0 for a fault
   entry and for a large page.  lg_page_desc_t.tag is both bits. *)
SmTag(sld) == IF sld.tag = "small" THEN 1 ELSE 0
LgTag(sld) == CASE sld.tag = "fault" -> 0
                [] sld.tag = "large" -> 1
                [] sld.tag = "small" -> 2 + sld.attr.XN

(* section_check_valid: what section_print asserts of a section. *)
section_check_valid(fld) ==
    fld.attr.S = 0 /\ fld.attr.C = 0 /\ fld.attr.B = 0

-----------------------------------------------------------------------------
(* The hardware walk of one second-level entry for page p (ARM1176 B4-31):  *)
(* a large page takes the low four bits of the page number from p itself.   *)
Unmapped == [frame |-> -1, domain |-> 0, attr |-> ZeroAttr]

Translation(frame, domain, attr) ==
    [frame |-> frame, domain |-> domain, attr |-> attr]

WalkSld(sld, domain, p) ==
    CASE sld.tag = "fault" -> Unmapped
      [] sld.tag = "small" -> Translation(sld.base, domain, sld.attr)
      [] sld.tag = "large" ->
            Translation(sld.base * REPLICAS + (p % REPLICAS), domain, sld.attr)
=============================================================================
