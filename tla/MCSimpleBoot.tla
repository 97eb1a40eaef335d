---------------------------- MODULE MCSimpleBoot ---------------------------
(***************************************************************************)
(* Files of a word and a byte, and of a word too many for the room below   *)
(* notmain.                                                                *)
(***************************************************************************)
EXTENDS SimpleBoot, TLC

TwoFiles == {<<5, 0, 0, 0, 9>>, [i \in 1 .. 10 |-> i]}

(* Check value of CRC-32, and two entries of the table in simple-boot.h. *)
ASSUME CrcAssumption ==
    /\ crc32(<<49, 50, 51, 52, 53, 54, 55, 56, 57>>) = <<38, 57, 244, 203>>
    /\ crc32_tab[1] = <<150, 48, 7, 119>> /\ crc32_tab[255] = <<141, 239, 2, 45>>

(* RunsWhatWasSent is about plain files. *)
ASSUME PlainAssumption == \A p \in TwoFiles : Plain(p)
=============================================================================
