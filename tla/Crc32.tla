------------------------------- MODULE Crc32 -------------------------------
(***************************************************************************)
(* Bytes, 32-bit words and crc32 as shared-code/simple-boot.h has them.  A *)
(* word is the sequence of its four bytes, lowest first: the order in      *)
(* which put_uint sends and get_uint reads them, and the order in which    *)
(* crc32 meets the bytes of an unsigned.                                   *)
(***************************************************************************)
EXTENDS Integers, Sequences

Byte == 0 .. 255
Word == [1 .. 4 -> Byte]

(* A small code as a word. *)
Code(v) == <<v, 0, 0, 0>>

-----------------------------------------------------------------------------
(* Exclusive or: of the bits that count p, of four bits, of bytes. *)
XorBit(a, b, p) == IF (a \div p) % 2 = (b \div p) % 2 THEN 0 ELSE p
XorNibble ==
    [a \in 0 .. 15 |-> [b \in 0 .. 15 |->
        XorBit(a, b, 1) + XorBit(a, b, 2) + XorBit(a, b, 4) + XorBit(a, b, 8)]]
Xor(a, b) == 16 * XorNibble[a \div 16][b \div 16] + XorNibble[a % 16][b % 16]

(* One shift of a word to the right, and the reversed polynomial when a one
   falls out. *)
Poly == <<32, 131, 184, 237>>
ShiftRight(w) == [i \in 1 .. 4 |-> w[i] \div 2
                                     + IF i < 4 THEN 128 * (w[i + 1] % 2) ELSE 0]
CrcBit(w) ==
    LET s == ShiftRight(w)
    IN  IF w[1] % 2 = 0 THEN s ELSE [i \in 1 .. 4 |-> Xor(s[i], Poly[i])]
CrcNibble(w) == CrcBit(CrcBit(CrcBit(CrcBit(w))))

(* The 256 words the header spells out, lines 27-80. *)
crc32_tab == [b \in Byte |-> CrcNibble(CrcNibble(Code(b)))]

(* crc = crc32_tab[(crc ^ byte) & 0xFF] ^ (crc >> 8). *)
CrcByte(c, b) ==
    LET t == crc32_tab[Xor(c[1], b)]
    IN  <<Xor(t[1], c[2]), Xor(t[2], c[3]), Xor(t[3], c[4]), t[4]>>

(* From ~0 over all bytes, and complemented. *)
crc32(s) ==
    LET crc[n \in 0 .. Len(s)] ==
            IF n = 0 THEN <<255, 255, 255, 255>> ELSE CrcByte(crc[n - 1], s[n])
    IN  [i \in 1 .. 4 |-> 255 - crc[Len(s)][i]]
=============================================================================
