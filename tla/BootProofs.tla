----------------------------- MODULE BootProofs ----------------------------
(***************************************************************************)
(* Proofs about SimpleBoot, for files of any content and any length and    *)
(* for any checksum: the type invariant after any faults; that success is  *)
(* not reported of a file the pi did not accept, after one fault; and that *)
(* what runs is what was sent, without faults.                             *)
(*                                                                         *)
(* BootInv is the type invariant made inductive: a word is copied only     *)
(* while the size asks for one more.  AnswerInv says, for each place of    *)
(* my-install, which bytes can be between it and a pi that has accepted    *)
(* nothing in this run: error codes, the echo, and, where the final ACK    *)
(* will be read, nothing that begins with the byte 5, even if one byte is  *)
(* lost and the rest moves up.  SessionInv says, for each place of the pi, *)
(* which words of which run are between it and my-install.                 *)
(***************************************************************************)
EXTENDS SimpleBoot, SequenceTheorems, WellFoundedInduction, TLAPS

-----------------------------------------------------------------------------
(* Induction over sets of numbers. *)
LEMMA Induction ==
    ASSUME NEW S, 0 \in S, \A n \in Nat : n \in S => n + 1 \in S
    PROVE  Nat \subseteq S
<1> DEFINE T == Nat \ S
<1> SUFFICES ASSUME T # {} PROVE FALSE
    OBVIOUS
<1>1. PICK x \in T : \A y \in T : ~(<<y, x>> \in OpToRel(<, Nat))
    BY NatLessThanWellFounded, WFMin
<1>2. x # 0 /\ x \in Nat
    OBVIOUS
<1>3. x - 1 \in Nat /\ x - 1 < x
    BY <1>2
<1>4. x - 1 \notin T
    <2>1. <<x - 1, x>> \in OpToRel(<, Nat)
        BY <1>2, <1>3 DEF OpToRel
    <2> QED BY <1>1, <2>1, Zenon
<1>5. x - 1 \in S /\ (x - 1) + 1 = x
    BY <1>3, <1>4
<1> QED BY <1>1, <1>3, <1>5

-----------------------------------------------------------------------------
(* The checksum of bytes is a word. *)
LEMMA XorType ==
    ASSUME NEW a \in Byte, NEW b \in Byte
    PROVE  Xor(a, b) \in Byte
<1>1. \A x, y \in 0 .. 15 : XorNibble[x][y] \in 0 .. 15
    <2> TAKE x, y \in 0 .. 15
    <2>1. XorNibble[x][y] = XorBit(x, y, 1) + XorBit(x, y, 2) + XorBit(x, y, 4) + XorBit(x, y, 8)
        BY Zenon DEF XorNibble
    <2>2. \A p : XorBit(x, y, p) \in {0, p}
        BY DEF XorBit
    <2>3. /\ XorBit(x, y, 1) \in {0, 1} /\ XorBit(x, y, 2) \in {0, 2}
          /\ XorBit(x, y, 4) \in {0, 4} /\ XorBit(x, y, 8) \in {0, 8}
        BY <2>2
    <2> QED BY <2>1, <2>3
<1>2. a \div 16 \in 0 .. 15 /\ b \div 16 \in 0 .. 15 /\ a % 16 \in 0 .. 15 /\ b % 16 \in 0 .. 15
    BY DEF Byte
<1>3. \A x, y \in 0 .. 15 : 16 * x + y \in 0 .. 255
    OBVIOUS
<1> QED BY <1>1, <1>2, <1>3 DEF Xor, Byte

LEMMA WordOf ==
    ASSUME NEW a \in Byte, NEW b \in Byte, NEW c \in Byte, NEW d \in Byte
    PROVE  <<a, b, c, d>> \in Word
BY DEF Word

LEMMA CrcBitType ==
    ASSUME NEW w \in Word
    PROVE  CrcBit(w) \in Word
<1>1. \A i \in 1 .. 4 : w[i] \in Byte
    BY DEF Word
<1>2. ShiftRight(w) \in Word
    <2>1. ASSUME NEW i \in 1 .. 4
          PROVE  w[i] \div 2 + (IF i < 4 THEN 128 * (w[i + 1] % 2) ELSE 0) \in Byte
        <3>1. w[i] \div 2 \in 0 .. 127
            BY <1>1 DEF Byte
        <3>2. i < 4 => 128 * (w[i + 1] % 2) \in {0, 128}
            <4>1. \A x \in Byte : 128 * (x % 2) \in {0, 128}
                BY DEF Byte
            <4> QED BY <1>1, <4>1
        <3> QED BY <3>1, <3>2 DEF Byte
    <2> QED BY <2>1 DEF ShiftRight, Word
<1>3. PICK s \in Word : s = ShiftRight(w)
    BY <1>2
<1>4. \A i \in 1 .. 4 : Poly[i] \in Byte
    BY DEF Poly, Byte
<1>5. \A i \in 1 .. 4 : Xor(s[i], Poly[i]) \in Byte
    BY <1>4, XorType DEF Word
<1>6. [i \in 1 .. 4 |-> Xor(s[i], Poly[i])] \in Word
    BY <1>5 DEF Word
<1> QED BY <1>3, <1>6 DEF CrcBit

LEMMA TabType == \A b \in Byte : crc32_tab[b] \in Word
<1> TAKE b \in Byte
<1>1. Code(b) \in Word
    <2>1. 0 \in Byte
        BY DEF Byte
    <2> QED BY <2>1, WordOf DEF Code
<1>2. \A w \in Word : CrcNibble(w) \in Word
    BY CrcBitType DEF CrcNibble
<1>3. crc32_tab[b] = CrcNibble(CrcNibble(Code(b)))
    BY DEF crc32_tab
<1> QED BY <1>1, <1>2, <1>3

LEMMA CrcByteType ==
    ASSUME NEW c \in Word, NEW b \in Byte
    PROVE  CrcByte(c, b) \in Word
<1>1. \A i \in 1 .. 4 : c[i] \in Byte
    BY DEF Word
<1>2. Xor(c[1], b) \in Byte
    BY <1>1, XorType
<1>3. PICK t \in Word : t = crc32_tab[Xor(c[1], b)]
    BY <1>2, TabType
<1>4. \A i \in 1 .. 4 : t[i] \in Byte
    BY DEF Word
<1>5. CrcByte(c, b) = <<Xor(t[1], c[2]), Xor(t[2], c[3]), Xor(t[3], c[4]), t[4]>>
    BY <1>3 DEF CrcByte
<1>6. /\ Xor(t[1], c[2]) \in Byte /\ Xor(t[2], c[3]) \in Byte /\ Xor(t[3], c[4]) \in Byte
      /\ t[4] \in Byte
    BY <1>1, <1>4, XorType
<1> QED BY <1>5, <1>6, WordOf

(* What the recursion of crc32 computes, K bytes into s. *)
IsCrc(h, s, K) ==
    h = [n \in 0 .. K |-> IF n = 0 THEN <<255, 255, 255, 255>> ELSE CrcByte(h[n - 1], s[n])]

LEMMA CrcExists ==
    ASSUME NEW s, NEW K \in Nat
    PROVE  \E h : IsCrc(h, s, K)
<1> DEFINE ones == <<255, 255, 255, 255>>
           S == {n \in Nat : \E h : IsCrc(h, s, n)}
<1>1. 0 \in S
    <2>1. IsCrc([n \in 0 .. 0 |-> ones], s, 0)
        BY DEF IsCrc
    <2> QED BY <2>1
<1>2. ASSUME NEW n \in Nat, n \in S PROVE n + 1 \in S
    <2>1. PICK h : IsCrc(h, s, n)
        BY <1>2
    <2> DEFINE g == [k \in 0 .. n + 1 |-> IF k = n + 1 THEN CrcByte(h[n], s[n + 1]) ELSE h[k]]
    <2>2. ASSUME NEW k \in 0 .. n + 1
          PROVE  g[k] = IF k = 0 THEN ones ELSE CrcByte(g[k - 1], s[k])
        <3>1. CASE k = 0
            BY <2>1, <3>1 DEF IsCrc
        <3>2. CASE k \in 1 .. n
            <4>1. g[k] = h[k] /\ g[k - 1] = h[k - 1]
                BY <3>2
            <4>2. h[k] = IF k = 0 THEN ones ELSE CrcByte(h[k - 1], s[k])
                <5>1. k \in 0 .. n
                    BY <3>2
                <5> QED BY <2>1, <5>1, Zenon DEF IsCrc
            <4> QED BY <3>2, <4>1, <4>2
        <3>3. CASE k = n + 1
            <4>1. g[k] = CrcByte(h[n], s[n + 1]) /\ g[k - 1] = h[n]
                BY <3>3
            <4> QED BY <3>3, <4>1
        <3> QED BY <3>1, <3>2, <3>3
    <2>3. IsCrc(g, s, n + 1)
        BY <2>2, Zenon DEF IsCrc
    <2> QED BY <2>3
<1> HIDE DEF S
<1>3. Nat \subseteq S
    BY <1>1, <1>2, Induction
<1> QED BY <1>3 DEF S

LEMMA Crc32Type ==
    ASSUME NEW s \in Seq(Byte)
    PROVE  crc32(s) \in Word
<1>0. Len(s) \in Nat
    OBVIOUS
<1> DEFINE crc == CHOOSE h : IsCrc(h, s, Len(s))
<1>1. IsCrc(crc, s, Len(s))
    <2>1. \E h : IsCrc(h, s, Len(s))
        BY <1>0, CrcExists
    <2> QED BY <2>1, Zenon
<1>2. crc32(s) = [i \in 1 .. 4 |-> 255 - crc[Len(s)][i]]
    BY Zenon DEF crc32, IsCrc
<1> HIDE DEF crc
<1> DEFINE S == {n \in Nat : n <= Len(s) => crc[n] \in Word}
<1>3. 0 \in S
    <2>1. crc[0] = <<255, 255, 255, 255>>
        BY <1>0, <1>1 DEF IsCrc
    <2>2. 255 \in Byte
        BY DEF Byte
    <2>3. <<255, 255, 255, 255>> \in Word
        BY <2>2, WordOf
    <2> QED BY <2>1, <2>3
<1>4. ASSUME NEW n \in Nat, n \in S PROVE n + 1 \in S
    <2> SUFFICES ASSUME n + 1 <= Len(s) PROVE crc[n + 1] \in Word
        OBVIOUS
    <2>1. n + 1 \in 1 .. Len(s) /\ (n + 1) - 1 = n /\ n <= Len(s) /\ s[n + 1] \in Byte
        BY <1>0
    <2>2. crc[n + 1] = CrcByte(crc[n], s[n + 1])
        <3>1. n + 1 \in 0 .. Len(s) /\ n + 1 # 0
            BY <1>0, <2>1
        <3>2. crc[n + 1] = IF n + 1 = 0 THEN <<255, 255, 255, 255>>
                           ELSE CrcByte(crc[(n + 1) - 1], s[n + 1])
            BY <1>1, <3>1, Zenon DEF IsCrc
        <3> QED BY <2>1, <3>1, <3>2
    <2>3. crc[n] \in Word
        BY <1>4, <2>1
    <2> QED BY <2>1, <2>2, <2>3, CrcByteType
<1> HIDE DEF S
<1>5. Nat \subseteq S
    BY <1>3, <1>4, Induction
<1>6. PICK w \in Word : w = crc[Len(s)]
    BY <1>0, <1>5 DEF S
<1>7. \A i \in 1 .. 4 : 255 - w[i] \in Byte
    <2>1. \A i \in 1 .. 4 : w[i] \in Byte
        BY DEF Word
    <2>2. \A x \in Byte : 255 - x \in Byte
        BY DEF Byte
    <2> QED BY <2>1, <2>2
<1> QED BY <1>2, <1>6, <1>7 DEF Word

-----------------------------------------------------------------------------
(* Bytes on a line. *)
Moved(t, s, k) == Len(t) = Len(s) - k /\ \A j \in 1 .. Len(s) - k : t[j] = s[j + k]

(* Four bytes are taken from its front. *)
LEMMA TakeFacts ==
    ASSUME NEW s \in Seq(Byte), Len(s) >= 4
    PROVE  /\ SubSeq(s, 1, 4) \in Word
           /\ \A j \in 1 .. 4 : SubSeq(s, 1, 4)[j] = s[j]
           /\ SubSeq(s, 5, Len(s)) \in Seq(Byte) /\ Moved(SubSeq(s, 5, Len(s)), s, 4)
<1>1. PICK n \in Nat : n = Len(s) /\ n >= 4
    OBVIOUS
<1>2. \A j \in 1 .. n : s[j] \in Byte
    BY <1>1
<1>3. SubSeq(s, 1, 4) = [j \in 1 .. 4 |-> s[j]]
    BY <1>1
<1>4. SubSeq(s, 1, 4) \in Word
    <2>1. \A j \in 1 .. 4 : s[j] \in Byte
        BY <1>1, <1>2
    <2> QED BY <1>3, <2>1 DEF Word
<1>5. SubSeq(s, 5, n) \in Seq(Byte) /\ Len(SubSeq(s, 5, n)) = n - 4
      /\ \A j \in 1 .. n - 4 : SubSeq(s, 5, n)[j] = s[j + 4]
    BY <1>1
<1> QED BY <1>1, <1>3, <1>4, <1>5 DEF Moved

(* Only its end is left. *)
LEMMA EndFacts ==
    ASSUME NEW s \in Seq(Byte), NEW k \in 0 .. 4, k <= Len(s)
    PROVE  /\ SubSeq(s, Len(s) - k + 1, Len(s)) \in Seq(Byte)
           /\ Moved(SubSeq(s, Len(s) - k + 1, Len(s)), s, Len(s) - k)
<1>1. PICK n \in Nat : n = Len(s) /\ k <= n
    OBVIOUS
<1>2. PICK m \in Nat : m = n - k /\ m <= n /\ n - m = k /\ n - k + 1 = m + 1
    <2>1. n - k \in Nat /\ n - k <= n
        BY <1>1
    <2> QED BY <2>1
<1>3. \A j \in m + 1 .. n : s[j] \in Byte
    BY <1>1, <1>2
<1>4. PICK t : t = SubSeq(s, m + 1, n)
    OBVIOUS
<1>5. t \in Seq(Byte) /\ Len(t) = n - m /\ \A j \in 1 .. n - m : t[j] = s[j + m]
    <2>1. /\ t \in Seq(Byte)
          /\ Len(t) = IF m + 1 <= n THEN n - (m + 1) + 1 ELSE 0
          /\ \A i \in 1 .. n - (m + 1) + 1 : t[i] = s[m + 1 + i - 1]
        BY <1>3, <1>4, SubSeqProperties
    <2>3. ASSUME NEW j \in 1 .. n - m PROVE t[j] = s[j + m]
        <3>1. j \in 1 .. n - (m + 1) + 1 /\ m + 1 + j - 1 = j + m
            BY <1>2
        <3>2. t[j] = s[m + 1 + j - 1]
            BY <2>1, <3>1
        <3> QED BY <3>1, <3>2
    <2>4. Len(t) = n - m
        BY <1>2, <2>1
    <2> QED BY <2>1, <2>3, <2>4
<1>6. Moved(t, s, m)
    BY <1>1, <1>5 DEF Moved
<1> QED BY <1>1, <1>2, <1>4, <1>5, <1>6

(* t is s with w after it. *)
Longer(t, s, w) ==
    /\ Len(t) = Len(s) + Len(w)
    /\ \A j \in 1 .. Len(s) : t[j] = s[j]
    /\ \A j \in 1 .. Len(w) : t[Len(s) + j] = w[j]

LEMMA PutFacts ==
    ASSUME NEW s \in Seq(Byte), NEW w \in Seq(Byte)
    PROVE  s \o w \in Seq(Byte) /\ Longer(s \o w, s, w)
<1>1. PICK m \in Nat, n \in Nat : m = Len(s) /\ n = Len(w)
    OBVIOUS
<1>2. /\ s \o w \in Seq(Byte) /\ Len(s \o w) = m + n
      /\ \A i \in 1 .. m + n : (s \o w)[i] = IF i <= m THEN s[i] ELSE w[i - m]
    BY <1>1, ConcatProperties
<1>3. \A j \in 1 .. m : (s \o w)[j] = s[j]
    BY <1>2
<1>4. \A j \in 1 .. n : (s \o w)[m + j] = w[j]
    <2> TAKE j \in 1 .. n
    <2>1. m + j \in 1 .. m + n /\ ~(m + j <= m) /\ (m + j) - m = j
        OBVIOUS
    <2> QED BY <1>2, <2>1
<1> QED BY <1>1, <1>2, <1>3, <1>4 DEF Longer

LEMMA WordIsSeq ==
    ASSUME NEW w \in Word
    PROVE  w \in Seq(Byte) /\ Len(w) = 4 /\ \A j \in 1 .. 4 : w[j] \in Byte
<1>1. /\ DOMAIN w = 1 .. 4 /\ 4 \in Nat /\ w = [j \in 1 .. 4 |-> w[j]]
      /\ \A j \in 1 .. 4 : w[j] \in Byte
    BY DEF Word
<1>2. w \in Seq(Byte)
    BY SeqDef DEF Word
<1>3. Len(w) = 4
    BY <1>1, <1>2, LenProperties
<1> QED BY <1>1, <1>2, <1>3

(* t is s without the byte at i. *)
Shorter(t, s, i) ==
    /\ Len(t) = Len(s) - 1
    /\ \A j \in 1 .. Len(s) - 1 : t[j] = IF j < i THEN s[j] ELSE s[j + 1]

LEMMA WithoutFacts ==
    ASSUME NEW s \in Seq(Byte), NEW i \in 1 .. Len(s)
    PROVE  Without(s, i) \in Seq(Byte) /\ Shorter(Without(s, i), s, i)
<1>1. PICK n \in Nat : n = Len(s) /\ i \in 1 .. n /\ i \in Nat
    OBVIOUS
<1>2. \A j \in 1 .. n : s[j] \in Byte
    BY <1>1
<1>3. PICK a : a = SubSeq(s, 1, i - 1)
    OBVIOUS
<1>4. a \in Seq(Byte) /\ Len(a) = i - 1 /\ \A j \in 1 .. i - 1 : a[j] = s[j]
    <2>1. a = [j \in 1 .. i - 1 |-> s[j]]
        BY <1>1, <1>3
    <2> QED BY <1>1, <1>2, <2>1
<1>5. PICK b : b = SubSeq(s, i + 1, n)
    OBVIOUS
<1>6. b \in Seq(Byte) /\ Len(b) = n - i /\ \A j \in 1 .. n - i : b[j] = s[j + i]
    <2>1. b = [j \in 1 .. n - i |-> s[j + i]]
        BY <1>1, <1>5
    <2> QED BY <1>1, <1>2, <2>1
<1>7. a \o b \in Seq(Byte) /\ Longer(a \o b, a, b)
    BY <1>4, <1>6, PutFacts
<1>8. PICK t : t = a \o b /\ t = Without(s, i)
    BY <1>1, <1>3, <1>5 DEF Without
<1>9. Len(t) = n - 1
    BY <1>1, <1>4, <1>6, <1>7, <1>8 DEF Longer
<1>10. ASSUME NEW j \in 1 .. n - 1 PROVE t[j] = IF j < i THEN s[j] ELSE s[j + 1]
    <2>1. CASE j < i
        <3>1. j \in 1 .. i - 1
            BY <1>1, <2>1
        <3> QED BY <1>4, <1>7, <1>8, <2>1, <3>1 DEF Longer
    <2>2. CASE ~(j < i)
        <3>1. PICK k \in 1 .. n - i : k = j - (i - 1) /\ (i - 1) + k = j /\ k + i = j + 1
            BY <1>1, <2>2
        <3>2. t[(i - 1) + k] = b[k]
            BY <1>4, <1>6, <1>7, <1>8 DEF Longer
        <3> QED BY <1>6, <2>2, <3>1, <3>2
    <2> QED BY <2>1, <2>2
<1> QED BY <1>1, <1>7, <1>8, <1>9, <1>10 DEF Shorter

-----------------------------------------------------------------------------
(* The types, how much of the file has been copied, and how much sent. *)
PiPcs == Listening \cup {"off", "run", "wild"}
Before == {"SOH", "size", "hash", "xSOH", "xsize", "xhash", "ACK"}
UnixPcs == Done \cup Waiting \cup Before \cup {"data", "EOT"}
Files == Programs \cup {<<>>}
PiType == [pc : PiPcs, nBytes : Word, fileHash : Word, mem : Seq(Word)]
UnixType == [pc : UnixPcs, prog : Files, sent : Nat]

Lines == toPi \in Seq(Byte) /\ toUnix \in Seq(Byte)
Counts ==
    /\ acked \in Files /\ loaded \in BOOLEAN
    /\ harmless \in BOOLEAN /\ accepted \subseteq Seq(Byte)
    /\ faults \in 0 .. MaxFaults /\ garbled \in 0 .. MaxGarbled

More(w, n) == ~Short(w) \/ 4 * n < Value(w)
Copying(p) ==
    /\ p.pc \notin {"copy", "EOT", "run"} => p.mem = <<>>
    /\ p.pc = "copy" => More(p.nBytes, Len(p.mem))
    /\ p.pc \in {"EOT", "run"} =>
          /\ ~More(p.nBytes, Len(p.mem))
          /\ Len(p.mem) # 0 => More(p.nBytes, Len(p.mem) - 1)
Sending(u) ==
    /\ u.sent <= Padded(u.prog)
    /\ u.pc \in Before => u.sent = 0
    /\ u.pc = "data" => u.sent < Padded(u.prog)
    /\ u.pc = "EOT" => u.sent = Padded(u.prog)

PiOK == pi \in PiType /\ Copying(pi)
UnixOK == unix \in UnixType /\ Sending(unix)
BootInv == Lines /\ Counts /\ PiOK /\ UnixOK

LEMMA Codes ==
    /\ SOH \in Word /\ BAD_CKSUM \in Word /\ BAD_START \in Word /\ BAD_END \in Word
    /\ TOO_BIG \in Word /\ ACK \in Word /\ NAK \in Word /\ EOT \in Word /\ Code(0) \in Word
<1>1. \A b \in Byte : <<b, 0, 0, 0>> \in Word
    <2>1. 0 \in Byte
        BY DEF Byte
    <2> QED BY <2>1, WordOf
<1>2. 0 \in Byte /\ 1 \in Byte /\ 2 \in Byte /\ 3 \in Byte /\ 4 \in Byte /\ 5 \in Byte /\ 6 \in Byte /\ 7 \in Byte
    BY DEF Byte
<1>3. 120 \in Byte /\ 86 \in Byte /\ 52 \in Byte /\ 18 \in Byte
    BY DEF Byte
<1>4. SOH \in Word
    BY <1>3, WordOf DEF SOH
<1> QED BY <1>1, <1>2, <1>4
        DEF BAD_CKSUM, BAD_START, BAD_END, TOO_BIG, ACK, NAK, EOT, Code

LEMMA FileFacts ==
    ASSUME NEW p \in Files
    PROVE  /\ p \in Seq(Byte) /\ Len(p) \in Nat /\ Len(p) < 65536 /\ Padded(p) \in Nat
           /\ Size(Len(p)) \in Word /\ crc32(p) \in Word /\ crc32(Size(Len(p))) \in Word
           /\ \A i \in Nat \ {0} : ProgWord(p, i) \in Word
<1>1. p \in Seq(Byte) /\ Len(p) \in Nat /\ Len(p) < 65536
    <2>1. CASE p = <<>>
        BY <2>1, EmptySeq
    <2>2. CASE p \in Programs
        BY <2>2, BootAssumption
    <2> QED BY <2>1, <2>2 DEF Files
<1>2. Padded(p) \in Nat
    BY <1>1 DEF Padded
<1>3. Size(Len(p)) \in Word
    <2>1. PICK n \in Nat : n = Len(p) /\ n < 65536
        BY <1>1
    <2>2. n % 256 \in 0 .. 255 /\ n \div 256 \in 0 .. 255 /\ 0 \in 0 .. 255
        <3>1. n \in Nat /\ n < 65536
            BY <2>1
        <3>2. n % 256 \in 0 .. 255
            BY <3>1
        <3>3. n \div 256 \in 0 .. 255
            BY <3>1
        <3> QED BY <3>2, <3>3
    <2>3. n % 256 \in Byte /\ n \div 256 \in Byte /\ 0 \in Byte
        BY <2>2, Zenon DEF Byte
    <2> QED BY <2>1, <2>3, WordOf DEF Size
<1>4. crc32(p) \in Word /\ crc32(Size(Len(p))) \in Word
    BY <1>1, <1>3, Crc32Type, WordIsSeq
<1>5. ASSUME NEW i \in Nat \ {0} PROVE ProgWord(p, i) \in Word
    <2>1. ASSUME NEW j \in Int, j >= 1 PROVE (IF j <= Len(p) THEN p[j] ELSE 0) \in Byte
        <3>1. 0 \in Byte
            BY DEF Byte
        <3>2. j <= Len(p) => j \in 1 .. Len(p)
            BY <1>1, <2>1
        <3> QED BY <1>1, <3>1, <3>2
    <2>2. ASSUME NEW k \in 1 .. 4
          PROVE  (LET j == 4 * (i - 1) + k IN IF j <= Len(p) THEN p[j] ELSE 0) \in Byte
        <3>1. 4 * (i - 1) + k \in Int /\ 4 * (i - 1) + k >= 1
            OBVIOUS
        <3> QED BY <2>1, <3>1
    <2> QED BY <2>2 DEF ProgWord, Word
<1> QED BY <1>1, <1>2, <1>3, <1>4, <1>5

LEMMA OffOK ==
    /\ Off \in PiType /\ Copying(Off)
    /\ [Off EXCEPT !.pc = "wild"] \in PiType /\ Copying([Off EXCEPT !.pc = "wild"])
BY Codes, EmptySeq DEF Off, PiType, PiPcs, Copying, Listening

LEMMA PiTaken ==
    ASSUME Lines, Len(toPi) >= 4
    PROVE  /\ PiWord \in Word /\ \A j \in 1 .. 4 : PiWord[j] = toPi[j]
           /\ SubSeq(toPi, 5, Len(toPi)) \in Seq(Byte)
           /\ Moved(SubSeq(toPi, 5, Len(toPi)), toPi, 4)
BY TakeFacts DEF Lines, PiWord

LEMMA PiPut ==
    ASSUME Lines, NEW w \in Word
    PROVE  toUnix \o w \in Seq(Byte) /\ Longer(toUnix \o w, toUnix, w)
BY PutFacts, WordIsSeq DEF Lines

LEMMA CopyFacts ==
    ASSUME NEW n
    PROVE  /\ CopiesMore(n) <=> More(pi.nBytes, n)
           /\ CopyPc(n) = IF More(pi.nBytes, n) THEN "copy" ELSE "EOT"
BY Zenon DEF CopiesMore, CopyPc, More

(* What was copied is a sequence of bytes. *)
LEMMA MemoryType ==
    ASSUME pi \in PiType, Copying(pi), pi.pc = "EOT"
    PROVE  Memory(pi.mem, Value(pi.nBytes)) \in Seq(Byte)
<1>1. PICK n \in Nat, mem \in Seq(Word) : mem = pi.mem /\ n = Len(mem)
    BY DEF PiType
<1>2. PICK v \in Nat : v = Value(pi.nBytes)
    <2>1. PICK w \in Word : w = pi.nBytes
        BY DEF PiType
    <2>2. w[1] \in Nat /\ w[2] \in Nat
        <3>1. \A b \in Byte : b \in Nat
            BY DEF Byte
        <3> QED BY <3>1, WordIsSeq
    <2>3. Value(w) \in Nat
        BY <2>2 DEF Value
    <2> QED BY <2>1, <2>3
<1>3. v <= 4 * n
    BY <1>1, <1>2 DEF Copying, More
<1>4. ASSUME NEW j \in 1 .. v PROVE mem[(j + 3) \div 4][((j - 1) % 4) + 1] \in Byte
    <2>1. PICK i \in Nat : i = (j + 3) \div 4
        OBVIOUS
    <2>2. PICK k \in Nat : k = ((j - 1) % 4) + 1
        OBVIOUS
    <2>3. i \in 1 .. n /\ k \in 1 .. 4
        BY <1>3, <2>1, <2>2
    <2>4. mem[i] \in Word
        BY <1>1, <2>3
    <2> QED BY <2>1, <2>2, <2>3, <2>4, WordIsSeq
<1>5. Memory(mem, v) = [j \in 1 .. v |-> mem[(j + 3) \div 4][((j - 1) % 4) + 1]]
    BY Zenon DEF Memory
<1>6. Memory(mem, v) \in Seq(Byte)
    BY <1>4, <1>5, SeqDef
<1> QED BY <1>1, <1>2, <1>6

LEMMA PiTypes ==
    ASSUME BootInv, PiStep
    PROVE  BootInv'
<1>1. Lines /\ pi \in PiType /\ Copying(pi) /\ Len(toPi) >= 4 /\ PiTakes
    BY DEF BootInv, PiOK, PiStep, PiSOH, PiSize, PiHash, PiACK, PiCopy, PiEOT, PiGets
<1>2. toPi' \in Seq(Byte) /\ PiWord \in Word
    BY <1>1, PiTaken DEF PiTakes
<1>3. Counts' /\ UnixOK'
    <2>1. /\ UNCHANGED <<unix, acked, harmless, faults, garbled>>
          /\ loaded' \in {loaded, TRUE}
        BY DEF PiStep, PiSOH, PiSize, PiHash, PiACK, PiCopy, PiEOT
    <2>2. PICK m : m = Memory(pi.mem, Value(pi.nBytes))
        OBVIOUS
    <2>3. accepted' = accepted \/ (pi.pc = "EOT" /\ accepted' = accepted \cup {m})
        BY <2>2 DEF PiStep, PiSOH, PiSize, PiHash, PiACK, PiCopy, PiEOT, PiGets
    <2>4. accepted' \subseteq Seq(Byte)
        BY <1>1, <2>2, <2>3, MemoryType DEF BootInv, Counts
    <2> QED BY <2>1, <2>4 DEF BootInv, Counts, UnixOK
<1>4. ASSUME NEW w \in Word, PiSends(w) PROVE toUnix' \in Seq(Byte)
    BY <1>1, <1>4, PiPut DEF PiSends
<1>5. ASSUME UNCHANGED toUnix PROVE toUnix' \in Seq(Byte)
    BY <1>1, <1>5 DEF Lines
<1>6. ASSUME NEW c \in Word, die(c) PROVE toUnix' \in Seq(Byte) /\ PiOK'
    <2>1. pi' = Off /\ PiSends(c)
        BY <1>6 DEF die
    <2> QED BY <1>4, <2>1, OffOK DEF PiOK
<1>7. CASE PiSOH
    <2>1. CASE PiWord = SOH /\ pi' = [pi EXCEPT !.pc = "size"] /\ UNCHANGED toUnix
        <3>1. PiOK'
            BY <1>1, <1>7, <2>1 DEF PiSOH, PiGets, PiOK, PiType, Copying, PiPcs, Listening
        <3> QED BY <1>2, <1>3, <1>5, <2>1, <3>1 DEF BootInv, Lines
    <2>2. CASE die(BAD_START)
        BY <1>2, <1>3, <1>6, <2>2, Codes DEF BootInv, Lines
    <2> QED BY <1>7, <2>1, <2>2 DEF PiSOH
<1>8. CASE PiSize
    <2>1. PiOK'
        <3>1. pi' = [pi EXCEPT !.pc = "hash", !.nBytes = PiWord] /\ pi.pc = "size"
            BY <1>8 DEF PiSize, PiGets
        <3>2. pi.mem = <<>>
            BY <1>1, <3>1 DEF Copying
        <3> QED BY <1>1, <1>2, <3>1, <3>2 DEF PiOK, PiType, Copying, PiPcs, Listening
    <2> QED BY <1>2, <1>3, <1>5, <1>8, <2>1 DEF PiSize, BootInv, Lines
<1>9. CASE PiHash
    <2>1. CASE /\ pi' = [pi EXCEPT !.pc = "ack", !.fileHash = PiWord]
               /\ PiSends(SOH \o crc32(pi.nBytes) \o PiWord)
        <3>1. PiOK'
            <4>1. pi.mem = <<>>
                BY <1>1, <1>9 DEF PiHash, PiGets, Copying
            <4> QED BY <1>1, <1>2, <2>1, <4>1 DEF PiOK, PiType, Copying, PiPcs, Listening
        <3>2. crc32(pi.nBytes) \in Seq(Byte)
            BY <1>1, Crc32Type, WordIsSeq DEF PiType
        <3>3. SOH \o crc32(pi.nBytes) \in Seq(Byte) /\ PiWord \in Seq(Byte)
            BY <1>2, <3>2, PutFacts, Codes, WordIsSeq
        <3>4. (SOH \o crc32(pi.nBytes)) \o PiWord \in Seq(Byte)
            BY <3>3, PutFacts
        <3>5. toUnix' \in Seq(Byte)
            BY <1>1, <2>1, <3>4, PutFacts DEF Lines, PiSends
        <3> QED BY <1>2, <1>3, <3>1, <3>5 DEF BootInv, Lines
    <2>2. CASE die(TOO_BIG)
        BY <1>2, <1>3, <1>6, <2>2, Codes DEF BootInv, Lines
    <2> QED BY <1>9, <2>1, <2>2 DEF PiHash
<1>10. CASE PiACK
    <2>1. CASE pi' = [pi EXCEPT !.pc = CopyPc(0)] /\ UNCHANGED toUnix
        <3>1. pi.mem = <<>> /\ Len(pi.mem) = 0
            BY <1>1, <1>10, EmptySeq DEF PiACK, PiGets, Copying
        <3>2. PICK c : c = CopyPc(0)
            OBVIOUS
        <3>3. c \in {"copy", "EOT"} /\ (c = "copy" <=> More(pi.nBytes, 0))
            BY <3>2, CopyFacts
        <3>4. pi' = [pi EXCEPT !.pc = c]
            BY <2>1, <3>2
        <3>5. pi' \in PiType /\ pi'.pc = c /\ pi'.nBytes = pi.nBytes /\ pi'.mem = pi.mem
            BY <1>1, <3>3, <3>4 DEF PiType, PiPcs, Listening
        <3>6. PiOK'
            BY <3>1, <3>3, <3>5 DEF PiOK, Copying
        <3> QED BY <1>2, <1>3, <1>5, <2>1, <3>6 DEF BootInv, Lines
    <2>2. CASE RefusesNoACK
        BY <1>2, <1>3, <1>6, <2>2, Codes DEF BootInv, Lines, RefusesNoACK
    <2> QED BY <1>10, <2>1, <2>2 DEF PiACK
<1>11. CASE PiCopy
    <2>0. PICK n \in Nat : n = Len(pi.mem)
        BY <1>1 DEF PiType
    <2>1. CASE pi' = [pi EXCEPT !.pc = CopyPc(n + 1), !.mem = Append(@, PiWord)]
        <3>1. More(pi.nBytes, n)
            BY <1>1, <1>11, <2>0 DEF PiCopy, PiGets, Copying
        <3>2. PICK c : c = CopyPc(n + 1)
            OBVIOUS
        <3>3. c \in {"copy", "EOT"} /\ (c = "copy" <=> More(pi.nBytes, n + 1))
            BY <3>2, CopyFacts
        <3>4. PICK m : m = Append(pi.mem, PiWord)
            OBVIOUS
        <3>5. m \in Seq(Word) /\ Len(m) = n + 1
            BY <1>1, <1>2, <2>0, <3>4, AppendProperties DEF PiType
        <3>6. pi' = [pi EXCEPT !.pc = c, !.mem = m]
            BY <2>1, <3>2, <3>4
        <3>7. pi' \in PiType /\ pi'.pc = c /\ pi'.nBytes = pi.nBytes /\ pi'.mem = m
            BY <1>1, <3>3, <3>5, <3>6 DEF PiType, PiPcs, Listening
        <3>8. (n + 1) - 1 = n
            BY <2>0
        <3>9. PiOK'
            BY <3>1, <3>3, <3>5, <3>7, <3>8 DEF PiOK, Copying
        <3> QED BY <1>2, <1>3, <1>5, <1>11, <3>9 DEF BootInv, Lines, PiCopy
    <2>2. CASE pi' = [Off EXCEPT !.pc = "wild"]
        BY <1>2, <1>3, <1>5, <1>11, <2>2, OffOK DEF BootInv, Lines, PiOK, PiCopy
    <2> QED BY <1>11, <2>0, <2>1, <2>2 DEF PiCopy
<1>12. CASE PiEOT
    <2>1. CASE pi' = [pi EXCEPT !.pc = "run"] /\ PiSends(ACK)
        <3>1. pi' \in PiType /\ pi'.pc = "run" /\ pi'.nBytes = pi.nBytes /\ pi'.mem = pi.mem
            BY <1>1, <2>1 DEF PiType, PiPcs
        <3>2. PiOK'
            BY <1>1, <1>12, <3>1 DEF PiOK, Copying, PiEOT, PiGets
        <3> QED BY <1>2, <1>3, <1>4, <2>1, <3>2, Codes DEF BootInv, Lines
    <2>2. CASE die(BAD_END) \/ die(BAD_CKSUM)
        BY <1>2, <1>3, <1>6, <2>2, Codes DEF BootInv, Lines
    <2> QED BY <1>12, <2>1, <2>2 DEF PiEOT
<1> QED BY <1>7, <1>8, <1>9, <1>10, <1>11, <1>12 DEF PiStep

LEMMA Arrives ==
    ASSUME Lines, NEW w \in Word, Sends(w)
    PROVE  /\ toPi' \in Seq(Byte)
           /\ pi.pc \in Listening => Longer(toPi', toPi, w)
           /\ pi.pc \notin Listening => toPi' = w
BY PutFacts, WordIsSeq DEF Lines, Sends

LEMMA UnixTaken ==
    ASSUME Lines, Len(toUnix) >= 4
    PROVE  /\ SubSeq(toUnix, 1, 4) \in Word
           /\ \A j \in 1 .. 4 : SubSeq(toUnix, 1, 4)[j] = toUnix[j]
           /\ SubSeq(toUnix, 5, Len(toUnix)) \in Seq(Byte)
           /\ Moved(SubSeq(toUnix, 5, Len(toUnix)), toUnix, 4)
BY TakeFacts DEF Lines

(* A word is sent, and the position moves on. *)
LEMMA SendTypes ==
    ASSUME BootInv, NEW pc \in UnixPcs, NEW w \in Word, NEW next \in UnixPcs,
           Send(pc, w, next), acked' \in Files,
           next \in Before => pc \in Before,
           next = "data" => pc \in Before /\ 0 < Padded(unix.prog),
           next = "EOT" => pc \in Before /\ 0 = Padded(unix.prog)
    PROVE  BootInv'
<1>1. Lines /\ unix \in UnixType /\ Sending(unix) /\ unix.prog \in Files
    BY DEF BootInv, UnixOK, UnixType
<1>2. toPi' \in Seq(Byte) /\ toUnix' = toUnix
    BY <1>1, Arrives DEF Send
<1>3. unix' \in UnixType /\ unix'.pc = next /\ unix'.prog = unix.prog /\ unix'.sent = unix.sent
    BY <1>1 DEF Send, UnixType
<1>4. Sending(unix')
    <2>1. unix.pc = pc
        BY DEF Send
    <2> QED BY <1>1, <1>3, <2>1 DEF Sending
<1>5. Counts'
    BY DEF BootInv, Counts, Send
<1>6. PiOK'
    BY DEF BootInv, PiOK, Send
<1> QED BY <1>1, <1>2, <1>3, <1>4, <1>5, <1>6 DEF BootInv, Lines, UnixOK

LEMMA ExpectTypes ==
    ASSUME BootInv, NEW pc \in Waiting, NEW w, NEW next \in UnixPcs, Expect(pc, w, next),
           next \notin {"data", "EOT"}, next \in Before => pc \in Before
    PROVE  BootInv'
<1>1. Lines /\ unix \in UnixType /\ Sending(unix) /\ Len(toUnix) >= 4
    BY DEF BootInv, UnixOK, Expect
<1>2. toUnix' \in Seq(Byte) /\ toPi' = toPi
    BY <1>1, UnixTaken DEF Expect
<1>3. PICK c : c = IF SubSeq(toUnix, 1, 4) = w THEN next ELSE "failed"
    OBVIOUS
<1>4. c \in UnixPcs /\ c \notin {"data", "EOT"} /\ (c \in Before => pc \in Before)
    BY <1>3 DEF UnixPcs, Done, Before
<1>5. unix' = [unix EXCEPT !.pc = c] /\ unix.pc = pc
    BY <1>3 DEF Expect
<1>6. unix' \in UnixType /\ unix'.pc = c /\ unix'.prog = unix.prog /\ unix'.sent = unix.sent
    BY <1>1, <1>4, <1>5 DEF UnixType
<1>7. UnixOK'
    BY <1>1, <1>4, <1>5, <1>6 DEF Sending, UnixOK
<1>8. Counts' /\ PiOK'
    BY DEF BootInv, Counts, PiOK, Expect
<1> QED BY <1>1, <1>2, <1>7, <1>8 DEF BootInv, Lines

LEMMA SendPcFacts ==
    ASSUME unix.prog \in Files, NEW n \in Nat
    PROVE  /\ SendPc(n) \in {"data", "EOT"}
           /\ SendPc(n) = "data" <=> n < Padded(unix.prog)
BY DEF SendPc

LEMMA UnixTypes ==
    ASSUME BootInv, simple_boot
    PROVE  BootInv'
<1>1. Lines /\ unix \in UnixType /\ Sending(unix) /\ unix.prog \in Files /\ acked \in Files
    BY DEF BootInv, UnixOK, UnixType, Counts
<1>2. PICK p \in Files : p = unix.prog
    BY <1>1
<1>3. /\ Size(Len(p)) \in Word /\ crc32(p) \in Word /\ crc32(Size(Len(p))) \in Word
      /\ Padded(p) \in Nat
    BY FileFacts
<1>4. /\ {"idle", "ok", "failed", "SOH", "size", "hash", "xSOH", "xsize", "xhash", "ACK", "data",
          "EOT", "xACK"} \subseteq UnixPcs
      /\ Waiting = {"xSOH", "xsize", "xhash", "xACK"}
    BY DEF UnixPcs, Done, Waiting, Before
<1>5. CASE Send("SOH", SOH, "size") /\ UNCHANGED acked
    BY <1>1, <1>4, <1>5, Codes, SendTypes DEF Before
<1>6. CASE Send("size", Size(Len(unix.prog)), "hash") /\ UNCHANGED acked
    BY <1>1, <1>2, <1>3, <1>4, <1>6, SendTypes DEF Before
<1>7. CASE Send("hash", crc32(unix.prog), "xSOH") /\ UNCHANGED acked
    BY <1>1, <1>2, <1>3, <1>4, <1>7, SendTypes DEF Before
<1>8. CASE Expect("xSOH", SOH, "xsize")
    BY <1>4, <1>8, ExpectTypes DEF Before
<1>9. CASE Expect("xsize", crc32(Size(Len(unix.prog))), "xhash")
    BY <1>4, <1>9, ExpectTypes DEF Before
<1>10. CASE Expect("xhash", crc32(unix.prog), "ACK")
    BY <1>4, <1>10, ExpectTypes DEF Before
<1>11. CASE SendACK
    <2>1. PICK n \in {"data", "EOT"} :
            /\ n = SendPc(0)
            /\ n = "data" => 0 < Padded(unix.prog)
            /\ n = "EOT" => 0 = Padded(unix.prog)
        BY <1>1, <1>2, <1>3, SendPcFacts
    <2>2. Send("ACK", ACK, n) /\ acked' \in Files
        BY <1>1, <1>11, <2>1 DEF SendACK
    <2> QED BY <1>4, <2>1, <2>2, Codes, SendTypes DEF Before
<1>12. CASE SendData
    <2>1. PICK m \in Nat : m = unix.sent /\ unix.pc = "data" /\ m < Padded(p)
        BY <1>1, <1>2, <1>12 DEF UnixType, Sending, SendData
    <2>2. PICK n \in {"data", "EOT"} : n = SendPc(m + 1) /\ (n = "data" <=> m + 1 < Padded(p))
        BY <1>1, <1>2, SendPcFacts
    <2>3. PICK w \in Word : w = ProgWord(p, m + 1)
        BY FileFacts
    <2>4. Sends(w) /\ unix' = [unix EXCEPT !.pc = n, !.sent = m + 1]
        BY <1>2, <1>12, <2>1, <2>2, <2>3 DEF SendData
    <2>5. toPi' \in Seq(Byte) /\ toUnix' = toUnix
        BY <1>1, <1>12, <2>4, Arrives DEF SendData
    <2>6. unix' \in UnixType /\ unix'.pc = n /\ unix'.prog = p /\ unix'.sent = m + 1
        <3>1. n \in UnixPcs /\ m + 1 \in Nat
            BY <1>4, <2>2
        <3> QED BY <1>1, <1>2, <2>4, <3>1 DEF UnixType
    <2>7. UnixOK'
        <3>1. m + 1 <= Padded(p) /\ (n = "EOT" => m + 1 = Padded(p))
            BY <1>3, <2>1, <2>2
        <3> QED BY <2>2, <2>6, <3>1 DEF UnixOK, Sending, Before
    <2>8. Counts' /\ PiOK'
        BY <1>12 DEF BootInv, Counts, PiOK, SendData
    <2> QED BY <1>1, <2>5, <2>7, <2>8 DEF BootInv, Lines
<1>13. CASE Send("EOT", EOT, "xACK") /\ UNCHANGED acked
    BY <1>1, <1>4, <1>13, Codes, SendTypes DEF Before
<1>14. CASE Expect("xACK", ACK, "ok")
    BY <1>4, <1>14, ExpectTypes DEF Before
<1> QED BY <1>5, <1>6, <1>7, <1>8, <1>9, <1>10, <1>11, <1>12, <1>13, <1>14 DEF simple_boot

LEMMA OtherTypes ==
    ASSUME BootInv, Boot \/ ProgramExits \/ (\E p \in Programs : Start(p)) \/ Timeout
    PROVE  BootInv'
<1>1. /\ Lines /\ pi \in PiType /\ Copying(pi) /\ unix \in UnixType /\ Sending(unix)
      /\ <<>> \in Seq(Byte)
    BY EmptySeq DEF BootInv, PiOK, UnixOK
<1>2. CASE Boot
    <2>1. toPi' \in Seq(Byte) /\ toUnix' = toUnix
        BY <1>1, <1>2, EndFacts DEF Boot, Lines
    <2>2. PiOK'
        BY <1>1, <1>2 DEF Boot, PiOK, PiType, PiPcs, Listening, Copying
    <2>3. Counts' /\ UnixOK'
        BY <1>2 DEF BootInv, Boot, Counts, UnixOK
    <2> QED BY <1>1, <2>1, <2>2, <2>3 DEF BootInv, Lines
<1>3. CASE ProgramExits
    BY <1>3, OffOK DEF ProgramExits, BootInv, Lines, Counts, UnixOK, PiOK
<1>4. ASSUME NEW p \in Programs, Start(p) PROVE BootInv'
    <2>1. toUnix' \in Seq(Byte) /\ toPi' = toPi /\ loaded' = FALSE
        BY <1>1, <1>4 DEF Start, Lines
    <2>2. p \in Files /\ Padded(p) \in Nat
        BY FileFacts DEF Files
    <2>3. unix' = [pc |-> "SOH", prog |-> p, sent |-> 0] /\ "SOH" \in UnixPcs
        BY <1>4 DEF Start, UnixPcs, Before
    <2>4. UnixOK'
        BY <2>2, <2>3 DEF UnixOK, UnixType, Sending
    <2>5. Counts' /\ PiOK'
        BY <1>4, <2>1 DEF BootInv, Start, Harmless, Counts, PiOK
    <2> QED BY <1>1, <2>1, <2>4, <2>5 DEF BootInv, Lines
<1>5. CASE Timeout
    <2>1. unix' = [unix EXCEPT !.pc = "failed"] /\ "failed" \in UnixPcs /\ "failed" \notin Before
        BY <1>5 DEF Timeout, UnixPcs, Done, Before
    <2>2. UnixOK'
        BY <1>1, <2>1 DEF UnixOK, UnixType, Sending
    <2> QED BY <1>1, <1>5, <2>2 DEF Timeout, BootInv, Lines, Counts, PiOK
<1> QED BY <1>2, <1>3, <1>4, <1>5

LEMMA FaultTypes ==
    ASSUME BootInv, Fault
    PROVE  BootInv'
<1>1. /\ Lines /\ pi \in PiType /\ Copying(pi) /\ unix \in UnixType /\ Sending(unix)
    BY DEF BootInv, PiOK, UnixOK
<1>2. /\ faults' \in 0 .. MaxFaults /\ acked' \in Files /\ loaded' \in BOOLEAN
      /\ harmless' \in BOOLEAN /\ accepted' \subseteq Seq(Byte)
    BY BootAssumption DEF Fault, BootInv, Counts
<1>3. CASE Lose
    <2>1. Lines'
        BY <1>1, <1>3, WithoutFacts DEF Lose, FirstWord, Lines
    <2> QED BY <1>2, <1>3, <2>1 DEF Lose, BootInv, Counts, PiOK, UnixOK
<1>4. CASE Garble
    <2>1. PICK b \in Garbled :
            \/ \E i \in 1 .. Len(toPi) : toPi' = [toPi EXCEPT ![i] = b] /\ UNCHANGED toUnix
            \/ \E i \in 1 .. Len(toUnix) : toUnix' = [toUnix EXCEPT ![i] = b] /\ UNCHANGED toPi
        BY <1>4 DEF Garble, FirstWord
    <2>2. b \in Byte
        BY BootAssumption
    <2>3. Lines'
        BY <1>1, <2>1, <2>2, ExceptSeq DEF Lines
    <2>4. garbled' \in 0 .. MaxGarbled
        BY <1>4, BootAssumption DEF Garble, BootInv, Counts
    <2>5. PiOK' /\ UnixOK'
        BY <1>4 DEF Garble, BootInv, PiOK, UnixOK
    <2> QED BY <1>2, <2>3, <2>4, <2>5 DEF BootInv, Counts
<1>5. CASE Kill
    <2>1. unix' = [unix EXCEPT !.pc = "failed"] /\ "failed" \in UnixPcs /\ "failed" \notin Before
        BY <1>5 DEF Kill, UnixPcs, Done, Before
    <2>2. UnixOK'
        BY <1>1, <2>1 DEF UnixOK, UnixType, Sending
    <2> QED BY <1>1, <1>2, <1>5, <2>2 DEF Kill, BootInv, Lines, Counts, PiOK
<1>6. CASE PowerCycle
    <2>1. PiOK'
        BY <1>6, OffOK DEF PowerCycle, PiOK
    <2> QED BY <1>1, <1>2, <1>6, <2>1 DEF PowerCycle, BootInv, Lines, Counts, UnixOK
<1> QED BY <1>3, <1>4, <1>5, <1>6 DEF Fault

LEMMA BootInvAlways == FairSpec => []BootInv
<1>1. Init => BootInv
    <2> SUFFICES ASSUME Init PROVE BootInv
        OBVIOUS
    <2>1. <<>> \in Seq(Byte)
        BY EmptySeq
    <2>2. Lines /\ PiOK
        BY <2>1, OffOK DEF Init, Lines, PiOK
    <2>3. Counts
        <3>1. 0 \in 0 .. MaxFaults /\ 0 \in 0 .. MaxGarbled
            BY BootAssumption
        <3>2. /\ acked \in Files /\ loaded \in BOOLEAN
              /\ harmless \in BOOLEAN /\ accepted \subseteq Seq(Byte)
            BY DEF Init, Files
        <3> QED BY <3>1, <3>2 DEF Init, Counts
    <2>4. UnixOK
        <3>1. <<>> \in Files /\ "idle" \in UnixPcs
            BY DEF Files, UnixPcs, Done
        <3>2. Padded(<<>>) \in Nat
            BY <3>1, FileFacts
        <3> QED BY <3>1, <3>2 DEF Init, UnixOK, UnixType, Sending, Before
    <2> QED BY <2>2, <2>3, <2>4 DEF BootInv
<1>2. BootInv /\ [Next]_vars => BootInv'
    <2> SUFFICES ASSUME BootInv, [Next]_vars PROVE BootInv'
        OBVIOUS
    <2>1. CASE UNCHANGED vars
        BY <2>1 DEF vars, BootInv, Lines, Counts, PiOK, UnixOK
    <2>2. CASE Boot \/ ProgramExits \/ (\E p \in Programs : Start(p)) \/ Timeout
        BY <2>2, OtherTypes
    <2> QED BY <2>1, <2>2, PiTypes, UnixTypes, FaultTypes DEF Next
<1> QED BY <1>1, <1>2, PTL DEF FairSpec, Spec

(* notmain copies no word past the one that holds the last byte of the file, *)
(* and neither side leaves its protocol, for files of any length and any     *)
(* number of faults of any kind.                                             *)
THEOREM BootTypeOKAlways == FairSpec => []BootTypeOK
<1>1. BootInv => BootTypeOK
    <2> SUFFICES ASSUME BootInv PROVE BootTypeOK
        OBVIOUS
    <2>1. pi \in PiType /\ Copying(pi) /\ unix \in UnixType /\ Sending(unix)
        BY DEF BootInv, PiOK, UnixOK
    <2>2. ASSUME pi.pc \in {"EOT", "run"}
          PROVE  Len(pi.mem) = (Value(pi.nBytes) + 3) \div 4
        <3>1. PICK n \in Nat : n = Len(pi.mem)
            BY <2>1 DEF PiType
        <3>2. PICK v \in Nat : v = Value(pi.nBytes)
            <4>1. PICK w \in Word : w = pi.nBytes
                BY <2>1 DEF PiType
            <4>2. w[1] \in Nat /\ w[2] \in Nat
                <5>1. \A b \in Byte : b \in Nat
                    BY DEF Byte
                <5> QED BY <5>1, WordIsSeq
            <4>3. Value(w) \in Nat
                BY <4>2 DEF Value
            <4> QED BY <4>1, <4>3
        <3>3. v <= 4 * n /\ (n # 0 => 4 * (n - 1) < v)
            BY <2>1, <2>2, <3>1, <3>2 DEF Copying, More
        <3>4. n = (v + 3) \div 4
            BY <3>3
        <3> QED BY <3>1, <3>2, <3>4
    <2>3. unix.sent \in 0 .. Padded(unix.prog)
        <3>1. Padded(unix.prog) \in Nat
            BY <2>1, FileFacts DEF UnixType
        <3> QED BY <2>1, <3>1 DEF UnixType, Sending
    <2>4. /\ pi.pc \in Listening \cup {"off", "run", "wild"}
          /\ pi.nBytes \in Word /\ pi.fileHash \in Word /\ pi.mem \in Seq(Word)
        BY <2>1 DEF PiType, PiPcs
    <2>5. unix.prog \in Programs \cup {<<>>}
        BY <2>1 DEF UnixType, Files
    <2>6. unix.pc \in Done \cup Waiting \cup {"SOH", "size", "hash", "ACK", "data", "EOT"}
        BY <2>1 DEF UnixType, UnixPcs, Before, Waiting
    <2>7. /\ acked \in Programs \cup {<<>>} /\ loaded \in BOOLEAN
          /\ harmless \in BOOLEAN /\ accepted \subseteq Seq(Byte)
        BY DEF BootInv, Counts, Files
    <2>8. /\ toPi \in Seq(Byte) /\ toUnix \in Seq(Byte)
          /\ faults \in 0 .. MaxFaults /\ garbled \in 0 .. MaxGarbled
        BY DEF BootInv, Lines, Counts
    <2> QED BY <2>2, <2>3, <2>4, <2>5, <2>6, <2>7, <2>8, Zenon DEF BootTypeOK
<1> QED BY <1>1, BootInvAlways, PTL

-----------------------------------------------------------------------------
(* What the pi says before it has accepted a program of this run: error      *)
(* codes and echoes.  A byte 5 at the place of the last answer, or of the    *)
(* byte after it while one may still be lost, is none of theirs; and one     *)
(* that is lost from an echo shifts what follows by one.                     *)
NoFive(u, i) == i <= Len(u) => u[i] # 5
Rest(u, k, f) ==
    /\ Len(u) >= IF f = 0 THEN k ELSE k - 1
    /\ NoFive(u, k + 1) /\ (f = 0 => NoFive(u, k + 2))
Unread(u, f) ==
    Len(u) # 0 => /\ f = 0 => Len(u) >= 2 /\ u[2] # 120
                  /\ u[1] = 120 => Rest(u, 12, f)
Phase(pc, u, f) ==
    /\ pc \in {"SOH", "size", "hash", "xSOH"} => Unread(u, f)
    /\ pc = "xsize" => Rest(u, 8, f)
    /\ pc = "xhash" => Rest(u, 4, f)
    /\ pc \in {"ACK", "data", "EOT", "xACK"} => Rest(u, 0, f)
    /\ pc # "ok"

Answer(w) ==
    /\ Len(w) >= 2 /\ w[1] # 5 /\ w[2] # 5 /\ w[2] # 120
    /\ w[1] = 120 => Len(w) = 12

LEMMA RestGrows ==
    ASSUME NEW u \in Seq(Byte), NEW w \in Seq(Byte), NEW t, Longer(t, u, w), Answer(w),
           NEW k \in Nat, NEW f \in Nat, Rest(u, k, f)
    PROVE  Rest(t, k, f)
<1>1. PICK m \in Nat, n \in Nat : m = Len(u) /\ n = Len(w) /\ n >= 2
    BY DEF Answer
<1>2. /\ Len(t) = m + n /\ \A j \in 1 .. m : t[j] = u[j]
      /\ t[m + 1] = w[1] /\ t[m + 2] = w[2]
    BY <1>1 DEF Longer
<1>3. t[m + 1] # 5 /\ t[m + 2] # 5
    BY <1>2 DEF Answer
<1>4. m >= k - 1 /\ (f = 0 => m >= k)
    BY <1>1 DEF Rest
<1>5. NoFive(t, k + 1)
    <2>1. CASE m >= k + 1
        BY <1>1, <1>2, <2>1 DEF Rest, NoFive
    <2>2. CASE m = k
        BY <1>3, <2>2 DEF NoFive
    <2>3. CASE m = k - 1
        <3>1. m + 2 = k + 1
            BY <2>3
        <3> QED BY <1>3, <3>1 DEF NoFive
    <2> QED BY <1>1, <1>4, <2>1, <2>2, <2>3
<1>6. f = 0 => NoFive(t, k + 2)
    <2> SUFFICES ASSUME f = 0 PROVE NoFive(t, k + 2)
        OBVIOUS
    <2>1. CASE m >= k + 2
        BY <1>1, <1>2, <2>1 DEF Rest, NoFive
    <2>2. CASE m = k + 1
        <3>1. m + 1 = k + 2
            BY <2>2
        <3> QED BY <1>3, <3>1 DEF NoFive
    <2>3. CASE m = k
        BY <1>3, <2>3 DEF NoFive
    <2> QED BY <1>1, <1>4, <2>1, <2>2, <2>3
<1>7. Len(t) >= IF f = 0 THEN k ELSE k - 1
    BY <1>1, <1>2, <1>4
<1> QED BY <1>5, <1>6, <1>7 DEF Rest

LEMMA RestShrinks ==
    ASSUME NEW u \in Seq(Byte), NEW t, Moved(t, u, 4), NEW k \in Nat, k >= 4, NEW f \in Nat,
           Rest(u, k, f), Len(u) >= 4
    PROVE  Rest(t, k - 4, f)
<1>1. PICK m \in Nat : m = Len(u) /\ m >= 4
    OBVIOUS
<1>2. Len(t) = m - 4 /\ \A j \in 1 .. m - 4 : t[j] = u[j + 4]
    BY <1>1 DEF Moved
<1>3. Len(t) >= IF f = 0 THEN k - 4 ELSE (k - 4) - 1
    BY <1>1, <1>2 DEF Rest
<1>4. ASSUME NEW j \in Nat, j >= 5, NoFive(u, j) PROVE NoFive(t, j - 4)
    <2> SUFFICES ASSUME j - 4 <= m - 4 PROVE t[j - 4] # 5
        BY <1>2 DEF NoFive
    <2>1. j - 4 \in 1 .. m - 4 /\ (j - 4) + 4 = j /\ j <= m
        BY <1>1, <1>4
    <2> QED BY <1>1, <1>2, <1>4, <2>1 DEF NoFive
<1>5. NoFive(t, (k - 4) + 1)
    <2>1. k + 1 \in Nat /\ k + 1 >= 5 /\ (k + 1) - 4 = (k - 4) + 1 /\ NoFive(u, k + 1)
        BY DEF Rest
    <2> QED BY <1>4, <2>1
<1>6. f = 0 => NoFive(t, (k - 4) + 2)
    <2> SUFFICES ASSUME f = 0 PROVE NoFive(t, (k - 4) + 2)
        OBVIOUS
    <2>1. k + 2 \in Nat /\ k + 2 >= 5 /\ (k + 2) - 4 = (k - 4) + 2 /\ NoFive(u, k + 2)
        BY DEF Rest
    <2> QED BY <1>4, <2>1
<1> QED BY <1>3, <1>5, <1>6 DEF Rest

LEMMA RestFaults ==
    ASSUME NEW u \in Seq(Byte), NEW k \in Nat, Rest(u, k, 0)
    PROVE  /\ Rest(u, k, 1)
           /\ \A i \in 1 .. Len(u) : \A t : Shorter(t, u, i) => Rest(t, k, 1)
<1>1. PICK m \in Nat : m = Len(u) /\ m >= k
    BY DEF Rest
<1>2. NoFive(u, k + 1) /\ NoFive(u, k + 2)
    BY DEF Rest
<1>3. Rest(u, k, 1)
    BY <1>1, <1>2 DEF Rest
<1>4. ASSUME NEW i \in 1 .. m, NEW t, Shorter(t, u, i) PROVE Rest(t, k, 1)
    <2>1. Len(t) = m - 1 /\ \A j \in 1 .. m - 1 : t[j] = IF j < i THEN u[j] ELSE u[j + 1]
        BY <1>1, <1>4 DEF Shorter
    <2>2. NoFive(t, k + 1)
        <3> SUFFICES ASSUME k + 1 <= m - 1 PROVE t[k + 1] # 5
            BY <2>1 DEF NoFive
        <3>1. k + 1 \in 1 .. m - 1 /\ k + 1 <= m /\ k + 2 <= m /\ (k + 1) + 1 = k + 2
            BY <1>1
        <3>2. u[k + 1] # 5 /\ u[k + 2] # 5
            BY <1>1, <1>2, <3>1 DEF NoFive
        <3>3. t[k + 1] = IF k + 1 < i THEN u[k + 1] ELSE u[k + 2]
            BY <2>1, <3>1
        <3> QED BY <3>2, <3>3
    <2> QED BY <1>1, <2>1, <2>2 DEF Rest
<1> QED BY <1>1, <1>3, <1>4

LEMMA UnreadGrows ==
    ASSUME NEW u \in Seq(Byte), NEW w \in Seq(Byte), NEW t, Longer(t, u, w), Answer(w),
           NEW f \in Nat, Unread(u, f)
    PROVE  Unread(t, f)
<1>1. PICK m \in Nat, n \in Nat : m = Len(u) /\ n = Len(w) /\ n >= 2
    BY DEF Answer
<1>2. /\ Len(t) = m + n /\ \A j \in 1 .. m : t[j] = u[j]
      /\ \A j \in 1 .. n : t[m + j] = w[j]
    BY <1>1 DEF Longer
<1>3. CASE m = 0
    <2>1. Len(t) = n /\ \A j \in 1 .. n : t[j] = w[j]
        <3>1. \A j \in 1 .. n : m + j = j
            BY <1>3
        <3> QED BY <1>2, <1>3, <3>1
    <2>2. t[1] = w[1] /\ t[2] = w[2]
        BY <1>1, <2>1
    <2>3. t[1] = 120 => Rest(t, 12, f)
        <3> SUFFICES ASSUME t[1] = 120 PROVE Rest(t, 12, f)
            OBVIOUS
        <3>1. Len(t) = 12
            BY <1>1, <2>1, <2>2 DEF Answer
        <3> QED BY <3>1 DEF Rest, NoFive
    <2> QED BY <1>1, <2>1, <2>2, <2>3 DEF Unread, Answer
<1>4. CASE m # 0
    <2>1. t[1] = u[1] /\ (m >= 2 => t[2] = u[2])
        BY <1>1, <1>2, <1>4
    <2>2. t[1] = 120 => Rest(t, 12, f)
        BY <1>1, <1>4, <2>1, RestGrows DEF Unread
    <2>3. f = 0 => Len(t) >= 2 /\ t[2] # 120
        BY <1>1, <1>2, <1>4, <2>1 DEF Unread
    <2> QED BY <2>2, <2>3 DEF Unread
<1> QED BY <1>3, <1>4

LEMMA UnreadFaults ==
    ASSUME NEW u \in Seq(Byte), Unread(u, 0)
    PROVE  /\ Unread(u, 1)
           /\ \A i \in 1 .. Len(u) : \A t : Shorter(t, u, i) => Unread(t, 1)
<1>1. PICK m \in Nat : m = Len(u)
    OBVIOUS
<1>2. Unread(u, 1)
    BY RestFaults DEF Unread
<1>3. ASSUME NEW i \in 1 .. m, NEW t, Shorter(t, u, i) PROVE Unread(t, 1)
    <2>1. Len(t) = m - 1 /\ \A j \in 1 .. m - 1 : t[j] = IF j < i THEN u[j] ELSE u[j + 1]
        BY <1>1, <1>3 DEF Shorter
    <2>2. m >= 2 /\ u[2] # 120
        BY <1>1 DEF Unread
    <2>3. t[1] = IF 1 < i THEN u[1] ELSE u[2]
        BY <2>1, <2>2
    <2>4. t[1] = 120 => Rest(t, 12, 1)
        BY <1>1, <1>3, <2>2, <2>3, RestFaults DEF Unread
    <2> QED BY <2>4 DEF Unread
<1> QED BY <1>1, <1>2, <1>3

LEMMA PhaseGrows ==
    ASSUME NEW u \in Seq(Byte), NEW w \in Seq(Byte), NEW t, Longer(t, u, w), Answer(w),
           NEW pc, NEW f \in Nat, Phase(pc, u, f)
    PROVE  Phase(pc, t, f)
<1>1. Unread(u, f) => Unread(t, f)
    BY UnreadGrows
<1>2. \A k \in Nat : Rest(u, k, f) => Rest(t, k, f)
    BY RestGrows
<1> QED BY <1>1, <1>2 DEF Phase

LEMMA PhaseFaults ==
    ASSUME NEW u \in Seq(Byte), NEW pc, Phase(pc, u, 0)
    PROVE  /\ Phase(pc, u, 1)
           /\ \A i \in 1 .. Len(u) : \A t : Shorter(t, u, i) => Phase(pc, t, 1)
<1>1. \A k \in Nat : Rest(u, k, 0) => Rest(u, k, 1)
    BY RestFaults
<1>2. Phase(pc, u, 1)
    BY <1>1, UnreadFaults DEF Phase
<1>3. ASSUME NEW i \in 1 .. Len(u), NEW t, Shorter(t, u, i) PROVE Phase(pc, t, 1)
    <2>1. Unread(u, 0) => Unread(t, 1)
        BY <1>3, UnreadFaults
    <2>2. \A k \in Nat : Rest(u, k, 0) => Rest(t, k, 1)
        BY <1>3, RestFaults
    <2> QED BY <2>1, <2>2 DEF Phase
<1> QED BY <1>2, <1>3

LEMMA CodesAnswer ==
    /\ Answer(BAD_CKSUM) /\ Answer(BAD_START) /\ Answer(BAD_END)
    /\ Answer(TOO_BIG) /\ Answer(NAK)
BY DEF Answer, BAD_CKSUM, BAD_START, BAD_END, TOO_BIG, NAK, Code

LEMMA EchoAnswers ==
    ASSUME NEW c \in Word, NEW h \in Word
    PROVE  SOH \o c \o h \in Seq(Byte) /\ Answer(SOH \o c \o h)
<1>1. PICK s \in Seq(Byte) : s = SOH /\ Len(s) = 4 /\ s[1] = 120 /\ s[2] = 86
    <2>1. SOH \in Seq(Byte) /\ Len(SOH) = 4
        BY Codes, WordIsSeq
    <2> QED BY <2>1 DEF SOH
<1>2. c \in Seq(Byte) /\ h \in Seq(Byte) /\ Len(c) = 4 /\ Len(h) = 4
    BY WordIsSeq
<1>3. PICK e \in Seq(Byte) : e = s \o c /\ Longer(e, s, c)
    BY <1>2, PutFacts
<1>4. Len(e) = 8 /\ e[1] = 120 /\ e[2] = 86
    BY <1>1, <1>2, <1>3 DEF Longer
<1>5. PICK w \in Seq(Byte) : w = e \o h /\ Longer(w, e, h)
    BY <1>2, PutFacts
<1>6. Len(w) = 12 /\ w[1] = 120 /\ w[2] = 86
    <2>1. Len(w) = 8 + 4 /\ \A j \in 1 .. 8 : w[j] = e[j]
        BY <1>2, <1>4, <1>5 DEF Longer
    <2> QED BY <1>4, <2>1
<1> QED BY <1>1, <1>3, <1>5, <1>6 DEF Answer

LEMMA PiSays ==
    ASSUME BootInv, PiStep
    PROVE  \/ loaded' /\ pi'.pc = "run"
           \/ toUnix' = toUnix /\ loaded' = loaded
           \/ /\ \E w \in Seq(Byte) : Answer(w) /\ Longer(toUnix', toUnix, w)
              /\ loaded' = loaded
<1>1. Lines /\ pi \in PiType /\ Len(toPi) >= 4
    BY DEF BootInv, PiOK, PiStep, PiSOH, PiSize, PiHash, PiACK, PiCopy, PiEOT, PiGets
<1>2. ASSUME NEW c \in Word, Answer(c), die(c)
      PROVE  \E w \in Seq(Byte) : Answer(w) /\ Longer(toUnix', toUnix, w)
    <2>1. c \in Seq(Byte) /\ toUnix' = toUnix \o c
        BY <1>2, WordIsSeq DEF die, PiSends
    <2> QED BY <1>1, <1>2, <2>1, PiPut
<1>3. CASE PiHash
    <2>1. CASE PiSends(SOH \o crc32(pi.nBytes) \o PiWord)
        <3>1. crc32(pi.nBytes) \in Word /\ PiWord \in Word
            BY <1>1, Crc32Type, WordIsSeq, PiTaken DEF PiType
        <3>2. PICK w \in Seq(Byte) : Answer(w) /\ toUnix' = toUnix \o w
            BY <2>1, <3>1, EchoAnswers DEF PiSends
        <3>3. Longer(toUnix', toUnix, w)
            BY <1>1, <3>2, PutFacts DEF Lines
        <3> QED BY <1>3, <3>2, <3>3 DEF PiHash
    <2>2. CASE die(TOO_BIG)
        BY <1>2, <1>3, <2>2, Codes, CodesAnswer DEF PiHash
    <2> QED BY <1>3, <2>1, <2>2 DEF PiHash
<1>4. CASE PiSOH
    BY <1>2, <1>4, Codes, CodesAnswer DEF PiSOH
<1>5. CASE PiSize
    BY <1>5 DEF PiSize
<1>6. CASE PiACK
    BY <1>2, <1>6, Codes, CodesAnswer DEF PiACK, RefusesNoACK
<1>7. CASE PiCopy
    BY <1>7 DEF PiCopy
<1>8. CASE PiEOT
    <2>1. CASE (die(BAD_END) \/ die(BAD_CKSUM)) /\ UNCHANGED loaded
        BY <1>2, <2>1, Codes, CodesAnswer
    <2>2. CASE pi' = [pi EXCEPT !.pc = "run"] /\ loaded' = TRUE
        BY <1>1, <2>2 DEF PiType
    <2> QED BY <1>8, <2>1, <2>2 DEF PiEOT
<1> QED BY <1>3, <1>4, <1>5, <1>6, <1>7, <1>8 DEF PiStep

(* The invariant for success. *)
OneFault == harmless /\ faults <= 1 /\ garbled = 0
AnswerInv ==
    /\ unix.pc \in {"data", "EOT", "xACK", "ok"} => acked = unix.prog
    /\ OneFault /\ ~loaded => Phase(unix.pc, toUnix, faults)

LEMMA ExpectAnswers ==
    ASSUME BootInv, AnswerInv, NEW pc, NEW w \in Word, NEW next \in UnixPcs, Expect(pc, w, next),
           \/ pc = "xSOH" /\ w = SOH /\ next = "xsize"
           \/ pc = "xsize" /\ next = "xhash"
           \/ pc = "xhash" /\ next = "ACK"
           \/ pc = "xACK" /\ w = ACK /\ next = "ok"
    PROVE  AnswerInv'
<1>1. Lines /\ unix \in UnixType /\ Len(toUnix) >= 4 /\ unix.pc = pc /\ faults \in Nat
    BY BootAssumption DEF BootInv, UnixOK, Expect, Counts
<1>2. PICK t \in Seq(Byte) : t = toUnix' /\ Moved(t, toUnix, 4)
    BY <1>1, UnixTaken DEF Expect
<1>3. PICK g \in Word : g = SubSeq(toUnix, 1, 4) /\ \A j \in 1 .. 4 : g[j] = toUnix[j]
    BY <1>1, UnixTaken
<1>4. PICK c : c = IF g = w THEN next ELSE "failed"
    OBVIOUS
<1>5. unix' = [unix EXCEPT !.pc = c]
    BY <1>3, <1>4 DEF Expect
<1>6. unix'.pc = c /\ unix'.prog = unix.prog
    BY <1>1, <1>5 DEF UnixType
<1>7. UNCHANGED <<faults, garbled, harmless, loaded, acked>>
    BY DEF Expect
<1>8. unix'.pc \in {"data", "EOT", "xACK", "ok"} => acked' = unix'.prog
    BY <1>1, <1>4, <1>6, <1>7 DEF AnswerInv
<1>9. ASSUME OneFault', ~loaded' PROVE Phase(unix'.pc, toUnix', faults')
    <2>1. Phase(pc, toUnix, faults)
        BY <1>1, <1>7, <1>9 DEF AnswerInv, OneFault
    <2>2. \A k \in Nat : k >= 4 /\ Rest(toUnix, k, faults) => Rest(t, k - 4, faults)
        BY <1>1, <1>2, RestShrinks DEF Lines
    <2>3. CASE c = "failed"
        BY <1>6, <2>3 DEF Phase
    <2>4. CASE g = w /\ c = next
        <3>1. CASE pc = "xSOH" /\ w = SOH /\ next = "xsize"
            <4>1. toUnix[1] = 120
                BY <1>3, <2>4, <3>1 DEF SOH
            <4>2. Rest(toUnix, 12, faults)
                BY <1>1, <2>1, <3>1, <4>1 DEF Phase, Unread
            <4>3. Rest(t, 8, faults)
                BY <2>2, <4>2
            <4> QED BY <1>2, <1>6, <1>7, <2>4, <3>1, <4>3 DEF Phase
        <3>2. CASE pc = "xsize" /\ next = "xhash"
            <4>1. Rest(t, 4, faults)
                BY <2>1, <2>2, <3>2 DEF Phase
            <4> QED BY <1>2, <1>6, <1>7, <2>4, <3>2, <4>1 DEF Phase
        <3>3. CASE pc = "xhash" /\ next = "ACK"
            <4>1. Rest(t, 0, faults)
                BY <2>1, <2>2, <3>3 DEF Phase
            <4> QED BY <1>2, <1>6, <1>7, <2>4, <3>3, <4>1 DEF Phase
        <3>4. CASE pc = "xACK" /\ w = ACK /\ next = "ok"
            <4>1. toUnix[1] = 5
                BY <1>3, <2>4, <3>4 DEF ACK, Code
            <4>2. NoFive(toUnix, 0 + 1)
                BY <2>1, <3>4 DEF Phase, Rest
            <4> QED BY <1>1, <4>1, <4>2 DEF NoFive
        <3> QED BY <3>1, <3>2, <3>3, <3>4
    <2> QED BY <1>4, <2>3, <2>4
<1> QED BY <1>8, <1>9 DEF AnswerInv

LEMMA UnixAnswers ==
    ASSUME BootInv, AnswerInv, simple_boot
    PROVE  AnswerInv'
<1>1. unix \in UnixType /\ unix.prog \in Files
    BY DEF BootInv, UnixOK, UnixType
<1>2. PICK p \in Files : p = unix.prog
    BY <1>1
<1>3. crc32(p) \in Word /\ crc32(Size(Len(p))) \in Word
    BY FileFacts
<1>4. {"xsize", "xhash", "ACK", "ok"} \subseteq UnixPcs
    BY DEF UnixPcs, Done, Waiting, Before
<1>5. ASSUME NEW n, toUnix' = toUnix, UNCHANGED <<faults, garbled, harmless, loaded>>,
             unix'.pc = n, unix'.prog = unix.prog,
             \/ unix.pc \in {"SOH", "size", "hash"} /\ n \in {"size", "hash", "xSOH"}
             \/ unix.pc \in {"ACK", "data", "EOT"} /\ n \in {"data", "EOT", "xACK"},
             n \in {"data", "EOT", "xACK"} => acked' = unix.prog
      PROVE  AnswerInv'
    <2>1. ASSUME OneFault', ~loaded' PROVE Phase(unix'.pc, toUnix', faults')
        <3>1. Phase(unix.pc, toUnix, faults)
            BY <1>5, <2>1 DEF AnswerInv, OneFault
        <3> QED BY <1>5, <3>1 DEF Phase
    <2> QED BY <1>5, <2>1 DEF AnswerInv
<1>6. CASE Send("SOH", SOH, "size") /\ UNCHANGED acked
    BY <1>1, <1>5, <1>6 DEF Send, UnixType
<1>7. CASE Send("size", Size(Len(unix.prog)), "hash") /\ UNCHANGED acked
    BY <1>1, <1>5, <1>7 DEF Send, UnixType
<1>8. CASE Send("hash", crc32(unix.prog), "xSOH") /\ UNCHANGED acked
    BY <1>1, <1>5, <1>8 DEF Send, UnixType
<1>9. CASE Expect("xSOH", SOH, "xsize")
    BY <1>4, <1>9, Codes, ExpectAnswers
<1>10. CASE Expect("xsize", crc32(Size(Len(unix.prog))), "xhash")
    BY <1>2, <1>3, <1>4, <1>10, ExpectAnswers
<1>11. CASE Expect("xhash", crc32(unix.prog), "ACK")
    BY <1>2, <1>3, <1>4, <1>11, ExpectAnswers
<1>12. CASE SendACK
    <2>1. PICK n \in {"data", "EOT"} : n = SendPc(0)
        BY <1>1, SendPcFacts
    <2>2. Send("ACK", ACK, n) /\ acked' = unix.prog
        BY <1>12, <2>1 DEF SendACK
    <2>3. unix'.pc = n /\ unix'.prog = unix.prog
        BY <1>1, <2>2 DEF Send, UnixType
    <2> QED BY <1>5, <2>2, <2>3 DEF Send
<1>13. CASE SendData
    <2>1. PICK m \in Nat : m = unix.sent /\ unix.pc = "data"
        BY <1>1, <1>13 DEF UnixType, SendData
    <2>2. PICK n \in {"data", "EOT"} : n = SendPc(m + 1)
        BY <1>1, SendPcFacts
    <2>3. unix' = [unix EXCEPT !.pc = n, !.sent = m + 1]
        BY <1>13, <2>1, <2>2 DEF SendData
    <2>4. unix'.pc = n /\ unix'.prog = unix.prog
        BY <1>1, <2>3 DEF UnixType
    <2>5. acked' = unix.prog
        BY <1>13, <2>1 DEF SendData, AnswerInv
    <2>6. toUnix' = toUnix /\ UNCHANGED <<faults, garbled, harmless, loaded>>
        BY <1>13 DEF SendData
    <2> QED BY <1>5, <2>1, <2>2, <2>4, <2>5, <2>6
<1>14. CASE Send("EOT", EOT, "xACK") /\ UNCHANGED acked
    <2>1. unix.pc = "EOT" /\ unix'.pc = "xACK" /\ unix'.prog = unix.prog
        BY <1>1, <1>14 DEF Send, UnixType
    <2>2. acked' = unix.prog
        BY <1>14, <2>1 DEF AnswerInv
    <2> QED BY <1>5, <1>14, <2>1, <2>2 DEF Send
<1>15. CASE Expect("xACK", ACK, "ok")
    BY <1>4, <1>15, Codes, ExpectAnswers
<1> QED BY <1>6, <1>7, <1>8, <1>9, <1>10, <1>11, <1>12, <1>13, <1>14, <1>15 DEF simple_boot

LEMMA AnswerStep ==
    ASSUME BootInv, AnswerInv, [Next]_vars
    PROVE  AnswerInv'
<1>1. Lines /\ unix \in UnixType /\ faults \in Nat /\ garbled \in Nat
    BY BootAssumption DEF BootInv, UnixOK, Counts
<1>2. CASE simple_boot
    BY <1>2, UnixAnswers
<1>3. CASE PiStep
    <2>1. UNCHANGED <<unix, acked, harmless, faults, garbled>>
        BY <1>3 DEF PiStep, PiSOH, PiSize, PiHash, PiACK, PiCopy, PiEOT
    <2>2. CASE loaded'
        BY <2>1, <2>2 DEF AnswerInv
    <2>3. CASE toUnix' = toUnix /\ loaded' = loaded
        BY <2>1, <2>3 DEF AnswerInv, OneFault
    <2>4. CASE /\ \E w \in Seq(Byte) : Answer(w) /\ Longer(toUnix', toUnix, w)
               /\ loaded' = loaded
        <3>1. PICK w \in Seq(Byte) : Answer(w) /\ Longer(toUnix', toUnix, w)
            BY <2>4
        <3>2. Phase(unix.pc, toUnix, faults) => Phase(unix.pc, toUnix', faults)
            BY <1>1, <3>1, PhaseGrows DEF Lines
        <3> QED BY <2>1, <2>4, <3>2 DEF AnswerInv, OneFault
    <2> QED BY <1>3, <2>2, <2>3, <2>4, PiSays
<1>4. CASE Boot \/ ProgramExits \/ UNCHANGED vars
    BY <1>4 DEF Boot, ProgramExits, vars, AnswerInv, OneFault
<1>5. ASSUME NEW p \in Programs, Start(p) PROVE AnswerInv'
    <2>1. unix'.pc = "SOH"
        BY <1>5 DEF Start
    <2>2. harmless' => Harmless(toUnix')
        BY <1>5 DEF Start
    <2>3. Harmless(toUnix') => Unread(toUnix', faults')
        BY DEF Harmless, Unread, Rest, NoFive
    <2> QED BY <2>1, <2>2, <2>3 DEF AnswerInv, OneFault, Phase
<1>6. CASE Timeout
    <2>1. unix'.pc = "failed"
        BY <1>1, <1>6 DEF Timeout, UnixType
    <2> QED BY <2>1 DEF AnswerInv, Phase
<1>7. CASE Fault
    <2>0. faults' = faults + 1 /\ UNCHANGED <<harmless, loaded, acked>>
        BY <1>7 DEF Fault
    <2>1. garbled' = 0 => garbled = 0 /\ ~Garble
        BY <1>1, <1>7 DEF Fault, Lose, Garble, Kill, PowerCycle
    <2>2. \/ unix' = unix
          \/ unix' = [unix EXCEPT !.pc = "failed"]
        BY <1>7 DEF Fault, Lose, Garble, Kill, PowerCycle
    <2>3. CASE unix' = [unix EXCEPT !.pc = "failed"]
        <3>1. unix'.pc = "failed"
            BY <1>1, <2>3 DEF UnixType
        <3> QED BY <3>1 DEF AnswerInv, Phase
    <2>4. CASE unix' = unix
        <3>1. ASSUME OneFault', ~loaded' PROVE Phase(unix'.pc, toUnix', faults')
            <4>1. faults = 0 /\ faults' = 1 /\ garbled = 0 /\ ~Garble
                BY <1>1, <2>0, <2>1, <3>1 DEF OneFault
            <4>2. Phase(unix.pc, toUnix, 0)
                BY <2>0, <3>1, <4>1 DEF AnswerInv, OneFault
            <4>3. \/ toUnix' = toUnix
                  \/ \E i \in 1 .. Len(toUnix) : toUnix' = Without(toUnix, i)
                BY <1>7, <4>1 DEF Fault, Lose, FirstWord, Kill, PowerCycle
            <4>4. Phase(unix.pc, toUnix', 1)
                BY <1>1, <4>2, <4>3, PhaseFaults, WithoutFacts DEF Lines
            <4> QED BY <2>4, <4>1, <4>4
        <3> QED BY <2>0, <2>4, <3>1 DEF AnswerInv
    <2> QED BY <2>2, <2>3, <2>4
<1> QED BY <1>2, <1>3, <1>4, <1>5, <1>6, <1>7 DEF Next

(* When not more than one thing went wrong - a byte lost anywhere, a killed  *)
(* run, a reset of the pi - success is reported only if notmain accepted the *)
(* file in this run, whatever earlier runs left in the tty but an echo that  *)
(* an ACK follows (Harmless).  This holds for all files, with the words of   *)
(* the protocol in them or not, for any amount left over, and without the    *)
(* checksum.                                                                 *)
THEOREM SuccessMeansLoadedAfterAFault ==
    FairSpec => [](faults <= 1 => SuccessMeansLoaded)
<1>1. Init => AnswerInv
    <2> SUFFICES ASSUME Init PROVE AnswerInv
        OBVIOUS
    <2>1. unix.pc = "idle"
        BY DEF Init
    <2> QED BY <2>1 DEF AnswerInv, Phase
<1>2. AnswerInv => (faults <= 1 => SuccessMeansLoaded)
    BY DEF AnswerInv, OneFault, SuccessMeansLoaded, Phase
<1> QED BY <1>1, <1>2, BootInvAlways, AnswerStep, PTL DEF FairSpec, Spec

-----------------------------------------------------------------------------
(* Bytes of a session on their way: t is what follows its first o bytes of   *)
(* its first n words.                                                        *)
Part(t, p, o, n) ==
    Len(t) = 4 * n - o /\ \A j \in 1 .. Len(t) : t[j] = SessionByte(p, o + j)
(* t is r bytes of whatever kind and then the first n words of a session. *)
After(t, p, r, n) ==
    Len(t) = r + 4 * n /\ \A j \in 1 .. 4 * n : t[r + j] = SessionByte(p, j)
(* What t ends with, n words into a session. *)
Ends(t, p, n) ==
    /\ n > 0 => \A j \in 0 .. 3 : j < Len(t) => t[Len(t) - j] = SessionByte(p, 4 * n - j)
    /\ n = 0 /\ Len(t) >= 4 => \E k \in 1 .. 4 : t[(Len(t) - 4) + k] # SOH[k]
Begins(t) == Len(t) >= 4 /\ \A k \in 1 .. 4 : t[k] = SOH[k]

LEMMA SessionWords ==
    ASSUME NEW p \in Files
    PROVE  /\ SessionWord(p, 1) = SOH /\ SessionWord(p, 2) = Size(Len(p))
           /\ SessionWord(p, 3) = crc32(p) /\ SessionWord(p, 4) = ACK
           /\ \A n \in Nat : n < Padded(p) => SessionWord(p, 5 + n) = ProgWord(p, n + 1)
           /\ SessionWord(p, 5 + Padded(p)) = EOT
           /\ \A i \in Nat \ {0} : SessionWord(p, i) \in Word
<1>1. PICK m \in Nat : m = Padded(p)
    BY FileFacts
<1>2. /\ SessionWord(p, 1) = SOH /\ SessionWord(p, 2) = Size(Len(p))
      /\ SessionWord(p, 3) = crc32(p) /\ SessionWord(p, 4) = ACK
    BY DEF SessionWord
<1>3. ASSUME NEW n \in Nat, n < m PROVE SessionWord(p, 5 + n) = ProgWord(p, n + 1)
    <2>1. PICK i \in Nat : i = 5 + n /\ i - 4 = n + 1 /\ i > 4 /\ i <= 4 + m
        BY <1>1, <1>3
    <2>2. i # 1 /\ i # 2 /\ i # 3 /\ i # 4
        BY <2>1
    <2>3. SessionWord(p, i) = ProgWord(p, i - 4)
        BY <1>1, <2>1, <2>2 DEF SessionWord
    <2> QED BY <2>1, <2>3
<1>4. SessionWord(p, 5 + m) = EOT
    <2>1. PICK i \in Nat : i = 5 + m /\ i > 4 /\ ~(i <= 4 + m)
        BY <1>1
    <2>2. i # 1 /\ i # 2 /\ i # 3 /\ i # 4
        BY <2>1
    <2>3. SessionWord(p, i) = EOT
        BY <1>1, <2>1, <2>2 DEF SessionWord
    <2> QED BY <2>1, <2>3
<1>5. ASSUME NEW i \in Nat \ {0} PROVE SessionWord(p, i) \in Word
    <2>1. i > 4 => i - 4 \in Nat \ {0}
        OBVIOUS
    <2>2. i > 4 => ProgWord(p, i - 4) \in Word
        BY <2>1, FileFacts
    <2>3. SOH \in Word /\ ACK \in Word /\ EOT \in Word /\ Size(Len(p)) \in Word /\ crc32(p) \in Word
        BY Codes, FileFacts
    <2>4. i > 4 \/ i = 1 \/ i = 2 \/ i = 3 \/ i = 4
        OBVIOUS
    <2> QED BY <2>2, <2>3, <2>4 DEF SessionWord
<1> QED BY <1>1, <1>2, <1>3, <1>4, <1>5

LEMMA SessionBytes ==
    ASSUME NEW p, NEW n \in Nat, NEW k \in 1 .. 4
    PROVE  SessionByte(p, 4 * n + k) = SessionWord(p, n + 1)[k]
<1>1. PICK j \in Nat : j = 4 * n + k
    OBVIOUS
<1>2. (j + 3) \div 4 = n + 1
    BY <1>1
<1>3. ((j - 1) % 4) + 1 = k
    BY <1>1
<1> QED BY <1>1, <1>2, <1>3 DEF SessionByte

(* Its words, but for the first, are none of them SOH. *)
LEMMA PlainWords ==
    ASSUME NEW p \in Files, Plain(p), NEW n \in Nat, n >= 1, n <= 4 + Padded(p)
    PROVE  \E k \in 1 .. 4 : SessionWord(p, n + 1)[k] # SOH[k]
<1>1. PICK m \in Nat : m = Padded(p)
    BY FileFacts
<1>2. 4 * n \in 1 .. 4 * (4 + m)
    BY <1>1
<1>3. PICK k \in 1 .. 4 : SessionByte(p, 4 * n + k) # SOH[k]
    BY <1>1, <1>2 DEF Plain
<1> QED BY <1>3, SessionBytes

LEMMA SameWord ==
    ASSUME NEW g \in Word, NEW w \in Word
    PROVE  g = w <=> \A k \in 1 .. 4 : g[k] = w[k]
BY DEF Word

LEMMA PartMoved ==
    ASSUME NEW s \in Seq(Byte), NEW t \in Seq(Byte), NEW p, NEW o \in Nat, NEW n \in Nat,
           Part(s, p, o, n), Len(s) >= 4, Moved(t, s, 4)
    PROVE  Part(t, p, o + 4, n)
<1>1. PICK m \in Nat : m = Len(s) /\ m >= 4
    OBVIOUS
<1>2. Len(t) = m - 4 /\ m = 4 * n - o
    BY <1>1 DEF Moved, Part
<1>3. ASSUME NEW j \in 1 .. m - 4 PROVE t[j] = SessionByte(p, (o + 4) + j)
    <2>1. t[j] = s[j + 4]
        BY <1>1 DEF Moved
    <2>2. j + 4 \in 1 .. m
        BY <1>1
    <2>3. s[j + 4] = SessionByte(p, o + (j + 4))
        BY <1>1, <2>2 DEF Part
    <2>4. o + (j + 4) = (o + 4) + j
        OBVIOUS
    <2> QED BY <2>1, <2>3, <2>4
<1>4. Len(t) = 4 * n - (o + 4)
    BY <1>1, <1>2
<1> QED BY <1>2, <1>3, <1>4 DEF Part

(* The word it begins with. *)
LEMMA PartWord ==
    ASSUME NEW s \in Seq(Byte), NEW p \in Files, NEW i \in Nat, NEW n \in Nat,
           NEW o, o = 4 * i, NEW q, q = i + 1,
           Part(s, p, o, n), Len(s) >= 4,
           NEW g \in Word, \A j \in 1 .. 4 : g[j] = s[j]
    PROVE  g = SessionWord(p, q) /\ n >= q
<1>1. PICK m \in Nat : m = Len(s) /\ m >= 4 /\ m = 4 * n - o
    <2>1. Len(s) = 4 * n - o
        BY DEF Part
    <2>2. Len(s) \in Nat
        OBVIOUS
    <2> QED BY <2>1, <2>2
<1>2. ASSUME NEW k \in 1 .. 4 PROVE g[k] = SessionWord(p, q)[k]
    <2>1. k \in 1 .. m
        BY <1>1
    <2>2. s[k] = SessionByte(p, 4 * i + k)
        BY <1>1, <2>1 DEF Part
    <2> QED BY <2>2, SessionBytes
<1>3. SessionWord(p, q) \in Word
    BY SessionWords
<1>4. n >= q
    BY <1>1
<1> QED BY <1>2, <1>3, <1>4, SameWord

LEMMA PartLonger ==
    ASSUME NEW s \in Seq(Byte), NEW t \in Seq(Byte), NEW p \in Files, NEW o \in Nat, NEW n \in Nat,
           Part(s, p, o, n), Longer(t, s, SessionWord(p, n + 1))
    PROVE  Part(t, p, o, n + 1)
<1>1. PICK m \in Nat : m = Len(s) /\ m = 4 * n - o
    BY DEF Part
<1>2. PICK w \in Word : w = SessionWord(p, n + 1) /\ Len(w) = 4
    BY SessionWords, WordIsSeq
<1>3. Len(t) = m + 4 /\ \A j \in 1 .. m : t[j] = s[j]
    BY <1>1, <1>2 DEF Longer
<1>4. \A j \in 1 .. 4 : t[m + j] = w[j]
    BY <1>1, <1>2 DEF Longer
<1>5. ASSUME NEW j \in 1 .. m + 4 PROVE t[j] = SessionByte(p, o + j)
    <2>1. CASE j <= m
        BY <1>1, <1>3, <2>1 DEF Part
    <2>2. CASE j > m
        <3>1. PICK k \in 1 .. 4 : k = j - m /\ j = m + k /\ o + j = 4 * n + k
            <4>1. j - m \in 1 .. 4 /\ j = m + (j - m) /\ o + j = 4 * n + (j - m)
                BY <1>1, <2>2
            <4> QED BY <4>1
        <3>2. t[j] = w[k]
            BY <1>4, <3>1
        <3>3. SessionByte(p, 4 * n + k) = w[k]
            BY <1>2, SessionBytes
        <3> QED BY <3>1, <3>2, <3>3
    <2> QED BY <2>1, <2>2
<1>6. Len(t) = 4 * (n + 1) - o
    BY <1>1, <1>3
<1> QED BY <1>3, <1>5, <1>6 DEF Part

LEMMA AfterMoved ==
    ASSUME NEW s \in Seq(Byte), NEW t \in Seq(Byte), NEW p, NEW r \in Nat, NEW n \in Nat,
           After(s, p, r + 4, n), Moved(t, s, 4)
    PROVE  After(t, p, r, n)
<1>1. PICK m \in Nat : m = Len(s) /\ m = (r + 4) + 4 * n
    BY DEF After
<1>2. Len(t) = r + 4 * n
    BY <1>1 DEF Moved
<1>3. ASSUME NEW j \in 1 .. 4 * n PROVE t[r + j] = SessionByte(p, j)
    <2>1. r + j \in 1 .. m - 4 /\ (r + j) + 4 = (r + 4) + j
        BY <1>1
    <2>2. t[r + j] = s[(r + j) + 4]
        BY <1>1, <2>1 DEF Moved
    <2>3. s[(r + 4) + j] = SessionByte(p, j)
        BY DEF After
    <2> QED BY <2>1, <2>2, <2>3
<1> QED BY <1>2, <1>3 DEF After

LEMMA AfterNothing ==
    ASSUME NEW t \in Seq(Byte), NEW p, NEW n \in Nat, After(t, p, 0, n)
    PROVE  Part(t, p, 0, n)
<1>1. Len(t) = 4 * n
    BY DEF After
<1>2. ASSUME NEW j \in 1 .. 4 * n PROVE t[j] = SessionByte(p, 0 + j)
    <2>1. t[0 + j] = SessionByte(p, j) /\ 0 + j = j
        BY DEF After
    <2> QED BY <2>1
<1> QED BY <1>1, <1>2 DEF Part

LEMMA AfterLonger ==
    ASSUME NEW s \in Seq(Byte), NEW t \in Seq(Byte), NEW p \in Files, NEW r \in Nat, NEW n \in Nat,
           After(s, p, r, n), Longer(t, s, SessionWord(p, n + 1))
    PROVE  After(t, p, r, n + 1)
<1>1. PICK m \in Nat : m = Len(s) /\ m = r + 4 * n
    BY DEF After
<1>2. PICK w \in Word : w = SessionWord(p, n + 1) /\ Len(w) = 4
    BY SessionWords, WordIsSeq
<1>3. Len(t) = m + 4 /\ \A j \in 1 .. m : t[j] = s[j]
    BY <1>1, <1>2 DEF Longer
<1>4. \A j \in 1 .. 4 : t[m + j] = w[j]
    BY <1>1, <1>2 DEF Longer
<1>5. ASSUME NEW j \in 1 .. 4 * (n + 1) PROVE t[r + j] = SessionByte(p, j)
    <2>1. CASE j <= 4 * n
        <3>1. r + j \in 1 .. m /\ j \in 1 .. 4 * n
            BY <1>1, <2>1
        <3>2. s[r + j] = SessionByte(p, j)
            BY <3>1 DEF After
        <3> QED BY <1>3, <3>1, <3>2
    <2>2. CASE j > 4 * n
        <3>1. PICK k \in 1 .. 4 : j = 4 * n + k /\ r + j = m + k
            <4>1. j - 4 * n \in 1 .. 4 /\ j = 4 * n + (j - 4 * n) /\ r + j = m + (j - 4 * n)
                BY <1>1, <2>2
            <4> QED BY <4>1
        <3>2. t[r + j] = w[k]
            BY <1>4, <3>1
        <3>3. SessionByte(p, 4 * n + k) = w[k]
            BY <1>2, SessionBytes
        <3> QED BY <3>1, <3>2, <3>3
    <2> QED BY <2>1, <2>2
<1>6. Len(t) = r + 4 * (n + 1)
    BY <1>1, <1>3
<1> QED BY <1>5, <1>6 DEF After

LEMMA EndsMoved ==
    ASSUME NEW s \in Seq(Byte), NEW t \in Seq(Byte), NEW p, NEW n \in Nat, NEW k \in Nat,
           Ends(s, p, n), Moved(t, s, k)
    PROVE  Ends(t, p, n)
<1>1. PICK m \in Nat, l \in Nat : m = Len(s) /\ l = Len(t) /\ l = m - k
    BY DEF Moved
<1>2. \A j \in 1 .. l : t[j] = s[j + k]
    BY <1>1 DEF Moved
<1>3. ASSUME n > 0, NEW j \in 0 .. 3, j < l PROVE t[l - j] = SessionByte(p, 4 * n - j)
    <2>1. l - j \in 1 .. l /\ (l - j) + k = m - j /\ j < m
        BY <1>1, <1>3
    <2>2. t[l - j] = s[m - j]
        BY <1>2, <2>1
    <2> QED BY <1>1, <1>3, <2>1, <2>2 DEF Ends
<1>4. ASSUME n = 0, l >= 4 PROVE \E i \in 1 .. 4 : t[(l - 4) + i] # SOH[i]
    <2>1. PICK i \in 1 .. 4 : s[(m - 4) + i] # SOH[i]
        BY <1>1, <1>4 DEF Ends
    <2>2. (l - 4) + i \in 1 .. l /\ ((l - 4) + i) + k = (m - 4) + i
        BY <1>1, <1>4
    <2>3. t[(l - 4) + i] = s[(m - 4) + i]
        BY <1>2, <2>2
    <2> QED BY <2>1, <2>3
<1> QED BY <1>1, <1>3, <1>4 DEF Ends

LEMMA EndsLonger ==
    ASSUME NEW s \in Seq(Byte), NEW t \in Seq(Byte), NEW p \in Files, NEW n \in Nat,
           Longer(t, s, SessionWord(p, n + 1))
    PROVE  Ends(t, p, n + 1)
<1>1. PICK m \in Nat : m = Len(s)
    OBVIOUS
<1>2. PICK w \in Word : w = SessionWord(p, n + 1) /\ Len(w) = 4
    BY SessionWords, WordIsSeq
<1>3. Len(t) = m + 4 /\ \A j \in 1 .. 4 : t[m + j] = w[j]
    BY <1>1, <1>2 DEF Longer
<1>4. ASSUME NEW j \in 0 .. 3 PROVE t[(m + 4) - j] = SessionByte(p, 4 * (n + 1) - j)
    <2>1. PICK k \in 1 .. 4 : (m + 4) - j = m + k /\ 4 * (n + 1) - j = 4 * n + k
        <3>1. 4 - j \in 1 .. 4 /\ (m + 4) - j = m + (4 - j) /\ 4 * (n + 1) - j = 4 * n + (4 - j)
            BY <1>1
        <3> QED BY <3>1
    <2>2. SessionByte(p, 4 * n + k) = w[k]
        BY <1>2, SessionBytes
    <2>3. t[m + k] = w[k]
        BY <1>3
    <2> QED BY <2>1, <2>2, <2>3
<1>5. n + 1 > 0 /\ n + 1 # 0
    OBVIOUS
<1> QED BY <1>3, <1>4, <1>5 DEF Ends

(* SOH begins only where it was sent. *)
LEMMA BeginsLonger ==
    ASSUME NEW s \in Seq(Byte), NEW t \in Seq(Byte), NEW p \in Files, Plain(p), NEW n \in Nat,
           n <= 4 + Padded(p), Ends(s, p, n), Longer(t, s, SessionWord(p, n + 1))
    PROVE  /\ Begins(s) => Begins(t)
           /\ Begins(t) => Begins(s) \/ (n = 0 /\ Len(s) = 0)
<1>1. PICK m \in Nat : m = Len(s)
    OBVIOUS
<1>2. PICK w \in Word : w = SessionWord(p, n + 1) /\ Len(w) = 4
    BY SessionWords, WordIsSeq
<1>3. Len(t) = m + 4 /\ (\A j \in 1 .. m : t[j] = s[j]) /\ \A j \in 1 .. 4 : t[m + j] = w[j]
    BY <1>1, <1>2 DEF Longer
<1>4. m >= 4 => \A k \in 1 .. 4 : t[k] = s[k]
    BY <1>3
<1>5. Begins(s) => Begins(t)
    BY <1>1, <1>3, <1>4 DEF Begins
<1>6. m >= 4 /\ Begins(t) => Begins(s)
    BY <1>1, <1>4 DEF Begins
<1>7. ASSUME m < 4, Begins(t), n # 0 PROVE FALSE
    <2>1. PICK i \in Nat : i = 4 * n - m
        <3>1. n >= 1 /\ m <= 3
            BY <1>1, <1>7
        <3>2. 4 * n - m \in Nat
            BY <1>1, <3>1
        <3> QED BY <3>2
    <2>2. i \in 1 .. 4 * (4 + Padded(p))
        <3>1. PICK q \in Nat : q = Padded(p)
            BY FileFacts
        <3> QED BY <1>1, <1>7, <2>1, <3>1
    <2>3. ASSUME NEW k \in 1 .. 4 PROVE SessionByte(p, i + k) = SOH[k]
        <3>1. t[k] = SOH[k]
            BY <1>7 DEF Begins
        <3>2. CASE k <= m
            <4>1. PICK j \in 0 .. 3 : j = m - k /\ m - j = k /\ 4 * n - j = i + k /\ j < m
                <5>1. m - k \in 0 .. 3 /\ m - (m - k) = k /\ 4 * n - (m - k) = i + k /\ m - k < m
                    BY <1>1, <1>7, <2>1, <3>2
                <5> QED BY <5>1
            <4>2. s[m - j] = SessionByte(p, 4 * n - j)
                <5>1. Ends(s, p, n) /\ n > 0 /\ Len(s) = m
                    BY <1>1, <1>7
                <5>2. \A a \in 0 .. 3 : a < m => s[m - a] = SessionByte(p, 4 * n - a)
                    BY <5>1, Zenon DEF Ends
                <5> QED BY <4>1, <5>2
            <4> QED BY <1>3, <3>1, <3>2, <4>1, <4>2
        <3>3. CASE k > m
            <4>1. PICK l \in 1 .. 4 : l = k - m /\ k = m + l /\ i + k = 4 * n + l
                <5>1. k - m \in 1 .. 4 /\ k = m + (k - m) /\ i + k = 4 * n + (k - m)
                    BY <1>1, <1>7, <2>1, <3>3
                <5> QED BY <5>1
            <4>2. SessionByte(p, 4 * n + l) = w[l]
                BY <1>2, SessionBytes
            <4> QED BY <1>3, <3>1, <4>1, <4>2
        <3> QED BY <1>1, <3>2, <3>3
    <2> QED BY <2>2, <2>3 DEF Plain
<1>8. ASSUME m \in 1 .. 3, n = 0, Begins(t) PROVE FALSE
    <2>1. w = SOH
        BY <1>2, <1>8, SessionWords
    <2>2. SOH[1] = 120 /\ SOH[2] = 86 /\ SOH[3] = 52 /\ SOH[4] = 18
        BY DEF SOH
    <2>3. t[m + 1] = SOH[1] /\ m + 1 \in 2 .. 4
        BY <1>3, <1>8, <2>1
    <2>4. t[m + 1] = SOH[m + 1]
        BY <1>8, <2>3 DEF Begins
    <2> QED BY <2>2, <2>3, <2>4
<1> QED BY <1>1, <1>5, <1>6, <1>7, <1>8

-----------------------------------------------------------------------------
(* The words my-install has sent in this run. *)
Sent ==
    CASE unix.pc = "size" -> 1
      [] unix.pc = "hash" -> 2
      [] unix.pc \in {"xSOH", "xsize", "xhash", "ACK"} -> 3
      [] unix.pc \in {"data", "EOT"} -> 4 + unix.sent
      [] unix.pc = "xACK" -> 5 + Padded(unix.prog)
      [] OTHER -> 0
Ended == unix.pc \in Done
Early == unix.pc \in {"SOH", "size", "hash", "xSOH"}

(* All that was sent in this run after its first o bytes is still to be read. *)
Cur(o) == ~Ended /\ Part(toPi, unix.prog, o, Sent)
(* The pi is in the header of an earlier run, of which r bytes are left. *)
Behind(r) ==
    \/ Ended /\ Len(toPi) = r
    \/ Early /\ toUnix = <<>> /\ After(toPi, unix.prog, r, Sent)
(* The word the pi takes for an ACK will not be one. *)
Refused ==
    \/ Cur(0)
    \/ Ended /\ (toPi = <<>> \/ Begins(toPi))
    \/ Early /\ toUnix = <<>> /\ Begins(toPi)

(* What the pi has of p so far. *)
Copied(p) ==
    /\ pi.nBytes = Size(Len(p))
    /\ \A i \in 1 .. Len(pi.mem) : pi.mem[i] = ProgWord(p, i)
InStep ==
    /\ Copied(unix.prog)
    /\ \/ pi.pc = "ack" /\ Cur(12)
       \/ /\ pi.pc \in {"copy", "EOT"} /\ unix.pc \in {"data", "EOT", "xACK"}
          /\ Cur(16 + 4 * Len(pi.mem))
(* The run that sent acked has ended, and the pi, o bytes into it, has still *)
(* to take the r bytes that are left of it.                                  *)
Finishes(o, r) ==
    /\ Copied(acked) /\ Behind(r) /\ o + r = 4 * (5 + Padded(acked))
    /\ \A j \in 1 .. r : toPi[j] = SessionByte(acked, o + j)
Finishing ==
    \/ pi.pc = "ack" /\ \E r \in Nat : Finishes(12, r)
    \/ pi.pc \in {"copy", "EOT"} /\ \E r \in Nat : Finishes(16 + 4 * Len(pi.mem), r)
PiInv ==
    /\ pi.pc = "SOH" /\ Begins(toPi) => Cur(0) \/ Behind(12)
    /\ pi.pc = "size" => Cur(4) \/ Behind(8)
    /\ pi.pc = "hash" => (Cur(8) /\ Copied(unix.prog)) \/ Behind(4)
    /\ pi.pc = "ack" => InStep \/ Refused \/ Finishing
    /\ pi.pc \in {"copy", "EOT"} => InStep \/ Finishing

(* The pi did not see this run begin. *)
Missed ==
    /\ pi.pc \in {"off", "wild", "SOH"} /\ Sent >= 1 /\ (Sent = 1 => Len(toPi) < 4)
    /\ pi.pc = "SOH" => ~Begins(toPi)
(* It has still to read the header of this run, or will refuse all of it. *)
ToCome ==
    \/ pi.pc = "off" /\ Sent <= 1 /\ Cur(0)
    \/ pi.pc \in {"SOH", "ack"} /\ Cur(0)
    \/ pi.pc = "size" /\ Cur(4)
    \/ pi.pc = "hash" /\ Cur(8) /\ Copied(unix.prog)
(* my-install may see an echo begin, or is past the first word of one.  The  *)
(* pi is in step with it, or said that echo before this run reached it, and  *)
(* nothing since, or is not with it.                                         *)
Echoed == \E i \in 1 .. Len(toUnix) : toUnix[i] = 120
Expects == ~Ended /\ (Early => Echoed)
Owed ==
    IF Early THEN 12 ELSE IF unix.pc = "xsize" THEN 8 ELSE IF unix.pc = "xhash" THEN 4 ELSE 0
Answered == InStep \/ (ToCome /\ Len(toUnix) <= Owed) \/ Missed
HostInv == Expects => Answered \/ (unix.pc = "xACK" /\ pi.pc = "run")
RunInv ==
    pi.pc = "run" =>
        /\ Memory(pi.mem, Value(pi.nBytes)) = acked
        /\ unix.pc = "xACK" \/ ~Expects
SessionInv ==
    /\ ~Ended => unix.prog \in Programs
    /\ Ends(toPi, unix.prog, Sent)
    /\ PiInv /\ HostInv /\ RunInv

AllPlain == \A p \in Programs : Plain(p)

(* Where my-install is tells how much it has sent. *)
SentIs(n) ==
    /\ n \in Nat /\ n = Sent
    /\ Ended => n = 0
    /\ unix.pc = "SOH" => n = 0
    /\ unix.pc = "size" => n = 1
    /\ unix.pc = "hash" => n = 2
    /\ unix.pc \in {"xSOH", "xsize", "xhash", "ACK"} => n = 3
    /\ unix.pc \in {"data", "EOT"} => n = 4 + unix.sent
    /\ unix.pc = "xACK" => n = 5 + Padded(unix.prog)
    /\ n <= 5 + Padded(unix.prog)
    /\ unix.pc # "xACK" => n <= 4 + Padded(unix.prog)
    /\ n >= 4 => unix.pc \in {"data", "EOT", "xACK"}

LEMMA SentFacts ==
    ASSUME UnixOK
    PROVE  \E n : SentIs(n)
<1>1. PICK c \in UnixPcs, s \in Nat, p \in Files : c = unix.pc /\ s = unix.sent /\ p = unix.prog
    BY DEF UnixOK, UnixType
<1>2. PICK m \in Nat : m = Padded(p)
    BY FileFacts
<1>3. s <= m
    BY <1>1, <1>2 DEF UnixOK, Sending
<1>4. c \in {"idle", "ok", "failed", "SOH", "size", "hash", "xSOH", "xsize", "xhash", "ACK", "data",
             "EOT", "xACK"}
    BY DEF UnixPcs, Done, Waiting, Before
<1>5. PICK n : n = Sent
    OBVIOUS
<1>6. /\ c \in {"idle", "ok", "failed", "SOH"} => n = 0
      /\ c = "size" => n = 1
      /\ c = "hash" => n = 2
      /\ c \in {"xSOH", "xsize", "xhash", "ACK"} => n = 3
      /\ c \in {"data", "EOT"} => n = 4 + s
      /\ c = "xACK" => n = 5 + m
    BY <1>1, <1>2, <1>5 DEF Sent
<1>7. n \in Nat /\ n <= 5 + m /\ (c # "xACK" => n <= 4 + m) /\ (n >= 4 => c \in {"data", "EOT", "xACK"})
    BY <1>2, <1>3, <1>4, <1>6
<1>8. Ended => n = 0
    BY <1>1, <1>6 DEF Ended, Done
<1>9. SentIs(n)
    BY <1>1, <1>2, <1>5, <1>6, <1>7, <1>8 DEF SentIs
<1> QED BY <1>9

(* The size of a file asks for its words, no more and no less. *)
LEMMA SizeFacts ==
    ASSUME NEW p \in Files
    PROVE  /\ Value(Size(Len(p))) = Len(p)
           /\ \A n \in Nat : More(Size(Len(p)), n) <=> n < Padded(p)
<1>1. PICK l \in Nat : l = Len(p)
    BY FileFacts
<1>2. PICK a \in Nat, b \in Nat : a = l % 256 /\ b = l \div 256
    OBVIOUS
<1>3. l = a + 256 * b
    BY <1>2
<1>4. PICK w : w = <<a, b, 0, 0>>
    OBVIOUS
<1>5. w = Size(l) /\ w[1] = a /\ w[2] = b /\ w[3] = 0 /\ w[4] = 0
    BY <1>2, <1>4 DEF Size
<1>6. Value(w) = l /\ Short(w)
    BY <1>3, <1>5 DEF Value, Short
<1>7. ASSUME NEW n \in Nat PROVE More(w, n) <=> n < Padded(p)
    <2>1. More(w, n) <=> 4 * n < l
        BY <1>6 DEF More
    <2>2. PICK m \in Nat : m = (l + 3) \div 4
        OBVIOUS
    <2>3. 4 * m <= l + 3 /\ l + 3 < 4 * m + 4
        BY <2>2
    <2>4. 4 * n < l <=> n < m
        BY <2>3
    <2> QED BY <1>1, <2>1, <2>2, <2>4 DEF Padded
<1> QED BY <1>1, <1>5, <1>6, <1>7

(* All words of a file, one after the other, are the file. *)
LEMMA MemoryIsFile ==
    ASSUME NEW p \in Files, NEW mem, \A i \in 1 .. Padded(p) : mem[i] = ProgWord(p, i)
    PROVE  Memory(mem, Len(p)) = p
<1>1. PICK l \in Nat : l = Len(p)
    BY FileFacts
<1>2. p \in Seq(Byte)
    BY FileFacts
<1>3. ASSUME NEW j \in 1 .. l PROVE mem[(j + 3) \div 4][((j - 1) % 4) + 1] = p[j]
    <2>1. PICK i \in Nat : i = (j + 3) \div 4
        OBVIOUS
    <2>2. PICK k \in Nat : k = ((j - 1) % 4) + 1
        OBVIOUS
    <2>3. k \in 1 .. 4 /\ j = 4 * (i - 1) + k
        BY <2>1, <2>2
    <2>4. i \in 1 .. Padded(p)
        <3>1. i >= 1 /\ i <= (l + 3) \div 4
            BY <2>1
        <3> QED BY <1>1, <3>1 DEF Padded
    <2>5. mem[i] = ProgWord(p, i)
        BY <2>4
    <2>6. ProgWord(p, i)[k] = p[j]
        BY <1>1, <2>3 DEF ProgWord
    <2> QED BY <2>1, <2>2, <2>5, <2>6
<1>4. Memory(mem, l) = [j \in 1 .. l |-> p[j]]
    BY <1>3, Zenon DEF Memory
<1>5. p = [j \in 1 .. l |-> p[j]]
    BY <1>1, <1>2
<1> QED BY <1>1, <1>4, <1>5

LEMMA WordBegins ==
    ASSUME Lines, Len(toPi) >= 4
    PROVE  PiWord = SOH <=> Begins(toPi)
<1>1. PiWord \in Word /\ (\A j \in 1 .. 4 : PiWord[j] = toPi[j]) /\ SOH \in Word
    BY PiTaken, Codes
<1> QED BY <1>1, SameWord DEF Begins

(* The pi takes a word. *)
LEMMA Taken ==
    ASSUME BootInv, Len(toPi) >= 4, PiTakes, unix' = unix
    PROVE  /\ toPi' \in Seq(Byte) /\ Len(toPi') = Len(toPi) - 4
           /\ Sent' = Sent /\ (Ended' <=> Ended) /\ (Early' <=> Early)
           /\ \A o \in Nat : Cur(o) => Cur(o + 4)'
           /\ \A r \in Nat : Behind(r + 4) =>
                 \/ Ended /\ Len(toPi') = r
                 \/ Early /\ toUnix = <<>> /\ After(toPi', unix.prog, r, Sent)
           /\ Ends(toPi, unix.prog, Sent) => Ends(toPi', unix'.prog, Sent')
<1>1. Lines /\ UnixOK /\ toPi \in Seq(Byte)
    BY DEF BootInv, Lines
<1>2. PICK t \in Seq(Byte) : t = toPi' /\ Moved(t, toPi, 4)
    BY <1>1, PiTaken DEF PiTakes
<1>3. PICK n \in Nat : n = Sent
    BY <1>1, SentFacts DEF SentIs
<1>4. Sent' = Sent /\ (Ended' <=> Ended) /\ (Early' <=> Early)
    BY DEF Sent, Ended, Early
<1>5. ASSUME NEW o \in Nat, Cur(o) PROVE Cur(o + 4)'
    <2>1. Part(toPi, unix.prog, o, n) /\ ~Ended
        BY <1>3, <1>5 DEF Cur
    <2>2. Part(t, unix.prog, o + 4, n)
        BY <1>1, <1>2, <2>1, PartMoved
    <2>3. Part(toPi', unix'.prog, o + 4, Sent')
        BY <1>2, <1>3, <1>4, <2>2
    <2> QED BY <1>4, <2>1, <2>3 DEF Cur
<1>6. Len(t) = Len(toPi) - 4
    BY <1>2 DEF Moved
<1>7. ASSUME NEW r \in Nat, Behind(r + 4)
      PROVE  \/ Ended /\ Len(t) = r
             \/ Early /\ toUnix = <<>> /\ After(t, unix.prog, r, n)
    <2>1. CASE Ended /\ Len(toPi) = r + 4
        BY <1>6, <2>1
    <2>2. CASE Early /\ toUnix = <<>> /\ After(toPi, unix.prog, r + 4, n)
        BY <1>1, <1>2, <2>2, AfterMoved
    <2> QED BY <1>3, <1>7, <2>1, <2>2 DEF Behind
<1>8. Ends(toPi, unix.prog, n) => Ends(t, unix.prog, n)
    BY <1>1, <1>2, EndsMoved
<1> QED BY <1>2, <1>3, <1>4, <1>5, <1>6, <1>7, <1>8

LEMMA CurWord ==
    ASSUME BootInv, Len(toPi) >= 4, NEW i \in Nat, NEW o \in Nat, o = 4 * i,
           NEW q \in Nat, q = i + 1, Cur(o)
    PROVE  PiWord = SessionWord(unix.prog, q) /\ Sent >= q
<1>1. Lines /\ UnixOK /\ toPi \in Seq(Byte)
    BY DEF BootInv, Lines
<1>2. PICK n \in Nat : n = Sent
    BY <1>1, SentFacts DEF SentIs
<1>3. PICK p \in Files : p = unix.prog
    BY <1>1 DEF UnixOK, UnixType
<1>4. Part(toPi, p, o, n)
    BY <1>2, <1>3 DEF Cur
<1>5. PICK g \in Word : g = PiWord /\ \A j \in 1 .. 4 : g[j] = toPi[j]
    BY <1>1, PiTaken
<1>6. g = SessionWord(p, q) /\ n >= q
    BY <1>1, <1>4, <1>5, PartWord
<1> QED BY <1>2, <1>3, <1>5, <1>6

(* While the pi reads what an earlier run sent, it has said nothing in this  *)
(* one.                                                                      *)
LEMMA BehindSilent ==
    ASSUME NEW r, Behind(r)
    PROVE  ~Expects
<1>1. toUnix = <<>> => ~Echoed
    BY EmptySeq DEF Echoed
<1> QED BY <1>1 DEF Behind, Expects

LEMMA FinishingSilent ==
    ASSUME Finishing
    PROVE  ~Expects /\ ~(unix.pc \in {"ACK", "data", "EOT", "xACK"})
<1>1. PICK r : Behind(r)
    BY DEF Finishing, Finishes
<1>2. Ended \/ Early
    BY <1>1 DEF Behind
<1>3. ~(unix.pc \in {"ACK", "data", "EOT", "xACK"})
    BY <1>2 DEF Ended, Early, Done
<1> QED BY <1>1, <1>3, BehindSilent

(* The next word of the earlier run. *)
LEMMA FinishWord ==
    ASSUME BootInv, Len(toPi) >= 4, NEW i \in Nat, NEW o, o = 4 * i, NEW q, q = i + 1,
           NEW r \in Nat, r >= 4, Finishes(o, r)
    PROVE  PiWord = SessionWord(acked, q)
<1>1. PICK g \in Word : g = PiWord /\ \A j \in 1 .. 4 : g[j] = toPi[j]
    BY PiTaken DEF BootInv, Lines
<1>2. PICK p \in Files : p = acked
    BY DEF BootInv, Counts
<1>3. ASSUME NEW k \in 1 .. 4 PROVE g[k] = SessionWord(p, q)[k]
    <2>1. k \in 1 .. r
        OBVIOUS
    <2>2. toPi[k] = SessionByte(p, 4 * i + k)
        BY <1>2, <2>1 DEF Finishes
    <2> QED BY <1>1, <2>2, SessionBytes
<1>4. SessionWord(p, q) \in Word
    BY SessionWords
<1> QED BY <1>1, <1>2, <1>3, <1>4, SameWord

LEMMA FinishTaken ==
    ASSUME BootInv, Len(toPi) >= 4, PiTakes, UNCHANGED <<unix, toUnix, acked>>,
           NEW o \in Nat, NEW v, v = o + 4, NEW r \in Nat, NEW x \in Nat, x = r + 4,
           Finishes(o, x), Copied(acked)'
    PROVE  Finishes(v, r)'
<1>1. Behind(r + 4) /\ o + (r + 4) = 4 * (5 + Padded(acked))
      /\ \A j \in 1 .. r + 4 : toPi[j] = SessionByte(acked, o + j)
    BY DEF Finishes
<1>2. /\ \/ Ended /\ Len(toPi') = r
         \/ Early /\ toUnix = <<>> /\ After(toPi', unix.prog, r, Sent)
      /\ Sent' = Sent /\ (Ended' <=> Ended) /\ (Early' <=> Early)
    BY <1>1, Taken
<1>3. Behind(r)'
    BY <1>2 DEF Behind
<1>4. PICK l \in Nat : l = Len(toPi) /\ l >= r + 4
    <2>1. Len(toPi) \in Nat /\ Len(toPi) - 4 >= r
        <3>1. toPi' \in Seq(Byte) /\ Len(toPi') = Len(toPi) - 4 /\ toPi \in Seq(Byte)
            BY Taken DEF BootInv, Lines
        <3>2. PICK n \in Nat : n = Sent
            BY SentFacts DEF BootInv, SentIs
        <3>3. Len(toPi') >= r
            BY <1>2, <3>2 DEF After
        <3> QED BY <3>1, <3>3
    <2> QED BY <2>1
<1>5. Moved(toPi', toPi, 4)
    BY PiTaken DEF PiTakes, BootInv, Lines
<1>6. ASSUME NEW j \in 1 .. r PROVE toPi'[j] = SessionByte(acked, v + j)
    <2>1. j \in 1 .. l - 4 /\ j + 4 \in 1 .. r + 4 /\ o + (j + 4) = v + j
        BY <1>4
    <2>2. toPi'[j] = toPi[j + 4]
        BY <1>4, <1>5, <2>1 DEF Moved
    <2>3. toPi[j + 4] = SessionByte(acked, o + (j + 4))
        BY <1>1, <2>1
    <2> QED BY <2>1, <2>2, <2>3
<1>7. v + r = 4 * (5 + Padded(acked))
    <2>1. v + r = o + (r + 4)
        OBVIOUS
    <2> QED BY <1>1, <2>1
<1> QED BY <1>3, <1>6, <1>7 DEF Finishes

(* What the pi says when it refuses or accepts is no echo. *)
LEMMA CodeBytes ==
    ASSUME NEW w \in {BAD_CKSUM, BAD_START, BAD_END, TOO_BIG, ACK, NAK}
    PROVE  w \in Word /\ \A j \in 1 .. 4 : w[j] # 120
<1>1. w \in Word
    BY Codes
<1>2. \A v \in 0 .. 7 : \A j \in 1 .. 4 : Code(v)[j] # 120
    BY DEF Code
<1>3. PICK v \in 0 .. 7 : w = Code(v)
    BY DEF BAD_CKSUM, BAD_START, BAD_END, TOO_BIG, ACK, NAK
<1> QED BY <1>1, <1>2, <1>3

LEMMA CodeSaid ==
    ASSUME toUnix \in Seq(Byte), NEW w \in {BAD_CKSUM, BAD_START, BAD_END, TOO_BIG, ACK, NAK},
           toUnix' = toUnix \o w, Echoed'
    PROVE  Echoed
<1>1. w \in Word /\ w \in Seq(Byte) /\ Len(w) = 4 /\ \A j \in 1 .. 4 : w[j] # 120
    BY CodeBytes, WordIsSeq
<1>2. Longer(toUnix', toUnix, w)
    BY <1>1, PutFacts
<1>3. PICK m \in Nat : m = Len(toUnix)
    OBVIOUS
<1>4. /\ Len(toUnix') = m + 4 /\ \A j \in 1 .. m : toUnix'[j] = toUnix[j]
      /\ \A j \in 1 .. 4 : toUnix'[m + j] = w[j]
    BY <1>1, <1>2, <1>3 DEF Longer
<1>5. PICK i \in 1 .. m + 4 : toUnix'[i] = 120
    BY <1>4 DEF Echoed
<1>6. CASE i \in 1 .. m
    <2>1. toUnix[i] = 120
        BY <1>4, <1>5, <1>6
    <2> QED BY <1>3, <1>6, <2>1 DEF Echoed
<1>7. CASE i \notin 1 .. m
    <2>1. PICK j \in 1 .. 4 : i = m + j
        <3>1. i - m \in 1 .. 4 /\ i = m + (i - m)
            BY <1>3, <1>7
        <3> QED BY <3>1
    <2>2. toUnix'[m + j] = w[j] /\ w[j] # 120
        BY <1>1, <1>4, Zenon
    <2> QED BY <1>5, <2>1, <2>2, Zenon
<1> QED BY <1>6, <1>7

(* The pi goes down, and my-install had not just begun. *)
LEMMA GoesDown ==
    ASSUME BootInv, SessionInv, Len(toPi) >= 4, PiTakes, UNCHANGED <<unix, acked>>,
           pi'.pc \in {"off", "wild"},
           toUnix' = toUnix \/ \E w \in {BAD_CKSUM, BAD_START, BAD_END, TOO_BIG, NAK} :
                                  toUnix' = toUnix \o w,
           Expects => Sent > 1 \/ (Sent = 1 /\ Len(toPi) = 4)
    PROVE  SessionInv'
<1>1. /\ toPi' \in Seq(Byte) /\ Len(toPi') = Len(toPi) - 4
      /\ Sent' = Sent /\ (Ended' <=> Ended) /\ (Early' <=> Early)
      /\ Ends(toPi', unix'.prog, Sent')
    BY Taken DEF SessionInv
<1>2. PICK n \in Nat : n = Sent
    BY SentFacts DEF SentIs, BootInv
<1>3. Expects' => Expects
    <2>1. CASE toUnix' = toUnix
        BY <1>1, <2>1 DEF Expects, Echoed
    <2>2. CASE \E w \in {BAD_CKSUM, BAD_START, BAD_END, TOO_BIG, NAK} : toUnix' = toUnix \o w
        <3>1. Echoed' => Echoed
            BY <2>2, CodeSaid DEF BootInv, Lines
        <3> QED BY <1>1, <3>1 DEF Expects
    <2> QED BY <2>1, <2>2
<1>4. Expects' => Missed'
    <2> SUFFICES ASSUME Expects' PROVE Missed'
        OBVIOUS
    <2>1. n > 1 \/ (n = 1 /\ Len(toPi) = 4)
        BY <1>2, <1>3
    <2>2. n >= 1 /\ (n = 1 => Len(toPi') < 4)
        <3>1. \A x \in Nat : (x = 1 => ~(x > 1)) /\ (x > 1 => x >= 1)
            OBVIOUS
        <3>2. n = 1 => Len(toPi) = 4
            BY <2>1, <3>1, Zenon
        <3>3. Len(toPi) = 4 => Len(toPi') < 4
            BY <1>1
        <3>4. n >= 1
            BY <2>1
        <3> QED BY <3>2, <3>3, <3>4
    <2> QED BY <1>1, <1>2, <2>2 DEF Missed
<1>5. HostInv'
    BY <1>4 DEF HostInv, Answered
<1>6. PiInv' /\ RunInv'
    BY DEF PiInv, RunInv
<1>7. ~Ended' => unix'.prog \in Programs
    BY <1>1 DEF SessionInv
<1> QED BY <1>1, <1>5, <1>6, <1>7 DEF SessionInv

LEMMA PiSOHSession ==
    ASSUME BootInv, SessionInv, PiSOH
    PROVE  SessionInv'
<1>1. /\ pi.pc = "SOH" /\ Len(toPi) >= 4 /\ PiTakes /\ UNCHANGED <<unix, acked>> /\ Lines
      /\ pi \in PiType
    BY DEF PiSOH, PiGets, BootInv, PiOK
<1>2. Expects => Missed \/ (Cur(0) /\ Len(toUnix) <= Owed)
    BY <1>1 DEF SessionInv, HostInv, Answered, ToCome, InStep
<1>3. PICK n \in Nat, l \in Nat : SentIs(n) /\ l = Len(toPi) /\ l >= 4
    BY <1>1, SentFacts DEF SentIs, BootInv, Lines
<1>4. Cur(0) => PiWord = SOH
    <2> SUFFICES ASSUME Cur(0) PROVE PiWord = SOH
        OBVIOUS
    <2>1. PICK i \in Nat, o \in Nat, q \in Nat : i = 0 /\ o = 0 /\ q = 1
        OBVIOUS
    <2>2. Cur(o) /\ o = 4 * i /\ q = i + 1
        BY <2>1
    <2>3. PiWord = SessionWord(unix.prog, q)
        BY <1>1, <2>2, CurWord
    <2> QED BY <2>1, <2>3 DEF SessionWord
<1>5. CASE PiWord # SOH /\ die(BAD_START)
    <2>1. pi'.pc = "off" /\ toUnix' = toUnix \o BAD_START
        BY <1>5 DEF die, PiSends, Off
    <2>2. Expects => n > 1
        <3>1. Missed => n >= 1 /\ n # 1
            BY <1>3 DEF Missed, SentIs
        <3>2. n >= 1 /\ n # 1 => n > 1
            OBVIOUS
        <3> QED BY <1>2, <1>4, <1>5, <3>1, <3>2
    <2> QED BY <1>1, <1>3, <2>1, <2>2, GoesDown DEF SentIs
<1>6. CASE PiWord = SOH /\ pi' = [pi EXCEPT !.pc = "size"] /\ UNCHANGED toUnix
    <2>1. Begins(toPi)
        BY <1>1, <1>6, WordBegins
    <2>2. Expects => Cur(0) /\ Len(toUnix) <= Owed
        BY <1>1, <1>2, <2>1 DEF Missed
    <2>3. pi'.pc = "size"
        BY <1>1, <1>6 DEF PiType
    <2>4. Cur(0) \/ Behind(12)
        BY <1>1, <2>1 DEF SessionInv, PiInv
    <2>5. /\ Sent' = Sent /\ (Ended' <=> Ended) /\ (Early' <=> Early)
          /\ Ends(toPi', unix'.prog, Sent')
        BY <1>1, Taken DEF SessionInv
    <2>6. Cur(4)' \/ Behind(8)'
        <3>1. CASE Cur(0)
            <4>1. Cur(0 + 4)' /\ 0 + 4 = 4
                BY <1>1, <3>1, Taken
            <4> QED BY <4>1
        <3>2. CASE Behind(12)
            <4>1. Behind(8 + 4)
                BY <3>2
            <4>2. \/ Ended /\ Len(toPi') = 8
                  \/ Early /\ toUnix = <<>> /\ After(toPi', unix.prog, 8, Sent)
                BY <1>1, <4>1, Taken
            <4> QED BY <1>1, <1>6, <2>5, <4>2 DEF Behind
        <3> QED BY <2>4, <3>1, <3>2
    <2>7. PiInv' /\ RunInv'
        BY <2>3, <2>6 DEF PiInv, RunInv
    <2>8. HostInv'
        <3>1. (Expects' <=> Expects) /\ Owed' = Owed
            BY <1>1, <1>6, <2>5 DEF Expects, Echoed, Owed
        <3>2. Cur(0) => Cur(0 + 4)' /\ 0 + 4 = 4
            BY <1>1, Taken
        <3>3. Cur(0) => ToCome'
            BY <2>3, <3>2 DEF ToCome
        <3> QED BY <1>6, <2>2, <3>1, <3>3 DEF HostInv, Answered
    <2> QED BY <1>1, <2>5, <2>7, <2>8 DEF SessionInv
<1> QED BY <1>5, <1>6 DEF PiSOH

LEMMA PiSizeSession ==
    ASSUME BootInv, SessionInv, PiSize
    PROVE  SessionInv'
<1>1. /\ pi.pc = "size" /\ Len(toPi) >= 4 /\ PiTakes /\ UNCHANGED <<unix, acked, toUnix>> /\ Lines
      /\ pi \in PiType /\ Copying(pi) /\ UnixOK /\ toPi \in Seq(Byte)
    BY DEF PiSize, PiGets, BootInv, PiOK, Lines
<1>2. Expects => Cur(4) /\ Len(toUnix) <= Owed
    BY <1>1 DEF SessionInv, HostInv, Answered, ToCome, InStep, Missed
<1>3. /\ pi'.pc = "hash" /\ pi'.nBytes = PiWord /\ pi'.mem = <<>>
    BY <1>1 DEF PiSize, PiType, Copying
<1>4. Cur(4) \/ Behind(8)
    BY <1>1 DEF SessionInv, PiInv
<1>5. /\ Sent' = Sent /\ (Ended' <=> Ended) /\ (Early' <=> Early)
      /\ Ends(toPi', unix'.prog, Sent')
    BY <1>1, Taken DEF SessionInv
<1>6. Cur(4) => Cur(8)' /\ Copied(unix.prog)'
    <2> SUFFICES ASSUME Cur(4) PROVE Cur(8)' /\ Copied(unix.prog)'
        OBVIOUS
    <2>1. Cur(8)' /\ Copied(unix.prog)'
        <3>1. Cur(4 + 4)' /\ 4 + 4 = 8
            BY <1>1, Taken
        <3>2. PICK i \in Nat, o \in Nat, q \in Nat : i = 1 /\ o = 4 /\ q = 2
            OBVIOUS
        <3>3. PICK p \in Files : p = unix.prog
            BY <1>1 DEF UnixOK, UnixType
        <3>4. Cur(o) /\ o = 4 * i /\ q = i + 1
            BY <3>2
        <3>5. PiWord = SessionWord(unix.prog, q)
            BY <1>1, <3>4, CurWord
        <3>6. PiWord = SessionWord(p, 2)
            BY <3>2, <3>3, <3>5
        <3>7. pi'.nBytes = Size(Len(p))
            BY <1>3, <3>6, SessionWords
        <3>8. Copied(unix.prog)'
            BY <1>1, <1>3, <3>3, <3>7, EmptySeq DEF Copied
        <3> QED BY <3>1, <3>8
    <2> QED BY <2>1
<1>7. (Cur(8)' /\ Copied(unix.prog)') \/ Behind(4)'
    <2>2. CASE Behind(8)
        <3>1. Behind(4 + 4)
            BY <2>2
        <3>2. \/ Ended /\ Len(toPi') = 4
              \/ Early /\ toUnix = <<>> /\ After(toPi', unix.prog, 4, Sent)
            BY <1>1, <3>1, Taken
        <3> QED BY <1>1, <1>5, <3>2 DEF Behind
    <2> QED BY <1>4, <1>6, <2>2
<1>8. PiInv' /\ RunInv'
    BY <1>3, <1>7 DEF PiInv, RunInv
<1>9. HostInv'
    <2>1. (Expects' <=> Expects) /\ Owed' = Owed
        BY <1>1, <1>5 DEF Expects, Echoed, Owed
    <2>2. Cur(4) => ToCome'
        BY <1>3, <1>6 DEF ToCome
    <2> QED BY <1>1, <1>2, <2>1, <2>2 DEF HostInv, Answered
<1> QED BY <1>1, <1>5, <1>8, <1>9 DEF SessionInv

LEMMA PiHashSession ==
    ASSUME BootInv, SessionInv, PiHash
    PROVE  SessionInv'
<1>1. /\ pi.pc = "hash" /\ Len(toPi) >= 4 /\ PiTakes /\ UNCHANGED <<unix, acked>> /\ Lines
      /\ pi \in PiType /\ Copying(pi) /\ UnixOK /\ toPi \in Seq(Byte) /\ toUnix \in Seq(Byte)
    BY DEF PiHash, PiGets, BootInv, PiOK, Lines
<1>2. Expects => Cur(8) /\ Copied(unix.prog)
    BY <1>1 DEF SessionInv, HostInv, Answered, ToCome, InStep, Missed
<1>3. CASE die(TOO_BIG)
    <2>1. pi'.pc = "off" /\ toUnix' = toUnix \o TOO_BIG
        BY <1>3 DEF die, PiSends, Off
    <2>2. Cur(8) => Sent > 1
        <3> SUFFICES ASSUME Cur(8) PROVE Sent > 1
            OBVIOUS
        <3>1. PICK i \in Nat, o \in Nat, q \in Nat : i = 2 /\ o = 8 /\ q = 3
            OBVIOUS
        <3>2. Cur(o) /\ o = 4 * i /\ q = i + 1
            BY <3>1
        <3>3. Sent >= q
            BY <1>1, <3>2, CurWord
        <3>4. PICK n \in Nat : n = Sent
            BY <1>1, SentFacts DEF SentIs
        <3> QED BY <3>1, <3>3, <3>4
    <2> QED BY <1>1, <1>2, <2>1, <2>2, GoesDown
<1>4. CASE /\ pi' = [pi EXCEPT !.pc = "ack", !.fileHash = PiWord]
           /\ PiSends(SOH \o crc32(pi.nBytes) \o PiWord)
    <2>1. pi'.pc = "ack" /\ pi'.nBytes = pi.nBytes /\ pi'.mem = pi.mem /\ pi.mem = <<>>
        BY <1>1, <1>4 DEF PiType, Copying
    <2>2. /\ Sent' = Sent /\ (Ended' <=> Ended) /\ (Early' <=> Early) /\ toPi' \in Seq(Byte)
          /\ Ends(toPi', unix'.prog, Sent')
        BY <1>1, Taken DEF SessionInv
    <2>3. PICK w \in Seq(Byte) : toUnix' = toUnix \o w /\ Len(w) = 12 /\ Longer(toUnix', toUnix, w)
        <3>1. crc32(pi.nBytes) \in Word /\ PiWord \in Word
            BY <1>1, Crc32Type, WordIsSeq, PiTaken DEF PiType
        <3>2. PICK w \in Seq(Byte) : w = SOH \o crc32(pi.nBytes) \o PiWord /\ Len(w) = 12
            <4>1. PICK s \in Seq(Byte), c \in Seq(Byte), h \in Seq(Byte) :
                     /\ s = SOH /\ c = crc32(pi.nBytes) /\ h = PiWord
                     /\ Len(s) = 4 /\ Len(c) = 4 /\ Len(h) = 4
                BY <3>1, Codes, WordIsSeq
            <4>2. PICK e \in Seq(Byte) : e = s \o c /\ Longer(e, s, c)
                BY <4>1, PutFacts
            <4>3. PICK w \in Seq(Byte) : w = e \o h /\ Longer(w, e, h)
                BY <4>1, PutFacts
            <4>4. Len(w) = 12
                BY <4>1, <4>2, <4>3 DEF Longer
            <4> QED BY <4>1, <4>2, <4>3, <4>4
        <3>3. toUnix' = toUnix \o w
            BY <1>4, <3>2 DEF PiSends
        <3> QED BY <1>1, <3>2, <3>3, PutFacts
    <2>4. \/ Cur(12)' /\ Copied(unix.prog)'
          \/ Ended /\ Len(toPi') = 0
          \/ Early /\ toUnix = <<>> /\ Cur(0)'
        <3>1. CASE Cur(8) /\ Copied(unix.prog)
            <4>1. Cur(8 + 4)' /\ 8 + 4 = 12
                BY <1>1, <3>1, Taken
            <4>2. Copied(unix.prog)'
                BY <1>1, <2>1, <3>1 DEF Copied
            <4> QED BY <4>1, <4>2
        <3>2. CASE Behind(4)
            <4>1. Behind(0 + 4)
                BY <3>2
            <4>2. \/ Ended /\ Len(toPi') = 0
                  \/ Early /\ toUnix = <<>> /\ After(toPi', unix.prog, 0, Sent)
                BY <1>1, <4>1, Taken
            <4>3. ASSUME Early, After(toPi', unix.prog, 0, Sent)
                  PROVE  Cur(0)'
                <5>1. PICK n \in Nat : n = Sent
                    BY <1>1, SentFacts DEF SentIs
                <5>2. Part(toPi', unix.prog, 0, n)
                    BY <2>2, <4>3, <5>1, AfterNothing
                <5>3. ~Ended'
                    BY <1>1, <4>3 DEF Early, Ended, Done
                <5>4. Part(toPi', unix'.prog, 0, Sent')
                    BY <1>1, <2>2, <5>1, <5>2
                <5> QED BY <5>3, <5>4 DEF Cur
            <4> QED BY <4>2, <4>3
        <3> QED BY <1>1, <3>1, <3>2 DEF SessionInv, PiInv
    <2>5. InStep' \/ Refused'
        <3>1. toPi' \in Seq(Byte) /\ (Len(toPi') = 0 => toPi' = <<>>)
            BY <2>2
        <3> QED BY <2>1, <2>2, <2>4, <3>1 DEF InStep, Refused
    <2>6. PiInv' /\ RunInv'
        BY <2>1, <2>5 DEF PiInv, RunInv
    <2>7. HostInv'
        <3> SUFFICES ASSUME Expects' PROVE Answered'
            BY DEF HostInv
        <3>1. CASE Cur(12)' /\ Copied(unix.prog)'
            BY <2>1, <3>1 DEF Answered, InStep
        <3>2. CASE Ended
            BY <2>2, <3>2 DEF Expects
        <3>3. CASE Early /\ toUnix = <<>> /\ Cur(0)'
            <4>1. Len(toUnix') = 12
                BY <2>3, <3>3, EmptySeq DEF Longer
            <4>2. Owed' = 12
                BY <2>2, <3>3 DEF Owed
            <4>3. ToCome'
                BY <2>1, <3>3 DEF ToCome
            <4> QED BY <4>1, <4>2, <4>3 DEF Answered
        <3> QED BY <2>4, <3>1, <3>2, <3>3
    <2> QED BY <1>1, <2>2, <2>6, <2>7 DEF SessionInv
<1> QED BY <1>3, <1>4 DEF PiHash

LEMMA PiACKSession ==
    ASSUME BootInv, SessionInv, PiACK
    PROVE  SessionInv'
<1>1. /\ pi.pc = "ack" /\ Len(toPi) >= 4 /\ PiTakes /\ UNCHANGED <<unix, acked>> /\ Lines
      /\ pi \in PiType /\ Copying(pi) /\ UnixOK /\ toPi \in Seq(Byte) /\ acked \in Files
    BY DEF PiACK, PiGets, BootInv, PiOK, Lines, Counts
<1>2. PICK n \in Nat : SentIs(n)
    BY <1>1, SentFacts DEF SentIs
<1>3. Expects => InStep \/ Cur(0)
    BY <1>1 DEF SessionInv, HostInv, Answered, ToCome, Missed
<1>4. PICK l \in Nat : l = Len(toPi) /\ l >= 4
    BY <1>1
<1>5. PICK p \in Files : p = unix.prog
    BY <1>1 DEF UnixOK, UnixType
<1>6. Cur(12) => PiWord = ACK /\ n >= 4
    <2> SUFFICES ASSUME Cur(12) PROVE PiWord = ACK /\ n >= 4
        OBVIOUS
    <2>1. PICK i \in Nat, o \in Nat, q \in Nat : i = 3 /\ o = 12 /\ q = 4
        OBVIOUS
    <2>2. Cur(o) /\ o = 4 * i /\ q = i + 1
        BY <2>1
    <2>3. PiWord = SessionWord(unix.prog, q) /\ Sent >= q
        BY <1>1, <2>2, CurWord
    <2>4. PiWord = ACK
        BY <1>5, <2>1, <2>3, SessionWords
    <2> QED BY <1>2, <2>1, <2>3, <2>4 DEF SentIs
<1>7. Cur(0) => l = 4 * n
    BY <1>2, <1>4 DEF Cur, Part, SentIs
<1>8. CASE PiWord # ACK /\ die(NAK)
    <2>1. pi'.pc = "off" /\ toUnix' = toUnix \o NAK
        BY <1>8 DEF die, PiSends, Off
    <2>2. Expects => Cur(0)
        BY <1>1, <1>3, <1>6, <1>8 DEF InStep
    <2>3. Expects => n > 1 \/ (n = 1 /\ l = 4)
        BY <1>4, <1>7, <2>2
    <2> QED BY <1>1, <1>2, <1>4, <2>1, <2>3, GoesDown DEF SentIs
<1>9. CASE PiWord = ACK /\ pi' = [pi EXCEPT !.pc = CopyPc(0)] /\ UNCHANGED toUnix
    <2>1. PICK c \in {"copy", "EOT"} : c = CopyPc(0)
        BY CopyFacts
    <2>2. pi'.pc = c /\ pi'.nBytes = pi.nBytes /\ pi'.mem = pi.mem /\ pi.mem = <<>>
        BY <1>1, <1>9, <2>1 DEF PiType, Copying
    <2>3. ~Begins(toPi) /\ toPi # <<>>
        <3>1. ACK # SOH
            BY DEF ACK, SOH, Code
        <3> QED BY <1>1, <1>9, <3>1, WordBegins
    <2>4. ~Cur(0)
        <3> SUFFICES ASSUME Cur(0) PROVE FALSE
            OBVIOUS
        <3>1. PICK i \in Nat, o \in Nat, q \in Nat : i = 0 /\ o = 0 /\ q = 1
            OBVIOUS
        <3>2. Cur(o) /\ o = 4 * i /\ q = i + 1
            BY <3>1
        <3>3. PiWord = SessionWord(unix.prog, q)
            BY <1>1, <3>2, CurWord
        <3>4. PiWord = SOH
            BY <1>5, <3>1, <3>3, SessionWords
        <3> QED BY <1>1, <2>3, <3>4, WordBegins
    <2>5. InStep \/ Finishing
        BY <1>1, <2>3, <2>4 DEF SessionInv, PiInv, Refused
    <2>6. /\ Sent' = Sent /\ (Ended' <=> Ended) /\ (Early' <=> Early)
          /\ Ends(toPi', unix'.prog, Sent')
        BY <1>1, Taken DEF SessionInv
    <2>7. Len(pi'.mem) = 0 /\ 16 + 4 * Len(pi'.mem) = 16
        <3>1. Len(pi'.mem) = 0
            BY <2>2
        <3> QED BY <3>1
    <2>8. InStep => InStep'
        <3> SUFFICES ASSUME InStep PROVE InStep'
            OBVIOUS
        <3>1. Cur(12) /\ Copied(unix.prog)
            BY <1>1 DEF InStep
        <3>2. unix'.pc \in {"data", "EOT", "xACK"}
            BY <1>1, <1>2, <1>6, <3>1 DEF SentIs
        <3>3. Cur(12 + 4)' /\ 12 + 4 = 16
            BY <1>1, <3>1, Taken
        <3>4. ~Ended' /\ Part(toPi', unix'.prog, 16 + 4 * Len(pi'.mem), Sent')
            BY <2>7, <3>3 DEF Cur
        <3>5. Copied(unix.prog)'
            BY <1>1, <2>2, <3>1 DEF Copied
        <3> QED BY <2>2, <3>2, <3>4, <3>5 DEF InStep, Cur
    <2>9. Finishing => Finishing'
        <3> SUFFICES ASSUME Finishing PROVE Finishing'
            OBVIOUS
        <3>1. PICK x \in Nat : Finishes(12, x)
            BY <1>1 DEF Finishing
        <3>2. PICK m \in Nat : m = Padded(acked)
            BY <1>1, FileFacts
        <3>3. 12 + x = 4 * (5 + m)
            BY <3>1, <3>2 DEF Finishes
        <3>4. PICK o \in Nat, v \in Nat, r \in Nat : o = 12 /\ v = 16 /\ v = o + 4 /\ x = r + 4
            <4>1. x - 4 \in Nat /\ x = (x - 4) + 4 /\ 16 = 12 + 4
                BY <3>3
            <4> QED BY <4>1
        <3>5. Copied(acked)'
            BY <1>1, <2>2, <3>1 DEF Finishes, Copied
        <3>6. Finishes(o, x)
            BY <3>1, <3>4
        <3>7. Finishes(v, r)'
            BY <1>1, <1>9, <3>4, <3>5, <3>6, FinishTaken
        <3>8. Finishes(16 + 4 * Len(pi.mem), r)'
            BY <2>7, <3>4, <3>7
        <3> QED BY <2>2, <3>8 DEF Finishing
    <2>10. PiInv' /\ RunInv'
        BY <2>2, <2>5, <2>8, <2>9 DEF PiInv, RunInv
    <2>11. HostInv'
        <3>1. Expects' <=> Expects
            BY <1>9, <2>6 DEF Expects, Echoed
        <3>2. Expects => InStep
            BY <2>5, FinishingSilent
        <3> QED BY <2>8, <3>1, <3>2 DEF HostInv, Answered
    <2> QED BY <1>1, <2>6, <2>10, <2>11 DEF SessionInv
<1> QED BY <1>8, <1>9 DEF PiACK, RefusesNoACK

(* The pi is in step, or at the end of an earlier run, and as far as the    *)
(* next word.                                                                *)
LEMMA CopyingWord ==
    ASSUME BootInv, SessionInv, pi.pc \in {"copy", "EOT"}, Len(toPi) >= 4
    PROVE  \E p \in Files, n \in Nat, m \in Nat, s \in Nat :
              /\ n = Len(pi.mem) /\ m = Padded(p) /\ SentIs(s) /\ Copied(p)
              /\ PiWord = SessionWord(p, 5 + n)
              /\ pi.pc = "copy" <=> n < m
              /\ n <= m
              /\ \/ /\ p = unix.prog /\ InStep /\ s >= 5 + n
                    /\ unix.pc \in {"data", "EOT", "xACK"} /\ Cur(16 + 4 * n)
                 \/ /\ p = acked /\ Finishing
                    /\ \E r \in Nat, x \in Nat :
                          x = r + 4 /\ r = 4 * (m - n) /\ Finishes(16 + 4 * n, x)
<1>1. /\ Lines /\ pi \in PiType /\ Copying(pi) /\ UnixOK /\ acked \in Files
    BY DEF BootInv, PiOK, Counts
<1>2. PICK n \in Nat : n = Len(pi.mem)
    BY <1>1 DEF PiType
<1>3. PICK s \in Nat : SentIs(s)
    BY <1>1, SentFacts DEF SentIs
<1>4. PICK i \in Nat, o \in Nat, q \in Nat :
         i = 4 + n /\ o = 16 + 4 * n /\ q = 5 + n /\ o = 4 * i /\ q = i + 1
    <2>1. 16 + 4 * n = 4 * (4 + n) /\ 5 + n = (4 + n) + 1
        OBVIOUS
    <2> QED BY <2>1
<1>5. ASSUME NEW p \in Files, NEW m \in Nat, m = Padded(p), Copied(p)
      PROVE  (pi.pc = "copy" <=> n < m) /\ n <= m
    <2>1. \A k \in Nat : More(pi.nBytes, k) <=> k < m
        BY <1>5, SizeFacts DEF Copied
    <2>2. pi.pc = "copy" => More(pi.nBytes, n)
        BY <1>1, <1>2 DEF Copying
    <2>3. pi.pc = "EOT" => ~More(pi.nBytes, n) /\ (n # 0 => More(pi.nBytes, n - 1))
        BY <1>1, <1>2 DEF Copying
    <2>4. n # 0 => n - 1 \in Nat
        OBVIOUS
    <2> QED BY <2>1, <2>2, <2>3, <2>4
<1>6. CASE InStep
    <2>1. PICK p \in Files, m \in Nat : p = unix.prog /\ m = Padded(p)
        BY <1>1, FileFacts DEF UnixOK, UnixType
    <2>2. unix.pc \in {"data", "EOT", "xACK"} /\ Cur(16 + 4 * n) /\ Copied(p)
        BY <1>2, <1>6, <2>1 DEF InStep
    <2>3. PiWord = SessionWord(p, 5 + n) /\ s >= 5 + n
        <3>1. Cur(o)
            BY <1>4, <2>2
        <3>2. PiWord = SessionWord(unix.prog, q) /\ Sent >= q
            BY <1>4, <3>1, CurWord
        <3> QED BY <1>3, <1>4, <2>1, <3>2 DEF SentIs
    <2>4. (pi.pc = "copy" <=> n < m) /\ n <= m
        BY <1>5, <2>1, <2>2
    <2> QED BY <1>2, <1>3, <1>6, <2>1, <2>2, <2>3, <2>4
<1>7. CASE Finishing
    <2>1. PICK p \in Files, m \in Nat : p = acked /\ m = Padded(p)
        BY <1>1, FileFacts
    <2>2. PICK x \in Nat : Finishes(16 + 4 * n, x)
        BY <1>2, <1>7 DEF Finishing
    <2>3. Copied(p) /\ (16 + 4 * n) + x = 4 * (5 + m)
        BY <2>1, <2>2 DEF Finishes
    <2>4. (pi.pc = "copy" <=> n < m) /\ n <= m
        BY <1>5, <2>1, <2>3
    <2>5. PICK r \in Nat : x = r + 4 /\ r = 4 * (m - n)
        <3>1. x = 4 * (m - n) + 4 /\ 4 * (m - n) \in Nat
            BY <2>3, <2>4
        <3> QED BY <3>1
    <2>6. x >= 4
        BY <2>5
    <2>7. Finishes(o, x)
        BY <1>4, <2>2
    <2>8. PiWord = SessionWord(acked, q)
        BY <1>4, <2>6, <2>7, FinishWord
    <2>9. PiWord = SessionWord(p, 5 + n)
        BY <1>4, <2>1, <2>8
    <2> QED BY <1>2, <1>3, <1>7, <2>1, <2>2, <2>3, <2>4, <2>5, <2>9
<1> QED BY <1>6, <1>7 DEF SessionInv, PiInv

LEMMA PiCopySession ==
    ASSUME BootInv, SessionInv, PiCopy
    PROVE  SessionInv'
<1>1. /\ pi.pc = "copy" /\ Len(toPi) >= 4 /\ PiTakes /\ UNCHANGED <<unix, acked, toUnix>> /\ Lines
      /\ pi \in PiType /\ UnixOK /\ PiWord \in Word
    BY PiTaken DEF PiCopy, PiGets, BootInv, PiOK
<1>2. PICK p \in Files, n \in Nat, m \in Nat, s \in Nat :
              /\ n = Len(pi.mem) /\ m = Padded(p) /\ SentIs(s) /\ Copied(p)
              /\ PiWord = SessionWord(p, 5 + n)
              /\ n < m
              /\ \/ /\ p = unix.prog /\ InStep /\ s >= 5 + n
                    /\ unix.pc \in {"data", "EOT", "xACK"} /\ Cur(16 + 4 * n)
                 \/ /\ p = acked /\ Finishing
                    /\ \E r \in Nat, x \in Nat :
                          x = r + 4 /\ r = 4 * (m - n) /\ Finishes(16 + 4 * n, x)
    BY <1>1, CopyingWord
<1>3. CASE pi' = [Off EXCEPT !.pc = "wild"]
    <2>1. pi'.pc = "wild"
        BY <1>3 DEF Off
    <2>2. Expects => Sent > 1
        <3>1. s >= 5 + n => s > 1
            OBVIOUS
        <3> QED BY <1>2, <3>1, FinishingSilent DEF SentIs
    <2> QED BY <1>1, <2>1, <2>2, GoesDown
<1>4. CASE pi' = [pi EXCEPT !.pc = CopyPc(n + 1), !.mem = Append(@, PiWord)]
    <2>1. PICK c \in {"copy", "EOT"} : c = CopyPc(n + 1)
        BY CopyFacts
    <2>2. PICK mem : mem = Append(pi.mem, PiWord)
        OBVIOUS
    <2>3. /\ Len(mem) = n + 1 /\ mem[n + 1] = PiWord
          /\ \A i \in 1 .. n : mem[i] = pi.mem[i]
        BY <1>1, <1>2, <2>2, AppendProperties DEF PiType
    <2>4. pi'.pc = c /\ pi'.nBytes = pi.nBytes /\ pi'.mem = mem
        BY <1>1, <1>4, <2>1, <2>2 DEF PiType
    <2>5. /\ Sent' = Sent /\ (Ended' <=> Ended) /\ (Early' <=> Early)
          /\ Ends(toPi', unix'.prog, Sent')
        BY <1>1, Taken DEF SessionInv
    <2>6. pi'.nBytes = Size(Len(p)) /\ \A i \in 1 .. Len(pi'.mem) : pi'.mem[i] = ProgWord(p, i)
        <3>1. PiWord = ProgWord(p, n + 1)
            BY <1>2, SessionWords
        <3>2. \A i \in 1 .. n + 1 : mem[i] = ProgWord(p, i)
            BY <1>2, <2>3, <3>1 DEF Copied
        <3> QED BY <1>2, <2>3, <2>4, <3>2 DEF Copied
    <2>7. PICK o \in Nat, v \in Nat : o = 16 + 4 * n /\ v = o + 4 /\ v = 16 + 4 * Len(pi'.mem)
        <3>1. (16 + 4 * n) + 4 = 16 + 4 * (n + 1)
            OBVIOUS
        <3> QED BY <2>3, <2>4, <3>1
    <2>8. CASE p = unix.prog /\ InStep /\ unix.pc \in {"data", "EOT", "xACK"} /\ Cur(16 + 4 * n)
        <3>1. Cur(o + 4)'
            BY <1>1, <2>7, <2>8, Taken
        <3>2. ~Ended' /\ Part(toPi', unix'.prog, 16 + 4 * Len(pi'.mem), Sent')
            BY <2>7, <3>1 DEF Cur
        <3>3. Copied(unix.prog)'
            BY <1>1, <2>6, <2>8 DEF Copied
        <3>4. InStep'
            BY <1>1, <2>1, <2>4, <2>8, <3>2, <3>3 DEF InStep, Cur
        <3>5. PiInv' /\ RunInv'
            BY <2>1, <2>4, <3>4 DEF PiInv, RunInv
        <3>6. HostInv'
            BY <3>4 DEF HostInv, Answered
        <3> QED BY <1>1, <2>5, <3>5, <3>6 DEF SessionInv
    <2>9. CASE /\ p = acked /\ Finishing
               /\ \E r \in Nat, x \in Nat : x = r + 4 /\ r = 4 * (m - n) /\ Finishes(16 + 4 * n, x)
        <3>1. PICK r \in Nat, x \in Nat : x = r + 4 /\ Finishes(o, x)
            BY <2>7, <2>9
        <3>2. Copied(acked)'
            BY <1>1, <2>6, <2>9 DEF Copied
        <3>3. Finishes(v, r)'
            BY <1>1, <2>7, <3>1, <3>2, FinishTaken
        <3>4. Finishes(16 + 4 * Len(pi.mem), r)'
            BY <2>7, <3>3
        <3>5. Finishing'
            BY <2>1, <2>4, <3>4 DEF Finishing
        <3>6. PiInv' /\ RunInv'
            BY <2>1, <2>4, <3>5 DEF PiInv, RunInv
        <3>7. HostInv'
            BY <1>1, <2>5, <2>9, FinishingSilent DEF HostInv, Expects, Echoed
        <3> QED BY <1>1, <2>5, <3>6, <3>7 DEF SessionInv
    <2> QED BY <1>2, <2>8, <2>9
<1> QED BY <1>2, <1>3, <1>4 DEF PiCopy

LEMMA PiEOTSession ==
    ASSUME BootInv, AnswerInv, SessionInv, PiEOT
    PROVE  SessionInv'
<1>1. /\ pi.pc = "EOT" /\ Len(toPi) >= 4 /\ PiTakes /\ UNCHANGED <<unix, acked>> /\ Lines
      /\ pi \in PiType /\ UnixOK /\ toUnix \in Seq(Byte)
    BY DEF PiEOT, PiGets, BootInv, PiOK, Lines
<1>2. PICK p \in Files, n \in Nat, m \in Nat, s \in Nat :
              /\ n = Len(pi.mem) /\ m = Padded(p) /\ SentIs(s) /\ Copied(p)
              /\ n = m
              /\ \/ /\ p = unix.prog /\ InStep /\ s >= 5 + n
                    /\ unix.pc \in {"data", "EOT", "xACK"}
                 \/ p = acked /\ Finishing
    BY <1>1, CopyingWord
<1>3. CASE die(BAD_END) \/ die(BAD_CKSUM)
    <2>1. pi'.pc = "off"
        BY <1>3 DEF die, Off
    <2>2. \E w \in {BAD_CKSUM, BAD_START, BAD_END, TOO_BIG, NAK} : toUnix' = toUnix \o w
        BY <1>3 DEF die, PiSends
    <2>3. Expects => Sent > 1
        <3>1. s >= 5 + n => s > 1
            OBVIOUS
        <3> QED BY <1>2, <3>1, FinishingSilent DEF SentIs
    <2> QED BY <1>1, <2>1, <2>2, <2>3, GoesDown
<1>4. CASE pi' = [pi EXCEPT !.pc = "run"] /\ PiSends(ACK)
    <2>1. pi'.pc = "run" /\ pi'.nBytes = pi.nBytes /\ pi'.mem = pi.mem
        BY <1>1, <1>4 DEF PiType
    <2>2. Memory(pi.mem, Value(pi.nBytes)) = p
        <3>1. \A i \in 1 .. m : pi.mem[i] = ProgWord(p, i)
            BY <1>2 DEF Copied
        <3>2. pi.nBytes = Size(Len(p))
            BY <1>2 DEF Copied
        <3>3. Value(pi.nBytes) = Len(p)
            BY <3>2, SizeFacts
        <3>4. Memory(pi.mem, Len(p)) = p
            BY <1>2, <3>1, MemoryIsFile
        <3> QED BY <3>3, <3>4
    <2>3. /\ Sent' = Sent /\ (Ended' <=> Ended) /\ (Early' <=> Early)
          /\ Ends(toPi', unix'.prog, Sent')
        BY <1>1, Taken DEF SessionInv
    <2>4. acked' = p
        BY <1>1, <1>2 DEF AnswerInv
    <2>5. unix'.pc = "xACK" \/ ~Expects'
        <3>1. CASE p = unix.prog /\ s >= 5 + n /\ unix.pc \in {"data", "EOT", "xACK"}
            <4>1. unix.sent <= m /\ unix.sent \in Nat
                BY <1>1, <1>2, <3>1 DEF UnixOK, Sending, UnixType
            <4>2. unix.pc = "xACK"
                BY <1>2, <3>1, <4>1 DEF SentIs
            <4> QED BY <1>1, <4>2
        <3>2. CASE Finishing
            <4>1. Echoed' => Echoed
                BY <1>1, <1>4, CodeSaid DEF PiSends
            <4>2. ~Expects
                BY <3>2, FinishingSilent
            <4> QED BY <2>3, <4>1, <4>2 DEF Expects
        <3> QED BY <1>2, <3>1, <3>2
    <2>6. RunInv'
        BY <2>1, <2>2, <2>4, <2>5 DEF RunInv
    <2>7. PiInv' /\ HostInv'
        BY <2>1, <2>5 DEF PiInv, HostInv
    <2> QED BY <1>1, <2>3, <2>6, <2>7 DEF SessionInv
<1> QED BY <1>3, <1>4 DEF PiEOT

LEMMA ExitSession ==
    ASSUME BootInv, SessionInv, ProgramExits
    PROVE  SessionInv'
<1>1. pi.pc = "run" /\ pi'.pc = "off" /\ UNCHANGED <<toPi, toUnix, unix, acked>> /\ UnixOK
    BY DEF ProgramExits, Off, BootInv
<1>2. /\ Sent' = Sent /\ (Ended' <=> Ended) /\ (Early' <=> Early) /\ (Expects' <=> Expects)
    BY <1>1 DEF Sent, Ended, Early, Expects, Echoed
<1>3. PiInv' /\ RunInv'
    BY <1>1 DEF PiInv, RunInv
<1>4. HostInv'
    <2> SUFFICES ASSUME Expects PROVE Missed'
        BY <1>2 DEF HostInv, Answered
    <2>1. unix.pc = "xACK"
        BY <1>1 DEF SessionInv, RunInv
    <2>2. Sent >= 1 /\ Sent # 1
        <3>1. PICK n \in Nat : SentIs(n)
            BY <1>1, SentFacts DEF SentIs
        <3>2. Padded(unix.prog) \in Nat
            BY <1>1, FileFacts DEF UnixOK, UnixType
        <3>3. n >= 5
            BY <2>1, <3>1, <3>2 DEF SentIs
        <3>4. n >= 1 /\ n # 1
            BY <3>3
        <3> QED BY <3>1, <3>4 DEF SentIs
    <2> QED BY <1>1, <1>2, <2>2 DEF Missed
<1> QED BY <1>1, <1>2, <1>3, <1>4 DEF SessionInv

LEMMA BootSession ==
    ASSUME BootInv, AllPlain, SessionInv, Boot
    PROVE  SessionInv'
<1>1. /\ pi.pc = "off" /\ UNCHANGED <<toUnix, unix, acked>> /\ UnixOK /\ Lines /\ pi \in PiType
      /\ toPi \in Seq(Byte)
    BY DEF Boot, BootInv, PiOK, Lines
<1>2. pi'.pc = "SOH"
    BY <1>1 DEF Boot, PiType
<1>3. /\ Sent' = Sent /\ (Ended' <=> Ended) /\ (Early' <=> Early) /\ (Expects' <=> Expects)
      /\ Owed' = Owed
    BY <1>1 DEF Sent, Ended, Early, Expects, Echoed, Owed
<1>4. PICK n \in Nat : SentIs(n)
    BY <1>1, SentFacts DEF SentIs
<1>5. PICK p \in Files : p = unix.prog
    BY <1>1 DEF UnixOK, UnixType
<1>6. PICK k \in 0 .. 4 : k <= Len(toPi) /\ toPi' = SubSeq(toPi, Len(toPi) - k + 1, Len(toPi))
    BY DEF Boot
<1>7. PICK t \in Seq(Byte) : t = toPi' /\ Moved(t, toPi, Len(toPi) - k)
    BY <1>1, <1>6, EndFacts
<1>8. PICK d \in Nat, l \in Nat : l = Len(toPi) /\ d = l - k
    <2>1. PICK l \in Nat : l = Len(toPi) /\ k <= l /\ k \in Nat
        BY <1>1, <1>6
    <2>2. l - k \in Nat
        BY <2>1
    <2> QED BY <2>1, <2>2
<1>9. Len(t) = k
    BY <1>1, <1>6, <1>7, <1>8 DEF Moved
<1>10. Ends(t, p, n)
    <2>1. Ends(toPi, p, n)
        BY <1>4, <1>5 DEF SessionInv, SentIs
    <2> QED BY <1>1, <1>7, <1>8, <2>1, EndsMoved
<1>11. ASSUME Begins(t) PROVE n = 1 /\ Part(t, p, 0, 1) /\ ~Ended
    <2>1. k = 4 /\ Len(t) = 4
        BY <1>9, <1>11 DEF Begins
    <2>2. n # 0
        <3>1. \A i \in 1 .. 4 : (4 - 4) + i = i
            OBVIOUS
        <3> QED BY <1>10, <1>11, <2>1, <3>1 DEF Ends, Begins
    <2>3. ~Ended
        BY <1>4, <2>2 DEF SentIs
    <2>4. Plain(p)
        BY <1>5, <2>3 DEF SessionInv, AllPlain
    <2>5. \A i \in 1 .. 4 : t[i] = SessionByte(p, 4 * (n - 1) + i)
        <3> TAKE i \in 1 .. 4
        <3>1. 4 - i \in 0 .. 3 /\ 4 - (4 - i) = i /\ 4 * n - (4 - i) = 4 * (n - 1) + i
            OBVIOUS
        <3>2. t[4 - (4 - i)] = SessionByte(p, 4 * n - (4 - i))
            BY <1>10, <2>1, <2>2, <3>1 DEF Ends
        <3> QED BY <3>1, <3>2
    <2>6. n = 1
        <3> SUFFICES ASSUME n # 1 PROVE FALSE
            OBVIOUS
        <3>1. PICK i \in Nat : i = n - 1 /\ i >= 1
            BY <2>2
        <3>2. PICK m \in Nat : m = Padded(p)
            BY FileFacts
        <3>3. 4 * i \in 1 .. 4 * (4 + m)
            BY <1>4, <1>5, <3>1, <3>2 DEF SentIs
        <3>4. PICK j \in 1 .. 4 : SessionByte(p, 4 * i + j) # SOH[j]
            BY <2>4, <3>2, <3>3 DEF Plain
        <3> QED BY <1>11, <2>5, <3>1, <3>4 DEF Begins
    <2>7. Part(t, p, 0, 1)
        <3>1. \A i \in 1 .. 4 : t[i] = SessionByte(p, 0 + i)
            <4>1. \A i \in 1 .. 4 : 4 * (n - 1) + i = 0 + i
                BY <2>6
            <4> QED BY <2>5, <4>1
        <3> QED BY <2>1, <3>1 DEF Part
    <2> QED BY <2>3, <2>6, <2>7
<1>12. PiInv' /\ RunInv'
    <2>1. Begins(toPi') => Cur(0)'
        BY <1>1, <1>3, <1>4, <1>5, <1>7, <1>11 DEF Cur, SentIs
    <2> QED BY <1>2, <2>1 DEF PiInv, RunInv
<1>13. n = 1 /\ k < 4 => Missed'
    <2> SUFFICES ASSUME n = 1, k < 4 PROVE Missed'
        OBVIOUS
    <2>1. n >= 1 /\ Len(t) < 4
        BY <1>9
    <2>2. Sent' >= 1
        BY <1>3, <1>4, <2>1, Zenon DEF SentIs
    <2> QED BY <1>2, <1>7, <2>1, <2>2 DEF Missed, Begins
<1>14. ASSUME Missed PROVE Missed'
    <2>1. n >= 1 /\ (n = 1 => l < 4)
        BY <1>4, <1>8, <1>14 DEF Missed, SentIs
    <2>2. CASE n = 1
        <3>1. k < 4
            BY <1>6, <1>8, <2>1, <2>2
        <3> QED BY <1>13, <2>2, <3>1
    <2>3. CASE n # 1
        <3>1. ~Begins(t)
            BY <1>11, <2>3
        <3> QED BY <1>2, <1>3, <1>4, <1>7, <2>1, <2>3, <3>1 DEF Missed, SentIs
    <2> QED BY <2>2, <2>3
<1>15. ASSUME ToCome PROVE ToCome' \/ Missed'
    <2>1. n <= 1 /\ ~Ended /\ Part(toPi, p, 0, n)
        BY <1>1, <1>4, <1>5, <1>15 DEF ToCome, Cur, SentIs
    <2>2. l = 4 * n
        BY <1>8, <2>1 DEF Part
    <2>3. CASE d = 0
        <3>1. Len(t) = l - 0 /\ \A j \in 1 .. l - 0 : t[j] = toPi[j + 0]
            BY <1>7, <1>8, <2>3 DEF Moved
        <3>2. Part(t, p, 0, n)
            BY <1>8, <2>1, <3>1 DEF Part
        <3>3. Part(toPi', unix'.prog, 0, Sent') /\ ~Ended'
            BY <1>1, <1>3, <1>4, <1>5, <1>7, <2>1, <3>2 DEF SentIs
        <3> QED BY <1>2, <3>3 DEF ToCome, Cur
    <2>4. CASE d # 0
        <3>1. n = 1 /\ k < 4
            BY <1>6, <1>8, <2>1, <2>2, <2>4
        <3> QED BY <1>13, <3>1
    <2> QED BY <2>3, <2>4
<1>16. HostInv'
    <2> SUFFICES ASSUME Expects PROVE Answered'
        BY <1>3 DEF HostInv
    <2>1. Missed \/ (ToCome /\ Len(toUnix) <= Owed)
        BY <1>1 DEF SessionInv, HostInv, Answered, InStep
    <2> QED BY <1>1, <1>3, <1>14, <1>15, <2>1 DEF Answered
<1> QED BY <1>1, <1>3, <1>4, <1>5, <1>7, <1>10, <1>12, <1>16 DEF SessionInv, SentIs

LEMMA StartSession ==
    ASSUME BootInv, SessionInv, NEW q \in Programs, Start(q), toUnix' = <<>>
    PROVE  SessionInv'
<1>1. /\ Ended /\ UNCHANGED <<toPi, pi, acked>> /\ toUnix' = <<>> /\ UnixOK /\ toPi \in Seq(Byte)
    BY DEF Start, BootInv, Lines, Ended
<1>2. unix'.pc = "SOH" /\ unix'.prog = q
    BY DEF Start
<1>3. Sent = 0 /\ Sent' = 0 /\ Early' /\ ~Ended' /\ ~Expects'
    <2>1. ~Echoed'
        BY <1>1, EmptySeq DEF Echoed
    <2> QED BY <1>1, <1>2, <2>1 DEF Sent, Ended, Early, Expects, Done
<1>4. Ends(toPi', unix'.prog, Sent')
    BY <1>1, <1>3 DEF SessionInv, Ends
<1>5. PiInv'
    <2>1. \A r \in Nat : Behind(r) => Behind(r)'
        <3> SUFFICES ASSUME NEW r \in Nat, Behind(r) PROVE Behind(r)'
            OBVIOUS
        <3>1. Len(toPi) = r
            BY <1>1 DEF Behind, Early, Ended, Done
        <3>2. After(toPi, q, r, 0)
            BY <3>1 DEF After
        <3> QED BY <1>1, <1>2, <1>3, <3>2 DEF Behind
    <2>2. ~Early /\ \A o \in Nat : ~Cur(o)
        BY <1>1 DEF Early, Ended, Done, Cur
    <2>3. ~InStep
        BY <1>1 DEF InStep, Cur
    <2>4. Refused => Refused'
        <3>1. toPi = <<>> => Part(toPi, q, 0, 0)
            BY EmptySeq DEF Part
        <3>2. toPi = <<>> => Cur(0)'
            BY <1>1, <1>2, <1>3, <3>1 DEF Cur
        <3> QED BY <1>1, <1>3, <2>2, <3>2 DEF Refused
    <2>5. Finishing => Finishing'
        <3>1. \A o, r \in Nat : Finishes(o, r) => Finishes(o, r)'
            BY <1>1, <2>1 DEF Finishes, Copied
        <3>2. 16 + 4 * Len(pi.mem) \in Nat
            <4>1. Len(pi.mem) \in Nat
                BY DEF BootInv, PiOK, PiType
            <4> QED BY <4>1
        <3> QED BY <1>1, <3>1, <3>2 DEF Finishing
    <2> QED BY <1>1, <2>1, <2>2, <2>3, <2>4, <2>5 DEF SessionInv, PiInv
<1>6. RunInv' /\ HostInv'
    BY <1>1, <1>3 DEF SessionInv, RunInv, HostInv
<1> QED BY <1>2, <1>4, <1>5, <1>6 DEF SessionInv

(* my-install sends its next word. *)
LEMMA SendsSession ==
    ASSUME BootInv, AllPlain, SessionInv, NEW n \in Nat, SentIs(n),
           Sends(SessionWord(unix.prog, n + 1)), UNCHANGED <<toUnix, pi>>,
           unix'.prog = unix.prog, Sent' = n + 1,
           \/ /\ unix.pc \in {"SOH", "size", "hash"} /\ unix'.pc \in {"size", "hash", "xSOH"}
              /\ acked' = acked
           \/ unix.pc \in {"ACK", "data", "EOT"} /\ unix'.pc \in {"data", "EOT", "xACK"}
    PROVE  SessionInv'
<1>1. /\ UnixOK /\ Lines /\ pi \in PiType /\ toPi \in Seq(Byte) /\ unix.prog \in Files
    BY DEF BootInv, PiOK, Lines, UnixOK, UnixType
<1>2. ~Ended /\ ~Ended' /\ unix.pc # "xACK"
    BY DEF Ended, Done
<1>3. PICK p \in Files : p = unix.prog /\ p \in Programs /\ Plain(p)
    BY <1>1, <1>2 DEF SessionInv, AllPlain
<1>4. PICK w \in Word : w = SessionWord(p, n + 1) /\ Sends(w)
    BY <1>3, SessionWords
<1>5. PICK t \in Seq(Byte) : t = toPi'
    BY <1>1, <1>4, Arrives
<1>6. pi.pc \in Listening => Longer(t, toPi, w)
    BY <1>1, <1>4, <1>5, Arrives
<1>7. Ends(toPi, p, n)
    BY <1>3 DEF SessionInv, SentIs
<1>8. pi.pc \notin Listening => t = w /\ Longer(t, <<>>, w) /\ <<>> \in Seq(Byte) /\ Len(<<>>) = 0
    <2> SUFFICES ASSUME pi.pc \notin Listening
                 PROVE  t = w /\ Longer(t, <<>>, w) /\ <<>> \in Seq(Byte) /\ Len(<<>>) = 0
        OBVIOUS
    <2>1. t = w /\ w \in Seq(Byte) /\ Len(w) = 4
        BY <1>1, <1>4, <1>5, Arrives, WordIsSeq
    <2> QED BY <2>1, EmptySeq DEF Longer
<1>9. Ends(t, p, n + 1)
    <2>1. CASE pi.pc \in Listening
        BY <1>1, <1>4, <1>5, <1>6, <2>1, EndsLonger
    <2>2. CASE pi.pc \notin Listening
        BY <1>4, <1>5, <1>8, <2>2, EndsLonger
    <2> QED BY <2>1, <2>2
<1>10. pi.pc \in Listening => /\ Begins(toPi) => Begins(t)
                              /\ Begins(t) => Begins(toPi) \/ (n = 0 /\ Len(toPi) = 0)
    <2>1. n <= 4 + Padded(p)
        BY <1>2, <1>3 DEF SentIs
    <2> QED BY <1>1, <1>3, <1>4, <1>5, <1>6, <1>7, <2>1, BeginsLonger
<1>11. ASSUME pi.pc \in Listening, NEW o \in Nat, Cur(o) PROVE Cur(o)'
    <2>1. Part(toPi, p, o, n)
        BY <1>3, <1>11 DEF Cur, SentIs
    <2>2. Part(t, p, o, n + 1)
        BY <1>1, <1>4, <1>5, <1>6, <1>11, <2>1, PartLonger
    <2> QED BY <1>2, <1>3, <1>5, <2>2 DEF Cur
<1>12. (Early' <=> Early) /\ Owed' = Owed /\ (Early => acked' = acked) /\ (Expects' <=> Expects)
    <2>1. (Early' <=> Early) /\ (Early => acked' = acked)
        BY DEF Early
    <2> QED BY <1>2, <2>1 DEF Owed, Expects, Echoed
<1>13. ASSUME pi.pc \in Listening, NEW r \in Nat, Behind(r) PROVE Behind(r)'
    <2>1. Early /\ toUnix = <<>> /\ After(toPi, p, r, n)
        BY <1>2, <1>3, <1>13 DEF Behind, SentIs
    <2>2. After(t, p, r, n + 1)
        BY <1>1, <1>4, <1>5, <1>6, <1>13, <2>1, AfterLonger
    <2> QED BY <1>3, <1>5, <1>12, <2>1, <2>2 DEF Behind
<1>14. Copied(unix.prog) => Copied(unix.prog)'
    BY DEF Copied
<1>15. PICK m \in Nat : m = Len(pi.mem) /\ 16 + 4 * m \in Nat
    BY <1>1 DEF PiType
<1>16. InStep => InStep'
    <2> SUFFICES ASSUME InStep PROVE InStep'
        OBVIOUS
    <2>1. CASE pi.pc = "ack" /\ Cur(12)
        <3>1. Cur(12)'
            BY <1>11, <2>1 DEF Listening
        <3> QED BY <1>14, <2>1, <3>1 DEF InStep
    <2>2. CASE /\ pi.pc \in {"copy", "EOT"} /\ unix.pc \in {"data", "EOT", "xACK"}
               /\ Cur(16 + 4 * Len(pi.mem))
        <3>1. Cur(16 + 4 * m)'
            BY <1>11, <1>15, <2>2 DEF Listening
        <3>2. unix'.pc \in {"data", "EOT", "xACK"}
            BY <2>2
        <3> QED BY <1>14, <1>15, <2>2, <3>1, <3>2 DEF InStep, Cur
    <2> QED BY <2>1, <2>2 DEF InStep
<1>17. Refused /\ pi.pc \in Listening => Refused'
    BY <1>2, <1>5, <1>10, <1>11, <1>12 DEF Refused
<1>18. ASSUME pi.pc \in Listening, NEW o \in Nat, NEW r \in Nat, Finishes(o, r)
       PROVE  Finishes(o, r)'
    <2>1. Early /\ After(toPi, p, r, n)
        BY <1>2, <1>3, <1>18 DEF Finishes, Behind, SentIs
    <2>2. PICK l \in Nat : l = Len(toPi) /\ r <= l
        <3>1. r + 4 * n \in Nat /\ r <= r + 4 * n
            OBVIOUS
        <3> QED BY <2>1, <3>1 DEF After
    <2>3. \A j \in 1 .. l : t[j] = toPi[j]
        BY <1>6, <1>18, <2>2 DEF Longer
    <2>4. \A j \in 1 .. r : j \in 1 .. l
        BY <2>2
    <2>5. \A j \in 1 .. r : t[j] = SessionByte(acked, o + j)
        BY <1>18, <2>3, <2>4 DEF Finishes
    <2>6. acked' = acked
        BY <1>12, <2>1
    <2>7. Behind(r)'
        BY <1>13, <1>18 DEF Finishes
    <2> QED BY <1>5, <1>18, <2>5, <2>6, <2>7 DEF Finishes, Copied
<1>19. Finishing => Finishing'
    <2>1. pi.pc = "ack" => ((\E r \in Nat : Finishes(12, r)) => \E r \in Nat : Finishes(12, r)')
        BY <1>18 DEF Listening
    <2>2. pi.pc \in {"copy", "EOT"} =>
             ((\E r \in Nat : Finishes(16 + 4 * m, r)) => \E r \in Nat : Finishes(16 + 4 * m, r)')
        BY <1>15, <1>18 DEF Listening
    <2> QED BY <1>15, <2>1, <2>2 DEF Finishing
<1>20. PiInv'
    <2>1. ASSUME pi.pc = "SOH", Begins(t) PROVE Cur(0)' \/ Behind(12)'
        <3>1. CASE Begins(toPi)
            BY <1>11, <1>13, <2>1, <3>1 DEF SessionInv, PiInv, Listening
        <3>2. CASE n = 0 /\ Len(toPi) = 0
            <4>1. Part(toPi, p, 0, n)
                BY <3>2 DEF Part
            <4>2. Cur(0)
                BY <1>2, <1>3, <4>1 DEF Cur, SentIs
            <4> QED BY <1>11, <2>1, <4>2 DEF Listening
        <3> QED BY <1>10, <2>1, <3>1, <3>2 DEF Listening
    <2>2. pi.pc = "size" => Cur(4)' \/ Behind(8)'
        BY <1>11, <1>13 DEF SessionInv, PiInv, Listening
    <2>3. pi.pc = "hash" => (Cur(8)' /\ Copied(unix.prog)') \/ Behind(4)'
        BY <1>11, <1>13, <1>14 DEF SessionInv, PiInv, Listening
    <2>4. pi.pc = "ack" => InStep' \/ Refused' \/ Finishing'
        BY <1>16, <1>17, <1>19 DEF SessionInv, PiInv, Listening
    <2>5. pi.pc \in {"copy", "EOT"} => InStep' \/ Finishing'
        BY <1>16, <1>19 DEF SessionInv, PiInv
    <2> QED BY <1>5, <2>1, <2>2, <2>3, <2>4, <2>5 DEF PiInv
<1>21. Missed => Missed'
    <2> SUFFICES ASSUME Missed PROVE Missed'
        OBVIOUS
    <2>1. n >= 1 /\ n # 0 /\ n + 1 >= 1 /\ n + 1 # 1
        BY DEF Missed, SentIs
    <2>2. pi.pc = "SOH" => ~Begins(t)
        BY <1>10, <2>1 DEF Missed, Listening
    <2> QED BY <1>5, <2>1, <2>2 DEF Missed
<1>22. ToCome => ToCome' \/ Missed'
    <2> SUFFICES ASSUME ToCome PROVE ToCome' \/ Missed'
        OBVIOUS
    <2>1. CASE pi.pc = "off"
        <3>1. n <= 1
            BY <2>1 DEF ToCome, SentIs
        <3>2. CASE n = 0
            <4>1. Part(<<>>, p, 0, n)
                BY <3>2, EmptySeq DEF Part
            <4>2. Part(t, p, 0, n + 1)
                BY <1>4, <1>8, <2>1, <4>1, PartLonger DEF Listening
            <4>3. Cur(0)'
                BY <1>2, <1>3, <1>5, <4>2 DEF Cur
            <4>4. Sent' <= 1
                BY <3>2
            <4> QED BY <2>1, <4>3, <4>4 DEF ToCome
        <3>3. CASE n # 0
            <4>1. n + 1 >= 1 /\ n + 1 # 1
                BY <3>3
            <4> QED BY <2>1, <4>1 DEF Missed
        <3> QED BY <3>2, <3>3
    <2>2. CASE pi.pc # "off"
        <3>1. \/ pi.pc \in {"SOH", "ack"} /\ Cur(0)'
              \/ pi.pc = "size" /\ Cur(4)'
              \/ pi.pc = "hash" /\ Cur(8)' /\ Copied(unix.prog)'
            BY <1>11, <1>14, <2>2 DEF ToCome, Listening
        <3> QED BY <3>1 DEF ToCome
    <2> QED BY <2>1, <2>2
<1>23. HostInv'
    <2> SUFFICES ASSUME Expects PROVE Answered'
        BY <1>12 DEF HostInv
    <2>1. Answered
        BY <1>2 DEF SessionInv, HostInv
    <2> QED BY <1>12, <1>16, <1>21, <1>22, <2>1 DEF Answered
<1>24. RunInv'
    <2> SUFFICES ASSUME pi.pc = "run" PROVE RunInv'
        BY DEF RunInv
    <2>1. ~Expects /\ Memory(pi.mem, Value(pi.nBytes)) = acked
        BY <1>2 DEF SessionInv, RunInv
    <2>2. Early
        BY <1>2, <2>1 DEF Expects
    <2> QED BY <1>12, <2>1, <2>2 DEF RunInv
<1> QED BY <1>3, <1>5, <1>9, <1>20, <1>23, <1>24 DEF SessionInv

(* my-install takes a word of the echo. *)
LEMMA HearsSession ==
    ASSUME BootInv, SessionInv, Len(toUnix) >= 4, UNCHANGED <<toPi, pi, acked>>,
           toUnix' = SubSeq(toUnix, 5, Len(toUnix)), unix'.prog = unix.prog,
           \/ unix.pc = "xSOH" /\ unix'.pc = "xsize" /\ SubSeq(toUnix, 1, 4) = SOH
           \/ unix.pc = "xsize" /\ unix'.pc = "xhash"
           \/ unix.pc = "xhash" /\ unix'.pc = "ACK"
    PROVE  SessionInv'
<1>1. /\ UnixOK /\ Lines /\ pi \in PiType
    BY DEF BootInv, PiOK
<1>2. Sent = 3 /\ Sent' = 3 /\ ~Ended /\ ~Ended' /\ ~Early' /\ unix.pc # "xACK"
    BY DEF Sent, Ended, Done, Early
<1>3. PICK m \in Nat : m = Owed /\ m >= 4 /\ Owed' = m - 4
    <2>1. \/ Owed = 12 /\ Owed' = 8
          \/ Owed = 8 /\ Owed' = 4
          \/ Owed = 4 /\ Owed' = 0
        BY DEF Owed, Early
    <2> QED BY <2>1
<1>4. Expects
    <2>1. CASE unix.pc = "xSOH" /\ SubSeq(toUnix, 1, 4) = SOH
        <3>1. toUnix[1] = 120
            <4>1. PICK g \in Word : g = SOH /\ \A j \in 1 .. 4 : g[j] = toUnix[j]
                BY <1>1, <2>1, UnixTaken
            <4>2. g[1] = 120 /\ g[1] = toUnix[1]
                BY <4>1 DEF SOH
            <4> QED BY <4>2
        <3>2. 1 \in 1 .. Len(toUnix)
            BY <1>1 DEF Lines
        <3> QED BY <1>2, <3>1, <3>2 DEF Expects, Echoed
    <2>2. CASE unix.pc \in {"xsize", "xhash"}
        BY <1>2, <2>2 DEF Expects, Early
    <2> QED BY <2>1, <2>2
<1>5. InStep \/ (ToCome /\ Len(toUnix) <= m) \/ Missed
    BY <1>2, <1>3, <1>4 DEF SessionInv, HostInv, Answered
<1>6. Len(toUnix) <= m => Len(toUnix') <= m - 4
    <2>1. Len(toUnix') = Len(toUnix) - 4
        BY <1>1, UnixTaken DEF Moved
    <2> QED BY <1>1, <2>1 DEF Lines
<1>7. \A o \in Nat : Cur(o) => Cur(o)'
    BY <1>2 DEF Cur
<1>8. InStep => InStep' /\ pi.pc = "ack"
    <2>1. InStep => Copied(unix.prog) /\ pi.pc = "ack" /\ Cur(12)
        BY DEF InStep
    <2>2. Cur(12) => Cur(12)'
        BY <1>7
    <2> QED BY <2>1, <2>2 DEF InStep, Copied
<1>9. Missed => Missed'
    BY <1>2 DEF Missed
<1>10. ToCome => ToCome' /\ PiInv' /\ pi.pc # "run"
    <2> SUFFICES ASSUME ToCome PROVE ToCome' /\ PiInv' /\ pi.pc # "run"
        OBVIOUS
    <2>1. pi.pc # "off"
        BY <1>2 DEF ToCome
    <2>2. \/ pi.pc \in {"SOH", "ack"} /\ Cur(0)'
          \/ pi.pc = "size" /\ Cur(4)'
          \/ pi.pc = "hash" /\ Cur(8)' /\ Copied(unix.prog)'
        BY <1>7, <2>1 DEF ToCome, Copied
    <2> QED BY <2>2 DEF ToCome, PiInv, Refused
<1>11. HostInv'
    BY <1>3, <1>5, <1>6, <1>8, <1>9, <1>10 DEF HostInv, Answered
<1>12. PiInv'
    <2>1. CASE InStep
        BY <1>8, <2>1 DEF PiInv
    <2>2. CASE Missed
        BY <2>2 DEF Missed, PiInv
    <2> QED BY <1>5, <1>10, <2>1, <2>2
<1>13. RunInv'
    <2>1. pi.pc # "run"
        BY <1>5, <1>8, <1>10 DEF Missed
    <2> QED BY <2>1 DEF RunInv
<1>14. unix'.prog \in Programs /\ Ends(toPi', unix'.prog, Sent')
    BY <1>2 DEF SessionInv
<1> QED BY <1>11, <1>12, <1>13, <1>14 DEF SessionInv

(* A run of my-install ends. *)
LEMMA EndsSession ==
    ASSUME BootInv, AllPlain, AnswerInv, SessionInv, unix.pc \in Waiting, UNCHANGED <<toPi, pi, acked>>,
           unix'.pc \in Done, unix'.prog = unix.prog,
           Len(toUnix) >= 4 \/ PiSilent
    PROVE  SessionInv'
<1>1. /\ UnixOK /\ Lines /\ pi \in PiType /\ toPi \in Seq(Byte) /\ toUnix \in Seq(Byte)
    BY DEF BootInv, PiOK, Lines
<1>2. PICK n \in Nat : SentIs(n)
    BY <1>1, SentFacts DEF SentIs
<1>3. ~Ended /\ Ended' /\ Sent' = 0
    BY DEF Ended, Done, Waiting, Sent
<1>4. PICK p \in Files : p = unix.prog /\ p \in Programs /\ Plain(p)
    BY <1>1, <1>3 DEF SessionInv, AllPlain, UnixOK, UnixType
<1>5. PICK m \in Nat : m = Padded(p)
    BY FileFacts
<1>6. n >= 3 /\ (unix.pc # "xACK" => n = 3) /\ (unix.pc = "xACK" => n = 5 + m)
    BY <1>2, <1>4, <1>5 DEF SentIs, Waiting
<1>7. PICK l \in Nat : l = Len(toPi)
    BY <1>1
<1>8. Ends(toPi, p, 0)
    <2> SUFFICES ASSUME l >= 4 PROVE \E k \in 1 .. 4 : toPi[(l - 4) + k] # SOH[k]
        BY <1>7 DEF Ends
    <2>1. Ends(toPi, p, n)
        BY <1>2, <1>4 DEF SessionInv, SentIs
    <2>2. PICK i \in Nat : i = n - 1 /\ i >= 1 /\ i <= 4 + m
        BY <1>2, <1>4, <1>5, <1>6 DEF SentIs
    <2>3. 4 * i \in 1 .. 4 * (4 + m)
        BY <2>2
    <2>4. PICK k \in 1 .. 4 : SessionByte(p, 4 * i + k) # SOH[k]
        BY <1>4, <1>5, <2>3 DEF Plain
    <2>5. PICK j \in 0 .. 3 : j = 4 - k /\ l - j = (l - 4) + k /\ 4 * n - j = 4 * i + k /\ j < l
        <3>1. 4 - k \in 0 .. 3 /\ l - (4 - k) = (l - 4) + k /\ 4 * n - (4 - k) = 4 * i + k
              /\ 4 - k < l
            BY <2>2
        <3> QED BY <3>1
    <2>6. \A i0 \in 0 .. 3 : i0 < Len(toPi) => toPi[Len(toPi) - i0] = SessionByte(p, 4 * n - i0)
        <3>1. n > 0
            BY <1>6
        <3> QED BY <2>1, <3>1 DEF Ends
    <2>7. toPi[l - j] = SessionByte(p, 4 * n - j)
        BY <1>7, <2>5, <2>6
    <2> QED BY <2>4, <2>5, <2>7
<1>9. \A o \in Nat : Cur(o) => l = 4 * n - o
    BY <1>2, <1>7 DEF Cur, Part, SentIs
<1>10. \A r \in Nat : Behind(r) => toUnix = <<>> /\ l = r + 4 * n
    BY <1>2, <1>3, <1>7 DEF Behind, After, SentIs
<1>11. Cur(0) => Begins(toPi)
    <2> SUFFICES ASSUME Cur(0) PROVE Begins(toPi)
        OBVIOUS
    <2>1. l = 4 * n /\ \A j \in 1 .. l : toPi[j] = SessionByte(p, 0 + j)
        BY <1>2, <1>4, <1>7 DEF Cur, Part, SentIs
    <2>2. \A k \in 1 .. 4 : SessionByte(p, 4 * 0 + k) = SessionWord(p, 0 + 1)[k]
        BY SessionBytes
    <2>3. SessionWord(p, 1) = SOH
        BY SessionWords
    <2>4. \A k \in 1 .. 4 : k \in 1 .. l /\ 4 * 0 + k = 0 + k
        BY <1>6, <2>1
    <2>5. \A k \in 1 .. 4 : toPi[k] = SOH[k]
        BY <2>1, <2>2, <2>3, <2>4
    <2> QED BY <1>6, <1>7, <2>1, <2>5 DEF Begins
<1>12. ASSUME PiInv' PROVE SessionInv'
    <2>1. RunInv' /\ HostInv'
        BY <1>3 DEF SessionInv, RunInv, HostInv, Expects
    <2>2. Ends(toPi', unix'.prog, Sent')
        BY <1>3, <1>4, <1>8
    <2> QED BY <1>3, <1>12, <2>1, <2>2 DEF SessionInv
<1>13. CASE Len(toUnix) >= 4
    <2>1. toUnix # <<>>
        BY <1>13, EmptySeq
    <2>2. ~Finishing /\ \A r \in Nat : ~Behind(r)
        BY <1>3, <2>1 DEF Finishing, Finishes, Behind
    <2>3. Refused => Begins(toPi)
        BY <1>3, <1>11, <2>1 DEF Refused
    <2>4. CASE unix.pc # "xACK"
        <3>1. n = 3
            BY <1>6, <2>4
        <3>2. InStep => l = 0
            <4>1. InStep => Cur(12)
                BY <2>4 DEF InStep, Waiting
            <4> QED BY <1>9, <3>1, <4>1
        <3>3. pi.pc = "SOH" /\ Begins(toPi) => l = 12
            BY <1>9, <2>2, <3>1 DEF SessionInv, PiInv
        <3>4. pi.pc = "size" => l = 8
            BY <1>9, <2>2, <3>1 DEF SessionInv, PiInv
        <3>5. pi.pc = "hash" => l = 4
            BY <1>9, <2>2, <3>1 DEF SessionInv, PiInv
        <3>6. pi.pc = "ack" => toPi = <<>> \/ Begins(toPi)
            BY <1>1, <1>7, <2>2, <2>3, <3>2, EmptySeq DEF SessionInv, PiInv
        <3>7. pi.pc \notin {"copy", "EOT"}
            BY <2>2, <2>4 DEF SessionInv, PiInv, InStep, Waiting
        <3>8. PiInv'
            BY <1>3, <1>7, <3>3, <3>4, <3>5, <3>6, <3>7 DEF PiInv, Behind, Refused
        <3> QED BY <1>12, <3>8
    <2>5. CASE unix.pc = "xACK"
        <3>1. Expects /\ Owed = 0 /\ ~(Len(toUnix) <= 0)
            <4>1. ~Early
                BY <2>5 DEF Early
            <4>2. ~(Len(toUnix) <= 0)
                BY <1>1, <1>13
            <4> QED BY <1>3, <2>5, <4>1, <4>2 DEF Expects, Owed
        <3>2. InStep \/ Missed \/ pi.pc = "run"
            BY <3>1 DEF SessionInv, HostInv, Answered
        <3>3. ASSUME NEW o \in Nat, Cur(o), Copied(unix.prog) PROVE Finishes(o, l)'
            <4>1. acked = p
                BY <1>4, <2>5 DEF AnswerInv
            <4>2. l = 4 * n - o /\ n = 5 + m
                BY <1>6, <1>9, <2>5, <3>3
            <4>3. o + l = 4 * (5 + m)
                BY <4>2
            <4>4. \A j \in 1 .. l : toPi[j] = SessionByte(p, o + j)
                BY <1>4, <1>7, <3>3 DEF Cur, Part
            <4>5. Behind(l)'
                BY <1>3, <1>7 DEF Behind
            <4>6. Copied(acked)'
                BY <1>4, <3>3, <4>1 DEF Copied
            <4> QED BY <1>5, <4>1, <4>3, <4>4, <4>5, <4>6 DEF Finishes
        <3>4. InStep => Finishing' /\ pi.pc \in {"ack", "copy", "EOT"}
            <4> SUFFICES ASSUME InStep PROVE Finishing' /\ pi.pc \in {"ack", "copy", "EOT"}
                OBVIOUS
            <4>1. CASE pi.pc = "ack" /\ Cur(12)
                <5>1. Finishes(12, l)'
                    BY <3>3, <4>1 DEF InStep
                <5> QED BY <4>1, <5>1 DEF Finishing
            <4>2. CASE pi.pc \in {"copy", "EOT"} /\ Cur(16 + 4 * Len(pi.mem))
                <5>1. PICK o \in Nat : o = 16 + 4 * Len(pi.mem)
                    <6>1. PICK k \in Nat : k = Len(pi.mem)
                        BY <1>1 DEF PiType
                    <6>2. 16 + 4 * k \in Nat
                        OBVIOUS
                    <6> QED BY <6>1, <6>2
                <5>2. Finishes(o, l)'
                    BY <3>3, <4>2, <5>1 DEF InStep
                <5>3. Finishes(16 + 4 * Len(pi.mem), l)'
                    BY <5>1, <5>2
                <5> QED BY <4>2, <5>3 DEF Finishing
            <4> QED BY <4>1, <4>2 DEF InStep
        <3>5. PiInv'
            <4>1. CASE InStep
                BY <3>4, <4>1 DEF PiInv
            <4>2. CASE Missed
                BY <4>2 DEF PiInv, Missed
            <4>3. CASE pi.pc = "run"
                BY <4>3 DEF PiInv
            <4> QED BY <3>2, <4>1, <4>2, <4>3
        <3> QED BY <1>12, <3>5
    <2> QED BY <2>4, <2>5
<1>14. CASE PiSilent
    <2>1. pi.pc \in Listening => l < 4
        BY <1>7, <1>14 DEF PiSilent, PiCanRead
    <2>2. Finishing => l >= 12
        <3>1. \A r \in Nat : Behind(r) => l >= 12
            BY <1>6, <1>10
        <3> QED BY <3>1 DEF Finishing, Finishes
    <2>3. PiInv'
        <3>1. CASE pi.pc = "SOH"
            <4>1. ~Begins(toPi)
                BY <1>7, <2>1, <3>1 DEF Begins, Listening
            <4>2. pi'.pc = "SOH" /\ ~Begins(toPi')
                BY <3>1, <4>1
            <4> QED BY <4>2 DEF PiInv
        <3>2. CASE pi.pc = "size"
            <4>1. Cur(4) \/ Behind(8)
                BY <3>2 DEF SessionInv, PiInv
            <4>2. l >= 4
                BY <1>6, <1>9, <1>10, <4>1
            <4> QED BY <2>1, <3>2, <4>2 DEF Listening
        <3>3. CASE pi.pc = "hash"
            <4>1. Cur(8) \/ Behind(4)
                BY <3>3 DEF SessionInv, PiInv
            <4>2. l >= 4
                BY <1>6, <1>9, <1>10, <4>1
            <4> QED BY <2>1, <3>3, <4>2 DEF Listening
        <3>4. CASE pi.pc = "ack"
            <4>1. l < 4 /\ ~Begins(toPi)
                BY <1>7, <2>1, <3>4 DEF Listening, Begins
            <4>2. Cur(12)
                <5>1. ~Finishing
                    BY <2>2, <4>1
                <5> QED BY <1>3, <1>11, <3>4, <4>1, <5>1 DEF SessionInv, PiInv, Refused, InStep
            <4>3. l = 4 * n - 12
                BY <1>9, <4>2
            <4>4. l = 0
                BY <1>6, <4>1, <4>3
            <4>5. toPi' = <<>> /\ pi'.pc = "ack"
                <5>1. toPi = <<>>
                    BY <1>1, <1>7, <4>4, EmptySeq
                <5> QED BY <3>4, <5>1
            <4>6. Refused'
                BY <1>3, <4>5 DEF Refused
            <4> QED BY <4>5, <4>6 DEF PiInv
        <3>5. CASE pi.pc \in {"copy", "EOT"}
            <4>1. l < 4
                BY <2>1, <3>5 DEF Listening
            <4>2. PICK k \in Nat : k = Len(pi.mem)
                BY <1>1 DEF PiType
            <4>3. unix.pc = "xACK" /\ Cur(16 + 4 * k) /\ Copied(unix.prog)
                <5>1. ~Finishing
                    BY <2>2, <4>1
                <5> QED BY <3>5, <4>2, <5>1 DEF SessionInv, PiInv, InStep, Waiting
            <4>4. k <= m
                <5>1. \A i \in Nat : More(pi.nBytes, i) <=> i < m
                    BY <1>4, <1>5, <4>3, SizeFacts DEF Copied
                <5>2. Copying(pi)
                    BY DEF BootInv, PiOK
                <5>3. More(pi.nBytes, k) \/ (k # 0 => More(pi.nBytes, k - 1))
                    BY <3>5, <4>2, <5>2 DEF Copying
                <5>4. k # 0 => k - 1 \in Nat
                    OBVIOUS
                <5> QED BY <5>1, <5>3, <5>4
            <4>5. l = 4 * n - (16 + 4 * k)
                <5>1. 16 + 4 * k \in Nat
                    OBVIOUS
                <5> QED BY <1>9, <4>3, <5>1
            <4>6. n = 5 + m
                BY <1>6, <4>3
            <4>7. l >= 4
                BY <4>4, <4>5, <4>6
            <4> QED BY <4>1, <4>7
        <3> QED BY <3>1, <3>2, <3>3, <3>4, <3>5 DEF PiInv
    <2> QED BY <1>12, <2>3
<1> QED BY <1>13, <1>14

(* A word that is compared: the run goes on, or it ends. *)
LEMMA ExpectSession ==
    ASSUME BootInv, AllPlain, AnswerInv, SessionInv, NEW pc, NEW w, NEW next, Expect(pc, w, next),
           \/ pc = "xSOH" /\ w = SOH /\ next = "xsize"
           \/ pc = "xsize" /\ next = "xhash"
           \/ pc = "xhash" /\ next = "ACK"
           \/ pc = "xACK" /\ next = "ok"
    PROVE  SessionInv'
<1>1. /\ unix \in UnixType /\ unix.pc = pc /\ Len(toUnix) >= 4
      /\ UNCHANGED <<toPi, pi, acked>> /\ toUnix' = SubSeq(toUnix, 5, Len(toUnix))
    BY DEF BootInv, UnixOK, Expect
<1>2. PICK c : c = IF SubSeq(toUnix, 1, 4) = w THEN next ELSE "failed"
    OBVIOUS
<1>3. unix' = [unix EXCEPT !.pc = c]
    BY <1>2 DEF Expect
<1>4. unix'.pc = c /\ unix'.prog = unix.prog
    BY <1>1, <1>3 DEF UnixType
<1>5. CASE c \in Done
    BY <1>1, <1>4, <1>5, EndsSession DEF Waiting
<1>6. CASE c \notin Done
    <2>1. c = next /\ SubSeq(toUnix, 1, 4) = w /\ next # "ok"
        BY <1>2, <1>6 DEF Done
    <2> QED BY <1>1, <1>4, <2>1, HearsSession
<1> QED BY <1>5, <1>6

LEMMA UnixSession ==
    ASSUME BootInv, AllPlain, AnswerInv, SessionInv, simple_boot
    PROVE  SessionInv'
<1>1. UnixOK /\ unix \in UnixType /\ unix.prog \in Files
    BY DEF BootInv, UnixOK, UnixType
<1>2. PICK p \in Files : p = unix.prog
    BY <1>1
<1>3. PICK n \in Nat : SentIs(n)
    BY <1>1, SentFacts DEF SentIs
<1>4. ASSUME NEW pc, NEW i \in Nat, NEW next, Send(pc, SessionWord(p, i), next), i = n + 1,
             \/ pc = "SOH" /\ next = "size" /\ n = 0 /\ acked' = acked
             \/ pc = "size" /\ next = "hash" /\ n = 1 /\ acked' = acked
             \/ pc = "hash" /\ next = "xSOH" /\ n = 2 /\ acked' = acked
             \/ pc = "ACK" /\ next \in {"data", "EOT"} /\ n = 3 /\ unix.sent = 0
             \/ pc = "EOT" /\ next = "xACK" /\ n = 4 + Padded(p)
      PROVE  SessionInv'
    <2>1. /\ unix.pc = pc /\ Sends(SessionWord(p, i)) /\ UNCHANGED <<toUnix, pi>>
          /\ unix' = [unix EXCEPT !.pc = next]
        BY <1>4 DEF Send
    <2>2. unix'.pc = next /\ unix'.prog = p /\ unix'.sent = unix.sent
        BY <1>1, <1>2, <2>1 DEF UnixType
    <2>3. PICK m \in Nat : m = Padded(p)
        BY FileFacts
    <2>4. Sent' = n + 1
        <3>1. pc = "SOH" => Sent' = n + 1
            BY <1>4, <2>2 DEF Sent
        <3>2. pc = "size" => Sent' = n + 1
            BY <1>4, <2>2 DEF Sent
        <3>3. pc = "hash" => Sent' = n + 1
            BY <1>4, <2>2 DEF Sent
        <3>4. pc = "ACK" => Sent' = n + 1
            BY <1>4, <2>2 DEF Sent
        <3>5. pc = "EOT" => Sent' = n + 1
            BY <1>4, <2>2, <2>3 DEF Sent
        <3> QED BY <1>4, <3>1, <3>2, <3>3, <3>4, <3>5
    <2> QED BY <1>2, <1>3, <1>4, <2>1, <2>2, <2>4, SendsSession
<1>5. /\ SessionWord(p, 1) = SOH /\ SessionWord(p, 2) = Size(Len(p))
      /\ SessionWord(p, 3) = crc32(p) /\ SessionWord(p, 4) = ACK
      /\ SessionWord(p, 5 + Padded(p)) = EOT
    BY SessionWords
<1>6. CASE Send("SOH", SOH, "size") /\ UNCHANGED acked
    <2>1. n = 0
        BY <1>3, <1>6 DEF Send, SentIs
    <2>2. PICK i \in Nat : i = 1 /\ i = n + 1
        BY <2>1
    <2> QED BY <1>4, <1>5, <1>6, <2>1, <2>2
<1>7. CASE Send("size", Size(Len(unix.prog)), "hash") /\ UNCHANGED acked
    <2>1. n = 1
        BY <1>3, <1>7 DEF Send, SentIs
    <2>2. PICK i \in Nat : i = 2 /\ i = n + 1
        BY <2>1
    <2> QED BY <1>2, <1>4, <1>5, <1>7, <2>1, <2>2
<1>8. CASE Send("hash", crc32(unix.prog), "xSOH") /\ UNCHANGED acked
    <2>1. n = 2
        BY <1>3, <1>8 DEF Send, SentIs
    <2>2. PICK i \in Nat : i = 3 /\ i = n + 1
        BY <2>1
    <2> QED BY <1>2, <1>4, <1>5, <1>8, <2>1, <2>2
<1>9. CASE SendACK
    <2>1. n = 3 /\ unix.sent = 0
        BY <1>1, <1>3, <1>9 DEF SendACK, Send, SentIs, UnixOK, Sending, Before
    <2>2. PICK i \in Nat : i = 4 /\ i = n + 1
        BY <2>1
    <2>3. PICK c \in {"data", "EOT"} : c = SendPc(0)
        BY <1>1, SendPcFacts
    <2>4. Send("ACK", ACK, c)
        BY <1>9, <2>3 DEF SendACK
    <2> QED BY <1>4, <1>5, <2>1, <2>2, <2>4
<1>10. CASE SendData
    <2>1. PICK m \in Nat, s \in Nat : m = Padded(p) /\ s = unix.sent /\ unix.pc = "data" /\ s < m
        BY <1>1, <1>2, <1>10, FileFacts DEF SendData, UnixOK, UnixType, Sending
    <2>2. n = 4 + s
        BY <1>3, <2>1 DEF SentIs
    <2>3. PICK c \in {"data", "EOT"} : c = SendPc(s + 1)
        BY <1>1, SendPcFacts
    <2>4. unix' = [unix EXCEPT !.pc = c, !.sent = s + 1]
        BY <1>10, <2>1, <2>3 DEF SendData
    <2>5. unix'.pc = c /\ unix'.prog = p /\ unix'.sent = s + 1
        BY <1>1, <1>2, <2>4 DEF UnixType
    <2>6. Sent' = n + 1
        BY <2>2, <2>5 DEF Sent
    <2>7. Sends(SessionWord(p, n + 1)) /\ UNCHANGED <<toUnix, pi>>
        <3>1. SessionWord(p, 5 + s) = ProgWord(p, s + 1)
            BY <2>1, SessionWords
        <3>2. n + 1 = 5 + s
            BY <2>2
        <3> QED BY <1>2, <1>10, <2>1, <3>1, <3>2 DEF SendData
    <2> QED BY <1>2, <1>3, <2>1, <2>5, <2>6, <2>7, SendsSession
<1>11. CASE Send("EOT", EOT, "xACK") /\ UNCHANGED acked
    <2>1. PICK m \in Nat : m = Padded(p)
        BY FileFacts
    <2>2. n = 4 + m
        <3>1. unix.pc = "EOT" /\ unix.sent = m
            BY <1>1, <1>2, <1>11, <2>1 DEF Send, UnixOK, Sending
        <3> QED BY <1>3, <3>1 DEF SentIs
    <2>3. PICK i \in Nat : i = 5 + m /\ i = n + 1
        BY <2>2
    <2> QED BY <1>4, <1>5, <1>11, <2>1, <2>2, <2>3
<1>12. CASE Expect("xSOH", SOH, "xsize")
    BY <1>12, ExpectSession
<1>13. CASE Expect("xsize", crc32(Size(Len(unix.prog))), "xhash")
    BY <1>13, ExpectSession
<1>14. CASE Expect("xhash", crc32(unix.prog), "ACK")
    BY <1>14, ExpectSession
<1>15. CASE Expect("xACK", ACK, "ok")
    BY <1>15, ExpectSession
<1> QED BY <1>6, <1>7, <1>8, <1>9, <1>10, <1>11, <1>12, <1>13, <1>14, <1>15 DEF simple_boot

(* my-install finds nothing of earlier runs in the tty. *)
OnEmpty == (\E p \in Programs : Start(p)) => toUnix' = <<>>
DrainedTty == [][OnEmpty]_vars

LEMMA SessionStep ==
    ASSUME BootInv, AnswerInv, AllPlain, SessionInv, Next, ~Fault, OnEmpty
    PROVE  SessionInv'
<1>1. CASE PiStep
    BY <1>1, PiSOHSession, PiSizeSession, PiHashSession, PiACKSession, PiCopySession, PiEOTSession
        DEF PiStep
<1>2. CASE Timeout
    <2>1. /\ unix.pc \in Waiting /\ UNCHANGED <<toPi, pi, acked>> /\ PiSilent
          /\ unix' = [unix EXCEPT !.pc = "failed"] /\ unix \in UnixType
        BY <1>2 DEF Timeout, BootInv, UnixOK
    <2>2. unix'.pc \in Done /\ unix'.prog = unix.prog
        BY <2>1 DEF UnixType, Done
    <2> QED BY <2>1, <2>2, EndsSession
<1>3. ASSUME NEW p \in Programs, Start(p) PROVE SessionInv'
    BY <1>3, StartSession DEF OnEmpty
<1> QED BY <1>1, <1>2, <1>3, BootSession, ExitSession, UnixSession DEF Next

LEMMA SessionStutters ==
    ASSUME SessionInv, UNCHANGED vars
    PROVE  SessionInv'
<1>1. UNCHANGED <<toPi, toUnix, pi, unix, acked>>
    BY DEF vars
<1>2. Sent' = Sent /\ (Ended' <=> Ended) /\ (Early' <=> Early)
    BY <1>1 DEF Sent, Ended, Early
<1>3. (Expects' <=> Expects) /\ Owed' = Owed
    BY <1>1, <1>2 DEF Expects, Echoed, Owed
<1>4. \A o : Cur(o)' <=> Cur(o)
    BY <1>1, <1>2 DEF Cur
<1>5. \A r : Behind(r)' <=> Behind(r)
    BY <1>1, <1>2 DEF Behind
<1>6. (Copied(unix.prog)' <=> Copied(unix.prog)) /\ (Copied(acked)' <=> Copied(acked))
    BY <1>1 DEF Copied
<1>7. InStep' <=> InStep
    BY <1>1, <1>4, <1>6 DEF InStep
<1>8. Refused' <=> Refused
    BY <1>1, <1>2, <1>4 DEF Refused
<1>9. Finishing' <=> Finishing
    <2>1. \A o, r : Finishes(o, r)' <=> Finishes(o, r)
        BY <1>1, <1>5, <1>6 DEF Finishes
    <2> QED BY <1>1, <2>1 DEF Finishing
<1>10. PiInv'
    BY <1>1, <1>4, <1>5, <1>6, <1>7, <1>8, <1>9 DEF SessionInv, PiInv
<1>11. HostInv'
    <2>1. (Missed' <=> Missed) /\ (ToCome' <=> ToCome)
        BY <1>1, <1>2, <1>4, <1>6 DEF Missed, ToCome
    <2> QED BY <1>1, <1>3, <1>7, <2>1 DEF SessionInv, HostInv, Answered
<1>12. RunInv'
    BY <1>1, <1>3 DEF SessionInv, RunInv
<1> QED BY <1>1, <1>2, <1>10, <1>11, <1>12 DEF SessionInv

LEMMA SessionInit ==
    ASSUME Init
    PROVE  AnswerInv /\ SessionInv
<1>1. unix.pc = "idle" /\ pi.pc = "off" /\ toPi = <<>>
    BY DEF Init, Off
<1>2. AnswerInv
    BY <1>1 DEF AnswerInv, Phase
<1>3. Ended /\ Sent = 0
    BY <1>1 DEF Ended, Done, Sent
<1>4. Ends(toPi, unix.prog, Sent)
    BY <1>1, <1>3, EmptySeq DEF Ends
<1>5. PiInv /\ HostInv /\ RunInv
    BY <1>1, <1>3 DEF PiInv, HostInv, Expects, RunInv
<1> QED BY <1>2, <1>3, <1>4, <1>5 DEF SessionInv

(* With a tty that drops what it held, and while nothing goes wrong, what     *)
(* notmain branches to is the file of the last my-install that sent ACK, byte *)
(* for byte: however often my-install was run before, and wherever in a       *)
(* transfer that left the pi.  Neither side needs its checksum for that.      *)
THEOREM RunsWhatWasSentWithoutFaults ==
    ASSUME AllPlain
    PROVE  FairSpec /\ DrainedTty => [](faults = 0 => RunsWhatWasSent)
<1> DEFINE Calm == faults = 0
           Inv == AnswerInv /\ (Calm => SessionInv)
<1>1. Init => Inv
    BY SessionInit
<1>2. BootInv /\ Inv /\ [Next]_vars /\ [OnEmpty]_vars => Inv'
    <2> SUFFICES ASSUME BootInv, Inv, [Next]_vars, [OnEmpty]_vars PROVE Inv'
        OBVIOUS
    <2>1. AnswerInv'
        BY AnswerStep
    <2>2. CASE UNCHANGED vars
        BY <2>1, <2>2, SessionStutters DEF vars
    <2>3. CASE Fault
        <3>1. faults' = faults + 1 /\ faults \in Nat
            BY <2>3, BootAssumption DEF Fault, BootInv, Counts
        <3>2. faults' # 0
            BY <3>1
        <3> QED BY <2>1, <3>2
    <2>4. CASE Next /\ ~Fault /\ OnEmpty
        <3>1. faults' = faults
            BY <2>4 DEF Next, Boot, PiStep, PiSOH, PiSize, PiHash, PiACK, PiCopy, PiEOT, ProgramExits,
                Start, simple_boot, Send, Expect, SendACK, SendData, Timeout
        <3>2. Calm => SessionInv'
            BY <2>4, SessionStep
        <3> QED BY <2>1, <3>1, <3>2
    <2> QED BY <2>2, <2>3, <2>4
<1>3. Inv => (faults = 0 => RunsWhatWasSent)
    BY DEF SessionInv, RunInv, RunsWhatWasSent
<1> QED BY <1>1, <1>2, <1>3, BootInvAlways, PTL DEF FairSpec, Spec, DrainedTty

-----------------------------------------------------------------------------
(* The power fails. *)
LEMMA PowerCycleSession ==
    ASSUME BootInv, SessionInv, PowerCycle, UNCHANGED acked
    PROVE  SessionInv'
<1>1. pi.pc # "off" /\ pi'.pc = "off" /\ UNCHANGED <<toPi, toUnix, unix, acked>> /\ UnixOK
      /\ toPi \in Seq(Byte)
    BY DEF PowerCycle, Off, BootInv, Lines
<1>2. /\ Sent' = Sent /\ (Ended' <=> Ended) /\ (Early' <=> Early) /\ (Expects' <=> Expects)
      /\ Owed' = Owed /\ (Cur(0)' <=> Cur(0))
    BY <1>1 DEF Sent, Ended, Early, Expects, Echoed, Owed, Cur
<1>3. PICK n \in Nat, l \in Nat : SentIs(n) /\ l = Len(toPi)
    BY <1>1, SentFacts DEF SentIs
<1>4. PiInv' /\ RunInv'
    BY <1>1 DEF PiInv, RunInv
<1>5. n >= 1 /\ (n = 1 => l < 4) => Missed'
    BY <1>1, <1>2, <1>3 DEF Missed, SentIs
<1>6. \A o \in Nat : Cur(o) => l = 4 * n - o
    BY <1>3 DEF Cur, Part, SentIs
<1>7. Cur(4) \/ Cur(8) => n >= 1 /\ (n = 1 => l < 4)
    <2>1. l = 4 * n - 4 \/ l = 4 * n - 8 => n >= 1 /\ (n = 1 => l < 4)
        OBVIOUS
    <2> QED BY <1>6, <2>1
<1>8. unix.pc \in {"data", "EOT", "xACK"} \/ Cur(12) => n >= 1 /\ n # 1
    <2>1. CASE Cur(12)
        <3>1. l = 4 * n - 12
            BY <1>6, <2>1
        <3> QED BY <3>1
    <2>2. CASE unix.pc \in {"data", "EOT"}
        <3>1. unix.sent \in Nat /\ n = 4 + unix.sent
            BY <1>1, <1>3, <2>2 DEF SentIs, UnixOK, UnixType
        <3> QED BY <3>1
    <2>3. CASE unix.pc = "xACK"
        <3>1. PICK m \in Nat : m = Padded(unix.prog)
            BY <1>1, FileFacts DEF UnixOK, UnixType
        <3>2. n = 5 + m
            BY <1>3, <2>3, <3>1 DEF SentIs
        <3> QED BY <3>2
    <2> QED BY <2>1, <2>2, <2>3
<1>9. HostInv'
    <2> SUFFICES ASSUME Expects PROVE Answered'
        BY <1>2 DEF HostInv
    <2>1. InStep => Missed'
        BY <1>5, <1>8 DEF InStep
    <2>2. unix.pc = "xACK" => Missed'
        BY <1>5, <1>8
    <2>3. Missed => Missed'
        BY <1>3, <1>5 DEF Missed, SentIs
    <2>4. ToCome => ToCome' \/ Missed'
        <3>1. CASE Cur(0) /\ n <= 1
            <4>1. ToCome'
                BY <1>1, <1>2, <1>3, <3>1 DEF ToCome, SentIs
            <4> QED BY <4>1
        <3>2. CASE ~(n <= 1)
            <4>1. n >= 1 /\ n # 1
                BY <3>2
            <4> QED BY <1>5, <4>1
        <3>3. CASE Cur(4) \/ Cur(8)
            BY <1>5, <1>7, <3>3
        <3> QED BY <1>1, <3>1, <3>2, <3>3 DEF ToCome
    <2>5. Answered \/ unix.pc = "xACK"
        BY DEF SessionInv, HostInv
    <2> QED BY <1>1, <1>2, <2>1, <2>2, <2>3, <2>4, <2>5 DEF Answered
<1> QED BY <1>1, <1>2, <1>4, <1>9 DEF SessionInv

(* A byte on its way to my-install is lost. *)
LEMMA LossSession ==
    ASSUME BootInv, SessionInv, UNCHANGED <<toPi, pi, unix, acked>>,
           NEW i \in 1 .. Len(toUnix), toUnix' = Without(toUnix, i)
    PROVE  SessionInv'
<1>1. PICK m \in Nat : m = Len(toUnix) /\ m >= 1 /\ toUnix # <<>> /\ i \in 1 .. m
    BY EmptySeq DEF BootInv, Lines
<1>2. Len(toUnix') = m - 1
      /\ \A j \in 1 .. m - 1 : toUnix'[j] = IF j < i THEN toUnix[j] ELSE toUnix[j + 1]
    BY <1>1, WithoutFacts DEF Shorter, BootInv, Lines
<1>3. Echoed' => Echoed
    <2> SUFFICES ASSUME Echoed' PROVE Echoed
        OBVIOUS
    <2>1. PICK j \in 1 .. m - 1 : toUnix'[j] = 120
        BY <1>2 DEF Echoed
    <2>2. j \in 1 .. m /\ j + 1 \in 1 .. m
        BY <1>1
    <2>3. toUnix[j] = 120 \/ toUnix[j + 1] = 120
        BY <1>2, <2>1
    <2> QED BY <1>1, <2>2, <2>3 DEF Echoed
<1>4. Sent' = Sent /\ (Ended' <=> Ended) /\ (Early' <=> Early) /\ Owed' = Owed
    BY DEF Sent, Ended, Early, Owed
<1>5. Expects' => Expects
    BY <1>3, <1>4 DEF Expects
<1>6. \A o \in Nat : Cur(o)' <=> Cur(o)
    BY <1>4 DEF Cur
<1>7. ASSUME NEW r \in Nat, Behind(r) PROVE Behind(r)'
    BY <1>1, <1>4, <1>7 DEF Behind
<1>8. PICK k \in Nat : k = Len(pi.mem) /\ 16 + 4 * k \in Nat
    BY DEF BootInv, PiOK, PiType
<1>9. Copied(unix.prog)' <=> Copied(unix.prog)
    BY DEF Copied
<1>10. InStep => InStep'
    BY <1>6, <1>8, <1>9 DEF InStep
<1>11. Refused => Refused'
    BY <1>1, <1>4, <1>6 DEF Refused
<1>12. Finishing => Finishing'
    <2>1. \A o \in Nat, r \in Nat : Finishes(o, r) => Finishes(o, r)'
        BY <1>7 DEF Finishes, Copied
    <2> QED BY <1>8, <2>1 DEF Finishing
<1>13. PiInv'
    BY <1>6, <1>7, <1>9, <1>10, <1>11, <1>12 DEF SessionInv, PiInv
<1>14. Missed => Missed'
    BY <1>4 DEF Missed
<1>15. ToCome => ToCome'
    BY <1>4, <1>6, <1>9 DEF ToCome
<1>16. Len(toUnix) <= Owed => Len(toUnix') <= Owed'
    <2>1. PICK w \in Nat : w = Owed
        BY DEF Owed
    <2> QED BY <1>1, <1>2, <1>4, <2>1
<1>17. HostInv' /\ RunInv'
    BY <1>5, <1>10, <1>14, <1>15, <1>16 DEF SessionInv, HostInv, RunInv, Answered
<1> QED BY <1>4, <1>13, <1>17 DEF SessionInv

(* Nothing is spoiled on its way to the pi and nobody kills my-install; the  *)
(* power may fail at any time, and what the pi answers may be lost.          *)
HeardByPi == [][Fault => PowerCycle \/ (Lose /\ toPi' = toPi)]_vars

(* What notmain branches to is still the file of the last my-install that    *)
(* sent ACK when the pi is power cycled, as often and wherever in a transfer *)
(* that is, and when any of its answers are lost on their way to my-install, *)
(* which then gives up on them and is run again on a pi that is anywhere in  *)
(* the transfer before.  Neither side needs its checksum for that.           *)
THEOREM RunsWhatWasSentThroughPowerCycles ==
    ASSUME AllPlain
    PROVE  FairSpec /\ DrainedTty /\ HeardByPi => []RunsWhatWasSent
<1> DEFINE Inv == AnswerInv /\ SessionInv
<1>1. Init => Inv
    BY SessionInit
<1>2. /\ BootInv /\ Inv /\ [Next]_vars /\ [OnEmpty]_vars
      /\ [Fault => PowerCycle \/ (Lose /\ toPi' = toPi)]_vars
      => Inv'
    <2> SUFFICES ASSUME BootInv, Inv, [Next]_vars, [OnEmpty]_vars,
                        [Fault => PowerCycle \/ (Lose /\ toPi' = toPi)]_vars
                 PROVE  Inv'
        OBVIOUS
    <2>1. AnswerInv'
        BY AnswerStep
    <2>2. CASE UNCHANGED vars
        BY <2>1, <2>2, SessionStutters
    <2>3. CASE PowerCycle /\ Fault
        <3>1. UNCHANGED acked
            BY <2>3 DEF Fault
        <3> QED BY <2>1, <2>3, <3>1, PowerCycleSession
    <2>4. CASE Lose /\ toPi' = toPi /\ Fault
        <3>1. UNCHANGED <<toPi, pi, unix, acked>>
            BY <2>4 DEF Fault, Lose
        <3>2. \A i \in 1 .. Len(toPi) : toPi' # Without(toPi, i)
            <4> SUFFICES ASSUME NEW i \in 1 .. Len(toPi), toPi = Without(toPi, i) PROVE FALSE
                BY <2>4
            <4>1. toPi \in Seq(Byte)
                BY DEF BootInv, Lines
            <4>2. Len(toPi) = Len(toPi) - 1
                BY <4>1, WithoutFacts DEF Shorter
            <4> QED BY <4>1, <4>2
        <3>3. PICK i \in 1 .. Len(toUnix) : toUnix' = Without(toUnix, i)
            BY <2>4, <3>2 DEF Lose, FirstWord
        <3> QED BY <2>1, <3>1, <3>3, LossSession
    <2>5. CASE Next /\ ~Fault /\ OnEmpty
        BY <2>1, <2>5, SessionStep
    <2> QED BY <2>2, <2>3, <2>4, <2>5
<1>3. Inv => RunsWhatWasSent
    BY DEF SessionInv, RunInv, RunsWhatWasSent
<1> QED BY <1>1, <1>2, <1>3, BootInvAlways, PTL DEF FairSpec, Spec, DrainedTty, HeardByPi
=============================================================================
