---------------------------- MODULE XmodemProofs ---------------------------
(***************************************************************************)
(* Proofs about Xmodem, for programs of any number of blocks of any bytes: *)
(* types after any faults, and the order of the blocks when the line       *)
(* spoils answers only and no NAK of the timer meets a block.              *)
(*                                                                         *)
(* TypeInv bounds the sum by the place in the packet.  InOrder says, for   *)
(* each place of the host, how far the pi is: Midway, the bytes on the     *)
(* line are the rest of the packet and the sum is that of its beginning;   *)
(* Answered, the block is stored and its one answer is on the way.  The    *)
(* block number agrees with the count of blocks modulo 256 on both sides.  *)
(***************************************************************************)
EXTENDS Xmodem, SequenceTheorems, WellFoundedInduction, TLAPS

Bytes == 0 .. BYTE - 1
Block == [1 .. PAYLOAD_SZ -> Bytes]
Answers == {ACK, NAK, NOISE}
Ats == {"drain", "send", "reply", "reply_eot", "sent_true", "panic"}

HostType ==
    /\ program \in Programs
    /\ at \in Ats
    /\ blk \in 1 .. Len(program) + 1 /\ (at = "reply" => blk <= Len(program))
PiType ==
    /\ state \in 0 .. PACKET_SIZE - 1 \cup {BOOTED} /\ block \in Bytes
    /\ xstring \in [0 .. PACKET_SIZE - 1 -> Bytes]
    /\ crc \in Nat /\ crc <= (IF state <= 0 THEN 2 * NOISE ELSE NOISE * state)
    /\ stored \in Seq(Block)
TypeInv ==
    /\ HostType /\ PiType
    /\ toPi \in Seq(Bytes) /\ toHost \in Seq(Answers)
    /\ noise \in Nat /\ crossed \in BOOLEAN

(* The sums of the first bytes of a block. *)
IsSum(h, data, K) ==
    h = [n \in 0 .. K |-> IF n = 0 THEN 0 ELSE Plus(h[n - 1], data[n])]
Sums(data) == CHOOSE h : IsSum(h, data, PAYLOAD_SZ)

Same == \A i \in 1 .. Len(stored) : stored[i] = program[i]
OneAnswer == toHost = <<>> \/ (Len(toHost) = 1 /\ toHost[1] \in {ACK, NOISE})

Sent == Packet(blk, program[blk])
Midway ==
    /\ state \in 0 .. PACKET_SIZE - 1 /\ toHost = <<>> /\ Len(stored) = blk - 1
    /\ Len(toPi) = PACKET_SIZE - state
    /\ \A j \in 1 .. Len(toPi) : toPi[j] = Sent[state + j]
    /\ \A k \in 1 .. state : xstring[k - 1] = Sent[k]
    /\ state = 1 => crc = SOH
    /\ state = 2 => crc = SOH + Sent[2]
    /\ state >= 3 => crc % BYTE = Sums(program[blk])[state - 3]
Answered == toPi = <<>> /\ state = 0 /\ Len(stored) = blk /\ OneAnswer
Ready == toPi = <<>> /\ state = 0 /\ Len(stored) = blk - 1
InOrder ==
    /\ Len(stored) <= Len(program) /\ Same
    /\ block = (Len(stored) + 1) % BYTE
    /\ at \in {"drain", "send"} => Ready
    /\ at = "send" => toHost = <<>>
    /\ at = "reply" => Midway \/ Answered
    /\ at = "reply_eot" =>
          /\ Len(stored) = Len(program) /\ blk = Len(program) + 1
          /\ \/ toPi = <<EOT>> /\ state = 0 /\ toHost = <<>>
             \/ toPi = <<>> /\ state = BOOTED /\ OneAnswer
    /\ at = "sent_true" => Len(stored) = Len(program)
    /\ at \in {"sent_true", "panic"} => toPi = <<>> /\ blk - 1 <= Len(stored)
OrderInv == crossed \/ InOrder

-----------------------------------------------------------------------------
(* Sequences. *)
LEMMA TailFacts ==
    ASSUME NEW S, NEW s \in Seq(S), s # <<>>
    PROVE  /\ Tail(s) \in Seq(S) /\ Len(s) \in Nat \ {0} /\ Len(Tail(s)) = Len(s) - 1
           /\ Head(s) = s[1] /\ Head(s) \in S
           /\ \A i \in 1 .. Len(s) - 1 : Tail(s)[i] = s[i + 1]
<1>1. Len(s) \in Nat \ {0}
    BY EmptySeq
<1> QED BY <1>1, HeadTailProperties

LEMMA AppendFacts ==
    ASSUME NEW S, NEW s \in Seq(S), NEW e \in S
    PROVE  /\ Append(s, e) \in Seq(S) /\ Len(Append(s, e)) = Len(s) + 1
           /\ Append(s, e)[Len(s) + 1] = e
           /\ \A i \in 1 .. Len(s) : Append(s, e)[i] = s[i]
BY AppendProperties

LEMMA NoiseTypes ==
    ASSUME NEW S, NEW s \in Seq(S), NEW e \in S, NEW i \in DOMAIN s
    PROVE  ReplaceAt(s, i, e) \in Seq(S) /\ RemoveAt(s, i) \in Seq(S)
<1>1. i \in 1 .. Len(s) /\ Len(s) \in Nat
    BY LenProperties
<1>2. ReplaceAt(s, i, e) \in Seq(S)
    BY <1>1 DEF ReplaceAt
<1>3. SubSeq(s, 1, i - 1) \in Seq(S) /\ SubSeq(s, i + 1, Len(s)) \in Seq(S)
    <2>1. \A j \in 1 .. i - 1 : s[j] \in S
        BY <1>1
    <2>2. \A j \in i + 1 .. Len(s) : s[j] \in S
        BY <1>1
    <2> QED BY <1>1, <2>1, <2>2, SubSeqProperties
<1> QED BY <1>2, <1>3, ConcatProperties DEF RemoveAt

-----------------------------------------------------------------------------
(* A byte arrives. *)
LEMMA Received ==
    ASSUME TypeInv, Receive
    PROVE  /\ state \in 0 .. PACKET_SIZE - 1 /\ PACKET_SIZE \in Nat /\ PACKET_SIZE >= 4
           /\ Byte \in Bytes /\ Byte = toPi[1] /\ Len(toPi) \in Nat \ {0}
           /\ toPi' \in Seq(Bytes) /\ Len(toPi') = Len(toPi) - 1
           /\ \A i \in 1 .. Len(toPi) - 1 : toPi'[i] = toPi[i + 1]
           /\ xstring' \in [0 .. PACKET_SIZE - 1 -> Bytes] /\ xstring'[state] = Byte
           /\ \A k \in 0 .. PACKET_SIZE - 1 : k # state => xstring'[k] = xstring[k]
<1>1. PACKET_SIZE \in Nat /\ PACKET_SIZE >= 4
    BY XmodemAssumption DEF PACKET_SIZE
<1>2. toPi # <<>> /\ toPi' = Tail(toPi) /\ toPi \in Seq(Bytes)
    BY DEF Receive, TypeInv
<1>3. state \in 0 .. PACKET_SIZE - 1
    BY DEF Receive, TypeInv, PiType
<1>4. Byte \in Bytes /\ Byte = toPi[1]
    BY <1>2, TailFacts DEF Byte
<1>5. xstring' \in [0 .. PACKET_SIZE - 1 -> Bytes] /\ xstring'[state] = Byte
      /\ \A k \in 0 .. PACKET_SIZE - 1 : k # state => xstring'[k] = xstring[k]
    <2>1. PICK b \in Bytes : b = Byte
        BY <1>4
    <2>2. xstring' = [xstring EXCEPT ![state] = b]
        BY <2>1 DEF Receive
    <2> QED BY <1>3, <2>1, <2>2 DEF TypeInv, PiType
<1> QED BY <1>1, <1>2, <1>3, <1>4, <1>5, TailFacts

(* What is left of the types when a byte has arrived. *)
LEMMA ReceivedTypes ==
    ASSUME TypeInv, Receive, toHost' \in Seq(Answers), block' \in Bytes, stored' \in Seq(Block),
           NEW s \in 0 .. PACKET_SIZE - 1 \cup {BOOTED}, state' = s,
           NEW c \in Nat, crc' = c, c <= (IF s <= 0 THEN 2 * NOISE ELSE NOISE * s)
    PROVE  TypeInv'
<1>1. HostType'
    BY DEF TypeInv, HostType, Receive, host
<1>2. PiType'
    BY Received DEF PiType
<1> QED BY <1>1, <1>2, Received DEF TypeInv, Receive, faults

LEMMA PiTypes ==
    ASSUME TypeInv, notmain
    PROVE  TypeInv'
<1>1. PICK s \in 0 .. PACKET_SIZE - 1 : s = state /\ PACKET_SIZE \in Nat /\ PACKET_SIZE >= 4
    BY Received DEF notmain, Begin, BlockNumber, Complement, Data, Checksum
<1>2. PICK b \in Bytes : b = Byte
    BY Received DEF notmain, Begin, BlockNumber, Complement, Data, Checksum
<1>3. Receive /\ toHost \in Seq(Answers) /\ block \in Bytes /\ stored \in Seq(Block) /\ crc \in Nat
    BY DEF notmain, Begin, BlockNumber, Complement, Data, Checksum, TypeInv, PiType
<1>4. b \in Nat /\ b <= 255
    BY DEF Bytes, BYTE
<1>5. ASSUME NEW a \in Answers, uart_send(a) PROVE toHost' \in Seq(Answers)
    BY <1>3, <1>5, AppendFacts DEF uart_send
<1>6. ACK \in Answers /\ NAK \in Answers /\ 0 \in 0 .. PACKET_SIZE - 1
    BY <1>1 DEF Answers
<1>7. crc <= IF s <= 0 THEN 510 ELSE 255 * s
    BY <1>1 DEF TypeInv, PiType, NOISE
<1>8. ASSUME Refuse, s <= 2 PROVE TypeInv'
    <2>1. crc <= 510
        BY <1>1, <1>3, <1>7, <1>8
    <2>2. toHost' \in Seq(Answers)
        BY <1>5, <1>6, <1>8 DEF Refuse
    <2> QED BY <1>3, <1>6, <1>8, <2>1, <2>2, ReceivedTypes DEF Refuse, NOISE
<1>9. ASSUME NEW c \in Nat, More(c), s + 1 <= PACKET_SIZE - 1, c <= 255 * (s + 1)
      PROVE  TypeInv'
    <2>1. s + 1 \in 0 .. PACKET_SIZE - 1
        BY <1>1, <1>9
    <2>2. c <= IF s + 1 <= 0 THEN 510 ELSE 255 * (s + 1)
        BY <1>1, <1>9
    <2> QED BY <1>1, <1>3, <1>9, <2>1, <2>2, ReceivedTypes DEF More, NOISE
<1>10. CASE Begin
    <2>0. s = 0
        BY <1>1, <1>10 DEF Begin
    <2>1. CASE Byte = EOT
        <3>1. uart_send(ACK) /\ state' = BOOTED /\ UNCHANGED <<crc, block, stored>>
            BY <1>10, <2>1 DEF Begin, EOT, SOH
        <3>2. toHost' \in Seq(Answers)
            BY <1>5, <1>6, <3>1
        <3>3. crc <= 510
            BY <1>7, <2>0
        <3> QED BY <1>3, <3>1, <3>2, <3>3, ReceivedTypes DEF BOOTED, NOISE
    <2>2. CASE Byte = SOH
        <3>1. More(SOH)
            BY <1>10, <2>2 DEF Begin, EOT, SOH
        <3> QED BY <1>1, <1>9, <2>0, <3>1 DEF SOH
    <2>3. CASE Byte \notin {EOT, SOH}
        BY <1>8, <1>10, <2>0, <2>3 DEF Begin
    <2> QED BY <2>1, <2>2, <2>3
<1>11. CASE BlockNumber
    <2>0. s = 1 /\ (Refuse \/ More(crc + b))
        BY <1>1, <1>2, <1>11 DEF BlockNumber
    <2>1. CASE More(crc + b)
        <3>1. crc + b \in Nat /\ crc + b <= 255 * (s + 1) /\ s + 1 <= PACKET_SIZE - 1
            BY <1>1, <1>3, <1>4, <1>7, <2>0
        <3> QED BY <1>9, <2>1, <3>1
    <2> QED BY <1>8, <2>0, <2>1
<1>12. CASE Complement
    <2>0. s = 2 /\ (Refuse \/ More(crc + b))
        BY <1>1, <1>2, <1>12 DEF Complement
    <2>1. CASE More(crc + b)
        <3>1. crc + b \in Nat /\ crc + b <= 255 * (s + 1) /\ s + 1 <= PACKET_SIZE - 1
            BY <1>1, <1>3, <1>4, <1>7, <2>0
        <3> QED BY <1>9, <2>1, <3>1
    <2> QED BY <1>8, <2>0, <2>1
<1>13. CASE Data
    <2>1. s >= 3 /\ s <= PACKET_SIZE - 2 /\ More(crc + b)
        BY <1>1, <1>2, <1>13 DEF Data
    <2>2. crc + b \in Nat /\ crc + b <= 255 * (s + 1) /\ s + 1 <= PACKET_SIZE - 1
        BY <1>1, <1>3, <1>4, <1>7, <2>1
    <2> QED BY <1>9, <2>1, <2>2
<1>14. CASE Checksum
    <2>1. PICK c \in Nat : c = crc % BYTE /\ c <= 255
        BY <1>3 DEF BYTE
    <2>2. state' = 0 /\ crc' = c
        BY <1>14, <2>1 DEF Checksum
    <2>3. \E a \in {ACK, NAK} : uart_send(a)
        BY <1>14 DEF Checksum
    <2>4. toHost' \in Seq(Answers)
        BY <1>5, <1>6, <2>3
    <2>5. block' \in Bytes
        <3>1. (block + 1) % BYTE \in Bytes
            BY <1>3 DEF Bytes, BYTE
        <3> QED BY <1>3, <1>14, <3>1 DEF Checksum
    <2>6. stored' \in Seq(Block)
        <3>1. Copied \in Block
            <4>1. \A i \in 1 .. PAYLOAD_SZ : i + 2 \in 0 .. PACKET_SIZE - 1
                BY XmodemAssumption DEF PACKET_SIZE
            <4>2. \A k \in 0 .. PACKET_SIZE - 1 : xstring[k] \in Bytes
                BY DEF TypeInv, PiType
            <4> QED BY <4>1, <4>2 DEF Copied, Block
        <3> QED BY <1>3, <1>14, <3>1, AppendFacts DEF Checksum
    <2> QED BY <1>3, <1>6, <2>1, <2>2, <2>4, <2>5, <2>6, ReceivedTypes DEF NOISE
<1> QED BY <1>10, <1>11, <1>12, <1>13, <1>14 DEF notmain

-----------------------------------------------------------------------------
(* Induction over sets of numbers. *)
LEMMA Induction ==
    ASSUME NEW S, 0 \in S, \A n \in Nat : n \in S => n + 1 \in S
    PROVE  Nat \subseteq S
<1> DEFINE T == Nat \ S
<1> SUFFICES ASSUME T # {} PROVE FALSE
    OBVIOUS
<1>1. PICK x \in T : \A y \in T : ~(<<y, x>> \in OpToRel(<, Nat))
    BY NatLessThanWellFounded, WFMin
<1>2. x # 0 /\ x \in Nat
    OBVIOUS
<1>3. x - 1 \in Nat /\ x - 1 < x
    BY <1>2
<1>4. x - 1 \notin T
    <2>1. <<x - 1, x>> \in OpToRel(<, Nat)
        BY <1>2, <1>3 DEF OpToRel
    <2> QED BY <1>1, <2>1
<1>5. x - 1 \in S /\ (x - 1) + 1 = x
    BY <1>3, <1>4
<1> QED BY <1>1, <1>3, <1>5

(* The recursion of cksum computes the sums of the first bytes. *)
LEMMA SumsExist ==
    ASSUME NEW d, NEW K \in Nat
    PROVE  \E h : IsSum(h, d, K)
<1> DEFINE S == {n \in Nat : \E h : IsSum(h, d, n)}
<1>1. 0 \in S
    <2>1. IsSum([n \in 0 .. 0 |-> 0], d, 0)
        BY DEF IsSum
    <2> QED BY <2>1
<1>2. ASSUME NEW n \in Nat, n \in S PROVE n + 1 \in S
    <2>1. PICK h : IsSum(h, d, n)
        BY <1>2
    <2> DEFINE g == [k \in 0 .. n + 1 |-> IF k = n + 1 THEN Plus(h[n], d[n + 1]) ELSE h[k]]
    <2>2. ASSUME NEW k \in 0 .. n + 1
          PROVE  g[k] = IF k = 0 THEN 0 ELSE Plus(g[k - 1], d[k])
        <3>1. CASE k = 0
            BY <2>1, <3>1 DEF IsSum
        <3>2. CASE k \in 1 .. n
            <4>1. g[k] = h[k] /\ g[k - 1] = h[k - 1]
                BY <3>2
            <4>2. h[k] = IF k = 0 THEN 0 ELSE Plus(h[k - 1], d[k])
                <5>1. k \in 0 .. n
                    BY <3>2
                <5> QED BY <2>1, <5>1, Zenon DEF IsSum
            <4> QED BY <3>2, <4>1, <4>2
        <3>3. CASE k = n + 1
            <4>1. g[k] = Plus(h[n], d[n + 1]) /\ g[k - 1] = h[n]
                BY <3>3
            <4> QED BY <3>3, <4>1
        <3> QED BY <3>1, <3>2, <3>3
    <2>3. IsSum(g, d, n + 1)
        BY <2>2, Zenon DEF IsSum
    <2> QED BY <2>3
<1> HIDE DEF S
<1>3. Nat \subseteq S
    BY <1>1, <1>2, Induction
<1> QED BY <1>3 DEF S

LEMMA SumFacts ==
    ASSUME NEW d \in Block
    PROVE  /\ Sums(d)[0] = 0 /\ cksum(d) = Sums(d)[PAYLOAD_SZ]
           /\ \A n \in 1 .. PAYLOAD_SZ : Sums(d)[n] = Plus(Sums(d)[n - 1], d[n])
           /\ \A n \in 0 .. PAYLOAD_SZ : Sums(d)[n] \in Bytes
<1>1. PAYLOAD_SZ \in Nat
    BY XmodemAssumption
<1>2. IsSum(Sums(d), d, PAYLOAD_SZ)
    <2>1. \E h : IsSum(h, d, PAYLOAD_SZ)
        BY <1>1, SumsExist
    <2> QED BY <2>1, Zenon DEF Sums
<1>3. cksum(d) = Sums(d)[PAYLOAD_SZ]
    BY Zenon DEF cksum, Sums, IsSum
<1>4. PICK h : h = Sums(d)
    OBVIOUS
<1>5. \A n \in 0 .. PAYLOAD_SZ : h[n] = IF n = 0 THEN 0 ELSE Plus(h[n - 1], d[n])
    BY <1>2, <1>4, Zenon DEF IsSum
<1>6. h[0] = 0 /\ \A n \in 1 .. PAYLOAD_SZ : h[n] = Plus(h[n - 1], d[n])
    BY <1>1, <1>5
<1> DEFINE S == {n \in Nat : n <= PAYLOAD_SZ => h[n] \in Bytes}
<1>7. 0 \in S
    BY <1>6 DEF Bytes, BYTE
<1>8. ASSUME NEW n \in Nat, n \in S PROVE n + 1 \in S
    <2> SUFFICES ASSUME n + 1 <= PAYLOAD_SZ PROVE h[n + 1] \in Bytes
        OBVIOUS
    <2>1. n + 1 \in 1 .. PAYLOAD_SZ /\ (n + 1) - 1 = n
        BY <1>1
    <2>2. PICK x \in Bytes, y \in Bytes : x = h[n] /\ y = d[n + 1]
        BY <1>1, <1>8, <2>1 DEF Block
    <2>3. h[n + 1] = (x + y) % 256
        BY <1>6, <2>1, <2>2 DEF Plus, BYTE
    <2> QED BY <2>3 DEF Bytes, BYTE
<1> HIDE DEF S
<1>9. Nat \subseteq S
    BY <1>7, <1>8, Induction
<1>10. \A n \in 0 .. PAYLOAD_SZ : h[n] \in Bytes
    BY <1>1, <1>9 DEF S
<1> QED BY <1>3, <1>4, <1>6, <1>10

(* The bytes of a packet: the number and its complement make 255, so with    *)
(* SOH the header adds nothing to the sum.                                   *)
LEMMA PacketFacts ==
    ASSUME NEW b \in Nat, NEW d \in Block
    PROVE  /\ Packet(b, d) \in Seq(Bytes) /\ Len(Packet(b, d)) = PACKET_SIZE
           /\ Packet(b, d)[1] = SOH /\ Packet(b, d)[2] = b % BYTE
           /\ Packet(b, d)[3] = 255 - (b % BYTE)
           /\ \A i \in 1 .. PAYLOAD_SZ : Packet(b, d)[i + 3] = d[i]
           /\ Packet(b, d)[PACKET_SIZE] = Sums(d)[PAYLOAD_SZ]
<1>1. PICK n \in Nat : n = PAYLOAD_SZ
    BY XmodemAssumption
<1>2. d \in Seq(Bytes) /\ Len(d) = n
    <2>1. d \in [1 .. n -> Bytes]
        BY <1>1 DEF Block
    <2> QED BY <2>1, SeqDef, LenProperties
<1>3. PICK x \in Bytes : x = b % BYTE
    BY DEF Bytes, BYTE
<1>4. (255 - b) % BYTE = 255 - x /\ 255 - x \in Bytes
    <2>1. b % 256 = x /\ x \in 0 .. 255
        BY <1>3 DEF Bytes, BYTE
    <2>2. (255 - b) % 256 = 255 - x
        BY <2>1
    <2> QED BY <2>1, <2>2 DEF Bytes, BYTE
<1>0. PICK z \in Bytes : z = 255 - x
    BY <1>4
<1>5. PICK c \in Bytes : c = Sums(d)[PAYLOAD_SZ] /\ c = cksum(d)
    BY <1>1, SumFacts
<1>6. \A y \in Bytes : <<y>> \in Seq(Bytes) /\ Len(<<y>>) = 1 /\ <<y>>[1] = y
    OBVIOUS
<1>7. PICK h \in Seq(Bytes) : h = <<SOH, x, z>>
                             /\ Len(h) = 3 /\ h[1] = SOH /\ h[2] = x /\ h[3] = z
    <2>1. SOH \in Bytes
        BY DEF SOH, Bytes, BYTE
    <2>2. \A u, v, w \in Bytes : /\ <<u, v, w>> \in Seq(Bytes) /\ Len(<<u, v, w>>) = 3
                               /\ <<u, v, w>>[1] = u /\ <<u, v, w>>[2] = v /\ <<u, v, w>>[3] = w
        OBVIOUS
    <2>3. PICK h : h = <<SOH, x, z>>
        OBVIOUS
    <2>4. h \in Seq(Bytes) /\ Len(h) = 3 /\ h[1] = SOH /\ h[2] = x /\ h[3] = z
        BY <2>1, <2>2, <2>3
    <2> QED BY <2>3, <2>4
<1>8. PICK g \in Seq(Bytes) : g = h \o d /\ Len(g) = 3 + n
                            /\ (\A i \in 1 .. 3 : g[i] = h[i])
                            /\ \A i \in 1 .. n : g[i + 3] = d[i]
    <2>1. PICK g : g = h \o d
        OBVIOUS
    <2>2. g \in Seq(Bytes) /\ Len(g) = 3 + n
        BY <1>2, <1>7, <2>1, ConcatProperties
    <2>3. \A i \in 1 .. 3 + n : g[i] = IF i <= 3 THEN h[i] ELSE d[i - 3]
        BY <1>2, <1>7, <2>1, ConcatProperties
    <2>4. \A i \in 1 .. 3 : g[i] = h[i]
        BY <1>1, <2>3
    <2>5. \A i \in 1 .. n : g[i + 3] = d[i]
        <3> TAKE i \in 1 .. n
        <3>1. i + 3 \in 1 .. 3 + n /\ ~(i + 3 <= 3) /\ (i + 3) - 3 = i
            BY <1>1
        <3> QED BY <2>3, <3>1
    <2> QED BY <2>1, <2>2, <2>4, <2>5
<1>9. PICK t \in Seq(Bytes) : t = <<c>> /\ Len(t) = 1 /\ t[1] = c
    BY <1>5, <1>6
<1>10. g \o t \in Seq(Bytes) /\ Len(g \o t) = n + 4
       /\ (\A i \in 1 .. n + 3 : (g \o t)[i] = g[i]) /\ (g \o t)[n + 4] = c
    <2>1. PICK q : q = g \o t
        OBVIOUS
    <2>2. q \in Seq(Bytes) /\ Len(q) = Len(g) + Len(t)
        BY <2>1, ConcatProperties
    <2>3. \A i \in 1 .. Len(g) + Len(t) : q[i] = IF i <= Len(g) THEN g[i] ELSE t[i - Len(g)]
        BY <2>1, ConcatProperties
    <2>4. \A i \in 1 .. n + 4 : q[i] = IF i <= n + 3 THEN g[i] ELSE t[i - (n + 3)]
        <3>1. Len(g) = n + 3 /\ Len(t) = 1 /\ Len(g) + Len(t) = n + 4
            BY <1>1, <1>8, <1>9
        <3>2. PICK k : k = n + 3 /\ k = Len(g)
            BY <3>1
        <3> QED BY <2>3, <3>1, <3>2
    <2>5. \A i \in 1 .. n + 3 : q[i] = g[i]
        BY <1>1, <2>4
    <2>6. q[n + 4] = c
        <3>1. n + 4 \in 1 .. n + 4 /\ ~(n + 4 <= n + 3) /\ (n + 4) - (n + 3) = 1
            BY <1>1
        <3> QED BY <1>9, <2>4, <3>1
    <2>7. Len(q) = n + 4
        <3>1. Len(g) = n + 3 /\ Len(t) = 1
            BY <1>1, <1>8, <1>9
        <3> QED BY <1>1, <2>2, <3>1
    <2> HIDE DEF Bytes
    <2> QED BY <2>1, <2>2, <2>5, <2>6, <2>7, Zenon
<1>11. Packet(b, d) = g \o t
    <2>1. (255 - b) % BYTE = z
        BY <1>0, <1>4
    <2> QED BY <1>3, <1>5, <1>7, <1>8, <1>9, <2>1, Zenon DEF Packet
<1>12. PICK p \in Seq(Bytes) : p = g \o t
    BY <1>10
<1>13. p[1] = SOH /\ p[2] = x /\ p[3] = 255 - x
    BY <1>0, <1>7, <1>8, <1>10, <1>12
<1>14. \A i \in 1 .. n : p[i + 3] = d[i]
    <2> TAKE i \in 1 .. n
    <2>1. i + 3 \in 1 .. n + 3
        BY <1>1
    <2> QED BY <1>8, <1>10, <1>12, <2>1
<1>15. Len(p) = n + 4 /\ p[n + 4] = c
    BY <1>10, <1>12
<1>16. p = Packet(b, d) /\ PACKET_SIZE = n + 4
    BY <1>1, <1>11, <1>12 DEF PACKET_SIZE
<1> HIDE DEF PACKET_SIZE, Packet
<1> QED BY <1>1, <1>3, <1>5, <1>13, <1>14, <1>15, <1>16

-----------------------------------------------------------------------------
(* The types of the rest. *)
LEMMA HostTypes ==
    ASSUME TypeInv, xmodem
    PROVE  TypeInv'
<1>1. /\ program \in Seq(Block) /\ Len(program) \in Nat /\ blk \in Nat
      /\ blk \in 1 .. Len(program) + 1
    <2>1. program \in Seq(Block)
        BY XmodemAssumption DEF TypeInv, HostType, Block, Bytes
    <2> QED BY <2>1 DEF TypeInv, HostType
<1>2. toPi \in Seq(Bytes) /\ toHost \in Seq(Answers)
    BY DEF TypeInv
<1>3. UNCHANGED <<program, state, xstring, crc, block, stored, noise, crossed>>
    BY DEF xmodem, drain, send_block, get_reply, get_reply_eot, get_byte_fails, host, pi, faults
<1>4. ASSUME toPi' \in Seq(Bytes), toHost' \in Seq(Answers), at' \in Ats,
             blk' \in 1 .. Len(program) + 1, at' = "reply" => blk' <= Len(program)
      PROVE  TypeInv'
    BY <1>3, <1>4 DEF TypeInv, HostType, PiType
<1>5. toHost # <<>> => Tail(toHost) \in Seq(Answers)
    BY <1>2, TailFacts
<1>6. CASE drain
    BY <1>1, <1>2, <1>4, <1>5, <1>6 DEF drain, TypeInv, HostType, Ats
<1>7. CASE send_block
    <2>1. CASE /\ blk <= Len(program) /\ at' = "reply"
               /\ toPi' = toPi \o Packet(blk, program[blk])
        <3>1. program[blk] \in Block
            BY <1>1, <2>1
        <3>2. toPi' \in Seq(Bytes)
            BY <1>1, <1>2, <2>1, <3>1, PacketFacts, ConcatProperties
        <3> QED BY <1>1, <1>2, <1>4, <1>7, <2>1, <3>2 DEF send_block, Ats
    <2>2. CASE blk > Len(program) /\ toPi' = Append(toPi, EOT) /\ at' = "reply_eot"
        <3>1. toPi' \in Seq(Bytes)
            BY <1>2, <2>2, AppendFacts DEF EOT, Bytes, BYTE
        <3> QED BY <1>1, <1>2, <1>4, <1>7, <2>2, <3>1 DEF send_block, Ats
    <2> QED BY <1>7, <2>1, <2>2 DEF send_block
<1>8. CASE get_reply
    <2>1. blk <= Len(program) /\ toHost # <<>> /\ toHost' = Tail(toHost) /\ toPi' = toPi
        BY <1>8 DEF get_reply, TypeInv, HostType
    <2>2. at' \in {"send", "drain", "panic"}
        BY <1>8 DEF get_reply
    <2>3. blk' \in {blk, blk + 1}
        BY <1>8 DEF get_reply
    <2> QED BY <1>1, <1>2, <1>4, <1>5, <2>1, <2>2, <2>3 DEF Ats
<1>9. CASE get_reply_eot
    <2>1. at' \in {"sent_true", "panic"}
        BY <1>9 DEF get_reply_eot
    <2> QED BY <1>1, <1>2, <1>4, <1>5, <1>9, <2>1 DEF get_reply_eot, Ats
<1>10. CASE get_byte_fails
    BY <1>1, <1>2, <1>4, <1>10 DEF get_byte_fails, Ats
<1> QED BY <1>6, <1>7, <1>8, <1>9, <1>10 DEF xmodem

LEMMA LineTypes ==
    ASSUME TypeInv, timer_tick \/ Noise \/ Stopped
    PROVE  TypeInv'
<1>1. CASE timer_tick
    <2>1. toHost' \in Seq(Answers)
        BY <1>1, AppendFacts DEF timer_tick, uart_send, TypeInv, Answers
    <2> QED BY <1>1, <2>1 DEF timer_tick, host, pi, TypeInv, HostType, PiType
<1>2. CASE Noise
    <2>1. toPi' \in Seq(Bytes)
        <3>1. NOISE \in Bytes
            BY DEF NOISE, Bytes, BYTE
        <3> QED BY <1>2, <3>1, NoiseTypes DEF Noise, TypeInv
    <2>2. toHost' \in Seq(Answers)
        <3>1. NOISE \in Answers
            BY DEF Answers
        <3> QED BY <1>2, <3>1, NoiseTypes DEF Noise, TypeInv
    <2> QED BY <1>2, <2>1, <2>2 DEF Noise, host, pi, TypeInv, HostType, PiType
<1>3. CASE Stopped
    BY <1>3 DEF Stopped, vars, host, pi, faults, TypeInv, HostType, PiType
<1> QED BY <1>1, <1>2, <1>3

LEMMA TypeInvAlways == Spec => []TypeInv
<1>1. Init => TypeInv
    <2> SUFFICES ASSUME Init PROVE TypeInv
        OBVIOUS
    <2>1. program \in Seq(Block)
        BY XmodemAssumption DEF Init, Block, Bytes
    <2>2. HostType
        BY <2>1 DEF Init, HostType, Ats
    <2>3. PiType
        BY XmodemAssumption, EmptySeq DEF Init, PiType, PACKET_SIZE, Bytes, BYTE, NOISE
    <2> QED BY <2>2, <2>3, EmptySeq DEF Init, TypeInv
<1>2. TypeInv /\ [Next]_vars => TypeInv'
    <2> SUFFICES ASSUME TypeInv, [Next]_vars PROVE TypeInv'
        OBVIOUS
    <2>1. CASE UNCHANGED vars
        BY <2>1 DEF vars, host, pi, faults, TypeInv, HostType, PiType
    <2> QED BY <2>1, HostTypes, PiTypes, LineTypes DEF Next
<1> QED BY <1>1, <1>2, PTL DEF Spec

(* The pi never writes past its packet and its sum stays small, and both     *)
(* sides stay in their protocol, whatever the line does and whenever the     *)
(* timer fires, for programs of any length.                                  *)
THEOREM XmodemTypeOKAlways == Spec => []XmodemTypeOK
<1>1. TypeInv => XmodemTypeOK
    <2> SUFFICES ASSUME TypeInv PROVE XmodemTypeOK
        OBVIOUS
    <2>1. crc \in 0 .. PACKET_SIZE * BYTE
        <3>1. PICK n \in Nat : n = PACKET_SIZE /\ n >= 4
            BY XmodemAssumption DEF PACKET_SIZE
        <3>2. state \in 0 .. n - 1 \cup {-1} /\ crc \in Nat
              /\ crc <= IF state <= 0 THEN 510 ELSE 255 * state
            BY <3>1 DEF TypeInv, PiType, BOOTED, NOISE
        <3>3. crc <= 256 * n
            BY <3>1, <3>2
        <3> QED BY <3>1, <3>2, <3>3 DEF BYTE
    <2> QED BY <2>1 DEF TypeInv, HostType, PiType, XmodemTypeOK, Ats, Answers, Bytes
<1> QED BY <1>1, TypeInvAlways, PTL

-----------------------------------------------------------------------------
(* What the host knows of the program and of its packet. *)
LEMMA ProgramFacts ==
    ASSUME TypeInv
    PROVE  /\ program \in Seq(Block) /\ Len(program) \in Nat
           /\ blk \in Nat /\ 1 <= blk /\ blk <= Len(program) + 1
           /\ Len(stored) \in Nat
           /\ blk <= Len(program) => program[blk] \in Block
<1>1. program \in Seq(Block)
    BY XmodemAssumption DEF TypeInv, HostType, Block, Bytes
<1>2. blk \in 1 .. Len(program) + 1 /\ stored \in Seq(Block)
    BY DEF TypeInv, HostType, PiType
<1> QED BY <1>1, <1>2

(* The next byte of a packet arrives, and it is not the last one. *)
LEMMA Onward ==
    ASSUME TypeInv, at = "reply", Midway, Receive, state < PACKET_SIZE - 1, NEW c, More(c),
           state + 1 = 1 => c = SOH,
           state + 1 = 2 => c = SOH + Sent[2],
           state + 1 >= 3 => c % BYTE = Sums(program[blk])[state + 1 - 3]
    PROVE  Midway'
<1>1. PICK s \in Nat, m \in Nat : s = state /\ m = PACKET_SIZE - s /\ m = Len(toPi) /\ m >= 2
                               /\ PACKET_SIZE \in Nat
    BY Received DEF Midway
<1>2. state' = s + 1 /\ s + 1 \in 0 .. PACKET_SIZE - 1
    <2>1. state' = s + 1
        BY <1>1 DEF More
    <2> QED BY <1>1, <2>1
<1>3. UNCHANGED <<blk, program, stored, toHost>> /\ Sent' = Sent
    BY DEF Receive, host, More, Sent
<1>4. Len(toPi') = PACKET_SIZE - (s + 1)
    <2>1. Len(toPi') = Len(toPi) - 1
        BY Received
    <2>2. PICK z \in Nat, t \in Nat : z = PACKET_SIZE /\ t = Len(toPi) /\ t = z - s
        BY <1>1
    <2>3. t - 1 = z - (s + 1)
        BY <2>2
    <2> QED BY <2>1, <2>2, <2>3
<1>5. ASSUME NEW j \in 1 .. Len(toPi') PROVE toPi'[j] = Sent[(s + 1) + j]
    <2>1. j \in 1 .. m - 1 /\ j + 1 \in 1 .. m /\ s + (j + 1) = (s + 1) + j
        BY <1>1, <1>4, <1>5
    <2>2. toPi'[j] = toPi[j + 1]
        BY <1>1, <2>1, Received
    <2>3. toPi[j + 1] = Sent[s + (j + 1)]
        BY <1>1, <2>1 DEF Midway
    <2> QED BY <2>1, <2>2, <2>3
<1>6. ASSUME NEW k \in 1 .. s + 1 PROVE xstring'[k - 1] = Sent[k]
    <2>1. CASE k = s + 1
        <3>1. Byte = Sent[s + 1]
            <4>1. Byte = toPi[1] /\ 1 \in 1 .. Len(toPi)
                BY Received
            <4> QED BY <1>1, <4>1 DEF Midway
        <3> QED BY <1>1, <2>1, <3>1, Received
    <2>2. CASE k \in 1 .. s
        <3>1. k - 1 \in 0 .. PACKET_SIZE - 1 /\ k - 1 # s
            BY <1>1, <2>2
        <3> QED BY <1>1, <2>2, <3>1, Received DEF Midway
    <2> QED BY <1>1, <2>1, <2>2
<1> QED BY <1>1, <1>2, <1>3, <1>4, <1>5, <1>6 DEF Midway, More

(* The pi takes each byte of a packet that it expects, and stores the block  *)
(* at its last one.                                                          *)
LEMMA PiMidway ==
    ASSUME TypeInv, InOrder, at = "reply", Midway, notmain
    PROVE  InOrder'
<1>1. Receive
    BY DEF notmain, Begin, BlockNumber, Complement, Data, Checksum
<1>2. PICK s \in Nat : s = state /\ s <= PACKET_SIZE - 1
    BY <1>1, Received
<1>3. PICK n \in Nat, d \in Block : n = PAYLOAD_SZ /\ d = program[blk] /\ PACKET_SIZE = n + 4
    BY ProgramFacts, XmodemAssumption DEF TypeInv, HostType, PACKET_SIZE
<1>4. PICK p : /\ p = Sent /\ p[1] = SOH /\ p[2] = blk % BYTE /\ p[3] = 255 - (blk % BYTE)
               /\ \A i \in 1 .. n : p[i + 3] = d[i]
               /\ p[n + 4] = Sums(d)[n]
    <2>1. blk \in Nat
        BY ProgramFacts
    <2>2. /\ Sent[1] = SOH /\ Sent[2] = blk % BYTE /\ Sent[3] = 255 - (blk % BYTE)
          /\ \A i \in 1 .. PAYLOAD_SZ : Sent[i + 3] = d[i]
          /\ Sent[PACKET_SIZE] = Sums(d)[PAYLOAD_SZ]
        <3>1. Sent = Packet(blk, d)
            BY <1>3, Zenon DEF Sent
        <3>2. PICK p : /\ p = Packet(blk, d) /\ p[1] = SOH /\ p[2] = blk % BYTE
                       /\ p[3] = 255 - (blk % BYTE)
                       /\ \A i \in 1 .. PAYLOAD_SZ : p[i + 3] = d[i]
                       /\ p[PACKET_SIZE] = Sums(d)[PAYLOAD_SZ]
            BY <2>1, PacketFacts
        <3> QED BY <3>1, <3>2
    <2> QED BY <1>3, <2>2
<1>5. Byte = p[s + 1]
    <2>1. Byte = toPi[1] /\ 1 \in 1 .. Len(toPi)
        BY <1>1, Received
    <2>2. \A j \in 1 .. Len(toPi) : toPi[j] = Sent[state + j]
        BY DEF Midway
    <2> QED BY <1>2, <1>4, <2>1, <2>2
<1>6. block = blk % BYTE /\ blk % BYTE \in Bytes
    <2>1. (Len(stored) + 1) = blk
        BY ProgramFacts DEF Midway
    <2> QED BY <2>1, ProgramFacts DEF InOrder, TypeInv, PiType
<1>7. \A k \in 1 .. s : xstring[k - 1] = p[k]
    BY <1>2, <1>4 DEF Midway
<1>8. UNCHANGED <<program, at, blk, crossed>>
    BY <1>1 DEF Receive, host, faults
<1>9. ASSUME Midway', UNCHANGED <<stored, block>> PROVE InOrder'
    BY <1>8, <1>9 DEF InOrder, Same
<1>10. CASE s = 0
    <2>1. Byte = SOH
        BY <1>4, <1>5, <1>10
    <2>2. Begin
        BY <1>2, <1>3, <1>10 DEF notmain, BlockNumber, Complement, Data, Checksum
    <2>3. More(SOH)
        BY <2>1, <2>2 DEF Begin, SOH, EOT
    <2>4. Midway'
        BY <1>1, <1>2, <1>3, <1>10, <2>3, Onward
    <2> QED BY <1>9, <2>3, <2>4 DEF More
<1>11. CASE s = 1
    <2>1. Byte = block
        BY <1>4, <1>5, <1>6, <1>11
    <2>2. BlockNumber
        BY <1>2, <1>3, <1>11 DEF notmain, Begin, Complement, Data, Checksum
    <2>3. More(crc + Byte)
        BY <2>1, <2>2 DEF BlockNumber
    <2>4. crc = SOH /\ Byte = Sent[2]
        BY <1>2, <1>4, <1>5, <1>11 DEF Midway
    <2>5. Midway'
        BY <1>1, <1>2, <1>3, <1>11, <2>3, <2>4, Onward
    <2> QED BY <1>9, <2>3, <2>5 DEF More
<1>12. CASE s = 2
    <2>1. xstring[1] = p[2]
        BY <1>7, <1>12
    <2>2. Byte = 255 - xstring[1]
        BY <1>4, <1>5, <1>12, <2>1
    <2>3. Complement
        BY <1>2, <1>3, <1>12 DEF notmain, Begin, BlockNumber, Data, Checksum
    <2>4. More(crc + Byte)
        BY <2>2, <2>3 DEF Complement
    <2>5. crc = 1 + p[2] /\ p[2] \in 0 .. 255
        BY <1>2, <1>4, <1>6, <1>12 DEF Midway, SOH, Bytes, BYTE
    <2>6. crc + Byte = 256
        BY <2>1, <2>2, <2>5
    <2>7. (crc + Byte) % BYTE = Sums(program[blk])[0]
        BY <1>3, <2>6, SumFacts DEF BYTE
    <2>8. Midway'
        BY <1>1, <1>2, <1>3, <1>12, <2>4, <2>7, Onward
    <2> QED BY <1>9, <2>4, <2>8 DEF More
<1>13. CASE s \in 3 .. PACKET_SIZE - 2
    <2>1. Data
        BY <1>2, <1>3, <1>13 DEF notmain, Begin, BlockNumber, Complement, Checksum
    <2>2. More(crc + Byte)
        BY <2>1 DEF Data
    <2>3. PICK i \in 1 .. n : i = s - 2 /\ s + 1 = i + 3 /\ s + 1 - 3 = i /\ s - 3 = i - 1
        BY <1>2, <1>3, <1>13
    <2>4. PICK b \in Bytes, x \in Bytes : b = d[i] /\ x = Sums(d)[i - 1]
        <3>1. i - 1 \in 0 .. n
            BY <1>3, <2>3
        <3> QED BY <1>3, <2>3, <3>1, SumFacts DEF Block
    <2>5. Byte = b
        BY <1>4, <1>5, <2>3, <2>4
    <2>6. crc % 256 = x /\ crc \in Nat
        BY <1>2, <1>3, <1>13, <2>3, <2>4 DEF Midway, TypeInv, PiType, BYTE
    <2>7. (crc + b) % 256 = (x + b) % 256
        <3>1. b \in 0 .. 255
            BY DEF Bytes, BYTE
        <3> QED BY <2>6, <3>1
    <2>8. Sums(d)[i] = (x + b) % 256
        BY <1>3, <2>3, <2>4, SumFacts DEF Plus, BYTE
    <2>9. (crc + Byte) % BYTE = Sums(program[blk])[s + 1 - 3]
        BY <1>3, <2>3, <2>5, <2>7, <2>8 DEF BYTE
    <2>10. Midway'
        BY <1>1, <1>2, <1>3, <1>13, <2>2, <2>9, Onward
    <2> QED BY <1>9, <2>2, <2>10 DEF More
<1>14. CASE s = PACKET_SIZE - 1
    <2>1. Checksum
        BY <1>2, <1>3, <1>14 DEF notmain, Begin, BlockNumber, Complement, Data
    <2>2. Byte = crc % BYTE
        <3>1. s + 1 = n + 4 /\ s - 3 = n /\ s >= 3
            BY <1>2, <1>3, <1>14
        <3> QED BY <1>2, <1>3, <1>4, <1>5, <3>1 DEF Midway
    <2>3. /\ stored' = Append(stored, Copied) /\ block' = (block + 1) % BYTE
          /\ toHost' = Append(toHost, ACK) /\ state' = 0
        BY <2>1, <2>2 DEF Checksum, uart_send
    <2>4. Copied = d
        <3>1. ASSUME NEW i \in 1 .. n PROVE xstring[i + 2] = d[i]
            <4>1. i + 3 \in 1 .. s /\ (i + 3) - 1 = i + 2
                BY <1>2, <1>3, <1>14
            <4>2. xstring[(i + 3) - 1] = p[i + 3]
                BY <1>7, <4>1
            <4> QED BY <1>4, <4>1, <4>2
        <3> QED BY <1>3, <3>1 DEF Copied, Block
    <2>5. PICK l \in Nat : l = Len(stored) /\ blk = l + 1 /\ blk <= Len(program)
        BY ProgramFacts DEF Midway, TypeInv, HostType
    <2>6. Len(stored') = blk /\ stored'[blk] = d /\ \A i \in 1 .. l : stored'[i] = stored[i]
        BY <1>3, <2>3, <2>4, <2>5, AppendFacts DEF TypeInv, PiType
    <2>7. Same'
        <3>1. ASSUME NEW i \in 1 .. blk PROVE stored'[i] = program[i]
            <4>1. CASE i = blk
                BY <1>3, <2>6, <4>1
            <4>2. CASE i \in 1 .. l
                BY <2>5, <2>6, <4>2 DEF InOrder, Same
            <4> QED BY <2>5, <4>1, <4>2
        <3> QED BY <1>8, <2>6, <3>1 DEF Same
    <2>8. block' = (Len(stored') + 1) % BYTE
        <3>1. block = blk % 256
            BY <1>6 DEF BYTE
        <3>2. (block + 1) % 256 = (blk + 1) % 256
            BY <2>5, <3>1
        <3> QED BY <2>3, <2>6, <3>2 DEF BYTE
    <2>9. toPi' = <<>>
        <3>1. Len(toPi') = 0
            BY <1>1, <1>2, <1>3, <1>14, Received DEF Midway
        <3> QED BY <1>1, <3>1, Received, EmptySeq
    <2>10. OneAnswer'
        <3>1. toHost' = <<ACK>>
            BY <2>3 DEF Midway
        <3> QED BY <3>1 DEF OneAnswer
    <2> QED BY <1>8, <2>3, <2>5, <2>6, <2>7, <2>8, <2>9, <2>10 DEF InOrder, Answered
<1> QED BY <1>2, <1>3, <1>10, <1>11, <1>12, <1>13, <1>14

LEMMA PiOrders ==
    ASSUME TypeInv, InOrder, notmain
    PROVE  InOrder'
<1>1. Receive
    BY DEF notmain, Begin, BlockNumber, Complement, Data, Checksum
<1>2. toPi # <<>> /\ state # BOOTED /\ at \in Ats
    BY <1>1 DEF Receive, TypeInv, HostType
<1>3. CASE at = "reply"
    BY <1>2, <1>3, PiMidway DEF InOrder, Answered
<1>4. CASE at = "reply_eot"
    <2>1. toPi = <<EOT>> /\ state = 0 /\ toHost = <<>>
        BY <1>2, <1>4 DEF InOrder
    <2>2. Byte = EOT
        BY <1>1, <2>1, Received
    <2>3. Begin
        BY <2>1, Received, <1>1 DEF notmain, BlockNumber, Complement, Data, Checksum
    <2>4. toHost' = Append(toHost, ACK) /\ state' = BOOTED /\ UNCHANGED <<crc, block, stored>>
        BY <2>2, <2>3 DEF Begin, SOH, EOT, uart_send
    <2>5. toPi' = <<>>
        <3>1. Len(toPi') = 0
            BY <1>1, <2>1, Received
        <3> QED BY <1>1, <3>1, Received, EmptySeq
    <2>6. OneAnswer'
        <3>1. toHost' = <<ACK>>
            BY <2>1, <2>4
        <3> QED BY <3>1 DEF OneAnswer
    <2>7. UNCHANGED <<program, at, blk>>
        BY <1>1 DEF Receive, host
    <2> QED BY <1>4, <2>4, <2>5, <2>6, <2>7 DEF InOrder, Same
<1> QED BY <1>2, <1>3, <1>4 DEF InOrder, Ready, Ats

(* A packet is on the line and nothing of it has arrived. *)
LEMMA SendOrders ==
    ASSUME TypeInv, InOrder, send_block
    PROVE  InOrder'
<1>1. /\ at = "send" /\ toPi = <<>> /\ toHost = <<>> /\ state = 0 /\ Len(stored) = blk - 1
      /\ UNCHANGED <<program, blk, toHost, state, xstring, crc, block, stored>>
    BY DEF send_block, InOrder, Ready, pi
<1>2. CASE blk <= Len(program) /\ toPi' = toPi \o Packet(blk, program[blk]) /\ at' = "reply"
    <2>1. PICK p \in Seq(Bytes) : p = Sent /\ Len(p) = PACKET_SIZE
        BY <1>2, ProgramFacts, PacketFacts DEF Sent
    <2>2. toPi' = p
        <3>1. <<>> \o p = p
            OBVIOUS
        <3> QED BY <1>1, <1>2, <2>1, <3>1 DEF Sent
    <2>3. Sent' = p /\ PACKET_SIZE \in Nat \ {0}
        BY <1>1, <2>1, XmodemAssumption DEF Sent, PACKET_SIZE
    <2>4. \A j \in 1 .. Len(p) : p[j] = p[0 + j]
        OBVIOUS
    <2>5. Midway'
        BY <1>1, <2>1, <2>2, <2>3, <2>4 DEF Midway
    <2> QED BY <1>1, <1>2, <2>5 DEF InOrder, Same
<1>3. CASE blk > Len(program) /\ toPi' = Append(toPi, EOT) /\ at' = "reply_eot"
    <2>1. blk = Len(program) + 1 /\ Len(stored) = Len(program)
        BY <1>1, <1>3, ProgramFacts
    <2>2. toPi' = <<EOT>>
        BY <1>1, <1>3
    <2> QED BY <1>1, <1>3, <2>1, <2>2 DEF InOrder, Same
<1> QED BY <1>2, <1>3 DEF send_block

LEMMA HostOrders ==
    ASSUME TypeInv, InOrder, xmodem
    PROVE  InOrder'
<1>1. UNCHANGED <<program, state, xstring, crc, block, stored>>
    BY DEF xmodem, drain, send_block, get_reply, get_reply_eot, get_byte_fails, host, pi
<1>2. Same' /\ block' = (Len(stored') + 1) % BYTE /\ Len(stored') <= Len(program')
    BY <1>1 DEF InOrder, Same
<1>3. blk \in Nat /\ Len(stored) \in Nat /\ PACKET_SIZE \in Nat \ {0}
    BY ProgramFacts, XmodemAssumption DEF PACKET_SIZE
<1>4. CASE drain
    BY <1>1, <1>2, <1>4 DEF drain, InOrder, Ready
<1>5. ASSUME get_reply \/ get_byte_fails \/ get_reply_eot, toHost # <<>>
      PROVE  OneAnswer => Len(toHost) = 1 /\ Head(toHost) = toHost[1]
    BY <1>5, TailFacts DEF OneAnswer, TypeInv
<1>6. CASE get_reply
    <2>1. at = "reply" /\ toHost # <<>> /\ toHost' = Tail(toHost) /\ toPi' = toPi
        BY <1>6 DEF get_reply
    <2>2. Answered
        BY <2>1 DEF InOrder, Midway
    <2>3. PICK a \in {ACK, NOISE} : a = Head(toHost) /\ Len(toHost) = 1
        BY <1>5, <1>6, <2>1, <2>2 DEF Answered, OneAnswer
    <2>4. toHost' = <<>>
        <3>1. toHost' \in Seq(Answers) /\ Len(toHost') = 0
            BY <2>1, <2>3, TailFacts DEF TypeInv
        <3> QED BY <3>1, EmptySeq
    <2>5. CASE a = ACK
        <3>1. at' = "send" /\ blk' = blk + 1
            BY <1>6, <2>3, <2>5 DEF get_reply, ACK, NAK
        <3> QED BY <1>1, <1>2, <1>3, <2>1, <2>2, <2>4, <3>1 DEF InOrder, Answered, Ready
    <2>6. CASE a = NOISE
        <3>1. at' = "panic" /\ blk' = blk
            BY <1>6, <2>3, <2>6 DEF get_reply, NOISE, ACK, NAK
        <3> QED BY <1>1, <1>2, <1>3, <2>1, <2>2, <3>1 DEF InOrder, Answered
    <2> QED BY <2>3, <2>5, <2>6
<1>7. CASE get_reply_eot
    <2>1. at = "reply_eot" /\ toHost # <<>> /\ toPi' = toPi /\ blk' = blk
        BY <1>7 DEF get_reply_eot
    <2>2. at' \in {"sent_true", "panic"}
        BY <1>7 DEF get_reply_eot
    <2> QED BY <1>1, <1>2, <1>3, <2>1, <2>2 DEF InOrder
<1>8. CASE get_byte_fails
    <2>1. at' = "panic" /\ UNCHANGED <<blk, toPi, toHost>> /\ at \in {"reply", "reply_eot"}
        BY <1>8 DEF get_byte_fails
    <2>2. toPi = <<>> \/ state = BOOTED
        BY <1>8 DEF get_byte_fails, Quiet
    <2>3. toPi = <<>> /\ blk - 1 <= Len(stored)
        <3>1. CASE at = "reply"
            <4>1. CASE Answered
                BY <1>3, <4>1 DEF Answered
            <4>2. CASE Midway
                <5>1. state \in 0 .. PACKET_SIZE - 1 /\ Len(toPi) = PACKET_SIZE - state
                    BY <4>2 DEF Midway
                <5>2. Len(toPi) # 0 /\ state # BOOTED
                    BY <1>3, <5>1 DEF BOOTED
                <5> QED BY <2>2, <5>2, EmptySeq
            <4> QED BY <3>1, <4>1, <4>2 DEF InOrder
        <3>2. CASE at = "reply_eot"
            BY <1>3, <2>2, <3>2 DEF InOrder, BOOTED
        <3> QED BY <2>1, <3>1, <3>2
    <2> QED BY <1>1, <1>2, <2>1, <2>3 DEF InOrder
<1> QED BY <1>4, <1>6, <1>7, <1>8, SendOrders DEF xmodem

(* The line, when it spoils no byte on its way to the pi. *)
LEMMA AnswerNoise ==
    ASSUME TypeInv, OneAnswer, NEW i \in DOMAIN toHost,
           toHost' \in {ReplaceAt(toHost, i, NOISE), RemoveAt(toHost, i)}
    PROVE  OneAnswer'
<1>1. PICK t \in Seq(Answers) : t = toHost /\ i \in DOMAIN t /\ Len(t) = 1 /\ i = 1
    BY EmptySeq, LenProperties DEF OneAnswer, TypeInv
<1>2. CASE toHost' = RemoveAt(t, i)
    <2>1. SubSeq(t, 1, 1 - 1) = <<>> /\ SubSeq(t, 1 + 1, Len(t)) = <<>>
        BY <1>1
    <2> QED BY <1>1, <1>2, <2>1 DEF RemoveAt, OneAnswer
<1>3. CASE toHost' = ReplaceAt(t, i, NOISE)
    <2>1. toHost' = [t EXCEPT ![1] = NOISE]
        BY <1>1, <1>3 DEF ReplaceAt
    <2>2. Len(toHost') = 1 /\ toHost'[1] = NOISE
        BY <1>1, <2>1, NoiseTypes DEF Answers
    <2> QED BY <2>2 DEF OneAnswer
<1> QED BY <1>1, <1>2, <1>3

LEMMA LineOrders ==
    ASSUME TypeInv, InOrder, timer_tick \/ Noise \/ Stopped \/ UNCHANGED vars,
           ~crossed', toPi' = toPi
    PROVE  InOrder'
<1>1. UNCHANGED <<program, at, blk, state, xstring, crc, block, stored>>
    BY DEF timer_tick, Noise, Stopped, vars, host, pi
<1>2. Same' /\ block' = (Len(stored') + 1) % BYTE /\ Len(stored') <= Len(program')
    BY <1>1 DEF InOrder, Same
<1>3. Ready => Ready'
    BY <1>1 DEF Ready
<1>4. at = "drain" \/ toHost' = toHost \/ Noise
    BY DEF timer_tick, Stopped, vars, TypeInv
<1>5. toHost = <<>> /\ at # "drain" => toHost' = <<>>
    <2>1. DOMAIN <<>> = {}
        OBVIOUS
    <2>2. toHost = <<>> /\ Noise => toHost' = toHost
        BY <2>1 DEF Noise
    <2> QED BY <1>4, <2>2
<1>6. OneAnswer /\ at # "drain" => OneAnswer'
    <2>1. Noise => toHost' = toHost \/ \E i \in DOMAIN toHost :
                      toHost' \in {ReplaceAt(toHost, i, NOISE), RemoveAt(toHost, i)}
        BY DEF Noise
    <2>2. toHost' = toHost => (OneAnswer => OneAnswer')
        BY DEF OneAnswer
    <2> QED BY <1>4, <2>1, <2>2, AnswerNoise
<1>7. Midway /\ at # "drain" => Midway'
    <2>1. Sent' = Sent
        BY <1>1 DEF Sent
    <2> QED BY <1>1, <1>5, <2>1 DEF Midway
<1>8. Answered /\ at # "drain" => Answered'
    BY <1>1, <1>6 DEF Answered
<1> QED BY <1>1, <1>2, <1>3, <1>5, <1>6, <1>7, <1>8 DEF InOrder

(* The line spoils nothing on its way to the pi. *)
HeardByPi == [][noise' # noise => toPi' = toPi]_vars

(* When every byte of the host reaches the pi and no NAK of the timer meets  *)
(* a block, the blocks are stored once and in order, whatever becomes of the *)
(* answers, and success is said of a program that is all there.  The block   *)
(* number wraps at 256 on both sides, and what the data look like does not   *)
(* matter: this holds for programs of any length and bytes.                  *)
THEOREM BlocksInOrderWhenHeard ==
    Spec /\ HeardByPi => [](~crossed => BlocksInOrder)
<1>1. Init => OrderInv
    <2> SUFFICES ASSUME Init PROVE InOrder
        BY DEF OrderInv
    <2>1. Len(program) \in Nat
        BY XmodemAssumption DEF Init
    <2>2. stored = <<>> /\ Len(stored) = 0 /\ (0 + 1) % 256 = 1
        BY DEF Init
    <2> QED BY <2>1, <2>2 DEF Init, InOrder, Same, Ready, BYTE
<1>2. TypeInv /\ OrderInv /\ [Next]_vars /\ [noise' # noise => toPi' = toPi]_vars => OrderInv'
    <2> SUFFICES ASSUME TypeInv, OrderInv, [Next]_vars, noise' # noise => toPi' = toPi, ~crossed'
                 PROVE  InOrder'
        BY DEF OrderInv, vars, host, pi, faults
    <2>1. crossed \in BOOLEAN
        BY DEF TypeInv
    <2>2. ~crossed
        BY <2>1 DEF Next, xmodem, drain, send_block, get_reply, get_reply_eot, get_byte_fails,
                    notmain, Begin, BlockNumber, Complement, Data, Checksum, Receive,
                    timer_tick, Noise, Stopped, vars, faults
    <2>3. InOrder
        BY <2>2 DEF OrderInv
    <2>4. timer_tick \/ Noise \/ Stopped \/ UNCHANGED vars => toPi' = toPi
        BY DEF timer_tick, Noise, Stopped, vars, TypeInv
    <2> QED BY <2>3, <2>4, HostOrders, PiOrders, LineOrders DEF Next
<1>3. TypeInv /\ OrderInv => (~crossed => BlocksInOrder)
    <2> SUFFICES ASSUME TypeInv, InOrder PROVE BlocksInOrder
        BY DEF OrderInv
    <2>1. program \in Seq(Block) /\ stored \in Seq(Block) /\ Len(stored) <= Len(program) /\ Same
        BY ProgramFacts DEF TypeInv, PiType, InOrder
    <2>2. PICK l \in Nat : l = Len(stored)
        BY <2>1
    <2>3. SubSeq(stored, 1, l) = SubSeq(program, 1, l)
        <3>1. SubSeq(stored, 1, l) = [i \in 1 .. l |-> stored[i]]
            BY <2>1, <2>2
        <3>2. SubSeq(program, 1, l) = [i \in 1 .. l |-> program[i]]
            BY <2>1, <2>2
        <3> QED BY <2>1, <2>2, <3>1, <3>2 DEF Same
    <2>4. IsPrefix(stored, program)
        BY <2>1, <2>2, <2>3 DEF IsPrefix
    <2>5. blk - 1 <= Len(stored)
        BY <2>1, ProgramFacts DEF InOrder, Midway, Answered, Ready, TypeInv, HostType, Ats
    <2>6. Len(stored) = Len(program) => stored = program
        BY <2>1, SeqEqual DEF Same
    <2> QED BY <2>4, <2>5, <2>6 DEF BlocksInOrder, InOrder
<1> QED BY <1>1, <1>2, <1>3, TypeInvAlways, PTL DEF Spec, HeardByPi
=============================================================================
