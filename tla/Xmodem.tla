------------------------------- MODULE Xmodem ------------------------------
(***************************************************************************)
(* The sample bootloader: notmain of pi-xmodem.c, a byte at a time, and    *)
(* xmodem of unix-xmodem.c, over a serial line that keeps the order of     *)
(* bytes and may lose or garble a few.                                     *)
(*                                                                         *)
(* A read of the host may time out when nothing is on its way to it.       *)
(* Whether it does before the next NAK of the pi, which sends one every    *)
(* four seconds for ever, is for the set-up of the tty, which is not part  *)
(* of the sample: with the ten seconds of tty.c it never does, so that     *)
(* drain need not end, and no liveness is claimed.                         *)
(***************************************************************************)
EXTENDS Integers, Sequences, SequencesExt

CONSTANTS
    Programs,    \* what may be sent: sequences of blocks of bytes
    PAYLOAD_SZ,  \* data bytes of a packet (128)
    MaxNoise,    \* bound: bytes lost or garbled
    MaxQueue     \* bound: the timer adds a NAK to fewer bytes than this

SOH == 1
ACK == 6
NAK == 21
EOT == 4
NOISE == 255     \* what a garbled byte becomes
BYTE == 256
BOOTED == -1

ASSUME XmodemAssumption ==
    /\ PAYLOAD_SZ \in Nat /\ MaxNoise \in Nat /\ MaxQueue \in Nat
    /\ Programs \subseteq Seq([1 .. PAYLOAD_SZ -> 0 .. BYTE - 1])

VARIABLES
    program,     \* the blocks the host sends
    at, blk,     \* the host: where it is, and the number of its block
    toPi, toHost,\* bytes on their way
    state,       \* the pi: index of the next byte in its packet, or BOOTED
    xstring, crc, block,
    stored,      \* blocks the pi has copied to ARMBASE and after
    noise,       \* bytes lost or garbled so far
    crossed      \* has the timer fired while the host was not draining?

host == <<program, at, blk>>
pi == <<state, xstring, crc, block, stored>>
faults == <<noise, crossed>>
vars == <<host, toPi, toHost, pi, faults>>

PACKET_SIZE == PAYLOAD_SZ + 4
Plus(a, b) == (a + b) % BYTE

Init ==
    /\ program \in Programs /\ at = "drain" /\ blk = 1
    /\ toPi = <<>> /\ toHost = <<>>
    /\ state = 0 /\ xstring = [i \in 0 .. PACKET_SIZE - 1 |-> 0]
    /\ crc = 0 /\ block = 1 /\ stored = <<>>
    /\ noise = 0 /\ crossed = FALSE

-----------------------------------------------------------------------------
(* The host. *)
Quiet == toPi = <<>> \/ state = BOOTED   \* no answer is on its way
cksum(data) ==
    LET sum[n \in 0 .. PAYLOAD_SZ] == IF n = 0 THEN 0 ELSE Plus(sum[n - 1], data[n])
    IN  sum[PAYLOAD_SZ]
Packet(b, data) == <<SOH, b % BYTE, (255 - b) % BYTE>> \o data \o <<cksum(data)>>

(* drain throws away all that comes, until a read times out with nothing
   received; then the block is sent (the first, or one that got a NAK). *)
drain ==
    /\ at = "drain"
    /\ \/ /\ toHost # <<>> /\ toHost' = Tail(toHost)
          /\ UNCHANGED <<at, toPi>>
       \/ /\ toHost = <<>> /\ Quiet
          /\ at' = "send" /\ UNCHANGED <<toPi, toHost>>
    /\ UNCHANGED <<program, blk, pi, faults>>

send_block ==
    /\ at = "send"
    /\ \/ /\ blk <= Len(program)
          /\ toPi' = toPi \o Packet(blk, program[blk]) /\ at' = "reply"
       \/ /\ blk > Len(program)
          /\ toPi' = Append(toPi, EOT) /\ at' = "reply_eot"
    /\ UNCHANGED <<program, blk, toHost, pi, faults>>

get_reply ==
    /\ at = "reply" /\ toHost # <<>> /\ toHost' = Tail(toHost)
    /\ at' = CASE Head(toHost) = ACK -> "send" [] Head(toHost) = NAK -> "drain"
               [] OTHER -> "panic"
    /\ blk' = IF Head(toHost) = ACK THEN blk + 1 ELSE blk
    /\ UNCHANGED <<program, toPi, pi, faults>>

get_reply_eot ==
    /\ at = "reply_eot" /\ toHost # <<>> /\ toHost' = Tail(toHost)
    /\ at' = IF Head(toHost) = ACK THEN "sent_true" ELSE "panic"
    /\ UNCHANGED <<program, blk, toPi, pi, faults>>

(* get_byte: a read that times out, when nothing is on its way. *)
get_byte_fails ==
    /\ at \in {"reply", "reply_eot"} /\ toHost = <<>>
    /\ Quiet
    /\ at' = "panic"
    /\ UNCHANGED <<program, blk, toPi, toHost, pi, faults>>

-----------------------------------------------------------------------------
(* The pi.  A byte arrives; one disjunct per case of the switch. *)
uart_send(b) == toHost' = Append(toHost, b)
Byte == Head(toPi)
Receive ==
    /\ state # BOOTED /\ toPi # <<>> /\ toPi' = Tail(toPi)
    /\ xstring' = [xstring EXCEPT ![state] = Byte]
    /\ UNCHANGED <<host, faults>>

More(c) == crc' = c /\ state' = state + 1 /\ UNCHANGED <<block, stored, toHost>>
Refuse == uart_send(NAK) /\ state' = 0 /\ UNCHANGED <<crc, block, stored>>

Begin ==
    /\ Receive /\ state = 0
    /\ \/ /\ Byte = EOT
          /\ uart_send(ACK) /\ state' = BOOTED /\ UNCHANGED <<crc, block, stored>>
       \/ Byte = SOH /\ More(SOH)
       \/ Byte \notin {EOT, SOH} /\ Refuse

(* A mutant accepts any block number. *)
BlockNumberAny == Receive /\ state = 1 /\ More(crc + Byte)
BlockNumber ==
    /\ Receive /\ state = 1
    /\ \/ Byte = block /\ More(crc + Byte)
       \/ Byte # block /\ Refuse

Complement ==
    /\ Receive /\ state = 2
    /\ \/ Byte = 255 - xstring[1] /\ More(crc + Byte)
       \/ Byte # 255 - xstring[1] /\ Refuse

(* A mutant takes the checksum for data. *)
DataToTheEnd == Receive /\ state \in 3 .. PACKET_SIZE - 1 /\ More(crc + Byte)
Data == Receive /\ state \in 3 .. PACKET_SIZE - 2 /\ More(crc + Byte)

Copied == [i \in 1 .. PAYLOAD_SZ |-> xstring[i + 2]]
Checksum ==
    /\ Receive /\ state = PACKET_SIZE - 1
    /\ crc' = crc % BYTE /\ state' = 0
    /\ \/ /\ Byte = crc % BYTE
          /\ stored' = Append(stored, Copied)
          /\ uart_send(ACK) /\ block' = (block + 1) % BYTE
       \/ /\ Byte # crc % BYTE
          /\ uart_send(NAK) /\ UNCHANGED <<block, stored>>

notmain == Begin \/ BlockNumber \/ Complement \/ Data \/ Checksum

(* Four seconds without a byte, and every four seconds after that; the
   packet it is in is not given up. *)
timer_tick ==
    /\ state # BOOTED /\ toPi = <<>> /\ Len(toHost) < MaxQueue
    /\ uart_send(NAK)
    /\ crossed' = (crossed \/ at # "drain")
    /\ UNCHANGED <<host, toPi, pi, noise>>

-----------------------------------------------------------------------------
(* The line garbles a byte or loses it. *)
Noise ==
    /\ noise < MaxNoise /\ noise' = noise + 1
    /\ \/ \E i \in DOMAIN toPi :
            /\ toPi' \in {ReplaceAt(toPi, i, NOISE), RemoveAt(toPi, i)}
            /\ UNCHANGED toHost
       \/ \E i \in DOMAIN toHost :
            /\ toHost' \in {ReplaceAt(toHost, i, NOISE), RemoveAt(toHost, i)}
            /\ UNCHANGED toPi
    /\ UNCHANGED <<host, pi, crossed>>

Over == at \in {"sent_true", "panic"}
Stopped == Over /\ UNCHANGED vars

xmodem == drain \/ send_block \/ get_reply \/ get_reply_eot \/ get_byte_fails
Next == xmodem \/ notmain \/ timer_tick \/ Noise \/ Stopped

Spec == Init /\ [][Next]_vars

-----------------------------------------------------------------------------
(* The pi's index and sum stay within a packet, the bytes within a byte. *)
XmodemTypeOK ==
    /\ at \in {"drain", "send", "reply", "reply_eot", "sent_true", "panic"}
    /\ blk \in 1 .. Len(program) + 1 /\ block \in 0 .. BYTE - 1
    /\ state \in 0 .. PACKET_SIZE - 1 \cup {BOOTED}
    /\ crc \in 0 .. PACKET_SIZE * BYTE
    /\ toPi \in Seq(0 .. BYTE - 1) /\ toHost \in Seq({ACK, NAK, NOISE})

(* What the pi has copied is the beginning of the program, each block once,
   and all of it that the host has had acknowledged; so "sent True" is said
   of a program that is in memory.  The sum is one byte: where the line loses
   bytes this is true of programs in which no shifted packet has a sum that
   fits.  For the one block <<100, 57>> it is false: the 57 of the first try
   is lost, so the sum 157 is taken for data; after two NAKs of the timer
   the host sends the packet again, and its SOH is taken for the sum, which
   it equals.  The pi has then stored <<100, 157>>. *)
BlocksInOrder ==
    /\ IsPrefix(stored, program)
    /\ blk - 1 <= Len(stored)
    /\ at = "sent_true" => stored = program
=============================================================================
