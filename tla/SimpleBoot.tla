----------------------------- MODULE SimpleBoot ----------------------------
(***************************************************************************)
(* The serial bootloader: my-install and simple_boot (unix-side) send a    *)
(* program over a UART to notmain (pi-side/bootloader.c), which copies it  *)
(* to ARMBASE and runs it.                                                 *)
(*                                                                         *)
(*    unix:  SOH  size  crc      ACK  word ... word  EOT                   *)
(*    pi:                   SOH crc(size) crc                ACK           *)
(*                                                                         *)
(* The line has no flow control (tty.c, line 53): a byte can be lost or    *)
(* changed, my-install can be killed or give up, the pi can be power       *)
(* cycled.  my-install can be run again at any time, whatever state the pi *)
(* is in.  Words are read and written whole; a lost byte shifts the        *)
(* framing of everything after it.                                         *)
(***************************************************************************)
EXTENDS Crc32

CONSTANTS
    Programs,     \* files my-install is asked to send: sequences of bytes
    Limit,        \* &__bss_start__ - ARMBASE, in bytes
    OwnText,      \* where notmain itself lies: 0x200000 - ARMBASE, in bytes
    Garbled,      \* the values a changed byte takes
    MaxFaults,    \* bound: faults in a behaviour ...
    MaxGarbled,   \* bound: ... of which bytes changed
    MaxLeft       \* bound: how much a run of my-install finds left over, in bytes

ASSUME BootAssumption ==
    /\ Programs \subseteq Seq(Byte)
    /\ \A p \in Programs : Len(p) < 65536      \* Size
    /\ Limit \in Nat /\ OwnText \in Nat /\ OwnText <= Limit /\ Limit < 65536
    /\ Garbled \subseteq Byte
    /\ MaxFaults \in Nat /\ MaxGarbled \in Nat /\ MaxLeft \in Nat

VARIABLES
    toPi, toUnix,   \* bytes on their way
    pi,             \* [pc, nBytes, fileHash, mem]; mem: words copied so far
    unix,           \* [pc, prog, sent]; sent: words of prog sent so far
    acked,          \* program of the last run of my-install that sent ACK
    loaded,         \* did the pi accept a program since my-install started?
    harmless,       \* was what this run found in the tty Harmless?
    accepted,       \* what the pi accepted so far
    faults, garbled \* faults so far

vars == <<toPi, toUnix, pi, unix, acked, loaded, harmless, accepted, faults, garbled>>

-----------------------------------------------------------------------------
SOH == <<120, 86, 52, 18>>      \* 0x12345678
BAD_CKSUM == Code(1)
BAD_START == Code(2)
BAD_END == Code(3)
TOO_BIG == Code(4)
ACK == Code(5)
NAK == Code(6)
EOT == Code(7)

(* unsigned n of a file shorter than 64KB; the value of such a word. *)
Size(n) == <<n % 256, n \div 256, 0, 0>>
Short(w) == w[3] = 0 /\ w[4] = 0
Value(w) == w[1] + 256 * w[2]

(* ARMBASE + nBytes is computed modulo 2^32. *)
Wraps(w) == w[4] = 255 /\ w[3] = 255 /\ w[2] >= 128

(* read_file pads the file with zeros to a multiple of four. *)
PaddedRoundedDown(p) == Len(p) \div 4      \* mutant
Padded(p) == (Len(p) + 3) \div 4
ProgWord(p, i) == [k \in 1 .. 4 |-> LET j == 4 * (i - 1) + k
                                    IN  IF j <= Len(p) THEN p[j] ELSE 0]

(* The first n bytes at ARMBASE. *)
Memory(mem, n) == [j \in 1 .. n |-> mem[(j + 3) \div 4][((j - 1) % 4) + 1]]

Off == [pc |-> "off", nBytes |-> Code(0), fileHash |-> Code(0), mem |-> <<>>]
Listening == {"SOH", "size", "hash", "ack", "copy", "EOT"}

Init ==
    /\ toPi = <<>> /\ toUnix = <<>>
    /\ pi = Off
    /\ unix = [pc |-> "idle", prog |-> <<>>, sent |-> 0]
    /\ acked = <<>> /\ loaded = FALSE /\ harmless = TRUE /\ accepted = {}
    /\ faults = 0 /\ garbled = 0

-----------------------------------------------------------------------------
(* The pi side.  uart_getc waits for ever; get_uint takes four bytes. *)
PiCanRead == pi.pc \in Listening /\ Len(toPi) >= 4
PiGets(pc) == pi.pc = pc /\ Len(toPi) >= 4
PiWord == SubSeq(toPi, 1, 4)
PiTakes == toPi' = SubSeq(toPi, 5, Len(toPi))

PiSends(s) == toUnix' = toUnix \o s

(* die sends a code and reboots. *)
die(code) == pi' = Off /\ PiSends(code)

(* uart_init clears the FIFOs and the program waits 500ms: what was sent
   before is gone, but for a word that is still on its way. *)
Boot ==
    /\ pi.pc = "off"
    /\ pi' = [pi EXCEPT !.pc = "SOH"]
    /\ \E k \in 0 .. 4 : k <= Len(toPi)
                         /\ toPi' = SubSeq(toPi, Len(toPi) - k + 1, Len(toPi))
    /\ UNCHANGED <<toUnix, unix, acked, loaded, harmless, accepted, faults, garbled>>

PiSOH ==
    /\ PiGets("SOH") /\ PiTakes
    /\ \/ PiWord # SOH /\ die(BAD_START)
       \/ /\ PiWord = SOH
          /\ pi' = [pi EXCEPT !.pc = "size"]
          /\ UNCHANGED toUnix
    /\ UNCHANGED <<unix, acked, loaded, harmless, accepted, faults, garbled>>

PiSize ==
    /\ PiGets("size") /\ PiTakes
    /\ pi' = [pi EXCEPT !.pc = "hash", !.nBytes = PiWord]
    /\ UNCHANGED <<toUnix, unix, acked, loaded, harmless, accepted, faults, garbled>>

TooBig(w) == ~Wraps(w) /\ (~Short(w) \/ Value(w) >= Limit)

PiHash ==
    /\ PiGets("hash") /\ PiTakes
    /\ \/ TooBig(pi.nBytes) /\ die(TOO_BIG)
       \/ /\ ~TooBig(pi.nBytes)
          /\ pi' = [pi EXCEPT !.pc = "ack", !.fileHash = PiWord]
          /\ PiSends(SOH \o crc32(pi.nBytes) \o PiWord)
    /\ UNCHANGED <<unix, acked, loaded, harmless, accepted, faults, garbled>>

(* Is there a word left to copy, after n words?  A mutant: whole words only. *)
CopiesWhole(n) == ~Short(pi.nBytes) \/ 4 * (n + 1) <= Value(pi.nBytes)
CopiesMore(n) == ~Short(pi.nBytes) \/ 4 * n < Value(pi.nBytes)
CopyPc(n) == IF CopiesMore(n) THEN "copy" ELSE "EOT"

(* A mutant: what is not an ACK is skipped. *)
SkipsUntilACK == pi.pc = "ack" /\ UNCHANGED <<pi, toUnix>>
RefusesWithACK == die(ACK)      \* mutant: the wrong code
RefusesNoACK == die(NAK)

PiACK ==
    /\ PiGets("ack") /\ PiTakes
    /\ \/ PiWord # ACK /\ RefusesNoACK
       \/ /\ PiWord = ACK
          /\ pi' = [pi EXCEPT !.pc = CopyPc(0)]
          /\ UNCHANGED toUnix
    /\ UNCHANGED <<unix, acked, loaded, harmless, accepted, faults, garbled>>

(* A word copied over notmain ends what can be said of it. *)
PiCopy ==
    LET n == Len(pi.mem)
    IN  /\ PiGets("copy") /\ PiTakes
        /\ \/ /\ 4 * n < OwnText
              /\ pi' = [pi EXCEPT !.pc = CopyPc(n + 1), !.mem = Append(@, PiWord)]
           \/ /\ 4 * n >= OwnText
              /\ pi' = [Off EXCEPT !.pc = "wild"]
        /\ UNCHANGED <<toUnix, unix, acked, loaded, harmless, accepted, faults, garbled>>

(* A mutant: the checksum is not looked at. *)
AcceptsAll == TRUE
Verified == crc32(Memory(pi.mem, Value(pi.nBytes))) = pi.fileHash

PiEOT ==
    /\ PiGets("EOT") /\ PiTakes
    /\ \/ PiWord # EOT /\ die(BAD_END) /\ UNCHANGED <<loaded, accepted>>
       \/ PiWord = EOT /\ ~Verified /\ die(BAD_CKSUM) /\ UNCHANGED <<loaded, accepted>>
       \/ /\ PiWord = EOT /\ Verified
          /\ pi' = [pi EXCEPT !.pc = "run"]
          /\ PiSends(ACK)
          /\ loaded' = TRUE
          /\ accepted' = accepted \cup {Memory(pi.mem, Value(pi.nBytes))}
    /\ UNCHANGED <<unix, acked, harmless, faults, garbled>>

(* The program ends in a reboot; what it prints is not modelled. *)
ProgramExits ==
    /\ pi.pc = "run"
    /\ pi' = Off
    /\ UNCHANGED <<toPi, toUnix, unix, acked, loaded, harmless, accepted, faults,
                   garbled>>

PiStep == PiSOH \/ PiSize \/ PiHash \/ PiACK \/ PiCopy \/ PiEOT

-----------------------------------------------------------------------------
(* The unix side.  What is sent to a pi that does not read overruns its
   FIFO: the last word is still on its way. *)
Sends(w) == toPi' = IF pi.pc \in Listening THEN toPi \o w ELSE w

Done == {"idle", "ok", "failed"}

(* What was sent to earlier runs passes for the answers to this one when it
   begins with an echo that an ACK follows: 120 is the first byte of SOH, 5
   that of ACK.  One byte of it may still be lost. *)
Harmless(u) ==
    \/ Len(u) = 0
    \/ Len(u) >= 2 /\ 120 \notin {u[1], u[2]}
    \/ /\ Len(u) >= 12 /\ u[1] = 120 /\ u[2] # 120
       /\ \A i \in {13, 14} : i <= Len(u) => u[i] # 5

(* my-install starts.  The loop that would drain the tty is under #if 0, and
   TCSANOW does not flush: it is up to the host's driver whether what was sent
   to earlier runs is still there.  Bounds: it is, if it is no longer than
   MaxLeft and the pi has read all that was sent. *)
Start(p) ==
    /\ unix.pc \in Done
    /\ unix' = [pc |-> "SOH", prog |-> p, sent |-> 0]
    /\ \/ toUnix' = <<>>
       \/ Len(toUnix) <= MaxLeft /\ ~PiCanRead /\ UNCHANGED toUnix
    /\ harmless' = Harmless(toUnix')
    /\ loaded' = FALSE
    /\ UNCHANGED <<toPi, pi, acked, accepted, faults, garbled>>

Send(pc, w, next) ==
    /\ unix.pc = pc
    /\ Sends(w)
    /\ unix' = [unix EXCEPT !.pc = next]
    /\ UNCHANGED <<toUnix, pi, loaded, harmless, accepted, faults, garbled>>

(* A mutant: the word is read and not compared. *)
ExpectAny(pc, w, next) ==
    /\ unix.pc = pc /\ Len(toUnix) >= 4
    /\ toUnix' = SubSeq(toUnix, 5, Len(toUnix))
    /\ unix' = [unix EXCEPT !.pc = next]
    /\ UNCHANGED <<toPi, pi, acked, loaded, harmless, accepted, faults, garbled>>

(* expect: any other word ends the run. *)
Expect(pc, w, next) ==
    /\ unix.pc = pc /\ Len(toUnix) >= 4
    /\ toUnix' = SubSeq(toUnix, 5, Len(toUnix))
    /\ unix' = [unix EXCEPT !.pc = IF SubSeq(toUnix, 1, 4) = w THEN next ELSE "failed"]
    /\ UNCHANGED <<toPi, pi, acked, loaded, harmless, accepted, faults, garbled>>

SendPc(n) == IF n < Padded(unix.prog) THEN "data" ELSE "EOT"

SendACK ==
    /\ Send("ACK", ACK, SendPc(0))
    /\ acked' = unix.prog

SendData ==
    /\ unix.pc = "data"
    /\ Sends(ProgWord(unix.prog, unix.sent + 1))
    /\ unix' = [unix EXCEPT !.pc = SendPc(unix.sent + 1), !.sent = @ + 1]
    /\ UNCHANGED <<toUnix, pi, acked, loaded, harmless, accepted, faults, garbled>>

simple_boot ==
    \/ Send("SOH", SOH, "size") /\ UNCHANGED acked
    \/ Send("size", Size(Len(unix.prog)), "hash") /\ UNCHANGED acked
    \/ Send("hash", crc32(unix.prog), "xSOH") /\ UNCHANGED acked
    \/ Expect("xSOH", SOH, "xsize")
    \/ Expect("xsize", crc32(Size(Len(unix.prog))), "xhash")
    \/ Expect("xhash", crc32(unix.prog), "ACK")
    \/ SendACK
    \/ SendData
    \/ Send("EOT", EOT, "xACK") /\ UNCHANGED acked
    \/ Expect("xACK", ACK, "ok")

(* A read that finds nothing for ten seconds (VMIN 0, VTIME 100) ends the
   run: the pi is not about to send. *)
PiSilent == ~PiCanRead
Waiting == {"xSOH", "xsize", "xhash", "xACK"}

BlocksForEver == FALSE /\ UNCHANGED vars      \* mutant: VMIN 1
Timeout ==
    /\ unix.pc \in Waiting /\ Len(toUnix) < 4 /\ PiSilent
    /\ unix' = [unix EXCEPT !.pc = "failed"]
    /\ toUnix' = <<>>
    /\ UNCHANGED <<toPi, pi, acked, loaded, harmless, accepted, faults, garbled>>

-----------------------------------------------------------------------------
(* What can go wrong. *)
Without(s, i) == SubSeq(s, 1, i - 1) \o SubSeq(s, i + 1, Len(s))

(* Nobody looks at a byte before it is in the first word of its queue. *)
FirstWord(q) == {i \in 1 .. Len(q) : i <= 4}

Lose ==
    /\ \/ \E i \in FirstWord(toPi) : toPi' = Without(toPi, i) /\ UNCHANGED toUnix
       \/ \E i \in FirstWord(toUnix) : toUnix' = Without(toUnix, i) /\ UNCHANGED toPi
    /\ UNCHANGED <<pi, unix, garbled>>

Garble ==
    /\ garbled < MaxGarbled /\ garbled' = garbled + 1
    /\ \E b \in Garbled :
         \/ \E i \in FirstWord(toPi) :
               toPi' = [toPi EXCEPT ![i] = b] /\ UNCHANGED toUnix
         \/ \E i \in FirstWord(toUnix) :
               toUnix' = [toUnix EXCEPT ![i] = b] /\ UNCHANGED toPi
    /\ UNCHANGED <<pi, unix>>

(* my-install is killed, or reads too early. *)
Kill ==
    /\ unix.pc \notin Done
    /\ unix' = [unix EXCEPT !.pc = "failed"]
    /\ UNCHANGED <<toPi, toUnix, pi, garbled>>

PowerCycle ==
    /\ pi.pc # "off"
    /\ pi' = Off
    /\ UNCHANGED <<toPi, toUnix, unix, garbled>>

Fault ==
    /\ faults < MaxFaults /\ faults' = faults + 1
    /\ Lose \/ Garble \/ Kill \/ PowerCycle
    /\ UNCHANGED <<acked, loaded, harmless, accepted>>

Next ==
    \/ Boot \/ PiStep \/ ProgramExits
    \/ \E p \in Programs : Start(p)
    \/ simple_boot \/ Timeout
    \/ Fault

Spec == Init /\ [][Next]_vars

(* Each side keeps executing, a pi that is off is switched on, and whoever
   runs my-install runs it again when it has ended: WF_vars of PiStep,
   simple_boot, Boot and Start.  What enables them and what tells their steps
   from others is written out, since TLC would recompute every checksum to find
   it; only a Boot ends "off", and only a Start ends Done. *)
PiReads == PiCanRead /\ Len(toPi') = Len(toPi) - 4
UnixCanRun == unix.pc \notin Done /\ (unix.pc \in Waiting => Len(toUnix) >= 4)
UnixRuns == UnixCanRun /\ unix' # unix /\ faults' = faults

FairSpec ==
    /\ Spec
    /\ []<>~PiCanRead \/ []<><<PiReads>>_vars
    /\ []<>~UnixCanRun \/ []<><<UnixRuns>>_vars
    /\ []<>(pi.pc # "off") /\ []<>(unix.pc \notin Done)
    /\ WF_vars(Timeout)

-----------------------------------------------------------------------------
(* notmain copies no word past the one that holds the last byte. *)
BootTypeOK ==
    /\ toPi \in Seq(Byte) /\ toUnix \in Seq(Byte)
    /\ pi.pc \in Listening \cup {"off", "run", "wild"}
    /\ pi.nBytes \in Word /\ pi.fileHash \in Word
    /\ pi.mem \in Seq(Word)
    /\ pi.pc \in {"EOT", "run"} => Len(pi.mem) = (Value(pi.nBytes) + 3) \div 4
    /\ unix.pc \in Done \cup Waiting \cup {"SOH", "size", "hash", "ACK", "data", "EOT"}
    /\ unix.prog \in Programs \cup {<<>>}
    /\ unix.sent \in 0 .. Padded(unix.prog)
    /\ acked \in Programs \cup {<<>>} /\ loaded \in BOOLEAN
    /\ harmless \in BOOLEAN /\ accepted \subseteq Seq(Byte)
    /\ faults \in 0 .. MaxFaults /\ garbled \in 0 .. MaxGarbled

(* A session, word by word and byte by byte. *)
SessionWord(p, i) ==
    IF i = 1 THEN SOH ELSE IF i = 2 THEN Size(Len(p)) ELSE IF i = 3 THEN crc32(p)
    ELSE IF i = 4 THEN ACK ELSE IF i <= 4 + Padded(p) THEN ProgWord(p, i - 4) ELSE EOT
SessionByte(p, j) == SessionWord(p, (j + 3) \div 4)[((j - 1) % 4) + 1]

(* The bytes of SOH are nowhere in a session with p but at its start. *)
Plain(p) ==
    \A i \in 1 .. 4 * (4 + Padded(p)) : \E k \in 1 .. 4 : SessionByte(p, i + k) # SOH[k]

(* What notmain branches to is, byte for byte, the file of the last
   my-install that saw its echo and sent ACK: not a shifted, shortened or
   changed one, nor one put together from two runs.  This is about files that
   are Plain: a pi that starts while a file is being sent that holds a session
   of its own (SOH, size, checksum, ACK, data, EOT) takes it for one. *)
RunsWhatWasSent ==
    pi.pc = "run" => Memory(pi.mem, Value(pi.nBytes)) = acked

(* my-install reports success only when notmain accepted its program during
   this run, unless it found the echo and the ACK of an earlier run in the tty
   (Harmless): anything else left over, such as an echo, an error code or the
   second half of an answer, is not taken for one.  (A changed byte can turn a
   NAK into an ACK.) *)
SuccessMeansLoaded ==
    (unix.pc = "ok" /\ garbled = 0 /\ harmless) => loaded /\ acked = unix.prog

(* Whatever was left over: when my-install reports success, the pi accepted
   this file in this run or in an earlier one. *)
SuccessMeansAccepted ==
    (unix.pc = "ok" /\ garbled = 0) => unix.prog \in accepted

(* Every run of my-install ends, with success or with an error (VTIME of
   tty.c): it never waits on a pi that waits on it. *)
EverySessionEnds == unix.pc \notin Done ~> unix.pc \in Done

(* notmain waits for ever inside a transfer that was abandoned; the next runs
   of my-install get it out. *)
PiLeavesTransfer ==
    pi.pc \in Listening \ {"SOH"} ~> pi.pc \notin Listening \ {"SOH"}

(* my-install started on a pi that waits for it delivers, whatever happened
   before, when nothing more goes wrong and the program leaves room for
   notmain. *)
FreshStart ==
    /\ unix.pc = "SOH" /\ pi.pc = "SOH" /\ toPi = <<>> /\ toUnix = <<>>
    /\ 4 * Padded(unix.prog) <= OwnText /\ Len(unix.prog) < Limit
FreshDelivers == (FreshStart /\ faults = MaxFaults) ~> (unix.pc = "ok" /\ loaded)
=============================================================================
