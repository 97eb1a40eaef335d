------------------------------- MODULE Replay ------------------------------
(***************************************************************************)
(* The replay tool.  It runs a program, the unix side of the bootloader,   *)
(* as a child whose tty is one end of a socket, plays the pi's half of a   *)
(* recorded session to it, and compares what the child writes with the     *)
(* record: N times as recorded (check_success), then N times with each     *)
(* word the child reads changed in turn (check_crashes).                   *)
(*                                                                         *)
(* Tool and child are processes of their own.  The child writes a word as  *)
(* four bytes; the tool writes a word at once.  A select that waits two    *)
(* seconds ends without data only when the child itself waits for data.    *)
(***************************************************************************)
EXTENDS Echo, Integers, FiniteSets, SequencesExt

CONSTANTS
    Program,     \* the data words my-install sends
    Traces,      \* files the tool is given: sequences of [op, cnt, val]
    Children,    \* what the child does with a word it does not expect
    Resets,      \* may closing a socket with unread data reset the peer?
    N            \* times each check is run

Line == [op : {"READ8", "READ32", "WRITE32"}, cnt : Nat, val : Symbol]
ASSUME ReplayAssumption ==
    /\ {"SOH", "size", "hash", "crc", "ACK", "EOT", "bogus"} \subseteq Symbol
    /\ Program \in Seq(Symbol) /\ Traces \subseteq Seq(Line)
    /\ Children \subseteq {"checks", "ignores", "aborts", "quits"}
    /\ Resets \subseteq BOOLEAN /\ N \in Nat \ {0}

VARIABLES
    trace,       \* the file on the tool's standard input
    log,         \* replay_log: the entries read so far
    tool,        \* [pc, n, bad, can, temp, got, round]
    child,       \* [kind, resets, pc, i, sent, wrote, rec, echoed, status, reset]
    toChild,     \* words and characters the tool has written
    toTool,      \* bytes the child has written
    tried        \* words corrupted, with success, in this check_crashes

vars == <<trace, log, tool, child, toChild, toTool, tried>>

-----------------------------------------------------------------------------
(* simple_boot, as the words it puts and the words it expects. *)
Put(w) == [op |-> "WRITE32", val |-> w]
Get(w) == [op |-> "READ32", val |-> w]

Script ==
    << Put("SOH"), Put("size"), Put("hash"), Get("SOH"), Get("crc"), Get("hash"),
       Put("ACK") >>
    \o [k \in 1 .. Len(Program) |-> Put(Program[k])]
    \o << Put("EOT"), Get("ACK") >>

(* What trace_read32, trace_write32 and trace_read_bytes print of a session
   in which the pi then prints output. *)
Recorded(output) ==
    LET ops == Script \o [k \in 1 .. Len(output) |-> [op |-> "READ8", val |-> output[k]]]
    IN  [k \in DOMAIN ops |-> [op |-> ops[k].op, cnt |-> k - 1, val |-> ops[k].val]]

(* Four bytes of a word; "?" is a byte of temp nobody wrote. *)
Bytes(w) == [k \in 1 .. 4 |-> <<w, k>>]
Unset == [k \in 1 .. 4 |-> <<"?", k>>]
Bogus == "bogus"

-----------------------------------------------------------------------------
Idle == [pc |-> "parse", n |-> 0, bad |-> -1, can |-> FALSE, temp |-> Unset,
         got |-> 0, round |-> 1]

NoChild(kind, resets) ==
    [kind |-> kind, resets |-> resets, pc |-> "none", i |-> 1, sent |-> 0, wrote |-> <<>>,
     rec |-> Fresh, echoed |-> <<>>, status |-> 0, reset |-> FALSE]

Init ==
    /\ trace \in Traces /\ log = <<>> /\ tool = Idle /\ tried = {}
    /\ child \in {NoChild(kind, r) : kind \in Children, r \in Resets}
    /\ toChild = <<>> /\ toTool = <<>>

Fails == tool' = [tool EXCEPT !.pc = "exit1"]

Q_append(e) == log' = Append(log, e)

(* A line at a time.  The lines must be numbered from 0, without a gap. *)
read_input ==
    /\ tool.pc = "parse"
    /\ \/ /\ Len(log) = Len(trace)
          /\ tool' = [tool EXCEPT !.pc = "spawn"] /\ UNCHANGED log
       \/ /\ Len(log) < Len(trace)
          /\ LET e == trace[Len(log) + 1]
             IN  \/ e.cnt = Len(log) /\ Q_append(e) /\ UNCHANGED tool
                 \/ e.cnt # Len(log) /\ Fails /\ UNCHANGED log
    /\ UNCHANGED <<trace, child, toChild, toTool, tried>>

-----------------------------------------------------------------------------
(* The child.  It is never interrupted, but a program under test may be one
   that gives up half-way with exit code 0. *)
HungUp == tool.pc \in {"exit0", "exit1", "killed"}
Running == child.pc \in {"boot", "echo"}
Dead == child.pc \in {"exited", "signalled"}

(* The child ends with the bytes in rest unread. *)
Dies(pc, status, rest) ==
    /\ child' = [child EXCEPT !.pc = pc, !.status = status,
                              !.reset = child.resets /\ rest # <<>>]
    /\ toChild' = <<>>

At(op) == child.pc = "boot" /\ Script[child.i].op = op
Advance == IF child.i = Len(Script) THEN "echo" ELSE "boot"

put_uint ==
    /\ At("WRITE32") /\ ~HungUp
    /\ toTool' = Append(toTool, Bytes(Script[child.i].val)[child.sent + 1])
    /\ child' = IF child.sent = 3
                THEN [child EXCEPT !.sent = 0, !.i = @ + 1,
                                   !.wrote = Append(@, Script[child.i].val)]
                ELSE [child EXCEPT !.sent = @ + 1]
    /\ UNCHANGED <<trace, log, tool, toChild, tried>>

expect ==
    /\ At("READ32") /\ toChild # <<>>
    /\ LET ok == Head(toChild) = Script[child.i].val
       IN  \/ /\ ok \/ child.kind = "ignores"
              /\ child' = [child EXCEPT !.i = @ + 1, !.pc = Advance]
              /\ toChild' = Tail(toChild)
           \/ /\ ~ok /\ child.kind \in {"checks", "quits"}
              /\ Dies("exited", 1, Tail(toChild))
           \/ /\ ~ok /\ child.kind = "aborts"
              /\ Dies("signalled", 0, Tail(toChild))
    /\ UNCHANGED <<trace, log, tool, toTool, tried>>

(* A read of the echo takes all that has arrived; what is printed is a C
   string. *)
Printed(piece) ==
    LET k == SelectInSeq(piece, LAMBDA c : c = NUL)
    IN  IF k = 0 THEN piece ELSE SubSeq(piece, 1, k - 1)
echo ==
    /\ child.pc = "echo" /\ toChild # <<>>
    /\ LET r == done(child.rec, toChild)
       IN  child' = [child EXCEPT !.rec = r, !.echoed = @ \o Printed(toChild),
                                  !.pc = IF r.seen THEN "exited" ELSE "echo"]
    /\ toChild' = <<>>
    /\ UNCHANGED <<trace, log, tool, toTool, tried>>

quit ==
    /\ child.kind = "quits" /\ Running
    /\ Dies("exited", 0, toChild)
    /\ UNCHANGED <<trace, log, tool, toTool, tried>>

(* The tool has exited: get_byte reads an end of file, a write fails.  echo
   does not end (its fstat succeeds) and keeps reading. *)
LosesTool ==
    /\ HungUp /\ child.pc = "boot" /\ (At("READ32") => toChild = <<>>)
    /\ Dies("exited", 1, <<>>)
    /\ UNCHANGED <<trace, log, tool, toTool, tried>>

Child == put_uint \/ expect \/ echo \/ LosesTool
-----------------------------------------------------------------------------
(* The tool: mk_endpoint_proc.  temp is an automatic variable that nothing
   initialises: it starts with any word. *)
mk_endpoint_proc ==
    /\ tool.pc = "spawn"
    /\ child' = [NoChild(child.kind, child.resets) EXCEPT !.pc = "boot"]
    /\ toChild' = <<>> /\ toTool' = <<>>
    /\ \E temp \in {tool.temp, Bytes("SOH")} :
         tool' = [tool EXCEPT !.pc = "op", !.n = 1, !.can = FALSE, !.got = 0, !.temp = temp]
    /\ UNCHANGED <<trace, log, tried>>

InLog == tool.pc = "op" /\ tool.n <= Len(log)
Entry == log[tool.n]

(* SIGPIPE has its default action until check_crashes sets it to be ignored. *)
IgnoresSIGPIPE == tool.round > N

(* corrupt32: any other word.  can_fail_p is set before the word is used. *)
Corrupted == Entry.cnt = tool.bad
CanFailNext == tool.can      \* mutant: set after the word is used
CanFail == tool.can \/ Corrupted
Value == IF Corrupted THEN Bogus ELSE Entry.val
NextOpKeepsGot == [tool EXCEPT !.n = @ + 1, !.can = CanFail]      \* mutant
NextOp == [tool EXCEPT !.n = @ + 1, !.can = CanFail, !.got = 0]

(* A mutant: no write is looked at. *)
write_unchecked ==
    /\ InLog /\ Entry.op \in {"READ8", "READ32"} /\ tool' = NextOp
    /\ IF Dead THEN UNCHANGED toChild ELSE toChild' = Append(toChild, Value)
    /\ UNCHANGED <<trace, log, child, toTool, tried>>

write_exact ==
    /\ InLog /\ Entry.op \in {"READ8", "READ32"}
    /\ \/ ~Dead /\ toChild' = Append(toChild, Value) /\ tool' = NextOp
       \/ Dead /\ ~IgnoresSIGPIPE /\ tool' = [tool EXCEPT !.pc = "killed"] /\ UNCHANGED toChild
       \/ Dead /\ IgnoresSIGPIPE /\ CanFail /\ tool' = NextOp /\ UNCHANGED toChild
       \/ Dead /\ IgnoresSIGPIPE /\ ~CanFail /\ Fails /\ UNCHANGED toChild
    /\ UNCHANGED <<trace, log, child, toTool, tried>>

(* After read_exact: temp is compared, however many of its bytes were read. *)
Compare(temp) ==
    tool' = IF temp = Bytes(Entry.val) THEN [NextOp EXCEPT !.temp = temp]
            ELSE [tool EXCEPT !.temp = temp, !.got = 0,
                              !.pc = IF tool.can THEN "error" ELSE "exit1"]

Reading == InLog /\ Entry.op = "WRITE32"

read_exact ==
    /\ Reading /\ toTool # <<>>
    /\ LET k == IF Len(toTool) < 4 - tool.got THEN Len(toTool) ELSE 4 - tool.got
           temp == [j \in 1 .. 4 |-> IF j \in tool.got + 1 .. tool.got + k
                                     THEN toTool[j - tool.got] ELSE tool.temp[j]]
       IN  /\ toTool' = SubSeq(toTool, k + 1, Len(toTool))
           /\ \/ tool.got + k = 4 /\ Compare(temp)
              \/ /\ tool.got + k < 4
                 /\ tool' = [tool EXCEPT !.temp = temp, !.got = @ + k]
    /\ UNCHANGED <<trace, log, child, toChild, tried>>

(* The child is gone: read returns 0, or fails when the socket was reset; in
   that case the tool gives up, whether or not the child may fail. *)
ReadEOF ==
    /\ Reading /\ toTool = <<>> /\ Dead
    /\ \/ child.reset /\ Fails
       \/ ~child.reset /\ Compare(tool.temp)
    /\ UNCHANGED <<trace, log, child, toChild, toTool, tried>>

Blocked == Running /\ toChild = <<>> /\ ~At("WRITE32")

(* Two seconds without data.  If read was not called yet its result, which is
   tested next, is not initialised. *)
ReadTimeout ==
    /\ Reading /\ toTool = <<>> /\ Blocked
    /\ Compare(tool.temp) \/ (tool.got = 0 /\ Fails)
    /\ UNCHANGED <<trace, log, child, toChild, toTool, tried>>

-----------------------------------------------------------------------------
(* The log is used up. *)
Finished == tool.pc = "op" /\ tool.n > Len(log)

(* A mutant: read without select. *)
is_eof_blocking ==
    /\ Finished /\ (tool.can \/ toTool # <<>> \/ Dead)
    /\ tool' = [tool EXCEPT !.pc = IF tool.can THEN "error" ELSE "wait"]
    /\ UNCHANGED <<trace, log, child, toChild, toTool, tried>>

(* is_eof: any data, a reset, or two seconds of nothing end the tool. *)
is_eof ==
    /\ Finished
    /\ \/ tool.can /\ tool' = [tool EXCEPT !.pc = "error"]
       \/ ~tool.can /\ toTool # <<>> /\ Fails
       \/ /\ ~tool.can /\ toTool = <<>> /\ Dead
          /\ IF child.reset THEN Fails ELSE tool' = [tool EXCEPT !.pc = "wait"]
       \/ ~tool.can /\ toTool = <<>> /\ Blocked /\ Fails
    /\ UNCHANGED <<trace, log, child, toChild, toTool, tried>>

(* WEXITSTATUS of a process that a signal ended is the high byte of a status
   in which that byte is 0.  A mutant does what the comment says. *)
ExitedOrMinusOne == IF child.pc = "signalled" THEN -1 ELSE child.status
WEXITSTATUS == IF child.pc = "signalled" THEN 0 ELSE child.status

(* The words check_crashes corrupts: what is read before the first READ8. *)
ProtocolReads ==
    {log[k].cnt : k \in {j \in DOMAIN log : /\ log[j].op = "READ32"
                                            /\ \A h \in 1 .. j : log[h].op # "READ8"}}

Least(S) == CHOOSE x \in S : \A y \in S : x <= y
LaterButOne == {c \in ProtocolReads : c > tool.bad + 1}      \* mutant
Later == {c \in ProtocolReads : c > tool.bad}

(* The next run: the next word of this round, or the next round.  A round of
   check_crashes without a word to corrupt has no run. *)
NextRun ==
    IF tool.round > N /\ Later # {}
    THEN [tool EXCEPT !.pc = "spawn", !.bad = Least(Later)]
    ELSE IF tool.round = 2 * N \/ (tool.round = N /\ ProtocolReads = {})
    THEN [tool EXCEPT !.pc = "exit0"]
    ELSE [tool EXCEPT !.pc = "spawn", !.round = @ + 1,
                      !.bad = IF tool.round >= N THEN Least(ProtocolReads) ELSE -1]

Tried == IF tool.bad = -1 THEN {}
         ELSE {c \in tried : c < tool.bad} \cup {tool.bad}

(* A mutant: after an error any exit code will do. *)
OK_any == WEXITSTATUS = 0 \/ tool.pc = "error"
OK == (WEXITSTATUS = 0) = (tool.pc = "wait")

(* proc_exit_code waits for the child, however long that takes; destroy_end
   then closes the socket. *)
proc_exit_code ==
    /\ tool.pc \in {"wait", "error"} /\ Dead
    /\ \/ OK /\ tool' = NextRun /\ tried' = Tried
       \/ ~OK /\ Fails /\ UNCHANGED tried
    /\ UNCHANGED <<trace, log, child, toChild, toTool>>

replay == write_exact \/ read_exact \/ ReadEOF \/ ReadTimeout \/ is_eof \/ proc_exit_code

Next == read_input \/ mk_endpoint_proc \/ replay \/ Child \/ quit

(* Both processes are scheduled.  Nobody has to give up half-way. *)
FairSpec ==
    /\ Init /\ [][Next]_vars
    /\ WF_vars(read_input \/ mk_endpoint_proc \/ replay)
    /\ WF_vars(Child)
-----------------------------------------------------------------------------
(* Types.  The buffer holds at most a word that is only partly there; the
   child that exited from the echo has seen the string. *)
ReplayTypeOK ==
    /\ tool.pc \in {"parse", "spawn", "op", "wait", "error", "exit0", "exit1", "killed"}
    /\ tool.n \in 0 .. Len(log) + 1 /\ tool.got \in 0 .. 3 /\ tool.round \in 1 .. 2 * N
    /\ tool.got > 0 => tool.n <= Len(log) /\ log[tool.n].op = "WRITE32"
    /\ child.pc \in {"none", "boot", "echo", "exited", "signalled"}
    /\ child.i \in 1 .. Len(Script) + 1 /\ child.sent \in 0 .. 3
    /\ child.rec \in Recogniser /\ tried \subseteq ProtocolReads

(* A log the deterministic program can be held to: the whole of a session
   whose output ends where the exit string is first seen in it. *)
Output == [k \in 1 .. Len(log) - Len(Script) |-> log[k + Len(Script)].val]
EndsAtDone ==
    /\ Len(log) > Len(Script)
    /\ done(Fresh, Output).seen
    /\ ~done(Fresh, Front(Output)).seen /\ NUL \notin Range(Output)

(* "The successful attempt should be the same": a program that checks what it
   reads is never blamed, neither for the log it recorded nor when one of its
   words is changed, however the processes are interleaved.  (Where a close
   with unread words resets the socket, the second part is false: the read of
   the tool fails, and it gives up.) *)
FaithfulPasses ==
    (child.kind = "checks" /\ EndsAtDone /\ (child.resets => tool.bad = -1))
    => tool.pc \notin {"exit1", "killed"}

(* Success of a run as recorded means that the program wrote the words of the
   log, all of them and no other, though read_exact takes what is left in
   temp for a word it could not read. *)
LogWrites == {k \in DOMAIN log : log[k].op = "WRITE32"}
SameWrites ==
    /\ Len(child.wrote) = Cardinality(LogWrites)
    /\ \A k \in LogWrites :
          child.wrote[Cardinality({j \in LogWrites : j <= k})] = log[k].val
SuccessMeansSameWrites ==
    (tool.pc = "wait" /\ WEXITSTATUS = 0) => SameWrites

(* Success of a run with a changed word means that the program refused to
   use the word: one that goes on, or gives up without an error, is caught. *)
ToleranceCaught ==
    [][ (tool.pc = "error" /\ tool'.pc \in {"spawn", "exit0"})
        => /\ child.kind # "ignores"
           /\ child.pc = "exited" => child.i <= Len(Script) ]_vars

(* The tool ends with success only after every word of the protocol that the
   program reads was changed in turn. *)
CoversEveryRead ==
    tool.pc = "exit0" =>
        tried = {k - 1 : k \in {j \in DOMAIN Script : Script[j].op = "READ32"}}

(* The exit string stands, in one run, in what the program has printed when
   it takes the session to be over, however the output was cut. *)
DoneOnlyOnExitString ==
    child.rec.seen => \E k \in 0 .. Len(child.echoed) - Len(EXIT_STRING) :
        SubSeq(child.echoed, k + 1, k + Len(EXIT_STRING)) = EXIT_STRING

(* The tool ends: it never waits for a program that waits for it, for as long
   as the output has no NUL.  (A program that read on after a changed word,
   or one that misses the exit string behind a NUL, is waited for without
   end.) *)
EveryReplayEnds == <>(HungUp \/ \E k \in DOMAIN log : log[k].val = NUL)
=============================================================================
