-------------------------------- MODULE Traps ------------------------------
(***************************************************************************)
(* System calls and data aborts as the core executes them: banked stack    *)
(* pointers, link registers and saved status, the frames that              *)
(* software_interrupt_asm and data_abort_asm push, and the tests of        *)
(* driver.c that take these traps with and without the MMU.  A step is an  *)
(* instruction of a test, or a stage of a handler.                         *)
(*                                                                         *)
(* The page table is reduced to the addresses it maps, one to one; what    *)
(* data_abort_vector does inside the heap or the stack's gap is DataAbort. *)
(* No device asserts an interrupt, so no other vector is ever taken.       *)
(***************************************************************************)
EXTENDS Integers, Sequences

CONSTANTS
    Builds,      \* values of RUN_ADVANCED and DEBUG_HANDLE_DATA_ABORTS
    CFrame,      \* bytes of stack the C code of a handler has in use
    Calls        \* bound: system calls of each loop of int_part2 (10000)

ASSUME BuildsAssumption == Builds \subseteq [advanced : BOOLEAN, handles : BOOLEAN]
ASSUME CFrameAssumption == CFrame \in Nat /\ CFrame >= 4 /\ CFrame + 56 <= 65536
ASSUME CallsAssumption == Calls \in Nat

VARIABLES
    build, part, \* the configuration, and the test that is run
    pc,          \* [at, k]: the test's k-th instruction, or a stage
    cpsr, spsr,  \* [mode, irqOff]; saved on entry to "svc" and "abt"
    sp, lr, r,   \* banked sp and lr; r[0] .. r[3], and r[4] for r4-r12
    mem,         \* frames in memory, by the address of their first word
    ram,         \* bytes the tests look at
    mmu, mapped, \* is the MMU on; what the table maps
    vectors,     \* has the vector table been copied to 0?
    before       \* the registers when a trap was taken

vars == <<build, part, pc, cpsr, spsr, sp, lr, r, mem, ram, mmu, mapped, vectors, before>>
regs == <<cpsr, spsr, sp, lr, r>>
space == <<mem, ram, mmu, mapped, vectors>>

-----------------------------------------------------------------------------
(* memmap-constants.h. *)
MB(n) == n * 1048576
KB64(n) == n * 65536
SYS_STACK_ADDR == IF build.advanced THEN MB(4) ELSE MB(1)
SWI_STACK_ADDR == IF build.advanced THEN KB64(18) ELSE MB(2)
INT_STACK_ADDR == IF build.advanced THEN KB64(19) ELSE MB(3)
MAX_STACK_ADDR == IF build.advanced THEN MB(4) ELSE INT_STACK_ADDR
INITIAL_STACK_PTR == IF build.advanced THEN MB(4) ELSE 32768
KERNEL_BASE == 32768
SYS_HEAP_START == KB64(20)

UART == 539054144        \* 0x20215040
PM_WDOG == 537919524     \* 0x20100024
UNMAPPED == -1717986919  \* 0x99999999, as a signed word
FRAME == 56              \* r0-r12 and lr

-----------------------------------------------------------------------------
(* The tests.  They run in the order of the code; a loop runs Calls times,
   and n map calls for consecutive pages are one instruction. *)
Do(op) == [op |-> op]
Size(kind) == CASE kind = "section" -> MB(1) [] kind = "sm" -> 4096 [] OTHER -> KB64(1)
MapCall(kind, va, n, usr) ==
    LET lo == IF kind = "section" THEN va - (va % MB(1)) ELSE va
    IN  [op |-> "map", m |-> [lo |-> lo, hi |-> lo + n * Size(kind),
                              section |-> kind = "section", usr |-> usr]]
Maps(kind, va, n) == MapCall(kind, va, n, TRUE)
Map(kind, va) == Maps(kind, va, 1)
PrivateMap(kind, va) == MapCall(kind, va, 1, FALSE)
Load(a) == [op |-> "load", a |-> a]
Store(a, v) == [op |-> "store", a |-> a, v |-> v]
AssertByte(a, v) == [op |-> "assert", a |-> a, v |-> v]

Gpio == <<Map("section", MB(512)), Map("section", MB(514))>>

int_part0 == <<Do("interrupts_init"), Do("swi_setup_stack"), Do("swi")>>

(* A mutant: the section of SYS_STACK_ADDR, under which no system stack lies. *)
StacksWithoutSys ==
    <<Map("section", SWI_STACK_ADDR), Map("section", INT_STACK_ADDR)>>
Stacks ==
    <<Map("section", SWI_STACK_ADDR), Map("section", SYS_STACK_ADDR),
      Map("section", INT_STACK_ADDR)>>

int_part1 ==
    <<Do("interrupts_init"), Map("section", 0)>> \o Stacks \o Gpio
    \o <<Do("enter"), Do("assert_sys_mmu"), Load(UNMAPPED), Do("swi_setup_stack"),
         Do("swi"), Do("assert_sys_mmu"), Do("swi"), Do("assert_sys_mmu"),
         Do("leave"), Do("clean_reboot")>>

Loop == [i \in 1 .. Calls |-> Do("swi")]
int_part2 ==
    <<Do("interrupts_init"), Map("section", 0)>> \o Stacks \o Gpio
    \o <<Do("enter"), Do("assert_sys_mmu"), Do("swi_setup_stack")>> \o Loop \o Loop
    \o <<Do("leave"), Do("clean_reboot")>>

(* vm_tests: the parts that use sections and pages of one megabyte. *)
CODE == 1024                     \* 0x400
BASE == MB(1) + 1024             \* part2_base + 0x400 ...
LAST == MB(1) + 65532            \* ... and the end of its first 64KB
Finish == <<Do("leave"), Do("env_free")>>

vm_part1 ==
    <<Store(CODE, 42), Map("section", 0), Do("enter"), Do("assert_sys_mmu"),
      AssertByte(CODE, 42)>> \o Finish

KernelMaps ==
    <<Map("section", 0)>> \o Gpio
    \o <<Map("section", INT_STACK_ADDR - MB(1)), Map("section", MAX_STACK_ADDR)>>

vm_part2 ==
    <<Store(CODE, 42), Store(BASE, 137)>> \o KernelMaps
    \o <<Do("enter"), Do("assert_sys_mmu"), AssertByte(CODE, 42), Load(BASE),
         Store(BASE, 12), Map("section", MB(1)), Load(BASE), AssertByte(BASE, 137)>>
    \o Finish

vm_part3 ==
    <<Store(BASE, 125)>> \o KernelMaps
    \o <<Do("enter"), Do("assert_sys_mmu"), Load(BASE), Map("sm", MB(1)),
         Load(BASE), AssertByte(BASE, 125)>>
    \o Finish

vm_part4 ==
    <<Store(BASE, 66), Store(LAST, 137)>> \o KernelMaps
    \o <<Map("lg", MB(1)), Do("enter"), Do("assert_sys_mmu"), Load(BASE), Load(BASE),
         Load(LAST), AssertByte(BASE, 66), AssertByte(LAST, 137)>>
    \o Finish

(* The parts for the fine layout; the handlers' stacks are large pages. *)
FineStacks ==
    <<Do("swi_setup_stack"), Map("lg", SWI_STACK_ADDR - KB64(1)),
      Map("lg", INT_STACK_ADDR - KB64(1)), Maps("lg", SYS_HEAP_START, 16)>>

vm_part5 ==
    <<PrivateMap("sm", 0), Maps("sm", KERNEL_BASE, 256)>> \o FineStacks
    \o <<Map("section", SYS_STACK_ADDR - MB(1))>> \o Gpio
    \o <<Do("enter"), Do("assert_sys_mmu"), Do("user"), Load(0)>> \o Finish

vm_part6 ==
    <<Store(MB(4) + 1024, 137), Map("section", 0)>> \o FineStacks
    \o <<Map("lg", SYS_STACK_ADDR - KB64(1))>> \o Gpio
    \o <<Do("enter"), Do("assert_sys_mmu"), Load(MB(4) + 1024)>> \o Finish

(* notmain: interrupts first, then one test, then the reboot.  The heap
   starts above the kernel's stacks. *)
Test ==
    CASE part = "int_part0" -> int_part0 [] part = "int_part1" -> int_part1
      [] part = "int_part2" -> int_part2 [] part = "vm_part1" -> vm_part1
      [] part = "vm_part2" -> vm_part2 [] part = "vm_part3" -> vm_part3
      [] part = "vm_part4" -> vm_part4 [] part = "vm_part5" -> vm_part5
      [] OTHER -> vm_part6
notmain == <<Do("interrupts_init")>> \o Test \o <<Do("clean_reboot")>>

CoarseParts == {"int_part0", "int_part1", "int_part2",
                "vm_part1", "vm_part2", "vm_part3", "vm_part4"}
FineParts == {"vm_part5", "vm_part6"}
Heap == IF part \in FineParts THEN SYS_HEAP_START ELSE MAX_STACK_ADDR

-----------------------------------------------------------------------------
Banks == {"usr", "svc", "abt"}   \* user and system mode share a bank

(* vm-start.s: system mode, interrupts on, and the system stack. *)
Init ==
    /\ build \in Builds /\ part \in CoarseParts \cup FineParts
    /\ part \in FineParts => build.advanced   \* driver.c, line 310
    /\ pc = [at |-> "test", k |-> 1]
    /\ cpsr = [mode |-> "SYS", irqOff |-> FALSE]
    /\ spsr = [b \in {"svc", "abt"} |-> [mode |-> "SYS", irqOff |-> FALSE]]
    /\ sp = [b \in Banks |-> IF b = "usr" THEN INITIAL_STACK_PTR ELSE 0]
    /\ lr = [b \in {"svc", "abt"} |-> [at |-> "none", k |-> 0]]
    /\ r = [i \in 0 .. 4 |-> i]
    /\ mem = <<>> /\ ram = [a \in {CODE, BASE, LAST, MB(4) + 1024} |-> 0]
    /\ mmu = FALSE /\ mapped = {} /\ vectors = FALSE
    /\ before = [b \in {"svc", "abt"} |-> <<>>]

(* What the MMU lets the core reach; C code is at 0x8000 in megabyte 0. *)
Reach(a) ==
    mmu => \E m \in mapped :
              m.lo <= a /\ a < m.hi /\ (cpsr.mode = "USR" => m.usr)

(* A map call collides with what it overlaps; a section, with anything in
   its megabyte. *)
Collides(m) ==
    \E n \in mapped : \/ m.lo < n.hi /\ n.lo < m.hi
                      \/ (m.section \/ n.section) /\ m.lo \div MB(1) = n.lo \div MB(1)

(* The addresses the next step uses: a stack, an operand, a device, and for a
   map call the table in the heap.  No test maps the watchdog, which
   rpi_reboot stores to twice; here the two stores are one step. *)
Instruction == notmain[pc.k]
Operands ==
    CASE Instruction.op \in {"load", "store", "assert"} -> {Instruction.a}
      [] Instruction.op = "map" -> {Heap}
      [] Instruction.op = "clean_reboot" -> {UART, PM_WDOG}
      [] OTHER -> {}
PanicStack ==
    CASE cpsr.mode = "SUPER" -> sp["svc"] - CFrame
      [] cpsr.mode = "UNDEF" -> INT_STACK_ADDR - CFrame
      [] OTHER -> sp["usr"] - 4
Touches ==
    CASE pc.at = "test" -> {sp["usr"] - 4} \cup Operands
      [] pc.at = "swi" -> {sp["svc"] - FRAME}
      [] pc.at = "handle_swi" -> {sp["svc"] - CFrame, UART}
      [] pc.at = "abt" -> {INT_STACK_ADDR - FRAME}
      [] pc.at = "data_abort_vector" -> {sp["abt"] - CFrame, UART}
      [] pc.at = "panic" -> {PanicStack, UART, PM_WDOG}
      [] pc.at = "reboot" -> {UART, PM_WDOG}
      [] OTHER -> {}
Reachable == \A a \in Touches : Reach(a)

Snapshot == <<[cpsr |-> cpsr, sp |-> sp, r |-> r, pc |-> pc]>>

Goto(stage) == pc' = [pc EXCEPT !.at = stage]
Stop(how) == Goto(how) /\ UNCHANGED <<build, part, regs, space, before>>

(* An exception: the bank of the mode gets status and return address. *)
Take(bank, mode, stage, return) ==
    /\ pc' = [pc EXCEPT !.at = IF vectors THEN stage ELSE "wild"]
    /\ spsr' = [spsr EXCEPT ![bank] = cpsr]
    /\ cpsr' = [mode |-> mode, irqOff |-> TRUE]
    /\ lr' = [lr EXCEPT ![bank] = return]
    /\ before' = [before EXCEPT ![bank] = Snapshot]
    /\ UNCHANGED <<build, part, sp, r, space>>

DataAbort == ~Reachable /\ Take("abt", "ABORT", "abt", pc)

-----------------------------------------------------------------------------
Runs(op) == pc.at = "test" /\ Reachable /\ Instruction.op = op
At(stage) == pc.at = stage /\ Reachable
Done == pc' = [pc EXCEPT !.k = @ + 1] /\ UNCHANGED <<build, part, spsr, lr, before>>

(* A mutant: the status register is not written back. *)
swi_setup_stack_stays ==
    /\ Runs("swi_setup_stack")
    /\ sp' = [sp EXCEPT !["svc"] = SWI_STACK_ADDR]
    /\ cpsr' = [mode |-> "SUPER", irqOff |-> FALSE]
    /\ Done /\ UNCHANGED <<r, space>>

(* Into supervisor mode, with interrupts on, and back. *)
swi_setup_stack ==
    /\ Runs("swi_setup_stack")
    /\ sp' = [sp EXCEPT !["svc"] = SWI_STACK_ADDR]
    /\ Done /\ UNCHANGED <<cpsr, r, space>>

interrupts_init ==
    /\ Runs("interrupts_init")
    /\ cpsr' = [cpsr EXCEPT !.irqOff = TRUE] /\ vectors' = TRUE
    /\ Done /\ UNCHANGED <<sp, r, mem, ram, mmu, mapped>>

map ==
    /\ Runs("map")
    /\ \/ Collides(Instruction.m) /\ Stop("panic")
       \/ /\ ~Collides(Instruction.m)
          /\ mapped' = mapped \cup {Instruction.m}
          /\ Done /\ UNCHANGED <<cpsr, sp, r, mem, ram, mmu, vectors>>

mmu_enable ==
    /\ Runs("enter") /\ mmu' = TRUE
    /\ Done /\ UNCHANGED <<cpsr, sp, r, mem, ram, mapped, vectors>>

(* The coprocessor is undefined in user mode; undefined_instruction_asm loads
   a stack pointer and its handler panics. *)
mmu_disable ==
    /\ Runs("leave")
    /\ \/ /\ cpsr.mode = "USR" /\ Goto("panic")
          /\ cpsr' = [mode |-> "UNDEF", irqOff |-> TRUE]
          /\ UNCHANGED <<build, part, spsr, sp, lr, r, space, before>>
       \/ /\ cpsr.mode # "USR" /\ mmu' = FALSE
          /\ Done /\ UNCHANGED <<cpsr, sp, r, mem, ram, mapped, vectors>>

Access ==
    \/ Runs("load") /\ Done /\ UNCHANGED <<cpsr, sp, r, space>>
    \/ /\ Runs("store")
       /\ ram' = [ram EXCEPT ![Instruction.a] = Instruction.v]
       /\ Done /\ UNCHANGED <<cpsr, sp, r, mem, mmu, mapped, vectors>>

(* assert: the byte read, or the mode and the MMU. *)
Check ==
    /\ Runs("assert") \/ Runs("assert_sys_mmu")
    /\ IF IF Instruction.op = "assert" THEN ram[Instruction.a] = Instruction.v
                                       ELSE cpsr.mode = "SYS" /\ mmu
       THEN Done /\ UNCHANGED <<cpsr, sp, r, space>>
       ELSE Stop("panic")

env_free == Runs("env_free") /\ Done /\ UNCHANGED <<cpsr, sp, r, space>>

cpsr_set_mode ==
    /\ Runs("user") /\ cpsr' = [mode |-> "USR", irqOff |-> FALSE]
    /\ Done /\ UNCHANGED <<sp, r, space>>

(* swi_asm1(1, 2, 3, 4), and the instruction after the SWI. *)
swi ==
    /\ Runs("swi")
    /\ Take("svc", "SUPER", "swi", [pc EXCEPT !.k = @ + 1])

(* rpi_reboot, in whatever mode and also at the end of a panic: the watchdog
   is a device like others. *)
clean_reboot ==
    (Runs("clean_reboot") \/ At("reboot") \/ At("panic")) /\ Stop("reset")

-----------------------------------------------------------------------------
(* push {r0-r12, lr} at the stack pointer p of a bank; C code then has r0-r3
   and lr for itself. *)
Push(bank, p, next) ==
    /\ mem' = [a \in DOMAIN mem \cup {p - FRAME} |->
                  IF a = p - FRAME THEN [r |-> r, lr |-> lr[bank]] ELSE mem[a]]
    /\ sp' = [sp EXCEPT ![bank] = p - FRAME]
    /\ Goto(next)
    /\ UNCHANGED <<build, part, cpsr, spsr, lr, r, ram, mmu, mapped, vectors, before>>

Junk == [i \in 0 .. 4 |-> IF i < 4 THEN 99 ELSE r[i]]

software_interrupt_asm == At("swi") /\ Push("svc", sp["svc"], "handle_swi")

(* A C handler has run; it returns to the stage next. *)
Ran(bank, next) ==
    /\ r' = Junk /\ lr' = [lr EXCEPT ![bank] = [at |-> next, k |-> 0]]
    /\ Goto(next)
    /\ UNCHANGED <<build, part, cpsr, spsr, sp, ram, mmu, mapped, vectors, before>>

(* handle_swi prints, asserts its mode and its stack, and writes the result
   into the frame. *)
InBounds(i) == i < SWI_STACK_ADDR /\ i > SYS_STACK_ADDR
handle_swi ==
    /\ At("handle_swi")
    /\ \/ ~(cpsr.mode = "SUPER" /\ InBounds(sp["svc"] - CFrame)) /\ Stop("panic")
       \/ /\ cpsr.mode = "SUPER" /\ InBounds(sp["svc"] - CFrame)
          /\ mem' = [mem EXCEPT ![sp["svc"]].r[0] = 13]
          /\ Ran("svc", "swi_return")

(* pop {r0-r12, lr}; movs pc, lr, after lr was moved back by d. *)
Return(bank, from) ==
    LET frame == mem[sp[bank]]
    IN  /\ r' = frame.r
        /\ sp' = [sp EXCEPT ![bank] = @ + FRAME]
        /\ lr' = [lr EXCEPT ![bank] = frame.lr]
        /\ cpsr' = spsr[bank]
        /\ pc' = from
        /\ UNCHANGED <<build, part, spsr, space, before>>

(* A mutant pops too little. *)
swi_return_short ==
    /\ pc.at = "swi_return"
    /\ LET frame == mem[sp["svc"]]
       IN  /\ r' = frame.r /\ pc' = frame.lr /\ cpsr' = spsr["svc"]
           /\ UNCHANGED <<build, part, sp, lr, spsr, space, before>>
swi_return == pc.at = "swi_return" /\ Return("svc", mem[sp["svc"]].lr)

(* The abort handler loads its stack pointer: a frame below it is lost. *)
data_abort_asm == At("abt") /\ Push("abt", INT_STACK_ADDR, "data_abort_vector")

(* It prints the abort; then, where it handles aborts, one outside the heap
   and the gap above it ends in a reboot. *)
data_abort_vector ==
    /\ At("data_abort_vector")
    /\ Ran("abt", IF build.handles THEN "reboot" ELSE "abt_return")
    /\ UNCHANGED mem

(* lr - 4 is the instruction after the one that aborted; after the stores of
   rpi_reboot, its while(1).  A mutant tries the aborted one again (lr - 8). *)
Again(p) == p
After(p) ==
    IF p.at = "panic" THEN [p EXCEPT !.at = "hung"] ELSE [p EXCEPT !.k = @ + 1]
data_abort_return ==
    pc.at = "abt_return" /\ Return("abt", After(mem[sp["abt"]].lr))

Halted ==
    /\ pc.at \in {"reset", "hung", "wild"}
    /\ UNCHANGED vars

Step ==
    \/ DataAbort \/ swi_setup_stack \/ interrupts_init \/ map
    \/ mmu_enable \/ mmu_disable \/ Access \/ Check \/ env_free \/ cpsr_set_mode
    \/ swi \/ clean_reboot
    \/ software_interrupt_asm \/ handle_swi \/ swi_return
    \/ data_abort_asm \/ data_abort_vector \/ data_abort_return

Next == Step \/ Halted

(* The core executes. *)
Spec == Init /\ [][Next]_vars /\ WF_vars(Step)

-----------------------------------------------------------------------------
(* Types, and each stack pointer within the frame its handler pushes; a test
   runs in the mode it chose. *)
TrapTypeOK ==
    /\ build \in Builds /\ part \in CoarseParts \cup FineParts
    /\ cpsr.mode \in {"SYS", "USR", "SUPER", "ABORT", "UNDEF"}
    /\ spsr["svc"].mode = "SYS"
    /\ sp["usr"] = INITIAL_STACK_PTR
    /\ sp["svc"] \in {0} \cup SWI_STACK_ADDR - FRAME .. SWI_STACK_ADDR
    /\ sp["abt"] \in {0} \cup INT_STACK_ADDR - FRAME .. INT_STACK_ADDR
    /\ DOMAIN mem \subseteq {SWI_STACK_ADDR - FRAME, INT_STACK_ADDR - FRAME}
    /\ pc.at = "test" => cpsr.mode \in {"SYS", "USR"}

(* A program cannot tell a trap from an instruction of its own: when a
   handler returns to it, mode, interrupt mask, every bank's stack pointer
   and every register are what they were, but for the result of a call
   (software_interrupt_asm, data_abort_asm).  A panic whose reboot aborts is
   given back to rpi_reboot's endless loop. *)
Same(b, result) ==
    /\ cpsr' = b.cpsr
    /\ r' = IF result THEN [b.r EXCEPT ![0] = 13] ELSE b.r
    /\ sp'["usr"] = b.sp["usr"] /\ sp'["svc"] = b.sp["svc"]
    /\ pc'.k = b.pc.k + 1
TrapTransparent ==
    [][ /\ pc.at = "swi_return" => pc'.at = "test" /\ Same(before["svc"][1], TRUE)
        /\ pc.at = "abt_return" =>
              \/ pc'.at = "test" /\ Same(before["abt"][1], FALSE)
              \/ pc'.at = "hung" /\ before["abt"][1].pc.at = "panic" ]_vars

(* In every configuration, a handler takes an abort itself, which overwrites
   the frame of the first (interrupts-asm.S, line 148), only at rpi_reboot's
   stores to the watchdog, which no test maps, or where the program's own
   stack is not mapped either.  What the handlers push, what their C code uses
   and the UART they print to are mapped by every other test that turns the
   MMU on. *)
OnlyRebootsFault ==
    cpsr.mode = "ABORT" /\ spsr["abt"].mode \notin {"SYS", "USR"} =>
        \/ before["abt"][1].pc.at \in {"panic", "reboot"}
        \/ ~Reach(INITIAL_STACK_PTR - 4)

(* A test reaches its end, in finitely many steps and with all of its
   assertions true, the one about the byte that an aborted store was to change
   included (driver.c, line 370), in the layout it is written for and, if
   it takes an abort, with the handler that returns: never to the access that
   aborted.  No other configuration reaches the end.  PART5 never does: the reboot that
   data_abort_vector starts for its null pointer aborts over and over (lines
   115 to 124 of the repository's README promise a reboot), and without the
   handler the test ends in a panic that hangs.  The board is only ever reset
   while the MMU is off. *)
LayoutFits == build.advanced <=> part \in FineParts
Aborting == {"int_part1", "vm_part2", "vm_part3", "vm_part6"}
Ends ==
    /\ LayoutFits /\ part # "vm_part5"
    /\ part \in Aborting => ~build.handles
Finished == pc.at = "reset" /\ Instruction.op = "clean_reboot"
PartsEnd ==
    /\ Ends => <>Finished
    /\ ~Ends => []~Finished
    /\ [](pc.at = "reset" => ~mmu)
=============================================================================
