----------------------------- MODULE TrapsProofs ---------------------------
(***************************************************************************)
(* Proofs about the traps: for every set of configurations, every use of   *)
(* stack by the C handlers that fits the 64KB of a handler, and every      *)
(* number of calls in the loops of int_part2, the stacks stay typed, the   *)
(* abort handler aborts only where it reboots, and a trap is invisible to  *)
(* the program that took it.                                               *)
(*                                                                         *)
(* The tests are written out first, instruction by instruction; Outline    *)
(* and Coverage say what of them the argument needs.  Then the inductive   *)
(* invariant IInv, one lemma for each kind of step, and the theorems.      *)
(***************************************************************************)
EXTENDS Traps, TLAPS

-----------------------------------------------------------------------------
(* The layouts and the regions of map calls, as numbers. *)
LEMMA Layout ==
    /\ ~build.advanced =>
          /\ SYS_STACK_ADDR = 1048576 /\ SWI_STACK_ADDR = 2097152 /\ INT_STACK_ADDR = 3145728
          /\ MAX_STACK_ADDR = 3145728 /\ INITIAL_STACK_PTR = 32768
    /\ build.advanced =>
          /\ SYS_STACK_ADDR = 4194304 /\ SWI_STACK_ADDR = 1179648 /\ INT_STACK_ADDR = 1245184
          /\ MAX_STACK_ADDR = 4194304 /\ INITIAL_STACK_PTR = 4194304
    /\ MB(1) = 1048576 /\ MB(4) = 4194304 /\ MB(512) = 536870912 /\ MB(514) = 538968064
    /\ KB64(1) = 65536
BY SMT DEF SYS_STACK_ADDR, SWI_STACK_ADDR, INT_STACK_ADDR, MAX_STACK_ADDR, INITIAL_STACK_PTR,
           MB, KB64

LEMMA SectionRegion ==
    ASSUME NEW va \in Int
    PROVE  /\ Map("section", va).op = "map" /\ Map("section", va).m.section
           /\ Map("section", va).m.usr
           /\ Map("section", va).m.lo = va - (va % 1048576)
           /\ Map("section", va).m.hi = (va - (va % 1048576)) + 1048576
<1>1. Size("section") = 1048576
    BY SMT, Layout DEF Size
<1> DEFINE lo == va - (va % MB(1))
<1>2. Map("section", va) = [op |-> "map", m |-> [lo |-> lo, hi |-> lo + 1 * Size("section"),
                                                 section |-> TRUE, usr |-> TRUE]]
    BY Zenon DEF Map, Maps, MapCall
<1>3. lo \in Int /\ lo = va - (va % 1048576)
    BY SMT, Layout
<1> HIDE DEF lo
<1> QED BY SMT, <1>1, <1>2, <1>3

LEMMA PageRegion ==
    ASSUME NEW va \in Int
    PROVE  /\ Map("lg", va).op = "map" /\ Map("lg", va).m.usr
           /\ Map("lg", va).m.lo = va /\ Map("lg", va).m.hi = va + 65536
           /\ Map("sm", va).op = "map"
<1>1. Size("lg") = 65536 /\ Size("sm") = 4096
    BY SMT, Layout DEF Size
<1> QED BY SMT, <1>1 DEF Map, Maps, MapCall

-----------------------------------------------------------------------------
(* The tests, written out. *)
LEMMA Int0Code ==
    ASSUME part = "int_part0"
    PROVE  /\ Len(notmain) = 5
           /\ notmain[1] = Do("interrupts_init") /\ notmain[2] = Do("interrupts_init")
           /\ notmain[3] = Do("swi_setup_stack") /\ notmain[4] = Do("swi")
           /\ notmain[5] = Do("clean_reboot")
BY DEF notmain, Test, int_part0

LEMMA Int1Code ==
    ASSUME part = "int_part1"
    PROVE  /\ Len(notmain) = 19
           /\ notmain[1] = Do("interrupts_init") /\ notmain[2] = Do("interrupts_init")
           /\ notmain[3] = Map("section", 0) /\ notmain[4] = Map("section", SWI_STACK_ADDR)
           /\ notmain[5] = Map("section", SYS_STACK_ADDR)
           /\ notmain[6] = Map("section", INT_STACK_ADDR)
           /\ notmain[7] = Map("section", MB(512)) /\ notmain[8] = Map("section", MB(514))
           /\ notmain[9] = Do("enter") /\ notmain[10] = Do("assert_sys_mmu")
           /\ notmain[11] = Load(UNMAPPED) /\ notmain[12] = Do("swi_setup_stack")
           /\ notmain[13] = Do("swi") /\ notmain[14] = Do("assert_sys_mmu")
           /\ notmain[15] = Do("swi") /\ notmain[16] = Do("assert_sys_mmu")
           /\ notmain[17] = Do("leave") /\ notmain[18] = Do("clean_reboot")
           /\ notmain[19] = Do("clean_reboot")
BY SMT DEF notmain, Test, int_part1, Stacks, Gpio

LEMMA Int2Code ==
    ASSUME part = "int_part2"
    PROVE  /\ Len(notmain) = 14 + 2 * Calls
           /\ notmain[1] = Do("interrupts_init") /\ notmain[2] = Do("interrupts_init")
           /\ notmain[3] = Map("section", 0) /\ notmain[4] = Map("section", SWI_STACK_ADDR)
           /\ notmain[5] = Map("section", SYS_STACK_ADDR)
           /\ notmain[6] = Map("section", INT_STACK_ADDR)
           /\ notmain[7] = Map("section", MB(512)) /\ notmain[8] = Map("section", MB(514))
           /\ notmain[9] = Do("enter") /\ notmain[10] = Do("assert_sys_mmu")
           /\ notmain[11] = Do("swi_setup_stack")
           /\ \A k \in 12 .. 11 + 2 * Calls : notmain[k] = Do("swi")
           /\ notmain[12 + 2 * Calls] = Do("leave")
           /\ notmain[13 + 2 * Calls] = Do("clean_reboot")
           /\ notmain[14 + 2 * Calls] = Do("clean_reboot")
<1> DEFINE start == <<Do("interrupts_init"), Map("section", 0)>> \o Stacks \o Gpio
                      \o <<Do("enter"), Do("assert_sys_mmu"), Do("swi_setup_stack")>>
           S == {start[i] : i \in 1 .. 10}
                  \cup {Do("swi"), Do("leave"), Do("clean_reboot"), Do("interrupts_init")}
<1>1. /\ Len(start) = 10 /\ start[1] = Do("interrupts_init")
      /\ start[2] = Map("section", 0) /\ start[3] = Map("section", SWI_STACK_ADDR)
      /\ start[4] = Map("section", SYS_STACK_ADDR)
      /\ start[5] = Map("section", INT_STACK_ADDR)
      /\ start[6] = Map("section", MB(512)) /\ start[7] = Map("section", MB(514))
      /\ start[8] = Do("enter") /\ start[9] = Do("assert_sys_mmu")
      /\ start[10] = Do("swi_setup_stack")
    BY SMT DEF Stacks, Gpio
<1>2. PICK n \in Nat : n = Calls
    BY Zenon, CallsAssumption DEF CallsAssumption
<1>3. PICK p, q, u, v, x : p = Do("interrupts_init") /\ q = Do("clean_reboot")
                           /\ u = Do("leave") /\ v = Do("clean_reboot") /\ x = Do("swi")
    OBVIOUS
<1>4. start \in Seq({start[i] : i \in 1 .. 10})
    BY SMT DEF Stacks, Gpio
<1>5. PICK s \in Seq(S) : s = start
    <2>1. {start[i] : i \in 1 .. 10} \subseteq S
        OBVIOUS
    <2> HIDE DEF start, S
    <2> QED BY <2>1, <1>4
<1>6. p \in S /\ q \in S /\ u \in S /\ v \in S /\ x \in S
    BY <1>3
<1>7. PICK w \in Seq(S) : w = Loop /\ Len(w) = n /\ \A i \in 1 .. n : w[i] = x
    <2> HIDE DEF S, start
    <2>1. Loop = [i \in 1 .. n |-> x]
        BY Zenon, <1>2, <1>3 DEF Loop
    <2>2. [i \in 1 .. n |-> x] \in Seq(S) /\ Len([i \in 1 .. n |-> x]) = n
        BY <1>2, <1>6
    <2>3. \A i \in 1 .. n : [j \in 1 .. n |-> x][i] = x
        OBVIOUS
    <2> QED BY Zenon, <2>1, <2>2, <2>3
<1>8. PICK code : code = <<p>> \o (s \o w \o w \o <<u, v>>) \o <<q>>
    OBVIOUS
<1>9. code = notmain
    BY <1>3, <1>5, <1>7, <1>8 DEF notmain, Test, int_part2
<1>10. Len(s) = 10
    BY <1>1, <1>5
<1> HIDE DEF S, start
<1>11. PICK b1 \in Seq(S) :
          /\ b1 = s \o w \o w /\ Len(b1) = 10 + 2 * n
          /\ \A i \in 1 .. 10 : b1[i] = s[i]
          /\ \A i \in 10 + 1 .. 10 + 2 * n : b1[i] = x
    <2>1. PICK h \in Nat : h = 10
        OBVIOUS
    <2>2. Len(s) = h
        BY <1>10, <2>1
    <2>3. /\ s \o w \o w \in Seq(S) /\ Len(s \o w \o w) = h + 2 * n
          /\ \A i \in 1 .. h : (s \o w \o w)[i] = s[i]
          /\ \A i \in h + 1 .. h + 2 * n : (s \o w \o w)[i] = x
        BY <1>7, <2>2
    <2> QED BY Zenon, <2>1, <2>3
<1>12. PICK m \in Nat : m = 10 + 2 * n
    OBVIOUS
<1>13. PICK b2 \in Seq(S) :
          /\ b2 = b1 \o <<u, v>> /\ Len(b2) = m + 2
          /\ \A i \in 1 .. m : b2[i] = b1[i]
          /\ b2[m + 1] = u /\ b2[m + 2] = v
    <2>1. Len(b1) = m /\ u \in S /\ v \in S
        BY <1>6, <1>11, <1>12
    <2>2. /\ b1 \o <<u, v>> \in Seq(S) /\ Len(b1 \o <<u, v>>) = m + 2
          /\ \A i \in 1 .. m : (b1 \o <<u, v>>)[i] = b1[i]
          /\ (b1 \o <<u, v>>)[m + 1] = u /\ (b1 \o <<u, v>>)[m + 2] = v
        BY <2>1
    <2> QED BY Zenon, <2>2
<1>14. PICK l \in Nat : l = m + 2
    OBVIOUS
<1>15. PICK b :
          /\ b = <<p>> \o b2 \o <<q>> /\ Len(b) = l + 2
          /\ b[1] = p /\ b[l + 2] = q
          /\ \A i \in 2 .. l + 1 : b[i] = b2[i - 1]
    <2>1. Len(b2) = l /\ p \in S /\ q \in S
        BY <1>6, <1>13, <1>14
    <2>2. /\ Len(<<p>> \o b2 \o <<q>>) = l + 2
          /\ (<<p>> \o b2 \o <<q>>)[1] = p /\ (<<p>> \o b2 \o <<q>>)[l + 2] = q
          /\ \A i \in 2 .. l + 1 : (<<p>> \o b2 \o <<q>>)[i] = b2[i - 1]
        BY <2>1
    <2> QED BY Zenon, <2>2
<1>16. notmain = b
    BY Zenon, <1>8, <1>9, <1>11, <1>13, <1>15
<1>17. \A k \in 2 .. m + 1 : b[k] = b1[k - 1]
    BY <1>13, <1>14, <1>15
<1>18. \A i \in 12 .. 11 + 2 * n : b[i] = x
    <2> TAKE i \in 12 .. 11 + 2 * n
    <2>1. i \in 2 .. m + 1 /\ i - 1 \in 10 + 1 .. 10 + 2 * n
        BY <1>12
    <2> QED BY <2>1, <1>11, <1>17
<1>19. b[m + 2] = u /\ b[m + 3] = v
    <2>1. m + 2 \in 2 .. l + 1 /\ m + 3 \in 2 .. l + 1
          /\ (m + 2) - 1 = m + 1 /\ (m + 3) - 1 = m + 2
        BY <1>14
    <2> QED BY <2>1, <1>13, <1>15
<1>20. \A i \in 2 .. 11 : b[i] = s[i - 1]
    <2> TAKE i \in 2 .. 11
    <2>1. i \in 2 .. m + 1 /\ i - 1 \in 1 .. 10
        BY <1>12
    <2> QED BY <2>1, <1>11, <1>17
<1>21. m + 2 = 12 + 2 * n /\ m + 3 = 13 + 2 * n /\ l + 2 = 14 + 2 * n
    BY <1>12, <1>14
<1>22. \A i \in 2 .. 11 : notmain[i] = start[i - 1]
    BY <1>5, <1>16, <1>20
<1>23. /\ Len(notmain) = 14 + 2 * Calls /\ notmain[1] = Do("interrupts_init")
       /\ \A k \in 12 .. 11 + 2 * Calls : notmain[k] = Do("swi")
       /\ notmain[12 + 2 * Calls] = Do("leave") /\ notmain[13 + 2 * Calls] = Do("clean_reboot")
       /\ notmain[14 + 2 * Calls] = Do("clean_reboot")
    BY <1>2, <1>3, <1>15, <1>16, <1>18, <1>19, <1>21
<1>24. /\ notmain[2] = start[1] /\ notmain[3] = start[2] /\ notmain[4] = start[3]
       /\ notmain[5] = start[4] /\ notmain[6] = start[5] /\ notmain[7] = start[6]
       /\ notmain[8] = start[7] /\ notmain[9] = start[8] /\ notmain[10] = start[9]
       /\ notmain[11] = start[10]
    <2> HIDE DEF start
    <2> QED BY <1>22
<1> HIDE DEF start
<1> QED BY <1>1, <1>23, <1>24

LEMMA Vm1Code ==
    ASSUME part = "vm_part1"
    PROVE  /\ Len(notmain) = 9
           /\ notmain[1] = Do("interrupts_init") /\ notmain[2] = Store(CODE, 42)
           /\ notmain[3] = Map("section", 0)
           /\ notmain[4] = Do("enter") /\ notmain[5] = Do("assert_sys_mmu")
           /\ notmain[6] = AssertByte(CODE, 42) /\ notmain[7] = Do("leave")
           /\ notmain[8] = Do("env_free") /\ notmain[9] = Do("clean_reboot")
BY SMT DEF notmain, Test, vm_part1, Finish

LEMMA Vm2Code ==
    ASSUME part = "vm_part2"
    PROVE  /\ Len(notmain) = 19
           /\ notmain[1] = Do("interrupts_init")
           /\ notmain[2] = Store(CODE, 42) /\ notmain[3] = Store(BASE, 137)
           /\ notmain[4] = Map("section", 0)
           /\ notmain[5] = Map("section", MB(512)) /\ notmain[6] = Map("section", MB(514))
           /\ notmain[7] = Map("section", INT_STACK_ADDR - MB(1))
           /\ notmain[8] = Map("section", MAX_STACK_ADDR)
           /\ notmain[9] = Do("enter") /\ notmain[10] = Do("assert_sys_mmu")
           /\ notmain[11] = AssertByte(CODE, 42) /\ notmain[12] = Load(BASE)
           /\ notmain[13] = Store(BASE, 12) /\ notmain[14] = Map("section", MB(1))
           /\ notmain[15] = Load(BASE) /\ notmain[16] = AssertByte(BASE, 137)
           /\ notmain[17] = Do("leave") /\ notmain[18] = Do("env_free")
           /\ notmain[19] = Do("clean_reboot")
BY SMT DEF notmain, Test, vm_part2, KernelMaps, Gpio, Finish

LEMMA Vm3Code ==
    ASSUME part = "vm_part3"
    PROVE  /\ Len(notmain) = 16
           /\ notmain[1] = Do("interrupts_init") /\ notmain[2] = Store(BASE, 125)
           /\ notmain[3] = Map("section", 0)
           /\ notmain[4] = Map("section", MB(512)) /\ notmain[5] = Map("section", MB(514))
           /\ notmain[6] = Map("section", INT_STACK_ADDR - MB(1))
           /\ notmain[7] = Map("section", MAX_STACK_ADDR)
           /\ notmain[8] = Do("enter") /\ notmain[9] = Do("assert_sys_mmu")
           /\ notmain[10] = Load(BASE) /\ notmain[11] = Map("sm", MB(1))
           /\ notmain[12] = Load(BASE) /\ notmain[13] = AssertByte(BASE, 125)
           /\ notmain[14] = Do("leave") /\ notmain[15] = Do("env_free")
           /\ notmain[16] = Do("clean_reboot")
BY SMT DEF notmain, Test, vm_part3, KernelMaps, Gpio, Finish

LEMMA Vm4Code ==
    ASSUME part = "vm_part4"
    PROVE  /\ Len(notmain) = 19
           /\ notmain[1] = Do("interrupts_init")
           /\ notmain[2] = Store(BASE, 66) /\ notmain[3] = Store(LAST, 137)
           /\ notmain[4] = Map("section", 0)
           /\ notmain[5] = Map("section", MB(512)) /\ notmain[6] = Map("section", MB(514))
           /\ notmain[7] = Map("section", INT_STACK_ADDR - MB(1))
           /\ notmain[8] = Map("section", MAX_STACK_ADDR) /\ notmain[9] = Map("lg", MB(1))
           /\ notmain[10] = Do("enter") /\ notmain[11] = Do("assert_sys_mmu")
           /\ notmain[12] = Load(BASE) /\ notmain[13] = Load(BASE) /\ notmain[14] = Load(LAST)
           /\ notmain[15] = AssertByte(BASE, 66) /\ notmain[16] = AssertByte(LAST, 137)
           /\ notmain[17] = Do("leave") /\ notmain[18] = Do("env_free")
           /\ notmain[19] = Do("clean_reboot")
BY SMT DEF notmain, Test, vm_part4, KernelMaps, Gpio, Finish

LEMMA Vm5Code ==
    ASSUME part = "vm_part5"
    PROVE  /\ Len(notmain) = 17
           /\ notmain[1] = Do("interrupts_init")
           /\ notmain[2] = PrivateMap("sm", 0)
           /\ notmain[3] = Maps("sm", KERNEL_BASE, 256)
           /\ notmain[4] = Do("swi_setup_stack")
           /\ notmain[5] = Map("lg", SWI_STACK_ADDR - KB64(1))
           /\ notmain[6] = Map("lg", INT_STACK_ADDR - KB64(1))
           /\ notmain[7] = Maps("lg", SYS_HEAP_START, 16)
           /\ notmain[8] = Map("section", SYS_STACK_ADDR - MB(1))
           /\ notmain[9] = Map("section", MB(512)) /\ notmain[10] = Map("section", MB(514))
           /\ notmain[11] = Do("enter") /\ notmain[12] = Do("assert_sys_mmu")
           /\ notmain[13] = Do("user") /\ notmain[14] = Load(0)
           /\ notmain[15] = Do("leave") /\ notmain[16] = Do("env_free")
           /\ notmain[17] = Do("clean_reboot")
BY SMTT(90) DEF notmain, Test, vm_part5, FineStacks, Gpio, Finish

LEMMA Vm6Code ==
    ASSUME part = "vm_part6"
    PROVE  /\ Len(notmain) = 16
           /\ notmain[1] = Do("interrupts_init") /\ notmain[2] = Store(MB(4) + 1024, 137)
           /\ notmain[3] = Map("section", 0) /\ notmain[4] = Do("swi_setup_stack")
           /\ notmain[5] = Map("lg", SWI_STACK_ADDR - KB64(1))
           /\ notmain[6] = Map("lg", INT_STACK_ADDR - KB64(1))
           /\ notmain[7] = Maps("lg", SYS_HEAP_START, 16)
           /\ notmain[8] = Map("lg", SYS_STACK_ADDR - KB64(1))
           /\ notmain[9] = Map("section", MB(512)) /\ notmain[10] = Map("section", MB(514))
           /\ notmain[11] = Do("enter") /\ notmain[12] = Do("assert_sys_mmu")
           /\ notmain[13] = Load(MB(4) + 1024)
           /\ notmain[14] = Do("leave") /\ notmain[15] = Do("env_free")
           /\ notmain[16] = Do("clean_reboot")
BY SMTT(90) DEF notmain, Test, vm_part6, FineStacks, Gpio, Finish

LEMMA Ops ==
    /\ \A op : Do(op).op = op
    /\ \A a : Load(a).op = "load" /\ Load(a).a = a
    /\ \A a, v : Store(a, v).op = "store" /\ Store(a, v).a = a
    /\ \A a, v : AssertByte(a, v).op = "assert" /\ AssertByte(a, v).a = a
    /\ \A kind, va, n : Maps(kind, va, n).op = "map" /\ Map(kind, va).op = "map"
    /\ \A kind, va : PrivateMap(kind, va).op = "map"
BY DEF Do, Load, Store, AssertByte, Map, Maps, PrivateMap, MapCall

-----------------------------------------------------------------------------
(* What the proofs need of a test.  enter and leave are at one place each,
   none or both; they separate the map calls of the set-up from the rest. *)
IntParts == {"int_part0", "int_part1", "int_part2"}
EnterAt ==
    CASE part = "int_part0" -> 0 [] part \in {"int_part1", "int_part2"} -> 9
      [] part = "vm_part1" -> 4 [] part = "vm_part2" -> 9 [] part = "vm_part3" -> 8
      [] part = "vm_part4" -> 10 [] OTHER -> 11
LeaveAt ==
    CASE part = "int_part0" -> 0 [] part = "int_part1" -> 17
      [] part = "int_part2" -> 12 + 2 * Calls
      [] part = "vm_part1" -> 7 [] part = "vm_part2" -> 17 [] part = "vm_part3" -> 14
      [] part = "vm_part4" -> 17 [] part = "vm_part5" -> 15 [] OTHER -> 14

Outline ==
    /\ EnterAt \in Nat /\ LeaveAt \in Nat /\ EnterAt <= LeaveAt
    /\ Len(notmain) \in Nat /\ LeaveAt < Len(notmain) /\ DOMAIN notmain = 1 .. Len(notmain)
    /\ notmain[Len(notmain)].op = "clean_reboot"
    /\ \A k \in DOMAIN notmain :
          /\ notmain[k].op = "enter" <=> k = EnterAt
          /\ notmain[k].op = "leave" <=> k = LeaveAt
          /\ notmain[k].op = "clean_reboot" => k > LeaveAt
          /\ notmain[k].op = "user" => part = "vm_part5"
          /\ notmain[k].op = "swi" =>
                part \in IntParts /\ \E i \in 1 .. k - 1 : notmain[i].op = "swi_setup_stack"

LEMMA TestOutline ==
    ASSUME part \in CoarseParts \cup FineParts PROVE Outline
<1>1. CASE part = "int_part0"
    <2>1. Len(notmain) = 5 /\ DOMAIN notmain = 1 .. 5 /\ EnterAt = 0 /\ LeaveAt = 0
        BY <1>1, Int0Code DEF EnterAt, LeaveAt
    <2>2. /\ notmain[1].op = "interrupts_init" /\ notmain[2].op = "interrupts_init"
          /\ notmain[3].op = "swi_setup_stack" /\ notmain[4].op = "swi"
          /\ notmain[5].op = "clean_reboot"
        BY <1>1, Int0Code, Ops
    <2> QED BY <1>1, <2>1, <2>2 DEF Outline, IntParts
<1>2. CASE part = "int_part1"
    <2>1. Len(notmain) = 19 /\ DOMAIN notmain = 1 .. 19 /\ EnterAt = 9 /\ LeaveAt = 17
        BY <1>2, Int1Code DEF EnterAt, LeaveAt
    <2>2. /\ notmain[1].op = "interrupts_init" /\ notmain[2].op = "interrupts_init"
          /\ notmain[3].op = "map" /\ notmain[4].op = "map"
          /\ notmain[5].op = "map" /\ notmain[6].op = "map"
          /\ notmain[7].op = "map" /\ notmain[8].op = "map"
          /\ notmain[9].op = "enter" /\ notmain[10].op = "assert_sys_mmu"
          /\ notmain[11].op = "load" /\ notmain[12].op = "swi_setup_stack"
          /\ notmain[13].op = "swi" /\ notmain[14].op = "assert_sys_mmu"
          /\ notmain[15].op = "swi" /\ notmain[16].op = "assert_sys_mmu"
          /\ notmain[17].op = "leave" /\ notmain[18].op = "clean_reboot"
          /\ notmain[19].op = "clean_reboot"
        BY <1>2, Int1Code, Ops
    <2> QED BY <1>2, <2>1, <2>2 DEF Outline, IntParts
<1>3. CASE part = "vm_part1"
    <2>1. Len(notmain) = 9 /\ DOMAIN notmain = 1 .. 9 /\ EnterAt = 4 /\ LeaveAt = 7
        BY <1>3, Vm1Code DEF EnterAt, LeaveAt
    <2>2. /\ notmain[1].op = "interrupts_init" /\ notmain[2].op = "store"
          /\ notmain[3].op = "map" /\ notmain[4].op = "enter"
          /\ notmain[5].op = "assert_sys_mmu" /\ notmain[6].op = "assert"
          /\ notmain[7].op = "leave" /\ notmain[8].op = "env_free"
          /\ notmain[9].op = "clean_reboot"
        BY <1>3, Vm1Code, Ops
    <2> QED BY <1>3, <2>1, <2>2 DEF Outline, IntParts
<1>4. CASE part = "vm_part2"
    <2>1. Len(notmain) = 19 /\ DOMAIN notmain = 1 .. 19 /\ EnterAt = 9 /\ LeaveAt = 17
        BY <1>4, Vm2Code DEF EnterAt, LeaveAt
    <2>2. /\ notmain[1].op = "interrupts_init" /\ notmain[2].op = "store"
          /\ notmain[3].op = "store" /\ notmain[4].op = "map"
          /\ notmain[5].op = "map" /\ notmain[6].op = "map"
          /\ notmain[7].op = "map" /\ notmain[8].op = "map"
          /\ notmain[9].op = "enter" /\ notmain[10].op = "assert_sys_mmu"
          /\ notmain[11].op = "assert" /\ notmain[12].op = "load"
          /\ notmain[13].op = "store" /\ notmain[14].op = "map"
          /\ notmain[15].op = "load" /\ notmain[16].op = "assert"
          /\ notmain[17].op = "leave" /\ notmain[18].op = "env_free"
          /\ notmain[19].op = "clean_reboot"
        BY <1>4, Vm2Code, Ops
    <2> QED BY <1>4, <2>1, <2>2 DEF Outline, IntParts
<1>5. CASE part = "vm_part3"
    <2>1. Len(notmain) = 16 /\ DOMAIN notmain = 1 .. 16 /\ EnterAt = 8 /\ LeaveAt = 14
        BY <1>5, Vm3Code DEF EnterAt, LeaveAt
    <2>2. /\ notmain[1].op = "interrupts_init" /\ notmain[2].op = "store"
          /\ notmain[3].op = "map" /\ notmain[4].op = "map"
          /\ notmain[5].op = "map" /\ notmain[6].op = "map"
          /\ notmain[7].op = "map" /\ notmain[8].op = "enter"
          /\ notmain[9].op = "assert_sys_mmu" /\ notmain[10].op = "load"
          /\ notmain[11].op = "map" /\ notmain[12].op = "load"
          /\ notmain[13].op = "assert" /\ notmain[14].op = "leave"
          /\ notmain[15].op = "env_free" /\ notmain[16].op = "clean_reboot"
        BY <1>5, Vm3Code, Ops
    <2> QED BY <1>5, <2>1, <2>2 DEF Outline, IntParts
<1>6. CASE part = "vm_part4"
    <2>1. Len(notmain) = 19 /\ DOMAIN notmain = 1 .. 19 /\ EnterAt = 10 /\ LeaveAt = 17
        BY <1>6, Vm4Code DEF EnterAt, LeaveAt
    <2>2. /\ notmain[1].op = "interrupts_init" /\ notmain[2].op = "store"
          /\ notmain[3].op = "store" /\ notmain[4].op = "map"
          /\ notmain[5].op = "map" /\ notmain[6].op = "map"
          /\ notmain[7].op = "map" /\ notmain[8].op = "map"
          /\ notmain[9].op = "map" /\ notmain[10].op = "enter"
          /\ notmain[11].op = "assert_sys_mmu" /\ notmain[12].op = "load"
          /\ notmain[13].op = "load" /\ notmain[14].op = "load"
          /\ notmain[15].op = "assert" /\ notmain[16].op = "assert"
          /\ notmain[17].op = "leave" /\ notmain[18].op = "env_free"
          /\ notmain[19].op = "clean_reboot"
        BY <1>6, Vm4Code, Ops
    <2> QED BY <1>6, <2>1, <2>2 DEF Outline, IntParts
<1>7. CASE part = "vm_part5"
    <2>1. Len(notmain) = 17 /\ DOMAIN notmain = 1 .. 17 /\ EnterAt = 11 /\ LeaveAt = 15
        BY <1>7, Vm5Code DEF EnterAt, LeaveAt
    <2>2. /\ notmain[1].op = "interrupts_init" /\ notmain[2].op = "map"
          /\ notmain[3].op = "map" /\ notmain[4].op = "swi_setup_stack"
          /\ notmain[5].op = "map" /\ notmain[6].op = "map"
          /\ notmain[7].op = "map" /\ notmain[8].op = "map"
          /\ notmain[9].op = "map" /\ notmain[10].op = "map"
          /\ notmain[11].op = "enter" /\ notmain[12].op = "assert_sys_mmu"
          /\ notmain[13].op = "user" /\ notmain[14].op = "load"
          /\ notmain[15].op = "leave" /\ notmain[16].op = "env_free"
          /\ notmain[17].op = "clean_reboot"
        BY <1>7, Vm5Code, Ops
    <2> QED BY <1>7, <2>1, <2>2 DEF Outline, IntParts
<1>8. CASE part = "vm_part6"
    <2>1. Len(notmain) = 16 /\ DOMAIN notmain = 1 .. 16 /\ EnterAt = 11 /\ LeaveAt = 14
        BY <1>8, Vm6Code DEF EnterAt, LeaveAt
    <2>2. /\ notmain[1].op = "interrupts_init" /\ notmain[2].op = "store"
          /\ notmain[3].op = "map" /\ notmain[4].op = "swi_setup_stack"
          /\ notmain[5].op = "map" /\ notmain[6].op = "map"
          /\ notmain[7].op = "map" /\ notmain[8].op = "map"
          /\ notmain[9].op = "map" /\ notmain[10].op = "map"
          /\ notmain[11].op = "enter" /\ notmain[12].op = "assert_sys_mmu"
          /\ notmain[13].op = "load" /\ notmain[14].op = "leave"
          /\ notmain[15].op = "env_free" /\ notmain[16].op = "clean_reboot"
        BY <1>8, Vm6Code, Ops
    <2> QED BY <1>8, <2>1, <2>2 DEF Outline, IntParts
<1>9. CASE part = "int_part2"
    <2>1. PICK n \in Nat : n = Calls
        BY Zenon, CallsAssumption DEF CallsAssumption
    <2>2. /\ Len(notmain) = 14 + 2 * n /\ DOMAIN notmain = 1 .. 14 + 2 * n
          /\ EnterAt = 9 /\ LeaveAt = 12 + 2 * n
        BY <1>9, <2>1, Int2Code DEF EnterAt, LeaveAt
    <2>3. /\ notmain[1].op = "interrupts_init" /\ notmain[2].op = "interrupts_init"
          /\ notmain[3].op = "map" /\ notmain[4].op = "map"
          /\ notmain[5].op = "map" /\ notmain[6].op = "map"
          /\ notmain[7].op = "map" /\ notmain[8].op = "map"
          /\ notmain[9].op = "enter" /\ notmain[10].op = "assert_sys_mmu"
          /\ notmain[11].op = "swi_setup_stack"
        <3>1. /\ notmain[1] = Do("interrupts_init") /\ notmain[2] = Do("interrupts_init")
              /\ notmain[3] = Map("section", 0) /\ notmain[4] = Map("section", SWI_STACK_ADDR)
              /\ notmain[5] = Map("section", SYS_STACK_ADDR)
              /\ notmain[6] = Map("section", INT_STACK_ADDR)
              /\ notmain[7] = Map("section", MB(512)) /\ notmain[8] = Map("section", MB(514))
              /\ notmain[9] = Do("enter") /\ notmain[10] = Do("assert_sys_mmu")
              /\ notmain[11] = Do("swi_setup_stack")
            BY <1>9, Int2Code
        <3> QED BY <3>1, Ops
    <2>4. \A k \in 12 .. 11 + 2 * n : notmain[k].op = "swi"
        <3>1. \A k \in 12 .. 11 + 2 * n : notmain[k] = Do("swi")
            BY <1>9, <2>1, Int2Code
        <3> QED BY Zenon, <3>1, Ops
    <2>5. /\ notmain[12 + 2 * n].op = "leave" /\ notmain[13 + 2 * n].op = "clean_reboot"
          /\ notmain[14 + 2 * n].op = "clean_reboot"
        <3>1. /\ notmain[12 + 2 * n] = Do("leave") /\ notmain[13 + 2 * n] = Do("clean_reboot")
              /\ notmain[14 + 2 * n] = Do("clean_reboot")
            BY <1>9, <2>1, Int2Code
        <3> QED BY Zenon, <3>1, Ops
    <2>6. \A k \in DOMAIN notmain :
             /\ notmain[k].op = "enter" <=> k = EnterAt
             /\ notmain[k].op = "leave" <=> k = LeaveAt
             /\ notmain[k].op = "clean_reboot" => k > LeaveAt
             /\ notmain[k].op = "user" => part = "vm_part5"
             /\ notmain[k].op = "swi" =>
                   part \in IntParts /\ \E i \in 1 .. k - 1 : notmain[i].op = "swi_setup_stack"
        <3> TAKE k \in DOMAIN notmain
        <3>1. \/ k \in 1 .. 11 \/ k \in 12 .. 11 + 2 * n \/ k = 12 + 2 * n
              \/ k = 13 + 2 * n \/ k = 14 + 2 * n
            BY <2>2
        <3>2. CASE k \in 1 .. 11
            <4>1. /\ notmain[k].op # "swi" /\ notmain[k].op # "leave"
                  /\ notmain[k].op # "clean_reboot" /\ notmain[k].op # "user"
                  /\ (notmain[k].op = "enter" <=> k = 9)
                BY <3>2, <2>3
            <4>2. k # LeaveAt
                BY <3>2, <2>2
            <4> QED BY Zenon, <4>1, <4>2, <2>2
        <3>3. CASE k \in 12 .. 11 + 2 * n
            <4>1. notmain[k].op = "swi" /\ 11 \in 1 .. k - 1 /\ k # EnterAt /\ k # LeaveAt
                BY <3>3, <2>2, <2>4
            <4> QED BY Zenon, <4>1, <2>3, <1>9 DEF IntParts
        <3>4. CASE k \in {12 + 2 * n, 13 + 2 * n, 14 + 2 * n}
            <4>1. k # EnterAt /\ (k = LeaveAt <=> k = 12 + 2 * n)
                  /\ (k # 12 + 2 * n => k > LeaveAt)
                BY <3>4, <2>2
            <4>2. notmain[k].op = IF k = 12 + 2 * n THEN "leave" ELSE "clean_reboot"
                BY <3>4, <2>5
            <4> QED BY <4>1, <4>2
        <3> QED BY <3>1, <3>2, <3>3, <3>4
    <2>7. notmain[Len(notmain)].op = "clean_reboot"
        BY <2>2, <2>5
    <2>8. /\ EnterAt \in Nat /\ LeaveAt \in Nat /\ EnterAt <= LeaveAt
          /\ Len(notmain) \in Nat /\ LeaveAt < Len(notmain) /\ DOMAIN notmain = 1 .. Len(notmain)
        BY <2>2
    <2> QED BY <2>6, <2>7, <2>8 DEF Outline
<1> QED BY <1>1, <1>2, <1>3, <1>4, <1>5, <1>6, <1>7, <1>8, <1>9 DEF CoarseParts, FineParts

(* Configuration and test never change, and nothing that depends on them does. *)
LEMMA Constant ==
    ASSUME build' = build, part' = part
    PROVE  /\ notmain' = notmain /\ EnterAt' = EnterAt /\ LeaveAt' = LeaveAt
           /\ SWI_STACK_ADDR' = SWI_STACK_ADDR /\ INT_STACK_ADDR' = INT_STACK_ADDR
           /\ INITIAL_STACK_PTR' = INITIAL_STACK_PTR
<1>1. /\ SWI_STACK_ADDR' = SWI_STACK_ADDR /\ INT_STACK_ADDR' = INT_STACK_ADDR
      /\ INITIAL_STACK_PTR' = INITIAL_STACK_PTR /\ SYS_STACK_ADDR' = SYS_STACK_ADDR
      /\ MAX_STACK_ADDR' = MAX_STACK_ADDR
    BY SMT DEF SWI_STACK_ADDR, INT_STACK_ADDR, INITIAL_STACK_PTR, SYS_STACK_ADDR, MAX_STACK_ADDR
<1>2. EnterAt' = EnterAt /\ LeaveAt' = LeaveAt
    BY SMT DEF EnterAt, LeaveAt
<1>3. Stacks' = Stacks /\ KernelMaps' = KernelMaps /\ FineStacks' = FineStacks
    BY SMT, <1>1 DEF Stacks, KernelMaps, FineStacks
<1>4. /\ int_part1' = int_part1 /\ int_part2' = int_part2
      /\ vm_part2' = vm_part2 /\ vm_part3' = vm_part3
      /\ vm_part4' = vm_part4 /\ vm_part5' = vm_part5 /\ vm_part6' = vm_part6
    BY SMT, <1>1, <1>3 DEF int_part1, int_part2, vm_part2, vm_part3,
       vm_part4, vm_part5, vm_part6
<1>5. Test' = Test
    BY SMT, <1>4 DEF Test
<1>6. notmain' = notmain
    BY SMT, <1>5 DEF notmain
<1> QED BY <1>1, <1>2, <1>6

-----------------------------------------------------------------------------
(* In the layout a test is written for, the map calls before enter cover the
   system stack, 64KB under each stack of a handler that runs, and the UART;
   in the other layout two of them collide, so the test panics before enter. *)
Cover(a) ==
    \E i \in 1 .. EnterAt - 1 : /\ notmain[i].op = "map" /\ notmain[i].m.usr
                                /\ notmain[i].m.lo <= a /\ a < notmain[i].m.hi
Clash(m, n) == \/ m.lo < n.hi /\ n.lo < m.hi
               \/ (m.section \/ n.section) /\ m.lo \div MB(1) = n.lo \div MB(1)
Clashing ==
    \E i \in 1 .. EnterAt - 1 : \E j \in 1 .. i - 1 :
       /\ notmain[i].op = "map" /\ notmain[j].op = "map"
       /\ Clash(notmain[i].m, notmain[j].m)

CoversStacks ==
    /\ Cover(INITIAL_STACK_PTR - 4) /\ Cover(UART)
    /\ \A a \in INT_STACK_ADDR - KB64(1) .. INT_STACK_ADDR - 1 : Cover(a)
    /\ part \in IntParts => \A a \in SWI_STACK_ADDR - KB64(1) .. SWI_STACK_ADDR - 1 : Cover(a)

LEMMA Coverage ==
    ASSUME part \in (CoarseParts \cup FineParts) \ {"int_part0", "vm_part1"},
           part \in FineParts => build.advanced
    PROVE  IF LayoutFits THEN CoversStacks ELSE Clashing
<1>1. CASE part \in {"int_part1", "int_part2"}
    <2>1. /\ notmain[3] = Map("section", 0) /\ notmain[4] = Map("section", SWI_STACK_ADDR)
          /\ notmain[5] = Map("section", SYS_STACK_ADDR)
          /\ notmain[6] = Map("section", INT_STACK_ADDR) /\ notmain[8] = Map("section", MB(514))
          /\ EnterAt = 9
        BY Zenon, <1>1, Int1Code, Int2Code DEF EnterAt
    <2>2. LayoutFits <=> ~build.advanced
        BY <1>1 DEF LayoutFits, FineParts
    <2>3. CASE ~build.advanced
        <3>1. /\ notmain[3].op = "map" /\ notmain[3].m.usr
              /\ notmain[3].m.lo = 0 /\ notmain[3].m.hi = 1048576
            BY SMT, <2>1, SectionRegion
        <3>2. /\ notmain[4].op = "map" /\ notmain[4].m.usr
              /\ notmain[4].m.lo = 2097152 /\ notmain[4].m.hi = 3145728
            BY SMT, <2>1, <2>3, Layout, SectionRegion
        <3>3. /\ notmain[5].op = "map" /\ notmain[5].m.usr
              /\ notmain[5].m.lo = 1048576 /\ notmain[5].m.hi = 2097152
            BY SMT, <2>1, <2>3, Layout, SectionRegion
        <3>4. /\ notmain[8].op = "map" /\ notmain[8].m.usr
              /\ notmain[8].m.lo = 538968064 /\ notmain[8].m.hi = 540016640
            BY SMT, <2>1, <2>3, Layout, SectionRegion
        <3>5. Cover(INITIAL_STACK_PTR - 4)
            BY SMT, <2>1, <2>3, <3>1, Layout DEF Cover
        <3>6. Cover(UART)
            BY SMT, <2>1, <3>4 DEF Cover, UART
        <3>7. \A a \in INT_STACK_ADDR - KB64(1) .. INT_STACK_ADDR - 1 : Cover(a)
            BY SMT, <2>1, <2>3, <3>2, Layout DEF Cover
        <3>8. \A a \in SWI_STACK_ADDR - KB64(1) .. SWI_STACK_ADDR - 1 : Cover(a)
            BY SMT, <2>1, <2>3, <3>3, Layout DEF Cover
        <3> QED BY SMT, <2>2, <2>3, <3>5, <3>6, <3>7, <3>8 DEF CoversStacks
    <2>4. CASE build.advanced
        <3>1. /\ notmain[4].op = "map" /\ notmain[4].m.section /\ notmain[4].m.lo = 1048576
              /\ notmain[6].op = "map" /\ notmain[6].m.lo = 1048576
            BY SMT, <2>1, <2>4, Layout, SectionRegion
        <3>2. Clash(notmain[6].m, notmain[4].m)
            BY SMT, <3>1 DEF Clash
        <3>3. 6 \in 1 .. EnterAt - 1 /\ 4 \in 1 .. 6 - 1
            BY SMT, <2>1
        <3>4. Clashing
            BY SMT, <3>1, <3>2, <3>3 DEF Clashing
        <3> QED BY Zenon, <2>2, <2>4, <3>4
    <2> QED BY Zenon, <2>3, <2>4
<1>2. CASE part \in {"vm_part2", "vm_part3", "vm_part4"}
    <2>1. PICK b \in {3, 4} :
             /\ notmain[b] = Map("section", 0)
             /\ notmain[b + 2] = Map("section", MB(514))
             /\ notmain[b + 3] = Map("section", INT_STACK_ADDR - MB(1))
             /\ b + 3 \in 1 .. EnterAt - 1 /\ EnterAt \in Nat
        <3>1. CASE part = "vm_part2"
            BY SMT, <3>1, Vm2Code DEF EnterAt
        <3>2. CASE part = "vm_part3"
            BY SMT, <3>2, Vm3Code DEF EnterAt
        <3>3. CASE part = "vm_part4"
            BY SMT, <3>3, Vm4Code DEF EnterAt
        <3> QED BY Zenon, <1>2, <3>1, <3>2, <3>3
    <2>2. LayoutFits <=> ~build.advanced
        BY <1>2 DEF LayoutFits, FineParts
    <2>3. part \notin IntParts
        BY Zenon, <1>2 DEF IntParts
    <2>4. /\ notmain[b].op = "map" /\ notmain[b].m.usr /\ notmain[b].m.section
          /\ notmain[b].m.lo = 0 /\ notmain[b].m.hi = 1048576
        BY SMT, <2>1, SectionRegion
    <2>5. /\ b \in 1 .. EnterAt - 1 /\ b + 2 \in 1 .. EnterAt - 1 /\ b + 3 \in 1 .. EnterAt - 1
          /\ b \in 1 .. (b + 3) - 1
        BY SMT, <2>1
    <2>6. CASE ~build.advanced
        <3>2. /\ notmain[b + 3].op = "map" /\ notmain[b + 3].m.usr
              /\ notmain[b + 3].m.lo = 2097152 /\ notmain[b + 3].m.hi = 3145728
            BY SMT, <2>1, <2>6, Layout, SectionRegion
        <3>4. /\ notmain[b + 2].op = "map" /\ notmain[b + 2].m.usr
              /\ notmain[b + 2].m.lo = 538968064 /\ notmain[b + 2].m.hi = 540016640
            BY SMT, <2>1, <2>6, Layout, SectionRegion
        <3>5. Cover(INITIAL_STACK_PTR - 4)
            BY SMT, <2>4, <2>5, <2>6, Layout DEF Cover
        <3>6. Cover(UART)
            BY SMT, <2>5, <3>4 DEF Cover, UART
        <3>7. \A a \in INT_STACK_ADDR - KB64(1) .. INT_STACK_ADDR - 1 : Cover(a)
            BY SMT, <2>5, <2>6, <3>2, Layout DEF Cover
        <3> QED BY SMT, <2>2, <2>3, <2>6, <3>5, <3>6, <3>7 DEF CoversStacks
    <2>7. CASE build.advanced
        <3>1. /\ notmain[b + 3].op = "map" /\ notmain[b + 3].m.section
              /\ notmain[b + 3].m.lo = 0
            BY SMT, <2>1, <2>7, Layout, SectionRegion
        <3>2. Clash(notmain[b + 3].m, notmain[b].m)
            BY SMT, <3>1, <2>4 DEF Clash
        <3>4. Clashing
            BY SMT, <2>4, <3>1, <3>2, <2>5 DEF Clashing
        <3> QED BY Zenon, <2>2, <2>7, <3>4
    <2> QED BY Zenon, <2>6, <2>7
<1>3. CASE part \in FineParts
    <2>1. LayoutFits /\ build.advanced /\ part \notin IntParts /\ EnterAt = 11
        BY <1>3 DEF LayoutFits, FineParts, IntParts, EnterAt
    <2>2. /\ notmain[6] = Map("lg", INT_STACK_ADDR - KB64(1))
          /\ notmain[10] = Map("section", MB(514))
          /\ \/ notmain[8] = Map("section", SYS_STACK_ADDR - MB(1))
             \/ notmain[8] = Map("lg", SYS_STACK_ADDR - KB64(1))
        <3>1. CASE part = "vm_part5"
            BY <3>1, Vm5Code
        <3>2. CASE part = "vm_part6"
            BY <3>2, Vm6Code
        <3> QED BY Zenon, <1>3, <3>1, <3>2 DEF FineParts
    <2>3. /\ notmain[6].op = "map" /\ notmain[6].m.usr
          /\ notmain[6].m.lo = 1179648 /\ notmain[6].m.hi = 1245184
        <3>1. PICK va \in Int : va = INT_STACK_ADDR - KB64(1)
            BY SMT, <2>1, Layout
        <3>2. notmain[6] = Map("lg", va)
            BY Zenon, <2>2, <3>1
        <3>3. va = 1179648 /\ va + 65536 = 1245184
            BY SMT, <2>1, <3>1, Layout
        <3> QED BY SMT, <3>2, <3>3, PageRegion
    <2>4. /\ notmain[10].op = "map" /\ notmain[10].m.usr
          /\ notmain[10].m.lo = 538968064 /\ notmain[10].m.hi = 540016640
        BY SMT, <2>2, Layout, SectionRegion
    <2>5. /\ notmain[8].op = "map" /\ notmain[8].m.usr /\ notmain[8].m.lo \in Int
          /\ notmain[8].m.lo <= 4128768 /\ notmain[8].m.hi = 4194304
        <3>1. CASE notmain[8] = Map("section", SYS_STACK_ADDR - MB(1))
            <4>1. SYS_STACK_ADDR - MB(1) = 3145728
                BY SMT, <2>1, Layout
            <4>2. notmain[8].m.lo = 3145728 /\ notmain[8].m.hi = 4194304
                BY SMT, <3>1, <4>1, SectionRegion
            <4> QED BY SMT, <3>1, <4>1, <4>2, SectionRegion
        <3>2. CASE notmain[8] = Map("lg", SYS_STACK_ADDR - KB64(1))
            BY SMT, <2>1, <3>2, Layout, PageRegion
        <3> QED BY SMT, <2>2, <3>1, <3>2
    <2>7. Cover(INITIAL_STACK_PTR - 4)
        BY SMT, <2>1, <2>5, Layout DEF Cover
    <2>8. Cover(UART)
        BY SMT, <2>1, <2>4 DEF Cover, UART
    <2>9. \A a \in INT_STACK_ADDR - KB64(1) .. INT_STACK_ADDR - 1 : Cover(a)
        BY SMT, <2>1, <2>3, Layout DEF Cover
    <2> QED BY SMT, <2>1, <2>7, <2>8, <2>9 DEF CoversStacks
<1> QED BY Zenon, <1>1, <1>2, <1>3 DEF CoarseParts, FineParts

(* PART1 maps the first megabyte and uses the byte at 0x400. *)
LEMMA Part1 ==
    ASSUME part = "vm_part1"
    PROVE  /\ EnterAt = 4 /\ LeaveAt = 7
           /\ notmain[3].op = "map" /\ notmain[3].m.usr
           /\ notmain[3].m.lo = 0 /\ notmain[3].m.hi = 1048576
           /\ \A k \in DOMAIN notmain : notmain[k].op = "map" => k = 3
           /\ \A k \in EnterAt .. LeaveAt : \/ notmain[k].op = "assert" /\ notmain[k].a = CODE
                                            \/ notmain[k].op \in {"enter", "assert_sys_mmu", "leave"}
<1>1. EnterAt = 4 /\ LeaveAt = 7
    BY DEF EnterAt, LeaveAt
<1>2. /\ notmain[3].op = "map" /\ notmain[3].m.usr
      /\ notmain[3].m.lo = 0 /\ notmain[3].m.hi = 1048576
    BY SMT, Vm1Code, SectionRegion
<1>3. /\ notmain[1].op = "interrupts_init" /\ notmain[2].op = "store"
      /\ notmain[4].op = "enter" /\ notmain[5].op = "assert_sys_mmu"
      /\ notmain[6].op = "assert" /\ notmain[6].a = CODE
      /\ notmain[7].op = "leave" /\ notmain[8].op = "env_free"
      /\ notmain[9].op = "clean_reboot" /\ DOMAIN notmain = 1 .. 9 /\ notmain[6].op # "map"
    BY Vm1Code, Ops
<1>4. \A k \in DOMAIN notmain : notmain[k].op = "map" => k = 3
    BY SMT, <1>3
<1>5. \A k \in 4 .. 7 : \/ notmain[k].op = "assert" /\ notmain[k].a = CODE
                        \/ notmain[k].op \in {"enter", "assert_sys_mmu", "leave"}
    BY SMT, <1>3
<1> QED BY SMT, <1>1, <1>2, <1>4, <1>5

(* It stores 42 there, once, before the MMU is on, and asserts it. *)
LEMMA Part1Byte ==
    ASSUME part = "vm_part1"
    PROVE  /\ EnterAt = 4 /\ DOMAIN notmain = 1 .. 9 /\ notmain[2].op = "store"
           /\ \A k \in DOMAIN notmain :
                 /\ notmain[k].op = "map" => k = 3
                 /\ notmain[k].op \in {"assert", "store"} =>
                       notmain[k].a = CODE /\ notmain[k].v = 42
<1>1. EnterAt = 4
    BY DEF EnterAt
<1>2. /\ notmain[1].op = "interrupts_init" /\ notmain[2].op = "store"
      /\ notmain[3].op = "map" /\ notmain[4].op = "enter" /\ notmain[5].op = "assert_sys_mmu"
      /\ notmain[6].op = "assert" /\ notmain[7].op = "leave" /\ notmain[8].op = "env_free"
      /\ notmain[9].op = "clean_reboot"
      /\ notmain[2].a = CODE /\ notmain[2].v = 42 /\ notmain[6].a = CODE /\ notmain[6].v = 42
    <2>1. /\ notmain[2] = Store(CODE, 42) /\ notmain[6] = AssertByte(CODE, 42)
          /\ notmain[1] = Do("interrupts_init") /\ notmain[3] = Map("section", 0)
          /\ notmain[4] = Do("enter") /\ notmain[5] = Do("assert_sys_mmu")
          /\ notmain[7] = Do("leave") /\ notmain[8] = Do("env_free")
          /\ notmain[9] = Do("clean_reboot")
        BY Vm1Code
    <2>2. /\ notmain[2].op = "store" /\ notmain[2].a = CODE /\ notmain[2].v = 42
          /\ notmain[6].op = "assert" /\ notmain[6].a = CODE /\ notmain[6].v = 42
        BY SMT, <2>1 DEF Store, AssertByte
    <2>3. /\ notmain[1].op = "interrupts_init" /\ notmain[4].op = "enter"
          /\ notmain[5].op = "assert_sys_mmu" /\ notmain[7].op = "leave"
          /\ notmain[8].op = "env_free" /\ notmain[9].op = "clean_reboot"
        BY SMT, <2>1 DEF Do
    <2>4. notmain[3].op = "map"
        BY SMT, <2>1, Ops
    <2> QED BY SMT, <2>2, <2>3, <2>4
<1>3. DOMAIN notmain = 1 .. 9
    BY Vm1Code, Ops
<1>4. \A k \in 1 .. 9 : /\ notmain[k].op = "map" => k = 3
                        /\ notmain[k].op \in {"assert", "store"} =>
                              notmain[k].a = CODE /\ notmain[k].v = 42
    BY SMT, <1>2
<1> QED BY Zenon, <1>1, <1>2, <1>3, <1>4

-----------------------------------------------------------------------------
(* The inductive invariant. *)
SwiStages == {"swi", "handle_swi", "swi_return"}
AbtStages == {"abt", "data_abort_vector", "abt_return", "reboot"}
Over == {"panic", "reset", "hung", "wild"}
Status == [mode : {"SYS", "USR", "SUPER", "ABORT", "UNDEF"}, irqOff : BOOLEAN]

(* The MMU is on from enter to leave. *)
Place ==
    /\ build \in Builds /\ part \in CoarseParts \cup FineParts
    /\ part \in FineParts => build.advanced
    /\ pc \in [at : {"test"} \cup SwiStages \cup AbtStages \cup Over, k : DOMAIN notmain]
    /\ mmu \in BOOLEAN /\ (mmu => EnterAt < pc.k /\ pc.k <= LeaveAt)

(* The map calls of the set-up were made, and none collided. *)
MapCalls == {i \in DOMAIN notmain : notmain[i].op = "map"}
Mapping ==
    /\ \A n \in mapped : \E i \in MapCalls : n = notmain[i].m
    /\ \A i \in 1 .. EnterAt - 1 :
          i < pc.k /\ notmain[i].op = "map" =>
             /\ notmain[i].m \in mapped
             /\ \A j \in 1 .. i - 1 :
                   notmain[j].op = "map" => ~Clash(notmain[i].m, notmain[j].m)

Modes ==
    /\ cpsr \in Status /\ DOMAIN spsr = {"svc", "abt"}
    /\ spsr["svc"] \in Status /\ spsr["svc"].mode = "SYS" /\ spsr["abt"] \in Status
    /\ pc.at = "test" => \/ cpsr.mode = "SYS"
                         \/ cpsr.mode = "USR" /\ part = "vm_part5"
    /\ pc.at \in SwiStages => cpsr.mode = "SUPER"
    /\ pc.at \in AbtStages => cpsr.mode = "ABORT"
    /\ pc.at = "panic" => cpsr.mode # "ABORT"

SwiFrame == SWI_STACK_ADDR - FRAME
AbtFrame == INT_STACK_ADDR - FRAME
Prepared == \E i \in 1 .. pc.k - 1 : notmain[i].op = "swi_setup_stack"
Fault == before["abt"][1]
Pointers ==
    /\ DOMAIN sp = Banks /\ DOMAIN lr = {"svc", "abt"} /\ DOMAIN before = {"svc", "abt"}
    /\ sp["usr"] = INITIAL_STACK_PTR
    /\ sp["svc"] \in {0, SwiFrame, SWI_STACK_ADDR}
    /\ sp["abt"] \in {0, AbtFrame, INT_STACK_ADDR}
    /\ DOMAIN mem \subseteq {SwiFrame, AbtFrame}
    /\ pc.at \in {"handle_swi", "swi_return"} =>
          sp["svc"] = SwiFrame /\ SwiFrame \in DOMAIN mem
    /\ pc.at \in {"test", "swi"} /\ Prepared => sp["svc"] = SWI_STACK_ADDR
    /\ pc.at \in AbtStages /\ Fault.pc.at = "test" /\ Prepared => sp["svc"] = SWI_STACK_ADDR
    /\ pc.at \in {"data_abort_vector", "abt_return"} =>
          sp["abt"] = AbtFrame /\ AbtFrame \in DOMAIN mem

(* What a handler of a call will give back is what the call found. *)
Here == [at |-> "test", k |-> pc.k]
After1 == [at |-> "test", k |-> pc.k + 1]
Panic == [at |-> "panic", k |-> pc.k]
Call == before["svc"][1]
Called ==
    pc.at \in SwiStages =>
       /\ notmain[pc.k].op = "swi"
       /\ Call.cpsr = spsr["svc"] /\ Call.pc = Here
       /\ Call.sp["usr"] = sp["usr"] /\ Call.sp["svc"] = SWI_STACK_ADDR
       /\ pc.at = "swi" => Call.r = r /\ lr["svc"] = After1
       /\ pc.at = "handle_swi" => mem[SwiFrame] = [r |-> Call.r, lr |-> After1]
       /\ pc.at = "swi_return" =>
             mem[SwiFrame] = [r |-> [Call.r EXCEPT ![0] = 13], lr |-> After1]

(* An abort within the abort handler: the reboot touches the watchdog, which
   no test maps; PART1 maps no stack of the fine layout. *)
Nested ==
    /\ spsr["abt"].mode = "ABORT"
    /\ (build.handles /\ Fault.pc.at = "reboot") \/ part = "vm_part1"

(* The abort was taken by an instruction of the test, or by a panic. *)
InTest ==
    /\ notmain[pc.k].op \in {"load", "store", "assert", "map"}
    /\ spsr["abt"].mode \in {"SYS", "USR"}
    /\ spsr["abt"].mode = "USR" => part = "vm_part5"
    /\ Fault.cpsr = spsr["abt"] /\ Fault.pc = Here
    /\ Fault.sp["usr"] = sp["usr"] /\ Fault.sp["svc"] = sp["svc"]
    /\ pc.at = "abt" => Fault.r = r /\ lr["abt"] = Here
    /\ pc.at \in {"data_abort_vector", "abt_return"} =>
          mem[AbtFrame] = [r |-> Fault.r, lr |-> Here]
InPanic ==
    /\ Fault.pc = Panic /\ spsr["abt"].mode # "ABORT"
    /\ pc.at = "abt" => lr["abt"] = Panic
    /\ pc.at \in {"data_abort_vector", "abt_return"} => mem[AbtFrame].lr = Panic

Aborted ==
    /\ cpsr.mode = "ABORT" =>
          /\ mmu /\ (part = "vm_part1" => build.advanced)
          /\ spsr["abt"].mode \in {"SYS", "USR"} \/ Nested \/ Fault.pc.at = "panic"
    /\ pc.at = "panic" /\ mmu /\ part = "vm_part1" => build.advanced
    /\ pc.at \in {"data_abort_vector", "abt_return", "reboot"} => part # "vm_part1"
    /\ pc.at = "abt_return" => ~build.handles
    /\ pc.at = "reboot" => build.handles
    /\ pc.at \in AbtStages /\ part # "vm_part1" => Nested \/ InTest \/ InPanic

IInv == Place /\ Mapping /\ Modes /\ Pointers /\ Called /\ Aborted

(* PART1 finds the byte it stored before the MMU was on. *)
Kept ==
    /\ CODE \in DOMAIN ram
    /\ part = "vm_part1" /\ pc.k > 2 => ram[CODE] = 42

-----------------------------------------------------------------------------
(* Frames and stacks. *)
LEMMA Numbers ==
    /\ SWI_STACK_ADDR \in Int /\ INT_STACK_ADDR \in Int /\ INITIAL_STACK_PTR \in Int
    /\ SWI_STACK_ADDR > 56 /\ INT_STACK_ADDR > 56
    /\ SwiFrame \in Int /\ SwiFrame = SWI_STACK_ADDR - 56 /\ SwiFrame # 0 /\ SwiFrame # SWI_STACK_ADDR
    /\ AbtFrame \in Int /\ AbtFrame = INT_STACK_ADDR - 56 /\ AbtFrame # 0 /\ AbtFrame # INT_STACK_ADDR
    /\ SwiFrame + FRAME = SWI_STACK_ADDR /\ AbtFrame + FRAME = INT_STACK_ADDR
BY SMT, Layout DEF SwiFrame, AbtFrame, FRAME

LEMMA Frames ==
    /\ SwiFrame \in SWI_STACK_ADDR - KB64(1) .. SWI_STACK_ADDR - 1
    /\ SwiFrame - CFrame \in SWI_STACK_ADDR - KB64(1) .. SWI_STACK_ADDR - 1
    /\ AbtFrame \in INT_STACK_ADDR - KB64(1) .. INT_STACK_ADDR - 1
    /\ AbtFrame - CFrame \in INT_STACK_ADDR - KB64(1) .. INT_STACK_ADDR - 1
<1>1. PICK f \in Int : f = CFrame /\ 0 <= f /\ f <= 65480
    BY SMT, CFrameAssumption
<1>2. PICK q \in Int : q = 65536 /\ f + 56 <= q
    BY SMT, <1>1
<1>3. KB64(1) = q
    BY SMT, Layout, <1>2
<1>4. PICK s \in Int : s = SWI_STACK_ADDR /\ s > 56 /\ SwiFrame = s - 56
    BY SMT, Numbers
<1>5. PICK i \in Int : i = INT_STACK_ADDR /\ i > 56 /\ AbtFrame = i - 56
    BY SMT, Numbers
<1>6. /\ s - 56 \in s - q .. s - 1 /\ (s - 56) - f \in s - q .. s - 1
      /\ i - 56 \in i - q .. i - 1 /\ (i - 56) - f \in i - q .. i - 1
    BY SMT, <1>1, <1>2
<1> QED BY SMT, <1>1, <1>3, <1>4, <1>5, <1>6

(* With the MMU on, what the set-up mapped is reached, and nothing collided. *)
LEMMA SetUp ==
    ASSUME IInv, mmu
    PROVE  (\A a : Cover(a) => Reach(a)) /\ ~Clashing
<1>1. EnterAt \in Nat /\ pc.k \in Nat /\ EnterAt < pc.k
    BY TestOutline DEF IInv, Place, Outline
<1>2. ASSUME NEW a, Cover(a) PROVE Reach(a)
    <2>1. PICK i \in 1 .. EnterAt - 1 :
             /\ notmain[i].op = "map" /\ notmain[i].m.usr
             /\ notmain[i].m.lo <= a /\ a < notmain[i].m.hi
        BY <1>2 DEF Cover
    <2>2. notmain[i].m \in mapped
        BY <1>1, <2>1 DEF IInv, Mapping
    <2> QED BY <2>1, <2>2 DEF Reach
<1>3. ~Clashing
    <2>1. \A i \in 1 .. EnterAt - 1 : i < pc.k
        BY <1>1
    <2> QED BY <2>1 DEF Clashing, IInv, Mapping
<1> QED BY <1>2, <1>3

LEMMA Stacked ==
    ASSUME IInv, mmu, part # "vm_part1"
    PROVE  /\ LayoutFits
           /\ Reach(INITIAL_STACK_PTR - 4) /\ Reach(UART)
           /\ Reach(AbtFrame) /\ Reach(AbtFrame - CFrame)
           /\ part \in IntParts => Reach(SwiFrame) /\ Reach(SwiFrame - CFrame)
<1>1. part # "int_part0"
    <2>1. EnterAt < pc.k /\ pc.k <= LeaveAt /\ pc.k \in Nat
        BY TestOutline DEF IInv, Place, Outline
    <2> QED BY <2>1 DEF EnterAt, LeaveAt
<1>2. IF LayoutFits THEN CoversStacks ELSE Clashing
    BY Zenon, <1>1, Coverage DEF IInv, Place
<1>3. LayoutFits /\ CoversStacks
    BY Zenon, <1>2, SetUp
<1>4. /\ Cover(INITIAL_STACK_PTR - 4) /\ Cover(UART) /\ Cover(AbtFrame) /\ Cover(AbtFrame - CFrame)
      /\ part \in IntParts => Cover(SwiFrame) /\ Cover(SwiFrame - CFrame)
    BY Zenon, <1>3, Frames DEF CoversStacks
<1> QED BY Zenon, <1>3, <1>4, SetUp

(* An abort is taken by an access or a map call of a test, except where PART1
   runs with the fine layout and where the handler reboots. *)
LEMMA Faults ==
    ASSUME IInv, ~Reachable
    PROVE  /\ mmu
           /\ \/ pc.at = "test" /\ part # "vm_part1"
                 /\ notmain[pc.k].op \in {"load", "store", "assert", "map"}
              \/ pc.at \in {"test", "abt"} /\ part = "vm_part1" /\ build.advanced
              \/ pc.at = "reboot" /\ part # "vm_part1" /\ build.handles
              \/ pc.at = "panic" /\ (part = "vm_part1" => build.advanced)
<1>1. PICK a \in Touches : ~Reach(a)
    BY DEF Reachable
<1>2. mmu
    BY <1>1 DEF Reach
<1>3. /\ pc.k \in DOMAIN notmain /\ pc.k \in Nat /\ EnterAt < pc.k /\ pc.k <= LeaveAt
      /\ notmain[pc.k].op # "clean_reboot" /\ sp["usr"] = INITIAL_STACK_PTR
    BY <1>2, TestOutline DEF IInv, Place, Outline, Pointers
<1>4. CASE part # "vm_part1"
    <2>1. /\ a # INITIAL_STACK_PTR - 4 /\ a # UART /\ a # AbtFrame /\ a # AbtFrame - CFrame
          /\ part \in IntParts => a # SwiFrame /\ a # SwiFrame - CFrame
        BY Zenon, <1>1, <1>2, <1>4, Stacked
    <2>2. pc.at \in SwiStages => part \in IntParts /\ Prepared
        BY <1>3, TestOutline DEF IInv, Place, Called, Outline, Prepared
    <2>3. pc.at # "swi"
        BY <1>1, <2>1, <2>2 DEF Touches, IInv, Pointers, SwiStages, SwiFrame
    <2>4. pc.at # "handle_swi"
        BY Zenon, <1>1, <2>1, <2>2 DEF Touches, IInv, Pointers, SwiStages
    <2>5. pc.at # "abt"
        BY <1>1, <2>1 DEF Touches, AbtFrame
    <2>6. pc.at # "data_abort_vector"
        BY Zenon, <1>1, <2>1 DEF Touches, IInv, Pointers
    <2>7. CASE pc.at = "test"
        <3>1. a \in Operands
            BY <1>1, <1>3, <2>1, <2>7 DEF Touches
        <3>2. notmain[pc.k].op \in {"load", "store", "assert", "map"}
            BY <1>3, <3>1 DEF Operands, Instruction
        <3> QED BY Zenon, <1>2, <1>4, <2>7, <3>2
    <2>8. CASE pc.at # "test"
        <3>1. pc.at \in {"reboot", "panic"}
            BY <1>1, <2>3, <2>4, <2>5, <2>6, <2>8 DEF Touches
        <3>2. pc.at = "reboot" => build.handles
            BY DEF IInv, Aborted
        <3> QED BY <1>2, <1>4, <3>1, <3>2
    <2> QED BY <2>7, <2>8
<1>5. CASE part = "vm_part1"
    <2>1. pc.at \notin SwiStages
        BY <1>3, <1>5, TestOutline DEF IInv, Called, Place, Outline, IntParts
    <2>2. pc.at \notin {"data_abort_vector", "abt_return", "reboot"}
        BY Zenon, <1>5 DEF IInv, Aborted
    <2>3. pc.at \in {"test", "abt", "panic"}
        BY <1>1, <2>1, <2>2 DEF Touches, SwiStages
    <2>4. CASE build.advanced
        BY Zenon, <1>2, <1>5, <2>3, <2>4
    <2>5. CASE ~build.advanced
        <3>1. pc.at = "test"
            BY <1>2, <1>5, <2>3, <2>5 DEF IInv, Aborted, Modes, AbtStages
        <3>2. Reach(INITIAL_STACK_PTR - 4) /\ Reach(CODE)
            <4>1. Cover(INITIAL_STACK_PTR - 4)
                BY SMT, <1>5, <2>5, Part1, Layout DEF Cover
            <4>2. Cover(CODE)
                BY SMT, <1>5, Part1 DEF Cover, CODE
            <4> QED BY Zenon, <1>2, <4>1, <4>2, SetUp
        <3>3. a \in Operands
            BY <1>1, <1>3, <3>1, <3>2 DEF Touches
        <3>4. pc.k \in EnterAt .. LeaveAt
            BY <1>3, TestOutline DEF Outline, IInv, Place
        <3>5. \/ notmain[pc.k].op = "assert" /\ notmain[pc.k].a = CODE
              \/ notmain[pc.k].op \in {"enter", "assert_sys_mmu", "leave"}
            BY SMT, <1>5, <3>4, Part1
        <3>6. a = CODE
            BY <3>3, <3>5 DEF Operands, Instruction
        <3> QED BY Zenon, <1>1, <3>2, <3>6
    <2> QED BY <2>4, <2>5
<1> QED BY <1>4, <1>5

-----------------------------------------------------------------------------
(* The initial states, and the steps. *)
LEMMA InitInv == Init => IInv
<1> SUFFICES ASSUME Init PROVE IInv
    OBVIOUS
<1>1. part \in CoarseParts \cup FineParts /\ pc = [at |-> "test", k |-> 1] /\ mmu = FALSE
    BY Zenon DEF Init
<1>2. 1 \in DOMAIN notmain /\ EnterAt \in Nat
    BY <1>1, TestOutline DEF Outline
<1>3. Place
    <2>1. /\ build \in Builds /\ part \in CoarseParts \cup FineParts
          /\ part \in FineParts => build.advanced
        BY Zenon DEF Init
    <2> QED BY <1>1, <1>2, <2>1 DEF Place
<1>4. Mapping
    <2>1. mapped = {}
        BY Zenon DEF Init
    <2>2. \A i \in 1 .. EnterAt - 1 : ~(i < pc.k)
        BY <1>1, <1>2
    <2> QED BY Zenon, <2>1, <2>2 DEF Mapping
<1>5. Modes
    <2>1. cpsr = [mode |-> "SYS", irqOff |-> FALSE]
          /\ spsr = [b \in {"svc", "abt"} |-> [mode |-> "SYS", irqOff |-> FALSE]]
        BY Zenon DEF Init
    <2> QED BY <1>1, <2>1 DEF Modes, Status, SwiStages, AbtStages
<1>6. Pointers
    <2>1. /\ sp = [b \in Banks |-> IF b = "usr" THEN INITIAL_STACK_PTR ELSE 0]
          /\ lr = [b \in {"svc", "abt"} |-> [at |-> "none", k |-> 0]]
          /\ before = [b \in {"svc", "abt"} |-> <<>>] /\ mem = <<>>
        BY Zenon DEF Init
    <2>2. DOMAIN mem = {}
        BY <2>1
    <2>3. ~Prepared
        BY <1>1 DEF Prepared
    <2> QED BY <1>1, <2>1, <2>2, <2>3 DEF Pointers, Banks, AbtStages
<1>7. Called /\ Aborted
    <2>1. cpsr.mode = "SYS"
        BY Zenon DEF Init
    <2> QED BY <1>1, <2>1 DEF Called, Aborted, SwiStages, AbtStages
<1> QED BY Zenon, <1>3, <1>4, <1>5, <1>6, <1>7 DEF IInv

(* An instruction of a test other than a call, a reset or a panic. *)
LEMMA DoneStep ==
    ASSUME IInv, pc.at = "test", Done,
           notmain[pc.k].op \notin {"clean_reboot", "swi"},
           cpsr' \in Status,
           \/ cpsr'.mode = "SYS"
           \/ cpsr'.mode = "USR" /\ part = "vm_part5",
           sp' = IF notmain[pc.k].op = "swi_setup_stack"
                 THEN [sp EXCEPT !["svc"] = SWI_STACK_ADDR] ELSE sp,
           mem' = mem,
           mmu' = CASE notmain[pc.k].op = "enter" -> TRUE
                    [] notmain[pc.k].op = "leave" -> FALSE [] OTHER -> mmu,
           IF notmain[pc.k].op = "map"
           THEN ~Collides(notmain[pc.k].m) /\ mapped' = mapped \cup {notmain[pc.k].m}
           ELSE mapped' = mapped
    PROVE  IInv'
<1>1. pc' = [pc EXCEPT !.k = @ + 1] /\ UNCHANGED <<build, part, spsr, lr, before>>
    BY DEF Done
<1>2. /\ notmain' = notmain /\ EnterAt' = EnterAt /\ LeaveAt' = LeaveAt
      /\ SWI_STACK_ADDR' = SWI_STACK_ADDR /\ INT_STACK_ADDR' = INT_STACK_ADDR
      /\ INITIAL_STACK_PTR' = INITIAL_STACK_PTR
    BY Zenon, <1>1, Constant
<1>3. SwiFrame' = SwiFrame /\ AbtFrame' = AbtFrame
    BY <1>2 DEF SwiFrame, AbtFrame
<1>4. /\ pc'.at = "test" /\ pc'.k = pc.k + 1 /\ pc.k \in DOMAIN notmain
      /\ pc \in [at : {"test"} \cup SwiStages \cup AbtStages \cup Over, k : DOMAIN notmain]
    BY <1>1 DEF IInv, Place
<1>5. Outline
    BY Zenon, TestOutline DEF IInv, Place
<1>6. /\ pc.k \in Nat /\ EnterAt \in Nat /\ LeaveAt \in Nat
      /\ pc'.k \in DOMAIN notmain
      /\ mmu' => EnterAt < pc'.k /\ pc'.k <= LeaveAt
      /\ mmu' \in BOOLEAN
    <2>0. pc.k \in 1 .. Len(notmain) /\ EnterAt \in Nat /\ LeaveAt \in Nat
        BY <1>4, <1>5 DEF Outline
    <2>1. /\ pc.k \in 1 .. Len(notmain) /\ Len(notmain) \in Nat /\ EnterAt \in Nat /\ LeaveAt \in Nat
          /\ DOMAIN notmain = 1 .. Len(notmain)
          /\ EnterAt <= LeaveAt /\ mmu \in BOOLEAN /\ (mmu => EnterAt < pc.k /\ pc.k <= LeaveAt)
          /\ (notmain[pc.k].op = "enter" <=> pc.k = EnterAt)
          /\ (notmain[pc.k].op = "leave" <=> pc.k = LeaveAt)
          /\ pc.k # Len(notmain)
        BY <1>4, <1>5 DEF Outline, IInv, Place
    <2>2. pc'.k \in DOMAIN notmain
        BY <1>4, <2>1
    <2>3. CASE notmain[pc.k].op = "enter"
        BY <1>4, <2>1, <2>2, <2>3
    <2>4. CASE notmain[pc.k].op = "leave"
        BY <1>4, <2>1, <2>2, <2>4
    <2>5. CASE notmain[pc.k].op # "enter" /\ notmain[pc.k].op # "leave"
        <3>1. mmu' = mmu
            BY <2>5
        <3>2. CASE mmu = TRUE
            BY <1>4, <2>1, <2>2, <2>5, <3>1, <3>2
        <3>3. CASE mmu = FALSE
            <4>1. mmu' = FALSE
                BY Zenon, <3>1, <3>3
            <4>2. ~mmu' /\ mmu' \in BOOLEAN
                BY <4>1
            <4>3. pc.k \in Nat /\ EnterAt \in Nat /\ LeaveAt \in Nat
                BY <2>0
            <4> QED BY Zenon, <2>2, <4>2, <4>3
        <3>4. mmu = TRUE \/ mmu = FALSE
            <4>1. mmu \in BOOLEAN
                BY Zenon DEF IInv, Place
            <4> QED BY <4>1
        <3> QED BY Zenon, <3>2, <3>3, <3>4
    <2> QED BY <2>3, <2>4, <2>5
<1>7. Place'
    <2>1. pc' \in [at : {"test"} \cup SwiStages \cup AbtStages \cup Over, k : DOMAIN notmain]
        <3>1. pc' = [at |-> "test", k |-> pc.k + 1]
            BY <1>1, <1>4
        <3>2. pc.k + 1 \in DOMAIN notmain
            BY Zenon, <1>4, <1>6
        <3> QED BY <3>1, <3>2
    <2> QED BY <1>1, <1>2, <1>6, <2>1 DEF Place, IInv, SwiStages, AbtStages, Over,
                CoarseParts, FineParts
<1>8. Mapping'
    <2>1. \A n \in mapped' : \E i \in MapCalls : n = notmain[i].m
        BY <1>4 DEF IInv, Mapping, MapCalls
    <2>2. ASSUME NEW i \in 1 .. EnterAt - 1, i < pc.k + 1, notmain[i].op = "map"
          PROVE  /\ notmain[i].m \in mapped'
                 /\ \A j \in 1 .. i - 1 :
                       notmain[j].op = "map" => ~Clash(notmain[i].m, notmain[j].m)
        <3>1. CASE i < pc.k
            BY <2>2, <3>1 DEF IInv, Mapping
        <3>2. CASE ~(i < pc.k)
            <4>1. i = pc.k
                BY <1>6, <2>2, <3>2
            <4>2. notmain[i].m \in mapped' /\ ~Collides(notmain[i].m)
                BY <2>2, <4>1
            <4>3. ASSUME NEW j \in 1 .. i - 1, notmain[j].op = "map"
                  PROVE  ~Clash(notmain[i].m, notmain[j].m)
                <5>1. j \in 1 .. EnterAt - 1 /\ j < pc.k
                    BY <1>6, <4>1, <4>3
                <5>2. notmain[j].m \in mapped
                    BY <4>3, <5>1 DEF IInv, Mapping
                <5> QED BY Zenon, <4>2, <5>2 DEF Collides, Clash
            <4> QED BY <4>2, <4>3
        <3> QED BY <3>1, <3>2
    <2>3. MapCalls' = MapCalls
        BY <1>2 DEF MapCalls
    <2> QED BY Zenon, <1>2, <1>4, <2>1, <2>2, <2>3 DEF Mapping
<1>9. Modes'
    BY <1>1, <1>4 DEF IInv, Modes, Status, SwiStages, AbtStages
<1>10. Pointers'
    <2>1. Pointers
        BY DEF IInv
    <2>2. /\ DOMAIN sp' = Banks /\ sp'["usr"] = sp["usr"] /\ sp'["abt"] = sp["abt"]
          /\ sp'["svc"] = IF notmain[pc.k].op = "swi_setup_stack" THEN SWI_STACK_ADDR ELSE sp["svc"]
        BY <2>1 DEF Pointers, Banks
    <2>3. ASSUME Prepared' PROVE sp'["svc"] = SWI_STACK_ADDR
        <3>1. PICK i \in 1 .. pc'.k - 1 : notmain[i].op = "swi_setup_stack"
            BY <1>2, <2>3 DEF Prepared
        <3>2. CASE i = pc.k
            BY <2>2, <3>1, <3>2
        <3>3. CASE i # pc.k
            <4>1. i \in 1 .. pc.k - 1
                BY <1>4, <1>6, <3>3
            <4>2. sp["svc"] = SWI_STACK_ADDR
                BY <2>1, <3>1, <4>1 DEF Pointers, Prepared
            <4> QED BY <2>2, <4>2
        <3> QED BY <3>2, <3>3
    <2>4. sp'["svc"] \in {0, SwiFrame, SWI_STACK_ADDR}
        BY Zenon, <2>1, <2>2 DEF Pointers
    <2>5. /\ DOMAIN lr = {"svc", "abt"} /\ DOMAIN before = {"svc", "abt"}
          /\ sp'["usr"] = INITIAL_STACK_PTR /\ sp'["abt"] \in {0, AbtFrame, INT_STACK_ADDR}
          /\ DOMAIN mem' \subseteq {SwiFrame, AbtFrame}
        BY Zenon, <2>1, <2>2 DEF Pointers
    <2> QED BY <1>1, <1>2, <1>3, <1>4, <2>2, <2>3, <2>4, <2>5 DEF Pointers
<1>11. Called' /\ Aborted'
    BY <1>4 DEF Called, Aborted, SwiStages, AbtStages
<1> QED BY Zenon, <1>7, <1>8, <1>9, <1>10, <1>11 DEF IInv

Stages == {"test"} \cup SwiStages \cup AbtStages \cup Over

(* The same instruction, in another stage. *)
LEMMA Still ==
    ASSUME IInv, NEW s \in Stages, pc' = [pc EXCEPT !.at = s],
           UNCHANGED <<build, part, mmu, mapped>>
    PROVE  /\ Place' /\ Mapping'
           /\ notmain' = notmain /\ pc'.at = s /\ pc'.k = pc.k /\ (Prepared' <=> Prepared)
           /\ SWI_STACK_ADDR' = SWI_STACK_ADDR /\ INT_STACK_ADDR' = INT_STACK_ADDR
           /\ INITIAL_STACK_PTR' = INITIAL_STACK_PTR /\ SwiFrame' = SwiFrame /\ AbtFrame' = AbtFrame
           /\ Here' = Here /\ After1' = After1 /\ Panic' = Panic
<1>1. /\ notmain' = notmain /\ EnterAt' = EnterAt /\ LeaveAt' = LeaveAt
      /\ SWI_STACK_ADDR' = SWI_STACK_ADDR /\ INT_STACK_ADDR' = INT_STACK_ADDR
      /\ INITIAL_STACK_PTR' = INITIAL_STACK_PTR
    BY Zenon, Constant
<1>2. SwiFrame' = SwiFrame /\ AbtFrame' = AbtFrame
    BY <1>1 DEF SwiFrame, AbtFrame
<1>3. /\ pc'.at = s /\ pc'.k = pc.k /\ pc' \in [at : Stages, k : DOMAIN notmain]
    BY DEF IInv, Place, Stages
<1>4. Place'
    <2>1. /\ build' \in Builds /\ part' \in CoarseParts \cup FineParts
          /\ part' \in FineParts => build'.advanced
          /\ mmu' \in BOOLEAN /\ (mmu' => EnterAt < pc'.k /\ pc'.k <= LeaveAt)
        BY Zenon, <1>3 DEF IInv, Place
    <2> QED BY <1>1, <1>3, <2>1 DEF Place, Stages, SwiStages, AbtStages, Over, CoarseParts, FineParts
<1>5. Mapping'
    <2>1. MapCalls' = MapCalls
        BY <1>1 DEF MapCalls
    <2> QED BY Zenon, <1>1, <1>3, <2>1 DEF IInv, Mapping
<1>6. Prepared' <=> Prepared
    BY Zenon, <1>1, <1>3 DEF Prepared
<1> QED BY Zenon, <1>1, <1>2, <1>3, <1>4, <1>5, <1>6 DEF Here, After1, Panic

(* The next instruction, after a handler. *)
LEMMA Onward ==
    ASSUME IInv, pc' = After1, UNCHANGED <<build, part, mmu, mapped>>,
           notmain[pc.k].op \notin {"clean_reboot", "enter", "leave", "swi_setup_stack"},
           notmain[pc.k].op # "map" \/ mmu
    PROVE  /\ Place' /\ Mapping' /\ (Prepared' => Prepared)
           /\ SWI_STACK_ADDR' = SWI_STACK_ADDR /\ INT_STACK_ADDR' = INT_STACK_ADDR
           /\ INITIAL_STACK_PTR' = INITIAL_STACK_PTR /\ SwiFrame' = SwiFrame /\ AbtFrame' = AbtFrame
<1>1. /\ notmain' = notmain /\ EnterAt' = EnterAt /\ LeaveAt' = LeaveAt
      /\ SWI_STACK_ADDR' = SWI_STACK_ADDR /\ INT_STACK_ADDR' = INT_STACK_ADDR
      /\ INITIAL_STACK_PTR' = INITIAL_STACK_PTR
    BY Zenon, Constant
<1>2. SwiFrame' = SwiFrame /\ AbtFrame' = AbtFrame
    BY <1>1 DEF SwiFrame, AbtFrame
<1>3. Outline
    BY Zenon, TestOutline DEF IInv, Place
<1>4. /\ pc.k \in 1 .. Len(notmain) /\ Len(notmain) \in Nat /\ EnterAt \in Nat /\ LeaveAt \in Nat
      /\ DOMAIN notmain = 1 .. Len(notmain) /\ pc.k # Len(notmain) /\ pc.k # LeaveAt
    BY <1>3 DEF Outline, IInv, Place
<1>5. pc'.at = "test" /\ pc'.k = pc.k + 1 /\ pc.k + 1 \in DOMAIN notmain
      /\ pc' \in [at : Stages, k : DOMAIN notmain]
    BY <1>4 DEF After1, Stages
<1>6. mmu => EnterAt < pc.k /\ pc.k <= LeaveAt
    BY Zenon DEF IInv, Place
<1>7. mmu' => EnterAt < pc'.k /\ pc'.k <= LeaveAt
    <2>1. EnterAt < pc.k /\ pc.k <= LeaveAt => EnterAt < pc'.k /\ pc'.k <= LeaveAt
        BY <1>4, <1>5
    <2> QED BY Zenon, <1>6, <2>1
<1>8. Place'
    <2>1. /\ build' \in Builds /\ part' \in CoarseParts \cup FineParts
          /\ part' \in FineParts => build'.advanced /\ mmu' \in BOOLEAN
        BY Zenon DEF IInv, Place
    <2>2. mmu' \in BOOLEAN
        BY Zenon DEF IInv, Place
    <2> QED BY <1>1, <1>5, <1>7, <2>1, <2>2 DEF Place, Stages, SwiStages, AbtStages, Over,
               CoarseParts, FineParts
<1>9. Mapping'
    <2>1. MapCalls' = MapCalls
        BY <1>1 DEF MapCalls
    <2>2. ASSUME NEW i \in 1 .. EnterAt - 1, i < pc'.k, notmain[i].op = "map"
          PROVE  i < pc.k
        <3>1. i \in Nat /\ i <= pc.k /\ i < EnterAt
            BY <1>4, <1>5, <2>2
        <3>2. CASE i = pc.k
            BY <1>4, <1>6, <2>2, <3>1, <3>2
        <3> QED BY <1>4, <3>1, <3>2
    <2> QED BY Zenon, <1>1, <2>1, <2>2 DEF IInv, Mapping
<1>10. Prepared' => Prepared
    <2>1. ASSUME NEW i \in 1 .. pc'.k - 1, notmain[i].op = "swi_setup_stack"
          PROVE  i \in 1 .. pc.k - 1
        BY <1>4, <1>5, <2>1
    <2> QED BY Zenon, <1>1, <2>1 DEF Prepared
<1> QED BY Zenon, <1>1, <1>2, <1>8, <1>9, <1>10

(* A panic, or the reset. *)
LEMMA StopStep ==
    ASSUME IInv, NEW how \in {"panic", "reset"}, Stop(how),
           how = "panic" => /\ cpsr.mode # "ABORT"
                            /\ mmu /\ part = "vm_part1" => build.advanced
    PROVE  IInv'
<1>1. /\ pc' = [pc EXCEPT !.at = how] /\ UNCHANGED <<build, part, mmu, mapped>>
      /\ UNCHANGED <<cpsr, spsr, sp, lr, r, mem, before>>
    BY DEF Stop, Goto, regs, space
<1>2. how \in Stages
    BY DEF Stages, Over
<1>3. /\ Place' /\ Mapping'
      /\ pc'.at = how
      /\ SWI_STACK_ADDR' = SWI_STACK_ADDR /\ INT_STACK_ADDR' = INT_STACK_ADDR
      /\ INITIAL_STACK_PTR' = INITIAL_STACK_PTR /\ SwiFrame' = SwiFrame /\ AbtFrame' = AbtFrame
    BY Zenon, <1>1, <1>2, Still
<1>4. pc'.at \notin {"test"} \cup SwiStages \cup AbtStages
    BY <1>3 DEF SwiStages, AbtStages
<1>5. Modes'
    BY <1>1, <1>3, <1>4 DEF IInv, Modes, Status
<1>6. Pointers'
    BY <1>1, <1>3, <1>4 DEF IInv, Pointers, SwiStages, AbtStages, Banks
<1>7. Called'
    BY Zenon, <1>4 DEF Called
<1>8. Aborted'
    <2>1. Fault' = Fault /\ (Nested' <=> Nested)
        BY <1>1 DEF Fault, Nested
    <2> QED BY Zenon, <1>1, <1>3, <1>4, <2>1 DEF IInv, Aborted, AbtStages
<1> QED BY Zenon, <1>3, <1>5, <1>6, <1>7, <1>8 DEF IInv

(* A call is taken. *)
LEMMA SwiStep ==
    ASSUME IInv, swi PROVE IInv'
<1> DEFINE s == IF vectors THEN "swi" ELSE "wild"
<1>1. /\ pc.at = "test" /\ notmain[pc.k].op = "swi"
      /\ pc' = [pc EXCEPT !.at = s]
      /\ spsr' = [spsr EXCEPT !["svc"] = cpsr]
      /\ cpsr' = [mode |-> "SUPER", irqOff |-> TRUE]
      /\ lr' = [lr EXCEPT !["svc"] = [pc EXCEPT !.k = @ + 1]]
      /\ before' = [before EXCEPT !["svc"] = Snapshot]
      /\ UNCHANGED <<build, part, sp, r, mem, mmu, mapped>>
    BY DEF swi, Runs, Take, space, Instruction
<1>2. s \in {"swi", "wild"} /\ s \in Stages
    BY DEF Stages, SwiStages, Over
<1> HIDE DEF s
<1>3. /\ Place' /\ Mapping'
      /\ notmain' = notmain /\ pc'.at = s /\ pc'.k = pc.k /\ (Prepared' <=> Prepared)
      /\ SWI_STACK_ADDR' = SWI_STACK_ADDR /\ INT_STACK_ADDR' = INT_STACK_ADDR
      /\ INITIAL_STACK_PTR' = INITIAL_STACK_PTR /\ SwiFrame' = SwiFrame /\ AbtFrame' = AbtFrame
      /\ Here' = Here /\ After1' = After1 /\ Panic' = Panic
    BY Zenon, <1>1, <1>2, Still
<1>4. pc = Here /\ pc.k \in DOMAIN notmain
    BY <1>1 DEF IInv, Place, Here
<1>5. part \in IntParts /\ Prepared
    BY Zenon, <1>1, <1>4, TestOutline DEF IInv, Place, Outline, Prepared
<1>6. cpsr.mode = "SYS" /\ cpsr \in Status
    BY <1>1, <1>5 DEF IInv, Modes, IntParts
<1>7. Modes'
    <2>1. /\ DOMAIN spsr' = {"svc", "abt"} /\ spsr'["svc"] = cpsr /\ spsr'["abt"] = spsr["abt"]
        BY <1>1 DEF IInv, Modes
    <2>2. cpsr' \in Status /\ cpsr'.mode = "SUPER"
        BY <1>1 DEF Status
    <2>3. pc'.at # "test" /\ pc'.at \notin AbtStages
        BY <1>2, <1>3 DEF AbtStages
    <2>4. spsr["abt"] \in Status
        BY Zenon DEF IInv, Modes
    <2> QED BY <1>6, <2>1, <2>2, <2>3, <2>4 DEF Modes, Status
<1>8. sp["svc"] = SWI_STACK_ADDR
    BY <1>1, <1>5 DEF IInv, Pointers
<1>9. Pointers'
    <2>1. DOMAIN lr' = {"svc", "abt"} /\ DOMAIN before' = {"svc", "abt"}
        BY <1>1 DEF IInv, Pointers
    <2>2. pc'.at \notin {"handle_swi", "swi_return", "data_abort_vector", "abt_return"}
        BY <1>2, <1>3
    <2> QED BY <1>1, <1>3, <1>8, <2>1, <2>2 DEF IInv, Pointers, Banks, AbtStages
<1>10. Called'
    <2>1. /\ before'["svc"] = <<[cpsr |-> cpsr, sp |-> sp, r |-> r, pc |-> pc]>>
          /\ spsr'["svc"] = cpsr
        BY <1>1 DEF IInv, Pointers, Modes, Snapshot
    <2>2. /\ Call'.cpsr = cpsr /\ Call'.sp = sp /\ Call'.r = r /\ Call'.pc = pc
        BY <2>1 DEF Call
    <2>3. lr'["svc"] = After1
        BY <1>1, <1>4 DEF IInv, Pointers, Here, After1
    <2>4. pc'.at \notin {"handle_swi", "swi_return"}
        BY <1>2, <1>3
    <2> QED BY <1>1, <1>3, <1>4, <1>8, <2>1, <2>2, <2>3, <2>4 DEF Called
<1>11. Aborted'
    <2>1. cpsr'.mode # "ABORT" /\ pc'.at \notin AbtStages /\ pc'.at # "panic"
        BY <1>1, <1>2, <1>3 DEF AbtStages
    <2> QED BY <2>1 DEF Aborted, AbtStages
<1> QED BY Zenon, <1>3, <1>7, <1>9, <1>10, <1>11 DEF IInv

(* An abort is taken. *)
LEMMA DataAbortStep ==
    ASSUME IInv, DataAbort PROVE IInv'
<1> DEFINE s == IF vectors THEN "abt" ELSE "wild"
<1>1. /\ pc' = [pc EXCEPT !.at = s]
      /\ spsr' = [spsr EXCEPT !["abt"] = cpsr]
      /\ cpsr' = [mode |-> "ABORT", irqOff |-> TRUE]
      /\ lr' = [lr EXCEPT !["abt"] = pc]
      /\ before' = [before EXCEPT !["abt"] = Snapshot]
      /\ UNCHANGED <<build, part, sp, r, mem, mmu, mapped>>
    BY DEF DataAbort, Take, space
<1>2. s \in {"abt", "wild"} /\ s \in Stages
    BY DEF Stages, AbtStages, Over
<1> HIDE DEF s
<1>3. /\ Place' /\ Mapping'
      /\ notmain' = notmain /\ pc'.at = s /\ pc'.k = pc.k /\ (Prepared' <=> Prepared)
      /\ SWI_STACK_ADDR' = SWI_STACK_ADDR /\ INT_STACK_ADDR' = INT_STACK_ADDR
      /\ INITIAL_STACK_PTR' = INITIAL_STACK_PTR /\ SwiFrame' = SwiFrame /\ AbtFrame' = AbtFrame
      /\ Here' = Here /\ After1' = After1 /\ Panic' = Panic
    BY Zenon, <1>1, <1>2, Still
<1>4. /\ mmu
      /\ \/ pc.at = "test" /\ part # "vm_part1"
            /\ notmain[pc.k].op \in {"load", "store", "assert", "map"}
         \/ pc.at \in {"test", "abt"} /\ part = "vm_part1" /\ build.advanced
         \/ pc.at = "reboot" /\ part # "vm_part1" /\ build.handles
         \/ pc.at = "panic" /\ (part = "vm_part1" => build.advanced)
    BY Faults DEF DataAbort
<1>5. /\ cpsr \in Status /\ DOMAIN spsr' = {"svc", "abt"}
      /\ spsr'["abt"] = cpsr /\ spsr'["svc"] = spsr["svc"]
    BY <1>1 DEF IInv, Modes
<1>6. cpsr'.mode = "ABORT" /\ cpsr' \in Status
    BY <1>1 DEF Status
<1>7. Modes'
    <2>1. pc'.at \notin {"test", "panic"} /\ pc'.at \notin SwiStages
        BY <1>2, <1>3 DEF SwiStages
    <2>2. spsr["svc"] \in Status /\ spsr["svc"].mode = "SYS"
        BY Zenon DEF IInv, Modes
    <2> QED BY <1>5, <1>6, <2>1, <2>2 DEF Modes, Status
<1>8. Pointers'
    <2>1. DOMAIN lr' = {"svc", "abt"} /\ DOMAIN before' = {"svc", "abt"}
        BY <1>1 DEF IInv, Pointers
    <2>2. pc'.at \notin {"handle_swi", "swi_return", "data_abort_vector", "abt_return", "test", "swi"}
        BY <1>2, <1>3
    <2>3. Fault'.pc = pc
        BY <1>1 DEF IInv, Pointers, Snapshot, Fault
    <2>4. Fault'.pc.at = "test" /\ Prepared => sp["svc"] = SWI_STACK_ADDR
        BY <2>3 DEF IInv, Pointers
    <2> QED BY <1>1, <1>3, <2>1, <2>2, <2>4 DEF IInv, Pointers, Banks
<1>9. Called'
    BY <1>2, <1>3 DEF Called, SwiStages
<1>10. Aborted'
    <2>1. /\ before'["abt"] = <<[cpsr |-> cpsr, sp |-> sp, r |-> r, pc |-> pc]>>
          /\ lr'["abt"] = pc
        BY <1>1 DEF IInv, Pointers, Snapshot
    <2>2. /\ Fault'.cpsr = cpsr /\ Fault'.sp = sp /\ Fault'.r = r /\ Fault'.pc = pc
        BY <2>1 DEF Fault
    <2>3. pc'.at \in {"abt", "wild"}
        BY <1>2, <1>3
    <2>4. CASE pc.at = "test" /\ part # "vm_part1"
        <3>1. notmain[pc.k].op \in {"load", "store", "assert", "map"}
            BY <1>4, <2>4
        <3>2. pc = Here
            BY <2>4 DEF IInv, Place, Here
        <3>3. cpsr.mode \in {"SYS", "USR"} /\ (cpsr.mode = "USR" => part = "vm_part5")
            BY <2>4 DEF IInv, Modes
        <3>4. mmu' /\ part' # "vm_part1"
            BY Zenon, <1>1, <1>4, <2>4
        <3>5. InTest'
            BY <1>1, <1>3, <1>5, <2>1, <2>2, <2>3, <3>1, <3>2, <3>3 DEF InTest
        <3> QED BY <1>5, <2>3, <3>3, <3>4, <3>5 DEF Aborted
    <2>5. CASE pc.at \in {"test", "abt"} /\ part = "vm_part1" /\ build.advanced
        <3>1. cpsr.mode \in {"SYS", "USR", "ABORT"}
            BY <2>5 DEF IInv, Modes, AbtStages
        <3>2. mmu' /\ part' = "vm_part1" /\ build' = build
            BY Zenon, <1>1, <1>4, <2>5
        <3> QED BY <1>1, <1>5, <2>3, <2>5, <3>1, <3>2 DEF Aborted, Nested
    <2>6. CASE pc.at = "reboot" /\ part # "vm_part1" /\ build.handles
        <3>1. cpsr.mode = "ABORT"
            BY <2>6 DEF IInv, Modes, AbtStages
        <3>2. mmu' /\ part' # "vm_part1" /\ build'.handles /\ Nested'
            BY <1>1, <1>4, <1>5, <2>2, <2>6, <3>1 DEF Nested
        <3> QED BY <1>1, <1>5, <2>3, <2>6, <3>1, <3>2 DEF Aborted
    <2>7. CASE pc.at = "panic" /\ (part = "vm_part1" => build.advanced)
        <3>1. cpsr.mode # "ABORT"
            BY <2>7 DEF IInv, Modes
        <3>2. pc = Panic
            BY <2>7 DEF IInv, Place, Panic
        <3>3. mmu' /\ (part' = "vm_part1" => build'.advanced)
            BY Zenon, <1>1, <1>4, <2>7
        <3>4. InPanic'
            BY <1>3, <1>5, <2>1, <2>2, <2>3, <3>1, <3>2 DEF InPanic
        <3> QED BY <2>2, <2>3, <2>7, <3>3, <3>4 DEF Aborted
    <2> QED BY Zenon, <1>4, <2>4, <2>5, <2>6, <2>7
<1> QED BY Zenon, <1>3, <1>7, <1>8, <1>9, <1>10 DEF IInv

(* PART1 reaches nothing above the first megabyte. *)
LEMMA Part1Maps ==
    ASSUME IInv, mmu, part = "vm_part1", NEW a \in Int, a >= MB(1) PROVE ~Reach(a)
<1> SUFFICES ASSUME Reach(a) PROVE FALSE
    OBVIOUS
<1>1. PICK m \in mapped : m.lo <= a /\ a < m.hi
    BY DEF Reach
<1>2. m = notmain[3].m
    <2>1. \A i \in MapCalls : i = 3
        BY SMT, Part1 DEF MapCalls
    <2> QED BY Zenon, <2>1 DEF IInv, Mapping
<1>3. m.hi = 1048576
    BY SMT, <1>2, Part1
<1> QED BY SMT, <1>1, <1>3, Layout

(* The stages of a call, then those of an abort. *)
LEMMA SwiAsmStep ==
    ASSUME IInv, software_interrupt_asm PROVE IInv'
<1>1. /\ pc.at = "swi" /\ pc' = [pc EXCEPT !.at = "handle_swi"]
      /\ mem' = [a \in DOMAIN mem \cup {sp["svc"] - FRAME} |->
                    IF a = sp["svc"] - FRAME THEN [r |-> r, lr |-> lr["svc"]] ELSE mem[a]]
      /\ sp' = [sp EXCEPT !["svc"] = sp["svc"] - FRAME]
      /\ UNCHANGED <<build, part, cpsr, spsr, lr, r, mmu, mapped, before>>
    BY DEF software_interrupt_asm, At, Push, Goto
<1>2. "handle_swi" \in Stages
    BY DEF Stages, SwiStages
<1>3. /\ Place' /\ Mapping'
      /\ notmain' = notmain /\ pc'.at = "handle_swi" /\ pc'.k = pc.k
      /\ SWI_STACK_ADDR' = SWI_STACK_ADDR /\ INT_STACK_ADDR' = INT_STACK_ADDR
      /\ INITIAL_STACK_PTR' = INITIAL_STACK_PTR /\ SwiFrame' = SwiFrame /\ AbtFrame' = AbtFrame
      /\ Here' = Here /\ After1' = After1 /\ Panic' = Panic
    BY Zenon, <1>1, <1>2, Still
<1>4. /\ notmain[pc.k].op = "swi" /\ pc.k \in DOMAIN notmain
      /\ Call.cpsr = spsr["svc"] /\ Call.pc = Here
      /\ Call.sp["usr"] = sp["usr"] /\ Call.sp["svc"] = SWI_STACK_ADDR
      /\ Call.r = r /\ lr["svc"] = After1
    BY <1>1 DEF IInv, Called, SwiStages, Place
<1>5. sp["svc"] = SWI_STACK_ADDR
    <2>1. Prepared
        BY Zenon, <1>4, TestOutline DEF IInv, Place, Outline, Prepared
    <2> QED BY <1>1, <2>1 DEF IInv, Pointers
<1>6. sp["svc"] - FRAME = SwiFrame
    BY Zenon, <1>5 DEF SwiFrame
<1>7. /\ DOMAIN mem' \subseteq {SwiFrame, AbtFrame} /\ SwiFrame \in DOMAIN mem'
      /\ mem'[SwiFrame] = [r |-> r, lr |-> lr["svc"]]
    <2>1. DOMAIN mem \subseteq {SwiFrame, AbtFrame}
        BY Zenon DEF IInv, Pointers
    <2> QED BY <1>1, <1>6, <2>1
<1>8. /\ DOMAIN sp' = Banks /\ sp'["svc"] = SwiFrame /\ sp'["usr"] = sp["usr"]
      /\ sp'["abt"] = sp["abt"]
    BY <1>1, <1>6 DEF IInv, Pointers, Banks
<1>9. Modes'
    BY <1>1, <1>3 DEF IInv, Modes, Status, SwiStages, AbtStages
<1>10. Pointers'
    BY <1>1, <1>3, <1>7, <1>8 DEF IInv, Pointers, AbtStages
<1>11. Called'
    BY <1>1, <1>3, <1>4, <1>7, <1>8 DEF Called, Call
<1>12. Aborted'
    <2>1. cpsr.mode = "SUPER"
        BY <1>1 DEF IInv, Modes, SwiStages
    <2>2. cpsr'.mode = "SUPER"
        BY Zenon, <1>1, <2>1
    <2> QED BY <1>3, <2>2 DEF Aborted, AbtStages
<1> QED BY Zenon, <1>3, <1>9, <1>10, <1>11, <1>12 DEF IInv

LEMMA HandleSwiStep ==
    ASSUME IInv, handle_swi PROVE IInv'
<1>1. CASE Stop("panic")
    <2>1. pc.at = "handle_swi"
        BY DEF handle_swi, At
    <2>2. cpsr.mode # "ABORT"
        BY <2>1 DEF IInv, Modes, SwiStages
    <2>3. part # "vm_part1"
        <3>1. notmain[pc.k].op = "swi" /\ pc.k \in DOMAIN notmain
            BY <2>1 DEF IInv, Called, SwiStages, Place
        <3>2. part \in IntParts
            BY Zenon, <3>1, TestOutline DEF IInv, Place, Outline
        <3> QED BY <3>2 DEF IntParts
    <2> QED BY Zenon, <1>1, <2>2, <2>3, StopStep
<1>2. CASE ~Stop("panic")
    <2>1. /\ pc.at = "handle_swi" /\ pc' = [pc EXCEPT !.at = "swi_return"]
          /\ mem' = [mem EXCEPT ![sp["svc"]].r[0] = 13]
          /\ lr' = [lr EXCEPT !["svc"] = [at |-> "swi_return", k |-> 0]]
          /\ UNCHANGED <<build, part, cpsr, spsr, sp, mmu, mapped, before>>
        BY <1>2 DEF handle_swi, At, Ran, Goto
    <2>2. "swi_return" \in Stages
        BY DEF Stages, SwiStages
    <2>3. /\ Place' /\ Mapping'
          /\ notmain' = notmain /\ pc'.at = "swi_return" /\ pc'.k = pc.k
          /\ SWI_STACK_ADDR' = SWI_STACK_ADDR /\ INT_STACK_ADDR' = INT_STACK_ADDR
          /\ INITIAL_STACK_PTR' = INITIAL_STACK_PTR /\ SwiFrame' = SwiFrame /\ AbtFrame' = AbtFrame
          /\ Here' = Here /\ After1' = After1 /\ Panic' = Panic
        BY Zenon, <2>1, <2>2, Still
    <2>4. /\ notmain[pc.k].op = "swi"
          /\ Call.cpsr = spsr["svc"] /\ Call.pc = Here
          /\ Call.sp["usr"] = sp["usr"] /\ Call.sp["svc"] = SWI_STACK_ADDR
          /\ mem[SwiFrame] = [r |-> Call.r, lr |-> After1]
        BY <2>1 DEF IInv, Called, SwiStages
    <2>5. sp["svc"] = SwiFrame /\ SwiFrame \in DOMAIN mem
        BY <2>1 DEF IInv, Pointers
    <2>6. /\ DOMAIN mem' = DOMAIN mem
          /\ mem'[SwiFrame] = [r |-> [Call.r EXCEPT ![0] = 13], lr |-> After1]
        BY <2>1, <2>4, <2>5
    <2>7. Modes'
        BY <2>1, <2>3 DEF IInv, Modes, Status, SwiStages, AbtStages
    <2>8. DOMAIN lr' = {"svc", "abt"}
        BY <2>1 DEF IInv, Pointers
    <2>9. Pointers'
        BY <2>1, <2>3, <2>5, <2>6, <2>8 DEF IInv, Pointers, AbtStages, Banks
    <2>10. Called'
        BY <2>1, <2>3, <2>4, <2>6 DEF Called, Call
    <2>11. Aborted'
        <3>1. cpsr.mode = "SUPER"
            BY <2>1 DEF IInv, Modes, SwiStages
        <3>2. cpsr'.mode = "SUPER"
            BY Zenon, <2>1, <3>1
        <3> QED BY <2>3, <3>2 DEF Aborted, AbtStages
    <2> QED BY Zenon, <2>3, <2>7, <2>9, <2>10, <2>11 DEF IInv
<1> QED BY <1>1, <1>2

(* What a call's return restores. *)
LEMMA SwiReturns ==
    ASSUME IInv, swi_return
    PROVE  /\ pc' = After1 /\ cpsr' = Call.cpsr /\ r' = [Call.r EXCEPT ![0] = 13]
           /\ sp'["usr"] = Call.sp["usr"] /\ sp'["svc"] = Call.sp["svc"] /\ Call.pc = Here
           /\ DOMAIN sp' = Banks /\ sp'["abt"] = sp["abt"] /\ sp'["svc"] = SWI_STACK_ADDR
           /\ DOMAIN lr' = {"svc", "abt"} /\ notmain[pc.k].op = "swi"
           /\ UNCHANGED <<build, part, spsr, mem, mmu, mapped, before>>
<1>1. /\ pc.at = "swi_return"
      /\ r' = mem[sp["svc"]].r
      /\ sp' = [sp EXCEPT !["svc"] = @ + FRAME]
      /\ lr' = [lr EXCEPT !["svc"] = mem[sp["svc"]].lr]
      /\ cpsr' = spsr["svc"] /\ pc' = mem[sp["svc"]].lr
      /\ UNCHANGED <<build, part, spsr, mem, mmu, mapped, before>>
    BY DEF swi_return, Return, space
<1>2. /\ notmain[pc.k].op = "swi"
      /\ Call.cpsr = spsr["svc"] /\ Call.pc = Here
      /\ Call.sp["usr"] = sp["usr"] /\ Call.sp["svc"] = SWI_STACK_ADDR
      /\ mem[SwiFrame] = [r |-> [Call.r EXCEPT ![0] = 13], lr |-> After1]
    BY <1>1 DEF IInv, Called, SwiStages
<1>3. sp["svc"] = SwiFrame /\ DOMAIN sp = Banks /\ DOMAIN lr = {"svc", "abt"}
    BY <1>1 DEF IInv, Pointers
<1>4. mem[SwiFrame].r = [Call.r EXCEPT ![0] = 13] /\ mem[SwiFrame].lr = After1
    BY <1>2
<1>5. /\ DOMAIN sp' = Banks /\ sp'["usr"] = sp["usr"] /\ sp'["abt"] = sp["abt"]
      /\ sp'["svc"] = SwiFrame + FRAME /\ DOMAIN lr' = {"svc", "abt"}
    BY <1>1, <1>3 DEF Banks
<1>6. SwiFrame + FRAME = SWI_STACK_ADDR
    BY SMT, Numbers
<1> QED BY Zenon, <1>1, <1>2, <1>3, <1>4, <1>5, <1>6

LEMMA SwiReturnStep ==
    ASSUME IInv, swi_return PROVE IInv'
<1>1. /\ pc' = After1 /\ cpsr' = spsr["svc"]
      /\ sp'["usr"] = sp["usr"]
      /\ DOMAIN sp' = Banks /\ sp'["abt"] = sp["abt"] /\ sp'["svc"] = SWI_STACK_ADDR
      /\ DOMAIN lr' = {"svc", "abt"} /\ notmain[pc.k].op = "swi"
      /\ UNCHANGED <<build, part, spsr, mem, mmu, mapped, before>>
    <2>1. pc.at \in SwiStages
        BY DEF swi_return, SwiStages
    <2>2. Call.cpsr = spsr["svc"] /\ Call.sp["usr"] = sp["usr"]
        BY Zenon, <2>1 DEF IInv, Called
    <2> QED BY Zenon, <2>2, SwiReturns
<1>2. /\ Place' /\ Mapping' /\ (Prepared' => Prepared)
      /\ SWI_STACK_ADDR' = SWI_STACK_ADDR /\ INT_STACK_ADDR' = INT_STACK_ADDR
      /\ INITIAL_STACK_PTR' = INITIAL_STACK_PTR /\ SwiFrame' = SwiFrame /\ AbtFrame' = AbtFrame
    BY <1>1, Onward
<1>3. pc'.at = "test"
    BY <1>1 DEF After1
<1>4. cpsr' \in Status /\ cpsr'.mode = "SYS"
    BY <1>1 DEF IInv, Modes
<1>5. Modes'
    BY <1>1, <1>3, <1>4 DEF IInv, Modes, Status, SwiStages, AbtStages
<1>6. Pointers'
    BY <1>1, <1>2, <1>3 DEF IInv, Pointers, AbtStages
<1>7. Called' /\ Aborted'
    BY <1>3, <1>4 DEF Called, Aborted, SwiStages, AbtStages
<1> QED BY Zenon, <1>2, <1>5, <1>6, <1>7 DEF IInv

LEMMA AbortAsmStep ==
    ASSUME IInv, data_abort_asm PROVE IInv'
<1>1. /\ pc.at = "abt" /\ pc' = [pc EXCEPT !.at = "data_abort_vector"] /\ Reachable
      /\ mem' = [a \in DOMAIN mem \cup {AbtFrame} |->
                    IF a = AbtFrame THEN [r |-> r, lr |-> lr["abt"]] ELSE mem[a]]
      /\ sp' = [sp EXCEPT !["abt"] = AbtFrame]
      /\ UNCHANGED <<build, part, cpsr, spsr, lr, r, mmu, mapped, before>>
    BY DEF data_abort_asm, At, Push, Goto, AbtFrame
<1>2. "data_abort_vector" \in Stages
    BY DEF Stages, AbtStages
<1>3. /\ Place' /\ Mapping'
      /\ notmain' = notmain /\ pc'.at = "data_abort_vector" /\ pc'.k = pc.k
      /\ (Prepared' <=> Prepared)
      /\ SWI_STACK_ADDR' = SWI_STACK_ADDR /\ INT_STACK_ADDR' = INT_STACK_ADDR
      /\ INITIAL_STACK_PTR' = INITIAL_STACK_PTR /\ SwiFrame' = SwiFrame /\ AbtFrame' = AbtFrame
      /\ Here' = Here /\ After1' = After1 /\ Panic' = Panic
    BY Zenon, <1>1, <1>2, Still
<1>4. cpsr.mode = "ABORT"
    BY <1>1 DEF IInv, Modes, AbtStages
<1>5. part # "vm_part1"
    <2>1. SUFFICES ASSUME part = "vm_part1" PROVE FALSE
        OBVIOUS
    <2>2. mmu /\ build.advanced
        BY Zenon, <1>4, <2>1 DEF IInv, Aborted
    <2>3. Reach(AbtFrame)
        BY <1>1 DEF Reachable, Touches, AbtFrame
    <2>4. AbtFrame \in Int /\ AbtFrame >= MB(1)
        BY SMT, <2>2, Layout, Numbers
    <2> QED BY Zenon, <2>1, <2>2, <2>3, <2>4, Part1Maps
<1>6. /\ DOMAIN mem' \subseteq {SwiFrame, AbtFrame} /\ AbtFrame \in DOMAIN mem'
      /\ mem'[AbtFrame] = [r |-> r, lr |-> lr["abt"]]
    <2>1. DOMAIN mem \subseteq {SwiFrame, AbtFrame}
        BY Zenon DEF IInv, Pointers
    <2> QED BY <1>1, <2>1
<1>7. /\ DOMAIN sp' = Banks /\ sp'["svc"] = sp["svc"] /\ sp'["usr"] = sp["usr"]
      /\ sp'["abt"] = AbtFrame
    BY <1>1 DEF IInv, Pointers, Banks
<1>8. Modes'
    BY <1>1, <1>3 DEF IInv, Modes, Status, SwiStages, AbtStages
<1>9. Pointers'
    <2>1. Fault' = Fault
        BY <1>1 DEF Fault
    <2> QED BY <1>1, <1>3, <1>6, <1>7, <2>1 DEF IInv, Pointers, AbtStages
<1>10. Called'
    BY <1>3 DEF Called, SwiStages
<1>11. Aborted'
    <2>1. Fault' = Fault /\ (Nested' <=> Nested)
        BY <1>1 DEF Fault, Nested
    <2>2. /\ mmu' /\ part' # "vm_part1"
          /\ spsr["abt"].mode \in {"SYS", "USR"} \/ Nested \/ Fault.pc.at = "panic"
        BY Zenon, <1>1, <1>4, <1>5 DEF IInv, Aborted
    <2>3. Nested \/ InTest \/ InPanic
        BY <1>1, <1>5 DEF IInv, Aborted, AbtStages
    <2>4. InTest => InTest'
        BY <1>1, <1>3, <1>6, <1>7, <2>1 DEF InTest
    <2>5. InPanic => InPanic'
        BY <1>1, <1>3, <1>6, <2>1 DEF InPanic
    <2> QED BY <1>1, <1>3, <2>1, <2>2, <2>3, <2>4, <2>5 DEF Aborted
<1> QED BY Zenon, <1>3, <1>8, <1>9, <1>10, <1>11 DEF IInv

LEMMA AbortVectorStep ==
    ASSUME IInv, data_abort_vector PROVE IInv'
<1> DEFINE s == IF build.handles THEN "reboot" ELSE "abt_return"
<1>1. /\ pc.at = "data_abort_vector" /\ pc' = [pc EXCEPT !.at = s]
      /\ lr' = [lr EXCEPT !["abt"] = [at |-> s, k |-> 0]]
      /\ UNCHANGED <<build, part, cpsr, spsr, sp, mem, mmu, mapped, before>>
    BY DEF data_abort_vector, At, Ran, Goto
<1>2. s \in Stages /\ s \in {"reboot", "abt_return"} /\ (s = "reboot" <=> build.handles)
    BY DEF Stages, AbtStages
<1> HIDE DEF s
<1>3. /\ Place' /\ Mapping'
      /\ notmain' = notmain /\ pc'.at = s /\ pc'.k = pc.k
      /\ (Prepared' <=> Prepared)
      /\ SWI_STACK_ADDR' = SWI_STACK_ADDR /\ INT_STACK_ADDR' = INT_STACK_ADDR
      /\ INITIAL_STACK_PTR' = INITIAL_STACK_PTR /\ SwiFrame' = SwiFrame /\ AbtFrame' = AbtFrame
      /\ Here' = Here /\ After1' = After1 /\ Panic' = Panic
    BY Zenon, <1>1, <1>2, Still
<1>4. Modes'
    BY <1>1, <1>2, <1>3 DEF IInv, Modes, Status, SwiStages, AbtStages
<1>5. DOMAIN lr' = {"svc", "abt"}
    BY <1>1 DEF IInv, Pointers
<1>6. Pointers'
    <2>1. Fault' = Fault
        BY <1>1 DEF Fault
    <2> QED BY <1>1, <1>2, <1>3, <1>5, <2>1 DEF IInv, Pointers, AbtStages
<1>7. Called'
    BY <1>2, <1>3 DEF Called, SwiStages
<1>8. Aborted'
    <2>1. /\ cpsr.mode = "ABORT" /\ part # "vm_part1"
        BY <1>1 DEF IInv, Modes, Aborted, AbtStages
    <2>2. Fault' = Fault /\ (Nested' <=> Nested)
        BY <1>1 DEF Fault, Nested
    <2>3. /\ mmu' /\ part' # "vm_part1"
          /\ spsr["abt"].mode \in {"SYS", "USR"} \/ Nested \/ Fault.pc.at = "panic"
        BY Zenon, <1>1, <2>1 DEF IInv, Aborted
    <2>4. pc'.at = "reboot" <=> build'.handles
        BY Zenon, <1>1, <1>2, <1>3
    <2>5. Nested \/ InTest \/ InPanic
        BY <1>1, <2>1 DEF IInv, Aborted, AbtStages
    <2>6. InTest => InTest'
        BY <1>1, <1>2, <1>3, <2>2 DEF InTest
    <2>7. InPanic => InPanic'
        BY <1>1, <1>2, <1>3, <2>2 DEF InPanic
    <2> QED BY <1>1, <1>2, <1>3, <2>2, <2>3, <2>4, <2>5, <2>6, <2>7 DEF Aborted
<1> QED BY Zenon, <1>3, <1>4, <1>6, <1>7, <1>8 DEF IInv

(* What an abort's return restores. *)
LEMMA AbortReturns ==
    ASSUME IInv, data_abort_return, Fault.pc.at # "panic"
    PROVE  /\ pc' = After1 /\ cpsr' = Fault.cpsr /\ r' = Fault.r
           /\ sp'["usr"] = Fault.sp["usr"] /\ sp'["svc"] = Fault.sp["svc"] /\ Fault.pc = Here
           /\ Fault.cpsr = spsr["abt"] /\ spsr["abt"].mode \in {"SYS", "USR"}
           /\ spsr["abt"].mode = "USR" => part = "vm_part5"
           /\ DOMAIN sp' = Banks /\ sp'["usr"] = sp["usr"] /\ sp'["svc"] = sp["svc"]
           /\ sp'["abt"] = INT_STACK_ADDR
           /\ DOMAIN lr' = {"svc", "abt"} /\ mmu
           /\ notmain[pc.k].op \in {"load", "store", "assert", "map"}
           /\ UNCHANGED <<build, part, spsr, mem, mmu, mapped, before>>
<1>1. /\ pc.at = "abt_return"
      /\ r' = mem[sp["abt"]].r
      /\ sp' = [sp EXCEPT !["abt"] = @ + FRAME]
      /\ lr' = [lr EXCEPT !["abt"] = mem[sp["abt"]].lr]
      /\ cpsr' = spsr["abt"] /\ pc' = After(mem[sp["abt"]].lr)
      /\ UNCHANGED <<build, part, spsr, mem, mmu, mapped, before>>
    BY DEF data_abort_return, Return, space
<1>2. pc.at \in AbtStages /\ cpsr.mode = "ABORT"
    BY <1>1 DEF IInv, Modes, AbtStages
<1>3. mmu /\ part # "vm_part1" /\ ~build.handles
    BY Zenon, <1>1, <1>2 DEF IInv, Aborted
<1>4. InTest
    BY <1>2, <1>3 DEF IInv, Aborted, Nested, InPanic, Panic
<1>5. /\ notmain[pc.k].op \in {"load", "store", "assert", "map"}
      /\ spsr["abt"].mode = "USR" => part = "vm_part5"
      /\ Fault.cpsr = spsr["abt"] /\ Fault.pc = Here
      /\ Fault.sp["usr"] = sp["usr"] /\ Fault.sp["svc"] = sp["svc"]
      /\ mem[AbtFrame] = [r |-> Fault.r, lr |-> Here] /\ spsr["abt"].mode \in {"SYS", "USR"}
    BY Zenon, <1>1, <1>4 DEF InTest
<1>6. sp["abt"] = AbtFrame /\ DOMAIN sp = Banks /\ DOMAIN lr = {"svc", "abt"}
    BY <1>1 DEF IInv, Pointers
<1>7. mem[AbtFrame].r = Fault.r /\ mem[AbtFrame].lr = Here
    BY <1>5
<1>8. /\ DOMAIN sp' = Banks /\ sp'["usr"] = sp["usr"] /\ sp'["svc"] = sp["svc"]
      /\ sp'["abt"] = AbtFrame + FRAME /\ DOMAIN lr' = {"svc", "abt"}
    BY <1>1, <1>6 DEF Banks
<1>9. AbtFrame + FRAME = INT_STACK_ADDR
    BY SMT, Numbers
<1>10. After(Here) = After1
    BY DEF After, Here, After1
<1> QED BY Zenon, <1>1, <1>3, <1>4, <1>5, <1>6, <1>7, <1>8, <1>9, <1>10

LEMMA AbortReturnStep ==
    ASSUME IInv, data_abort_return, Fault.pc.at # "panic" PROVE IInv'
<1>1. /\ pc' = After1 /\ cpsr' = spsr["abt"]
      /\ spsr["abt"].mode \in {"SYS", "USR"} /\ (spsr["abt"].mode = "USR" => part = "vm_part5")
      /\ DOMAIN sp' = Banks /\ sp'["usr"] = sp["usr"] /\ sp'["svc"] = sp["svc"]
      /\ sp'["abt"] = INT_STACK_ADDR
      /\ DOMAIN lr' = {"svc", "abt"} /\ mmu
      /\ notmain[pc.k].op \in {"load", "store", "assert", "map"}
      /\ UNCHANGED <<build, part, spsr, mem, mmu, mapped, before>>
    BY Zenon, AbortReturns
<1>2. /\ Place' /\ Mapping' /\ (Prepared' => Prepared)
      /\ SWI_STACK_ADDR' = SWI_STACK_ADDR /\ INT_STACK_ADDR' = INT_STACK_ADDR
      /\ INITIAL_STACK_PTR' = INITIAL_STACK_PTR /\ SwiFrame' = SwiFrame /\ AbtFrame' = AbtFrame
    <2>1. notmain[pc.k].op \notin {"clean_reboot", "enter", "leave", "swi_setup_stack"}
        BY <1>1
    <2> QED BY Zenon, <1>1, <2>1, Onward
<1>3. pc'.at = "test"
    BY <1>1 DEF After1
<1>4. cpsr' \in Status /\ cpsr'.mode \in {"SYS", "USR"} /\ (cpsr'.mode = "USR" => part = "vm_part5")
    BY <1>1 DEF IInv, Modes
<1>5. Modes'
    BY <1>1, <1>3, <1>4 DEF IInv, Modes, Status, SwiStages, AbtStages
<1>6. Prepared => sp["svc"] = SWI_STACK_ADDR
    <2>1. pc.at = "abt_return"
        BY DEF data_abort_return
    <2>2. Fault.pc.at = "test"
        BY AbortReturns DEF Here
    <2> QED BY <2>1, <2>2 DEF IInv, Pointers, AbtStages
<1>7. Pointers'
    BY <1>1, <1>2, <1>3, <1>6 DEF IInv, Pointers, AbtStages
<1>8. Called' /\ Aborted'
    BY <1>3, <1>4 DEF Called, Aborted, SwiStages, AbtStages
<1> QED BY Zenon, <1>2, <1>5, <1>7, <1>8 DEF IInv

(* The return to a panic, which hangs. *)
LEMMA HangStep ==
    ASSUME IInv, data_abort_return, Fault.pc.at = "panic"
    PROVE  IInv' /\ pc'.at = "hung" /\ pc'.k = pc.k
<1>1. /\ pc.at = "abt_return"
      /\ sp' = [sp EXCEPT !["abt"] = @ + FRAME]
      /\ lr' = [lr EXCEPT !["abt"] = mem[sp["abt"]].lr]
      /\ cpsr' = spsr["abt"] /\ pc' = After(mem[sp["abt"]].lr)
      /\ UNCHANGED <<build, part, spsr, mem, mmu, mapped, before>>
    BY DEF data_abort_return, Return, space
<1>2. part # "vm_part1" /\ ~build.handles
    BY Zenon, <1>1 DEF IInv, Aborted
<1>3. InPanic
    BY <1>1, <1>2 DEF IInv, Aborted, AbtStages, Nested, InTest, Here
<1>4. sp["abt"] = AbtFrame /\ DOMAIN sp = Banks /\ DOMAIN lr = {"svc", "abt"}
    BY <1>1 DEF IInv, Pointers
<1>5. pc' = [pc EXCEPT !.at = "hung"]
    <2>1. mem[sp["abt"]].lr = Panic
        BY <1>1, <1>3, <1>4 DEF InPanic
    <2>2. After(Panic) = [at |-> "hung", k |-> pc.k]
        BY DEF After, Panic
    <2> QED BY <1>1, <2>1, <2>2 DEF IInv, Place
<1>6. "hung" \in Stages
    BY DEF Stages, Over
<1>7. /\ Place' /\ Mapping' /\ pc'.at = "hung" /\ pc'.k = pc.k
      /\ SWI_STACK_ADDR' = SWI_STACK_ADDR /\ INT_STACK_ADDR' = INT_STACK_ADDR
      /\ INITIAL_STACK_PTR' = INITIAL_STACK_PTR /\ SwiFrame' = SwiFrame /\ AbtFrame' = AbtFrame
    BY Zenon, <1>1, <1>5, <1>6, Still
<1>8. cpsr' \in Status /\ cpsr'.mode # "ABORT"
    BY <1>1, <1>3 DEF IInv, Modes, InPanic
<1>9. Modes'
    BY <1>1, <1>7, <1>8 DEF IInv, Modes, Status, SwiStages, AbtStages
<1>10. /\ DOMAIN sp' = Banks /\ sp'["usr"] = sp["usr"] /\ sp'["svc"] = sp["svc"]
       /\ sp'["abt"] = INT_STACK_ADDR /\ DOMAIN lr' = {"svc", "abt"}
    <2>1. AbtFrame + FRAME = INT_STACK_ADDR
        BY SMT, Numbers
    <2> QED BY <1>1, <1>4, <2>1 DEF Banks
<1>11. Pointers'
    BY <1>1, <1>7, <1>10 DEF IInv, Pointers, AbtStages
<1>12. Called' /\ Aborted'
    BY <1>7, <1>8 DEF Called, Aborted, SwiStages, AbtStages
<1> QED BY Zenon, <1>7, <1>9, <1>11, <1>12 DEF IInv

(* The instructions of the tests. *)
LEMMA MapStep ==
    ASSUME IInv, map PROVE IInv'
<1>1. pc.at = "test" /\ notmain[pc.k].op = "map"
    BY DEF map, Runs, Instruction
<1>2. CASE Stop("panic")
    <2>1. cpsr.mode # "ABORT"
        BY <1>1 DEF IInv, Modes
    <2>2. mmu /\ part = "vm_part1" => FALSE
        <3>1. mmu => EnterAt < pc.k /\ pc.k \in DOMAIN notmain
            BY DEF IInv, Place
        <3> QED BY SMT, <1>1, <3>1, Part1Byte
    <2> QED BY Zenon, <1>2, <2>1, <2>2, StopStep
<1>3. CASE ~Stop("panic")
    <2>1. /\ ~Collides(notmain[pc.k].m) /\ mapped' = mapped \cup {notmain[pc.k].m}
          /\ Done /\ UNCHANGED <<cpsr, sp, r, mem, ram, mmu, vectors>>
        BY Zenon, <1>3 DEF map, Instruction
    <2>2. cpsr \in Status /\ (cpsr.mode = "SYS" \/ (cpsr.mode = "USR" /\ part = "vm_part5"))
        BY <1>1 DEF IInv, Modes
    <2>3. mmu' = CASE notmain[pc.k].op = "enter" -> TRUE
                   [] notmain[pc.k].op = "leave" -> FALSE [] OTHER -> mmu
        BY <1>1, <2>1
    <2> QED BY <1>1, <2>1, <2>2, <2>3, DoneStep
<1> QED BY <1>2, <1>3

LEMMA MmuStep ==
    ASSUME IInv, mmu_enable \/ mmu_disable PROVE IInv'
<1>1. pc.at = "test" /\ cpsr \in Status /\ (cpsr.mode = "SYS" \/ (cpsr.mode = "USR" /\ part = "vm_part5"))
    BY DEF mmu_enable, mmu_disable, Runs, IInv, Modes
<1>2. CASE mmu_enable
    <2>1. /\ notmain[pc.k].op = "enter" /\ mmu' = TRUE
          /\ Done /\ UNCHANGED <<cpsr, sp, r, mem, ram, mapped, vectors>>
        BY <1>2 DEF mmu_enable, Runs, Instruction
    <2>2. mmu' = CASE notmain[pc.k].op = "enter" -> TRUE
                   [] notmain[pc.k].op = "leave" -> FALSE [] OTHER -> mmu
        BY <2>1
    <2> QED BY <1>1, <2>1, <2>2, DoneStep
<1>3. CASE mmu_disable
    <2>1. CASE cpsr.mode = "USR"
        <3>1. /\ pc' = [pc EXCEPT !.at = "panic"] /\ cpsr' = [mode |-> "UNDEF", irqOff |-> TRUE]
              /\ UNCHANGED <<build, part, spsr, sp, lr, r, mem, mmu, mapped, before>>
            BY <1>3, <2>1 DEF mmu_disable, Goto, space
        <3>2. "panic" \in Stages /\ part # "vm_part1"
            BY <1>1, <2>1 DEF Stages, Over
        <3>3. /\ Place' /\ Mapping' /\ pc'.at = "panic"
              /\ SWI_STACK_ADDR' = SWI_STACK_ADDR /\ INT_STACK_ADDR' = INT_STACK_ADDR
              /\ INITIAL_STACK_PTR' = INITIAL_STACK_PTR /\ SwiFrame' = SwiFrame
              /\ AbtFrame' = AbtFrame
            BY Zenon, <3>1, <3>2, Still
        <3>4. cpsr' \in Status /\ cpsr'.mode = "UNDEF"
            BY <3>1 DEF Status
        <3>5. Modes'
            BY <3>1, <3>3, <3>4 DEF IInv, Modes, Status, SwiStages, AbtStages
        <3>6. Pointers'
            BY <3>1, <3>3 DEF IInv, Pointers, AbtStages, Banks
        <3>7. Called' /\ Aborted'
            BY <3>1, <3>2, <3>3, <3>4 DEF Called, Aborted, SwiStages, AbtStages
        <3> QED BY Zenon, <3>3, <3>5, <3>6, <3>7 DEF IInv
    <2>2. CASE cpsr.mode # "USR"
        <3>1. /\ notmain[pc.k].op = "leave" /\ mmu' = FALSE
              /\ Done /\ UNCHANGED <<cpsr, sp, r, mem, ram, mapped, vectors>>
            BY <1>3, <2>2 DEF mmu_disable, Runs, Instruction
        <3>2. mmu' = CASE notmain[pc.k].op = "enter" -> TRUE
                       [] notmain[pc.k].op = "leave" -> FALSE [] OTHER -> mmu
            BY <3>1
        <3> QED BY <1>1, <3>1, <3>2, DoneStep
    <2> QED BY <2>1, <2>2
<1> QED BY <1>2, <1>3

(* The instructions that change neither the table nor the MMU. *)
LEMMA PlainStep ==
    ASSUME IInv,
           swi_setup_stack \/ interrupts_init \/ Access \/ env_free \/ cpsr_set_mode
              \/ (Check /\ ~Stop("panic"))
    PROVE  IInv'
<1>1. pc.at = "test" /\ Done /\ UNCHANGED <<mem, mmu, mapped>>
    BY DEF swi_setup_stack, interrupts_init, Access, env_free, cpsr_set_mode, Check, Runs, space
<1>2. notmain[pc.k].op \in {"swi_setup_stack", "interrupts_init", "load", "store", "env_free",
                            "user", "assert", "assert_sys_mmu"}
    BY DEF swi_setup_stack, interrupts_init, Access, env_free, cpsr_set_mode, Check, Runs,
           Instruction
<1>3. cpsr \in Status /\ (cpsr.mode = "SYS" \/ (cpsr.mode = "USR" /\ part = "vm_part5"))
    BY <1>1 DEF IInv, Modes
<1>4. notmain[pc.k].op = "user" => part = "vm_part5"
    BY Zenon, TestOutline DEF Outline, IInv, Place
<1>5. /\ cpsr' \in Status
      /\ \/ cpsr'.mode = "SYS"
         \/ cpsr'.mode = "USR" /\ part = "vm_part5"
    <2>1. \/ cpsr' = cpsr \/ cpsr' = [cpsr EXCEPT !.irqOff = TRUE]
          \/ notmain[pc.k].op = "user" /\ cpsr' = [mode |-> "USR", irqOff |-> FALSE]
        BY DEF swi_setup_stack, interrupts_init, Access, env_free, cpsr_set_mode, Check, Runs,
               Instruction
    <2>2. CASE cpsr' = cpsr
        BY Zenon, <1>3, <2>2
    <2>3. CASE cpsr' = [cpsr EXCEPT !.irqOff = TRUE]
        <3>1. cpsr' \in Status /\ cpsr'.mode = cpsr.mode
            BY <1>3, <2>3 DEF Status
        <3> QED BY Zenon, <1>3, <3>1
    <2>4. CASE notmain[pc.k].op = "user" /\ cpsr' = [mode |-> "USR", irqOff |-> FALSE]
        BY <1>4, <2>4 DEF Status
    <2> QED BY Zenon, <2>1, <2>2, <2>3, <2>4
<1>6. sp' = IF notmain[pc.k].op = "swi_setup_stack"
            THEN [sp EXCEPT !["svc"] = SWI_STACK_ADDR] ELSE sp
    BY DEF swi_setup_stack, interrupts_init, Access, env_free, cpsr_set_mode, Check, Runs,
           Instruction
<1>7. mmu' = CASE notmain[pc.k].op = "enter" -> TRUE
               [] notmain[pc.k].op = "leave" -> FALSE [] OTHER -> mmu
    BY <1>1, <1>2
<1>8. notmain[pc.k].op \notin {"clean_reboot", "swi"} /\ notmain[pc.k].op # "map"
    BY <1>2
<1> QED BY <1>1, <1>5, <1>6, <1>7, <1>8, DoneStep

(* The assertions of PART1 hold, so it never panics with the MMU on. *)
LEMMA CheckHolds ==
    ASSUME IInv, Kept, Check, Stop("panic") PROVE mmu /\ part = "vm_part1" => build.advanced
<1> SUFFICES ASSUME mmu, part = "vm_part1" PROVE FALSE
    OBVIOUS
<1>1. pc.at = "test" /\ pc.k \in DOMAIN notmain /\ 4 < pc.k /\ pc.k \in Nat
    BY Part1Byte, TestOutline DEF Check, Runs, IInv, Place, Outline
<1>2. cpsr.mode = "SYS" /\ ram[CODE] = 42
    BY <1>1 DEF IInv, Modes, Kept
<1>3. notmain[pc.k].op = "assert" => ram[notmain[pc.k].a] = notmain[pc.k].v
    BY Zenon, <1>1, <1>2, Part1Byte
<1>4. pc' # [pc EXCEPT !.at = "panic"]
    BY <1>1, <1>2, <1>3 DEF Check, Done, Runs, Instruction, IInv, Place
<1> QED BY <1>4 DEF Stop, Goto

LEMMA KeptStep == IInv /\ Kept /\ [Next]_vars => Kept'
<1> SUFFICES ASSUME IInv, Kept, [Next]_vars PROVE Kept'
    OBVIOUS
<1>1. CASE Runs("store") /\ Access
    <2>1. ram' = [ram EXCEPT ![notmain[pc.k].a] = notmain[pc.k].v] /\ part' = part
        BY <1>1 DEF Access, Runs, Instruction, Done
    <2>2. CODE \in DOMAIN ram'
        BY <2>1 DEF Kept
    <2>3. part = "vm_part1" => ram'[CODE] = 42
        <3>1. pc.k \in DOMAIN notmain /\ notmain[pc.k].op = "store"
            BY <1>1 DEF Runs, Instruction, IInv, Place
        <3>2. part = "vm_part1" => notmain[pc.k].a = CODE /\ notmain[pc.k].v = 42
            BY Zenon, <3>1, Part1Byte
        <3> QED BY <2>1, <3>2 DEF Kept
    <2> QED BY <2>1, <2>2, <2>3 DEF Kept
<1>2. CASE ~(Runs("store") /\ Access)
    <2>1. ram' = ram /\ part' = part
        BY <1>2 DEF Next, Step, Halted, DataAbort, Take, swi_setup_stack, interrupts_init, map, Stop,
           Goto, mmu_enable, mmu_disable, Access, Check, env_free, cpsr_set_mode, swi, clean_reboot,
           software_interrupt_asm, Push, handle_swi, Ran, swi_return, Return, data_abort_asm,
           data_abort_vector, data_abort_return, Done, space, vars
    <2>2. part = "vm_part1" => pc'.k = pc.k \/ (pc.k # 2 /\ pc'.k = pc.k + 1)
        <3> SUFFICES ASSUME part = "vm_part1" PROVE pc'.k = pc.k \/ (pc.k # 2 /\ pc'.k = pc.k + 1)
            OBVIOUS
        <3>1. pc.k \in DOMAIN notmain
            BY DEF IInv, Place
        <3>2. ~data_abort_return
            BY DEF data_abort_return, IInv, Aborted
        <3>3. ~swi_return
            <4>1. notmain[pc.k].op = "swi" => part \in IntParts
                BY Zenon, <3>1, TestOutline DEF IInv, Place, Outline
            <4> QED BY <4>1 DEF swi_return, IInv, Called, SwiStages, IntParts
        <3>4. pc.k = 2 => Instruction.op = "store"
            BY Part1Byte DEF Instruction
        <3>5. pc = [at |-> pc.at, k |-> pc.k]
            BY DEF IInv, Place
        <3> QED BY <1>2, <3>2, <3>3, <3>4, <3>5
                DEF Next, Step, Halted, DataAbort, Take, swi_setup_stack, interrupts_init, map, Stop,
                Goto, mmu_enable, mmu_disable, Access, Check, env_free, cpsr_set_mode, swi,
                clean_reboot, Runs, software_interrupt_asm, Push, handle_swi, Ran, data_abort_asm,
                data_abort_vector, Done, vars
    <2>3. pc.k \in Nat
        BY TestOutline DEF IInv, Place, Outline
    <2> QED BY <2>1, <2>2, <2>3 DEF Kept
<1> QED BY <1>1, <1>2

(* Every step keeps the invariant. *)
LEMMA Inductive == IInv /\ Kept /\ [Next]_vars => IInv'
<1> SUFFICES ASSUME IInv, Kept, [Next]_vars PROVE IInv'
    OBVIOUS
<1>1. CASE DataAbort
    BY Zenon, <1>1, DataAbortStep
<1>2. CASE swi_setup_stack \/ interrupts_init \/ Access \/ env_free \/ cpsr_set_mode
    BY Zenon, <1>2, PlainStep
<1>3. CASE Check
    <2>1. CASE Stop("panic")
        <3>1. pc.at = "test" /\ cpsr.mode # "ABORT"
            BY <1>3 DEF Check, Runs, IInv, Modes
        <3>2. mmu /\ part = "vm_part1" => build.advanced
            BY Zenon, <1>3, <2>1, CheckHolds
        <3> QED BY Zenon, <2>1, <3>1, <3>2, StopStep
    <2> QED BY Zenon, <1>3, <2>1, PlainStep
<1>4. CASE map
    BY Zenon, <1>4, MapStep
<1>5. CASE mmu_enable \/ mmu_disable
    BY Zenon, <1>5, MmuStep
<1>6. CASE swi
    BY Zenon, <1>6, SwiStep
<1>7. CASE clean_reboot
    <2>1. Stop("reset")
        BY Zenon, <1>7 DEF clean_reboot
    <2>2. "reset" \in {"panic", "reset"} /\ "reset" # "panic"
        OBVIOUS
    <2> QED BY Zenon, <2>1, <2>2, StopStep
<1>8. CASE software_interrupt_asm
    BY Zenon, <1>8, SwiAsmStep
<1>9. CASE handle_swi
    BY Zenon, <1>9, HandleSwiStep
<1>10. CASE swi_return
    BY Zenon, <1>10, SwiReturnStep
<1>11. CASE data_abort_asm
    BY Zenon, <1>11, AbortAsmStep
<1>12. CASE data_abort_vector
    BY Zenon, <1>12, AbortVectorStep
<1>13. CASE data_abort_return
    BY Zenon, <1>13, AbortReturnStep, HangStep
<1>14. CASE Halted \/ UNCHANGED vars
    <2>1. UNCHANGED vars
        BY <1>14 DEF Halted
    <2>2. /\ UNCHANGED <<build, part, pc, cpsr, spsr, sp, lr, r>>
          /\ UNCHANGED <<mem, mmu, mapped, before>>
        BY Zenon, <2>1 DEF vars
    <2>3. /\ notmain' = notmain /\ EnterAt' = EnterAt /\ LeaveAt' = LeaveAt
          /\ SWI_STACK_ADDR' = SWI_STACK_ADDR /\ INT_STACK_ADDR' = INT_STACK_ADDR
          /\ INITIAL_STACK_PTR' = INITIAL_STACK_PTR
        BY Zenon, <2>2, Constant
    <2>4. SwiFrame' = SwiFrame /\ AbtFrame' = AbtFrame /\ (Prepared' <=> Prepared)
        BY Zenon, <2>2, <2>3 DEF SwiFrame, AbtFrame, Prepared
    <2>5. Place'
        BY <2>2, <2>3 DEF IInv, Place, SwiStages, AbtStages, Over, CoarseParts, FineParts
    <2>6. Mapping'
        BY Zenon, <2>2, <2>3 DEF IInv, Mapping, MapCalls
    <2>7. Modes'
        BY <2>2 DEF IInv, Modes, Status, SwiStages, AbtStages
    <2>8. Pointers'
        BY <2>2, <2>3, <2>4 DEF IInv, Pointers, Banks, AbtStages, Fault
    <2>9. Called'
        BY <2>2, <2>3, <2>4 DEF IInv, Called, Call, SwiStages, Here, After1
    <2>10. Aborted'
        BY <2>2, <2>3, <2>4 DEF IInv, Aborted, Fault, AbtStages, Here, Panic, Nested, InTest, InPanic
    <2> QED BY Zenon, <2>5, <2>6, <2>7, <2>8, <2>9, <2>10 DEF IInv
<1> QED BY Zenon, <1>1, <1>2, <1>3, <1>4, <1>5, <1>6, <1>7, <1>8, <1>9, <1>10, <1>11, <1>12,
           <1>13, <1>14 DEF Next, Step

LEMMA Invariance == Spec => []IInv
<1>1. Init => Kept
    BY DEF Init, Kept
<1> QED BY <1>1, InitInv, Inductive, KeptStep, PTL DEF Spec

LEMMA TypeOf == IInv => TrapTypeOK
<1> SUFFICES ASSUME IInv PROVE TrapTypeOK
    OBVIOUS
<1>1. /\ build \in Builds /\ part \in CoarseParts \cup FineParts
      /\ cpsr.mode \in {"SYS", "USR", "SUPER", "ABORT", "UNDEF"} /\ spsr["svc"].mode = "SYS"
      /\ pc.at = "test" => cpsr.mode \in {"SYS", "USR"}
    BY DEF IInv, Place, Modes, Status
<1>2. /\ sp["usr"] = INITIAL_STACK_PTR
      /\ sp["svc"] \in {0, SwiFrame, SWI_STACK_ADDR}
      /\ sp["abt"] \in {0, AbtFrame, INT_STACK_ADDR}
      /\ DOMAIN mem \subseteq {SwiFrame, AbtFrame}
    BY DEF IInv, Pointers
<1>3. /\ SwiFrame \in SWI_STACK_ADDR - FRAME .. SWI_STACK_ADDR
      /\ SWI_STACK_ADDR \in SWI_STACK_ADDR - FRAME .. SWI_STACK_ADDR
      /\ AbtFrame \in INT_STACK_ADDR - FRAME .. INT_STACK_ADDR
      /\ INT_STACK_ADDR \in INT_STACK_ADDR - FRAME .. INT_STACK_ADDR
    BY SMT, Numbers DEF SwiFrame, AbtFrame, FRAME
<1> QED BY Zenon, <1>1, <1>2, <1>3 DEF TrapTypeOK, SwiFrame, AbtFrame

-----------------------------------------------------------------------------
(* Every stack pointer is within the frame its handler pushes, and a test runs
   in system or user mode: in every configuration, those the tests are not
   written for included. *)
THEOREM TrapTypeOKAlways == Spec => []TrapTypeOK
BY Invariance, TypeOf, PTL


(* Whatever stack its C code uses within its 64KB, and in every configuration,
   the abort handler aborts only at the stores of rpi_reboot, or where the
   program's stack is unmapped too: data_abort_asm reloads its stack pointer
   (interrupts-asm.S, line 148), so such an abort overwrites the frame of the
   first. *)
THEOREM OnlyRebootsFaultAlways == Spec => []OnlyRebootsFault
<1>1. IInv => OnlyRebootsFault
    <2> SUFFICES ASSUME IInv, cpsr.mode = "ABORT", spsr["abt"].mode \notin {"SYS", "USR"},
                        Fault.pc.at \notin {"panic", "reboot"}
                 PROVE  ~Reach(INITIAL_STACK_PTR - 4)
        BY DEF OnlyRebootsFault, Fault
    <2>1. mmu /\ (part = "vm_part1" => build.advanced) /\ Nested
        BY DEF IInv, Aborted
    <2>2. part = "vm_part1" /\ build.advanced
        BY <2>1 DEF Nested
    <2>3. INITIAL_STACK_PTR - 4 \in Int /\ INITIAL_STACK_PTR - 4 >= MB(1)
        BY SMT, <2>2, Layout
    <2> QED BY Zenon, <2>1, <2>2, <2>3, Part1Maps
<1> QED BY <1>1, Invariance, PTL


(* software_interrupt_asm and data_abort_asm give back mode, interrupt mask,
   stacks and registers as they found them, but for the result of a call, and
   go on with the next instruction. *)
THEOREM TrapTransparentAlways == Spec => TrapTransparent
<1>1. IInv /\ [Next]_vars =>
         [ /\ pc.at = "swi_return" => pc'.at = "test" /\ Same(before["svc"][1], TRUE)
           /\ pc.at = "abt_return" =>
                 \/ pc'.at = "test" /\ Same(before["abt"][1], FALSE)
                 \/ pc'.at = "hung" /\ before["abt"][1].pc.at = "panic" ]_vars
    <2> SUFFICES ASSUME IInv, Next
                 PROVE  /\ pc.at = "swi_return" =>
                              pc'.at = "test" /\ Same(before["svc"][1], TRUE)
                        /\ pc.at = "abt_return" =>
                              \/ pc'.at = "test" /\ Same(before["abt"][1], FALSE)
                              \/ pc'.at = "hung" /\ before["abt"][1].pc.at = "panic"
        OBVIOUS
    <2>1. Touches = {} \/ pc.at \notin {"swi_return", "abt_return"}
        BY DEF Touches
    <2>2. ~DataAbort \/ pc.at \notin {"swi_return", "abt_return"}
        BY Zenon, <2>1 DEF DataAbort, Reachable
    <2>3. After1.at = "test" /\ After1.k = pc.k + 1 /\ Here.k = pc.k
        BY DEF After1, Here
    <2>4. CASE pc.at = "swi_return"
        <3>1. swi_return
            BY <2>2, <2>4 DEF Next, Step, Halted, swi_setup_stack, interrupts_init, map, mmu_enable,
               mmu_disable, Access, Check, env_free, cpsr_set_mode, swi, clean_reboot, Runs, At,
               software_interrupt_asm, handle_swi, data_abort_asm, data_abort_vector,
               data_abort_return
        <3>2. /\ pc' = After1 /\ cpsr' = Call.cpsr /\ r' = [Call.r EXCEPT ![0] = 13]
              /\ sp'["usr"] = Call.sp["usr"] /\ sp'["svc"] = Call.sp["svc"] /\ Call.pc = Here
            BY Zenon, <3>1, SwiReturns
        <3>3. Same(Call, TRUE)
            BY <2>3, <3>2 DEF Same
        <3> QED BY <2>3, <2>4, <3>2, <3>3 DEF Call
    <2>5. CASE pc.at = "abt_return"
        <3>1. data_abort_return
            BY <2>2, <2>5 DEF Next, Step, Halted, swi_setup_stack, interrupts_init, map, mmu_enable,
               mmu_disable, Access, Check, env_free, cpsr_set_mode, swi, clean_reboot, Runs, At,
               software_interrupt_asm, handle_swi, data_abort_asm, data_abort_vector,
               swi_return
        <3>2. CASE Fault.pc.at # "panic"
            <4>1. /\ pc' = After1 /\ cpsr' = Fault.cpsr /\ r' = Fault.r
                  /\ sp'["usr"] = Fault.sp["usr"] /\ sp'["svc"] = Fault.sp["svc"]
                  /\ Fault.pc = Here
                BY Zenon, <3>1, <3>2, AbortReturns
            <4>2. Same(Fault, FALSE)
                BY <2>3, <4>1 DEF Same
            <4> QED BY <2>3, <2>5, <4>1, <4>2 DEF Fault
        <3>3. CASE Fault.pc.at = "panic"
            <4>1. pc'.at = "hung"
                BY Zenon, <3>1, <3>3, HangStep
            <4> QED BY <2>5, <3>3, <4>1 DEF Fault
        <3> QED BY Zenon, <3>2, <3>3
    <2> QED BY <2>4, <2>5
<1> QED BY <1>1, Invariance, PTL DEF Spec, TrapTransparent
=============================================================================
