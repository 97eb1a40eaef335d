----------------------------- MODULE DataAbort -----------------------------
(***************************************************************************)
(* Data aborts of a running environment: what the MMU refuses, and what    *)
(* data_abort_asm, data_abort_vector (interrupts-asm.S, interrupts-c.c)    *)
(* and handle_page_miss (driver.c) do about it, from the map calls that    *)
(* build the environment's page table to the reset of the machine.         *)
(*                                                                         *)
(*   test    the test of vm_tests that was compiled in                     *)
(*   calls   how many of its map calls are made                            *)
(*   cpu     "setup", "run", "abort" (a data abort was taken, the vector   *)
(*           has not decided), "reboot" (clean_reboot is writing the       *)
(*           watchdog) or "reset"                                          *)
(*   mode    "sys", or "usr" after cpsr_set_mode(USER_MODE)                *)
(*   far     the fault address register; fsr the fault status              *)
(*   served  the pages whose miss handle_page_miss returned from           *)
(*                                                                         *)
(* An access the MMU allows changes nothing here.  The instruction that    *)
(* aborted is skipped when the handler returns (lr - 4).  The handler's    *)
(* own stack is mapped: both tests map the 64KB below INT_STACK_ADDR.      *)
(***************************************************************************)
EXTENDS PageTable

CONSTANTS
    Tests,      \* name -> [script, accesses, usr]: the map calls of a test,
                \* the accesses [va, write] it may make once the MMU is on,
                \* and whether it makes them in user mode
    Domain      \* the environment's domain, the only one open

VARIABLES test, calls, cpu, mode, far, fsr, served

setupVars == <<test, calls>>
cpuVars == <<cpu, far, fsr, served>>
daVars == <<vars, setupVars, cpuVars, mode>>

Script == Tests[test].script

-----------------------------------------------------------------------------
(* memmap-constants.h with RUN_ADVANCED. *)
SYS_STACK_ADDR_FINE == 4194304      \* 0x400000
SYS_HEAP_START      == 1310720      \* 0x140000

(* kmalloc: the three pools of env_init, the 16KB page table at the next
   multiple of 16KB, then 1KB for each coarse table. *)
FIRST_COARSE_TABLE  == 1343488      \* 0x148000
kmalloc_heap_start  == SYS_HEAP_START
kmalloc_heap_end    == FIRST_COARSE_TABLE + 1024 * Len(cpts)

PM_WDOG == 537919524                \* 0x20100024

Lookup(p) == IF p \in Pages THEN Walk(p) ELSE Unmapped

(* AP with APX = 0 (B4-9): the C constants AP_NO_ACCESS .. AP_FULL_ACCESS. *)
Allowed(AP, m, write) ==
    \/ AP = 3
    \/ AP \in {1, 2} /\ m = "sys"
    \/ AP = 2 /\ ~write

(* The hardware's verdict, in its order of priority. *)
FaultOf(va, write, m) ==
    LET t == Lookup(PageOf(va))
    IN  CASE t = Unmapped -> "translation"
          [] t # Unmapped /\ t.domain # Domain -> "domain"
          [] t # Unmapped /\ t.domain = Domain ->
                IF Allowed(t.attr.AP, m, write) THEN "none" ELSE "permission"

AbortInit == /\ Init
             /\ test \in DOMAIN Tests
             /\ calls = 0
             /\ cpu = "setup"
             /\ mode = "sys"
             /\ far = 0 /\ fsr = "none"
             /\ served = {}

-----------------------------------------------------------------------------
(* vm_tests makes its map calls one after the other ... *)
Setup ==
    /\ cpu = "setup" /\ calls < Len(Script)
    /\ Call(Script[calls + 1])
    /\ calls' = calls + 1
    /\ UNCHANGED <<test, cpuVars, mode>>

(* ... calls env_switch_to, and, in one of the tests, drops to user mode. *)
Start ==
    /\ cpu = "setup" /\ calls = Len(Script) /\ status = "up"
    /\ cpu' = "run"
    /\ mode' = IF Tests[test].usr THEN "usr" ELSE "sys"
    /\ UNCHANGED <<vars, setupVars, far, fsr, served>>

(* The core takes a data abort. *)
TakeAbort(va, fault) ==
    /\ cpu' = "abort"
    /\ far' = va /\ fsr' = fault
    /\ UNCHANGED served

Access(x) ==
    /\ cpu = "run"
    /\ FaultOf(x.va, x.write, mode) # "none"
    /\ TakeAbort(x.va, FaultOf(x.va, x.write, mode))
    /\ UNCHANGED <<vars, setupVars, mode>>

(* A buffered write fails after the fact: an imprecise abort, which leaves
   the address register as it was. *)
ImpreciseAbort ==
    /\ cpu = "run"
    /\ TakeAbort(far, "imprecise")
    /\ UNCHANGED <<vars, setupVars, mode>>

-----------------------------------------------------------------------------
fault_status_has_valid_far(s) == s # "imprecise"

(* A mutant: the whole 64KB below the address, as vm_tests maps a stack. *)
MissBelow(address) == address - LG_PAGE_SIZE
MissBase(address)  == address - PAGE_SIZE

MissRequest(address) ==
    [op |-> "lg", va |-> MissBase(address), pa |-> MissBase(address),
     domain |-> Domain, flags |-> 0]

(* What the tests ask for, and what a miss above the tables can ask for, are
   calls of the page table. *)
ASSUME TestsAssumption ==
    /\ Domain \in 0 .. 15
    /\ \A name \in DOMAIN Tests :
          /\ Tests[name].script \in Seq(Requests)
          /\ Tests[name].usr \in BOOLEAN
          /\ \A x \in Tests[name].accesses :
                /\ x.va \in Address
                /\ FIRST_COARSE_TABLE < x.va /\ x.va < SYS_STACK_ADDR_FINE
                      => MissRequest(x.va) \in Requests

(* handle_page_miss: an assertion that fails in mmu_map_lg_page panics, and
   a panic is a clean_reboot. *)
handle_page_miss(address) ==
    LET r == MissRequest(address)
    IN  /\ mmu_map_lg_page(r.va, r.pa, r.domain, r.flags)
        /\ IF status' = "up"
           THEN cpu' = "run" /\ served' = served \cup {PageOf(address)}
           ELSE cpu' = "reboot" /\ UNCHANGED served

(* A mutant: the upper bound of the stack is not tested. *)
AboveHeap(address) == address > kmalloc_heap_end
InStackGap(address) ==
    address < SYS_STACK_ADDR_FINE /\ address > kmalloc_heap_end

OutsideHeap(address) ==
    address < kmalloc_heap_start \/ address > kmalloc_heap_end

(* data_abort_vector. *)
data_abort_vector ==
    /\ cpu = "abort"
    /\ \/ /\ ~fault_status_has_valid_far(fsr)
          /\ cpu' = "run"
          /\ UNCHANGED <<vars, served>>
       \/ /\ fault_status_has_valid_far(fsr) /\ far = 0
          /\ cpu' = "reboot"
          /\ UNCHANGED <<vars, served>>
       \/ /\ fault_status_has_valid_far(fsr) /\ far # 0
          /\ InStackGap(far)
          /\ handle_page_miss(far)
       \/ /\ fault_status_has_valid_far(fsr) /\ far # 0
          /\ ~InStackGap(far) /\ OutsideHeap(far)
          /\ cpu' = "reboot"
          /\ UNCHANGED <<vars, served>>
       \/ /\ fault_status_has_valid_far(fsr) /\ far # 0
          /\ ~InStackGap(far) /\ ~OutsideHeap(far)
          /\ cpu' = "run"
          /\ UNCHANGED <<vars, served>>
    /\ UNCHANGED <<setupVars, mode, far, fsr>>

(* A mutant: rpi_reboot drops its privileges first, as its comment says. *)
RebootModeDropped == "usr"
(* Its test is the other way round (at_user_level), so in a handler the core
   stays privileged. *)
RebootMode == "sys"

(* rpi_reboot: the write to PM_WDOG is itself translated. *)
rpi_reboot ==
    /\ cpu = "reboot"
    /\ LET fault == FaultOf(PM_WDOG, TRUE, RebootMode)
       IN  \/ /\ fault = "none"
              /\ cpu' = "reset"
              /\ UNCHANGED <<far, fsr, served>>
           \/ /\ fault # "none"
              /\ TakeAbort(PM_WDOG, fault)
    /\ UNCHANGED <<vars, setupVars, mode>>

AbortNext ==
    \/ Setup
    \/ Start
    \/ \E x \in Tests[test].accesses : Access(x)
    \/ ImpreciseAbort
    \/ data_abort_vector
    \/ rpi_reboot

AbortSpec == AbortInit /\ [][AbortNext]_daVars

(* The core executes on: a handler and a reboot go on by themselves. *)
FairAbortSpec ==
    AbortSpec /\ WF_daVars(data_abort_vector) /\ WF_daVars(rpi_reboot)

-----------------------------------------------------------------------------
AbortTypeOK ==
    /\ TypeOK
    /\ cpu \in {"setup", "run", "abort", "reboot", "reset"}
    /\ mode \in {"sys", "usr"}
    /\ far \in {0, PM_WDOG} \cup {x.va : x \in Tests[test].accesses}
    /\ fsr \in {"none", "translation", "domain", "permission", "imprecise"}
    /\ served \subseteq Pages

(* A page that missed once does not miss again (the comment of vm_tests'
   page-miss test): after handle_page_miss returned, its translation stays. *)
ServedStaysMapped == \A p \in served : Lookup(p) # Unmapped

(* Whatever aborts, the handler gives pages only to the gap between the heap
   and the top of the system stack. *)
GrowthInGapOnly ==
    [][cpu = "abort" => \A p \in Pages : Walk(p)' # Walk(p) =>
          /\ p * PAGE_SIZE >= kmalloc_heap_end
          /\ p * PAGE_SIZE < SYS_STACK_ADDR_FINE]_daVars

(* Serving a miss never changes a translation the program already has. *)
TranslationsKept ==
    [][\A p \in Pages : Walk(p) # Unmapped => Walk(p)' = Walk(p)]_daVars

(* An access below the mapped stack and above the heap gets a page. *)
StackGrows ==
    [][cpu = "abort" /\ fsr = "translation" /\ InStackGap(far)
          => cpu' # "reboot"]_daVars

(* A reboot resets the machine when the section of the watchdog is mapped,
   whatever aborted and whatever the handler did before. *)
MappedRebootResets ==
    (cpu = "reboot" /\ Lookup(PageOf(PM_WDOG)) # Unmapped) ~> cpu = "reset"
=============================================================================
