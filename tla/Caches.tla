------------------------------- MODULE Caches ------------------------------
(***************************************************************************)
(* Turning the MMU and the caches on and off: the assembly routines of     *)
(* vm-asm.S one coprocessor instruction at a time, between C code that     *)
(* loads, stores and branches, over the parts of the ARM1176 that keep     *)
(* copies: write buffer, data cache, branch target buffer (BTB) and        *)
(* prefetch buffer.                                                        *)
(*                                                                         *)
(* As in the code, interrupts are disabled, addresses map one to one, and  *)
(* the data cache takes a line only for a load or a store (vm-asm.S, line  *)
(* 227).  The instruction cache is physically tagged and no code is        *)
(* written, so it is left out; the TLB is in Env.                          *)
(***************************************************************************)
EXTENDS Integers, Sequences, FiniteSets

CONSTANTS
    Lines,       \* lines of memory
    Cacheable,   \* those in a section with fld_cache_on, fld_writeback_on
    Descriptors, \* those that hold descriptors, which the hardware walks
    PageTables,  \* the tables TTBR0 may hold
    Values, None \* what a line may hold; no value

ASSUME CachesAssumption ==
    /\ Cacheable \subseteq Lines /\ Descriptors \subseteq Lines
    /\ None \notin Values \cup [val : Values, dirty : BOOLEAN]

VARIABLES
    pc,          \* [at, i]: "c", or the i-th instruction of a routine
    r0,          \* the routine's argument: a control register, or a table
    ctrl, seen,  \* control register 1: as written, and as in force
    ttbr0,       \* the page table
    mem,         \* what memory holds
    buffer,      \* stores that have not reached it, by line
    dcache,      \* lines in the data cache: [val, dirty], or None
    btb, fetched,\* mappings under which the BTB and the prefetch buffer got
                 \* their entries
    stored       \* the last value C code stored

vars == <<pc, r0, ctrl, seen, ttbr0, mem, buffer, dcache, btb, fetched, stored>>
data == <<mem, buffer, dcache, stored>>
fetches == <<btb, fetched>>

Control == [M : BOOLEAN, C : BOOLEAN, I : BOOLEAN, Z : BOOLEAN]
Off == [M |-> FALSE, C |-> FALSE, I |-> FALSE, Z |-> FALSE]

-----------------------------------------------------------------------------
(* The routines.  "c1" writes r0 to control register 1, "c1_noC" clears the
   bit of the data cache in it. *)
CP15_BARRIER_dsb == <<"dsb">>   \* a mutant
CP15_BARRIER == <<"dsb", "prefetch_flush">>
CP15_SYNC == <<"flush_btb">> \o CP15_BARRIER

mmu_reset == <<"inv_dcache">> \o CP15_SYNC \o <<"bx">>

cp15_ctrl_reg1_wr == <<"c1">> \o CP15_SYNC \o <<"bx">>

cp15_sync == CP15_SYNC \o <<"bx">>

cp15_set_procid_ttbr0 ==
    <<"prefetch_flush", "ttbr0", "prefetch_flush", "dsb", "bx">>

(* Mutants: the flushes only before the write; no wait for the stores. *)
mmu_enable_flush_before == <<"dsb", "flush_btb", "dsb", "prefetch_flush", "c1", "bx">>
mmu_enable_no_dsb == <<"c1", "flush_btb", "prefetch_flush", "bx">>
mmu_enable_set_asm == <<"dsb", "c1", "flush_btb", "dsb", "prefetch_flush", "bx">>

(* A mutant: the data cache is not cleaned. *)
mmu_disable_no_clean ==
    <<"dsb", "c1_noC">> \o CP15_BARRIER \o <<"c1">> \o CP15_BARRIER
    \o <<"flush_btb">> \o CP15_BARRIER \o <<"bx">>
mmu_disable_set_asm ==
    <<"dsb", "clean_inv_dcache">> \o CP15_BARRIER
    \o <<"c1_noC">> \o CP15_BARRIER
    \o <<"c1">> \o CP15_BARRIER
    \o <<"flush_btb">> \o CP15_BARRIER \o <<"bx">>

(* What C code calls: mmu_init and mmu_all_cache_on call two each. *)
Code(f) ==
    CASE f = "mmu_init" -> mmu_reset \o cp15_ctrl_reg1_wr
      [] f = "mmu_all_cache_on" -> cp15_ctrl_reg1_wr \o cp15_sync
      [] f = "cp15_set_procid_ttbr0" -> cp15_set_procid_ttbr0
      [] f = "mmu_enable" -> mmu_enable_set_asm
      [] f = "mmu_disable" -> mmu_disable_set_asm

-----------------------------------------------------------------------------
(* Memory as the core sees it: with the MMU and the data cache on, cacheable
   lines are looked up in the cache. *)
InCache(l) == seen.M /\ seen.C /\ l \in Cacheable
Read(l) ==
    CASE buffer[l] # None -> buffer[l]
      [] buffer[l] = None /\ InCache(l) /\ dcache[l] # None -> dcache[l].val
      [] OTHER -> mem[l]

(* The mapping instructions are fetched under. *)
Mapping(c) == IF c.M THEN ttbr0 ELSE "flat"

(* Before mmu_init the caches hold anything. *)
Init ==
    /\ pc = [at |-> "boot", i |-> 1] /\ r0 = None
    /\ ctrl = Off /\ seen = Off /\ ttbr0 \in PageTables
    /\ mem \in [Lines -> Values] /\ stored = mem
    /\ buffer = [l \in Lines |-> None]
    /\ dcache \in [Lines -> {None} \cup [val : Values, dirty : BOOLEAN]]
    /\ btb = {} /\ fetched = {}

-----------------------------------------------------------------------------
(* C code, with a stack, a heap and branches. *)
InC == pc.at = "c"

Load(l) ==
    /\ InC /\ InCache(l) /\ buffer[l] = None /\ dcache[l] = None
    /\ dcache' = [dcache EXCEPT ![l] = [val |-> mem[l], dirty |-> FALSE]]
    /\ UNCHANGED <<pc, r0, ctrl, seen, ttbr0, mem, buffer, stored, fetches>>

(* Descriptors are only stored with the MMU off, as the tests that turn a
   cache on do; a cached store may or may not take a line. *)
Store(l, v) ==
    /\ InC /\ (l \in Descriptors => ~ctrl.M)
    /\ stored' = [stored EXCEPT ![l] = v]
    /\ \/ /\ InCache(l) /\ buffer[l] = None
          /\ dcache' = [dcache EXCEPT ![l] = [val |-> v, dirty |-> TRUE]]
          /\ UNCHANGED buffer
       \/ /\ ~(InCache(l) /\ dcache[l] # None)
          /\ buffer' = [buffer EXCEPT ![l] = v] /\ UNCHANGED dcache
    /\ UNCHANGED <<pc, r0, ctrl, seen, ttbr0, mem, fetches>>

Call(f, arg) ==
    /\ pc' = [at |-> f, i |-> 1] /\ r0' = arg
    /\ UNCHANGED <<ctrl, seen, ttbr0, data, fetches>>

mmu_init == (pc.at = "boot" \/ InC) /\ ~ctrl.M /\ Call("mmu_init", ctrl)
mmu_all_cache_on ==
    InC /\ Call("mmu_all_cache_on", [ctrl EXCEPT !.C = TRUE, !.I = TRUE, !.Z = TRUE])

(* env_switch_to sets the table with the MMU off (mmu_enable asserts it). *)
env_switch_to ==
    InC /\ ~ctrl.M /\ \E t \in PageTables : Call("cp15_set_procid_ttbr0", t)
mmu_enable == InC /\ ~ctrl.M /\ Call("mmu_enable", [ctrl EXCEPT !.M = TRUE])
mmu_disable ==
    InC /\ ctrl.M /\ Call("mmu_disable", [ctrl EXCEPT !.M = FALSE, !.C = FALSE])

-----------------------------------------------------------------------------
(* The instructions of a routine. *)
Executes(op) == ~InC /\ pc.at # "boot" /\ Code(pc.at)[pc.i] = op
Step == pc' = IF pc.i = Len(Code(pc.at)) THEN [at |-> "c", i |-> 1]
                                         ELSE [pc EXCEPT !.i = @ + 1]

(* All stores, those of cache operations included, reach memory. *)
DSB ==
    /\ Executes("dsb")
    /\ mem' = [l \in Lines |-> IF buffer[l] = None THEN mem[l] ELSE buffer[l]]
    /\ buffer' = [l \in Lines |-> None]
    /\ Step /\ UNCHANGED <<r0, ctrl, seen, ttbr0, dcache, stored, fetches>>

PREFETCH_FLUSH ==
    /\ Executes("prefetch_flush")
    /\ fetched' = {} /\ seen' = ctrl
    /\ Step /\ UNCHANGED <<r0, ctrl, ttbr0, data, btb>>

FLUSH_BTB ==
    /\ Executes("flush_btb") /\ btb' = {}
    /\ Step /\ UNCHANGED <<r0, ctrl, seen, ttbr0, data, fetched>>

CLEAN_INV_DCACHE ==
    /\ Executes("clean_inv_dcache")
    /\ buffer' = [l \in Lines |-> IF dcache[l] # None /\ dcache[l].dirty
                                  THEN dcache[l].val ELSE buffer[l]]
    /\ dcache' = [l \in Lines |-> None]
    /\ Step /\ UNCHANGED <<r0, ctrl, seen, ttbr0, mem, stored, fetches>>

INV_DCACHE ==
    /\ Executes("inv_dcache") /\ dcache' = [l \in Lines |-> None]
    /\ Step /\ UNCHANGED <<r0, ctrl, seen, ttbr0, mem, buffer, stored, fetches>>

(* A write is in force at the latest after the next prefetch flush. *)
CONTROL_REG1_WR ==
    /\ \/ Executes("c1") /\ ctrl' = r0
       \/ Executes("c1_noC") /\ ctrl' = [ctrl EXCEPT !.C = FALSE]
    /\ seen' \in {seen, ctrl'}
    /\ Step /\ UNCHANGED <<r0, ttbr0, data, fetches>>

TTBR0_SET ==
    /\ Executes("ttbr0") /\ ttbr0' = r0
    /\ Step /\ UNCHANGED <<r0, ctrl, seen, data, fetches>>

(* The only branch of a routine. *)
BX ==
    /\ Executes("bx")
    /\ btb' = btb \cup (IF seen.Z THEN {Mapping(seen)} ELSE {})
    /\ Step /\ UNCHANGED <<r0, ctrl, seen, ttbr0, data, fetched>>

Routine ==
    \/ DSB \/ PREFETCH_FLUSH \/ FLUSH_BTB \/ CLEAN_INV_DCACHE \/ INV_DCACHE
    \/ CONTROL_REG1_WR \/ TTBR0_SET \/ BX

-----------------------------------------------------------------------------
(* What the hardware does by itself at any time. *)
Drain(l) ==
    /\ buffer[l] # None
    /\ mem' = [mem EXCEPT ![l] = buffer[l]] /\ buffer' = [buffer EXCEPT ![l] = None]
    /\ UNCHANGED <<pc, r0, ctrl, seen, ttbr0, dcache, stored, fetches>>

(* The cache replaces a line for an access to another. *)
Evict(l) ==
    /\ InC /\ InCache(l) /\ dcache[l] # None /\ buffer[l] = None
    /\ mem' = [mem EXCEPT ![l] = IF dcache[l].dirty THEN dcache[l].val ELSE @]
    /\ dcache' = [dcache EXCEPT ![l] = None]
    /\ UNCHANGED <<pc, r0, ctrl, seen, ttbr0, buffer, stored, fetches>>

Fetch ==
    /\ fetched' = fetched \cup {Mapping(seen)}
    /\ btb' = btb \cup (IF InC /\ seen.Z THEN {Mapping(seen)} ELSE {})
    /\ UNCHANGED <<pc, r0, ctrl, seen, ttbr0, data>>

Hardware == (\E l \in Lines : Drain(l) \/ Evict(l)) \/ Fetch

Next ==
    \/ \E l \in Lines : Load(l) \/ \E v \in Values : Store(l, v)
    \/ mmu_init \/ mmu_all_cache_on \/ env_switch_to \/ mmu_enable \/ mmu_disable
    \/ Routine \/ Hardware

Spec == Init /\ [][Next]_vars

-----------------------------------------------------------------------------
(* Types; and the control register C code reads is the one in force. *)
CacheTypeOK ==
    /\ ctrl \in Control /\ seen \in Control /\ ttbr0 \in PageTables
    /\ mem \in [Lines -> Values] /\ buffer \in [Lines -> Values \cup {None}]
    /\ dcache \in [Lines -> {None} \cup [val : Values, dirty : BOOLEAN]]
    /\ btb \cup fetched \subseteq PageTables \cup {"flat"}
    /\ InC => seen = ctrl

(* A load returns the last store to its line, however often the MMU is
   enabled and disabled and the caches are turned on in between: no dirty
   line is left behind by mmu_disable, and no old one is found when caches
   are turned on after off (mmu.c, line 159). *)
LoadsSeeStores == InC => \A l \in Lines : Read(l) = stored[l]

(* With the MMU on, a page walk, which looks neither in the write buffer nor
   in the cache, reads the descriptor stored last. *)
WalksSeeStores ==
    InC /\ ctrl.M => \A l \in Descriptors : mem[l] = stored[l]

(* C code runs with no instruction fetched and no branch predicted under
   another mapping than the current one (mmu_enable_set_asm,
   mmu_disable_set_asm). *)
NoStaleFetch == InC => btb \cup fetched \subseteq {Mapping(ctrl)}
=============================================================================
