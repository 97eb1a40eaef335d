---------------------------- MODULE CachesProofs ---------------------------
(***************************************************************************)
(* Proofs about Caches, for any number of lines, values and page tables    *)
(* and any choice of the lines that are cacheable or hold descriptors: the *)
(* order of the instructions in vm-asm.S loses no store, shows no old one  *)
(* and leaves no instruction of another mapping behind.                    *)
(***************************************************************************)
EXTENDS Caches, TLAPS

Routines == {"mmu_init", "mmu_all_cache_on", "cp15_set_procid_ttbr0",
             "mmu_enable", "mmu_disable"}

-----------------------------------------------------------------------------
(* The routines, written out. *)

LEMMA InitCode ==
    LET code == Code("mmu_init")
    IN  /\ Len(code) = 10
        /\ code[1] = "inv_dcache" /\ code[2] = "flush_btb"
        /\ code[3] = "dsb" /\ code[4] = "prefetch_flush"
        /\ code[5] = "bx" /\ code[6] = "c1"
        /\ code[7] = "flush_btb" /\ code[8] = "dsb"
        /\ code[9] = "prefetch_flush" /\ code[10] = "bx"
BY DEF Code, mmu_reset, cp15_ctrl_reg1_wr, CP15_SYNC, CP15_BARRIER

LEMMA CacheOnCode ==
    LET code == Code("mmu_all_cache_on")
    IN  /\ Len(code) = 9
        /\ code[1] = "c1" /\ code[2] = "flush_btb"
        /\ code[3] = "dsb" /\ code[4] = "prefetch_flush"
        /\ code[5] = "bx" /\ code[6] = "flush_btb"
        /\ code[7] = "dsb" /\ code[8] = "prefetch_flush"
        /\ code[9] = "bx"
BY DEF Code, cp15_ctrl_reg1_wr, cp15_sync, CP15_SYNC, CP15_BARRIER

LEMMA TableCode ==
    LET code == Code("cp15_set_procid_ttbr0")
    IN  /\ Len(code) = 5
        /\ code[1] = "prefetch_flush" /\ code[2] = "ttbr0"
        /\ code[3] = "prefetch_flush" /\ code[4] = "dsb"
        /\ code[5] = "bx"
BY DEF Code, cp15_set_procid_ttbr0

LEMMA EnableCode ==
    LET code == Code("mmu_enable")
    IN  /\ Len(code) = 6
        /\ code[1] = "dsb" /\ code[2] = "c1"
        /\ code[3] = "flush_btb" /\ code[4] = "dsb"
        /\ code[5] = "prefetch_flush" /\ code[6] = "bx"
BY DEF Code, mmu_enable_set_asm

LEMMA DisableCode ==
    LET code == Code("mmu_disable")
    IN  /\ Len(code) = 14
        /\ code[1] = "dsb" /\ code[2] = "clean_inv_dcache"
        /\ code[3] = "dsb" /\ code[4] = "prefetch_flush"
        /\ code[5] = "c1_noC" /\ code[6] = "dsb"
        /\ code[7] = "prefetch_flush" /\ code[8] = "c1"
        /\ code[9] = "dsb" /\ code[10] = "prefetch_flush"
        /\ code[11] = "flush_btb" /\ code[12] = "dsb"
        /\ code[13] = "prefetch_flush" /\ code[14] = "bx"
BY DEF Code, mmu_disable_set_asm, CP15_BARRIER

-----------------------------------------------------------------------------
(* The inductive invariant: where the program can be, *)
PcOK ==
    /\ pc \in [at : {"boot", "c"} \cup Routines, i : Nat]
    /\ pc.at \in {"boot", "c"} => pc.i = 1
    /\ pc.at \in Routines => pc.i \in 1 .. Len(Code(pc.at))

In(f) == pc.at = f
Before(n) == pc.i <= n

Types ==
    /\ ctrl \in Control /\ seen \in Control /\ ttbr0 \in PageTables
    /\ mem \in [Lines -> Values] /\ stored \in [Lines -> Values]
    /\ buffer \in [Lines -> Values \cup {None}]
    /\ dcache \in [Lines -> {None} \cup [val : Values, dirty : BOOLEAN]]
    /\ btb \subseteq PageTables \cup {"flat"}
    /\ fetched \subseteq PageTables \cup {"flat"}

(* the control register, its argument, and what of it is in force, *)
CtrlInv ==
    /\ In("boot") \/ In("c") => seen = ctrl
    /\ In("boot") => ~ctrl.M
    /\ In("mmu_init") => r0 = ctrl /\ seen = ctrl /\ ~ctrl.M
    /\ In("cp15_set_procid_ttbr0") => r0 \in PageTables /\ seen = ctrl /\ ~ctrl.M
    /\ In("mmu_enable") =>
          /\ r0 \in Control /\ r0.M
          /\ Before(2) => seen = ctrl /\ ~ctrl.M
          /\ ~Before(2) => ctrl = r0
          /\ ~Before(5) => seen = ctrl
    /\ In("mmu_all_cache_on") =>
          /\ r0 \in Control /\ r0.C /\ r0.M = ctrl.M /\ seen.M = ctrl.M
          /\ Before(1) \/ ~Before(4) => seen = ctrl
          /\ ~Before(1) => ctrl = r0
    /\ In("mmu_disable") =>
          /\ r0 \in Control /\ ~r0.M /\ ~r0.C
          /\ Before(8) => ctrl.M /\ seen.M
          /\ Before(5) \/ pc.i = 8 \/ ~Before(10) => seen = ctrl
          /\ ~Before(8) => ctrl = r0

(* where the last store to a line is, *)
Fresh == In("boot") \/ (In("mmu_init") /\ Before(1))
Caching ==
    /\ ctrl.M /\ ctrl.C /\ seen.M /\ seen.C
    /\ In("c") \/ In("mmu_all_cache_on") \/ (In("mmu_disable") /\ Before(2))
LineInv(l) ==
    /\ buffer[l] # None => buffer[l] = stored[l]
    /\ (Fresh \/ dcache[l] = None) /\ buffer[l] = None => mem[l] = stored[l]
    /\ ~Fresh /\ dcache[l] # None =>
          /\ buffer[l] = None /\ l \in Cacheable /\ Caching
          /\ dcache[l].val = stored[l]
          /\ ~dcache[l].dirty => mem[l] = stored[l]

(* that the descriptors are in memory when they may be walked, *)
Walkable ==
    \/ (In("c") \/ In("mmu_all_cache_on")) /\ ctrl.M
    \/ In("mmu_enable") /\ ~Before(1)
DescriptorInv(l) ==
    /\ buffer[l] = None
    /\ dcache[l] # None => ~dcache[l].dirty

(* and what has been fetched. *)
FetchInv ==
    /\ In("boot") \/ In("mmu_init") \/ In("cp15_set_procid_ttbr0")
          => btb \subseteq {"flat"} /\ fetched \subseteq {"flat"}
    /\ In("c") \/ In("mmu_all_cache_on")
          => btb \subseteq {Mapping(ctrl)} /\ fetched \subseteq {Mapping(ctrl)}
    /\ In("mmu_enable") =>
          /\ btb \subseteq {"flat"} /\ fetched \subseteq {"flat", ttbr0}
          /\ Before(2) => fetched \subseteq {"flat"}
          /\ ~Before(3) => btb = {}
          /\ ~Before(5) => fetched \subseteq {ttbr0}
    /\ In("mmu_disable") =>
          /\ btb \subseteq {ttbr0} /\ fetched \subseteq {"flat", ttbr0}
          /\ Before(8) => fetched \subseteq {ttbr0}
          /\ ~Before(10) => fetched \subseteq {"flat"}
          /\ ~Before(11) => btb = {}

CInv ==
    /\ PcOK /\ Types /\ CtrlInv /\ FetchInv
    /\ \A l \in Lines : LineInv(l)
    /\ Walkable => \A l \in Descriptors : DescriptorInv(l)

-----------------------------------------------------------------------------
LEMMA CInvInit == Init => CInv
<1> SUFFICES ASSUME Init PROVE CInv
    OBVIOUS
<1>1. PcOK /\ Types /\ CtrlInv /\ FetchInv
    BY DEF Init, PcOK, Types, CtrlInv, FetchInv, In, Before, Routines, Off, Control
<1>2. ASSUME NEW l \in Lines PROVE LineInv(l)
    <2>1. Fresh
        BY DEF Init, Fresh, In
    <2>2. buffer[l] = None /\ mem[l] = stored[l]
        BY DEF Init
    <2> QED BY <2>1, <2>2 DEF LineInv
<1>3. ~Walkable
    BY DEF Init, Walkable, In
<1> QED BY <1>1, <1>2, <1>3 DEF CInv

LEMMA CInvImplies ==
    ASSUME CInv
    PROVE  CacheTypeOK /\ LoadsSeeStores /\ WalksSeeStores /\ NoStaleFetch
<1>1. CacheTypeOK
    BY DEF CInv, Types, CtrlInv, In, InC, CacheTypeOK
<1>2. ASSUME InC, NEW l \in Lines PROVE Read(l) = stored[l]
    <2>1. LineInv(l) /\ seen = ctrl /\ ~Fresh
        BY <1>2 DEF CInv, CtrlInv, In, InC, Fresh
    <2> QED BY <2>1 DEF LineInv, Caching, Read, InCache
<1>3. ASSUME InC, ctrl.M, NEW l \in Descriptors PROVE mem[l] = stored[l]
    <2>1. LineInv(l) /\ DescriptorInv(l) /\ ~Fresh
        BY <1>3, CachesAssumption DEF CInv, Walkable, In, InC, Fresh
    <2> QED BY <2>1 DEF LineInv, DescriptorInv
<1>4. InC => btb \cup fetched \subseteq {Mapping(ctrl)}
    BY DEF CInv, FetchInv, In, InC
<1> QED BY <1>1, <1>2, <1>3, <1>4 DEF LoadsSeeStores, WalksSeeStores, NoStaleFetch

(* At the last instruction of a routine: *)
Ends ==
    \/ In("mmu_init") /\ pc.i = 10
    \/ In("mmu_all_cache_on") /\ pc.i = 9
    \/ In("cp15_set_procid_ttbr0") /\ pc.i = 5
    \/ In("mmu_enable") /\ pc.i = 6
    \/ In("mmu_disable") /\ pc.i = 14

LEMMA StepFacts ==
    ASSUME PcOK, ~InC, pc.at # "boot", Step
    PROVE  /\ PcOK'
           /\ IF Ends THEN pc'.at = "c" /\ pc'.i = 1
                      ELSE pc'.at = pc.at /\ pc'.i = pc.i + 1
<1>1. pc.at \in Routines /\ pc.i \in 1 .. Len(Code(pc.at)) /\ pc.i \in Nat
    BY DEF PcOK, InC, Routines
<1>2. CASE pc.i = Len(Code(pc.at))
    <2>1. pc' = [at |-> "c", i |-> 1]
        BY <1>2 DEF Step
    <2>2. Ends
        BY <1>1, <1>2, InitCode, CacheOnCode, TableCode, EnableCode, DisableCode
           DEF Ends, Routines, In
    <2> QED BY <2>1, <2>2 DEF PcOK, Routines
<1>3. CASE pc.i # Len(Code(pc.at))
    <2>1. pc' = [pc EXCEPT !.i = pc.i + 1]
        BY <1>3 DEF Step
    <2>2. pc'.at = pc.at /\ pc'.i = pc.i + 1
        BY <2>1 DEF PcOK
    <2>3. pc' \in [at : {"boot", "c"} \cup Routines, i : Nat]
        BY <2>1, <1>1 DEF PcOK
    <2>4. Len(Code(pc.at)) \in Nat
        BY <1>1, InitCode, CacheOnCode, TableCode, EnableCode, DisableCode DEF Routines
    <2>5. pc'.i \in 1 .. Len(Code(pc'.at))
        BY <1>1, <1>3, <2>2, <2>4
    <2>6. ~Ends
        BY <1>1, <1>3, InitCode, CacheOnCode, TableCode, EnableCode, DisableCode
           DEF Ends, Routines, In
    <2> QED BY <1>1, <2>2, <2>3, <2>5, <2>6 DEF PcOK, Routines
<1> QED BY <1>2, <1>3

(* Where each instruction stands. *)
LEMMA InitAt ==
    ASSUME PcOK, In("mmu_init"), NEW op, Executes(op)
    PROVE  \/ op = "inv_dcache" /\ pc.i = 1
           \/ op = "flush_btb" /\ pc.i \in {2, 7}
           \/ op = "dsb" /\ pc.i \in {3, 8}
           \/ op = "prefetch_flush" /\ pc.i \in {4, 9}
           \/ op = "bx" /\ pc.i \in {5, 10}
           \/ op = "c1" /\ pc.i = 6
<1>1. pc.i \in 1 .. 10 /\ op = Code("mmu_init")[pc.i]
    BY InitCode DEF PcOK, Executes, In, Routines
<1>2. pc.i = 1 \/ pc.i = 2 \/ pc.i = 3 \/ pc.i = 4 \/ pc.i = 5
      \/ pc.i = 6 \/ pc.i = 7 \/ pc.i = 8 \/ pc.i = 9 \/ pc.i = 10
    BY <1>1
<1> QED BY <1>1, <1>2, InitCode

LEMMA CacheOnAt ==
    ASSUME PcOK, In("mmu_all_cache_on"), NEW op, Executes(op)
    PROVE  \/ op = "c1" /\ pc.i = 1
           \/ op = "flush_btb" /\ pc.i \in {2, 6}
           \/ op = "dsb" /\ pc.i \in {3, 7}
           \/ op = "prefetch_flush" /\ pc.i \in {4, 8}
           \/ op = "bx" /\ pc.i \in {5, 9}
<1>1. pc.i \in 1 .. 9 /\ op = Code("mmu_all_cache_on")[pc.i]
    BY CacheOnCode DEF PcOK, Executes, In, Routines
<1>2. pc.i = 1 \/ pc.i = 2 \/ pc.i = 3 \/ pc.i = 4 \/ pc.i = 5
      \/ pc.i = 6 \/ pc.i = 7 \/ pc.i = 8 \/ pc.i = 9
    BY <1>1
<1> QED BY <1>1, <1>2, CacheOnCode

LEMMA TableAt ==
    ASSUME PcOK, In("cp15_set_procid_ttbr0"), NEW op, Executes(op)
    PROVE  \/ op = "prefetch_flush" /\ pc.i \in {1, 3}
           \/ op = "ttbr0" /\ pc.i = 2
           \/ op = "dsb" /\ pc.i = 4
           \/ op = "bx" /\ pc.i = 5
<1>1. pc.i \in 1 .. 5 /\ op = Code("cp15_set_procid_ttbr0")[pc.i]
    BY TableCode DEF PcOK, Executes, In, Routines
<1>2. pc.i = 1 \/ pc.i = 2 \/ pc.i = 3 \/ pc.i = 4 \/ pc.i = 5
    BY <1>1
<1> QED BY <1>1, <1>2, TableCode

LEMMA EnableAt ==
    ASSUME PcOK, In("mmu_enable"), NEW op, Executes(op)
    PROVE  \/ op = "dsb" /\ pc.i \in {1, 4}
           \/ op = "c1" /\ pc.i = 2
           \/ op = "flush_btb" /\ pc.i = 3
           \/ op = "prefetch_flush" /\ pc.i = 5
           \/ op = "bx" /\ pc.i = 6
<1>1. pc.i \in 1 .. 6 /\ op = Code("mmu_enable")[pc.i]
    BY EnableCode DEF PcOK, Executes, In, Routines
<1>2. pc.i = 1 \/ pc.i = 2 \/ pc.i = 3 \/ pc.i = 4 \/ pc.i = 5
      \/ pc.i = 6
    BY <1>1
<1> QED BY <1>1, <1>2, EnableCode

LEMMA DisableAt ==
    ASSUME PcOK, In("mmu_disable"), NEW op, Executes(op)
    PROVE  \/ op = "dsb" /\ pc.i \in {1, 3, 6, 9, 12}
           \/ op = "clean_inv_dcache" /\ pc.i = 2
           \/ op = "prefetch_flush" /\ pc.i \in {4, 7, 10, 13}
           \/ op = "c1_noC" /\ pc.i = 5
           \/ op = "c1" /\ pc.i = 8
           \/ op = "flush_btb" /\ pc.i = 11
           \/ op = "bx" /\ pc.i = 14
<1>1. pc.i \in 1 .. 14 /\ op = Code("mmu_disable")[pc.i]
    BY DisableCode DEF PcOK, Executes, In, Routines
<1>2. pc.i = 1 \/ pc.i = 2 \/ pc.i = 3 \/ pc.i = 4 \/ pc.i = 5
      \/ pc.i = 6 \/ pc.i = 7 \/ pc.i = 8 \/ pc.i = 9 \/ pc.i = 10
      \/ pc.i = 11 \/ pc.i = 12 \/ pc.i = 13 \/ pc.i = 14
    BY <1>1
<1> QED BY <1>1, <1>2, DisableCode

LEMMA Running ==
    ASSUME PcOK, NEW op, Executes(op)
    PROVE  \/ In("mmu_init") \/ In("mmu_all_cache_on") \/ In("cp15_set_procid_ttbr0")
           \/ In("mmu_enable") \/ In("mmu_disable")
BY DEF PcOK, Executes, InC, Routines, In

-----------------------------------------------------------------------------
(* Instructions. *)
LEMMA DSB_Keeps ==
    ASSUME CInv, DSB
    PROVE  CInv'
<1>1. \/ In("mmu_init") /\ pc.i \in {3, 8}
      \/ In("mmu_all_cache_on") /\ pc.i \in {3, 7}
      \/ In("cp15_set_procid_ttbr0") /\ pc.i = 4
      \/ In("mmu_enable") /\ pc.i \in {1, 4}
      \/ In("mmu_disable") /\ pc.i \in {1, 3, 6, 9, 12}
    BY Running, InitAt, CacheOnAt, TableAt, EnableAt, DisableAt DEF DSB, CInv
<1>2. PcOK /\ ~InC /\ pc.at # "boot" /\ Step
    BY DEF DSB, Executes, CInv
<1>3. /\ PcOK'
      /\ IF Ends THEN pc'.at = "c" /\ pc'.i = 1
                 ELSE pc'.at = pc.at /\ pc'.i = pc.i + 1
    BY <1>2, StepFacts
<1>4. Types'
    BY <1>1, CachesAssumption DEF DSB, data, fetches, CInv, Types, CtrlInv, Mapping
<1>5. CtrlInv'
    BY <1>1, <1>3 DEF DSB, data, fetches, CInv, CtrlInv, Ends, In, Before
<1>6. FetchInv'
    BY <1>1, <1>3
       DEF DSB, data, fetches, CInv, CtrlInv, FetchInv, Mapping, Ends, In, Before
<1>7. ASSUME NEW l \in Lines PROVE LineInv(l)'
    BY <1>1, <1>3
       DEF DSB, data, fetches, CInv, CtrlInv, LineInv, Fresh, Caching, Types, Ends, In,
           Before
<1>8. ASSUME Walkable', NEW l \in Descriptors PROVE DescriptorInv(l)'
    BY <1>1, <1>3, <1>8, CachesAssumption
       DEF DSB, data, fetches, CInv, CtrlInv, LineInv, Fresh, Caching, Walkable,
           DescriptorInv, Types, Ends, In, Before
<1> QED BY <1>3, <1>4, <1>5, <1>6, <1>7, <1>8 DEF CInv

LEMMA PREFETCH_FLUSH_Keeps ==
    ASSUME CInv, PREFETCH_FLUSH
    PROVE  CInv'
<1>1. \/ In("mmu_init") /\ pc.i \in {4, 9}
      \/ In("mmu_all_cache_on") /\ pc.i \in {4, 8}
      \/ In("cp15_set_procid_ttbr0") /\ pc.i \in {1, 3}
      \/ In("mmu_enable") /\ pc.i = 5
      \/ In("mmu_disable") /\ pc.i \in {4, 7, 10, 13}
    BY Running, InitAt, CacheOnAt, TableAt, EnableAt, DisableAt DEF PREFETCH_FLUSH, CInv
<1>2. PcOK /\ ~InC /\ pc.at # "boot" /\ Step
    BY DEF PREFETCH_FLUSH, Executes, CInv
<1>3. /\ PcOK'
      /\ IF Ends THEN pc'.at = "c" /\ pc'.i = 1
                 ELSE pc'.at = pc.at /\ pc'.i = pc.i + 1
    BY <1>2, StepFacts
<1>4. Types'
    BY <1>1, CachesAssumption
       DEF PREFETCH_FLUSH, data, fetches, CInv, Types, CtrlInv, Mapping
<1>5. CtrlInv'
    BY <1>1, <1>3 DEF PREFETCH_FLUSH, data, fetches, CInv, CtrlInv, Ends, In, Before
<1>6. FetchInv'
    BY <1>1, <1>3
       DEF PREFETCH_FLUSH, data, fetches, CInv, CtrlInv, FetchInv, Mapping, Ends, In,
           Before
<1>7. ASSUME NEW l \in Lines PROVE LineInv(l)'
    BY <1>1, <1>3
       DEF PREFETCH_FLUSH, data, fetches, CInv, CtrlInv, LineInv, Fresh, Caching,
           Types, Ends, In, Before
<1>8. ASSUME Walkable', NEW l \in Descriptors PROVE DescriptorInv(l)'
    BY <1>1, <1>3, <1>8, CachesAssumption
       DEF PREFETCH_FLUSH, data, fetches, CInv, CtrlInv, LineInv, Fresh, Caching,
           Walkable, DescriptorInv, Types, Ends, In, Before
<1> QED BY <1>3, <1>4, <1>5, <1>6, <1>7, <1>8 DEF CInv

LEMMA FLUSH_BTB_Keeps ==
    ASSUME CInv, FLUSH_BTB
    PROVE  CInv'
<1>1. \/ In("mmu_init") /\ pc.i \in {2, 7}
      \/ In("mmu_all_cache_on") /\ pc.i \in {2, 6}
      \/ In("mmu_enable") /\ pc.i = 3
      \/ In("mmu_disable") /\ pc.i = 11
    BY Running, InitAt, CacheOnAt, TableAt, EnableAt, DisableAt DEF FLUSH_BTB, CInv
<1>2. PcOK /\ ~InC /\ pc.at # "boot" /\ Step
    BY DEF FLUSH_BTB, Executes, CInv
<1>3. /\ PcOK'
      /\ IF Ends THEN pc'.at = "c" /\ pc'.i = 1
                 ELSE pc'.at = pc.at /\ pc'.i = pc.i + 1
    BY <1>2, StepFacts
<1>4. Types'
    BY <1>1, CachesAssumption DEF FLUSH_BTB, data, fetches, CInv, Types, CtrlInv, Mapping
<1>5. CtrlInv'
    BY <1>1, <1>3 DEF FLUSH_BTB, data, fetches, CInv, CtrlInv, Ends, In, Before
<1>6. FetchInv'
    BY <1>1, <1>3
       DEF FLUSH_BTB, data, fetches, CInv, CtrlInv, FetchInv, Mapping, Ends, In, Before
<1>7. ASSUME NEW l \in Lines PROVE LineInv(l)'
    BY <1>1, <1>3
       DEF FLUSH_BTB, data, fetches, CInv, CtrlInv, LineInv, Fresh, Caching, Types,
           Ends, In, Before
<1>8. ASSUME Walkable', NEW l \in Descriptors PROVE DescriptorInv(l)'
    BY <1>1, <1>3, <1>8, CachesAssumption
       DEF FLUSH_BTB, data, fetches, CInv, CtrlInv, LineInv, Fresh, Caching, Walkable,
           DescriptorInv, Types, Ends, In, Before
<1> QED BY <1>3, <1>4, <1>5, <1>6, <1>7, <1>8 DEF CInv

LEMMA CLEAN_INV_DCACHE_Keeps ==
    ASSUME CInv, CLEAN_INV_DCACHE
    PROVE  CInv'
<1>1. In("mmu_disable") /\ pc.i = 2
    BY Running, InitAt, CacheOnAt, TableAt, EnableAt, DisableAt DEF CLEAN_INV_DCACHE, CInv
<1>2. PcOK /\ ~InC /\ pc.at # "boot" /\ Step
    BY DEF CLEAN_INV_DCACHE, Executes, CInv
<1>3. /\ PcOK'
      /\ IF Ends THEN pc'.at = "c" /\ pc'.i = 1
                 ELSE pc'.at = pc.at /\ pc'.i = pc.i + 1
    BY <1>2, StepFacts
<1>4. Types'
    BY <1>1, CachesAssumption
       DEF CLEAN_INV_DCACHE, data, fetches, CInv, Types, CtrlInv, Mapping
<1>5. CtrlInv'
    BY <1>1, <1>3 DEF CLEAN_INV_DCACHE, data, fetches, CInv, CtrlInv, Ends, In, Before
<1>6. FetchInv'
    BY <1>1, <1>3
       DEF CLEAN_INV_DCACHE, data, fetches, CInv, CtrlInv, FetchInv, Mapping, Ends, In,
           Before
<1>7. ASSUME NEW l \in Lines PROVE LineInv(l)'
    <2>1. /\ LineInv(l) /\ ~Fresh
          /\ dcache'[l] = None /\ mem' = mem /\ stored' = stored
          /\ buffer'[l] = IF dcache[l] # None /\ dcache[l].dirty
                          THEN dcache[l].val ELSE buffer[l]
        BY <1>1 DEF CLEAN_INV_DCACHE, CInv, Fresh, In, Types
    <2>2. dcache[l] # None => dcache[l].val \in Values /\ dcache[l].val # None
        BY CachesAssumption DEF CInv, Types
    <2> QED BY <2>1, <2>2 DEF LineInv
<1>8. ASSUME Walkable', NEW l \in Descriptors PROVE DescriptorInv(l)'
    BY <1>1, <1>3, <1>8, CachesAssumption
       DEF CLEAN_INV_DCACHE, data, fetches, CInv, CtrlInv, LineInv, Fresh, Caching,
           Walkable, DescriptorInv, Types, Ends, In, Before
<1> QED BY <1>3, <1>4, <1>5, <1>6, <1>7, <1>8 DEF CInv

LEMMA INV_DCACHE_Keeps ==
    ASSUME CInv, INV_DCACHE
    PROVE  CInv'
<1>1. In("mmu_init") /\ pc.i = 1
    BY Running, InitAt, CacheOnAt, TableAt, EnableAt, DisableAt DEF INV_DCACHE, CInv
<1>2. PcOK /\ ~InC /\ pc.at # "boot" /\ Step
    BY DEF INV_DCACHE, Executes, CInv
<1>3. /\ PcOK'
      /\ IF Ends THEN pc'.at = "c" /\ pc'.i = 1
                 ELSE pc'.at = pc.at /\ pc'.i = pc.i + 1
    BY <1>2, StepFacts
<1>4. Types'
    BY <1>1, CachesAssumption DEF INV_DCACHE, data, fetches, CInv, Types, CtrlInv, Mapping
<1>5. CtrlInv'
    BY <1>1, <1>3 DEF INV_DCACHE, data, fetches, CInv, CtrlInv, Ends, In, Before
<1>6. FetchInv'
    BY <1>1, <1>3
       DEF INV_DCACHE, data, fetches, CInv, CtrlInv, FetchInv, Mapping, Ends, In,
           Before
<1>7. ASSUME NEW l \in Lines PROVE LineInv(l)'
    BY <1>1, <1>3
       DEF INV_DCACHE, data, fetches, CInv, CtrlInv, LineInv, Fresh, Caching, Types,
           Ends, In, Before
<1>8. ASSUME Walkable', NEW l \in Descriptors PROVE DescriptorInv(l)'
    BY <1>1, <1>3, <1>8, CachesAssumption
       DEF INV_DCACHE, data, fetches, CInv, CtrlInv, LineInv, Fresh, Caching, Walkable,
           DescriptorInv, Types, Ends, In, Before
<1> QED BY <1>3, <1>4, <1>5, <1>6, <1>7, <1>8 DEF CInv

LEMMA TTBR0_SET_Keeps ==
    ASSUME CInv, TTBR0_SET
    PROVE  CInv'
<1>1. In("cp15_set_procid_ttbr0") /\ pc.i = 2
    BY Running, InitAt, CacheOnAt, TableAt, EnableAt, DisableAt DEF TTBR0_SET, CInv
<1>2. PcOK /\ ~InC /\ pc.at # "boot" /\ Step
    BY DEF TTBR0_SET, Executes, CInv
<1>3. /\ PcOK'
      /\ IF Ends THEN pc'.at = "c" /\ pc'.i = 1
                 ELSE pc'.at = pc.at /\ pc'.i = pc.i + 1
    BY <1>2, StepFacts
<1>4. Types'
    BY <1>1, CachesAssumption DEF TTBR0_SET, data, fetches, CInv, Types, CtrlInv, Mapping
<1>5. CtrlInv'
    BY <1>1, <1>3 DEF TTBR0_SET, data, fetches, CInv, CtrlInv, Ends, In, Before
<1>6. FetchInv'
    BY <1>1, <1>3
       DEF TTBR0_SET, data, fetches, CInv, CtrlInv, FetchInv, Mapping, Ends, In, Before
<1>7. ASSUME NEW l \in Lines PROVE LineInv(l)'
    BY <1>1, <1>3
       DEF TTBR0_SET, data, fetches, CInv, CtrlInv, LineInv, Fresh, Caching, Types,
           Ends, In, Before
<1>8. ASSUME Walkable', NEW l \in Descriptors PROVE DescriptorInv(l)'
    BY <1>1, <1>3, <1>8, CachesAssumption
       DEF TTBR0_SET, data, fetches, CInv, CtrlInv, LineInv, Fresh, Caching, Walkable,
           DescriptorInv, Types, Ends, In, Before
<1> QED BY <1>3, <1>4, <1>5, <1>6, <1>7, <1>8 DEF CInv

LEMMA BX_Keeps ==
    ASSUME CInv, BX
    PROVE  CInv'
<1>1. \/ In("mmu_init") /\ pc.i \in {5, 10}
      \/ In("mmu_all_cache_on") /\ pc.i \in {5, 9}
      \/ In("cp15_set_procid_ttbr0") /\ pc.i = 5
      \/ In("mmu_enable") /\ pc.i = 6
      \/ In("mmu_disable") /\ pc.i = 14
    BY Running, InitAt, CacheOnAt, TableAt, EnableAt, DisableAt DEF BX, CInv
<1>2. PcOK /\ ~InC /\ pc.at # "boot" /\ Step
    BY DEF BX, Executes, CInv
<1>3. /\ PcOK'
      /\ IF Ends THEN pc'.at = "c" /\ pc'.i = 1
                 ELSE pc'.at = pc.at /\ pc'.i = pc.i + 1
    BY <1>2, StepFacts
<1>4. Types'
    BY <1>1, CachesAssumption DEF BX, data, fetches, CInv, Types, CtrlInv, Mapping
<1>5. CtrlInv'
    BY <1>1, <1>3 DEF BX, data, fetches, CInv, CtrlInv, Ends, In, Before
<1>6. FetchInv'
    <2>1. /\ btb' \subseteq btb \cup {Mapping(seen)} /\ fetched' = fetched
          /\ ctrl' = ctrl /\ ttbr0' = ttbr0 /\ CtrlInv /\ FetchInv
        BY DEF BX, CInv, data
    <2>2. Mapping(ctrl)' = Mapping(ctrl)
        BY <2>1 DEF Mapping
    <2>3. CASE In("mmu_init") \/ In("cp15_set_procid_ttbr0")
        <3>1. ~ctrl.M /\ Mapping(seen) = "flat" /\ Mapping(ctrl) = "flat"
            BY <2>1, <2>3 DEF CtrlInv, Mapping
        <3> QED BY <1>3, <2>1, <2>2, <2>3, <3>1 DEF FetchInv, In
    <2>4. CASE In("mmu_all_cache_on")
        <3>1. Mapping(seen) = Mapping(ctrl)
            BY <2>1, <2>4 DEF CtrlInv, Mapping
        <3> QED BY <1>3, <2>1, <2>2, <2>4, <3>1 DEF FetchInv, In
    <2>5. CASE In("mmu_enable")
        <3>1. Mapping(seen) = ttbr0 /\ Mapping(ctrl) = ttbr0
            BY <1>1, <2>1, <2>5 DEF CtrlInv, Mapping, Before, In
        <3>2. pc'.at = "c" /\ btb = {} /\ fetched \subseteq {ttbr0}
            BY <1>1, <1>3, <2>1, <2>5 DEF FetchInv, Before, Ends, In
        <3> QED BY <2>1, <2>2, <3>1, <3>2 DEF FetchInv, In
    <2>6. CASE In("mmu_disable")
        <3>1. Mapping(seen) = "flat" /\ Mapping(ctrl) = "flat"
            BY <1>1, <2>1, <2>6 DEF CtrlInv, Mapping, Before, In
        <3>2. pc'.at = "c" /\ btb = {} /\ fetched \subseteq {"flat"}
            BY <1>1, <1>3, <2>1, <2>6 DEF FetchInv, Before, Ends, In
        <3> QED BY <2>1, <2>2, <3>1, <3>2 DEF FetchInv, In
    <2> QED BY <1>1, <2>3, <2>4, <2>5, <2>6
<1>7. ASSUME NEW l \in Lines PROVE LineInv(l)'
    BY <1>1, <1>3
       DEF BX, data, fetches, CInv, CtrlInv, LineInv, Fresh, Caching, Types, Ends, In,
           Before
<1>8. ASSUME Walkable', NEW l \in Descriptors PROVE DescriptorInv(l)'
    BY <1>1, <1>3, <1>8, CachesAssumption
       DEF BX, data, fetches, CInv, CtrlInv, LineInv, Fresh, Caching, Walkable,
           DescriptorInv, Types, Ends, In, Before
<1> QED BY <1>3, <1>4, <1>5, <1>6, <1>7, <1>8 DEF CInv

LEMMA CONTROL_REG1_WR_Keeps ==
    ASSUME CInv, CONTROL_REG1_WR
    PROVE  CInv'
<1>1. \/ /\ ctrl' = r0
         /\ \/ In("mmu_init") /\ pc.i = 6
            \/ In("mmu_all_cache_on") /\ pc.i = 1
            \/ In("mmu_enable") /\ pc.i = 2
            \/ In("mmu_disable") /\ pc.i = 8
      \/ /\ ctrl' = [ctrl EXCEPT !.C = FALSE]
         /\ In("mmu_disable") /\ pc.i = 5
    BY Running, InitAt, CacheOnAt, TableAt, EnableAt, DisableAt DEF CONTROL_REG1_WR, CInv
<1>2. PcOK /\ ~InC /\ pc.at # "boot" /\ Step
    BY DEF CONTROL_REG1_WR, Executes, CInv
<1>3. PcOK' /\ pc'.at = pc.at /\ pc'.i = pc.i + 1
    BY <1>1, <1>2, StepFacts DEF Ends, In
<1>4. Types'
    <2>1. ctrl' \in Control
        BY <1>1 DEF CInv, CtrlInv, Types, Control, In, Before
    <2> QED BY <2>1 DEF CONTROL_REG1_WR, data, fetches, CInv, Types
<1>5. CtrlInv'
    BY <1>1, <1>3
       DEF CONTROL_REG1_WR, data, fetches, CInv, CtrlInv, Types, Control, In, Before
<1>6. FetchInv'
    BY <1>1, <1>3
       DEF CONTROL_REG1_WR, data, fetches, CInv, CtrlInv, FetchInv, Mapping, In,
           Before, Control
<1>7. ASSUME NEW l \in Lines PROVE LineInv(l)'
    BY <1>1, <1>3
       DEF CONTROL_REG1_WR, data, fetches, CInv, CtrlInv, LineInv, Fresh, Caching,
           Types, In, Before, Control
<1>8. ASSUME Walkable', NEW l \in Descriptors PROVE DescriptorInv(l)'
    BY <1>1, <1>3, <1>8, CachesAssumption
       DEF CONTROL_REG1_WR, data, fetches, CInv, CtrlInv, LineInv, Fresh, Caching,
           Walkable, DescriptorInv, Types, In, Before, Control
<1> QED BY <1>3, <1>4, <1>5, <1>6, <1>7, <1>8 DEF CInv

-----------------------------------------------------------------------------
(* Calls, and loads and stores of C code. *)

LEMMA mmu_init_Keeps ==
    ASSUME CInv, mmu_init
    PROVE  CInv'
<1>2. pc' = [at |-> "mmu_init", i |-> 1] /\ UNCHANGED <<ctrl, seen, ttbr0, data, fetches>>
    BY DEF mmu_init, Call
<1>3. PcOK'
    BY <1>2, InitCode DEF PcOK, Routines
<1>4. Types'
    BY <1>2, CachesAssumption DEF mmu_init, Call, data, fetches, CInv, Types
<1>5. CtrlInv'
    BY <1>2, CachesAssumption
       DEF mmu_init, Call, data, fetches, CInv, CtrlInv, Types, Control, In, Before,
           InC
<1>6. FetchInv'
    BY <1>2, CachesAssumption
       DEF mmu_init, Call, data, fetches, CInv, CtrlInv, FetchInv, Mapping, In, Before,
           InC
<1>7. ASSUME NEW m \in Lines PROVE LineInv(m)'
    BY <1>2, CachesAssumption
       DEF mmu_init, Call, data, fetches, CInv, CtrlInv, LineInv, Fresh, Caching,
           Types, In, Before, InC
<1>8. ASSUME Walkable', NEW m \in Descriptors PROVE DescriptorInv(m)'
    BY <1>2, <1>8, CachesAssumption
       DEF mmu_init, Call, data, fetches, CInv, CtrlInv, LineInv, Fresh, Caching,
           Walkable, DescriptorInv, Types, In, Before, InC
<1> QED BY <1>3, <1>4, <1>5, <1>6, <1>7, <1>8 DEF CInv

LEMMA mmu_all_cache_on_Keeps ==
    ASSUME CInv, mmu_all_cache_on
    PROVE  CInv'
<1>2. /\ pc' = [at |-> "mmu_all_cache_on", i |-> 1]
      /\ UNCHANGED <<ctrl, seen, ttbr0, data, fetches>>
    BY DEF mmu_all_cache_on, Call
<1>3. PcOK'
    BY <1>2, CacheOnCode DEF PcOK, Routines
<1>4. Types'
    BY <1>2, CachesAssumption DEF mmu_all_cache_on, Call, data, fetches, CInv, Types
<1>5. CtrlInv'
    <2>1. r0' \in Control /\ r0'.C /\ r0'.M = ctrl.M
        BY DEF mmu_all_cache_on, Call, CInv, Types, Control
    <2>2. In("c") /\ seen = ctrl
        BY DEF mmu_all_cache_on, CInv, CtrlInv, In, InC
    <2> QED BY <1>2, <2>1, <2>2 DEF CtrlInv, In, Before
<1>6. FetchInv'
    BY <1>2, CachesAssumption
       DEF mmu_all_cache_on, Call, data, fetches, CInv, CtrlInv, FetchInv, Mapping, In,
           Before, InC
<1>7. ASSUME NEW m \in Lines PROVE LineInv(m)'
    BY <1>2, CachesAssumption
       DEF mmu_all_cache_on, Call, data, fetches, CInv, CtrlInv, LineInv, Fresh,
           Caching, Types, In, Before, InC
<1>8. ASSUME Walkable', NEW m \in Descriptors PROVE DescriptorInv(m)'
    BY <1>2, <1>8, CachesAssumption
       DEF mmu_all_cache_on, Call, data, fetches, CInv, CtrlInv, LineInv, Fresh,
           Caching, Walkable, DescriptorInv, Types, In, Before, InC
<1> QED BY <1>3, <1>4, <1>5, <1>6, <1>7, <1>8 DEF CInv

LEMMA env_switch_to_Keeps ==
    ASSUME CInv, env_switch_to
    PROVE  CInv'
<1>2. /\ pc' = [at |-> "cp15_set_procid_ttbr0", i |-> 1]
      /\ UNCHANGED <<ctrl, seen, ttbr0, data, fetches>>
    BY DEF env_switch_to, Call
<1>3. PcOK'
    BY <1>2, TableCode DEF PcOK, Routines
<1>4. Types'
    BY <1>2, CachesAssumption DEF env_switch_to, Call, data, fetches, CInv, Types
<1>5. CtrlInv'
    BY <1>2, CachesAssumption
       DEF env_switch_to, Call, data, fetches, CInv, CtrlInv, Types, Control, In,
           Before, InC
<1>6. FetchInv'
    BY <1>2, CachesAssumption
       DEF env_switch_to, Call, data, fetches, CInv, CtrlInv, FetchInv, Mapping, In,
           Before, InC
<1>7. ASSUME NEW m \in Lines PROVE LineInv(m)'
    BY <1>2, CachesAssumption
       DEF env_switch_to, Call, data, fetches, CInv, CtrlInv, LineInv, Fresh, Caching,
           Types, In, Before, InC
<1>8. ASSUME Walkable', NEW m \in Descriptors PROVE DescriptorInv(m)'
    BY <1>2, <1>8, CachesAssumption
       DEF env_switch_to, Call, data, fetches, CInv, CtrlInv, LineInv, Fresh, Caching,
           Walkable, DescriptorInv, Types, In, Before, InC
<1> QED BY <1>3, <1>4, <1>5, <1>6, <1>7, <1>8 DEF CInv

LEMMA mmu_enable_Keeps ==
    ASSUME CInv, mmu_enable
    PROVE  CInv'
<1>2. /\ pc' = [at |-> "mmu_enable", i |-> 1]
      /\ UNCHANGED <<ctrl, seen, ttbr0, data, fetches>>
    BY DEF mmu_enable, Call
<1>3. PcOK'
    BY <1>2, EnableCode DEF PcOK, Routines
<1>4. Types'
    BY <1>2, CachesAssumption DEF mmu_enable, Call, data, fetches, CInv, Types
<1>5. CtrlInv'
    <2>1. r0' \in Control /\ r0'.M /\ ~ctrl.M
        BY DEF mmu_enable, Call, CInv, Types, Control
    <2>2. In("c") /\ seen = ctrl
        BY DEF mmu_enable, CInv, CtrlInv, In, InC
    <2> QED BY <1>2, <2>1, <2>2 DEF CtrlInv, In, Before
<1>6. FetchInv'
    BY <1>2, CachesAssumption
       DEF mmu_enable, Call, data, fetches, CInv, CtrlInv, FetchInv, Mapping, In,
           Before, InC
<1>7. ASSUME NEW m \in Lines PROVE LineInv(m)'
    BY <1>2, CachesAssumption
       DEF mmu_enable, Call, data, fetches, CInv, CtrlInv, LineInv, Fresh, Caching,
           Types, In, Before, InC
<1>8. ASSUME Walkable', NEW m \in Descriptors PROVE DescriptorInv(m)'
    BY <1>2, <1>8, CachesAssumption
       DEF mmu_enable, Call, data, fetches, CInv, CtrlInv, LineInv, Fresh, Caching,
           Walkable, DescriptorInv, Types, In, Before, InC
<1> QED BY <1>3, <1>4, <1>5, <1>6, <1>7, <1>8 DEF CInv

LEMMA mmu_disable_Keeps ==
    ASSUME CInv, mmu_disable
    PROVE  CInv'
<1>2. /\ pc' = [at |-> "mmu_disable", i |-> 1]
      /\ UNCHANGED <<ctrl, seen, ttbr0, data, fetches>>
    BY DEF mmu_disable, Call
<1>3. PcOK'
    BY <1>2, DisableCode DEF PcOK, Routines
<1>4. Types'
    BY <1>2, CachesAssumption DEF mmu_disable, Call, data, fetches, CInv, Types
<1>5. CtrlInv'
    <2>1. r0' \in Control /\ ~r0'.M /\ ~r0'.C /\ ctrl.M
        BY DEF mmu_disable, Call, CInv, Types, Control
    <2>2. In("c") /\ seen = ctrl
        BY DEF mmu_disable, CInv, CtrlInv, In, InC
    <2> QED BY <1>2, <2>1, <2>2 DEF CtrlInv, In, Before
<1>6. FetchInv'
    BY <1>2, CachesAssumption
       DEF mmu_disable, Call, data, fetches, CInv, CtrlInv, FetchInv, Mapping, In,
           Before, InC
<1>7. ASSUME NEW m \in Lines PROVE LineInv(m)'
    BY <1>2, CachesAssumption
       DEF mmu_disable, Call, data, fetches, CInv, CtrlInv, LineInv, Fresh, Caching,
           Types, In, Before, InC
<1>8. ASSUME Walkable', NEW m \in Descriptors PROVE DescriptorInv(m)'
    BY <1>2, <1>8, CachesAssumption
       DEF mmu_disable, Call, data, fetches, CInv, CtrlInv, LineInv, Fresh, Caching,
           Walkable, DescriptorInv, Types, In, Before, InC
<1> QED BY <1>3, <1>4, <1>5, <1>6, <1>7, <1>8 DEF CInv

LEMMA Load_Keeps ==
    ASSUME CInv, NEW l \in Lines, Load(l)
    PROVE  CInv'
<1>3. PcOK'
    BY DEF Load, CInv, PcOK
<1>4. Types'
    BY CachesAssumption DEF Load, fetches, InCache, CInv, Types
<1>5. CtrlInv'
    BY CachesAssumption
       DEF Load, fetches, InCache, CInv, CtrlInv, Types, Control, In, Before, InC
<1>6. FetchInv'
    BY CachesAssumption
       DEF Load, fetches, InCache, CInv, CtrlInv, FetchInv, Mapping, In, Before, InC
<1>7. ASSUME NEW m \in Lines PROVE LineInv(m)'
    BY CachesAssumption
       DEF Load, fetches, InCache, CInv, CtrlInv, LineInv, Fresh, Caching, Types, In,
           Before, InC
<1>8. ASSUME Walkable', NEW m \in Descriptors PROVE DescriptorInv(m)'
    BY <1>8, CachesAssumption
       DEF Load, fetches, InCache, CInv, CtrlInv, LineInv, Fresh, Caching, Walkable,
           DescriptorInv, Types, In, Before, InC
<1> QED BY <1>3, <1>4, <1>5, <1>6, <1>7, <1>8 DEF CInv

LEMMA Store_Keeps ==
    ASSUME CInv, NEW l \in Lines, NEW v \in Values, Store(l, v)
    PROVE  CInv'
<1>3. PcOK'
    BY DEF Store, CInv, PcOK
<1>4. Types'
    <2>1. CASE /\ dcache' = [dcache EXCEPT ![l] = [val |-> v, dirty |-> TRUE]]
               /\ UNCHANGED buffer
        BY <2>1 DEF Store, fetches, CInv, Types
    <2>2. CASE buffer' = [buffer EXCEPT ![l] = v] /\ UNCHANGED dcache
        BY <2>2 DEF Store, fetches, CInv, Types
    <2> QED BY <2>1, <2>2 DEF Store
<1>5. CtrlInv'
    BY CachesAssumption
       DEF Store, fetches, InCache, CInv, CtrlInv, Types, Control, In, Before, InC
<1>6. FetchInv'
    BY CachesAssumption
       DEF Store, fetches, InCache, CInv, CtrlInv, FetchInv, Mapping, In, Before, InC
<1>7. ASSUME NEW m \in Lines PROVE LineInv(m)'
    <2>1. /\ LineInv(m) /\ pc' = pc /\ ctrl' = ctrl /\ seen' = seen /\ mem' = mem
          /\ In("c") /\ ~Fresh /\ seen = ctrl /\ v # None
          /\ stored' = [stored EXCEPT ![l] = v]
        BY CachesAssumption DEF Store, CInv, CtrlInv, InC, In, Fresh
    <2>2. (Fresh <=> Fresh') /\ (Caching <=> Caching')
        BY <2>1 DEF Fresh, Caching, In, Before
    <2>3. CASE m # l
        <3>1. buffer'[m] = buffer[m] /\ dcache'[m] = dcache[m] /\ stored'[m] = stored[m]
            BY <2>3 DEF Store, CInv, Types
        <3> QED BY <2>1, <2>2, <3>1 DEF LineInv
    <2>4. CASE m = l
        <3>1. stored'[l] = v
            BY <2>1 DEF CInv, Types
        <3>2. CASE /\ InCache(l) /\ buffer[l] = None
                   /\ dcache' = [dcache EXCEPT ![l] = [val |-> v, dirty |-> TRUE]]
                   /\ UNCHANGED buffer
            <4>1. dcache'[l] = [val |-> v, dirty |-> TRUE] /\ dcache'[l] # None
                <5>1. [val |-> v, dirty |-> TRUE] \in [val : Values, dirty : BOOLEAN]
                    OBVIOUS
                <5>2. [val |-> v, dirty |-> TRUE] # None
                    BY <5>1, CachesAssumption
                <5>3. dcache'[l] = [val |-> v, dirty |-> TRUE]
                    BY <3>2 DEF CInv, Types
                <5> QED BY <5>2, <5>3
            <4>2. Caching /\ l \in Cacheable
                BY <2>1, <3>2 DEF InCache, Caching
            <4> QED BY <2>1, <2>2, <2>4, <3>1, <3>2, <4>1, <4>2 DEF LineInv
        <3>3. CASE /\ ~(InCache(l) /\ dcache[l] # None)
                   /\ buffer' = [buffer EXCEPT ![l] = v] /\ UNCHANGED dcache
            <4>1. buffer'[l] = v /\ dcache'[l] = dcache[l]
                BY <3>3 DEF CInv, Types
            <4>2. dcache[l] = None
                BY <2>1, <2>4, <3>3 DEF LineInv, Caching, InCache
            <4> QED BY <2>1, <2>2, <2>4, <3>1, <4>1, <4>2 DEF LineInv
        <3> QED BY <3>2, <3>3 DEF Store
    <2> QED BY <2>3, <2>4
<1>8. ASSUME Walkable', NEW m \in Descriptors PROVE DescriptorInv(m)'
    BY <1>8, CachesAssumption
       DEF Store, fetches, InCache, CInv, CtrlInv, LineInv, Fresh, Caching, Walkable,
           DescriptorInv, Types, In, Before, InC
<1> QED BY <1>3, <1>4, <1>5, <1>6, <1>7, <1>8 DEF CInv

-----------------------------------------------------------------------------
(* The hardware by itself. *)

LEMMA Drain_Keeps ==
    ASSUME CInv, NEW l \in Lines, Drain(l)
    PROVE  CInv'
<1>3. PcOK'
    BY DEF Drain, CInv, PcOK
<1>4. Types'
    BY CachesAssumption DEF Drain, fetches, CInv, Types
<1>5. CtrlInv'
    BY CachesAssumption DEF Drain, fetches, CInv, CtrlInv, Types, Control, In, Before, InC
<1>6. FetchInv'
    BY CachesAssumption
       DEF Drain, fetches, CInv, CtrlInv, FetchInv, Mapping, In, Before, InC
<1>7. ASSUME NEW m \in Lines PROVE LineInv(m)'
    BY CachesAssumption
       DEF Drain, fetches, CInv, CtrlInv, LineInv, Fresh, Caching, Types, In, Before,
           InC
<1>8. ASSUME Walkable', NEW m \in Descriptors PROVE DescriptorInv(m)'
    BY <1>8, CachesAssumption
       DEF Drain, fetches, CInv, CtrlInv, LineInv, Fresh, Caching, Walkable,
           DescriptorInv, Types, In, Before, InC
<1> QED BY <1>3, <1>4, <1>5, <1>6, <1>7, <1>8 DEF CInv

LEMMA Evict_Keeps ==
    ASSUME CInv, NEW l \in Lines, Evict(l)
    PROVE  CInv'
<1>3. PcOK'
    BY DEF Evict, CInv, PcOK
<1>4. Types'
    BY CachesAssumption DEF Evict, fetches, InCache, CInv, Types
<1>5. CtrlInv'
    BY CachesAssumption
       DEF Evict, fetches, InCache, CInv, CtrlInv, Types, Control, In, Before, InC
<1>6. FetchInv'
    BY CachesAssumption
       DEF Evict, fetches, InCache, CInv, CtrlInv, FetchInv, Mapping, In, Before, InC
<1>7. ASSUME NEW m \in Lines PROVE LineInv(m)'
    BY CachesAssumption
       DEF Evict, fetches, InCache, CInv, CtrlInv, LineInv, Fresh, Caching, Types, In,
           Before, InC
<1>8. ASSUME Walkable', NEW m \in Descriptors PROVE DescriptorInv(m)'
    BY <1>8, CachesAssumption
       DEF Evict, fetches, InCache, CInv, CtrlInv, LineInv, Fresh, Caching, Walkable,
           DescriptorInv, Types, In, Before, InC
<1> QED BY <1>3, <1>4, <1>5, <1>6, <1>7, <1>8 DEF CInv

LEMMA Fetch_Keeps ==
    ASSUME CInv, Fetch
    PROVE  CInv'
<1>3. PcOK'
    BY DEF Fetch, CInv, PcOK
<1>4. Types'
    BY CachesAssumption DEF Fetch, data, Mapping, CInv, Types
<1>5. CtrlInv'
    BY CachesAssumption
       DEF Fetch, data, Mapping, CInv, CtrlInv, Types, Control, In, Before, InC
<1>6. FetchInv'
    <2>1. /\ fetched' = fetched \cup {Mapping(seen)}
          /\ btb' = btb \/ (In("c") /\ btb' \subseteq btb \cup {Mapping(seen)})
          /\ pc' = pc /\ ctrl' = ctrl /\ ttbr0' = ttbr0
          /\ PcOK /\ CtrlInv /\ FetchInv
        BY DEF Fetch, CInv, In, InC
    <2>2. Mapping(ctrl)' = Mapping(ctrl)
        BY <2>1 DEF Mapping
    <2>3. CASE In("boot") \/ In("mmu_init") \/ In("cp15_set_procid_ttbr0")
        <3>1. Mapping(seen) = "flat"
            BY <2>1, <2>3 DEF CtrlInv, Mapping
        <3> QED BY <2>1, <2>2, <2>3, <3>1 DEF FetchInv, In
    <2>4. CASE In("c") \/ In("mmu_all_cache_on")
        <3>1. Mapping(seen) = Mapping(ctrl)
            BY <2>1, <2>4 DEF CtrlInv, Mapping
        <3> QED BY <2>1, <2>2, <2>4, <3>1 DEF FetchInv, In
    <2>5. CASE In("mmu_enable")
        <3>1. /\ Mapping(seen) \in {"flat", ttbr0}
              /\ Before(2) => Mapping(seen) = "flat"
              /\ ~Before(5) => Mapping(seen) = ttbr0
            <4>1. ~Before(5) => ~Before(2)
                BY <2>1, <2>5, EnableCode DEF PcOK, Before, In, Routines
            <4> QED BY <2>1, <2>5, <4>1 DEF CtrlInv, Mapping
        <3> QED BY <2>1, <2>2, <2>5, <3>1 DEF FetchInv, In, Before
    <2>6. CASE In("mmu_disable")
        <3>1. /\ Mapping(seen) \in {"flat", ttbr0}
              /\ Before(8) => Mapping(seen) = ttbr0
              /\ ~Before(10) => Mapping(seen) = "flat"
            <4>1. ~Before(10) => ~Before(8)
                BY <2>1, <2>6, DisableCode DEF PcOK, Before, In, Routines
            <4> QED BY <2>1, <2>6, <4>1 DEF CtrlInv, Mapping
        <3> QED BY <2>1, <2>2, <2>6, <3>1 DEF FetchInv, In, Before
    <2> QED BY <2>1, <2>3, <2>4, <2>5, <2>6 DEF PcOK, Routines, In
<1>7. ASSUME NEW m \in Lines PROVE LineInv(m)'
    BY CachesAssumption
       DEF Fetch, data, Mapping, CInv, CtrlInv, LineInv, Fresh, Caching, Types, In,
           Before, InC
<1>8. ASSUME Walkable', NEW m \in Descriptors PROVE DescriptorInv(m)'
    BY <1>8, CachesAssumption
       DEF Fetch, data, Mapping, CInv, CtrlInv, LineInv, Fresh, Caching, Walkable,
           DescriptorInv, Types, In, Before, InC
<1> QED BY <1>3, <1>4, <1>5, <1>6, <1>7, <1>8 DEF CInv

LEMMA CInvStep == CInv /\ [Next]_vars => CInv'
<1> SUFFICES ASSUME CInv, [Next]_vars PROVE CInv'
    OBVIOUS
<1>1. CASE UNCHANGED vars
    BY <1>1 DEF vars, CInv, PcOK, Types, CtrlInv, FetchInv, LineInv, DescriptorInv,
        Walkable, Fresh, Caching, In, Before, Mapping
<1>2. CASE Routine
    BY <1>2, DSB_Keeps, PREFETCH_FLUSH_Keeps, FLUSH_BTB_Keeps, CLEAN_INV_DCACHE_Keeps,
       INV_DCACHE_Keeps, CONTROL_REG1_WR_Keeps, TTBR0_SET_Keeps, BX_Keeps DEF Routine
<1>3. CASE Hardware
    BY <1>3, Drain_Keeps, Evict_Keeps, Fetch_Keeps DEF Hardware
<1>4. CASE \E l \in Lines : Load(l) \/ \E v \in Values : Store(l, v)
    BY <1>4, Load_Keeps, Store_Keeps
<1>5. CASE mmu_init \/ mmu_all_cache_on \/ env_switch_to \/ mmu_enable \/ mmu_disable
    BY <1>5, mmu_init_Keeps, mmu_all_cache_on_Keeps, env_switch_to_Keeps,
       mmu_enable_Keeps, mmu_disable_Keeps
<1> QED BY <1>1, <1>2, <1>3, <1>4, <1>5 DEF Next

-----------------------------------------------------------------------------
LEMMA CInvAlways == Spec => []CInv
BY CInvInit, CInvStep, PTL DEF Spec

(* The state of the write buffer, the data cache and the control register
   keeps its types, and C code never runs with a control register that it
   has written and that is not yet in force (cp15_ctrl_reg1_wr and the
   flushes of mmu_enable_set_asm and mmu_disable_set_asm). *)
THEOREM CacheTypeOKAlways == Spec => []CacheTypeOK
<1>1. CInv => CacheTypeOK
    BY CInvImplies
<1> QED BY <1>1, CInvAlways, PTL

(* Whatever lines are cacheable, and however often the caches and the MMU go
   on and off, a load of C code returns the last store to its line:
   mmu_disable_set_asm cleans the cache before it turns it off, and nothing
   is stored in between. *)
THEOREM LoadsSeeStoresAlways == Spec => []LoadsSeeStores
<1>1. CInv => LoadsSeeStores
    BY CInvImplies
<1> QED BY <1>1, CInvAlways, PTL

(* While the MMU is on, every descriptor that was stored before is in memory,
   where the page walk reads it: mmu_enable_set_asm waits for the write
   buffer before it writes the control register. *)
THEOREM WalksSeeStoresAlways == Spec => []WalksSeeStores
<1>1. CInv => WalksSeeStores
    BY CInvImplies
<1> QED BY <1>1, CInvAlways, PTL

(* No instruction fetched, and no branch predicted, under another mapping is
   left when a routine of vm-asm.S returns. *)
THEOREM NoStaleFetchAlways == Spec => []NoStaleFetch
<1>1. CInv => NoStaleFetch
    BY CInvImplies
<1> QED BY <1>1, CInvAlways, PTL
=============================================================================
