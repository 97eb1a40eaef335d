-------------------------- MODULE PageTableProofs --------------------------
(***************************************************************************)
(* Proofs about PageTable, and about DataAbort, which composes it with the *)
(* abort path, in this order:                                              *)
(*                                                                         *)
(*   - types, and the ownership of coarse tables, for every set of         *)
(*     requests;                                                           *)
(*   - for every disciplined set of requests the page table of mmu.c       *)
(*     implements AddressSpace, and every large page is sixteen equal      *)
(*     entries.  The argument reads the two-level table through Sld(s, k), *)
(*     the second-level entry of slot k of section s, whatever table holds *)
(*     it;                                                                 *)
(*   - what a call leaves alone, for every set of requests, the misaligned *)
(*     and overlapping ones included: all other megabytes, and every page  *)
(*     that is mapped, unless a small page is put into a large one;        *)
(*   - for every script of map calls and every set of addresses that may   *)
(*     abort, what serving a miss can never do to the translations there   *)
(*     are.                                                                *)
(*                                                                         *)
(* Nothing before the last part uses a definition of DataAbort or          *)
(* TestsAssumption.                                                        *)
(***************************************************************************)
EXTENDS DataAbort, FiniteSetTheorems, TLAPS

(* Reading one bit of a number gives a bit. *)
LEMMA BitIsBit ==
    ASSUME NEW x \in Nat, NEW n \in 0 .. 8
    PROVE  Bit(x, n) \in 0 .. 1
<1>1. n = 0 \/ n = 1 \/ n = 2 \/ n = 3 \/ n = 4 \/ n = 5 \/ n = 6 \/ n = 7 \/ n = 8
    OBVIOUS
<1>2. Pow2[n] \in {1, 2, 4, 8, 16, 32, 64, 128, 256}
    BY <1>1, SMT DEF Pow2
<1>3. x \div Pow2[n] \in Nat
    BY <1>2, SMT
<1> QED BY <1>3, SMT DEF Bit

(* The decoded flags fit the descriptor fields. *)
LEMMA AttrType ==
    ASSUME NEW flags \in 0 .. 511
    PROVE  Attr(flags) \in AttrSet
<1>1. \A n \in 0 .. 8 : Bit(flags, n) \in 0 .. 1
    BY BitIsBit
<1>2. FGET_AP(flags) \in 0 .. 3
    BY DEF FGET_AP, AP_FULL_ACCESS
<1> QED BY <1>1, <1>2 DEF Attr, AttrSet, FGET_C, FGET_B, FGET_APX, FGET_NG,
                          FGET_S, FGET_XN

LEMMA ZeroAttrType == ZeroAttr \in AttrSet
BY DEF ZeroAttr, AttrSet

LEMMA SectionFldType ==
    ASSUME NEW pa \in Address, NEW domain \in 0 .. 15, NEW flags \in 0 .. 511
    PROVE  mk_section(pa, domain, flags) \in FldSet
BY AttrType, SMT DEF mk_section, FldSet, Address, SECTION_SIZE

LEMMA PageSldTypes ==
    ASSUME NEW pa \in Address, NEW flags \in 0 .. 511
    PROVE  mk_sm_page(pa, flags) \in SldSet /\ mk_lg_page(pa, flags) \in SldSet
BY AttrType, SMT DEF mk_sm_page, mk_lg_page, SldSet, Address, PAGE_SIZE,
                     LG_PAGE_SIZE

LEMMA EmptyTypes == FaultFld \in FldSet /\ ZeroTable \in [SlotIdx -> SldSet]
BY ZeroAttrType DEF FaultFld, FldSet, ZeroTable, FaultSld, SldSet

(* Arguments of a request index the tables the state has. *)
LEMMA RequestTypes ==
    ASSUME NEW r \in Requests
    PROVE  /\ r.va \in Address /\ r.pa \in Address
           /\ r.domain \in 0 .. 15 /\ r.flags \in 0 .. 511
           /\ get_first_level_table_idx(r.va) \in Secs
           /\ get_second_level_table_idx(r.va) \in SlotIdx
BY RequestsAssumption, SMT DEF RequestSet, Secs, get_second_level_table_idx,
     SlotIdx, SLDS_PER_TABLE, Address, PAGE_SIZE

-----------------------------------------------------------------------------
(* The invariant of the whole structure. *)
IInv == TypeOK /\ TablesOwned

(* The structure with first-level table f and coarse tables c, in which the
   section s has a coarse table. *)
Structured(f, c) ==
    /\ f \in [Secs -> FldSet]
    /\ c \in Seq([SlotIdx -> SldSet])
    /\ \A u \in Secs : f[u].tag = "coarse" => f[u].base \in 1 .. Len(c)
    /\ \A u, v \in Secs :
          /\ f[u].tag = "coarse" /\ f[v].tag = "coarse"
          /\ f[u].base = f[v].base
          => u = v
    /\ \A t \in 1 .. Len(c) : \E u \in Secs : f[u].tag = "coarse" /\ f[u].base = t

LEMMA StructuredIsIInv ==
    IInv <=> Structured(fld, cpts) /\ status \in {"up", "panic"}
BY DEF IInv, Structured, TypeOK, TablesOwned, CoarseSecs

(* The tables m are structured, section s has a coarse table in them, and the
   other sections are as they were. *)
CoarseReady(m, s) ==
    /\ Structured(m.fld, m.cpts)
    /\ m.fld[s].tag = "coarse" /\ m.fld[s].base \in 1 .. Len(m.cpts)
    /\ \A u \in Secs : u # s => m.fld[u] = fld[u]

(* Installing a coarse table keeps the structure. *)
LEMMA CoarseInstalledInv ==
    ASSUME IInv, NEW r \in Requests,
           fld[get_first_level_table_idx(r.va)].tag \in {"fault", "coarse"}
    PROVE  CoarseReady(CoarseInstalled(r.va, r.domain),
                       get_first_level_table_idx(r.va))
<1> DEFINE m == CoarseInstalled(r.va, r.domain)
           s == get_first_level_table_idx(r.va)
<1> SUFFICES CoarseReady(m, s) OBVIOUS
<1>1. s \in Secs /\ r.domain \in 0 .. 15
    BY RequestTypes
<1>2. CASE fld[s].tag = "fault"
    <2> DEFINE n == Len(cpts) + 1
               d == CoarseFld(n, r.domain)
    <2>1. m.fld = [fld EXCEPT ![s] = d] /\ m.cpts = Append(cpts, ZeroTable)
        BY <1>2 DEF CoarseInstalled
    <2>2. n \in Nat /\ Len(m.cpts) = n
        BY <2>1, EmptyTypes DEF IInv, TypeOK
    <2>3. d \in FldSet /\ d.tag = "coarse" /\ d.base = n
        BY <2>2, <1>1, ZeroAttrType DEF CoarseFld, FldSet
    <2> HIDE DEF n, d, m, s
    <2>4. m.fld \in [Secs -> FldSet] /\ m.fld[s] = d
          /\ \A u \in Secs : u # s => m.fld[u] = fld[u]
        BY <2>1, <2>3, <1>1 DEF IInv, TypeOK
    <2>5. m.cpts \in Seq([SlotIdx -> SldSet])
        BY <2>1, EmptyTypes DEF IInv, TypeOK
    <2>6. \A u \in Secs : u # s /\ m.fld[u].tag = "coarse" =>
              m.fld[u].base \in 1 .. Len(cpts)
        BY <2>4 DEF IInv, TablesOwned, CoarseSecs
    <2>7. \A t \in 1 .. Len(cpts) :
              \E u \in Secs : m.fld[u].tag = "coarse" /\ m.fld[u].base = t
        BY <2>4, <1>2 DEF IInv, TablesOwned, CoarseSecs
    <2>8. Len(cpts) \in Nat /\ n = Len(cpts) + 1
        BY DEF IInv, TypeOK, n
    <2>9. \A u, v \in Secs :
             /\ m.fld[u].tag = "coarse" /\ m.fld[v].tag = "coarse"
             /\ m.fld[u].base = m.fld[v].base
             => u = v
        <3> SUFFICES ASSUME NEW u \in Secs, NEW v \in Secs,
                            m.fld[u].tag = "coarse", m.fld[v].tag = "coarse",
                            m.fld[u].base = m.fld[v].base, u # v
                     PROVE  FALSE
            OBVIOUS
        <3>1. CASE u # s /\ v # s
            BY <3>1, <2>4 DEF IInv, TablesOwned, CoarseSecs
        <3>2. CASE u = s
            BY <3>2, <2>6, <2>8, <2>4, <2>3
        <3>3. CASE v = s
            BY <3>3, <2>6, <2>8, <2>4, <2>3
        <3> QED BY <3>1, <3>2, <3>3
    <2> QED BY <2>2, <2>3, <2>4, <2>5, <2>6, <2>7, <2>8, <2>9, <1>1 DEF Structured, CoarseReady
<1>3. CASE fld[s].tag = "coarse"
    <2>1. m.fld = fld /\ m.cpts = cpts
        BY <1>3 DEF CoarseInstalled
    <2> HIDE DEF m, s
    <2> QED BY <2>1, <1>3, <1>1 DEF IInv, TypeOK, TablesOwned, CoarseSecs, Structured,
                                     CoarseReady
<1> QED BY <1>2, <1>3

-----------------------------------------------------------------------------
(* One step of each kind keeps the structure. *)

LEMMA SectionStep ==
    ASSUME IInv, NEW r \in Requests,
           mmu_map_section(r.va, r.pa, r.domain, r.flags)
    PROVE  IInv'
<1> DEFINE s == get_first_level_table_idx(r.va)
           d == mk_section(r.pa, r.domain, r.flags)
<1>0. /\ s \in Secs /\ r.pa \in Address /\ r.flags \in 0 .. 511
      /\ r.domain \in 0 .. 15
    BY RequestTypes
<1>1. s \in Secs /\ d \in FldSet /\ d.tag = "section"
    <2>1. d.tag = "section"
        BY DEF mk_section
    <2> QED BY <1>0, <2>1, SectionFldType
<1> HIDE DEF d
<1>2. CASE /\ SectionFree(s) /\ fld' = [fld EXCEPT ![s] = d]
           /\ status' \in {"up", "panic"}
           /\ UNCHANGED cpts
    <2>1. /\ fld' \in [Secs -> FldSet] /\ fld'[s] = d
          /\ \A u \in Secs : u # s => fld'[u] = fld[u]
        BY <1>1, <1>2 DEF IInv, TypeOK
    <2>2. CoarseSecs' = CoarseSecs
        BY <1>1, <1>2, <2>1 DEF CoarseSecs, SectionFree
    <2>3. s \notin CoarseSecs
        BY <1>2 DEF CoarseSecs, SectionFree
    <2>4. \A u \in CoarseSecs : u \in Secs /\ fld'[u] = fld[u]
        BY <2>1, <2>3 DEF CoarseSecs
    <2>5. TablesOwned'
        BY <1>2, <2>2, <2>4 DEF IInv, TablesOwned
    <2> QED BY <2>1, <2>5, <1>2 DEF IInv, TypeOK
<1>3. CASE UNCHANGED <<fld, cpts>> /\ Stop
    BY <1>3 DEF IInv, TypeOK, TablesOwned, CoarseSecs, Stop
<1>4. /\ UNCHANGED cpts
      /\ \/ SectionFree(s) /\ fld' = [fld EXCEPT ![s] = d] /\ status' \in {"up", "panic"}
         \/ Stop /\ UNCHANGED fld
    BY DEF mmu_map_section, d
<1> QED BY <1>2, <1>3, <1>4

(* A call on a section with a coarse table leaves the tables of
   CoarseInstalled, with some entries replaced. *)
LEMMA TableStep ==
    ASSUME IInv, NEW r \in Requests,
           fld[get_first_level_table_idx(r.va)].tag \in {"fault", "coarse"},
           fld' = CoarseInstalled(r.va, r.domain).fld,
           cpts' \in Seq([SlotIdx -> SldSet]),
           Len(cpts') = Len(CoarseInstalled(r.va, r.domain).cpts),
           status' \in {"up", "panic"}
    PROVE  IInv'
<1>1. Structured(CoarseInstalled(r.va, r.domain).fld,
                 CoarseInstalled(r.va, r.domain).cpts)
    BY CoarseInstalledInv DEF CoarseReady
<1>2. Structured(fld', cpts')
    BY <1>1 DEF Structured
<1> QED BY <1>2 DEF Structured, IInv, TypeOK, TablesOwned, CoarseSecs

LEMMA SmStep ==
    ASSUME IInv, NEW r \in Requests,
           mmu_map_sm_page(r.va, r.pa, r.domain, r.flags)
    PROVE  IInv'
<1> DEFINE s == get_first_level_table_idx(r.va)
           i == get_second_level_table_idx(r.va)
           m == CoarseInstalled(r.va, r.domain)
           t == m.fld[s].base
           e == mk_sm_page(r.pa, r.flags)
<1>0. /\ r.pa \in Address /\ r.flags \in 0 .. 511 /\ r.domain \in 0 .. 15
      /\ i \in SlotIdx
    BY RequestTypes
<1>1. CASE UNCHANGED <<fld, cpts>> /\ Stop
    BY <1>1 DEF IInv, TypeOK, TablesOwned, CoarseSecs, Stop
<1>2. CASE /\ SmArgsOK(r.va, r.pa) /\ fld' = m.fld
           /\ \/ cpts' = [m.cpts EXCEPT ![t][i] = e] /\ UNCHANGED status
              \/ cpts' = m.cpts /\ Stop
    <2>1. /\ m.cpts \in Seq([SlotIdx -> SldSet]) /\ t \in 1 .. Len(m.cpts)
        <3>1. CoarseReady(m, s)
            BY <1>2, CoarseInstalledInv DEF SmArgsOK
        <3> HIDE DEF m, s
        <3> QED BY <3>1 DEF CoarseReady, Structured
    <2>2. e \in SldSet /\ i \in SlotIdx
        BY <1>0, PageSldTypes
    <2>3. status' \in {"up", "panic"}
        BY <1>2 DEF IInv, TypeOK, Stop
    <2>4. cpts' \in Seq([SlotIdx -> SldSet]) /\ Len(cpts') = Len(m.cpts)
        <3> HIDE DEF m, t, e, i
        <3>1. CASE cpts' = m.cpts
            BY <2>1, <3>1
        <3>2. CASE cpts' = [m.cpts EXCEPT ![t][i] = e]
            <4>1. PICK c \in Seq([SlotIdx -> SldSet]) : c = m.cpts
                BY <2>1
            <4>2. [c[t] EXCEPT ![i] = e] \in [SlotIdx -> SldSet]
                BY <2>1, <2>2, <4>1
            <4>3. PICK g \in [SlotIdx -> SldSet] : g = [c[t] EXCEPT ![i] = e]
                BY <4>2
            <4>4. cpts' = [c EXCEPT ![t] = g]
                BY <3>2, <4>1, <4>3
            <4> QED BY <2>1, <4>1, <4>4
        <3> QED BY <1>2, <3>1, <3>2
    <2>5. fld[s].tag \in {"fault", "coarse"} /\ fld' = m.fld
        BY <1>2 DEF SmArgsOK
    <2> QED BY <2>3, <2>4, <2>5, TableStep
<1> QED BY <1>1, <1>2 DEF mmu_map_sm_page

(* The tables after the sixteen entries of a large page were written. *)
Written(tables, slots, e) ==
    [u \in DOMAIN tables |-> [k \in SlotIdx |->
        IF <<u, k>> \in slots THEN e ELSE tables[u][k]]]

LEMMA WrittenType ==
    ASSUME NEW tables \in Seq([SlotIdx -> SldSet]), NEW slots,
           NEW e \in SldSet
    PROVE  /\ Written(tables, slots, e) \in Seq([SlotIdx -> SldSet])
           /\ Len(Written(tables, slots, e)) = Len(tables)
<1>1. DOMAIN tables = 1 .. Len(tables) /\ Len(tables) \in Nat
    OBVIOUS
<1>2. \A u \in 1 .. Len(tables) : tables[u] \in [SlotIdx -> SldSet]
    OBVIOUS
<1>3. \A u \in 1 .. Len(tables) :
         [k \in SlotIdx |-> IF <<u, k>> \in slots THEN e ELSE tables[u][k]]
            \in [SlotIdx -> SldSet]
    BY <1>2
<1>4. Written(tables, slots, e) \in [1 .. Len(tables) -> [SlotIdx -> SldSet]]
    BY <1>1, <1>3 DEF Written
<1> QED BY <1>1, <1>4

LEMMA LgStep ==
    ASSUME IInv, NEW r \in Requests,
           mmu_map_lg_page(r.va, r.pa, r.domain, r.flags)
    PROVE  IInv'
<1> DEFINE s == get_first_level_table_idx(r.va)
           i == get_second_level_table_idx(r.va)
           m == CoarseInstalled(r.va, r.domain)
           t == m.fld[s].base
           e == mk_lg_page(r.pa, r.flags)
<1>0. /\ r.pa \in Address /\ r.flags \in 0 .. 511 /\ r.domain \in 0 .. 15
      /\ i \in SlotIdx
    BY RequestTypes
<1>1. CASE UNCHANGED <<fld, cpts>> /\ Stop
    BY <1>1 DEF IInv, TypeOK, TablesOwned, CoarseSecs, Stop
<1>2. CASE /\ LgArgsOK(r.va, r.pa) /\ fld' = m.fld
           /\ \/ cpts' = Written(m.cpts, LgSlots(t, i), e) /\ UNCHANGED status
              \/ cpts' = m.cpts /\ Stop
    <2>1. m.cpts \in Seq([SlotIdx -> SldSet])
        <3>1. CoarseReady(m, s)
            BY <1>2, CoarseInstalledInv DEF LgArgsOK
        <3> HIDE DEF m, s
        <3> QED BY <3>1 DEF CoarseReady, Structured
    <2>2. e \in SldSet
        BY <1>0, PageSldTypes
    <2>3. status' \in {"up", "panic"}
        BY <1>2 DEF IInv, TypeOK, Stop
    <2>4. cpts' \in Seq([SlotIdx -> SldSet]) /\ Len(cpts') = Len(m.cpts)
        <3> HIDE DEF m, t, e, i
        <3> QED BY <1>2, <2>1, <2>2, WrittenType
    <2>5. fld[s].tag \in {"fault", "coarse"} /\ fld' = m.fld
        BY <1>2 DEF LgArgsOK
    <2> QED BY <2>3, <2>4, <2>5, TableStep
<1> QED BY <1>1, <1>2 DEF mmu_map_lg_page, Written

-----------------------------------------------------------------------------
LEMMA IInvInit == Init => IInv
BY EmptyTypes DEF Init, IInv, TypeOK, TablesOwned, CoarseSecs, FaultFld

LEMMA IInvCall ==
    ASSUME IInv, NEW r \in Requests, Call(r)
    PROVE  IInv'
BY SectionStep, SmStep, LgStep DEF Call

LEMMA IInvStep == IInv /\ [Next]_vars => IInv'
<1> SUFFICES ASSUME IInv, [Next]_vars PROVE IInv'
    OBVIOUS
<1>1. CASE UNCHANGED vars
    BY <1>1 DEF IInv, TypeOK, TablesOwned, CoarseSecs, vars
<1> QED BY <1>1, IInvCall DEF Next

(* Every reachable page table is well typed, and each of its coarse tables
   belongs to exactly one section: mk_coarse_page_table, called only when the
   first-level entry is a fault, neither shares nor leaks a table. *)
THEOREM TablesOwnedAlways == Spec => [](TypeOK /\ TablesOwned)
BY IInvInit, IInvStep, PTL DEF Spec, IInv

-----------------------------------------------------------------------------
SldIn(f, c, s, k) == IF f[s].tag = "coarse" THEN c[f[s].base][k] ELSE FaultSld
Sld(s, k) == SldIn(fld, cpts, s, k)

-----------------------------------------------------------------------------
(* Geometry: sections, slots and pages.                                    *)

LEMMA PageOfVa ==
    ASSUME NEW va \in Address
    PROVE  /\ get_first_level_table_idx(va) \in Nat
           /\ get_second_level_table_idx(va) \in SlotIdx
           /\ PageOf(va) = get_first_level_table_idx(va) * SLDS_PER_TABLE
                            + get_second_level_table_idx(va)
BY SMT DEF get_first_level_table_idx, get_second_level_table_idx, PageOf,
           SLDS_PER_TABLE, SECTION_SIZE, PAGE_SIZE, SlotIdx, Address

(* A page of Pages is a section of Secs and a slot. *)
LEMMA PageParts ==
    ASSUME NEW p \in Pages
    PROVE  /\ p \div SLDS_PER_TABLE \in Secs
           /\ p % SLDS_PER_TABLE \in SlotIdx
           /\ p = (p \div SLDS_PER_TABLE) * SLDS_PER_TABLE + (p % SLDS_PER_TABLE)
<1>1. PICK s \in Secs : p \in (s * SLDS_PER_TABLE) .. (s * SLDS_PER_TABLE + 255)
    BY DEF Pages
<1>2. s \in Nat
    BY <1>1, RequestTypes, PageOfVa DEF Secs
<1> QED BY <1>1, <1>2, SMT DEF SLDS_PER_TABLE, SlotIdx

LEMMA PartsPage ==
    ASSUME NEW s \in Secs, NEW k \in SlotIdx
    PROVE  /\ s \in Nat
           /\ s * SLDS_PER_TABLE + k \in Pages
           /\ (s * SLDS_PER_TABLE + k) \div SLDS_PER_TABLE = s
           /\ (s * SLDS_PER_TABLE + k) % SLDS_PER_TABLE = k
<1>1. s \in Nat
    BY RequestTypes, PageOfVa DEF Secs
<1> QED BY <1>1, SMT DEF Pages, SLDS_PER_TABLE, SlotIdx

(* The slots a request covers, in its own section. *)
SlotsOf(r) ==
    LET i == get_second_level_table_idx(r.va)
    IN  i .. i + AS!PagesOfOp[r.op] - 1

LEMMA CoverSlots ==
    ASSUME NEW r \in Requests, Disciplined
    PROVE  /\ SlotsOf(r) \subseteq SlotIdx
           /\ AS!Cover(r) \subseteq Pages
           /\ \A p \in Pages : p \in AS!Cover(r) <=>
                 /\ p \div SLDS_PER_TABLE = get_first_level_table_idx(r.va)
                 /\ p % SLDS_PER_TABLE \in SlotsOf(r)
           /\ r.op # "sm" => get_second_level_table_idx(r.va) % REPLICAS = 0
           /\ r.op = "section" => get_second_level_table_idx(r.va) = 0
           /\ r.op = "lg" => get_second_level_table_idx(r.va) <= MAX_LARGE_PAGE_IDX
<1> DEFINE s == get_first_level_table_idx(r.va)
           i == get_second_level_table_idx(r.va)
           n == AS!PagesOfOp[r.op]
<1>1. r.op \in {"section", "sm", "lg"} /\ r.va \in Address
    BY RequestsAssumption DEF RequestSet
<1>2. /\ s \in Nat /\ i \in 0 .. 255 /\ PageOf(r.va) = s * 256 + i /\ s \in Secs
    BY <1>1, PageOfVa, RequestTypes DEF SLDS_PER_TABLE, SlotIdx
<1>3. /\ r.op = "section" => n = 256
      /\ r.op = "lg" => n = 16
      /\ r.op = "sm" => n = 1
    BY DEF AS!PagesOfOp, AS!SLDS_PER_TABLE, AS!REPLICAS
<1>4. r.va % (n * PAGE_SIZE) = 0
    BY DEF Disciplined, TrulyAligned
<1>5. /\ r.op = "section" => r.va % 1048576 = 0
      /\ r.op = "lg" => r.va % 65536 = 0
    <2>1. n * PAGE_SIZE = n * 4096
        BY DEF PAGE_SIZE
    <2>2. 256 * 4096 = 1048576 /\ 16 * 4096 = 65536
        BY SMT
    <2> QED BY <1>3, <1>4, <2>1, <2>2
<1>6. /\ r.op = "section" => i = 0
      /\ r.op = "lg" => i % 16 = 0 /\ i <= 240
    BY <1>1, <1>5, SMT DEF get_second_level_table_idx, SLDS_PER_TABLE,
                           PAGE_SIZE, Address
<1> HIDE DEF s, i, n
<1>7. /\ i + n - 1 \in 0 .. 255 /\ n \in 1 .. 256
    BY <1>1, <1>2, <1>3, <1>6
<1>8. AS!Cover(r) = (s * 256 + i) .. (s * 256 + i + n - 1)
    BY <1>2, <1>7 DEF AS!Cover, AS!PageOf, PageOf, AS!PAGE_SIZE, PAGE_SIZE, n
<1>9. SlotsOf(r) = i .. i + n - 1
    BY DEF SlotsOf, i, n
<1>10. SlotsOf(r) \subseteq SlotIdx
    BY <1>2, <1>7, <1>9 DEF SlotIdx, SLDS_PER_TABLE
<1>11. AS!Cover(r) \subseteq Pages
    <2> SUFFICES ASSUME NEW p \in AS!Cover(r) PROVE p \in Pages
        OBVIOUS
    <2>1. p \in (s * 256) .. (s * 256 + 255)
        BY <1>2, <1>7, <1>8
    <2> QED BY <2>1, <1>2 DEF Pages, SLDS_PER_TABLE
<1>12. ASSUME NEW p \in Pages
       PROVE  p \in AS!Cover(r) <=>
                 /\ p \div SLDS_PER_TABLE = s
                 /\ p % SLDS_PER_TABLE \in SlotsOf(r)
    <2> DEFINE u == p \div 256
               k == p % 256
    <2>1. u \in Nat /\ k \in 0 .. 255 /\ p = u * 256 + k
        <3>1. u \in Secs /\ k \in SlotIdx /\ p = u * 256 + k
            BY PageParts DEF SLDS_PER_TABLE
        <3>2. u \in Nat
            <4> HIDE DEF u, k
            <4> QED BY <3>1, PartsPage
        <3> QED BY <3>1, <3>2 DEF SlotIdx, SLDS_PER_TABLE
    <2> HIDE DEF u, k
    <2>2. p \in AS!Cover(r) <=> u = s /\ k \in i .. i + n - 1
        BY <1>2, <1>7, <1>8, <2>1, SMT
    <2> QED BY <2>2, <1>9 DEF u, k, SLDS_PER_TABLE
<1> QED BY <1>3, <1>6, <1>10, <1>11, <1>12, <1>2, <1>1 DEF s, i, REPLICAS, MAX_LARGE_PAGE_IDX

-----------------------------------------------------------------------------
(* Second-level entries through a step.                                    *)

LEMMA SldType ==
    ASSUME NEW f, NEW c, Structured(f, c), NEW s \in Secs, NEW k \in SlotIdx
    PROVE  SldIn(f, c, s, k) \in SldSet
<1>1. FaultSld \in SldSet
    BY ZeroAttrType DEF FaultSld, SldSet
<1>2. ASSUME f[s].tag = "coarse" PROVE c[f[s].base][k] \in SldSet
    <2>1. f[s].base \in 1 .. Len(c) /\ c \in Seq([SlotIdx -> SldSet])
        BY <1>2 DEF Structured
    <2>2. c[f[s].base] \in [SlotIdx -> SldSet]
        BY <2>1
    <2> QED BY <2>2
<1> QED BY <1>1, <1>2 DEF SldIn

(* A new coarse table is all faults: no entry changes. *)
LEMMA CoarseInstalledSld ==
    ASSUME IInv, NEW r \in Requests,
           fld[get_first_level_table_idx(r.va)].tag \in {"fault", "coarse"},
           NEW u \in Secs, NEW k \in SlotIdx
    PROVE  SldIn(CoarseInstalled(r.va, r.domain).fld,
                 CoarseInstalled(r.va, r.domain).cpts, u, k) = Sld(u, k)
<1> DEFINE m == CoarseInstalled(r.va, r.domain)
           s == get_first_level_table_idx(r.va)
<1> SUFFICES SldIn(m.fld, m.cpts, u, k) = Sld(u, k) OBVIOUS
<1>1. s \in Secs
    BY RequestTypes
<1>2. CASE fld[s].tag = "fault"
    <2> DEFINE d == CoarseFld(Len(cpts) + 1, r.domain)
    <2>1. m.fld = [fld EXCEPT ![s] = d] /\ m.cpts = Append(cpts, ZeroTable)
        BY <1>2 DEF CoarseInstalled
    <2>2. d.tag = "coarse" /\ d.base = Len(cpts) + 1
        BY DEF CoarseFld
    <2> HIDE DEF m, s, d
    <2>3. m.fld[s] = d /\ (u # s => m.fld[u] = fld[u])
        BY <2>1, <1>1 DEF IInv, TypeOK
    <2>4. m.cpts[Len(cpts) + 1] = ZeroTable
          /\ \A t \in 1 .. Len(cpts) : m.cpts[t] = cpts[t]
        BY <2>1, EmptyTypes DEF IInv, TypeOK
    <2>5. CASE u = s
        BY <2>5, <2>2, <2>3, <2>4, <1>2 DEF SldIn, Sld, ZeroTable
    <2>6. CASE u # s
        <3>1. m.fld[u] = fld[u]
              /\ (fld[u].tag = "coarse" => fld[u].base \in 1 .. Len(cpts))
            BY <2>6, <2>3 DEF IInv, TablesOwned, CoarseSecs
        <3> QED BY <3>1, <2>4 DEF SldIn, Sld
    <2> QED BY <2>5, <2>6
<1>3. CASE fld[s].tag = "coarse"
    BY <1>3 DEF CoarseInstalled, Sld
<1> QED BY <1>2, <1>3

(* Below the guard, the entries of a large page lie in its own table. *)
LEMMA LgSlotsInTable ==
    ASSUME NEW t \in Nat, NEW i \in SlotIdx, i <= MAX_LARGE_PAGE_IDX,
           NEW u \in Nat, NEW k \in SlotIdx
    PROVE  <<u, k>> \in LgSlots(t, i) <=> u = t /\ k \in i .. i + 15
<1>1. i \in 0 .. 240 /\ k \in 0 .. 255
    BY DEF SlotIdx, SLDS_PER_TABLE, MAX_LARGE_PAGE_IDX
<1>2. \A j \in 0 .. 15 : SlotAt(t, i + j) = <<t, i + j>>
    <2> SUFFICES ASSUME NEW j \in 0 .. 15 PROVE SlotAt(t, i + j) = <<t, i + j>>
        OBVIOUS
    <2>1. (i + j) \div 256 = 0 /\ (i + j) % 256 = i + j
        BY <1>1, SMT
    <2> QED BY <2>1, <1>1 DEF SlotAt, SLDS_PER_TABLE
<1>3. LgSlots(t, i) = {<<t, i + j>> : j \in 0 .. 15}
    BY <1>2 DEF LgSlots, REPLICAS
<1>4. k \in i .. i + 15 <=> \E j \in 0 .. 15 : k = i + j
    <2>1. ASSUME k \in i .. i + 15 PROVE k - i \in 0 .. 15 /\ k = i + (k - i)
        BY <1>1, <2>1
    <2>2. ASSUME NEW j \in 0 .. 15, k = i + j PROVE k \in i .. i + 15
        BY <1>1, <2>2
    <2> QED BY <2>1, <2>2
<1> QED BY <1>3, <1>4

-----------------------------------------------------------------------------
(* Alignment: what the discipline says of an address passes the assertion.  *)
LEMMA AlignedArgs ==
    ASSUME NEW x \in Address
    PROVE  /\ x % 1048576 = 0 => is_aligned(x, 20)
           /\ x % 4096 = 0 => is_aligned(x, 12)
           /\ x % 65536 = 0 => is_aligned(x, 16)
<1>1. x \in Nat
    BY DEF Address
<1>2. (x % 1048576 = 0 => x % 32 = 0) /\ (x % 4096 = 0 => x % 32 = 0)
      /\ (x % 65536 = 0 => x % 32 = 0)
    BY <1>1, SMT
<1>3. ASSUME x % 32 = 0, NEW n \in 0 .. 4 PROVE Bit(x, n) = 0
    <2>1. /\ (x \div 1) % 2 = 0 /\ (x \div 2) % 2 = 0 /\ (x \div 4) % 2 = 0
          /\ (x \div 8) % 2 = 0 /\ (x \div 16) % 2 = 0
        BY <1>1, <1>3, SMT
    <2>2. n = 0 \/ n = 1 \/ n = 2 \/ n = 3 \/ n = 4
        OBVIOUS
    <2>3. /\ Pow2[0] = 1 /\ Pow2[1] = 2 /\ Pow2[2] = 4 /\ Pow2[3] = 8
          /\ Pow2[4] = 16
        BY SMT DEF Pow2
    <2> QED BY <2>1, <2>2, <2>3 DEF Bit
<1> QED BY <1>2, <1>3 DEF is_aligned

-----------------------------------------------------------------------------
(* What a disciplined call does, read through Sld.                         *)

Entry(r) == IF r.op = "sm" THEN mk_sm_page(r.pa, r.flags)
                           ELSE mk_lg_page(r.pa, r.flags)

SectionMapped(r) ==
    LET s == get_first_level_table_idx(r.va)
    IN  /\ r.op = "section"
        /\ fld[s].tag = "fault"
        /\ fld'[s] = mk_section(r.pa, r.domain, r.flags)
        /\ \A u \in Secs : \A k \in SlotIdx : Sld(u, k)' = Sld(u, k)

PagesMapped(r) ==
    LET s == get_first_level_table_idx(r.va)
    IN  /\ r.op \in {"sm", "lg"}
        /\ fld[s].tag \in {"fault", "coarse"}
        /\ fld'[s].tag = "coarse"
        /\ fld'[s].domain =
              IF fld[s].tag = "fault" THEN r.domain ELSE fld[s].domain
        /\ \A k \in SlotsOf(r) :
              \/ Sld(s, k).tag = "fault"
              \/ r.op = "sm" /\ Sld(s, k).tag = "large"
        /\ \A u \in Secs : \A k \in SlotIdx :
              Sld(u, k)' = IF u = s /\ k \in SlotsOf(r) THEN Entry(r)
                                                       ELSE Sld(u, k)

Mapped(r) ==
    /\ status = "up" /\ status' = "up"
    /\ \A u \in Secs : u # get_first_level_table_idx(r.va) => fld'[u] = fld[u]
    /\ SectionMapped(r) \/ PagesMapped(r)

(* A refused call leaves the tables alone, and collides with something. *)
Refused(r) ==
    LET s == get_first_level_table_idx(r.va)
    IN  /\ status = "up" /\ status' = "panic"
        /\ UNCHANGED <<fld, cpts>>
        /\ \/ fld[s].tag = "section"
           \/ fld[s].tag = "coarse" /\ r.op = "section"
           \/ \E k \in SlotsOf(r) : Sld(s, k).tag # "fault"

LEMMA DisciplinedArgs ==
    ASSUME NEW r \in Requests, Disciplined
    PROVE  /\ r.op = "section" => r.va % 1048576 = 0 /\ r.pa % 1048576 = 0
           /\ r.op = "lg" => r.va % 65536 = 0 /\ r.pa % 65536 = 0
           /\ r.op = "sm" => r.va % 4096 = 0 /\ r.pa % 4096 = 0
<1> DEFINE n == AS!PagesOfOp[r.op]
<1>1. r.va % (n * PAGE_SIZE) = 0 /\ r.pa % (n * PAGE_SIZE) = 0
    BY DEF Disciplined, TrulyAligned
<1>2. /\ r.op = "section" => n = 256
      /\ r.op = "lg" => n = 16
      /\ r.op = "sm" => n = 1
    BY DEF AS!PagesOfOp, AS!SLDS_PER_TABLE, AS!REPLICAS
<1>3. n * PAGE_SIZE = n * 4096
    BY SMT DEF PAGE_SIZE
<1> HIDE DEF n
<1>4. 256 * 4096 = 1048576 /\ 16 * 4096 = 65536 /\ 1 * 4096 = 4096
    BY SMT
<1> QED BY <1>1, <1>2, <1>3, <1>4, SMT

(* A disciplined call passes the assertions on its arguments. *)
LEMMA ArgsPass ==
    ASSUME NEW r \in Requests, Disciplined
    PROVE  /\ r.op = "section" =>
                 /\ SectionArgsOK(r.va, r.pa)
                 /\ section_check_valid(mk_section(r.pa, r.domain, r.flags))
           /\ r.op = "lg" => is_aligned(r.va, 16) /\ is_aligned(r.pa, 16)
           /\ r.op = "sm" => is_aligned(r.va, 12) /\ is_aligned(r.pa, 12)
<1>1. r.va \in Address /\ r.pa \in Address
    BY RequestTypes
<1>2. r.op = "section" =>
          section_check_valid(mk_section(r.pa, r.domain, r.flags))
    BY DEF Disciplined
<1>3. /\ r.op = "section" => is_aligned(r.va, 20) /\ is_aligned(r.pa, 20)
      /\ r.op = "lg" => is_aligned(r.va, 16) /\ is_aligned(r.pa, 16)
      /\ r.op = "sm" => is_aligned(r.va, 12) /\ is_aligned(r.pa, 12)
    BY <1>1, DisciplinedArgs, AlignedArgs, SMT
<1> QED BY <1>2, <1>3 DEF SectionArgsOK

LEMMA SectionOutcome ==
    ASSUME IInv, Disciplined, NEW r \in Requests, r.op = "section",
           mmu_map_section(r.va, r.pa, r.domain, r.flags)
    PROVE  Mapped(r) \/ Refused(r)
<1> DEFINE s == get_first_level_table_idx(r.va)
           d == mk_section(r.pa, r.domain, r.flags)
<1>1. /\ s \in Secs /\ d.tag = "section" /\ status = "up"
      /\ SectionArgsOK(r.va, r.pa) /\ section_check_valid(d)
      /\ fld \in [Secs -> FldSet]
    BY RequestTypes, ArgsPass DEF mk_section, mmu_map_section, IInv, TypeOK
<1>2. CASE SectionFree(s)
    <2>1. fld' = [fld EXCEPT ![s] = d] /\ cpts' = cpts /\ status' = "up"
        BY <1>1, <1>2 DEF mmu_map_section
    <2> HIDE DEF s, d
    <2>2. fld'[s] = d /\ \A u \in Secs : u # s => fld'[u] = fld[u]
        BY <1>1, <2>1
    <2>3. \A u \in Secs : \A k \in SlotIdx : Sld(u, k)' = Sld(u, k)
        BY <1>1, <1>2, <2>1, <2>2 DEF Sld, SldIn, SectionFree
    <2> QED BY <1>1, <1>2, <2>1, <2>2, <2>3
            DEF Mapped, SectionMapped, SectionFree, s, d
<1>3. CASE ~SectionFree(s)
    <2>1. fld[s].tag \in {"section", "coarse"}
        BY <1>1, <1>3 DEF SectionFree, FldSet
    <2> QED BY <1>1, <1>3, <2>1 DEF mmu_map_section, Refused, Stop
<1> QED BY <1>2, <1>3

(* The tables before and after the entries of a page call were written.  No
   table is shared (Structured), so no other section sees the new entries. *)
LEMMA PagesOutcome ==
    ASSUME IInv, NEW r \in Requests, r.op \in {"sm", "lg"},
           status = "up", status' = "up",
           fld[get_first_level_table_idx(r.va)].tag \in {"fault", "coarse"},
           fld' = CoarseInstalled(r.va, r.domain).fld,
           \A t \in 1 .. Len(CoarseInstalled(r.va, r.domain).cpts) :
             \A k \in SlotIdx :
               cpts'[t][k] =
                 IF /\ t = fld'[get_first_level_table_idx(r.va)].base
                    /\ k \in SlotsOf(r)
                 THEN Entry(r)
                 ELSE CoarseInstalled(r.va, r.domain).cpts[t][k],
           \A k \in SlotsOf(r) :
               \/ Sld(get_first_level_table_idx(r.va), k).tag = "fault"
               \/ /\ r.op = "sm"
                  /\ Sld(get_first_level_table_idx(r.va), k).tag = "large"
    PROVE  Mapped(r)
<1> DEFINE s == get_first_level_table_idx(r.va)
           m == CoarseInstalled(r.va, r.domain)
<1>1. CoarseReady(m, s) /\ s \in Secs
    BY CoarseInstalledInv, RequestTypes
<1>2. \A u \in Secs : \A k \in SlotIdx : SldIn(m.fld, m.cpts, u, k) = Sld(u, k)
    BY CoarseInstalledSld
<1>4. m.fld[s].domain = IF fld[s].tag = "fault" THEN r.domain ELSE fld[s].domain
    BY <1>1 DEF CoarseInstalled, CoarseFld, IInv, TypeOK
<1>5. \A u \in Secs : \A k \in SlotIdx :
          SldIn(m.fld, cpts', u, k) =
              IF u = s /\ k \in SlotsOf(r) THEN Entry(r)
                                          ELSE SldIn(m.fld, m.cpts, u, k)
    <2> HIDE DEF m, s
    <2> SUFFICES ASSUME NEW u \in Secs, NEW k \in SlotIdx
                 PROVE  SldIn(m.fld, cpts', u, k) =
                          IF u = s /\ k \in SlotsOf(r) THEN Entry(r)
                                          ELSE SldIn(m.fld, m.cpts, u, k)
        OBVIOUS
    <2>1. Structured(m.fld, m.cpts) /\ m.fld[s].tag = "coarse"
        BY <1>1 DEF CoarseReady
    <2>2. \A t \in 1 .. Len(m.cpts) : \A j \in SlotIdx :
              cpts'[t][j] = IF t = m.fld[s].base /\ j \in SlotsOf(r)
                            THEN Entry(r) ELSE m.cpts[t][j]
        BY DEF m, s
    <2>3. /\ m.fld[u].tag = "coarse" => m.fld[u].base \in 1 .. Len(m.cpts)
          /\ m.fld[u].tag = "coarse" /\ m.fld[u].base = m.fld[s].base => u = s
        BY <2>1, <1>1 DEF Structured
    <2> QED BY <2>1, <2>2, <2>3 DEF SldIn
<1>6. \A u \in Secs : \A k \in SlotIdx :
          Sld(u, k)' = IF u = s /\ k \in SlotsOf(r) THEN Entry(r)
                                                   ELSE Sld(u, k)
    BY <1>2, <1>5 DEF Sld
<1>7. /\ \A u \in Secs : u # s => fld'[u] = fld[u]
      /\ fld'[s].tag = "coarse"
      /\ fld'[s].domain = IF fld[s].tag = "fault" THEN r.domain ELSE fld[s].domain
    BY <1>1, <1>4 DEF CoarseReady
<1> HIDE DEF m
<1> QED BY <1>6, <1>7 DEF Mapped, PagesMapped

(* A small-page call that passes the assertions on its arguments. *)
LEMMA SmAccepted ==
    ASSUME IInv, NEW r \in Requests, r.op = "sm",
           mmu_map_sm_page(r.va, r.pa, r.domain, r.flags), SmArgsOK(r.va, r.pa)
    PROVE  Mapped(r) \/ Refused(r)
<1> DEFINE s == get_first_level_table_idx(r.va)
           i == get_second_level_table_idx(r.va)
           m == CoarseInstalled(r.va, r.domain)
           t == m.fld[s].base
           e == mk_sm_page(r.pa, r.flags)
<1>1. s \in Secs /\ i \in SlotIdx /\ status = "up"
    BY RequestTypes DEF mmu_map_sm_page
<1>2. SlotsOf(r) = {i} /\ Entry(r) = e
    <2>1. AS!PagesOfOp[r.op] = 1
        BY DEF AS!PagesOfOp
    <2>2. i \in 0 .. 255
        BY <1>1 DEF SlotIdx, SLDS_PER_TABLE
    <2> QED BY <2>1, <2>2 DEF SlotsOf, Entry
<1>3. fld[s].tag \in {"fault", "coarse"}
    BY DEF SmArgsOK
<1>4. CoarseReady(m, s)
    BY <1>3, CoarseInstalledInv
<1>5. m.cpts[t][i] = Sld(s, i)
    <2>1. SldIn(m.fld, m.cpts, s, i) = Sld(s, i)
        BY <1>1, <1>3, CoarseInstalledSld
    <2> QED BY <1>4, <2>1 DEF SldIn, CoarseReady
<1>6. Sld(s, i).tag \in {"fault", "large", "small"}
    BY <1>1, SldType, StructuredIsIInv DEF Sld, SldSet
<1>7. CASE Sld(s, i).tag # "small"
    <2>1. SmSlotFree(m.cpts[t][i])
        BY <1>5, <1>7 DEF SmSlotFree, SmTag
    <2>2. fld' = m.fld /\ cpts' = [m.cpts EXCEPT ![t][i] = e] /\ status' = status
        BY <2>1 DEF mmu_map_sm_page
    <2>3. m.cpts \in Seq([SlotIdx -> SldSet]) /\ t \in 1 .. Len(m.cpts)
        BY <1>4 DEF CoarseReady, Structured
    <2>4. \A u \in 1 .. Len(m.cpts) : \A k \in SlotIdx :
              cpts'[u][k] = IF u = t /\ k \in SlotsOf(r) THEN Entry(r)
                                                        ELSE m.cpts[u][k]
        <3> HIDE DEF m, t, e, i, s
        <3>1. \A u \in 1 .. Len(m.cpts) : m.cpts[u] \in [SlotIdx -> SldSet]
            BY <2>3
        <3> QED BY <2>2, <2>3, <3>1, <1>1, <1>2
    <2>5. \A k \in SlotsOf(r) :
             Sld(s, k).tag = "fault" \/ (r.op = "sm" /\ Sld(s, k).tag = "large")
        BY <1>2, <1>6, <1>7
    <2>6. t = fld'[s].base
        BY <2>2
    <2> QED BY <1>1, <1>3, <2>2, <2>4, <2>5, <2>6, PagesOutcome, ZenonT(60)
<1>8. CASE Sld(s, i).tag = "small"
    <2>1. fld[s].tag = "coarse"
        BY <1>8, <1>3 DEF Sld, SldIn, FaultSld
    <2>2. m.fld = fld /\ m.cpts = cpts
        BY <2>1 DEF CoarseInstalled
    <2>3. ~SmSlotFree(m.cpts[t][i])
        BY <1>5, <1>8 DEF SmSlotFree, SmTag
    <2>4. fld' = fld /\ cpts' = cpts /\ status' = "panic"
        BY <2>2, <2>3 DEF mmu_map_sm_page, Stop
    <2> QED BY <2>4, <1>1, <1>2, <1>8 DEF Refused
<1> QED BY <1>6, <1>7, <1>8

LEMMA SmOutcome ==
    ASSUME IInv, Disciplined, NEW r \in Requests, r.op = "sm",
           mmu_map_sm_page(r.va, r.pa, r.domain, r.flags)
    PROVE  Mapped(r) \/ Refused(r)
<1> DEFINE s == get_first_level_table_idx(r.va)
<1>1. /\ s \in Secs /\ status = "up"
      /\ is_aligned(r.va, 12) /\ is_aligned(r.pa, 12)
      /\ fld[s].tag \in {"fault", "coarse", "section"}
    <2>1. s \in Secs
        BY RequestTypes
    <2>2. is_aligned(r.va, 12) /\ is_aligned(r.pa, 12)
        BY ArgsPass
    <2>3. status = "up"
        BY DEF mmu_map_sm_page
    <2>4. fld[s].tag \in {"fault", "coarse", "section"}
        BY <2>1 DEF IInv, TypeOK, FldSet
    <2> QED BY <2>1, <2>2, <2>3, <2>4
<1>2. CASE fld[s].tag = "section"
    <2>1. ~SmArgsOK(r.va, r.pa)
        BY <1>2 DEF SmArgsOK
    <2> QED BY <2>1, <1>1, <1>2 DEF mmu_map_sm_page, Refused, Stop
<1>3. CASE fld[s].tag \in {"fault", "coarse"}
    <2>1. SmArgsOK(r.va, r.pa)
        BY <1>1, <1>3 DEF SmArgsOK
    <2> QED BY <2>1, SmAccepted
<1> QED BY <1>1, <1>2, <1>3

(* A large-page call that passes the assertions on its arguments: the last
   of its entries is still in its table. *)
LEMMA LgAccepted ==
    ASSUME IInv, NEW r \in Requests, r.op = "lg",
           mmu_map_lg_page(r.va, r.pa, r.domain, r.flags), LgArgsOK(r.va, r.pa)
    PROVE  Mapped(r) \/ Refused(r)
<1> DEFINE s == get_first_level_table_idx(r.va)
           i == get_second_level_table_idx(r.va)
           m == CoarseInstalled(r.va, r.domain)
           t == m.fld[s].base
           e == mk_lg_page(r.pa, r.flags)
<1>1. /\ s \in Secs /\ i \in SlotIdx /\ status = "up"
      /\ i <= MAX_LARGE_PAGE_IDX
    BY RequestTypes DEF mmu_map_lg_page, LgArgsOK
<1>2. /\ SlotsOf(r) = i .. i + 15 /\ Entry(r) = e
      /\ SlotsOf(r) \subseteq SlotIdx
    <2>1. AS!PagesOfOp[r.op] = 16
        BY DEF AS!PagesOfOp, AS!REPLICAS
    <2>2. i \in 0 .. 240
        BY <1>1 DEF SlotIdx, SLDS_PER_TABLE, MAX_LARGE_PAGE_IDX
    <2>3. i + 16 - 1 = i + 15 /\ i .. i + 15 \subseteq 0 .. 255
        BY <2>2
    <2> QED BY <2>1, <2>3 DEF SlotsOf, Entry, SlotIdx, SLDS_PER_TABLE
<1>3. fld[s].tag \in {"fault", "coarse"}
    BY DEF LgArgsOK
<1>4. CoarseReady(m, s)
    BY <1>3, CoarseInstalledInv
<1>5. m.cpts \in Seq([SlotIdx -> SldSet]) /\ t \in 1 .. Len(m.cpts)
    BY <1>4 DEF CoarseReady, Structured
<1>6. \A k \in SlotIdx :
         m.cpts[t][k] = Sld(s, k) /\ Sld(s, k) \in SldSet
    <2>1. \A k \in SlotIdx : SldIn(m.fld, m.cpts, s, k) = Sld(s, k)
        BY <1>1, <1>3, CoarseInstalledSld
    <2>2. \A k \in SlotIdx : Sld(s, k) \in SldSet
        BY <1>1, SldType, StructuredIsIInv DEF Sld
    <2> QED BY <1>4, <2>1, <2>2 DEF SldIn, CoarseReady
<1>7. \A u \in 1 .. Len(m.cpts) : \A k \in SlotIdx :
          <<u, k>> \in LgSlots(t, i) <=> u = t /\ k \in SlotsOf(r)
    <2>1. t \in Nat /\ \A u \in 1 .. Len(m.cpts) : u \in Nat
        BY <1>5
    <2> HIDE DEF m, t, i, s
    <2> QED BY <1>1, <1>2, <2>1, LgSlotsInTable
<1>8. LgSlotsFree(m.cpts, t, i) <=>
          \A k \in SlotsOf(r) : Sld(s, k).tag = "fault"
    <2>1. \A k \in SlotIdx : LgTag(m.cpts[t][k]) = 0 <=> Sld(s, k).tag = "fault"
        <3> SUFFICES ASSUME NEW k \in SlotIdx
                     PROVE  LgTag(Sld(s, k)) = 0 <=> Sld(s, k).tag = "fault"
            BY <1>6
        <3> HIDE DEF s
        <3>1. Sld(s, k) \in SldSet
            BY <1>6
        <3> QED BY <3>1 DEF LgTag, SldSet, AttrSet
    <2>2. \A slot \in LgSlots(t, i) :
             slot[1] = t /\ slot[2] \in SlotsOf(r)
        <3> SUFFICES ASSUME NEW j \in 0 .. REPLICAS - 1
                     PROVE  /\ SlotAt(t, i + j)[1] = t
                            /\ SlotAt(t, i + j)[2] \in SlotsOf(r)
            BY DEF LgSlots
        <3>1. i \in 0 .. 240 /\ j \in 0 .. 15
            BY <1>1 DEF SlotIdx, SLDS_PER_TABLE, MAX_LARGE_PAGE_IDX, REPLICAS
        <3> HIDE DEF i, t, s, m
        <3>2. (i + j) \div 256 = 0 /\ (i + j) % 256 = i + j
            BY <3>1, SMT
        <3> QED BY <3>1, <3>2, <1>2, <1>5 DEF SlotAt, SLDS_PER_TABLE
    <2>3. \A k \in SlotsOf(r) : <<t, k>> \in LgSlots(t, i)
        BY <1>2, <1>5, <1>7
    <2> HIDE DEF t, i, m, s
    <2>4. ASSUME LgSlotsFree(m.cpts, t, i), NEW k \in SlotsOf(r)
          PROVE  Sld(s, k).tag = "fault"
        <3>1. <<t, k>>[1] = t /\ <<t, k>>[2] = k /\ t <= Len(m.cpts)
            BY <1>5
        <3>2. LgTag(m.cpts[t][k]) = 0
            BY <3>1, <2>3, <2>4 DEF LgSlotsFree
        <3> QED BY <3>2, <2>1, <1>2
    <2>5. ASSUME \A k \in SlotsOf(r) : Sld(s, k).tag = "fault"
          PROVE  LgSlotsFree(m.cpts, t, i)
        BY <2>5, <2>1, <2>2, <1>2 DEF LgSlotsFree
    <2> QED BY <2>4, <2>5
<1>9. CASE LgSlotsFree(m.cpts, t, i)
    <2>1. /\ fld' = m.fld /\ status' = status
          /\ cpts' = Written(m.cpts, LgSlots(t, i), e)
        BY <1>9 DEF mmu_map_lg_page, Written
    <2>2. \A u \in 1 .. Len(m.cpts) : \A k \in SlotIdx :
              cpts'[u][k] = IF u = t /\ k \in SlotsOf(r) THEN Entry(r)
                                                        ELSE m.cpts[u][k]
        <3>1. DOMAIN m.cpts = 1 .. Len(m.cpts)
            BY <1>5
        <3> HIDE DEF m, t, e, i, s
        <3> QED BY <2>1, <3>1, <1>7, <1>2 DEF Written
    <2>3. \A k \in SlotsOf(r) :
             Sld(s, k).tag = "fault" \/ (r.op = "sm" /\ Sld(s, k).tag = "large")
        BY <1>8, <1>9
    <2>4. t = fld'[s].base
        BY <2>1
    <2> QED BY <1>1, <1>3, <2>1, <2>2, <2>3, <2>4, PagesOutcome
<1>10. CASE ~LgSlotsFree(m.cpts, t, i)
    <2>1. PICK k \in SlotsOf(r) : Sld(s, k).tag # "fault"
        BY <1>8, <1>10
    <2>2. fld[s].tag = "coarse"
        BY <2>1, <1>3 DEF Sld, SldIn, FaultSld
    <2>3. m.fld = fld /\ m.cpts = cpts
        BY <2>2 DEF CoarseInstalled
    <2>4. fld' = fld /\ cpts' = cpts /\ status' = "panic"
        BY <1>10, <2>3 DEF mmu_map_lg_page, Stop
    <2> QED BY <2>1, <2>4, <1>1 DEF Refused
<1> QED BY <1>9, <1>10

LEMMA LgOutcome ==
    ASSUME IInv, Disciplined, NEW r \in Requests, r.op = "lg",
           mmu_map_lg_page(r.va, r.pa, r.domain, r.flags)
    PROVE  Mapped(r) \/ Refused(r)
<1> DEFINE s == get_first_level_table_idx(r.va)
<1>1. /\ s \in Secs /\ status = "up"
      /\ is_aligned(r.va, 16) /\ is_aligned(r.pa, 16)
      /\ get_second_level_table_idx(r.va) <= MAX_LARGE_PAGE_IDX
      /\ fld[s].tag \in {"fault", "coarse", "section"}
    <2>1. s \in Secs /\ get_second_level_table_idx(r.va) <= MAX_LARGE_PAGE_IDX
        BY RequestTypes, CoverSlots
    <2>2. is_aligned(r.va, 16) /\ is_aligned(r.pa, 16)
        BY ArgsPass
    <2>3. status = "up"
        BY DEF mmu_map_lg_page
    <2>4. fld[s].tag \in {"fault", "coarse", "section"}
        BY <2>1 DEF IInv, TypeOK, FldSet
    <2> QED BY <2>1, <2>2, <2>3, <2>4
<1>2. CASE fld[s].tag = "section"
    <2>1. ~LgArgsOK(r.va, r.pa)
        BY <1>2 DEF LgArgsOK
    <2> QED BY <2>1, <1>1, <1>2 DEF mmu_map_lg_page, Refused, Stop
<1>3. CASE fld[s].tag \in {"fault", "coarse"}
    <2>1. LgArgsOK(r.va, r.pa)
        BY <1>1, <1>3 DEF LgArgsOK
    <2> QED BY <2>1, LgAccepted
<1> QED BY <1>1, <1>2, <1>3

LEMMA Outcome ==
    ASSUME IInv, Disciplined, NEW r \in Requests, Call(r)
    PROVE  Mapped(r) \/ Refused(r)
BY SectionOutcome, SmOutcome, LgOutcome DEF Call

-----------------------------------------------------------------------------
(* The inductive invariant.  ReplicasAgree alone is not inductive: a small *)
(* page may be written over a large entry (SmSlotFree reads one bit), and  *)
(* only the discipline, through LargeInside, says that it never is.  The   *)
(* other two parts are what the refinement needs: a section with a coarse  *)
(* table has a page mapped, and its domain is the one the callers name.    *)

SldReplicas ==
    \A s \in Secs : \A i, k \in SlotIdx :
        Sld(s, i).tag = "large" /\ i \div REPLICAS = k \div REPLICAS
            => Sld(s, k) = Sld(s, i)

LargeInside ==
    \A s \in Secs : \A k \in SlotIdx : Sld(s, k).tag = "large" =>
        \E lg \in Requests : /\ lg.op = "lg"
                             /\ s = get_first_level_table_idx(lg.va)
                             /\ k \in SlotsOf(lg)

NoEmptyTable ==
    \A s \in Secs : fld[s].tag = "coarse" =>
        \E k \in SlotIdx : Sld(s, k).tag # "fault"

DomainKept ==
    \A s \in Secs : fld[s].tag = "coarse" =>
        \A r \in Requests :
            s = get_first_level_table_idx(r.va) => fld[s].domain = r.domain

DInv == IInv /\ SldReplicas /\ LargeInside /\ NoEmptyTable /\ DomainKept

(* A slot a request covers is a page of its Cover. *)
LEMMA SlotInCover ==
    ASSUME Disciplined, NEW r \in Requests, NEW k \in SlotsOf(r)
    PROVE  /\ k \in SlotIdx
           /\ get_first_level_table_idx(r.va) * SLDS_PER_TABLE + k \in AS!Cover(r)
<1>1. k \in SlotIdx /\ get_first_level_table_idx(r.va) \in Secs
    BY CoverSlots, RequestTypes
<1> DEFINE s == get_first_level_table_idx(r.va)
           p == s * SLDS_PER_TABLE + k
<1>2. p \in Pages /\ p \div SLDS_PER_TABLE = s /\ p % SLDS_PER_TABLE = k
    BY <1>1, PartsPage
<1> HIDE DEF p
<1> QED BY <1>1, <1>2, CoverSlots DEF p

(* The entry a small-page call would write is never part of a large page. *)
LEMMA SmNotInLarge ==
    ASSUME Disciplined, LargeInside, NEW r \in Requests, r.op = "sm",
           NEW k \in SlotsOf(r)
    PROVE  Sld(get_first_level_table_idx(r.va), k).tag # "large"
<1> DEFINE s == get_first_level_table_idx(r.va)
           i == get_second_level_table_idx(r.va)
<1>1. s \in Secs /\ k \in SlotIdx /\ i \in SlotIdx /\ r.va \in Address
    BY RequestTypes, SlotInCover
<1>2. k = i
    <2>1. AS!PagesOfOp[r.op] = 1
        BY DEF AS!PagesOfOp
    <2>2. i \in 0 .. 255
        BY <1>1 DEF SlotIdx, SLDS_PER_TABLE
    <2>3. k \in i .. i + 1 - 1
        BY <2>1 DEF SlotsOf
    <2> QED BY <2>2, <2>3
<1>3. PageOf(r.va) = s * SLDS_PER_TABLE + k
    BY <1>1, <1>2, PageOfVa
<1> SUFFICES ASSUME Sld(s, k).tag = "large" PROVE FALSE
    OBVIOUS
<1>4. PICK lg \in Requests : /\ lg.op = "lg" /\ k \in SlotsOf(lg)
                             /\ s = get_first_level_table_idx(lg.va)
    BY <1>1 DEF LargeInside
<1>5. PageOf(r.va) \in AS!Cover(lg)
    BY <1>3, <1>4, SlotInCover
<1> QED BY <1>4, <1>5 DEF Disciplined, InsideLarge

(* Every slot of the aligned sixteen is covered by the request, or none. *)
LEMMA LgGroup ==
    ASSUME Disciplined, NEW r \in Requests, r.op = "lg",
           NEW i \in SlotIdx, NEW k \in SlotIdx,
           i \div REPLICAS = k \div REPLICAS
    PROVE  i \in SlotsOf(r) <=> k \in SlotsOf(r)
<1> DEFINE j == get_second_level_table_idx(r.va)
<1>1. j % 16 = 0 /\ j \in 0 .. 255
    BY CoverSlots, RequestTypes DEF REPLICAS, SlotIdx, SLDS_PER_TABLE
<1>2. SlotsOf(r) = j .. j + 15
    <2>1. AS!PagesOfOp[r.op] = 16 /\ j + 16 - 1 = j + 15
        BY <1>1 DEF AS!PagesOfOp, AS!REPLICAS
    <2> QED BY <2>1 DEF SlotsOf
<1>3. i \in 0 .. 255 /\ k \in 0 .. 255 /\ i \div 16 = k \div 16
    BY DEF REPLICAS, SlotIdx, SLDS_PER_TABLE
<1> HIDE DEF j
<1> QED BY <1>1, <1>2, <1>3, SMT

LEMMA EntryTag ==
    ASSUME NEW r \in Requests
    PROVE  Entry(r).tag = IF r.op = "sm" THEN "small" ELSE "large"
BY DEF Entry, mk_sm_page, mk_lg_page

LEMMA OpPages == AS!PagesOfOp["sm"] = 1 /\ AS!PagesOfOp["lg"] = 16
BY DEF AS!PagesOfOp, AS!REPLICAS

LEMMA MappedInv ==
    ASSUME DInv, IInv', Disciplined, NEW r \in Requests, Mapped(r)
    PROVE  DInv'
<1> DEFINE s == get_first_level_table_idx(r.va)
           i == get_second_level_table_idx(r.va)
<1>0. s \in Secs /\ i \in SlotIdx /\ SlotsOf(r) \subseteq SlotIdx
    BY RequestTypes, CoverSlots
<1>1. CASE SectionMapped(r)
    <2>1. SldReplicas' /\ LargeInside'
        BY <1>1 DEF SectionMapped, DInv, SldReplicas, LargeInside
    <2>2. \A u \in Secs : fld'[u].tag = "coarse" => fld'[u] = fld[u]
        BY <1>0, <1>1 DEF SectionMapped, Mapped, mk_section
    <2>3. NoEmptyTable' /\ DomainKept'
        BY <1>1, <2>2 DEF SectionMapped, DInv, NoEmptyTable, DomainKept
    <2> QED BY <2>1, <2>3 DEF DInv
<1>2. CASE PagesMapped(r)
    <2>1. \A u \in Secs : \A k \in SlotIdx :
              Sld(u, k)' = IF u = s /\ k \in SlotsOf(r) THEN Entry(r)
                                                       ELSE Sld(u, k)
        BY <1>2 DEF PagesMapped
    <2>2. i \in SlotsOf(r)
        <3> DEFINE n == AS!PagesOfOp[r.op]
        <3>1. r.op = "sm" \/ r.op = "lg"
            BY <1>2 DEF PagesMapped
        <3>2. n = 1 \/ n = 16
            BY <3>1, OpPages
        <3>3. i \in 0 .. 255
            BY <1>0 DEF SlotIdx, SLDS_PER_TABLE
        <3>4. SlotsOf(r) = i .. i + n - 1
            BY DEF SlotsOf
        <3> HIDE DEF i, n
        <3>5. i \in i .. i + n - 1
            BY <3>2, <3>3
        <3> QED BY <3>4, <3>5
    <2>3. \A k \in SlotsOf(r) : Sld(s, k).tag = "fault"
        <3>1. ASSUME NEW k \in SlotsOf(r) PROVE Sld(s, k).tag = "fault"
            <4>1. r.op = "sm" => Sld(s, k).tag # "large"
                BY SmNotInLarge DEF DInv
            <4> QED BY <1>2, <4>1 DEF PagesMapped
        <3> QED BY <3>1
    <2>4. SldReplicas'
        <3> SUFFICES ASSUME NEW u \in Secs, NEW a \in SlotIdx, NEW b \in SlotIdx,
                            Sld(u, a)'.tag = "large",
                            a \div REPLICAS = b \div REPLICAS
                     PROVE  Sld(u, b)' = Sld(u, a)'
            BY DEF SldReplicas
        <3>1. CASE u = s /\ a \in SlotsOf(r)
            <4>1. r.op = "lg"
                BY <3>1, <2>1, <1>2, EntryTag DEF PagesMapped
            <4>2. b \in SlotsOf(r)
                BY <3>1, <4>1, LgGroup
            <4> QED BY <3>1, <4>2, <2>1
        <3>2. CASE ~(u = s /\ a \in SlotsOf(r))
            <4>1. Sld(u, a).tag = "large" /\ Sld(u, a)' = Sld(u, a)
                BY <3>2, <2>1
            <4>2. Sld(u, b) = Sld(u, a)
                BY <4>1 DEF DInv, SldReplicas
            <4>3. ~(u = s /\ b \in SlotsOf(r))
                BY <4>1, <4>2, <2>3
            <4> QED BY <4>1, <4>2, <4>3, <2>1
        <3> QED BY <3>1, <3>2
    <2>5. LargeInside'
        <3> SUFFICES ASSUME NEW u \in Secs, NEW k \in SlotIdx,
                            Sld(u, k)'.tag = "large"
                     PROVE  \E lg \in Requests :
                               /\ lg.op = "lg"
                               /\ u = get_first_level_table_idx(lg.va)
                               /\ k \in SlotsOf(lg)
            BY DEF LargeInside
        <3>1. CASE u = s /\ k \in SlotsOf(r)
            BY <3>1, <2>1, <1>2, EntryTag DEF PagesMapped
        <3>2. CASE ~(u = s /\ k \in SlotsOf(r))
            BY <3>2, <2>1 DEF DInv, LargeInside
        <3> QED BY <3>1, <3>2
    <2>6. NoEmptyTable'
        <3> SUFFICES ASSUME NEW u \in Secs, fld'[u].tag = "coarse"
                     PROVE  \E k \in SlotIdx : Sld(u, k)'.tag # "fault"
            BY DEF NoEmptyTable
        <3>1. CASE u = s
            BY <3>1, <1>0, <2>1, <2>2, EntryTag
        <3>2. CASE u # s
            <4>1. fld[u].tag = "coarse"
                BY <3>2 DEF Mapped
            <4>2. PICK k \in SlotIdx : Sld(u, k).tag # "fault"
                BY <4>1 DEF DInv, NoEmptyTable
            <4> QED BY <4>2, <3>2, <2>1
        <3> QED BY <3>1, <3>2
    <2>7. DomainKept'
        <3> SUFFICES ASSUME NEW u \in Secs, fld'[u].tag = "coarse",
                            NEW q \in Requests,
                            u = get_first_level_table_idx(q.va)
                     PROVE  fld'[u].domain = q.domain
            BY DEF DomainKept
        <3>1. CASE u # s \/ fld[s].tag = "coarse"
            <4>1. fld[u].tag = "coarse" /\ fld'[u].domain = fld[u].domain
                BY <3>1, <1>2 DEF PagesMapped, Mapped
            <4> QED BY <4>1 DEF DInv, DomainKept
        <3>2. CASE u = s /\ fld[s].tag = "fault"
            <4>1. fld'[u].domain = r.domain
                BY <3>2, <1>2 DEF PagesMapped
            <4>2. \A x \in Requests :
                     PageOf(x.va) \div SLDS_PER_TABLE = get_first_level_table_idx(x.va)
                <5> SUFFICES ASSUME NEW x \in Requests
                             PROVE  PageOf(x.va) \div SLDS_PER_TABLE
                                        = get_first_level_table_idx(x.va)
                    OBVIOUS
                <5>1. x.va \in Address
                    BY RequestTypes
                <5> QED BY <5>1, SMT DEF PageOf, SLDS_PER_TABLE, Address,
                            get_first_level_table_idx, PAGE_SIZE, SECTION_SIZE
            <4>3. q.domain = r.domain
                BY <3>2, <4>2 DEF Disciplined
            <4> QED BY <4>1, <4>3
        <3> QED BY <3>1, <3>2, <1>2 DEF PagesMapped
    <2> QED BY <2>4, <2>5, <2>6, <2>7 DEF DInv
<1> QED BY <1>1, <1>2 DEF Mapped

LEMMA RefusedInv ==
    ASSUME DInv, IInv', NEW r, Refused(r)
    PROVE  DInv'
BY DEF Refused, DInv, SldReplicas, LargeInside, NoEmptyTable, DomainKept, Sld

LEMMA DInvStep == Disciplined /\ DInv /\ [Next]_vars => DInv'
<1> SUFFICES ASSUME Disciplined, DInv, [Next]_vars PROVE DInv'
    OBVIOUS
<1>1. CASE UNCHANGED vars
    BY <1>1 DEF DInv, IInv, TypeOK, TablesOwned, CoarseSecs, vars, SldReplicas,
                LargeInside, NoEmptyTable, DomainKept, Sld
<1>2. ASSUME NEW r \in Requests, Call(r) PROVE DInv'
    <2>1. IInv'
        BY <1>2, SectionStep, SmStep, LgStep DEF Call, DInv
    <2> QED BY <1>2, <2>1, Outcome, MappedInv, RefusedInv DEF DInv
<1> QED BY <1>1, <1>2 DEF Next

LEMMA DInvInit == Init => DInv
<1> SUFFICES ASSUME Init PROVE DInv
    OBVIOUS
<1>1. \A s \in Secs : fld[s].tag = "fault"
    BY DEF Init, FaultFld
<1>2. IInv
    BY EmptyTypes DEF Init, IInv, TypeOK, TablesOwned, CoarseSecs, FaultFld
<1>3. \A s \in Secs : \A k \in SlotIdx : Sld(s, k) = FaultSld
    BY <1>1 DEF Sld, SldIn
<1> QED BY <1>1, <1>2, <1>3 DEF DInv, SldReplicas, LargeInside, NoEmptyTable,
                                DomainKept, FaultSld

(* Through the tables: sixteen equal entries of each large page. *)
LEMMA SldReplicasAgree == DInv => ReplicasAgree
<1> SUFFICES ASSUME DInv, NEW t \in 1 .. Len(cpts), NEW i \in SlotIdx,
                    NEW k \in SlotIdx, cpts[t][i].tag = "large",
                    i \div REPLICAS = k \div REPLICAS
             PROVE  cpts[t][k] = cpts[t][i]
    BY DEF ReplicasAgree
<1>1. PICK s \in Secs : fld[s].tag = "coarse" /\ fld[s].base = t
    BY DEF DInv, IInv, TablesOwned, CoarseSecs
<1>2. Sld(s, i) = cpts[t][i] /\ Sld(s, k) = cpts[t][k]
    BY <1>1 DEF Sld, SldIn
<1> QED BY <1>2 DEF DInv, SldReplicas

(* Whatever disciplined calls the kernel makes, in whatever order, the walk of
   every page of a large page finds the same descriptor: the check and the
   sixteen writes of mmu_map_lg_page are enough. *)
THEOREM ReplicasAgreeAlways == Disciplined /\ Spec => []ReplicasAgree
<1>1. Init => DInv
    BY DInvInit
<1>2. Disciplined /\ DInv /\ [Next]_vars => DInv'
    BY DInvStep
<1>3. DInv => ReplicasAgree
    BY SldReplicasAgree
<1>4. Disciplined => []Disciplined
    <2>1. Disciplined => Disciplined'
        OBVIOUS
    <2> QED BY <2>1, PTL
<1> QED BY <1>1, <1>2, <1>3, <1>4, PTL DEF Spec

-----------------------------------------------------------------------------
(* Refinement: Walk of the table is the function space of AddressSpace.    *)

LEMMA WalkIsSld ==
    ASSUME NEW p \in Pages, IInv
    PROVE  LET d == fld[p \div SLDS_PER_TABLE]
               k == p % SLDS_PER_TABLE
           IN  Walk(p) = IF d.tag = "section"
                         THEN Translation(d.base * SLDS_PER_TABLE + k, d.domain,
                                          d.attr)
                         ELSE WalkSld(Sld(p \div SLDS_PER_TABLE, k), d.domain, p)
<1> DEFINE u == p \div SLDS_PER_TABLE
<1>1. u \in Secs
    BY PageParts
<1>2. fld[u].tag \in {"fault", "coarse", "section"}
    BY <1>1 DEF IInv, TypeOK, FldSet
<1>3. CASE fld[u].tag = "section"
    BY <1>3 DEF Walk
<1>4. CASE fld[u].tag = "coarse"
    BY <1>4 DEF Walk, Sld, SldIn
<1>5. CASE fld[u].tag = "fault"
    <2>1. WalkSld(FaultSld, fld[u].domain, p) = Unmapped
        BY DEF WalkSld, FaultSld
    <2>2. Walk(p) = Unmapped
        BY <1>5 DEF Walk
    <2> QED BY <1>5, <2>1, <2>2 DEF Sld, SldIn
<1> QED BY <1>2, <1>3, <1>4, <1>5

(* An entry translates exactly when it is not a fault. *)
LEMMA WalkSldUnmapped ==
    ASSUME NEW e \in SldSet, NEW d, NEW p \in Nat
    PROVE  WalkSld(e, d, p) = Unmapped <=> e.tag = "fault"
<1>1. e.tag \in {"fault", "large", "small"} /\ e.base \in Nat
    BY DEF SldSet
<1>2. e.base * REPLICAS + (p % REPLICAS) \in Nat
    BY <1>1 DEF REPLICAS
<1>3. ASSUME NEW n \in Nat, NEW a PROVE Translation(n, d, a) # Unmapped
    BY DEF Translation, Unmapped
<1> QED BY <1>1, <1>2, <1>3 DEF WalkSld

LEMMA WalkUnmapped ==
    ASSUME NEW p \in Pages, IInv
    PROVE  LET s == p \div SLDS_PER_TABLE
               k == p % SLDS_PER_TABLE
           IN  Walk(p) = Unmapped <=>
                   fld[s].tag # "section" /\ Sld(s, k).tag = "fault"
<1> DEFINE s == p \div SLDS_PER_TABLE
           k == p % SLDS_PER_TABLE
<1>1. s \in Secs /\ k \in SlotIdx /\ p \in Nat
    <2>1. s \in Secs /\ k \in SlotIdx /\ p = s * SLDS_PER_TABLE + k
        BY PageParts
    <2>2. s \in Nat
        BY <2>1, PartsPage
    <2> HIDE DEF s, k
    <2> QED BY <2>1, <2>2 DEF SlotIdx, SLDS_PER_TABLE
<1>2. fld[s] \in FldSet /\ Sld(s, k) \in SldSet
    BY <1>1, SldType, StructuredIsIInv DEF IInv, TypeOK, Sld
<1>3. CASE fld[s].tag = "section"
    <2>1. Walk(p) = Translation(fld[s].base * SLDS_PER_TABLE + k, fld[s].domain,
                                fld[s].attr)
        BY <1>3, WalkIsSld
    <2> HIDE DEF s, k
    <2>2. fld[s].base * SLDS_PER_TABLE + k \in Nat
        BY <1>1, <1>2 DEF FldSet, SlotIdx, SLDS_PER_TABLE
    <2> QED BY <1>3, <2>1, <2>2 DEF Translation, Unmapped, s, k
<1>4. CASE fld[s].tag # "section"
    <2>1. Walk(p) = WalkSld(Sld(s, k), fld[s].domain, p)
        BY <1>4, WalkIsSld
    <2> QED BY <1>1, <1>2, <1>4, <2>1, WalkSldUnmapped
<1> QED BY <1>3, <1>4

(* The frames: base and slot give the frame the caller asked for. *)
LEMMA AskedFrames ==
    ASSUME NEW r \in Requests, Disciplined, NEW p \in AS!Cover(r)
    PROVE  /\ r.op = "section" =>
                 (r.pa \div SECTION_SIZE) * SLDS_PER_TABLE + (p % SLDS_PER_TABLE)
                    = PageOf(r.pa) + (p - PageOf(r.va))
           /\ r.op = "sm" =>
                 r.pa \div PAGE_SIZE = PageOf(r.pa) + (p - PageOf(r.va))
           /\ r.op = "lg" =>
                 (r.pa \div LG_PAGE_SIZE) * REPLICAS + (p % REPLICAS)
                    = PageOf(r.pa) + (p - PageOf(r.va))
<1> DEFINE n == AS!PagesOfOp[r.op]
           v == PageOf(r.va)
<1>1. r.va \in Nat /\ r.pa \in Nat
    BY RequestTypes DEF Address
<1>2. v \in Nat /\ PageOf(r.pa) \in Nat
    BY <1>1, SMT DEF PageOf, PAGE_SIZE
<1>3. /\ r.op = "section" => n = 256
      /\ r.op = "lg" => n = 16
      /\ r.op = "sm" => n = 1
    BY DEF AS!PagesOfOp, AS!SLDS_PER_TABLE, AS!REPLICAS
<1>4. p \in v .. v + n - 1
    BY DEF AS!Cover, AS!PageOf, AS!PAGE_SIZE, PageOf, PAGE_SIZE
<1>0. /\ r.op = "section" => r.va % 1048576 = 0 /\ r.pa % 1048576 = 0
      /\ r.op = "lg" => r.va % 65536 = 0 /\ r.pa % 65536 = 0
    BY DisciplinedArgs, SMT
<1>5. /\ r.op = "section" => v % 256 = 0 /\ PageOf(r.pa) = (r.pa \div 1048576) * 256
      /\ r.op = "lg" => v % 16 = 0 /\ PageOf(r.pa) = (r.pa \div 65536) * 16
    <2>1. \A x \in Nat : x % 1048576 = 0 =>
             /\ (x \div 4096) % 256 = 0
             /\ x \div 4096 = (x \div 1048576) * 256
        BY SMT
    <2>2. \A x \in Nat : x % 65536 = 0 =>
             /\ (x \div 4096) % 16 = 0
             /\ x \div 4096 = (x \div 65536) * 16
        BY SMT
    <2> QED BY <1>0, <1>1, <2>1, <2>2, SMT DEF PageOf, PAGE_SIZE
<1>6. CASE r.op = "section"
    <2>1. p \in v .. v + 255 /\ v % 256 = 0
        BY <1>3, <1>4, <1>5, <1>6
    <2> HIDE DEF v
    <2>2. p % 256 = p - v
        BY <2>1, <1>2, SMT
    <2> QED BY <1>5, <1>6, <2>2 DEF SECTION_SIZE, SLDS_PER_TABLE, v
<1>7. CASE r.op = "lg"
    <2>1. p \in v .. v + 15 /\ v % 16 = 0
        BY <1>3, <1>4, <1>5, <1>7
    <2> HIDE DEF v
    <2>2. p % 16 = p - v
        BY <2>1, <1>2, SMT
    <2> QED BY <1>5, <1>7, <2>2 DEF LG_PAGE_SIZE, REPLICAS, v
<1>8. CASE r.op = "sm"
    <2>1. p = v
        BY <1>2, <1>3, <1>4, <1>8
    <2> QED BY <2>1, <1>2, <1>8 DEF PageOf
<1>9. r.op \in {"section", "sm", "lg"}
    BY RequestsAssumption DEF RequestSet
<1> QED BY <1>6, <1>7, <1>8, <1>9

(* A section or page call that succeeds gives the pages it covers exactly the
   translations it was asked for, *)
LEMMA MappedCovered ==
    ASSUME DInv, IInv', Disciplined, NEW r \in Requests, Mapped(r),
           NEW p \in Pages, p \in AS!Cover(r)
    PROVE  Walk(p) = Unmapped /\ Walk(p)' = AS!Asked(r, p)
<1> DEFINE s == p \div SLDS_PER_TABLE
           k == p % SLDS_PER_TABLE
<1>1. /\ s = get_first_level_table_idx(r.va) /\ k \in SlotsOf(r)
      /\ s \in Secs /\ k \in SlotIdx
    BY CoverSlots, PageParts
<1>2. AS!Asked(r, p) = Translation(PageOf(r.pa) + (p - PageOf(r.va)), r.domain,
                                   Attr(r.flags))
    BY DEF AS!Asked, AS!Translation, Translation, AS!PageOf, PageOf,
           AS!PAGE_SIZE, PAGE_SIZE, AS!Attr, Attr, AS!FGET_AP, FGET_AP,
           AS!FGET_C, FGET_C, AS!FGET_B, FGET_B, AS!FGET_APX, FGET_APX,
           AS!FGET_NG, FGET_NG, AS!FGET_S, FGET_S, AS!FGET_XN, FGET_XN,
           AS!Bit, Bit, AS!Pow2, Pow2, AS!AP_FULL_ACCESS, AP_FULL_ACCESS
<1>3. CASE SectionMapped(r)
    <2>1. fld[s].tag = "fault" /\ fld'[s] = mk_section(r.pa, r.domain, r.flags)
        BY <1>1, <1>3 DEF SectionMapped
    <2>2. Walk(p) = Unmapped
        BY <1>1, <2>1, WalkUnmapped DEF DInv, Sld, SldIn, FaultSld
    <2>3. Walk(p)' = Translation((r.pa \div SECTION_SIZE) * SLDS_PER_TABLE + k,
                                 r.domain, Attr(r.flags))
        BY <2>1 DEF Walk, mk_section
    <2> QED BY <1>2, <1>3, <2>2, <2>3, AskedFrames DEF SectionMapped
<1>4. CASE PagesMapped(r)
    <2>1. /\ r.op \in {"sm", "lg"} /\ fld[s].tag # "section"
          /\ fld'[s].tag = "coarse"
          /\ fld'[s].domain =
                IF fld[s].tag = "fault" THEN r.domain ELSE fld[s].domain
          /\ Sld(s, k)' = Entry(r)
        BY <1>1, <1>4 DEF PagesMapped
    <2>2. Sld(s, k).tag = "fault"
        <3>1. r.op = "sm" => Sld(s, k).tag # "large"
            BY <1>1, SmNotInLarge DEF DInv
        <3> QED BY <1>1, <1>4, <3>1 DEF PagesMapped
    <2>3. Walk(p) = Unmapped
        BY <2>1, <2>2, WalkUnmapped DEF DInv
    <2>4. fld'[s].domain = r.domain
        BY <1>1, <1>4, <2>1 DEF DInv, DomainKept, PagesMapped
    <2>5. Walk(p)' = WalkSld(Entry(r), r.domain, p)
        <3>1. Walk(p)' = WalkSld(Sld(s, k)', fld'[s].domain, p)
            BY <2>1 DEF Walk, Sld, SldIn
        <3> QED BY <3>1, <2>1, <2>4
    <2>6. WalkSld(Entry(r), r.domain, p) = AS!Asked(r, p)
        <3>1. CASE r.op = "sm"
            BY <3>1, <1>2, AskedFrames DEF WalkSld, Entry, mk_sm_page
        <3>2. CASE r.op = "lg"
            BY <3>2, <1>2, AskedFrames DEF WalkSld, Entry, mk_lg_page
        <3> QED BY <2>1, <3>1, <3>2
    <2> QED BY <2>3, <2>5, <2>6
<1> QED BY <1>3, <1>4 DEF Mapped

(* and leaves the translation of every other page alone. *)
LEMMA MappedOthers ==
    ASSUME DInv, IInv', Disciplined, NEW r \in Requests, Mapped(r),
           NEW p \in Pages, p \notin AS!Cover(r)
    PROVE  Walk(p)' = Walk(p)
<1> DEFINE s == p \div SLDS_PER_TABLE
           k == p % SLDS_PER_TABLE
<1>1. /\ ~(s = get_first_level_table_idx(r.va) /\ k \in SlotsOf(r))
      /\ s \in Secs /\ k \in SlotIdx
    BY CoverSlots, PageParts
<1>2. Sld(s, k)' = Sld(s, k)
    BY <1>1 DEF Mapped, SectionMapped, PagesMapped
<1>3. CASE s # get_first_level_table_idx(r.va)
    <2>1. fld'[s] = fld[s]
        BY <1>1, <1>3 DEF Mapped
    <2>2. (fld[s].tag # "section" =>
              /\ Walk(p) = WalkSld(Sld(s, k), fld[s].domain, p)
              /\ Walk(p)' = WalkSld(Sld(s, k)', fld'[s].domain, p))
        <3>1. fld[s].tag \in {"fault", "coarse", "section"}
            BY <1>1 DEF DInv, IInv, TypeOK, FldSet
        <3>2. WalkSld(FaultSld, fld[s].domain, p) = Unmapped
            BY DEF WalkSld, FaultSld
        <3> QED BY <2>1, <3>1, <3>2 DEF Walk, Sld, SldIn
    <2> QED BY <1>2, <2>1, <2>2 DEF Walk
<1>4. CASE s = get_first_level_table_idx(r.va) /\ PagesMapped(r)
    <2>1. /\ fld[s].tag \in {"fault", "coarse"} /\ fld'[s].tag = "coarse"
          /\ fld'[s].domain =
                IF fld[s].tag = "fault" THEN r.domain ELSE fld[s].domain
        BY <1>4 DEF PagesMapped
    <2>2. Walk(p)' = WalkSld(Sld(s, k)', fld'[s].domain, p)
        BY <2>1 DEF Walk, Sld, SldIn
    <2>3. CASE fld[s].tag = "coarse"
        <3>1. Walk(p) = WalkSld(Sld(s, k), fld[s].domain, p)
            BY <2>3 DEF Walk, Sld, SldIn
        <3> QED BY <3>1, <2>1, <2>2, <2>3, <1>2
    <2>4. CASE fld[s].tag = "fault"
        <3>1. Walk(p) = Unmapped /\ Sld(s, k) = FaultSld
            BY <2>4 DEF Walk, Sld, SldIn
        <3>2. WalkSld(FaultSld, fld'[s].domain, p) = Unmapped
            BY DEF WalkSld, FaultSld
        <3> QED BY <3>1, <3>2, <2>2, <1>2
    <2> QED BY <2>1, <2>3, <2>4
<1>5. CASE s = get_first_level_table_idx(r.va) /\ SectionMapped(r)
    <2>1. SlotsOf(r) = 0 .. 255
        <3>1. get_second_level_table_idx(r.va) = 0 /\ AS!PagesOfOp[r.op] = 256
            BY <1>5, CoverSlots DEF SectionMapped, AS!PagesOfOp, AS!SLDS_PER_TABLE
        <3>2. SlotsOf(r) = 0 .. 0 + 256 - 1
            BY <3>1 DEF SlotsOf
        <3> QED BY <3>2
    <2> QED BY <1>1, <1>5, <2>1 DEF SlotIdx, SLDS_PER_TABLE
<1> QED BY <1>3, <1>4, <1>5 DEF Mapped

LEMMA MappedIsMap ==
    ASSUME DInv, IInv', Disciplined, NEW r \in Requests, Mapped(r)
    PROVE  AS!Map(r)
<1>1. AS!Cover(r) \subseteq Pages
    BY CoverSlots
<1>2. \A p \in Pages :
         /\ p \in AS!Cover(r) => Walk(p) = Unmapped /\ Walk(p)' = AS!Asked(r, p)
         /\ p \notin AS!Cover(r) => Walk(p)' = Walk(p)
    BY MappedCovered, MappedOthers
<1>3. status = "up" /\ status' = "up"
    BY DEF Mapped
<1>4. \A p \in AS!Cover(r) : [q \in Pages |-> Walk(q)][p] = AS!Unmapped
    BY <1>1, <1>2 DEF AS!Unmapped, Unmapped, AS!ZeroAttr, ZeroAttr
<1>5. [q \in Pages |-> Walk(q)]' =
        [q \in Pages |-> IF q \in AS!Cover(r) THEN AS!Asked(r, q)
                         ELSE [x \in Pages |-> Walk(x)][q]]
    <2>1. [q \in Pages |-> Walk(q)]' = [q \in Pages |-> Walk(q)']
        OBVIOUS
    <2>2. \A q \in Pages : Walk(q)' = IF q \in AS!Cover(r) THEN AS!Asked(r, q)
                                      ELSE [x \in Pages |-> Walk(x)][q]
        BY <1>2
    <2> QED BY <2>1, <2>2
<1> QED BY <1>3, <1>4, <1>5 DEF AS!Map

LEMMA RefusedIsRefuse ==
    ASSUME DInv, Disciplined, NEW r \in Requests, Refused(r)
    PROVE  AS!Refuse(r)
<1> DEFINE s == get_first_level_table_idx(r.va)
           i == get_second_level_table_idx(r.va)
<1>1. s \in Secs /\ i \in SlotIdx /\ SlotsOf(r) \subseteq SlotIdx
    BY RequestTypes, CoverSlots
<1>2. i \in SlotsOf(r)
    <2> DEFINE n == AS!PagesOfOp[r.op]
    <2>1. (n = 1 \/ n = 16 \/ n = 256) /\ i \in 0 .. 255
        BY <1>1, RequestsAssumption DEF RequestSet, AS!PagesOfOp, AS!REPLICAS,
              AS!SLDS_PER_TABLE, SlotIdx, SLDS_PER_TABLE
    <2>2. SlotsOf(r) = i .. i + n - 1
        BY DEF SlotsOf
    <2> HIDE DEF i, n
    <2> QED BY <2>1, <2>2
<1>3. \E k \in SlotsOf(r) : fld[s].tag = "section" \/ Sld(s, k).tag # "fault"
    <2>1. CASE fld[s].tag = "section"
        BY <1>2, <2>1
    <2>2. CASE fld[s].tag = "coarse" /\ r.op = "section"
        <3>1. PICK k \in SlotIdx : Sld(s, k).tag # "fault"
            BY <1>1, <2>2 DEF DInv, NoEmptyTable
        <3>2. SlotsOf(r) = SlotIdx
            <4>1. i = 0 /\ AS!PagesOfOp[r.op] = 256
                BY <2>2, CoverSlots DEF AS!PagesOfOp, AS!SLDS_PER_TABLE
            <4>2. SlotsOf(r) = 0 .. 0 + 256 - 1
                BY <4>1 DEF SlotsOf
            <4> QED BY <4>2 DEF SlotIdx, SLDS_PER_TABLE
        <3> QED BY <3>1, <3>2
    <2>3. CASE \E k \in SlotsOf(r) : Sld(s, k).tag # "fault"
        BY <2>3
    <2> QED BY <2>1, <2>2, <2>3 DEF Refused
<1>4. PICK k \in SlotsOf(r) : fld[s].tag = "section" \/ Sld(s, k).tag # "fault"
    BY <1>3
<1> DEFINE p == s * SLDS_PER_TABLE + k
<1>5. /\ p \in Pages /\ p \in AS!Cover(r)
      /\ p \div SLDS_PER_TABLE = s /\ p % SLDS_PER_TABLE = k
    BY <1>1, SlotInCover, PartsPage
<1> HIDE DEF p
<1>6. Walk(p) # Unmapped
    BY <1>4, <1>5, WalkUnmapped DEF DInv
<1>7. UNCHANGED [q \in Pages |-> Walk(q)]
    BY DEF Refused, Walk
<1>8. status = "up" /\ status' = "panic"
    BY DEF Refused
<1>9. [q \in Pages |-> Walk(q)][p] # AS!Unmapped
    BY <1>5, <1>6 DEF AS!Unmapped, Unmapped, AS!ZeroAttr, ZeroAttr
<1> QED BY <1>5, <1>7, <1>8, <1>9 DEF AS!Refuse

(* For every disciplined set of calls the two-level table behaves as the
   partial function its callers think of: a call maps exactly the pages it
   names, to the frames, domain and permissions it names, and stops the kernel
   exactly when one of them is mapped already. *)
THEOREM PageTableImplementsAddressSpace ==
    Disciplined /\ Spec => ImplementsAddressSpace
<1>1. Init => AS!Init
    <2> SUFFICES ASSUME Init PROVE AS!Init
        OBVIOUS
    <2>1. \A p \in Pages : Walk(p) = Unmapped
        <3> SUFFICES ASSUME NEW p \in Pages PROVE Walk(p) = Unmapped
            OBVIOUS
        <3>1. fld[p \div SLDS_PER_TABLE].tag = "fault"
            BY PageParts DEF Init, FaultFld
        <3> QED BY <3>1 DEF Walk
    <2>2. (status = "panic") = FALSE
        BY DEF Init
    <2> QED BY <2>1, <2>2 DEF AS!Init, AS!Unmapped, Unmapped, AS!ZeroAttr, ZeroAttr
<1>2. Disciplined /\ DInv /\ [Next]_vars => [AS!Next]_AS!asVars
    <2> SUFFICES ASSUME Disciplined, DInv, [Next]_vars
                 PROVE  [AS!Next]_AS!asVars
        OBVIOUS
    <2>1. CASE UNCHANGED vars
        BY <2>1 DEF vars, AS!asVars, Walk
    <2>2. ASSUME NEW r \in Requests, Call(r) PROVE AS!Next
        <3>1. IInv'
            BY <2>2, SectionStep, SmStep, LgStep DEF Call, DInv
        <3>2. AS!Map(r) \/ AS!Refuse(r)
            BY <2>2, <3>1, Outcome, MappedIsMap, RefusedIsRefuse DEF DInv
        <3> QED BY <3>2 DEF AS!Next
    <2> QED BY <2>1, <2>2 DEF Next
<1>3. Disciplined => []Disciplined
    <2>1. Disciplined => Disciplined'
        OBVIOUS
    <2> QED BY <2>1, PTL
<1> QED BY <1>1, <1>2, <1>3, DInvInit, DInvStep, PTL
        DEF Spec, ImplementsAddressSpace, AS!Spec

-----------------------------------------------------------------------------
(* A call either changes nothing that is walked, or it maps a section or some
   slots of its own megabyte. *)
Changed(r) ==
    /\ \A u \in Secs : u # get_first_level_table_idx(r.va) => fld'[u] = fld[u]
    /\ SectionMapped(r) \/ PagesMapped(r)

LEMMA AnyOutcome ==
    ASSUME IInv, NEW r \in Requests, Call(r)
    PROVE  Changed(r) \/ UNCHANGED <<fld, cpts>>
<1> DEFINE s == get_first_level_table_idx(r.va)
<1>1. Mapped(r) \/ Refused(r) => Changed(r) \/ UNCHANGED <<fld, cpts>>
    BY DEF Mapped, Refused, Changed
<1>2. CASE r.op = "sm" /\ mmu_map_sm_page(r.va, r.pa, r.domain, r.flags)
    <2>1. CASE SmArgsOK(r.va, r.pa)
        BY <1>1, <1>2, <2>1, SmAccepted
    <2>2. CASE ~SmArgsOK(r.va, r.pa)
        BY <1>2, <2>2 DEF mmu_map_sm_page
    <2> QED BY <2>1, <2>2
<1>3. CASE r.op = "lg" /\ mmu_map_lg_page(r.va, r.pa, r.domain, r.flags)
    <2>1. CASE LgArgsOK(r.va, r.pa)
        BY <1>1, <1>3, <2>1, LgAccepted
    <2>2. CASE ~LgArgsOK(r.va, r.pa)
        BY <1>3, <2>2 DEF mmu_map_lg_page
    <2> QED BY <2>1, <2>2
<1>4. CASE r.op = "section" /\ mmu_map_section(r.va, r.pa, r.domain, r.flags)
    <2> DEFINE d == mk_section(r.pa, r.domain, r.flags)
    <2>1. CASE SectionFree(s) /\ fld' = [fld EXCEPT ![s] = d] /\ cpts' = cpts
        <3>1. d.tag = "section" /\ s \in Secs /\ fld \in [Secs -> FldSet]
            BY RequestTypes DEF mk_section, IInv, TypeOK
        <3> HIDE DEF s, d
        <3>2. fld'[s] = d /\ \A u \in Secs : u # s => fld'[u] = fld[u]
            BY <2>1, <3>1
        <3>3. \A u \in Secs : \A k \in SlotIdx : Sld(u, k)' = Sld(u, k)
            BY <2>1, <3>1, <3>2 DEF Sld, SldIn, SectionFree
        <3> QED BY <1>4, <2>1, <3>2, <3>3
                DEF Changed, SectionMapped, SectionFree, s, d
    <2>2. CASE UNCHANGED <<fld, cpts>>
        BY <2>2
    <2> QED BY <1>4, <2>1, <2>2 DEF mmu_map_section
<1> QED BY <1>2, <1>3, <1>4 DEF Call

(* The walk of a page depends on the first-level entry of its megabyte and
   on its own second-level entry. *)
LEMMA SameEntriesSameWalk ==
    ASSUME IInv, NEW p \in Pages,
           fld'[p \div SLDS_PER_TABLE] = fld[p \div SLDS_PER_TABLE],
           Sld(p \div SLDS_PER_TABLE, p % SLDS_PER_TABLE)'
             = Sld(p \div SLDS_PER_TABLE, p % SLDS_PER_TABLE)
    PROVE  Walk(p)' = Walk(p)
<1> DEFINE s == p \div SLDS_PER_TABLE
           k == p % SLDS_PER_TABLE
<1>1. fld[s].tag \in {"fault", "coarse", "section"}
    BY PageParts DEF IInv, TypeOK, FldSet
<1>2. CASE fld[s].tag \in {"fault", "section"}
    BY <1>2 DEF Walk
<1>3. CASE fld[s].tag = "coarse"
    <2>1. Walk(p) = WalkSld(Sld(s, k), fld[s].domain, p)
        BY <1>3 DEF Walk, Sld, SldIn
    <2>2. Walk(p)' = WalkSld(Sld(s, k)', fld'[s].domain, p)
        BY <1>3 DEF Walk, Sld, SldIn
    <2> QED BY <2>1, <2>2
<1> QED BY <1>1, <1>2, <1>3

(* No call changes the translation of a page in another megabyte. *)
LEMMA OtherMegabytes ==
    ASSUME IInv, NEW r \in Requests, Call(r), NEW p \in Pages,
           p \div SLDS_PER_TABLE # get_first_level_table_idx(r.va)
    PROVE  Walk(p)' = Walk(p)
<1>1. p \div SLDS_PER_TABLE \in Secs /\ p % SLDS_PER_TABLE \in SlotIdx
    BY PageParts
<1>2. CASE UNCHANGED <<fld, cpts>>
    BY <1>2 DEF Walk
<1>3. CASE Changed(r)
    <2>1. /\ fld'[p \div SLDS_PER_TABLE] = fld[p \div SLDS_PER_TABLE]
          /\ Sld(p \div SLDS_PER_TABLE, p % SLDS_PER_TABLE)'
               = Sld(p \div SLDS_PER_TABLE, p % SLDS_PER_TABLE)
        BY <1>1, <1>3 DEF Changed, SectionMapped, PagesMapped
    <2> QED BY <2>1, SameEntriesSameWalk
<1> QED BY <1>2, <1>3, AnyOutcome

(* What a small-page call may replace. *)
IntoLarge(r) ==
    /\ r.op = "sm"
    /\ \E k \in SlotsOf(r) : Sld(get_first_level_table_idx(r.va), k).tag = "large"

(* A call keeps every translation there is, unless it is a small-page call
   for a page of a large page. *)
LEMMA MappedKept ==
    ASSUME IInv, NEW r \in Requests, Call(r), ~IntoLarge(r),
           NEW p \in Pages, Walk(p) # Unmapped
    PROVE  Walk(p)' = Walk(p)
<1> DEFINE s == p \div SLDS_PER_TABLE
           k == p % SLDS_PER_TABLE
<1>1. s \in Secs /\ k \in SlotIdx
    BY PageParts
<1>2. fld[s].tag = "section" \/ Sld(s, k).tag # "fault"
    BY WalkUnmapped
<1>3. CASE s # get_first_level_table_idx(r.va)
    BY <1>3, OtherMegabytes
<1>4. CASE UNCHANGED <<fld, cpts>>
    BY <1>4 DEF Walk
<1>5. CASE s = get_first_level_table_idx(r.va) /\ SectionMapped(r)
    <2>1. fld[s].tag = "fault"
        BY <1>5 DEF SectionMapped
    <2> QED BY <1>2, <2>1 DEF Sld, SldIn, FaultSld
<1>6. CASE s = get_first_level_table_idx(r.va) /\ PagesMapped(r)
    <2>1. fld[s].tag = "coarse"
        BY <1>2, <1>6 DEF PagesMapped, Sld, SldIn, FaultSld
    <2>2. fld'[s].tag = "coarse" /\ fld'[s].domain = fld[s].domain
        BY <1>6, <2>1 DEF PagesMapped
    <2>3. k \notin SlotsOf(r)
        BY <1>2, <1>6, <2>1 DEF PagesMapped, IntoLarge
    <2>4. Sld(s, k)' = Sld(s, k)
        BY <1>1, <1>6, <2>3 DEF PagesMapped
    <2>5. /\ Walk(p) = WalkSld(Sld(s, k), fld[s].domain, p)
          /\ Walk(p)' = WalkSld(Sld(s, k)', fld'[s].domain, p)
        BY <2>1, <2>2 DEF Walk, Sld, SldIn
    <2> HIDE DEF s, k
    <2> QED BY <2>2, <2>4, <2>5, Zenon
<1> QED BY <1>3, <1>4, <1>5, <1>6, AnyOutcome DEF Changed

(* Large entries come from large-page calls only. *)
LEMMA LargeFromCall ==
    ASSUME IInv, NEW r \in Requests, Call(r), NEW u \in Secs, NEW k \in SlotIdx,
           Sld(u, k)'.tag = "large"
    PROVE  \/ Sld(u, k).tag = "large"
           \/ /\ r.op = "lg" /\ u = get_first_level_table_idx(r.va)
              /\ k \in SlotsOf(r)
<1>1. CASE UNCHANGED <<fld, cpts>>
    BY <1>1 DEF Sld
<1>2. CASE Changed(r)
    BY <1>2, EntryTag DEF Changed, SectionMapped, PagesMapped
<1> QED BY <1>1, <1>2, AnyOutcome

(* Whatever is asked of mmu_map_section, mmu_map_sm_page and mmu_map_lg_page,
   a call changes translations in one megabyte only: coarse tables are not
   shared, and the guard MAX_LARGE_PAGE_IDX keeps the sixteen writes of a
   misaligned large page inside its table. *)
THEOREM OwnMegabyteOnlyAlways == Spec => OwnMegabyteOnly
<1>1. IInv /\ [Next]_vars =>
        [\E s \in Secs : \A p \in Pages :
            Walk(p)' # Walk(p) => p \div SLDS_PER_TABLE = s]_vars
    <2> SUFFICES ASSUME IInv, Next
                 PROVE  \E s \in Secs : \A p \in Pages :
                            Walk(p)' # Walk(p) => p \div SLDS_PER_TABLE = s
        OBVIOUS
    <2>1. PICK r \in Requests : Call(r)
        BY DEF Next
    <2>2. get_first_level_table_idx(r.va) \in Secs
        BY RequestTypes
    <2>3. \A p \in Pages : Walk(p)' # Walk(p) =>
              p \div SLDS_PER_TABLE = get_first_level_table_idx(r.va)
        BY <2>1, OtherMegabytes
    <2> QED BY <2>2, <2>3
<1> QED BY <1>1, IInvInit, IInvStep, PTL DEF Spec, OwnMegabyteOnly

-----------------------------------------------------------------------------
(* The pages a large-page call writes, from an address it accepts. *)
LgPages(r) == PageOf(r.va) .. PageOf(r.va) + 15

(* The discipline of vm_tests: no small page is put into a large one. *)
ScriptsApart ==
    \A name \in DOMAIN Tests :
        \A i, j \in DOMAIN Tests[name].script :
            LET sm == Tests[name].script[i]
                lg == Tests[name].script[j]
            IN  sm.op = "sm" /\ lg.op = "lg" => PageOf(sm.va) \notin LgPages(lg)

-----------------------------------------------------------------------------
(* Calls. *)

LEMMA LgSlotCount ==
    ASSUME NEW r \in Requests, r.op = "lg"
    PROVE  SlotsOf(r) = get_second_level_table_idx(r.va)
                          .. get_second_level_table_idx(r.va) + 15
<1>1. AS!PagesOfOp[r.op] = 16
    BY DEF AS!PagesOfOp, AS!REPLICAS
<1>2. get_second_level_table_idx(r.va) \in Nat
    BY RequestTypes DEF SlotIdx
<1> QED BY <1>1, <1>2 DEF SlotsOf

LEMMA SmSlotCount ==
    ASSUME NEW r \in Requests, r.op = "sm"
    PROVE  SlotsOf(r) = {get_second_level_table_idx(r.va)}
<1>1. AS!PagesOfOp[r.op] = 1
    BY DEF AS!PagesOfOp
<1>2. get_second_level_table_idx(r.va) \in 0 .. 255
    BY RequestTypes DEF SlotIdx, SLDS_PER_TABLE
<1> QED BY <1>1, <1>2 DEF SlotsOf

(* A large-page call that returns has mapped all of its pages. *)
LEMMA LgCallMaps ==
    ASSUME IInv, IInv', NEW r \in Requests, r.op = "lg",
           mmu_map_lg_page(r.va, r.pa, r.domain, r.flags), status' = "up",
           NEW p \in LgPages(r)
    PROVE  p \in Pages /\ Walk(p)' # Unmapped
<1> DEFINE s == get_first_level_table_idx(r.va)
           i == get_second_level_table_idx(r.va)
           k == p - s * SLDS_PER_TABLE
<1>1. LgArgsOK(r.va, r.pa)
    BY DEF mmu_map_lg_page, Stop
<1>2. Mapped(r)
    BY <1>1, LgAccepted DEF Refused
<1>3. PagesMapped(r)
    BY <1>2 DEF Mapped, SectionMapped
<1>4. /\ s \in Secs /\ s \in Nat /\ i \in SlotIdx /\ i <= MAX_LARGE_PAGE_IDX
      /\ PageOf(r.va) = s * SLDS_PER_TABLE + i
    BY <1>1, RequestTypes, PageOfVa DEF LgArgsOK
<1>5. k \in i .. i + 15 /\ k \in SlotIdx /\ p = s * SLDS_PER_TABLE + k
    <2> HIDE DEF s, i
    <2> QED BY <1>4 DEF LgPages, SlotIdx, SLDS_PER_TABLE, MAX_LARGE_PAGE_IDX
<1> HIDE DEF k
<1>6. p \in Pages /\ p \div SLDS_PER_TABLE = s /\ p % SLDS_PER_TABLE = k
    BY <1>4, <1>5, PartsPage
<1>7. /\ fld'[s].tag = "coarse"
      /\ Sld(s, k)' = Entry(r)
    BY <1>3, <1>4, <1>5, LgSlotCount DEF PagesMapped
<1>8. Walk(p)' = WalkSld(Entry(r), fld'[s].domain, p)
    BY <1>6, <1>7 DEF Walk, Sld, SldIn
<1>9. Entry(r) \in SldSet /\ Entry(r).tag = "large"
    <2>1. Entry(r) = mk_sm_page(r.pa, r.flags) \/ Entry(r) = mk_lg_page(r.pa, r.flags)
        BY DEF Entry
    <2>3. r.pa \in Address /\ r.flags \in 0 .. 511
        BY RequestTypes
    <2>4. Entry(r) \in SldSet
        <3>1. mk_sm_page(r.pa, r.flags) \in SldSet /\ mk_lg_page(r.pa, r.flags) \in SldSet
            BY <2>3, PageSldTypes, Zenon
        <3> QED BY <2>1, <3>1, Zenon
    <2>2. Entry(r).tag = "large"
        BY EntryTag
    <2> QED BY <2>2, <2>4
<1>10. p \in Nat
    BY <1>4, <1>5 DEF SlotIdx, SLDS_PER_TABLE
<1> QED BY <1>6, <1>8, <1>9, <1>10, WalkSldUnmapped

-----------------------------------------------------------------------------
(* The inductive invariant.  While the test builds its table, large entries
   come from its script; afterwards nothing but the handler maps. *)
LargeFromScript ==
    \A u \in Secs : \A k \in SlotIdx : Sld(u, k).tag = "large" =>
        \E j \in DOMAIN Script :
            /\ Script[j].op = "lg"
            /\ u = get_first_level_table_idx(Script[j].va)
            /\ k \in SlotsOf(Script[j])

(* Every large page the script asked for so far is there. *)
ScriptMapped ==
    status = "up" =>
        \A j \in 1 .. calls : Script[j].op = "lg" =>
            \A p \in LgPages(Script[j]) : p \in Pages /\ Walk(p) # Unmapped

Progress ==
    /\ test \in DOMAIN Tests
    /\ calls \in 0 .. Len(Script)
    /\ cpu # "setup" => calls = Len(Script)

AInv ==
    /\ IInv /\ AbortTypeOK /\ Progress
    /\ cpu = "setup" => LargeFromScript
    /\ ScriptMapped
    /\ ServedStaysMapped

LEMMA ScriptTypes ==
    ASSUME test \in DOMAIN Tests
    PROVE  /\ Script \in Seq(Requests) /\ Len(Script) \in Nat
           /\ DOMAIN Script = 1 .. Len(Script)
BY TestsAssumption DEF Script

LEMMA AInvInit == AbortInit => AInv
<1> SUFFICES ASSUME AbortInit PROVE AInv
    OBVIOUS
<1>1. IInv
    BY IInvInit DEF AbortInit
<1>2. AbortTypeOK /\ Progress /\ ServedStaysMapped
    BY <1>1, ScriptTypes DEF AbortInit, AbortTypeOK, Progress, ServedStaysMapped, IInv
<1>3. LargeFromScript
    BY DEF AbortInit, Init, LargeFromScript, Sld, SldIn, FaultFld, FaultSld
<1>4. ScriptMapped
    BY DEF AbortInit, ScriptMapped
<1> QED BY <1>1, <1>2, <1>3, <1>4 DEF AInv

(* What a call needs to keep every translation. *)
LEMMA CallKeeps ==
    ASSUME AInv, NEW r \in Requests, Call(r), ~IntoLarge(r)
    PROVE  /\ IInv'
           /\ \A p \in Pages : Walk(p) # Unmapped => Walk(p)' = Walk(p)
           /\ status = "up" /\ status' \in {"up", "panic"}
<1>1. IInv'
    BY IInvCall DEF AInv
<1>2. status = "up"
    BY DEF Call, mmu_map_section, mmu_map_sm_page, mmu_map_lg_page
<1> QED BY <1>1, <1>2, MappedKept DEF AInv, IInv, TypeOK

(* The next call of the script: *)
LEMMA SetupApart ==
    ASSUME AInv, ScriptsApart, cpu = "setup", calls < Len(Script)
    PROVE  /\ Script[calls + 1] \in Requests /\ calls + 1 \in DOMAIN Script
           /\ ~IntoLarge(Script[calls + 1])
<1> DEFINE r == Script[calls + 1]
<1>1. /\ calls + 1 \in 1 .. Len(Script) /\ test \in DOMAIN Tests
      /\ DOMAIN Script = 1 .. Len(Script) /\ Script \in Seq(Requests)
    BY ScriptTypes DEF AInv, Progress
<1>2. r \in Requests
    BY <1>1
<1>3. ASSUME r.op = "sm", NEW k \in SlotsOf(r),
             Sld(get_first_level_table_idx(r.va), k).tag = "large"
      PROVE  FALSE
    <2> DEFINE s == get_first_level_table_idx(r.va)
               i == get_second_level_table_idx(r.va)
    <2>1. s \in Secs /\ s \in Nat /\ i \in SlotIdx /\ PageOf(r.va) = s * SLDS_PER_TABLE + i
        BY <1>2, RequestTypes, PageOfVa
    <2>2. k = i
        <3> HIDE DEF r
        <3> QED BY <1>2, <1>3, SmSlotCount
    <2>3. PICK j \in DOMAIN Script :
              /\ Script[j].op = "lg"
              /\ s = get_first_level_table_idx(Script[j].va)
              /\ k \in SlotsOf(Script[j])
        BY <1>3, <2>1, <2>2 DEF AInv, LargeFromScript
    <2>4. Script[j] \in Requests
        BY <1>1
    <2>5. /\ get_second_level_table_idx(Script[j].va) \in SlotIdx
          /\ PageOf(Script[j].va)
               = s * SLDS_PER_TABLE + get_second_level_table_idx(Script[j].va)
        BY <2>3, <2>4, RequestTypes, PageOfVa
    <2>6. i \in get_second_level_table_idx(Script[j].va)
                  .. get_second_level_table_idx(Script[j].va) + 15
        BY <2>2, <2>3, <2>4, LgSlotCount
    <2>7. PageOf(r.va) \in LgPages(Script[j])
        <3> DEFINE n == get_second_level_table_idx(Script[j].va)
        <3> SUFFICES PageOf(r.va) \in PageOf(Script[j].va) .. PageOf(Script[j].va) + 15
            BY DEF LgPages
        <3>1. i \in 0 .. 255 /\ n \in 0 .. 255 /\ i \in n .. n + 15
            BY <2>1, <2>5, <2>6 DEF SlotIdx, SLDS_PER_TABLE
        <3>2. PageOf(r.va) = s * 256 + i /\ PageOf(Script[j].va) = s * 256 + n
            BY <2>1, <2>5 DEF SLDS_PER_TABLE
        <3> HIDE DEF r, s, i, n
        <3> QED BY <2>1, <3>1, <3>2
    <2>8. PageOf(r.va) \notin LgPages(Script[j])
        BY <1>1, <1>3, <2>3 DEF ScriptsApart, Script
    <2> QED BY <2>7, <2>8
<1> QED BY <1>1, <1>2, <1>3 DEF IntoLarge

(* and the call of the handler. *)
LEMMA MissIsCall ==
    ASSUME AInv, cpu = "abort", far # 0, InStackGap(far), handle_page_miss(far)
    PROVE  /\ MissRequest(far) \in Requests /\ MissRequest(far).op = "lg"
           /\ Call(MissRequest(far)) /\ ~IntoLarge(MissRequest(far))
           /\ far \in Address
<1>1. Len(cpts) \in Nat
    BY DEF AInv, IInv, TypeOK
<1>2. FIRST_COARSE_TABLE < far /\ far < SYS_STACK_ADDR_FINE
    <2>1. far \in {0, PM_WDOG} \cup {x.va : x \in Tests[test].accesses}
        BY DEF AInv, AbortTypeOK
    <2>2. far \in Int
        BY <2>1, TestsAssumption DEF AInv, Progress, PM_WDOG, Address
    <2> QED BY <1>1, <2>2 DEF InStackGap, kmalloc_heap_end, FIRST_COARSE_TABLE,
                              SYS_STACK_ADDR_FINE
<1>3. far # PM_WDOG
    BY <1>2 DEF PM_WDOG, SYS_STACK_ADDR_FINE
<1>4. PICK x \in Tests[test].accesses : far = x.va
    BY <1>3 DEF AInv, AbortTypeOK
<1>5. MissRequest(far) \in Requests /\ far \in Address
    BY <1>2, <1>4, TestsAssumption DEF AInv, Progress
<1>6. MissRequest(far).op = "lg"
    BY DEF MissRequest
<1>7. Call(MissRequest(far))
    BY <1>6 DEF handle_page_miss, Call
<1> QED BY <1>5, <1>6, <1>7 DEF IntoLarge

(* The page that aborted is the second of the sixteen the handler maps. *)
LEMMA MissPage ==
    ASSUME AInv, cpu = "abort", far # 0, InStackGap(far), handle_page_miss(far)
    PROVE  PageOf(far) \in LgPages(MissRequest(far))
<1>1. MissRequest(far).va = far - PAGE_SIZE
    BY DEF MissRequest, MissBase
<1>2. far \in Nat /\ far - 4096 \in Nat
    BY MissIsCall, <1>1, RequestTypes DEF Address, PAGE_SIZE
<1>3. far \div 4096 = (far - 4096) \div 4096 + 1 /\ (far - 4096) \div 4096 \in Nat
    BY <1>2
<1> QED BY <1>1, <1>3 DEF LgPages, PageOf, PAGE_SIZE

LEMMA SetupStep ==
    ASSUME AInv, ScriptsApart, Setup
    PROVE  AInv' /\ \A p \in Pages : Walk(p) # Unmapped => Walk(p)' = Walk(p)
<1> DEFINE r == Script[calls + 1]
<1>1. /\ cpu = "setup" /\ calls < Len(Script) /\ Call(r)
      /\ calls' = calls + 1 /\ UNCHANGED <<test, cpu, far, fsr, served, mode>>
    BY DEF Setup, cpuVars
<1>2. r \in Requests /\ calls + 1 \in DOMAIN Script /\ ~IntoLarge(r)
    BY <1>1, SetupApart
<1>3. /\ IInv'
      /\ \A p \in Pages : Walk(p) # Unmapped => Walk(p)' = Walk(p)
      /\ status = "up" /\ status' \in {"up", "panic"}
    BY <1>1, <1>2, CallKeeps
<1>4. UNCHANGED Script
    BY <1>1 DEF Script
<1>5. AbortTypeOK' /\ Progress'
    BY <1>1, <1>2, <1>3, <1>4, ScriptTypes DEF AInv, AbortTypeOK, Progress, IInv
<1>6. LargeFromScript'
    <2> SUFFICES ASSUME NEW u \in Secs, NEW k \in SlotIdx, Sld(u, k)'.tag = "large"
                 PROVE  \E j \in DOMAIN Script :
                          /\ Script[j].op = "lg"
                          /\ u = get_first_level_table_idx(Script[j].va)
                          /\ k \in SlotsOf(Script[j])
        BY <1>4 DEF LargeFromScript
    <2>1. CASE Sld(u, k).tag = "large"
        BY <1>1, <2>1 DEF AInv, LargeFromScript
    <2>2. CASE /\ r.op = "lg" /\ u = get_first_level_table_idx(r.va)
               /\ k \in SlotsOf(r)
        BY <1>2, <2>2
    <2> QED BY <1>1, <1>2, <2>1, <2>2, LargeFromCall DEF AInv
<1>7. ScriptMapped'
    <2> SUFFICES ASSUME status' = "up", NEW j \in 1 .. calls + 1, Script[j].op = "lg",
                        NEW p \in LgPages(Script[j])
                 PROVE  p \in Pages /\ Walk(p)' # Unmapped
        BY <1>1, <1>4 DEF ScriptMapped
    <2>1. CASE j \in 1 .. calls
        <3>1. p \in Pages /\ Walk(p) # Unmapped
            BY <1>3, <2>1 DEF AInv, ScriptMapped
        <3> QED BY <1>3, <3>1
    <2>2. CASE j = calls + 1
        <3>1. mmu_map_lg_page(r.va, r.pa, r.domain, r.flags)
            BY <1>1, <2>2 DEF Call
        <3> QED BY <1>2, <1>3, <2>2, <3>1, LgCallMaps DEF AInv
    <2>3. calls \in Nat
        <3>1. Len(Script) \in Nat
            BY ScriptTypes DEF AInv, Progress
        <3>2. calls \in 0 .. Len(Script)
            BY DEF AInv, Progress
        <3> QED BY <3>1, <3>2
    <2> QED BY <2>1, <2>2, <2>3
<1>8. ServedStaysMapped'
    BY <1>1, <1>3 DEF AInv, ServedStaysMapped, Lookup
<1> QED BY <1>3, <1>5, <1>6, <1>7, <1>8 DEF AInv

LEMMA MissStep ==
    ASSUME AInv, data_abort_vector, far # 0, InStackGap(far), handle_page_miss(far)
    PROVE  AInv' /\ \A p \in Pages : Walk(p) # Unmapped => Walk(p)' = Walk(p)
<1>0. cpu = "abort"
    BY DEF data_abort_vector
<1> PICK r \in Requests : r = MissRequest(far)
    BY <1>0, MissIsCall
<1> PICK page \in LgPages(r) : page = PageOf(far)
    BY <1>0, MissPage
<1>1. /\ cpu = "abort" /\ UNCHANGED <<test, calls, mode, far, fsr>>
      /\ \/ status' = "up" /\ cpu' = "run" /\ served' = served \cup {PageOf(far)}
         \/ cpu' = "reboot" /\ UNCHANGED served
    BY DEF data_abort_vector, handle_page_miss, setupVars
<1>2. /\ r \in Requests /\ r.op = "lg" /\ Call(r) /\ ~IntoLarge(r)
      /\ mmu_map_lg_page(r.va, r.pa, r.domain, r.flags)
    BY <1>1, MissIsCall DEF handle_page_miss
<1>3. /\ IInv'
      /\ \A p \in Pages : Walk(p) # Unmapped => Walk(p)' = Walk(p)
      /\ status = "up" /\ status' \in {"up", "panic"}
    BY <1>2, CallKeeps
<1>4. UNCHANGED Script
    BY <1>1 DEF Script
<1>5. status' = "up" => page \in Pages /\ Walk(page)' # Unmapped
    BY <1>2, <1>3, LgCallMaps DEF AInv
<1>6. AbortTypeOK' /\ Progress'
    BY <1>1, <1>3, <1>4, <1>5 DEF AInv, AbortTypeOK, Progress, IInv
<1>7. ScriptMapped'
    <2> SUFFICES ASSUME NEW j \in 1 .. calls, Script[j].op = "lg",
                        NEW p \in LgPages(Script[j])
                 PROVE  p \in Pages /\ Walk(p)' # Unmapped
        BY <1>1, <1>4 DEF ScriptMapped
    <2>1. p \in Pages /\ Walk(p) # Unmapped
        BY <1>3 DEF AInv, ScriptMapped
    <2> QED BY <1>3, <2>1
<1>8. ServedStaysMapped'
    BY <1>1, <1>3, <1>5 DEF AInv, ServedStaysMapped, Lookup
<1> QED BY <1>1, <1>3, <1>6, <1>7, <1>8 DEF AInv

(* A step that leaves the tables and the script alone. *)
LEMMA OtherStep ==
    ASSUME AInv, UNCHANGED <<vars, test, calls, served>>,
           cpu' \in {"setup", "run", "abort", "reboot", "reset"},
           cpu' = "setup" => cpu = "setup",
           cpu' # "setup" => calls = Len(Script),
           mode' \in {"sys", "usr"},
           far' \in {0, PM_WDOG} \cup {x.va : x \in Tests[test].accesses},
           fsr' \in {"none", "translation", "domain", "permission", "imprecise"}
    PROVE  AInv' /\ \A p \in Pages : Walk(p) # Unmapped => Walk(p)' = Walk(p)
<1>1. UNCHANGED <<fld, cpts, status, test, calls, served>>
    BY DEF vars
<1>2. IInv'
    BY <1>1 DEF AInv, IInv, TypeOK, TablesOwned, CoarseSecs
<1>3. AbortTypeOK' /\ Progress'
    BY <1>1, <1>2 DEF AInv, AbortTypeOK, Progress, IInv, Script
<1>4. \A p : Walk(p)' = Walk(p)
    BY <1>1 DEF Walk
<1>5. ScriptMapped' /\ ServedStaysMapped'
    BY <1>1, <1>4 DEF AInv, ScriptMapped, ServedStaysMapped, Lookup, Script
<1>6. cpu' = "setup" => LargeFromScript'
    BY <1>1 DEF AInv, LargeFromScript, Sld, Script
<1> QED BY <1>2, <1>3, <1>4, <1>5, <1>6 DEF AInv

LEMMA AInvStep ==
    ASSUME AInv, ScriptsApart, [AbortNext]_daVars
    PROVE  AInv' /\ \A p \in Pages : Walk(p) # Unmapped => Walk(p)' = Walk(p)
<1>0. /\ AbortTypeOK /\ Progress
      /\ cpu \in {"setup", "run", "abort", "reboot", "reset"} /\ mode \in {"sys", "usr"}
      /\ far \in {0, PM_WDOG} \cup {x.va : x \in Tests[test].accesses}
      /\ fsr \in {"none", "translation", "domain", "permission", "imprecise"}
      /\ cpu # "setup" => calls = Len(Script)
    BY DEF AInv, AbortTypeOK, Progress
<1>1. CASE Setup
    BY <1>1, SetupStep
<1>2. CASE Start
    BY <1>0, <1>2, OtherStep DEF Start, setupVars
<1>3. ASSUME NEW x \in Tests[test].accesses, Access(x)
      PROVE  AInv' /\ \A p \in Pages : Walk(p) # Unmapped => Walk(p)' = Walk(p)
    <2>1. FaultOf(x.va, x.write, mode) \in {"none", "translation", "domain", "permission"}
        BY DEF FaultOf
    <2> QED BY <1>0, <1>3, <2>1, OtherStep DEF Access, TakeAbort, setupVars
<1>4. CASE ImpreciseAbort
    BY <1>0, <1>4, OtherStep DEF ImpreciseAbort, TakeAbort, setupVars
<1>5. CASE data_abort_vector
    <2>1. CASE far # 0 /\ InStackGap(far) /\ handle_page_miss(far)
        BY <1>5, <2>1, MissStep
    <2>2. CASE UNCHANGED <<vars, served>> /\ cpu' \in {"run", "reboot"}
        BY <1>0, <1>5, <2>2, OtherStep DEF data_abort_vector, setupVars
    <2> QED BY <1>5, <2>1, <2>2 DEF data_abort_vector
<1>6. CASE rpi_reboot
    <2>1. FaultOf(PM_WDOG, TRUE, RebootMode)
             \in {"none", "translation", "domain", "permission"}
        BY DEF FaultOf
    <2> QED BY <1>0, <1>6, <2>1, OtherStep DEF rpi_reboot, TakeAbort, setupVars
<1>7. CASE UNCHANGED daVars
    BY <1>0, <1>7, OtherStep DEF daVars, setupVars, cpuVars
<1> QED BY <1>1, <1>2, <1>3, <1>4, <1>5, <1>6, <1>7 DEF AbortNext

-----------------------------------------------------------------------------
(* The tables, the registers of the abort and the pages that were served keep
   their types, whichever addresses abort in whichever order. *)
THEOREM AbortTypeOKAlways == ScriptsApart /\ AbortSpec => []AbortTypeOK
<1> SUFFICES ASSUME ScriptsApart PROVE AbortSpec => []AbortTypeOK
    OBVIOUS
<1>1. AInv /\ [AbortNext]_daVars => AInv'
    BY AInvStep
<1>2. AInv => AbortTypeOK
    BY DEF AInv
<1> QED BY <1>1, <1>2, AInvInit, PTL DEF AbortSpec

(* A page for which handle_page_miss returned is never unmapped again: not by
   another miss, whose sixteen entries may overlap its own (the base the
   handler computes is any multiple of 16 bytes), and not by a panic. *)
THEOREM ServedStaysMappedAlways == ScriptsApart /\ AbortSpec => []ServedStaysMapped
<1> SUFFICES ASSUME ScriptsApart PROVE AbortSpec => []ServedStaysMapped
    OBVIOUS
<1>1. AInv /\ [AbortNext]_daVars => AInv'
    BY AInvStep
<1>2. AInv => ServedStaysMapped
    BY DEF AInv
<1> QED BY <1>1, <1>2, AInvInit, PTL DEF AbortSpec

(* data_abort_vector never changes a translation that the test's map calls or
   an earlier miss have made. *)
THEOREM TranslationsKeptAlways == ScriptsApart /\ AbortSpec => TranslationsKept
<1> SUFFICES ASSUME ScriptsApart PROVE AbortSpec => TranslationsKept
    OBVIOUS
<1>1. AInv /\ [AbortNext]_daVars =>
        AInv' /\ [\A p \in Pages : Walk(p) # Unmapped => Walk(p)' = Walk(p)]_daVars
    BY AInvStep
<1> QED BY <1>1, AInvInit, PTL DEF AbortSpec, TranslationsKept

-----------------------------------------------------------------------------
(* Where misses are served.  The handler maps from the page below the one
   that aborted, which may be a page of the heap: what refuses that call is
   that each test has mapped the megabyte at SYS_HEAP_START, with the coarse
   tables in it. *)
HeapPages == PageOf(SYS_HEAP_START) .. PageOf(SYS_HEAP_START) + 255

HeapInScript ==
    /\ \A name \in DOMAIN Tests : \A p \in HeapPages :
          \E j \in DOMAIN Tests[name].script :
              /\ Tests[name].script[j].op = "lg"
              /\ p \in LgPages(Tests[name].script[j])
    /\ IsFiniteSet(Secs)
    /\ FIRST_COARSE_TABLE + 1024 * Cardinality(Secs) < SYS_HEAP_START + SECTION_SIZE

(* There is at most one coarse table for each megabyte. *)
LEMMA TablesBounded ==
    ASSUME IInv, IsFiniteSet(Secs)
    PROVE  Len(cpts) <= Cardinality(Secs)
<1> DEFINE n == Len(cpts)
           owner == [t \in 1 .. n |-> CHOOSE u \in CoarseSecs : fld[u].base = t]
<1>1. n \in Nat
    BY DEF IInv, TypeOK
<1>2. \A t \in 1 .. n : owner[t] \in CoarseSecs /\ fld[owner[t]].base = t
    BY DEF IInv, TablesOwned
<1>3. CoarseSecs \subseteq Secs
    BY DEF CoarseSecs
<1>4. owner \in [1 .. n -> Secs]
    BY <1>2, <1>3
<1> HIDE DEF owner, n
<1>5. owner \in Injection(1 .. n, Secs)
    BY <1>2, <1>4 DEF Injection, IsInjective
<1>6. Cardinality(1 .. n) = n
    BY <1>1, FS_Interval
<1>7. Cardinality(1 .. n) <= Cardinality(Secs)
    BY <1>5, FS_Injection
<1> QED BY <1>6, <1>7 DEF n

LEMMA GrowthStep ==
    ASSUME AInv, ScriptsApart, HeapInScript, [AbortNext]_daVars, cpu = "abort",
           NEW p \in Pages, Walk(p)' # Walk(p)
    PROVE  p * PAGE_SIZE >= kmalloc_heap_end /\ p * PAGE_SIZE < SYS_STACK_ADDR_FINE
<1>1. far # 0 /\ InStackGap(far) /\ handle_page_miss(far)
    <2>1. ASSUME UNCHANGED vars PROVE FALSE
        BY <2>1 DEF vars, Walk
    <2>2. data_abort_vector
        BY <2>1 DEF AbortNext, Setup, Start, Access, ImpreciseAbort, rpi_reboot, daVars
    <2> QED BY <2>1, <2>2 DEF data_abort_vector
<1> PICK r \in Requests : r = MissRequest(far)
    BY <1>1, MissIsCall
<1> DEFINE s == get_first_level_table_idx(r.va)
           i == get_second_level_table_idx(r.va)
<1>2. /\ r.op = "lg" /\ Call(r) /\ ~IntoLarge(r) /\ far \in Address
      /\ mmu_map_lg_page(r.va, r.pa, r.domain, r.flags)
      /\ r.va = far - PAGE_SIZE
    BY <1>1, MissIsCall DEF handle_page_miss, MissRequest, MissBase
<1>3. PagesMapped(r) /\ i <= MAX_LARGE_PAGE_IDX
    <2>1. LgArgsOK(r.va, r.pa)
        <3>1. ASSUME UNCHANGED <<fld, cpts>> PROVE FALSE
            BY <3>1 DEF Walk
        <3> QED BY <1>2, <3>1 DEF mmu_map_lg_page
    <2>2. Mapped(r) \/ Refused(r)
        BY <1>2, <2>1, LgAccepted DEF AInv
    <2>3. ~Refused(r)
        BY DEF Refused, Walk
    <2> QED BY <1>2, <2>1, <2>2, <2>3 DEF Mapped, SectionMapped, LgArgsOK
<1>4. Walk(p) = Unmapped
    BY <1>2, CallKeeps
<1>5. /\ s \in Nat /\ i \in SlotIdx /\ PageOf(r.va) = s * SLDS_PER_TABLE + i
      /\ r.va \in Address
    BY <1>2, RequestTypes, PageOfVa
<1>6. /\ p \div SLDS_PER_TABLE = s
      /\ p % SLDS_PER_TABLE \in SlotIdx
      /\ p = (p \div SLDS_PER_TABLE) * SLDS_PER_TABLE + (p % SLDS_PER_TABLE)
    BY <1>2, OtherMegabytes, PageParts DEF AInv
<1>7. p % SLDS_PER_TABLE \in i .. i + 15
    <2> DEFINE k == p % SLDS_PER_TABLE
    <2>1. SUFFICES ASSUME k \notin SlotsOf(r) PROVE FALSE
        BY <1>2, LgSlotCount
    <2>2. s \in Secs /\ k \in SlotIdx
        BY <1>2, <1>6, RequestTypes
    <2>3. Sld(s, k)' = Sld(s, k)
        BY <1>3, <2>1, <2>2 DEF PagesMapped
    <2>4. fld[s].tag # "section" /\ Sld(s, k).tag = "fault"
        BY <1>4, <1>6, WalkUnmapped DEF AInv
    <2>5. fld'[s].tag = "coarse"
        BY <1>3 DEF PagesMapped
    <2>6. Walk(p)' = WalkSld(Sld(s, k)', fld'[s].domain, p)
        BY <1>6, <2>5 DEF Walk, Sld, SldIn
    <2>7. Walk(p)' = Unmapped
        BY <2>3, <2>4, <2>6 DEF WalkSld
    <2> QED BY <1>4, <2>7
<1>8. /\ p \in Nat /\ p <= s * 256 + 255
      /\ p >= PageOf(r.va)
    <2>1. i \in 0 .. 255 /\ PageOf(r.va) = s * 256 + i
        BY <1>5 DEF SlotIdx, SLDS_PER_TABLE
    <2>2. PICK k \in 0 .. 255 : k \in i .. i + 15 /\ p = s * 256 + k
        BY <1>6, <1>7 DEF SlotIdx, SLDS_PER_TABLE
    <2> HIDE DEF s, i
    <2> QED BY <1>5, <2>1, <2>2
<1>9. far > kmalloc_heap_end /\ far < SYS_STACK_ADDR_FINE
    BY <1>1 DEF InStackGap
<1>10. p * PAGE_SIZE < SYS_STACK_ADDR_FINE
    <2>1. far \in Nat /\ r.va \in Nat /\ r.va < 4194304 /\ s = r.va \div 1048576
        BY <1>2, <1>5, <1>9 DEF Address, PAGE_SIZE, SYS_STACK_ADDR_FINE,
                                get_first_level_table_idx, SECTION_SIZE
    <2> HIDE DEF s
    <2>2. s <= 3
        BY <2>1
    <2> QED BY <1>5, <1>8, <2>2 DEF PAGE_SIZE, SYS_STACK_ADDR_FINE
<1>11. p * PAGE_SIZE >= kmalloc_heap_end
    <2> SUFFICES ASSUME p * PAGE_SIZE < kmalloc_heap_end PROVE FALSE
        <3>1. kmalloc_heap_end \in Nat /\ p * PAGE_SIZE \in Nat
            BY <1>8 DEF AInv, IInv, TypeOK, kmalloc_heap_end, FIRST_COARSE_TABLE,
                        PAGE_SIZE
        <3> QED BY <3>1
    <2>1. /\ kmalloc_heap_end \in Nat /\ kmalloc_heap_end >= 1343488
          /\ kmalloc_heap_end < 2359296
        <3>1. /\ Len(cpts) \in Nat /\ Cardinality(Secs) \in Nat
              /\ Len(cpts) <= Cardinality(Secs)
            BY TablesBounded, FS_CardinalityType DEF AInv, IInv, TypeOK, HeapInScript
        <3>2. FIRST_COARSE_TABLE + 1024 * Cardinality(Secs)
                < SYS_HEAP_START + SECTION_SIZE
            BY DEF HeapInScript
        <3> QED BY <3>1, <3>2 DEF kmalloc_heap_end, FIRST_COARSE_TABLE,
                                  SYS_HEAP_START, SECTION_SIZE
    <2>2. far \in Nat /\ r.va = far - 4096 /\ r.va \in Nat /\ PageOf(r.va) = r.va \div 4096
        BY <1>2, <1>5 DEF Address, PAGE_SIZE, PageOf
    <2>3. p >= 320 /\ p <= 575
        <3> HIDE DEF s, i
        <3>1. p * 4096 < 2359296
            BY <1>8, <2>1 DEF PAGE_SIZE
        <3>2. r.va > 1310720
            BY <1>9, <2>1, <2>2
        <3> QED BY <1>8, <2>2, <3>1, <3>2
    <2>4. p \in HeapPages
        BY <1>8, <2>3 DEF HeapPages, PageOf, SYS_HEAP_START, PAGE_SIZE
    <2>5. PICK j \in DOMAIN Script : Script[j].op = "lg" /\ p \in LgPages(Script[j])
        BY <2>4 DEF HeapInScript, Script, AInv, Progress
    <2>6. j \in 1 .. calls /\ status = "up"
        BY <1>2, <2>5, ScriptTypes, CallKeeps DEF AInv, Progress
    <2> QED BY <1>4, <2>5, <2>6 DEF AInv, ScriptMapped
<1> QED BY <1>10, <1>11

(* Whatever aborts, data_abort_vector gives pages only to the gap between the
   end of the heap and the top of the stack, although handle_page_miss maps
   fifteen more pages than the one that aborted, one of them below it. *)
THEOREM GrowthInGapOnlyAlways ==
    ScriptsApart /\ HeapInScript /\ AbortSpec => GrowthInGapOnly
<1> SUFFICES ASSUME ScriptsApart, HeapInScript PROVE AbortSpec => GrowthInGapOnly
    OBVIOUS
<1>1. AInv /\ [AbortNext]_daVars => AInv'
    BY AInvStep
<1>2. AInv /\ [AbortNext]_daVars =>
        [cpu = "abort" => \A p \in Pages : Walk(p)' # Walk(p) =>
            /\ p * PAGE_SIZE >= kmalloc_heap_end
            /\ p * PAGE_SIZE < SYS_STACK_ADDR_FINE]_daVars
    BY GrowthStep
<1> QED BY <1>1, <1>2, AInvInit, PTL DEF AbortSpec, GrowthInGapOnly
=============================================================================
