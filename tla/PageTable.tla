----------------------------- MODULE PageTable -----------------------------
(***************************************************************************)
(* src/src/mmu.c: one two-level ARM page table and the three functions     *)
(* that add a mapping to it.  A call is one atomic action: the code runs   *)
(* on one core with interrupts off.  An assert, demand or panic of the C   *)
(* code prints and reboots, so it ends the behaviour: status = "panic".    *)
(*                                                                         *)
(*   fld     the first-level table, at the sections the requests name (the *)
(*           other entries of the 4096 stay zero: no call indexes them)    *)
(*   cpts    the coarse tables in the order kmalloc_aligned returned them; *)
(*           table t ends where t + 1 starts                               *)
(*   status  "up", or "panic" once an assertion failed                     *)
(***************************************************************************)
EXTENDS Descriptors, Sequences, FiniteSets

CONSTANT
    Requests    \* the calls [op, va, pa, domain, flags] a client may make

RequestSet == [op : {"section", "sm", "lg"}, va : Address, pa : Address,
               domain : 0 .. 15, flags : 0 .. 511]

ASSUME RequestsAssumption == Requests \subseteq RequestSet

Secs == {get_first_level_table_idx(r.va) : r \in Requests}

(* The pages of the sections the requests name. *)
Pages == UNION {(s * SLDS_PER_TABLE) .. (s * SLDS_PER_TABLE + 255) : s \in Secs}

VARIABLES fld, cpts, status

vars == <<fld, cpts, status>>

-----------------------------------------------------------------------------
(* kmalloc returns zeroed memory: every entry a fault. *)
ZeroTable == [i \in SlotIdx |-> FaultSld]

(* &pte[i]: entry k of a table, counted from its first, is an entry of the
   table after it when k runs past the end. *)
SlotAt(t, k) == <<t + (k \div SLDS_PER_TABLE), k % SLDS_PER_TABLE>>

(* A mutant: every table is the first one: the pointer is not refreshed. *)
CoarseShared(va, domain) ==
    LET s == get_first_level_table_idx(va)
    IN  IF fld[s].tag = "fault"
        THEN [fld  |-> [fld EXCEPT ![s] = CoarseFld(1, domain)],
              cpts |-> IF cpts = <<>> THEN <<ZeroTable>> ELSE cpts]
        ELSE [fld |-> fld, cpts |-> cpts]

(* mk_coarse_page_table: what the table and the memory are once the section
   of va has a coarse table.  A section that has one keeps it, and the domain
   it was made with. *)
CoarseInstalled(va, domain) ==
    LET s == get_first_level_table_idx(va)
    IN  IF fld[s].tag = "fault"
        THEN [fld  |-> [fld EXCEPT ![s] = CoarseFld(Len(cpts) + 1, domain)],
              cpts |-> Append(cpts, ZeroTable)]
        ELSE [fld |-> fld, cpts |-> cpts]

Stop == status' = "panic"

Init == /\ fld = [s \in Secs |-> FaultFld]
        /\ cpts = <<>>
        /\ status = "up"

-----------------------------------------------------------------------------
(* mmu_map_section. *)

SectionArgsOK(va, pa) == is_aligned(va, 20) /\ is_aligned(pa, 20)

(* A mutant: the "already set" demand looks for another section only. *)
SectionFreeIfNotSection(s) == fld[s].tag # "section"
SectionFree(s) == fld[s].tag = "fault"

(* The entry is written before section_print asserts its flags. *)
mmu_map_section(va, pa, domain, flags) ==
    LET s == get_first_level_table_idx(va)
    IN  /\ status = "up"
        /\ UNCHANGED cpts
        /\ \/ /\ SectionArgsOK(va, pa) /\ SectionFree(s)
              /\ fld' = [fld EXCEPT ![s] = mk_section(pa, domain, flags)]
              /\ status' = IF section_check_valid(mk_section(pa, domain, flags))
                           THEN "up" ELSE "panic"
           \/ /\ ~(SectionArgsOK(va, pa) /\ SectionFree(s))
              /\ Stop
              /\ UNCHANGED fld

-----------------------------------------------------------------------------
(* mmu_map_sm_page. *)

SmArgsOK(va, pa) ==
    /\ is_aligned(va, 12)
    /\ is_aligned(pa, 12)
    /\ fld[get_first_level_table_idx(va)].tag \in {"fault", "coarse"}

SmSlotFree(sld) == SmTag(sld) = 0

mmu_map_sm_page(va, pa, domain, flags) ==
    /\ status = "up"
    /\ \/ /\ SmArgsOK(va, pa)
          /\ LET m == CoarseInstalled(va, domain)
                 t == m.fld[get_first_level_table_idx(va)].base
                 i == get_second_level_table_idx(va)
             IN  /\ fld' = m.fld
                 /\ \/ /\ SmSlotFree(m.cpts[t][i])
                       /\ cpts' = [m.cpts EXCEPT ![t][i] = mk_sm_page(pa, flags)]
                       /\ UNCHANGED status
                    \/ /\ ~SmSlotFree(m.cpts[t][i])
                       /\ cpts' = m.cpts
                       /\ Stop
       \/ /\ ~SmArgsOK(va, pa)
          /\ Stop
          /\ UNCHANGED <<fld, cpts>>

-----------------------------------------------------------------------------
(* mmu_map_lg_page. *)

(* A mutant: the guard allows any index of the table. *)
LG_PAGE_IDX_UNGUARDED == 255
MAX_LARGE_PAGE_IDX == 240

LgArgsOK(va, pa) ==
    /\ is_aligned(va, 16)
    /\ is_aligned(pa, 16)
    /\ get_second_level_table_idx(va) <= MAX_LARGE_PAGE_IDX
    /\ fld[get_first_level_table_idx(va)].tag \in {"fault", "coarse"}

(* The sixteen entries a large page at index i of table t occupies; an entry
   past the last table is memory that no table owns. *)
(* A mutant: the replication stops one entry short. *)
LgSlotsOneShort(t, i) == {SlotAt(t, i + j) : j \in 0 .. REPLICAS - 2}
LgSlots(t, i) == {SlotAt(t, i + j) : j \in 0 .. REPLICAS - 1}

(* A mutant: only the first entry is checked, as for a small page. *)
LgFirstSlotFree(tables, t, i) == LgTag(tables[t][i]) = 0
LgSlotsFree(tables, t, i) ==
    \A slot \in LgSlots(t, i) :
        slot[1] <= Len(tables) => LgTag(tables[slot[1]][slot[2]]) = 0

mmu_map_lg_page(va, pa, domain, flags) ==
    /\ status = "up"
    /\ \/ /\ LgArgsOK(va, pa)
          /\ LET m == CoarseInstalled(va, domain)
                 t == m.fld[get_first_level_table_idx(va)].base
                 i == get_second_level_table_idx(va)
             IN  /\ fld' = m.fld
                 /\ \/ /\ LgSlotsFree(m.cpts, t, i)
                       /\ cpts' = [u \in DOMAIN m.cpts |-> [k \in SlotIdx |->
                                     IF <<u, k>> \in LgSlots(t, i)
                                     THEN mk_lg_page(pa, flags)
                                     ELSE m.cpts[u][k]]]
                       /\ UNCHANGED status
                    \/ /\ ~LgSlotsFree(m.cpts, t, i)
                       /\ cpts' = m.cpts
                       /\ Stop
       \/ /\ ~LgArgsOK(va, pa)
          /\ Stop
          /\ UNCHANGED <<fld, cpts>>

-----------------------------------------------------------------------------
Call(r) ==
    \/ r.op = "section" /\ mmu_map_section(r.va, r.pa, r.domain, r.flags)
    \/ r.op = "sm"      /\ mmu_map_sm_page(r.va, r.pa, r.domain, r.flags)
    \/ r.op = "lg"      /\ mmu_map_lg_page(r.va, r.pa, r.domain, r.flags)

Next == \E r \in Requests : Call(r)

Spec == Init /\ [][Next]_vars

-----------------------------------------------------------------------------
(* The hardware translation of page p. *)
Walk(p) ==
    LET d == fld[p \div SLDS_PER_TABLE]
        i == p % SLDS_PER_TABLE
    IN  CASE d.tag = "fault"   -> Unmapped
          [] d.tag = "section" ->
                Translation(d.base * SLDS_PER_TABLE + i, d.domain, d.attr)
          [] d.tag = "coarse"  -> WalkSld(cpts[d.base][i], d.domain, p)

-----------------------------------------------------------------------------
(* The fields are what their C types hold. *)
TypeOK == /\ fld \in [Secs -> FldSet]
          /\ cpts \in Seq([SlotIdx -> SldSet])
          /\ status \in {"up", "panic"}

CoarseSecs == {s \in Secs : fld[s].tag = "coarse"}

(* Every coarse table belongs to exactly one section: no two first-level
   entries share a table, every pointer is to a table that was allocated, and
   no allocated table is lost.  Sharing one would make a mapping in one
   megabyte appear in another. *)
TablesOwned ==
    /\ \A s \in CoarseSecs : fld[s].base \in 1 .. Len(cpts)
    /\ \A s1, s2 \in CoarseSecs : fld[s1].base = fld[s2].base => s1 = s2
    /\ \A t \in 1 .. Len(cpts) : \E s \in CoarseSecs : fld[s].base = t

(* A large page is sixteen identical entries starting at a multiple of 16, so
   that the walk of every page of the 64KB finds the same descriptor. *)
ReplicasAgree ==
    \A t \in 1 .. Len(cpts) : \A i, k \in SlotIdx :
        (cpts[t][i].tag = "large" /\ i \div REPLICAS = k \div REPLICAS)
            => cpts[t][k] = cpts[t][i]

(* A call changes translations in the megabyte it names and in no other, even
   when the address it is given is misaligned. *)
OwnMegabyteOnly ==
    [][\E s \in Secs : \A p \in Pages :
          Walk(p)' # Walk(p) => p \div SLDS_PER_TABLE = s]_vars

AS == INSTANCE AddressSpace
        WITH space  <- [p \in Pages |-> Walk(p)],
             halted <- status = "panic"

(* The page table implements the partial function its callers think of. *)
ImplementsAddressSpace == AS!Spec

-----------------------------------------------------------------------------
(* The requests under which the two agree: addresses really aligned, one
   domain for each megabyte, no small page inside the 64KB of a large one,
   and for a section none of the flags section_print refuses. *)
InsideLarge(sm, lg) == PageOf(sm.va) \in AS!Cover(lg)

Disciplined ==
    /\ \A r \in Requests :
          LET size == AS!PagesOfOp[r.op] * PAGE_SIZE
          IN  TrulyAligned(r.va, size) /\ TrulyAligned(r.pa, size)
    /\ \A r \in Requests : r.op = "section" =>
          section_check_valid(mk_section(r.pa, r.domain, r.flags))
    /\ \A r1, r2 \in Requests :
          PageOf(r1.va) \div SLDS_PER_TABLE = PageOf(r2.va) \div SLDS_PER_TABLE
              => r1.domain = r2.domain
    /\ \A sm, lg \in Requests :
          sm.op = "sm" /\ lg.op = "lg" => ~InsideLarge(sm, lg)
=============================================================================
