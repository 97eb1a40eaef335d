-------------------------------- MODULE Env --------------------------------
(***************************************************************************)
(* Address-space environments (src/src/driver.c, lines 15-88) and the      *)
(* hardware they program: an environment owns a page table, a domain, an   *)
(* address-space identifier (asid) and a slot of envs[]; env_switch_to     *)
(* loads them into coprocessor 15 and enables the MMU; the hardware caches *)
(* translations in a TLB that this code empties at boot and never again.   *)
(*                                                                         *)
(* The kernel that calls these functions is a client.  A careful one does  *)
(* as vm_tests does: it frees an environment once, never the one it runs   *)
(* in, turns the MMU off before it switches, and turns it off only when it *)
(* is on.  Another one may use any pointer it was ever given, and call any *)
(* function, at any time.                                                  *)
(***************************************************************************)
EXTENDS IdPool, FiniteSets

CONSTANTS
    DOMAIN_UB,      \* domains are 1 .. DOMAIN_UB - 1 (16 in env_init)
    ASID_UB,        \* asids are 1 .. ASID_UB - 1 (64 in env_init)
    MAX_ENV,        \* slots of envs[] (8)
    Clients,        \* the clients considered: careful (TRUE) or not
    VPages,         \* the virtual pages an environment maps
    MaxLive,        \* bound: environments the client has at one time
    MaxPid          \* bound: environments allocated in a behaviour

(* env_init makes the id pools larger than envs[], so that slots are what
   runs out. *)
ASSUME EnvAssumption ==
    /\ DOMAIN_UB \in Nat /\ ASID_UB \in Nat /\ MAX_ENV \in Nat /\ MAX_ENV > 0
    /\ MAX_ENV < DOMAIN_UB /\ MAX_ENV < ASID_UB
    /\ MaxLive \in Nat /\ MaxPid \in Nat
    /\ Clients \subseteq BOOLEAN

VARIABLES
    dom_v, asid_v, env_v,   \* the three pools
    pid_cnt,
    envs,                   \* slot -> [pid, domain, asid, pt]; the pointer
                            \* &envs[-1] is the slot NoId
    curr_env,               \* slot, or NoEnv
    careful,                \* which client it is
    live,                   \* slots the client holds
    pts,                    \* page tables, in order of allocation
    cp15,                   \* [domains, pid, asid, ttbr0, mmu]
    tlb,                    \* set of cached translations
    status                  \* "up" or "panic"

pools == <<dom_v, asid_v, env_v>>
vars == <<pools, pid_cnt, envs, curr_env, careful, live, pts, cp15, tlb, status>>

-----------------------------------------------------------------------------
NoEnv == -2
Slots == 0 .. MAX_ENV - 1
NoEntry == [owner |-> 0, domain |-> 0, nG |-> 0]
EmptyTable == [p \in VPages |-> NoEntry]
ZeroEnv == [pid |-> 0, domain |-> 0, asid |-> 0, pt |-> 0]

(* env_init, after mmu_init emptied the TLB. *)
Init ==
    /\ dom_v = bvec_mk(1, DOMAIN_UB)
    /\ asid_v = bvec_mk(1, ASID_UB)
    /\ env_v = bvec_mk(0, MAX_ENV)
    /\ pid_cnt = 0
    /\ envs = [n \in Slots \cup {NoId} |-> ZeroEnv]
    /\ curr_env = NoEnv
    /\ careful \in Clients
    /\ live = {}
    /\ pts = <<>>
    /\ cp15 = [domains |-> {}, pid |-> 0, asid |-> 0, ttbr0 |-> 0, mmu |-> FALSE]
    /\ tlb = {}
    /\ status = "up"

Up == status = "up"

-----------------------------------------------------------------------------
(* A mutant: allocation reads the top of the pool and leaves it there. *)
PeekDomain == [id |-> bvec_alloc(dom_v).id, left |-> dom_v]
AllocDomain == bvec_alloc(dom_v)

(* env_alloc.  No result of bvec_alloc is looked at: with no slot left the
   pointer is &envs[-1]. *)
env_alloc ==
    LET e == bvec_alloc(env_v)
        d == AllocDomain
        a == bvec_alloc(asid_v)
    IN  /\ Up
        /\ Cardinality(live) < MaxLive /\ pid_cnt < MaxPid
        /\ env_v' = e.left /\ dom_v' = d.left /\ asid_v' = a.left
        /\ pid_cnt' = pid_cnt + 1
        /\ pts' = Append(pts, EmptyTable)
        /\ envs' = [envs EXCEPT ![e.id] =
                      [pid |-> pid_cnt + 1, domain |-> d.id, asid |-> a.id,
                       pt |-> Len(pts) + 1]]
        /\ live' = live \cup {e.id}
        /\ UNCHANGED <<curr_env, careful, cp15, tlb, status>>

(* The pointers env_alloc ever returned. *)
Held == {n \in DOMAIN envs : envs[n] # ZeroEnv}

(* A mutant: the client frees the environment it is running in. *)
ClientFreesAny(n) == n \in live
ClientMayFree(n) ==
    careful => n \in live /\ ~(cp15.mmu /\ curr_env = n)

ClientMaySwitch(n) == careful => n \in live /\ ~cp15.mmu

(* n < MAX_ENV is unsigned: it refuses &envs[-1]. *)
Freeable(n) == /\ n \in Slots
               /\ CanFree(dom_v, DOMAIN_UB - 1, envs[n].domain)
               /\ CanFree(asid_v, ASID_UB - 1, envs[n].asid)
               /\ CanFree(env_v, MAX_ENV, n)

(* env_free.  The page table stays allocated; envs[n], curr_env, the
   coprocessor and the TLB keep what they hold.  A refusal reboots: what the
   pools hold then is of no account. *)
env_free(n) ==
    /\ Up /\ n \in Held /\ ClientMayFree(n)
    /\ \/ /\ Freeable(n)
          /\ dom_v' = bvec_free(dom_v, envs[n].domain)
          /\ asid_v' = bvec_free(asid_v, envs[n].asid)
          /\ env_v' = bvec_free(env_v, n)
          /\ live' = live \ {n}
          /\ UNCHANGED status
       \/ /\ ~Freeable(n)
          /\ status' = "panic"
          /\ UNCHANGED <<pools, live>>
    /\ UNCHANGED <<pid_cnt, envs, curr_env, careful, pts, cp15, tlb>>

(* A mutant: every domain is opened, the write of ~0 that line 73 has in a
   comment. *)
AllDomains(e) == 0 .. 15
DomainReg(e) == {e.domain}

(* env_switch_to: the domain register, the process id, asid and table base,
   then mmu_enable, which asserts that the MMU is off.  The two assertions on
   the process id read back what was just written. *)
env_switch_to(n) ==
    /\ Up /\ n \in Held /\ ClientMaySwitch(n)
    /\ cp15' = [domains |-> DomainReg(envs[n]), pid |-> envs[n].pid,
                asid |-> envs[n].asid, ttbr0 |-> envs[n].pt, mmu |-> TRUE]
    /\ curr_env' = n
    /\ status' = IF cp15.mmu THEN "panic" ELSE "up"
    /\ UNCHANGED <<pools, pid_cnt, envs, careful, live, pts, tlb>>

(* mmu_disable asserts that the MMU is on and leaves the TLB alone. *)
mmu_disable ==
    /\ Up /\ (careful => cp15.mmu)
    /\ cp15' = [cp15 EXCEPT !.mmu = FALSE]
    /\ status' = IF cp15.mmu THEN "up" ELSE "panic"
    /\ UNCHANGED <<pools, pid_cnt, envs, curr_env, careful, live, pts, tlb>>

(* The client maps a page it has not mapped into the table of an environment,
   in that environment's domain, to a frame of that environment; the frame is
   named by its owner's pid.  (mmu_map_sm_page, whose collisions PageTable
   models.) *)
MapPage(n, p, nG) ==
    /\ Up /\ n \in live
    /\ pts[envs[n].pt][p] = NoEntry
    /\ pts' = [pts EXCEPT ![envs[n].pt][p] =
                  [owner |-> envs[n].pid, domain |-> envs[n].domain, nG |-> nG]]
    /\ UNCHANGED <<pools, pid_cnt, envs, curr_env, careful, live, cp15, tlb, status>>

-----------------------------------------------------------------------------
(* The hardware.  An entry matches a page when it is global, or was cached
   under the asid that is loaded now. *)
Matches(t, p) == t.page = p /\ (t.nG = 0 \/ t.asid = cp15.asid)

(* A miss walks the table TTBR0 points at and caches what it finds, whatever
   the domain: access is checked when an entry is used. *)
WalkFill(p) ==
    /\ Up /\ cp15.mmu
    /\ ~\E t \in tlb : Matches(t, p)
    /\ pts[cp15.ttbr0][p] # NoEntry
    /\ LET e == pts[cp15.ttbr0][p]
       IN  tlb' = tlb \cup {[page |-> p, owner |-> e.owner, domain |-> e.domain,
                             nG |-> e.nG, asid |-> cp15.asid]}
    /\ UNCHANGED <<pools, pid_cnt, envs, curr_env, careful, live, pts, cp15, status>>

(* An entry may be evicted at any time. *)
Evict(t) ==
    /\ Up
    /\ tlb' = tlb \ {t}
    /\ UNCHANGED <<pools, pid_cnt, envs, curr_env, careful, live, pts, cp15, status>>

Next ==
    \/ env_alloc
    \/ \E n \in Held : env_free(n) \/ env_switch_to(n)
    \/ mmu_disable
    \/ \E n \in live, p \in VPages, nG \in 0 .. 1 : MapPage(n, p, nG)
    \/ \E p \in VPages : WalkFill(p)
    \/ \E t \in tlb : Evict(t)

Spec == Init /\ [][Next]_vars

-----------------------------------------------------------------------------
(* Every slot, domain and asid is either free or held by exactly one live
   environment: nothing is lost, nothing is handed out twice. *)
IdsPartitioned ==
    /\ Free(env_v) = Slots \ live
    /\ Free(dom_v) = (1 .. DOMAIN_UB - 1) \ {envs[n].domain : n \in live}
    /\ Free(asid_v) = (1 .. ASID_UB - 1) \ {envs[n].asid : n \in live}
    /\ \A m, n \in live : m # n => /\ envs[m].domain # envs[n].domain
                                   /\ envs[m].asid # envs[n].asid
    /\ \A b \in {env_v, dom_v, asid_v} : \A i, j \in 1 .. Len(b) :
          b[i] = b[j] => i = j

(* A careful client never makes bvec_free, mmu_enable or mmu_disable panic. *)
NeverPanics == careful => status = "up"

(* The environment the hardware runs is the one curr_env names, which is
   where handle_page_miss adds a page. *)
CurrentIsLoaded ==
    (careful /\ cp15.mmu) =>
                /\ curr_env \in live
                /\ cp15.ttbr0 = envs[curr_env].pt
                /\ cp15.asid = envs[curr_env].asid
                /\ cp15.pid = envs[curr_env].pid

(* What the running program can reach through the TLB. *)
Usable(t) == cp15.mmu /\ Matches(t, t.page) /\ t.domain \in cp15.domains

(* The running environment never reaches a frame of another environment that
   is still live, although global entries of the others stay in the TLB
   across switches: the domain register is what keeps them apart. *)
NoLiveForeignFrame ==
    careful => \A t \in tlb : Usable(t) =>
        \A n \in live : n # curr_env => envs[n].pid # t.owner

(* Nor a frame of any other environment, dead or alive. *)
NoForeignFrame == \A t \in tlb : Usable(t) => t.owner = cp15.pid
=============================================================================
