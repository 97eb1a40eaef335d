----------------------------- MODULE EnvProofs -----------------------------
(***************************************************************************)
(* Proofs about Env, for every size of the pools and of envs[] and for     *)
(* both clients, as long as the client never holds more environments than  *)
(* envs[] has slots: no identifier is lost or handed out twice, the        *)
(* environment that runs reaches no frame of another live environment, and *)
(* a careful client never panics the kernel.                               *)
(***************************************************************************)
EXTENDS Env, FiniteSetTheorems, SequenceTheorems, TLAPS

Injective(b) == \A i, j \in 1 .. Len(b) : b[i] = b[j] => i = j

-----------------------------------------------------------------------------
(* The pool functions on a pool without duplicates. *)

LEMMA MakeFacts ==
    ASSUME NEW lb \in Nat, NEW ub \in Nat, lb < ub
    PROVE  /\ bvec_mk(lb, ub) \in Seq(lb .. ub - 1)
           /\ Injective(bvec_mk(lb, ub))
           /\ Free(bvec_mk(lb, ub)) = lb .. ub - 1
<1> DEFINE b == bvec_mk(lb, ub)
<1>1. b = [i \in 1 .. ub - lb |-> ub - i]
  BY DEF bvec_mk
<1>2. ub - lb \in Nat
  OBVIOUS
<1>3. \A i \in 1 .. ub - lb : ub - i \in lb .. ub - 1
  OBVIOUS
<1>4. b \in Seq(lb .. ub - 1) /\ Len(b) = ub - lb
  BY <1>1, <1>2, <1>3
<1>5. \A i \in 1 .. Len(b) : b[i] = ub - i
  BY <1>1, <1>4
<1>6. Injective(b)
  BY <1>4, <1>5 DEF Injective
<1>7. ASSUME NEW x \in lb .. ub - 1 PROVE \E i \in 1 .. Len(b) : b[i] = x
  <2>1. ub - x \in 1 .. Len(b) /\ b[ub - x] = x
    BY <1>4, <1>5
  <2> QED BY <2>1
<1>8. Free(b) = lb .. ub - 1
  BY <1>3, <1>4, <1>5, <1>7 DEF Free
<1> QED BY <1>4, <1>6, <1>8

LEMMA AllocFacts ==
    ASSUME NEW S, NEW b \in Seq(S), b # <<>>, Injective(b)
    PROVE  LET r == bvec_alloc(b)
           IN  /\ r.id \in S /\ r.id \in Free(b)
               /\ r.left \in Seq(S)
               /\ Injective(r.left)
               /\ Free(r.left) = Free(b) \ {r.id}
<1> DEFINE r == bvec_alloc(b)
           n == Len(b)
<1>1. n \in Nat /\ n > 0 /\ b \in [1 .. n -> S]
  OBVIOUS
<1>2. r.id = b[n] /\ r.left = SubSeq(b, 1, n - 1)
  BY DEF bvec_alloc
<1>3. r.left = [i \in 1 .. n - 1 |-> b[i]] /\ Len(r.left) = n - 1
  BY <1>1, <1>2
<1>4. r.left \in Seq(S)
  BY <1>1, <1>3
<1>5. \A i \in 1 .. n - 1 : r.left[i] = b[i]
  BY <1>3
<1>6. r.id \in S /\ r.id \in Free(b)
  BY <1>1, <1>2 DEF Free
<1>7. Injective(r.left)
  BY <1>1, <1>3, <1>5 DEF Injective
<1>8. \A i \in 1 .. n - 1 : b[i] # b[n]
  BY <1>1 DEF Injective
<1>9. \A k \in Nat : \A i \in 1 .. k : i = k \/ i \in 1 .. k - 1
  OBVIOUS
<1>10. Free(r.left) = {b[i] : i \in 1 .. n - 1}
  BY <1>3, <1>5 DEF Free
<1>11. Free(r.left) = Free(b) \ {r.id}
  <2>1. n \in 1 .. n /\ \A i \in 1 .. n - 1 : i \in 1 .. n
    BY <1>1
  <2>2. \A i \in 1 .. n : i = n \/ i \in 1 .. n - 1
    BY <1>1, <1>9
  <2> QED BY <1>2, <1>8, <1>10, <2>1, <2>2 DEF Free
<1> QED BY <1>4, <1>6, <1>7, <1>11

LEMMA FreeFacts ==
    ASSUME NEW S, NEW b \in Seq(S), NEW x \in S, x \notin Free(b), Injective(b)
    PROVE  /\ bvec_free(b, x) \in Seq(S)
           /\ Injective(bvec_free(b, x))
           /\ Free(bvec_free(b, x)) = Free(b) \cup {x}
<1> DEFINE c == bvec_free(b, x)
           n == Len(b)
<1>1. n \in Nat /\ b \in [1 .. n -> S]
  OBVIOUS
<1> HIDE DEF c
<1>0. c = Append(b, x)
  BY DEF c, bvec_free
<1>2. c \in Seq(S) /\ Len(c) = n + 1 /\ c[n + 1] = x
  BY <1>0, AppendProperties
<1>3. \A i \in 1 .. n : c[i] = b[i]
  BY <1>0, AppendProperties
<1>4. \A i \in 1 .. n : b[i] # x
  BY DEF Free
<1>5. \A i \in 1 .. n + 1 : i = n + 1 \/ i \in 1 .. n
  BY <1>1
<1>6. Injective(c)
  BY <1>1, <1>2, <1>3, <1>4, <1>5 DEF Injective
<1>7. Free(c) = Free(b) \cup {x}
  BY <1>1, <1>2, <1>3, <1>5 DEF Free
<1> QED BY <1>2, <1>6, <1>7 DEF c

Spare(S, L, f) == \E x \in S : \A n \in L : f[n] # x

(* A finite set larger than L is not used up by one element for each of L. *)
LEMMA SpareIdent ==
    ASSUME NEW S, NEW L, IsFiniteSet(L), Cardinality(L) < Cardinality(S),
           NEW f \in [L -> S]
    PROVE  Spare(S, L, f)
<1> DEFINE T == {f[n] : n \in L}
<1>1. T \subseteq S
  OBVIOUS
<1>2. f \in Surjection(L, T)
  BY DEF Surjection
<1>3. IsFiniteSet(T) /\ Cardinality(T) <= Cardinality(L)
  BY <1>2, FS_Surjection
<1>4. Cardinality(L) \in Nat /\ Cardinality(T) \in Nat
  BY <1>3, FS_CardinalityType
<1> HIDE DEF T
<1>5. T # S
  BY <1>3, <1>4
<1>6. \E x \in S : x \notin T
  BY <1>1, <1>5
<1> QED BY <1>6 DEF T, Spare

-----------------------------------------------------------------------------
(* The inductive invariant.  The pools and the identifiers of the live
   environments: *)
Tables == [VPages -> [owner : Nat, domain : Int, nG : 0 .. 1]]

Typed ==
    /\ pts \in Seq(Tables)
    /\ pid_cnt \in Nat
    /\ envs \in [Slots \cup {NoId} ->
                   [pid : Nat, domain : Int, asid : Int, pt : Nat]]
    /\ live \subseteq Slots
    /\ dom_v \in Seq(1 .. DOMAIN_UB - 1)
    /\ asid_v \in Seq(1 .. ASID_UB - 1)
    /\ env_v \in Seq(Slots)

PoolsExact ==
    /\ Free(env_v) = Slots \ live
    /\ Free(dom_v) = (1 .. DOMAIN_UB - 1) \ {envs[n].domain : n \in live}
    /\ Free(asid_v) = (1 .. ASID_UB - 1) \ {envs[n].asid : n \in live}
    /\ Injective(env_v) /\ Injective(dom_v) /\ Injective(asid_v)

IdsDistinct ==
    /\ \A n \in live : /\ envs[n].domain \in 1 .. DOMAIN_UB - 1
                        /\ envs[n].asid \in 1 .. ASID_UB - 1
    /\ \A m, n \in live : m # n => /\ envs[m].domain # envs[n].domain
                                   /\ envs[m].asid # envs[n].asid

IdInv == Typed /\ PoolsExact /\ IdsDistinct

LEMMA EmptyPool == Free(<<>>) = {}
<1>1. Len(<<>>) = 0 /\ 1 .. 0 = {}
  OBVIOUS
<1> QED BY <1>1 DEF Free

LEMMA LiveFinite ==
    ASSUME Typed
    PROVE  IsFiniteSet(live) /\ Cardinality(live) \in Nat
<1>0. MAX_ENV - 1 \in Int
  BY EnvAssumption
<1>1. IsFiniteSet(Slots)
  BY <1>0, FS_Interval DEF Slots
<1>2. IsFiniteSet(live)
  BY <1>1, FS_Subset DEF Typed
<1> QED BY <1>2, FS_CardinalityType

LEMMA PoolsLeft ==
    ASSUME IdInv, Cardinality(live) < MAX_ENV
    PROVE  dom_v # <<>> /\ asid_v # <<>> /\ env_v # <<>>
<1>1. IsFiniteSet(live) /\ Cardinality(live) \in Nat
  BY LiveFinite DEF IdInv
<1>0. /\ Cardinality(0 .. MAX_ENV - 1) = MAX_ENV
      /\ Cardinality(1 .. DOMAIN_UB - 1) = DOMAIN_UB - 1
      /\ Cardinality(1 .. ASID_UB - 1) = ASID_UB - 1
  <2>1. PICK m \in Nat, p \in Nat, q \in Nat :
           /\ m = MAX_ENV - 1 /\ p = DOMAIN_UB - 1 /\ q = ASID_UB - 1
           /\ m + 1 = MAX_ENV
    BY EnvAssumption
  <2>2. /\ Cardinality(0 .. m) = m + 1 /\ Cardinality(1 .. p) = p
        /\ Cardinality(1 .. q) = q
    BY FS_Interval
  <2> QED BY <2>1, <2>2, EnvAssumption
<1>5. /\ Cardinality(live) < Cardinality(0 .. MAX_ENV - 1)
      /\ Cardinality(live) < Cardinality(1 .. DOMAIN_UB - 1)
      /\ Cardinality(live) < Cardinality(1 .. ASID_UB - 1)
  BY <1>0, <1>1, EnvAssumption
<1>2. env_v # <<>>
  <2> DEFINE f == [n \in live |-> n]
  <2>1. f \in [live -> 0 .. MAX_ENV - 1]
    BY DEF IdInv, Typed, Slots
  <2>4. \A n \in live : f[n] = n
    OBVIOUS
  <2> HIDE DEF f
  <2>5. Spare(0 .. MAX_ENV - 1, live, f)
    BY <1>1, <1>5, <2>1, SpareIdent, Zenon
  <2>2. PICK x \in 0 .. MAX_ENV - 1 : \A n \in live : f[n] # x
    BY <2>5 DEF Spare
  <2>3. x \in Free(env_v)
    BY <2>2, <2>4 DEF IdInv, PoolsExact, Slots
  <2> QED BY <2>3, EmptyPool
<1>3. dom_v # <<>>
  <2> DEFINE f == [n \in live |-> envs[n].domain]
  <2>1. f \in [live -> 1 .. DOMAIN_UB - 1]
    BY DEF IdInv, IdsDistinct
  <2>4. \A n \in live : f[n] = envs[n].domain
    OBVIOUS
  <2> HIDE DEF f
  <2>5. Spare(1 .. DOMAIN_UB - 1, live, f)
    BY <1>1, <1>5, <2>1, SpareIdent, Zenon
  <2>2. PICK x \in 1 .. DOMAIN_UB - 1 : \A n \in live : f[n] # x
    BY <2>5 DEF Spare
  <2>3. x \in Free(dom_v)
    BY <2>2, <2>4 DEF IdInv, PoolsExact
  <2> QED BY <2>3, EmptyPool
<1>4. asid_v # <<>>
  <2> DEFINE f == [n \in live |-> envs[n].asid]
  <2>1. f \in [live -> 1 .. ASID_UB - 1]
    BY DEF IdInv, IdsDistinct
  <2>4. \A n \in live : f[n] = envs[n].asid
    OBVIOUS
  <2> HIDE DEF f
  <2>5. Spare(1 .. ASID_UB - 1, live, f)
    BY <1>1, <1>5, <2>1, SpareIdent, Zenon
  <2>2. PICK x \in 1 .. ASID_UB - 1 : \A n \in live : f[n] # x
    BY <2>5 DEF Spare
  <2>3. x \in Free(asid_v)
    BY <2>2, <2>4 DEF IdInv, PoolsExact
  <2> QED BY <2>3, EmptyPool
<1> QED BY <1>2, <1>3, <1>4

-----------------------------------------------------------------------------
(* The client's side of the bargain: it holds at most MAX_ENV environments. *)
FitsEnvs == MaxLive <= MAX_ENV

LEMMA IdInit == Init => IdInv
<1> SUFFICES ASSUME Init PROVE IdInv
  OBVIOUS
<1> USE EnvAssumption
<1>1. /\ env_v \in Seq(Slots) /\ Injective(env_v) /\ Free(env_v) = Slots
  BY MakeFacts DEF Init, Slots
<1>2. /\ dom_v \in Seq(1 .. DOMAIN_UB - 1) /\ Injective(dom_v)
      /\ Free(dom_v) = 1 .. DOMAIN_UB - 1
  <2>1. 1 \in Nat /\ 1 < DOMAIN_UB
    OBVIOUS
  <2> QED BY <2>1, MakeFacts DEF Init
<1>3. /\ asid_v \in Seq(1 .. ASID_UB - 1) /\ Injective(asid_v)
      /\ Free(asid_v) = 1 .. ASID_UB - 1
  <2>1. 1 \in Nat /\ 1 < ASID_UB
    OBVIOUS
  <2> QED BY <2>1, MakeFacts DEF Init
<1>4. live = {} /\ pid_cnt = 0
      /\ envs = [n \in Slots \cup {NoId} |-> ZeroEnv]
  BY DEF Init
<1>5. Typed
  BY <1>1, <1>2, <1>3, <1>4 DEF Init, Typed, ZeroEnv
<1>6. PoolsExact
  BY <1>1, <1>2, <1>3, <1>4 DEF PoolsExact
<1>7. IdsDistinct
  BY <1>4 DEF IdsDistinct
<1> QED BY <1>5, <1>6, <1>7 DEF IdInv

(* What env_alloc hands out is free, and the environment it makes is held by
   nobody. *)
LEMMA AllocGives ==
    ASSUME FitsEnvs, IdInv, env_alloc
    PROVE  \E n \in Slots \ live :
             \E d \in (1 .. DOMAIN_UB - 1) \ {envs[m].domain : m \in live} :
               \E a \in (1 .. ASID_UB - 1) \ {envs[m].asid : m \in live} :
                 /\ Free(env_v') = Free(env_v) \ {n}
                 /\ Free(dom_v') = Free(dom_v) \ {d}
                 /\ Free(asid_v') = Free(asid_v) \ {a}
                 /\ env_v' \in Seq(Slots) /\ Injective(env_v')
                 /\ dom_v' \in Seq(1 .. DOMAIN_UB - 1) /\ Injective(dom_v')
                 /\ asid_v' \in Seq(1 .. ASID_UB - 1) /\ Injective(asid_v')
                 /\ live' = live \cup {n}
                 /\ envs' = [envs EXCEPT ![n] =
                               [pid |-> pid_cnt + 1, domain |-> d, asid |-> a,
                                pt |-> Len(pts) + 1]]
<1> DEFINE e == bvec_alloc(env_v)
           d == bvec_alloc(dom_v)
           a == bvec_alloc(asid_v)
<1>1. Cardinality(live) < MAX_ENV
  <2>1. IsFiniteSet(live) /\ Cardinality(live) \in Nat
    BY LiveFinite DEF IdInv
  <2>2. Cardinality(live) < MaxLive
    BY DEF env_alloc
  <2> QED BY <2>1, <2>2, EnvAssumption DEF FitsEnvs
<1>2. dom_v # <<>> /\ asid_v # <<>> /\ env_v # <<>>
  BY <1>1, PoolsLeft
<1>3. /\ env_v' = e.left /\ dom_v' = d.left /\ asid_v' = a.left
      /\ live' = live \cup {e.id}
      /\ envs' = [envs EXCEPT ![e.id] =
                    [pid |-> pid_cnt + 1, domain |-> d.id, asid |-> a.id,
                     pt |-> Len(pts) + 1]]
  BY DEF env_alloc, AllocDomain
<1>4. /\ e.id \in Slots \ live /\ e.left \in Seq(Slots) /\ Injective(e.left)
      /\ Free(e.left) = Free(env_v) \ {e.id}
  <2>1. env_v \in Seq(Slots) /\ Injective(env_v) /\ Free(env_v) = Slots \ live
    BY DEF IdInv, Typed, PoolsExact
  <2> QED BY <1>2, <2>1, AllocFacts
<1>5. /\ d.id \in (1 .. DOMAIN_UB - 1) \ {envs[m].domain : m \in live}
      /\ d.left \in Seq(1 .. DOMAIN_UB - 1) /\ Injective(d.left)
      /\ Free(d.left) = Free(dom_v) \ {d.id}
  <2>1. /\ dom_v \in Seq(1 .. DOMAIN_UB - 1) /\ Injective(dom_v)
        /\ Free(dom_v) = (1 .. DOMAIN_UB - 1) \ {envs[m].domain : m \in live}
    BY DEF IdInv, Typed, PoolsExact
  <2> QED BY <1>2, <2>1, AllocFacts
<1>6. /\ a.id \in (1 .. ASID_UB - 1) \ {envs[m].asid : m \in live}
      /\ a.left \in Seq(1 .. ASID_UB - 1) /\ Injective(a.left)
      /\ Free(a.left) = Free(asid_v) \ {a.id}
  <2>1. /\ asid_v \in Seq(1 .. ASID_UB - 1) /\ Injective(asid_v)
        /\ Free(asid_v) = (1 .. ASID_UB - 1) \ {envs[m].asid : m \in live}
    BY DEF IdInv, Typed, PoolsExact
  <2> QED BY <1>2, <2>1, AllocFacts
<1> HIDE DEF e, d, a
<1> QED BY <1>3, <1>4, <1>5, <1>6

LEMMA AllocKeeps ==
    ASSUME FitsEnvs, IdInv, env_alloc
    PROVE  IdInv'
<1>1. PICK n \in Slots \ live,
           d \in (1 .. DOMAIN_UB - 1) \ {envs[m].domain : m \in live},
           a \in (1 .. ASID_UB - 1) \ {envs[m].asid : m \in live} :
             /\ Free(env_v') = Free(env_v) \ {n}
             /\ Free(dom_v') = Free(dom_v) \ {d}
             /\ Free(asid_v') = Free(asid_v) \ {a}
             /\ env_v' \in Seq(Slots) /\ Injective(env_v')
             /\ dom_v' \in Seq(1 .. DOMAIN_UB - 1) /\ Injective(dom_v')
             /\ asid_v' \in Seq(1 .. ASID_UB - 1) /\ Injective(asid_v')
             /\ live' = live \cup {n}
             /\ envs' = [envs EXCEPT ![n] =
                           [pid |-> pid_cnt + 1, domain |-> d, asid |-> a,
                            pt |-> Len(pts) + 1]]
  BY AllocGives
<1>2. pid_cnt' = pid_cnt + 1 /\ Len(pts) + 1 \in Nat /\ pts' \in Seq(Tables)
  <2>1. EmptyTable \in Tables
    BY DEF EmptyTable, NoEntry, Tables
  <2>2. pts \in Seq(Tables) /\ pts' = Append(pts, EmptyTable)
    BY DEF env_alloc, IdInv, Typed
  <2>3. pts' \in Seq(Tables)
    BY <2>1, <2>2, AppendProperties
  <2> QED BY <2>2, <2>3, LenProperties DEF env_alloc
<1>3. Typed'
  <2>1. envs' \in [Slots \cup {NoId} ->
                     [pid : Nat, domain : Int, asid : Int, pt : Nat]]
    <3> DEFINE rec == [pid |-> pid_cnt + 1, domain |-> d, asid |-> a, pt |-> Len(pts) + 1]
    <3>1. rec \in [pid : Nat, domain : Int, asid : Int, pt : Nat]
      BY <1>1, <1>2 DEF IdInv, Typed
    <3>2. envs' = [envs EXCEPT ![n] = rec]
      BY <1>1
    <3> HIDE DEF rec
    <3> QED BY <3>1, <3>2 DEF IdInv, Typed
  <2>2. pid_cnt' \in Nat /\ live' \subseteq Slots
    BY <1>1, <1>2 DEF IdInv, Typed
  <2> QED BY <1>1, <1>2, <2>1, <2>2 DEF Typed
<1>4. /\ envs'[n].domain = d /\ envs'[n].asid = a
      /\ \A m \in live : envs'[m] = envs[m]
  BY <1>1 DEF IdInv, Typed
<1>5. /\ {envs'[m].domain : m \in live'} = {envs[m].domain : m \in live} \cup {d}
      /\ {envs'[m].asid : m \in live'} = {envs[m].asid : m \in live} \cup {a}
  BY <1>1, <1>4
<1>6. PoolsExact'
  BY <1>1, <1>5 DEF IdInv, PoolsExact
<1>7. IdsDistinct'
  BY <1>1, <1>4 DEF IdInv, IdsDistinct
<1> QED BY <1>3, <1>6, <1>7 DEF IdInv

LEMMA FreeKeeps ==
    ASSUME IdInv, NEW n \in Held, env_free(n)
    PROVE  IdInv'
<1>1. /\ pid_cnt' = pid_cnt /\ envs' = envs /\ pts' = pts
      /\ n \in Slots \cup {NoId}
  BY DEF env_free, Held, IdInv, Typed
<1>2. CASE UNCHANGED <<pools, live>>
  BY <1>1, <1>2 DEF IdInv, Typed, PoolsExact, IdsDistinct, pools
<1>3. CASE ~UNCHANGED <<pools, live>>
  <2> DEFINE d == envs[n].domain
             a == envs[n].asid
  <2>1. /\ Freeable(n) /\ live' = live \ {n}
        /\ dom_v' = bvec_free(dom_v, d) /\ asid_v' = bvec_free(asid_v, a)
        /\ env_v' = bvec_free(env_v, n)
    BY <1>3 DEF env_free
  <2>2. /\ n \in Slots
        /\ n \notin Free(env_v) /\ d \notin Free(dom_v) /\ a \notin Free(asid_v)
    BY <2>1 DEF Freeable, CanFree, Free
  <2>3. n \in live
    BY <2>2 DEF IdInv, PoolsExact
  <2>4. d \in 1 .. DOMAIN_UB - 1 /\ a \in 1 .. ASID_UB - 1
    BY <2>3 DEF IdInv, IdsDistinct
  <2>12. /\ {envs[m].domain : m \in live \ {n}} = {envs[m].domain : m \in live} \ {d}
         /\ {envs[m].asid : m \in live \ {n}} = {envs[m].asid : m \in live} \ {a}
    <3>1. \A m \in live \ {n} : envs[m].domain # d /\ envs[m].asid # a
      BY <2>3 DEF IdInv, IdsDistinct
    <3> QED BY <2>3, <3>1
  <2>13. /\ dom_v \in Seq(1 .. DOMAIN_UB - 1) /\ Injective(dom_v)
         /\ asid_v \in Seq(1 .. ASID_UB - 1) /\ Injective(asid_v)
    BY DEF IdInv, Typed, PoolsExact
  <2> HIDE DEF d, a
  <2>5. /\ env_v' \in Seq(Slots) /\ Injective(env_v')
        /\ Free(env_v') = Free(env_v) \cup {n}
    <3>1. env_v \in Seq(Slots) /\ Injective(env_v)
      BY DEF IdInv, Typed, PoolsExact
    <3>2. env_v' = bvec_free(env_v, n) /\ n \in Slots /\ n \notin Free(env_v)
      BY <2>1, <2>2
    <3> QED BY <3>1, <3>2, FreeFacts
  <2>6. /\ dom_v' \in Seq(1 .. DOMAIN_UB - 1) /\ Injective(dom_v')
        /\ Free(dom_v') = Free(dom_v) \cup {d}
    <3> DEFINE S == 1 .. DOMAIN_UB - 1
    <3>1. dom_v \in Seq(S) /\ d \in S
      BY <2>4, <2>13
    <3>2. d \notin Free(dom_v) /\ Injective(dom_v)
      BY <2>2, <2>13
    <3> HIDE DEF S
    <3>3. /\ bvec_free(dom_v, d) \in Seq(S)
          /\ Injective(bvec_free(dom_v, d))
          /\ Free(bvec_free(dom_v, d)) = Free(dom_v) \cup {d}
      BY <3>1, <3>2, FreeFacts
    <3> QED BY <2>1, <3>3, Zenon DEF S
  <2>7. /\ asid_v' \in Seq(1 .. ASID_UB - 1) /\ Injective(asid_v')
        /\ Free(asid_v') = Free(asid_v) \cup {a}
    <3> DEFINE S == 1 .. ASID_UB - 1
    <3>1. asid_v \in Seq(S) /\ a \in S
      BY <2>4, <2>13
    <3>2. a \notin Free(asid_v) /\ Injective(asid_v)
      BY <2>2, <2>13
    <3> HIDE DEF S
    <3>3. /\ bvec_free(asid_v, a) \in Seq(S)
          /\ Injective(bvec_free(asid_v, a))
          /\ Free(bvec_free(asid_v, a)) = Free(asid_v) \cup {a}
      BY <3>1, <3>2, FreeFacts
    <3> QED BY <2>1, <3>3, Zenon DEF S
  <2>8. Typed'
    BY <1>1, <2>1, <2>5, <2>6, <2>7 DEF IdInv, Typed
  <2>10. PoolsExact'
    <3>1. \A X, Y : \A y \in Y : (Y \ X) \cup {y} = Y \ (X \ {y})
      OBVIOUS
    <3>5. {envs'[m].asid : m \in live'} = {envs[m].asid : m \in live} \ {a}
      BY <1>1, <2>1, <2>12
    <3>2. Free(env_v') = Slots \ live'
      BY <2>1, <2>2, <2>3, <2>5, <3>1 DEF IdInv, PoolsExact
    <3>6. {envs'[m].domain : m \in live'} = {envs[m].domain : m \in live} \ {d}
      BY <1>1, <2>1, <2>12
    <3>3. Free(dom_v') = (1 .. DOMAIN_UB - 1) \ {envs'[m].domain : m \in live'}
      BY <2>3, <2>4, <2>6, <3>6 DEF IdInv, PoolsExact, d
    <3>4. Free(asid_v') = (1 .. ASID_UB - 1) \ {envs'[m].asid : m \in live'}
      BY <2>3, <2>4, <2>7, <3>5 DEF IdInv, PoolsExact, d, a
    <3> QED BY <2>5, <2>6, <2>7, <3>2, <3>3, <3>4 DEF PoolsExact
  <2>11. IdsDistinct'
    BY <1>1, <2>1 DEF IdInv, IdsDistinct
  <2> QED BY <2>8, <2>10, <2>11 DEF IdInv
<1> QED BY <1>2, <1>3

LEMMA MapKeepsTyped ==
    ASSUME Typed, NEW n \in live, NEW p \in VPages, NEW nG \in 0 .. 1,
           MapPage(n, p, nG), envs[n].domain \in Int
    PROVE  pts' \in Seq(Tables) /\ Len(pts') = Len(pts)
<1> DEFINE i == envs[n].pt
           v == [owner |-> envs[n].pid, domain |-> envs[n].domain, nG |-> nG]
<1>1. n \in Slots /\ v \in [owner : Nat, domain : Int, nG : 0 .. 1]
  BY DEF Typed
<1>2. pts' = [pts EXCEPT ![i] = [pts[i] EXCEPT ![p] = v]]
  BY DEF MapPage
<1>3. CASE i \in 1 .. Len(pts)
  <2>1. pts[i] \in Tables
    BY <1>3 DEF Typed
  <2>2. [pts[i] EXCEPT ![p] = v] \in Tables
    BY <1>1, <2>1 DEF Tables
  <2> HIDE DEF i, v
  <2> QED BY <1>2, <1>3, <2>2, ExceptSeq DEF Typed
<1>4. CASE i \notin 1 .. Len(pts)
  <2>1. DOMAIN pts = 1 .. Len(pts)
    BY DEF Typed
  <2> HIDE DEF i, v
  <2>2. pts' = pts
    BY <1>2, <1>4, <2>1 DEF Typed
  <2> QED BY <2>2 DEF Typed
<1> QED BY <1>3, <1>4

LEMMA IdNext == FitsEnvs /\ IdInv /\ [Next]_vars => IdInv'
<1> SUFFICES ASSUME FitsEnvs, IdInv, [Next]_vars PROVE IdInv'
  OBVIOUS
<1> DEFINE Same == UNCHANGED <<pools, pid_cnt, envs, live>>
<1>1. ASSUME Same, pts' \in Seq(Tables) PROVE IdInv'
  BY <1>1 DEF IdInv, Typed, PoolsExact, IdsDistinct, pools
<1>2. ASSUME Same, pts' = pts PROVE IdInv'
  BY <1>1, <1>2 DEF IdInv, Typed
<1>3. CASE env_alloc
  BY <1>3, AllocKeeps
<1>4. ASSUME NEW n \in Held, env_free(n) PROVE IdInv'
  BY <1>4, FreeKeeps
<1>5. ASSUME NEW n \in Held, env_switch_to(n) PROVE IdInv'
  BY <1>2, <1>5 DEF env_switch_to
<1>6. CASE mmu_disable
  BY <1>2, <1>6 DEF mmu_disable
<1>7. ASSUME NEW n \in live, NEW p \in VPages, NEW nG \in 0 .. 1, MapPage(n, p, nG)
      PROVE  IdInv'
  <2>1. Typed /\ envs[n].domain \in Int
    BY DEF IdInv, IdsDistinct
  <2>2. pts' \in Seq(Tables)
    BY <1>7, <2>1, MapKeepsTyped
  <2> QED BY <1>1, <1>7, <2>2 DEF MapPage
<1>8. ASSUME NEW p \in VPages, WalkFill(p) PROVE IdInv'
  BY <1>2, <1>8 DEF WalkFill
<1>9. ASSUME NEW t \in tlb, Evict(t) PROVE IdInv'
  BY <1>2, <1>9 DEF Evict
<1>10. CASE UNCHANGED vars
  BY <1>2, <1>10 DEF vars
<1> QED BY <1>3, <1>4, <1>5, <1>6, <1>7, <1>8, <1>9, <1>10 DEF Next

LEMMA IdInvImplies == IdInv => IdsPartitioned
  BY DEF IdInv, PoolsExact, IdsDistinct, IdsPartitioned, Injective

(* As long as the client holds at most MAX_ENV environments, whatever else it
   does with the pointers it was given, every slot, domain and asid is free
   or held by exactly one live environment (bvec_alloc and bvec_free). *)
THEOREM IdsPartitionedAlways == FitsEnvs /\ Spec => []IdsPartitioned
<1> SUFFICES ASSUME FitsEnvs PROVE Spec => []IdsPartitioned
  OBVIOUS
<1>1. IdInv /\ [Next]_vars => IdInv'
  BY IdNext
<1> QED BY <1>1, IdInit, IdInvImplies, PTL DEF Spec


-----------------------------------------------------------------------------
(* Isolation.  Every entry of a table or of the TLB that names a frame of a
   live environment carries the domain of that environment; domains of live
   environments differ; and the register opens the domain of the running one
   only. *)
CP15 == [domains : SUBSET Int, pid : Nat, asid : Int, ttbr0 : Nat, mmu : BOOLEAN]

DomainFits(e) == /\ e.owner <= pid_cnt
                 /\ \A n \in live : envs[n].pid = e.owner
                                      => envs[n].domain = e.domain

PidsDistinct ==
    /\ \A n \in live : envs[n].pid \in 1 .. pid_cnt
    /\ \A m, n \in live : m # n => envs[m].pid # envs[n].pid

TablesKnown == \A n \in Held : envs[n].pt \in 1 .. Len(pts)

EntriesFit ==
    /\ \A i \in 1 .. Len(pts) : \A p \in VPages : DomainFits(pts[i][p])
    /\ \A t \in tlb : t.owner \in Nat /\ DomainFits(t)

Running ==
    cp15.mmu => /\ cp15.ttbr0 \in 1 .. Len(pts)
                /\ careful => /\ curr_env \in live
                              /\ cp15.domains = {envs[curr_env].domain}
                              /\ cp15.ttbr0 = envs[curr_env].pt
                              /\ cp15.asid = envs[curr_env].asid
                              /\ cp15.pid = envs[curr_env].pid

IsoInv == /\ IdInv /\ cp15 \in CP15
          /\ PidsDistinct /\ TablesKnown /\ EntriesFit /\ Running

LEMMA IsoInit == Init => IsoInv
<1> SUFFICES ASSUME Init PROVE IsoInv
  OBVIOUS
<1>1. IdInv
  BY IdInit
<1>2. /\ live = {} /\ tlb = {} /\ pts = <<>> /\ Held = {}
      /\ cp15.mmu = FALSE /\ cp15 \in CP15
  BY DEF Init, Held, CP15, ZeroEnv
<1>3. PidsDistinct /\ TablesKnown /\ Running
  BY <1>2 DEF PidsDistinct, TablesKnown, Running
<1>4. EntriesFit
  <2>1. Len(pts) = 0 /\ 1 .. 0 = {}
    BY <1>2
  <2> QED BY <1>2, <2>1 DEF EntriesFit
<1> QED BY <1>1, <1>2, <1>3, <1>4 DEF IsoInv

(* A new environment has a pid nothing names yet. *)
LEMMA IsoAlloc ==
    ASSUME FitsEnvs, IsoInv, env_alloc
    PROVE  IsoInv'
<1>1. IdInv /\ IdInv'
  BY AllocKeeps DEF IsoInv
<1>2. PICK n \in Slots \ live, d \in Int, a \in Int :
             /\ live' = live \cup {n}
             /\ envs' = [envs EXCEPT ![n] =
                           [pid |-> pid_cnt + 1, domain |-> d, asid |-> a,
                            pt |-> Len(pts) + 1]]
  <2>1. \A x \in 1 .. DOMAIN_UB - 1 : x \in Int
    OBVIOUS
  <2>2. \A x \in 1 .. ASID_UB - 1 : x \in Int
    OBVIOUS
  <2> QED BY <1>1, <2>1, <2>2, AllocGives
<1>3. /\ pid_cnt' = pid_cnt + 1 /\ pts' = Append(pts, EmptyTable)
      /\ UNCHANGED <<curr_env, careful, cp15, tlb>>
  BY DEF env_alloc
<1>4. /\ pid_cnt \in Nat /\ pts \in Seq(Tables)
      /\ envs \in [Slots \cup {NoId} -> [pid : Nat, domain : Int, asid : Int, pt : Nat]]
      /\ live \subseteq Slots
  BY <1>1 DEF IdInv, Typed
<1>5. /\ Len(pts) \in Nat /\ Len(pts') = Len(pts) + 1
      /\ \A i \in 1 .. Len(pts) : pts'[i] = pts[i]
      /\ pts'[Len(pts) + 1] = EmptyTable
  BY <1>3, <1>4
<1>6. /\ envs'[n] = [pid |-> pid_cnt + 1, domain |-> d, asid |-> a, pt |-> Len(pts) + 1]
      /\ \A m \in Slots \cup {NoId} : m # n => envs'[m] = envs[m]
      /\ DOMAIN envs' = DOMAIN envs
  BY <1>2, <1>4
<1>12. \A m \in live' : m # n => m \in live /\ envs'[m] = envs[m]
  BY <1>2, <1>4, <1>6
<1>7. PidsDistinct'
  <2>1. \A m \in live' : m # n => envs'[m].pid \in 1 .. pid_cnt
    BY <1>12 DEF IsoInv, PidsDistinct
  <2>2. envs'[n].pid = pid_cnt + 1
    BY <1>6
  <2>3. \A m \in live' : envs'[m].pid \in 1 .. pid_cnt'
    BY <1>3, <1>4, <2>1, <2>2
  <2>4. ASSUME NEW k \in live', NEW m \in live', k # m
        PROVE  envs'[k].pid # envs'[m].pid
    <3>1. CASE k # n /\ m # n
      BY <1>12, <2>4, <3>1 DEF IsoInv, PidsDistinct
    <3>2. CASE k = n
      BY <1>4, <2>1, <2>2, <2>4, <3>2
    <3>3. CASE m = n
      BY <1>4, <2>1, <2>2, <2>4, <3>3
    <3> QED BY <3>1, <3>2, <3>3
  <2> QED BY <2>3, <2>4 DEF PidsDistinct
<1>8. TablesKnown'
  <2>1. \A m \in Held' : m = n \/ (m \in Held /\ envs'[m] = envs[m])
    BY <1>4, <1>6 DEF Held
  <2>2. \A m \in Held' : envs'[m].pt \in 1 .. Len(pts) + 1
    BY <1>5, <1>6, <2>1 DEF IsoInv, TablesKnown
  <2> QED BY <1>5, <2>2 DEF TablesKnown
<1>9. ASSUME NEW o \in Nat, NEW dom, o <= pid_cnt,
             \A m \in live : envs[m].pid = o => envs[m].domain = dom
      PROVE  /\ o <= pid_cnt'
             /\ \A m \in live' : envs'[m].pid = o => envs'[m].domain = dom
  <2>1. o <= pid_cnt'
    BY <1>3, <1>4, <1>9
  <2>2. envs'[n].pid # o
    BY <1>4, <1>6, <1>9
  <2>3. \A m \in live' : envs'[m].pid = o => envs'[m].domain = dom
    BY <1>9, <1>12, <2>2
  <2> QED BY <2>1, <2>3
<1>10. EntriesFit'
  <2>1. ASSUME NEW i \in 1 .. Len(pts'), NEW p \in VPages
        PROVE  DomainFits(pts[i][p])'
    <3> DEFINE o == pts'[i][p].owner
               dom == pts'[i][p].domain
    <3>1. /\ o \in Nat /\ o <= pid_cnt
          /\ \A m \in live : envs[m].pid = o => envs[m].domain = dom
      <4>1. CASE i \in 1 .. Len(pts)
        <5>1. pts'[i] = pts[i] /\ pts[i][p].owner \in Nat
          BY <1>4, <1>5, <4>1 DEF Tables
        <5> QED BY <4>1, <5>1 DEF IsoInv, EntriesFit, DomainFits
      <4>2. CASE i = Len(pts) + 1
        <5>1. o = 0
          BY <1>5, <4>2 DEF EmptyTable, NoEntry
        <5>2. 0 <= pid_cnt /\ \A m \in live : envs[m].pid # 0
          BY <1>4 DEF IsoInv, PidsDistinct
        <5> QED BY <5>1, <5>2
      <4> QED BY <1>5, <4>1, <4>2
    <3> HIDE DEF o, dom
    <3>2. /\ o <= pid_cnt'
          /\ \A m \in live' : envs'[m].pid = o => envs'[m].domain = dom
      BY <1>9, <3>1
    <3> QED BY <3>2 DEF DomainFits, o, dom
  <2>2. ASSUME NEW t \in tlb PROVE t.owner \in Nat /\ DomainFits(t)'
    <3>1. /\ t.owner \in Nat /\ t.owner <= pid_cnt
          /\ \A m \in live : envs[m].pid = t.owner => envs[m].domain = t.domain
      BY DEF IsoInv, EntriesFit, DomainFits
    <3>2. /\ t.owner <= pid_cnt'
          /\ \A m \in live' : envs'[m].pid = t.owner => envs'[m].domain = t.domain
      BY <1>9, <3>1
    <3> QED BY <3>1, <3>2 DEF DomainFits
  <2>3. \A i \in 1 .. Len(pts') : \A p \in VPages : DomainFits(pts[i][p])'
    BY <2>1
  <2> QED BY <1>3, <2>2, <2>3 DEF EntriesFit
<1>11. Running'
  BY <1>2, <1>3, <1>4, <1>5, <1>6 DEF IsoInv, Running
<1> QED BY <1>1, <1>3, <1>7, <1>8, <1>10, <1>11 DEF IsoInv

(* Fewer live environments constrain less. *)
LEMMA IsoFree ==
    ASSUME FitsEnvs, IsoInv, NEW n \in Held, env_free(n)
    PROVE  IsoInv'
<1>1. IdInv'
  BY FreeKeeps DEF IsoInv
<1>2. /\ UNCHANGED <<pid_cnt, envs, curr_env, careful, pts, cp15, tlb>>
      /\ live' = live \ {n} \/ live' = live
      /\ careful => n \in live /\ ~(cp15.mmu /\ curr_env = n)
  BY DEF env_free, ClientMayFree
<1>3. PidsDistinct' /\ TablesKnown'
  BY <1>2 DEF IsoInv, PidsDistinct, TablesKnown, Held
<1>4. EntriesFit'
  BY <1>2 DEF IsoInv, EntriesFit, DomainFits
<1>5. Running'
  BY <1>2 DEF IsoInv, Running
<1> QED BY <1>1, <1>2, <1>3, <1>4, <1>5 DEF IsoInv

LEMMA IsoSwitch ==
    ASSUME FitsEnvs, IsoInv, NEW n \in Held, env_switch_to(n)
    PROVE  IsoInv'
<1>1. IdInv'
  <2>1. [Next]_vars
    BY DEF Next
  <2> QED BY <2>1, IdNext DEF IsoInv
<1>2. /\ cp15' = [domains |-> {envs[n].domain}, pid |-> envs[n].pid,
                  asid |-> envs[n].asid, ttbr0 |-> envs[n].pt, mmu |-> TRUE]
      /\ curr_env' = n /\ (careful => n \in live)
      /\ UNCHANGED <<pools, pid_cnt, envs, careful, live, pts, tlb>>
  BY DEF env_switch_to, DomainReg, ClientMaySwitch
<1>3. envs[n] \in [pid : Nat, domain : Int, asid : Int, pt : Nat]
  BY DEF IsoInv, IdInv, Typed, Held
<1>4. cp15' \in CP15
  BY <1>2, <1>3 DEF CP15
<1>5. PidsDistinct' /\ TablesKnown' /\ EntriesFit'
  BY <1>2 DEF IsoInv, PidsDistinct, TablesKnown, Held, EntriesFit, DomainFits
<1>6. Running'
  BY <1>2 DEF IsoInv, TablesKnown, Running
<1> QED BY <1>1, <1>4, <1>5, <1>6 DEF IsoInv

(* The new entry names a frame of envs[n] and carries its domain; no other
   live environment has its pid. *)
LEMMA IsoMap ==
    ASSUME FitsEnvs, IsoInv, NEW n \in live, NEW p \in VPages, NEW nG \in 0 .. 1,
           MapPage(n, p, nG)
    PROVE  IsoInv'
<1> DEFINE k == envs[n].pt
           v == [owner |-> envs[n].pid, domain |-> envs[n].domain, nG |-> nG]
<1>1. IdInv'
  <2>1. [Next]_vars
    BY DEF Next
  <2> QED BY <2>1, IdNext DEF IsoInv
<1>2. /\ pts' = [pts EXCEPT ![k] = [pts[k] EXCEPT ![p] = v]]
      /\ UNCHANGED <<pid_cnt, envs, curr_env, careful, live, cp15, tlb>>
  BY DEF MapPage
<1>3. Len(pts') = Len(pts)
  BY MapKeepsTyped DEF IsoInv, IdInv, IdsDistinct
<1>4. pts \in Seq(Tables)
  BY DEF IsoInv, IdInv, Typed
<1>5. PidsDistinct' /\ TablesKnown' /\ Running'
  BY <1>2, <1>3 DEF IsoInv, PidsDistinct, TablesKnown, Held, Running
<1>6. DomainFits(v)
  BY DEF IsoInv, PidsDistinct, DomainFits
<1>7. ASSUME NEW i \in 1 .. Len(pts), NEW q \in VPages
      PROVE  pts'[i][q] = pts[i][q] \/ pts'[i][q] = v
  <2>1. pts[i] \in Tables /\ DOMAIN pts = 1 .. Len(pts)
    BY <1>4
  <2>2. pts[i] = [r \in VPages |-> pts[i][r]]
    BY <2>1 DEF Tables
  <2> HIDE DEF k, v
  <2>3. pts'[i] = IF i = k THEN [pts[k] EXCEPT ![p] = v] ELSE pts[i]
    BY <1>2, <2>1
  <2> QED BY <2>1, <2>2, <2>3
<1>8. \A i \in 1 .. Len(pts) : \A q \in VPages : DomainFits(pts'[i][q])
  <2> HIDE DEF v
  <2> QED BY <1>6, <1>7 DEF IsoInv, EntriesFit
<1>9. EntriesFit'
  <2>1. \A t \in tlb : t.owner \in Nat /\ DomainFits(t)
    BY DEF IsoInv, EntriesFit
  <2>2. \A e : DomainFits(e) => DomainFits(e)'
    BY <1>2 DEF DomainFits
  <2> QED BY <1>2, <1>3, <1>8, <2>1, <2>2 DEF EntriesFit
<1> QED BY <1>1, <1>2, <1>5, <1>9 DEF IsoInv

LEMMA IsoFill ==
    ASSUME FitsEnvs, IsoInv, NEW p \in VPages, WalkFill(p)
    PROVE  IsoInv'
<1> DEFINE e == pts[cp15.ttbr0][p]
           t == [page |-> p, owner |-> e.owner, domain |-> e.domain,
                 nG |-> e.nG, asid |-> cp15.asid]
<1>1. IdInv'
  <2>1. [Next]_vars
    BY DEF Next
  <2> QED BY <2>1, IdNext DEF IsoInv
<1>2. /\ tlb' = tlb \cup {t} /\ cp15.mmu
      /\ UNCHANGED <<pools, pid_cnt, envs, curr_env, careful, live, pts, cp15>>
  BY DEF WalkFill
<1>3. cp15.ttbr0 \in 1 .. Len(pts)
  BY <1>2 DEF IsoInv, Running
<1>4. e.owner \in Nat /\ DomainFits(e)
  <2>1. pts[cp15.ttbr0] \in Tables
    BY <1>3 DEF IsoInv, IdInv, Typed
  <2> QED BY <1>3, <2>1 DEF Tables, IsoInv, EntriesFit
<1>5. t.owner \in Nat /\ DomainFits(t)
  BY <1>4 DEF DomainFits
<1> HIDE DEF t
<1>6. EntriesFit'
  BY <1>2, <1>5 DEF IsoInv, EntriesFit, DomainFits
<1> QED BY <1>1, <1>2, <1>6
        DEF IsoInv, PidsDistinct, TablesKnown, Held, Running

LEMMA IsoNext == FitsEnvs /\ IsoInv /\ [Next]_vars => IsoInv'
<1> SUFFICES ASSUME FitsEnvs, IsoInv, [Next]_vars PROVE IsoInv'
  OBVIOUS
<1>1. IdInv'
  BY IdNext DEF IsoInv
<1>2. CASE env_alloc
  BY <1>2, IsoAlloc
<1>3. ASSUME NEW n \in Held, env_free(n) PROVE IsoInv'
  BY <1>3, IsoFree
<1>4. ASSUME NEW n \in Held, env_switch_to(n) PROVE IsoInv'
  BY <1>4, IsoSwitch
<1>5. CASE mmu_disable
  <2>1. /\ cp15' = [cp15 EXCEPT !.mmu = FALSE]
        /\ UNCHANGED <<pid_cnt, envs, live, pts, tlb>>
    BY <1>5 DEF mmu_disable
  <2>2. cp15' \in CP15 /\ cp15'.mmu = FALSE
    BY <2>1 DEF IsoInv, CP15
  <2> QED BY <1>1, <2>1, <2>2 DEF IsoInv, PidsDistinct, TablesKnown, Held,
                                  EntriesFit, DomainFits, Running
<1>6. ASSUME NEW n \in live, NEW p \in VPages, NEW nG \in 0 .. 1, MapPage(n, p, nG)
      PROVE  IsoInv'
  BY <1>6, IsoMap
<1>7. ASSUME NEW p \in VPages, WalkFill(p) PROVE IsoInv'
  BY <1>7, IsoFill
<1>8. ASSUME NEW t \in tlb, Evict(t) PROVE IsoInv'
  <2>1. /\ tlb' \subseteq tlb
        /\ UNCHANGED <<pid_cnt, envs, curr_env, careful, live, pts, cp15>>
    BY <1>8 DEF Evict
  <2> QED BY <1>1, <2>1 DEF IsoInv, PidsDistinct, TablesKnown, Held,
                            EntriesFit, DomainFits, Running
<1>9. CASE UNCHANGED vars
  BY <1>1, <1>9 DEF vars, IsoInv, PidsDistinct, TablesKnown, Held,
                    EntriesFit, DomainFits, Running
<1> QED BY <1>2, <1>3, <1>4, <1>5, <1>6, <1>7, <1>8, <1>9 DEF Next

LEMMA IsoInvImplies == IsoInv => NoLiveForeignFrame /\ CurrentIsLoaded
<1> SUFFICES ASSUME IsoInv PROVE NoLiveForeignFrame /\ CurrentIsLoaded
  OBVIOUS
<1>1. CurrentIsLoaded
  BY DEF IsoInv, Running, CurrentIsLoaded
<1>2. ASSUME careful, NEW t \in tlb, Usable(t), NEW n \in live, n # curr_env
      PROVE  envs[n].pid # t.owner
  <2>1. /\ curr_env \in live /\ t.domain = envs[curr_env].domain
    BY <1>2 DEF IsoInv, Running, Usable
  <2>2. envs[n].pid = t.owner => envs[n].domain = t.domain
    BY DEF IsoInv, EntriesFit, DomainFits
  <2>3. envs[n].domain # envs[curr_env].domain
    BY <1>2, <2>1 DEF IsoInv, IdInv, IdsDistinct
  <2> QED BY <2>1, <2>2, <2>3
<1> QED BY <1>1, <1>2 DEF NoLiveForeignFrame

(* A careful client that holds at most MAX_ENV environments runs in one of
   them nothing that reaches a frame of another live environment, although
   env_switch_to leaves the global entries of the others in the TLB. *)
THEOREM IsolationAlways == FitsEnvs /\ Spec => []NoLiveForeignFrame
<1> SUFFICES ASSUME FitsEnvs PROVE Spec => []NoLiveForeignFrame
  OBVIOUS
<1>1. IsoInv /\ [Next]_vars => IsoInv'
  BY IsoNext
<1> QED BY <1>1, IsoInit, IsoInvImplies, PTL DEF Spec

(* While the MMU is on for a careful client, the process id, the asid and the
   table base are those of the environment curr_env names, where
   handle_page_miss adds a page: no allocation or release in between moves
   them apart (env_switch_to, env_alloc, env_free). *)
THEOREM CurrentIsLoadedAlways == FitsEnvs /\ Spec => []CurrentIsLoaded
<1> SUFFICES ASSUME FitsEnvs PROVE Spec => []CurrentIsLoaded
  OBVIOUS
<1>1. IsoInv /\ [Next]_vars => IsoInv'
  BY IsoNext
<1> QED BY <1>1, IsoInit, IsoInvImplies, PTL DEF Spec

-----------------------------------------------------------------------------
(* No panic.  A pool that lacks one of its identifiers has room for it. *)
LEMMA RoomToFree ==
    ASSUME NEW S, IsFiniteSet(S), NEW b \in Seq(S), Injective(b),
           NEW x \in S, x \notin Free(b)
    PROVE  CanFree(b, Cardinality(S), x)
<1> DEFINE n == Len(b)
<1>1. n \in Nat /\ b \in [1 .. n -> S]
  OBVIOUS
<1>2. \A i \in 1 .. n : b[i] # x
  BY DEF Free
<1>3. b \in Injection(1 .. n, S)
  BY <1>1 DEF Injective, Injection, IsInjective
<1>4. b \notin Surjection(1 .. n, S)
  BY <1>2 DEF Surjection
<1>5. Cardinality(1 .. n) = n
  BY <1>1, FS_Interval
<1>6. /\ Cardinality(1 .. n) <= Cardinality(S)
      /\ Cardinality(1 .. n) # Cardinality(S)
  BY <1>3, <1>4, FS_Injection
<1>7. n < Cardinality(S)
  BY <1>1, <1>5, <1>6, FS_CardinalityType
<1> QED BY <1>2, <1>7 DEF CanFree

(* What a live environment holds can be given back. *)
LEMMA LiveFreeable ==
    ASSUME IdInv, NEW n \in live
    PROVE  Freeable(n)
<1>1. /\ IsFiniteSet(0 .. MAX_ENV - 1) /\ Cardinality(0 .. MAX_ENV - 1) = MAX_ENV
      /\ IsFiniteSet(1 .. DOMAIN_UB - 1)
      /\ Cardinality(1 .. DOMAIN_UB - 1) = DOMAIN_UB - 1
      /\ IsFiniteSet(1 .. ASID_UB - 1)
      /\ Cardinality(1 .. ASID_UB - 1) = ASID_UB - 1
  <2>1. PICK m \in Nat, p \in Nat, q \in Nat :
           /\ m = MAX_ENV - 1 /\ p = DOMAIN_UB - 1 /\ q = ASID_UB - 1
           /\ m + 1 = MAX_ENV
    BY EnvAssumption
  <2>2. /\ Cardinality(0 .. m) = m + 1 /\ Cardinality(1 .. p) = p
        /\ Cardinality(1 .. q) = q
    BY FS_Interval
  <2>3. IsFiniteSet(0 .. m) /\ IsFiniteSet(1 .. p) /\ IsFiniteSet(1 .. q)
    BY FS_Interval
  <2> QED BY <2>1, <2>2, <2>3
<1>2. /\ n \in Slots /\ n \notin Free(env_v)
      /\ envs[n].domain \in 1 .. DOMAIN_UB - 1 /\ envs[n].domain \notin Free(dom_v)
      /\ envs[n].asid \in 1 .. ASID_UB - 1 /\ envs[n].asid \notin Free(asid_v)
  BY DEF IdInv, Typed, PoolsExact, IdsDistinct
<1>3. CanFree(env_v, MAX_ENV, n)
  <2>1. env_v \in Seq(0 .. MAX_ENV - 1) /\ Injective(env_v) /\ n \in 0 .. MAX_ENV - 1
    BY <1>2 DEF IdInv, Typed, PoolsExact, Slots
  <2>2. CanFree(env_v, Cardinality(0 .. MAX_ENV - 1), n)
    BY <1>1, <1>2, <2>1, RoomToFree, Zenon
  <2> QED BY <1>1, <2>2
<1>4. CanFree(dom_v, DOMAIN_UB - 1, envs[n].domain)
  <2>1. dom_v \in Seq(1 .. DOMAIN_UB - 1) /\ Injective(dom_v)
    BY DEF IdInv, Typed, PoolsExact
  <2>2. CanFree(dom_v, Cardinality(1 .. DOMAIN_UB - 1), envs[n].domain)
    BY <1>1, <1>2, <2>1, RoomToFree, Zenon
  <2> QED BY <1>1, <2>2
<1>5. CanFree(asid_v, ASID_UB - 1, envs[n].asid)
  <2>1. asid_v \in Seq(1 .. ASID_UB - 1) /\ Injective(asid_v)
    BY DEF IdInv, Typed, PoolsExact
  <2>2. CanFree(asid_v, Cardinality(1 .. ASID_UB - 1), envs[n].asid)
    BY <1>1, <1>2, <2>1, RoomToFree, Zenon
  <2> QED BY <1>1, <2>2
<1> QED BY <1>2, <1>3, <1>4, <1>5 DEF Freeable

LEMMA PanicNext ==
    ASSUME IdInv, NeverPanics, [Next]_vars
    PROVE  NeverPanics'
<1>1. ASSUME NEW n \in Held, env_free(n) PROVE NeverPanics'
  <2>1. careful => n \in live
    BY <1>1 DEF env_free, ClientMayFree
  <2>2. careful => Freeable(n)
    BY <2>1, LiveFreeable
  <2> QED BY <1>1, <2>2 DEF env_free, NeverPanics
<1>2. ASSUME NEW n \in Held, env_switch_to(n) PROVE NeverPanics'
  BY <1>2 DEF env_switch_to, ClientMaySwitch, NeverPanics
<1>3. CASE UNCHANGED <<careful, status>>
  BY <1>3 DEF NeverPanics
<1>4. CASE env_alloc
  BY <1>3, <1>4 DEF env_alloc
<1>5. CASE mmu_disable
  BY <1>5 DEF mmu_disable, NeverPanics
<1>6. ASSUME NEW n \in live, NEW p \in VPages, NEW nG \in 0 .. 1, MapPage(n, p, nG)
      PROVE  NeverPanics'
  BY <1>3, <1>6 DEF MapPage
<1>7. ASSUME NEW p \in VPages, WalkFill(p) PROVE NeverPanics'
  BY <1>3, <1>7 DEF WalkFill
<1>8. ASSUME NEW t \in tlb, Evict(t) PROVE NeverPanics'
  BY <1>3, <1>8 DEF Evict
<1>9. CASE UNCHANGED vars
  BY <1>3, <1>9 DEF vars
<1> QED BY <1>1, <1>2, <1>4, <1>5, <1>6, <1>7, <1>8, <1>9 DEF Next

(* However long a careful client allocates, releases and switches, the
   assertions of bvec_free (a full pool, an identifier that is free already)
   and of mmu_enable and mmu_disable (an MMU that is on already, or off) never
   fire. *)
THEOREM NeverPanicsAlways == FitsEnvs /\ Spec => []NeverPanics
<1> SUFFICES ASSUME FitsEnvs PROVE Spec => []NeverPanics
  OBVIOUS
<1>1. IdInv /\ [Next]_vars => IdInv'
  BY IdNext
<1>2. Init => NeverPanics
  BY DEF Init, NeverPanics
<1> QED BY <1>1, <1>2, IdInit, PanicNext, PTL DEF Spec

=============================================================================
