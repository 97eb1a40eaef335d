------------------------------- MODULE IdPool ------------------------------
(***************************************************************************)
(* src/src/bvec.c: a pool of integers handed out last in, first out.  A    *)
(* bvec_t is modelled by the sequence elm[0], ..., elm[n_left - 1] of its  *)
(* free integers; n_tot is the size of the pool.                           *)
(***************************************************************************)
EXTENDS Integers, Sequences

(* What bvec_alloc returns when nothing is left: (uint32_t)-1. *)
NoId == -1

(* bvec_mk(lb, ub): the integers lb .. ub - 1, pushed from the largest down. *)
bvec_mk_inclusive(lb, ub) == [i \in 1 .. ub - lb + 1 |-> ub - i + 1]  \* mutant
bvec_mk(lb, ub) == [i \in 1 .. ub - lb |-> ub - i]

(* bvec_alloc: the integer returned, and the pool afterwards. *)
bvec_alloc(b) ==
    IF b = <<>> THEN [id |-> NoId, left |-> b]
                ELSE [id |-> b[Len(b)], left |-> SubSeq(b, 1, Len(b) - 1)]

(* bvec_free pushes x back; it panics on a pool that is full already and on
   an x that is free already. *)
CanFreeTwice(b, n_tot, x) == Len(b) < n_tot      \* mutant
CanFree(b, n_tot, x) ==
    Len(b) < n_tot /\ \A i \in 1 .. Len(b) : b[i] # x

bvec_free(b, x) == Append(b, x)

Free(b) == {b[i] : i \in 1 .. Len(b)}
=============================================================================
