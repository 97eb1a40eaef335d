--------------------------- MODULE AddressSpace ----------------------------
(***************************************************************************)
(* What the map functions of mmu.c promise their caller: an address space  *)
(* is a partial function from 4KB pages to translations.  Mapping a region *)
(* succeeds exactly when none of its pages is mapped, and then maps every  *)
(* page of the region, in order, to the frames, the domain and the         *)
(* permissions the caller named, and no other page.  A mapping is never    *)
(* changed or taken away; a call that collides with one stops the machine. *)
(***************************************************************************)
EXTENDS Descriptors

CONSTANTS
    Requests,   \* the calls [op, va, pa, domain, flags] that may be made
    Pages       \* the pages whose translation is observed

VARIABLES
    space,      \* page -> translation, or Unmapped
    halted      \* a call was refused and the machine rebooted

asVars == <<space, halted>>

PagesOfOp == [section |-> SLDS_PER_TABLE, lg |-> REPLICAS, sm |-> 1]

(* The pages a request covers, and the translation it asks for each. *)
Cover(r) == LET first == PageOf(r.va)
            IN  first .. first + PagesOfOp[r.op] - 1

Asked(r, p) == Translation(PageOf(r.pa) + (p - PageOf(r.va)), r.domain,
                           Attr(r.flags))

Init == /\ space = [p \in Pages |-> Unmapped]
        /\ halted = FALSE

Map(r) ==
    /\ ~halted
    /\ \A p \in Cover(r) : space[p] = Unmapped
    /\ space' = [p \in Pages |->
                    IF p \in Cover(r) THEN Asked(r, p) ELSE space[p]]
    /\ UNCHANGED halted

Refuse(r) ==
    /\ ~halted
    /\ \E p \in Cover(r) : space[p] # Unmapped
    /\ halted' = TRUE
    /\ UNCHANGED space

Next == \E r \in Requests : Map(r) \/ Refuse(r)

Spec == Init /\ [][Next]_asVars
=============================================================================
