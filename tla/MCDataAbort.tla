---------------------------- MODULE MCDataAbort ----------------------------
(***************************************************************************)
(* The map calls of vm_tests, with RUN_ADVANCED 1: PART5 (null pointer in  *)
(* user mode) and PART6 (all page sizes, stack growth), each of an         *)
(* environment in domain 1, the first that env_alloc hands out.            *)
(***************************************************************************)
EXTENDS DataAbort, SequencesExt

Req(op, va, flags) ==
    [op |-> op, va |-> va, pa |-> va, domain |-> Domain, flags |-> flags]

KB64(n) == n * LG_PAGE_SIZE
MB(n)   == n * SECTION_SIZE
KERNEL_BASE == 32768

Stacks == << Req("lg", KB64(17), 0), Req("lg", KB64(18), 0) >>
HeapWith(flags) ==
    [i \in 1 .. 16 |-> Req("lg", SYS_HEAP_START + KB64(i - 1), flags)]
Gpio == << Req("section", MB(512), 0), Req("section", MB(514), 0) >>
Kernel == [i \in 1 .. 256 |-> Req("sm", KERNEL_BASE + (i - 1) * PAGE_SIZE, 0)]

Part5Script ==
    << Req("sm", 0, F_NO_USR_ACCESS) >> \o Kernel \o Stacks \o HeapWith(0)
    \o << Req("section", MB(3), 0) >> \o Gpio

Part6Script ==
    << Req("section", 0, 0) >> \o Stacks \o HeapWith(0)
    \o << Req("lg", KB64(63), 0) >> \o Gpio

(* PART6 with the lines vm_tests has in comments (the section of the
   watchdog, a page in domain 11), watchdog and heap closed to user mode. *)
CommentedScript ==
    << Req("section", 0, 0) >> \o Stacks \o HeapWith(F_NO_USR_ACCESS)
    \o << Req("lg", KB64(63), 0) >> \o Gpio
    \o << Req("section", MB(513), F_NO_USR_ACCESS),
          [Req("sm", MB(4), 0) EXCEPT !.domain = 11] >>

At(va) == [va |-> va, write |-> TRUE]

(* PART5: the null pointer; the gap between the heap and megabyte 3: next to
   the heap, overlapping pairs, the last page; two pages of user space. *)
Part5Accesses ==
    { At(0), At(KB64(36)), At(KB64(36) + 10 * PAGE_SIZE),
      At(KB64(37) + PAGE_SIZE), At(KB64(40) + 3 * PAGE_SIZE + 16),
      At(KB64(47) + 15 * PAGE_SIZE), At(MB(4) + 1024),
      At(MB(4) + 3 * PAGE_SIZE + 16) }

(* PART6: words of the 64KB next below the mapped stack, further down at
   each alignment, the first page of megabyte 3, and user space. *)
Part6Accesses ==
    { At(KB64(63) - 4), At(KB64(62) + 8 * PAGE_SIZE), At(KB64(62) + PAGE_SIZE),
      At(KB64(60) + PAGE_SIZE + 1024), At(KB64(57)), At(MB(3)),
      At(MB(3) + 2 * PAGE_SIZE + 4), At(MB(4) + 3 * PAGE_SIZE + 16) }

(* With the comments on: the heap below and above its end, the page of the
   other domain, and pages of the gap. *)
CommentedAccesses ==
    { At(SYS_HEAP_START + 16), At(KB64(32)), At(MB(4) + 1024),
      At(KB64(44) + 7 * PAGE_SIZE), At(KB64(57)), At(KB64(60) + PAGE_SIZE),
      At(KB64(62) + PAGE_SIZE), At(KB64(63) - 4) }

Part5 == [script |-> Part5Script, accesses |-> Part5Accesses, usr |-> TRUE]
Part6 == [script |-> Part6Script, accesses |-> Part6Accesses, usr |-> FALSE]
Commented ==
    [script |-> CommentedScript, accesses |-> CommentedAccesses, usr |-> TRUE]

AllTests  == [part5 |-> Part5, part6 |-> Part6, commented |-> Commented]
OnlyPart6 == [part6 |-> Part6]

(* The map calls of the tests, and of the misses they may cause. *)
ReqsOf(t) ==
    ToSet(t.script)
      \cup {[op |-> "lg", va |-> x.va - d, pa |-> x.va - d, domain |-> Domain,
             flags |-> 0] : x \in {y \in t.accesses : y.va > LG_PAGE_SIZE},
                            d \in {PAGE_SIZE, LG_PAGE_SIZE}}

TestRequests == UNION {ReqsOf(Tests[name]) : name \in DOMAIN Tests}
=============================================================================
