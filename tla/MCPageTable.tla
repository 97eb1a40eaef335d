---------------------------- MODULE MCPageTable ----------------------------
(***************************************************************************)
(* Instances of PageTable.  The addresses are those vm_tests maps in its   *)
(* PART5 (large stacks, heap, sections) with collisions added.             *)
(***************************************************************************)
EXTENDS PageTable

Req(op, va, pa, domain, flags) ==
    [op |-> op, va |-> va, pa |-> pa, domain |-> domain, flags |-> flags]

KB64(n) == n * LG_PAGE_SIZE
MB(n)   == n * SECTION_SIZE

(* Requests that respect the discipline of PageTable: megabyte 0 holds small
   kernel pages beside a large page, megabyte 1 large pages up to the last
   group of the table.  Each is also asked for as a section, or asked for
   twice to two frames, so every collision occurs. *)
GoodRequests ==
    { Req("sm", 0, 0, 1, F_NO_USR_ACCESS),
      Req("sm", 32768, 32768, 1, F_NO_USR_ACCESS),
      Req("sm", 32768, MB(4), 1, F_EXEC_NEVER),
      Req("lg", KB64(1), KB64(2), 1, 0),
      Req("lg", KB64(1), KB64(3), 1, F_NO_USR_ACCESS),
      Req("section", 0, MB(512), 1, F_NO_USR_ACCESS),
      Req("lg", MB(1) + KB64(4), MB(1) + KB64(4), 2, F_NOT_GLOBAL),
      Req("lg", MB(1) + KB64(15), MB(1), 2, 0),
      Req("sm", MB(1), MB(1), 2, F_NO_USR_WR_ACCESS),
      Req("section", MB(1), MB(1), 2, 0) }

(* Requests no discipline restrains: misaligned in the page number, in the
   offset, past the last group, small over large, two domains, and flags. *)
WildRequests ==
    { Req("lg", MB(1) + 14 * PAGE_SIZE, MB(1) + 14 * PAGE_SIZE, 2, 0),
      Req("lg", MB(1) + 241 * PAGE_SIZE, MB(1), 2, 0),
      Req("lg", MB(1) + KB64(15), MB(1) + KB64(15), 2, F_SHARED),
      Req("sm", MB(1) + 20 * PAGE_SIZE, MB(2), 3, 0),
      Req("sm", MB(1) + 20 * PAGE_SIZE + 1, MB(2), 3, 0),
      Req("sm", MB(2) + 3 * PAGE_SIZE + 4, MB(2), 3, F_EXEC_NEVER),
      Req("lg", MB(2) + 2 * PAGE_SIZE, MB(2), 2, 0),
      Req("section", MB(2) + PAGE_SIZE, MB(7), 2, 0),
      Req("section", MB(3), MB(3), 2, F_CACHEABLE),
      Req("section", MB(3) + 1, MB(3), 2, 0),
      Req("section", MB(3), MB(8), 2, 0) }

ASSUME GoodIsDisciplined == Requests = GoodRequests => Disciplined
=============================================================================
