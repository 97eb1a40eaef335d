------------------------------ MODULE MCCaches -----------------------------
(***************************************************************************)
(* A cacheable line, a line of the page table (the heap is cacheable in    *)
(* int_part2), and two page tables.                                        *)
(***************************************************************************)
EXTENDS Caches
=============================================================================
