------------------------------- MODULE MCTraps -----------------------------
(***************************************************************************)
(* The four configurations of the two switches.                            *)
(***************************************************************************)
EXTENDS Traps

AllBuilds == [advanced : BOOLEAN, handles : BOOLEAN]
=============================================================================
