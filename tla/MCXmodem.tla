------------------------------ MODULE MCXmodem -----------------------------
(***************************************************************************)
(* Programs of up to two blocks of two bytes, with bytes that look like a  *)
(* start of packet or an end of transmission.                              *)
(***************************************************************************)
EXTENDS Xmodem

Bytes == {SOH, EOT, 2}
SmallPrograms == UNION {[1 .. n -> [1 .. 2 -> Bytes]] : n \in 0 .. 2}
=============================================================================
