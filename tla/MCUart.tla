------------------------------- MODULE MCUart ------------------------------
(* The UART's pins, one of their register, one on either side of a register
   and of a word of 32, and one with the same bit as GPIO_TX. *)
EXTENDS Uart

SomePins == {13, 14, 15, 20, 46, 53}
CallPins == {13, 20, 46, 54}
CallVals == {1, 2, 7, 8}
=============================================================================
