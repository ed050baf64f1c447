--------------------------- MODULE MCVgicDelivery ---------------------------
(* VgicDelivery for TLC: two List Registers and one of the two timers, so    *)
(* that the timers alone never fill the registers, as 2 of 8.                *)
EXTENDS VgicDelivery
=============================================================================
