--------------------------- MODULE MCFileDelivery ---------------------------
(* FileDelivery for TLC.                                                     *)
EXTENDS FileDelivery
=============================================================================
