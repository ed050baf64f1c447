---------------------------- MODULE MCJobMailbox ----------------------------
(* JobMailbox for TLC: operators are identified by the script they queue.    *)
EXTENDS JobMailbox
OneOperator == {"alice"}
TwoWorkers == {"one", "two"}
=============================================================================
