----------------------------- MODULE MCCpuEntry -----------------------------
(* CpuEntry for TLC: the boot CPU and a secondary that may abort in a storm  *)
(* for the liveness run, and one CPU more for the run on the time offset.    *)
EXTENDS CpuEntry
=============================================================================
