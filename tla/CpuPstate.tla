------------------------------ MODULE CpuPstate ------------------------------
(* nwoas_cpu_pstate_enable_p12: at ReadyToBoot the firmware asks the clock   *)
(* controller of the performance cluster for operating point 12 and, when it *)
(* cannot verify that it got it, for point 7 again.  The controller works on *)
(* its own: it is busy for any time and may refuse.                          *)
EXTENDS Naturals

CONSTANTS
    IdleAttempts,  \* NWOAS_IDLE_ATTEMPTS: reads of one wait for idle.
    Nothing        \* No status yet, no command yet.

ASSUME PstateAssumption ==
    Nothing \notin {7, 12, "Ok", "RolledBack", "RollbackBusy", "RollbackUnverified",
                    "RollbackFailed", "UnsupportedChip", "BaselineBusy", "BaselineNotP7"}

VARIABLES
    dev,    \* The controller: desired (command fields), busy, protected bits,
            \* and the STATUS register, current and target.
    pstate  \* Locals of the routine: pc, the operating point asked for, reads
            \* of this wait, the protected bits of the baseline, the point this
            \* request has written, and the status.

pstateVars == <<dev, pstate>>

P7 == 7
P12 == 12
Points == {P7, P12}

PstateLocals(pc) == [pc |-> pc, ask |-> P12, reads |-> 0, prot |-> TRUE,
                wrote |-> Nothing, status |-> Nothing]

\* Of the controller nothing is known before the routine is called and nothing
\* is asked after it has returned; this value stands for both.
Unknown == [desired |-> P7, busy |-> FALSE, prot |-> TRUE,
            current |-> P7, target |-> P7]

PstateInit ==
    /\ dev = Unknown
    /\ pstate = PstateLocals("off")

\* The call: the controller may be in a transition or at another point.
Enter ==
    /\ dev' \in [desired : Points, busy : BOOLEAN, prot : {TRUE},
                 current : Points, target : Points]
    /\ pstate' = PstateLocals("baseline")

\* The return: the result was logged and is dropped.
Leave ==
    /\ pstate.pc = "done"
    /\ dev' = Unknown
    /\ pstate' = PstateLocals("off")

(***************************************************************************)
(* The controller (external).                                              *)
(***************************************************************************)

Working == pstate.pc \notin {"off", "done"}

\* A transition ends: reached, refused, refused with the old request put
\* back, or with a protected bit gone.
Settle ==
    /\ Working
    /\ dev.busy
    /\ \E end \in {"reached", "target", "refused", "restored", "unprotected"} :
          dev' = [dev EXCEPT
             !.busy = FALSE,
             !.target  = IF end \in {"refused", "restored"} THEN @ ELSE dev.desired,
             !.current = IF end \in {"reached", "unprotected"} THEN dev.desired ELSE @,
             !.desired = IF end = "restored" THEN dev.target ELSE @,
             !.prot    = @ /\ end # "unprotected"]
    /\ UNCHANGED pstate

\* STATUS catches up with a target after BUSY has cleared.
CatchUp ==
    /\ Working
    /\ ~dev.busy
    /\ dev.current # dev.target
    /\ dev' = [dev EXCEPT !.current = dev.target]
    /\ UNCHANGED pstate

(***************************************************************************)
(* The routine: one action per access.                                     *)
(***************************************************************************)

End(status) == pstate' = [pstate EXCEPT !.pc = "done", !.status = status,
                                        !.reads = 0]

\* The chip and the command register before any request.  No chip-id in the
\* device tree has the effect of another chip.
Baseline(t8103) ==
    /\ pstate.pc = "baseline"
    /\ \/ ~t8103 /\ End("UnsupportedChip")
       \/ t8103 /\ dev.busy /\ End("BaselineBusy")
       \/ t8103 /\ ~dev.busy /\ dev.desired # P7 /\ End("BaselineNotP7")
       \/ /\ t8103 /\ ~dev.busy /\ dev.desired = P7
          /\ pstate' = [pstate EXCEPT !.pc = "before", !.prot = dev.prot]
    /\ UNCHANGED dev

\* nwoas_cpu_pstate_request has failed: the request of P12 is followed by the
\* one of P7, and that one by a last read of STATUS.
Fails(why) ==
    IF pstate.ask = P12
    THEN pstate' = [pstate EXCEPT !.pc = "before", !.ask = P7, !.reads = 0,
                                  !.wrote = Nothing]
    ELSE End(IF why # "StuckBusy" THEN "RollbackFailed"
             ELSE IF pstate.wrote = P7 THEN "RollbackUnverified"
                                       ELSE "RollbackBusy")

\* One read of nwoas_cpu_pstate_wait_idle, before the write or after it; the
\* value that shows the controller idle is the value verified.
WaitIdle ==
    /\ pstate.pc \in {"before", "after"}
    /\ UNCHANGED dev
    /\ \/ /\ dev.busy /\ pstate.reads + 1 < IdleAttempts
          /\ pstate' = [pstate EXCEPT !.reads = @ + 1]
       \/ /\ dev.busy /\ pstate.reads + 1 = IdleAttempts
          /\ Fails("StuckBusy")
       \/ /\ ~dev.busy /\ pstate.pc = "before"
          /\ pstate' = [pstate EXCEPT !.pc = "write", !.reads = 0]
       \/ /\ ~dev.busy /\ pstate.pc = "after"
          /\ IF dev.desired # pstate.ask THEN Fails("ReadbackMismatch")
             ELSE IF dev.prot # pstate.prot THEN Fails("ProtectedChanged")
             ELSE pstate' = [pstate EXCEPT !.pc = "verify", !.reads = 0]

Write ==
    /\ pstate.pc = "write"
    /\ dev' = [dev EXCEPT !.desired = pstate.ask, !.busy = TRUE]
    /\ pstate' = [pstate EXCEPT !.pc = "after", !.wrote = pstate.ask]

\* Bug: a command register that shows the point is taken as proof.
VerifyTrusting ==
    /\ pstate.pc = "verify"
    /\ End(IF pstate.ask = P12 THEN "Ok" ELSE "RolledBack")
    /\ UNCHANGED dev

\* The single read of STATUS: P12 is verified, or else P7 is asked for.
Verify ==
    LET there == dev.current = pstate.ask /\ dev.target = pstate.ask
    IN  /\ pstate.pc = "verify"
        /\ IF there THEN End(IF pstate.ask = P12 THEN "Ok" ELSE "RolledBack")
           ELSE Fails("StatusMismatch")
        /\ UNCHANGED dev

PstateStep ==
    \/ \E t8103 \in BOOLEAN : Baseline(t8103)
    \/ WaitIdle \/ Write \/ Verify

PstateDevice == Settle \/ CatchUp

(***************************************************************************)
(* What the routine promises.                                              *)
(***************************************************************************)

\* A request is never written into a transition, and the status claims
\* exactly what is so: "Ok" and "RolledBack" only for a controller that is
\* idle at that point with the protected bits intact; "RollbackBusy" only
\* when P7 was not written, and the two other failures only when it was.
PstateHonest ==
    LET At(p) == dev = [desired |-> p, busy |-> FALSE, prot |-> pstate.prot,
                        current |-> p, target |-> p]
    IN  /\ pstate.pc = "write" => ~dev.busy
        /\ pstate.status = "Ok" => At(P12)
        /\ pstate.status = "RolledBack" => At(P7)
        /\ pstate.status = "RollbackBusy" => pstate.wrote = Nothing
        /\ pstate.status \in {"RollbackUnverified", "RollbackFailed"} =>
              pstate.wrote = P7
=============================================================================
