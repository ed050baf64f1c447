---------------------------- MODULE VgicDelivery ----------------------------
(***************************************************************************)
(* Delivery of interrupts into the guest by hv_exc-s208.c, on one CPU.     *)
(*                                                                         *)
(* Interrupts go to a List Register (LR) when one is free and otherwise to *)
(* one of three queues of the CPU.  Two timers, the synthetic NVMe line and*)
(* the two USB controllers are levels that hv_update_fiq() tests again on  *)
(* every return to the guest; device lines of the AIC arrive as physical   *)
(* interrupts and are masked until the guest ends them; SGIs are pushed by *)
(* another CPU, which does not take the hypervisor's lock.                 *)
(*                                                                         *)
(* An LR that the guest has ended is neither outstanding nor free: it waits*)
(* for the maintenance interrupt.  The queues and the LR accessors are not *)
(* in the repository; a push to a full queue is refused.  Throttles (the   *)
(* rate limit of the timers, the gap after an NVMe EOI, the polling period *)
(* of the USB bridges) and the guest's PSTATE.I at the FL1100 bridge are a *)
(* choice: open is the set of interrupts they let through in one pass.     *)
(***************************************************************************)
EXTENDS Naturals, Sequences, FiniteSets, FiniteSetsExt

CONSTANTS LRs,         \* number of List Registers: 8
          QueueSize,   \* VIRQ_QUEUE_SIZE: 32
          Levels,      \* the level sources that are in use
          Devices,     \* lines of the AIC
          Sgis         \* SGI numbers other CPUs send

Timers == {17, 18}     \* CNTP, CNTV
NvmeSpi == 900
UsbSpi == 857
Fl1100Spi == 698
Gated == {NvmeSpi, UsbSpi}   \* checked against the distributor's enable bit

ASSUME VgicAssumption ==
    /\ LRs \in Nat /\ QueueSize \in Nat \ {0}
    /\ Levels \subseteq Timers \cup {NvmeSpi, UsbSpi, Fl1100Spi}
    /\ Cardinality(Levels \cap Timers) < LRs
    /\ IsFiniteSet(Devices) /\ IsFiniteSet(Sgis)
    /\ Levels \cap Devices = {} /\ (Levels \cup Devices) \cap Sgis = {}

VARIABLES v,          \* the List Registers and the three queues
          line,       \* asserted levels and device lines
          masked,     \* device lines masked in the AIC
          refused,    \* device lines whose push was refused; not in the code
          enabled,    \* SPIs the guest has enabled
          pendingIpi, \* IPI_SR_PENDING of this CPU
          sender,     \* another CPU between its push and its IPI
          at          \* "guest", or "ipi": inside hv_exc_fiq, queue drained
vgicVars == <<v, line, masked, refused, enabled, pendingIpi, sender, at>>

Regs == 1..LRs
Queues == {"timer_queue", "sgi_queue", "irq_queue"}
Empty == [id |-> 0, state |-> "free"]
Pending(id) == [id |-> id, state |-> "pending"]

VgicInit ==
    /\ v = [lr |-> [r \in Regs |-> Empty], timer_queue |-> <<>>, sgi_queue |-> <<>>,
            irq_queue |-> <<>>]
    /\ line = {} /\ masked = {} /\ refused = {} /\ enabled = {}
    /\ pendingIpi = FALSE /\ sender = "idle" /\ at = "guest"

(***************************************************************************)
(* List Registers and queues.                                              *)
(***************************************************************************)
Free(s) == {r \in Regs : s.lr[r].state = "free"}
Held(s, id) == {r \in Regs : s.lr[r].id = id /\ s.lr[r].state \in {"pending", "active"}}
Queued(s, q, id) == {k \in 1..Len(s[q]) : s[q][k] = id}

Inject(s, id) == [s EXCEPT !.lr[Min(Free(s))] = Pending(id)]
Full(s, q) == Len(s[q]) = QueueSize
Push(s, q, id) == IF Full(s, q) THEN s ELSE [s EXCEPT ![q] = Append(@, id)]
InjectOrPush(s, q, id) == IF Free(s) # {} THEN Inject(s, id) ELSE Push(s, q, id)

\* The loop "while a List Register is free and the queue is not empty": the
\* free registers in their order take the entries in theirs.
Rank(s, r) == Cardinality({x \in Free(s) : x <= r})
Drain(s, q) ==
    [s EXCEPT !.lr = [r \in Regs |-> IF r \in Free(s) /\ Rank(s, r) <= Len(s[q])
                                      THEN Pending(s[q][Rank(s, r)])
                                      ELSE @[r]],
              ![q] = SubSeq(@, Cardinality(Free(s)) + 1, Len(@))]

\* Bug: the scan ends with the List Registers.
OutstandingInLr(s, id) == Held(s, id) # {}
\* hv_vgic_virq_outstanding()
Outstanding(s, id) == Held(s, id) # {} \/ Queued(s, "timer_queue", id) # {}

(***************************************************************************)
(* hv_update_fiq(): the levels, in the code's order.                       *)
(***************************************************************************)
Due(s, id, open) ==
    /\ id \in line /\ id \in open
    /\ id \in Gated => id \in enabled
    /\ ~Outstanding(s, id)

TimerPpi(s, id, open) == IF Due(s, id, open) THEN InjectOrPush(s, "timer_queue", id) ELSE s
\* The NVMe level is never queued: it is tested again on the next return.
BridgeNvme(s, open) == IF Due(s, NvmeSpi, open) /\ Free(s) # {} THEN Inject(s, NvmeSpi) ELSE s
BridgeUsbXhci(s, open) ==
    IF Due(s, UsbSpi, open) THEN InjectOrPush(s, "irq_queue", UsbSpi) ELSE s
BridgeFl1100(s, open) ==
    IF Due(s, Fl1100Spi, open) THEN InjectOrPush(s, "irq_queue", Fl1100Spi) ELSE s

UpdateFiq(open) ==
    \E a \in {TimerPpi(v, 17, open)} :
    \E b \in {TimerPpi(a, 18, open)} :
    \E c \in {BridgeNvme(b, open)} :
    \E d \in {BridgeUsbXhci(c, open)} :
        v' = BridgeFl1100(d, open)

(***************************************************************************)
(* The handlers.                                                           *)
(***************************************************************************)
\* A trap, or a tick without IPI: everything ends in hv_exc_exit().
ReturnToGuest(open) ==
    /\ at = "guest"
    /\ UpdateFiq(open)
    /\ UNCHANGED <<line, masked, refused, enabled, pendingIpi, sender, at>>

\* hv_exc_fiq() with an IPI pending drains the SGIs ...
FiqIpi ==
    /\ at = "guest" /\ pendingIpi
    /\ v' = Drain(v, "sgi_queue")
    /\ at' = "ipi"
    /\ UNCHANGED <<line, masked, refused, enabled, pendingIpi, sender>>

\* ... and clears the IPI, also one that arrived after the loop had ended.
FiqExit(open) ==
    /\ at = "ipi"
    /\ pendingIpi' = FALSE /\ at' = "guest"
    /\ UpdateFiq(open)
    /\ UNCHANGED <<line, masked, refused, enabled, sender>>

Ended(s) == {r \in Regs : s.lr[r].state = "eoi"}
Cleared(s) == [s EXCEPT !.lr = [r \in Regs |-> IF r \in Ended(s) THEN Empty ELSE @[r]]]

\* Bugs: the SGIs are left to their IPI; the timers are left to the next tick.
DrainAllButSgis(s) ==
    \E a \in {Drain(s, "timer_queue")} : v' = Drain(a, "irq_queue")
DrainAllButTimers(s) ==
    \E a \in {Drain(s, "sgi_queue")} : v' = Drain(a, "irq_queue")
DrainAll(s) ==
    \E a \in {Drain(s, "timer_queue")} :
    \E b \in {Drain(a, "sgi_queue")} : v' = Drain(b, "irq_queue")

\* hv_exc_irq(), maintenance: ended registers are cleared, their lines unmasked
\* and the queues drained.
Maintenance ==
    /\ at = "guest" /\ Ended(v) # {}
    /\ masked' = masked \ {v.lr[r].id : r \in Ended(v)}
    /\ \E s \in {Cleared(v)} : DrainAll(s)
    /\ UNCHANGED <<line, refused, enabled, pendingIpi, sender, at>>

\* Bug: only a line that is queued is masked.
MasksQueued(s, d) == IF Free(s) = {} THEN {d} ELSE {}
Masks(s, d) == {d}
\* hv_exc_irq(), a line of the AIC: mask it, inject or queue it.
DeviceIrq(d) ==
    /\ at = "guest" /\ d \in line /\ d \notin masked
    /\ masked' = masked \cup Masks(v, d)
    /\ v' = InjectOrPush(v, "irq_queue", d)
    /\ refused' = IF Free(v) = {} /\ Full(v, "irq_queue") THEN refused \cup {d} ELSE refused
    /\ UNCHANGED <<line, enabled, pendingIpi, sender, at>>

\* Another CPU's write of ICC_SGI1R_EL1: push, then IPI; neither takes the lock.
SgiPush(g) ==
    /\ sender = "idle"
    /\ v' = Push(v, "sgi_queue", g)
    /\ sender' = "push"
    /\ UNCHANGED <<line, masked, refused, enabled, pendingIpi, at>>

SgiSend ==
    /\ sender = "push"
    /\ pendingIpi' = TRUE /\ sender' = "idle"
    /\ UNCHANGED <<v, line, masked, refused, enabled, at>>

(***************************************************************************)
(* The guest and the hardware.                                             *)
(***************************************************************************)
Raise(id) ==
    /\ id \notin line
    /\ line' = line \cup {id}
    /\ UNCHANGED <<v, masked, refused, enabled, pendingIpi, sender, at>>

Enable(id) ==
    /\ at = "guest"
    /\ enabled' = IF id \in enabled THEN enabled \ {id} ELSE enabled \cup {id}
    /\ UNCHANGED <<v, line, masked, refused, pendingIpi, sender, at>>

\* The guest acknowledges an interrupt ...
Take(r) ==
    /\ at = "guest" /\ v.lr[r].state = "pending"
    /\ v' = [v EXCEPT !.lr[r].state = "active"]
    /\ UNCHANGED <<line, masked, refused, enabled, pendingIpi, sender, at>>

\* ... satisfies its source, or finds nothing to do ...
Service(r) ==
    /\ at = "guest" /\ v.lr[r].state = "active" /\ v.lr[r].id \in line
    /\ line' = line \ {v.lr[r].id}
    /\ UNCHANGED <<v, masked, refused, enabled, pendingIpi, sender, at>>

\* ... and ends it.
Eoi(r) ==
    /\ at = "guest" /\ v.lr[r].state = "active"
    /\ v' = [v EXCEPT !.lr[r].state = "eoi"]
    /\ UNCHANGED <<line, masked, refused, enabled, pendingIpi, sender, at>>

VgicNext ==
    \/ \E open \in SUBSET Levels : ReturnToGuest(open) \/ FiqExit(open)
    \/ FiqIpi \/ Maintenance
    \/ \E d \in Devices : DeviceIrq(d)
    \/ \E g \in Sgis : SgiPush(g)
    \/ SgiSend
    \/ \E id \in Levels \cup Devices : Raise(id)
    \/ \E id \in Levels \cap Gated : Enable(id)
    \/ \E r \in Regs : Take(r) \/ Service(r) \/ Eoi(r)

VgicSpec == VgicInit /\ [][VgicNext]_vgicVars

\* The tick recurs and finds every throttle expired again; the hypervisor's
\* interrupts are taken; the guest's timers keep firing and its handlers end.
VgicFairness ==
    /\ WF_vgicVars(ReturnToGuest(Levels) \/ FiqExit(Levels))
    /\ WF_vgicVars(FiqIpi) /\ SF_vgicVars(Maintenance) /\ WF_vgicVars(SgiSend)
    /\ \A t \in Levels \cap Timers : WF_vgicVars(Raise(t))
    /\ \A r \in Regs : SF_vgicVars(Take(r)) /\ SF_vgicVars(Eoi(r))

VgicFairSpec == VgicSpec /\ VgicFairness

(***************************************************************************)
(* Properties.                                                             *)
(***************************************************************************)
Ids == Levels \cup Devices \cup Sgis
\* Types of all variables.
TypeOK ==
    /\ v.lr \in [Regs -> [id : Ids \cup {0}, state : {"free", "pending", "active", "eoi"}]]
    /\ \A q \in Queues : v[q] \in Seq(Ids) /\ Len(v[q]) <= QueueSize
    /\ line \subseteq Levels \cup Devices /\ enabled \subseteq Levels \cap Gated
    /\ masked \subseteq Devices /\ refused \subseteq masked
    /\ pendingIpi \in BOOLEAN /\ sender \in {"idle", "push"} /\ at \in {"guest", "ipi"}

\* Where an interrupt is: the queue entries, and the registers in one of the
\* given states, that hold it.
Places(s, states, id) ==
    {p \in ({"lr"} \X Regs) \cup (Queues \X (1..QueueSize)) :
        IF p[1] = "lr" THEN s.lr[p[2]].id = id /\ s.lr[p[2]].state \in states
                       ELSE p[2] <= Len(s[p[1]]) /\ s[p[1]][p[2]] = id}

InFlight == {"pending", "active"}
Copies(id) == Cardinality(Places(v, InFlight, id))

\* "Capping each timer PPI to one outstanding" (hv_vgic_virq_outstanding): a
\* timer and the NVMe level are in one place at most, over the List Registers
\* and all queues, however often the level is tested while the registers are
\* full.
OneOutstanding == \A id \in Levels \cap (Timers \cup {NvmeSpi}) : Copies(id) <= 1

\* A queued timer or device interrupt waits for a List Register: while one is
\* free, nothing is left in these queues, so no interrupt waits for an EOI that
\* may never come.
NoStrandedQueue ==
    v.timer_queue # <<>> \/ v.irq_queue # <<>> => Free(v) = {}

\* "deliver=mask / EOI=unmask" (hv_exc_irq): a line is masked exactly while one
\* copy of its interrupt is on its way to the end of its handler, unless the
\* copy was refused by a full queue.
MaskMatchesCopy ==
    \A d \in Devices \ refused :
        Cardinality(Places(v, InFlight \cup {"eoi"}, d)) = IF d \in masked THEN 1 ELSE 0

\* "dedup: at most one in flight" (hv_bridge_usb_xhci_irq): the same for the
\* two USB controllers.
OneBridged == \A id \in Levels \cap {UsbSpi, Fl1100Spi} : Copies(id) <= 1

\* An SGI that another CPU queued reaches a List Register, although its IPI may
\* be cleared unseen and the registers may be full.
SgiDelivered ==
    \A g \in Sgis : Queued(v, "sgi_queue", g) # {} ~> Held(v, g) # {}

\* An expired timer reaches the guest.
TimerDelivered ==
    \A t \in Levels \cap Timers : t \in line ~> \E r \in Regs : v.lr[r] = [id |-> t, state |-> "active"]
=============================================================================
