---------------------------- MODULE NvmeFrontend ----------------------------
(***************************************************************************)
(* The target-owned NVMe controller as it is composed in S230: the control *)
(* registers (native-s209/model.c), the frontend that aggregates interrupt *)
(* sources and faults (native-s228/frontend.c), the adapter that reconciles*)
(* queue descriptors with the data path (native-s230/adapter.inc), and the *)
(* S149 data path (nvme-s208/hv_vm-s208.c) with its NS2 host rendezvous.   *)
(*                                                                         *)
(* Every handler runs under the hypervisor's big lock and is one action.   *)
(* The one place where the lock can be given up is the NS2 rendezvous      *)
(* (hv_exc_proxy waits for a pinned CPU): ProxyMayYield lets the handlers  *)
(* of other CPUs run between LinkBegin and LinkReturn.                     *)
(*                                                                         *)
(* The admin ring is reduced to what the frontend reads of it (AdminRing   *)
(* has its details); queue memory is reduced to its cursors.               *)
(***************************************************************************)
EXTENDS AdminState

CONSTANTS AdminCommands,   \* admin commands the guest submits
          AdminDepth,      \* depth of the admin completion queue
          IoDepth,         \* depth of the I/O queues
          TruncModulus,    \* generations are compared truncated to this (2^12)
          ProxyMayYield    \* the NS2 rendezvous may give up the lock

ASSUME FrontendAssumption ==
    /\ AdminCommands \subseteq AllCommands
    /\ AdminDepth \in Nat /\ AdminDepth >= 2
    /\ IoDepth \in Nat /\ IoDepth >= 2
    /\ TruncModulus \in Nat /\ TruncModulus >= 1
    /\ ProxyMayYield \in BOOLEAN

VARIABLES
    ctl,     \* control registers: CC.EN, CC.SHN, CSTS and the two masks
    pend,    \* control.pending, the interrupt status bit of PCI
    irq,     \* the level given to nwoas_nvme_set_fast_irq
    ring,    \* the admin ring: active, fatal, unacknowledged completions
    adm,     \* the admin state: descriptors and generations
    io, bf,  \* frontend.io_pending, frontend.backend_fault
    cache,   \* s229_cache
    own,     \* the full generations the adapter reconciled last
    fp,      \* the data path: nwoas_nvme_fp
    link,    \* the NS2 request on the stack of a suspended handler
    kept     \* not in the code: since the last reset the guest has written CC
             \* with 32 bits, kept SHN once set, and taken no command back

vars == <<ctl, pend, irq, ring, adm, io, bf, cache, own, fp, link, kept>>

Truncated(g) == g % TruncModulus
Step(i) == (i + 1) % IoDepth
Apart(from, to) == (to + IoDepth - from) % IoDepth

NoLink == [busy |-> FALSE, head |-> 0, sqGen |-> 0, cqGen |-> 0,
           sameEpoch |-> TRUE, fresh |-> TRUE]

\* The state s229_enable leaves behind.
Init ==
    /\ ctl = [en |-> FALSE, shn |-> FALSE, rdy |-> FALSE, cfs |-> FALSE, shst |-> 0,
              mask |-> FALSE, intx |-> FALSE]
    /\ pend = FALSE /\ irq = FALSE
    /\ ring = [active |-> FALSE, fatal |-> FALSE, pending |-> 0]
    /\ adm = AdminInit /\ io = FALSE /\ bf = FALSE /\ cache = 1
    /\ own = [sqGen |-> 0, cqGen |-> 0]
    /\ fp = [armed |-> FALSE, faulted |-> FALSE, deferred |-> FALSE,
             sqHead |-> 0, sqTail |-> 0, cqHead |-> 0, cqTail |-> 0, cqPending |-> 0,
             sqGen |-> 0, cqGen |-> 0]
    /\ link = NoLink /\ kept = TRUE

\* The big lock is free for a handler on another CPU.
LockFree == ~link.busy \/ ProxyMayYield

(***************************************************************************)
(* Pieces of handlers.                                                     *)
(***************************************************************************)
\* action 0 of nwoas_nvme_fastpath_control.
Disarm(f) == [f EXCEPT !.armed = FALSE, !.deferred = FALSE]

ClearSq(f) == [f EXCEPT !.sqHead = 0, !.sqTail = 0]
ClearCqKeepsPending(f) == [f EXCEPT !.cqHead = 0, !.cqTail = 0]
ClearCq(f) == [f EXCEPT !.cqHead = 0, !.cqTail = 0, !.cqPending = 0]

QuiesceNever(f, failed) == f

\* s229_irq disarms the data path whenever the controller has failed.
Quiesce(f, failed) == IF failed THEN Disarm(f) ELSE f

\* A suspended NS2 request sees every arm and disarm through lifecycle_epoch.
\* fresh is not in the code: the request's queues are still the same queues.
TrackLink(epochBumped) ==
    link' = IF link.busy
            THEN [link EXCEPT !.sameEpoch = @ /\ ~epochBumped,
                              !.fresh = @ /\ adm'.sqGen = adm.sqGen
                                          /\ adm'.cqGen = adm.cqGen]
            ELSE link

\* update_pending, then irq_update through the frontend's and the adapter's gates.
Settle ==
    /\ pend' = (io' \/ (ring'.active /\ ring'.pending # 0))
    /\ irq' = (pend' /\ ~ctl'.mask /\ ~ctl'.intx /\ ~ctl'.cfs /\ ~bf' /\ ~ring'.fatal)

\* nwoas_frontend_fault.
Fault(c) == [c EXCEPT !.cfs = TRUE]

Usable == ctl.rdy /\ ~ctl.cfs /\ ~bf

(***************************************************************************)
(* Control registers.                                                      *)
(***************************************************************************)
WriteMask(m) ==
    /\ LockFree /\ ctl.mask # m
    /\ ctl' = [ctl EXCEPT !.mask = m]
    /\ fp' = Quiesce(fp, ctl.cfs \/ bf)
    /\ UNCHANGED <<ring, adm, io, bf, cache, own, kept>>
    /\ Settle /\ TrackLink(FALSE)

WriteCommand(x) ==
    /\ LockFree /\ ctl.intx # x
    /\ ctl' = [ctl EXCEPT !.intx = x]
    /\ fp' = Quiesce(fp, ctl.cfs \/ bf)
    /\ UNCHANGED <<ring, adm, io, bf, cache, own, kept>>
    /\ Settle /\ TrackLink(FALSE)

\* s229_flush: with a transfer in flight it does not flush, it faults.
FlushOk(f, flushed) == ~link.busy /\ ~f.faulted /\ flushed

\* The shutdown half of a CC write: flush, then report completion.
ShutsDown(c, shn) == shn /\ ~c.cfs /\ c.shst # 2
AfterShutdown(c, f, shn, flushed) ==
    IF ~ShutsDown(c, shn) THEN c
    ELSE IF FlushOk(f, flushed) THEN [c EXCEPT !.shst = 2]
    ELSE [c EXCEPT !.shst = 1, !.cfs = TRUE]
FlushFault(c, f, shn, flushed) ==
    IF ShutsDown(c, shn) /\ ~FlushOk(f, flushed) THEN [f EXCEPT !.faulted = TRUE] ELSE f

\* CC.EN = 0: cancel the I/O queues (s229_reset_io), reset the ring, clear CSTS.
Disable(shn, flushed) ==
    LET cancelled == ~link.busy /\ ~fp.faulted
        f1 == IF cancelled THEN ClearSq(ClearCq(Disarm(fp))) ELSE Disarm(fp)
        c1 == [ctl EXCEPT !.en = FALSE, !.shn = shn, !.rdy = FALSE, !.cfs = FALSE, !.shst = 0]
        c2 == AfterShutdown(c1, f1, shn, flushed)
    IN  /\ LockFree
        /\ ring' = [active |-> FALSE, fatal |-> FALSE, pending |-> 0]
        /\ adm' = AdminReset(adm, FALSE)
        /\ io' = FALSE /\ bf' = ~cancelled
        /\ ctl' = IF cancelled THEN c2 ELSE Fault(c2)
        /\ fp' = Quiesce(FlushFault(c1, f1, shn, flushed), ctl'.cfs)
        /\ kept' = TRUE
        /\ UNCHANGED <<cache, own>>
        /\ Settle /\ TrackLink(TRUE)

\* CC.EN 0 -> 1: valid stands for the checks of AQA, ASQ, ACQ and the CC fields.
Enable(valid, shn, flushed) ==
    LET started == valid /\ ~bf /\ ~ring.active /\ ~ring.fatal
        f1 == IF shn THEN Disarm(fp) ELSE fp
        c1 == [ctl EXCEPT !.en = TRUE, !.shn = shn]
        c2 == [c1 EXCEPT !.rdy = TRUE, !.cfs = FALSE, !.shst = 0]
    IN  /\ LockFree /\ ~ctl.en
        /\ \/ /\ ~started
              /\ ctl' = Fault(c1) /\ fp' = Disarm(f1) /\ UNCHANGED ring
           \/ /\ started
              /\ ring' = [active |-> TRUE, fatal |-> FALSE, pending |-> 0]
              /\ ctl' = AfterShutdown(c2, f1, shn, flushed)
              /\ fp' = Quiesce(FlushFault(c2, f1, shn, flushed), ctl'.cfs)
        /\ UNCHANGED <<adm, io, bf, cache, own, kept>>
        /\ Settle /\ TrackLink(shn)

\* CC written with EN = 1 while enabled: only the shutdown half acts.
WriteShutdown(shn, flushed) ==
    LET f1 == IF shn THEN Disarm(fp) ELSE fp
        c1 == [ctl EXCEPT !.shn = shn]
        c2 == AfterShutdown(c1, f1, shn, flushed)
    IN  /\ LockFree /\ ctl.en
        /\ kept' = (kept /\ (ctl.shn => shn))
        /\ ctl' = IF bf THEN Fault(c2) ELSE c2
        /\ fp' = Quiesce(FlushFault(c1, f1, shn, flushed), ctl'.cfs \/ bf)
        /\ UNCHANGED <<ring, adm, io, bf, cache, own>>
        /\ Settle /\ TrackLink(shn)

\* A CC write with EN clear or SHN set whose width the control model rejects
\* (NWOAS_INVALID): the adapter has disarmed the data path before it asks.
RejectedCcWrite ==
    /\ LockFree
    /\ kept' = FALSE
    /\ fp' = Disarm(fp)
    /\ UNCHANGED <<ctl, pend, irq, ring, adm, io, bf, cache, own>>
    /\ TrackLink(TRUE)

(***************************************************************************)
(* Admin queue: one command taken, executed, reconciled and completed.     *)
(***************************************************************************)
RearmedInShutdown(f, s) == [f EXCEPT !.armed = @ \/ (s.sq /\ s.cq)]

\* Both queues exist and no shutdown is requested: the data path is armed.
Rearmed(f, s) == [f EXCEPT !.armed = @ \/ (s.sq /\ s.cq /\ ~ctl.shn)]

\* s229_reconcile on the new admin state s.  It refuses while an NS2 request is
\* out, so the epochs it advances are never those of a request in flight.
Reconciled(s) ==
    LET sqChanged == own.sqGen # s.sqGen
        cqChanged == own.cqGen # s.cqGen
        f1 == IF sqChanged \/ cqChanged THEN Disarm(fp) ELSE fp
        f2 == IF sqChanged THEN ClearSq(f1) ELSE f1
        f3 == IF cqChanged THEN ClearCq(f2) ELSE f2
    IN  Rearmed([f3 EXCEPT !.sqGen = Truncated(s.sqGen), !.cqGen = Truncated(s.cqGen)], s)

\* Arming fails when the queue memory does not resolve (nwoas_nvme_guest_ptr).
Arms(s) == s.sq /\ s.cq /\ ~ctl.shn
           /\ (~fp.armed \/ own.sqGen # s.sqGen \/ own.cqGen # s.cqGen)

\* fail() in the ring, then nwoas_frontend_fault.
RingFails ==
    /\ ring' = [ring EXCEPT !.fatal = TRUE]
    /\ ctl' = Fault(ctl) /\ bf' = TRUE

\* failing is the call that fails: the flush of the device, the resolution of a
\* new queue's memory, or a store of the completion.  A command that fails after
\* it was reconciled keeps its descriptor change but is never completed.
AdminTake(c, failing) ==
    LET drains == c.op = "SetCache" /\ c.ok /\ cache = 1 /\ c.arg = 0
        setOk == drains => FlushOk(fp, failing # "flush")
        status == Status(adm, c, setOk)
        s == Execute(adm, c, status)
        changes == Changed(c, status)
        touched == changes # {} /\ ~link.busy /\ ~fp.faulted
        reconciled == touched /\ (Arms(s) => failing # "map")
        completes == setOk /\ (changes = {} \/ reconciled)
                     /\ (Deferred(c, status) \/ failing # "store")
        f == IF touched THEN Reconciled(s) ELSE fp
    IN  /\ LockFree /\ Usable /\ ring.active /\ ~ring.fatal
        /\ ring.pending < AdminDepth - 1
        /\ adm' = s
        /\ cache' = IF "cache" \in changes THEN c.arg ELSE cache
        /\ own' = IF touched THEN [sqGen |-> s.sqGen, cqGen |-> s.cqGen] ELSE own
        /\ io' = (io /\ ~("cq" \in changes /\ reconciled))
        /\ \/ /\ completes
              /\ ring' = [ring EXCEPT !.pending = IF Deferred(c, status) THEN @ ELSE @ + 1]
              /\ fp' = f
              /\ UNCHANGED <<ctl, bf>>
           \/ /\ ~completes
              /\ RingFails
              /\ fp' = [Disarm(f) EXCEPT !.faulted = @ \/ ~setOk]
        /\ Settle /\ TrackLink(FALSE) /\ UNCHANGED kept

\* A fetch or a store of the ring fails, or a doorbell value is out of range.
AdminFails ==
    /\ LockFree /\ Usable /\ ring.active /\ ~ring.fatal
    /\ RingFails
    /\ fp' = Disarm(fp)
    /\ UNCHANGED <<adm, io, cache, own, kept>>
    /\ Settle /\ TrackLink(FALSE)

AdminAck(n) ==
    /\ LockFree /\ Usable /\ ring.active /\ ~ring.fatal
    /\ n \in 1..ring.pending
    /\ ring' = [ring EXCEPT !.pending = @ - n]
    /\ UNCHANGED <<ctl, adm, io, bf, cache, own, fp, kept>>
    /\ Settle /\ TrackLink(FALSE)

(***************************************************************************)
(* The data path.                                                          *)
(***************************************************************************)
CanProcess(f) ==
    /\ f.armed /\ ~f.faulted /\ ~link.busy
    /\ f.sqHead # f.sqTail /\ f.cqPending < IoDepth - 1

Backlog(f) == f.armed /\ ~f.faulted /\ f.sqHead # f.sqTail

CompletedForgetsBacklog(f) ==
    [f EXCEPT !.sqHead = Step(@), !.cqTail = Step(@), !.cqPending = @ + 1, !.deferred = FALSE]

Completed(f) ==
    LET g == [f EXCEPT !.sqHead = Step(@), !.cqTail = Step(@), !.cqPending = @ + 1]
    IN  [g EXCEPT !.deferred = Backlog(g)]

ReportIoUngated(f) ==
    /\ bf' = (bf \/ f.faulted)
    /\ ctl' = IF f.faulted THEN Fault(ctl) ELSE ctl
    /\ io' = (f.cqPending # 0)
    /\ fp' = Quiesce(f, ctl'.cfs \/ bf')
    /\ Settle

\* s229_fast_irq_update at the end of process, and of a CQ acknowledgement.
ReportIo(f) ==
    /\ bf' = (bf \/ f.faulted)
    /\ ctl' = IF f.faulted THEN Fault(ctl) ELSE ctl
    /\ io' = (f.cqPending # 0 /\ adm.cq /\ adm.ien)
    /\ fp' = Quiesce(f, ctl'.cfs \/ bf')
    /\ Settle

\* process(ctx, 1) on data path state f: the command at the head is refused or
\* done ("done"), fails in the physical device ("fatal"), or goes to NS2 ("ns2").
Process(f, outcome) ==
    \/ /\ link.busy \/ ~f.armed \/ f.faulted             \* returns at once
       /\ fp' = f
       /\ TrackLink(FALSE) /\ UNCHANGED <<ctl, pend, irq, io, bf>>
    \/ /\ ~link.busy /\ f.armed /\ ~f.faulted /\ ~CanProcess(f)
       /\ ReportIo([f EXCEPT !.deferred = Backlog(f)]) /\ UNCHANGED link
    \/ /\ CanProcess(f) /\ outcome = "done"
       /\ ReportIo(Completed(f)) /\ UNCHANGED link
    \/ /\ CanProcess(f) /\ outcome = "fatal"
       /\ ReportIo([f EXCEPT !.faulted = TRUE, !.deferred = FALSE]) /\ UNCHANGED link
    \/ /\ CanProcess(f) /\ outcome = "ns2"
       /\ link' = [busy |-> TRUE, head |-> f.sqHead, sqGen |-> f.sqGen, cqGen |-> f.cqGen,
                   sameEpoch |-> TRUE, fresh |-> TRUE]
       /\ fp' = f /\ UNCHANGED <<ctl, pend, irq, io, bf>>

\* SQ1 tail doorbell.
SqDoorbell(t, outcome) ==
    /\ LockFree /\ Usable /\ ctl.shst = 0 /\ ~ctl.shn
    /\ adm.sq /\ t < IoDepth /\ fp.armed
    /\ kept' = (kept /\ Apart(fp.sqHead, fp.sqTail) <= Apart(fp.sqHead, t))
    /\ UNCHANGED <<ring, adm, cache, own>>
    /\ Process([fp EXCEPT !.sqTail = t, !.deferred = (fp.sqHead # t)], outcome)

\* An SQ1 or CQ1 doorbell without its queue or with a value out of range.
BadIoDoorbell ==
    /\ LockFree /\ Usable
    /\ bf' = TRUE /\ ctl' = Fault(ctl) /\ irq' = FALSE
    /\ fp' = Disarm(fp)
    /\ UNCHANGED <<pend, ring, adm, io, cache, own, kept>>
    /\ TrackLink(FALSE)

CqAckForgetsBacklog(h) ==
    /\ LockFree /\ Usable /\ adm.cq
    /\ h < IoDepth
    /\ Apart(fp.cqHead, h) <= fp.cqPending
    /\ UNCHANGED <<ring, adm, cache, own, kept>>
    /\ ReportIo([fp EXCEPT !.cqHead = h, !.cqPending = @ - Apart(fp.cqHead, h),
                           !.deferred = FALSE])
    /\ TrackLink(FALSE)

\* CQ1 head doorbell: retires completions, never starts a command.
CqAck(h) ==
    /\ LockFree /\ Usable /\ adm.cq
    /\ h < IoDepth
    /\ Apart(fp.cqHead, h) <= fp.cqPending
    /\ UNCHANGED <<ring, adm, cache, own, kept>>
    /\ ReportIo([fp EXCEPT !.cqHead = h, !.cqPending = @ - Apart(fp.cqHead, h),
                           !.deferred = (fp.sqHead # fp.sqTail)])
    /\ TrackLink(FALSE)

\* The 5 kHz tick resumes a backlog, one command per tick.
Tick(outcome) ==
    /\ LockFree /\ fp.deferred /\ fp.cqPending < IoDepth - 1
    /\ UNCHANGED <<ring, adm, cache, own, kept>>
    /\ Process(fp, outcome)

StaleArmedUnchecked ==
    \/ fp.faulted \/ ~link.sameEpoch
    \/ fp.sqGen # link.sqGen \/ fp.cqGen # link.cqGen \/ fp.sqHead # link.head

\* The host answers; the handler takes the lock again and checks for staleness.
Stale ==
    \/ ~fp.armed \/ fp.faulted \/ ~link.sameEpoch
    \/ fp.sqGen # link.sqGen \/ fp.cqGen # link.cqGen \/ fp.sqHead # link.head

LinkReturn ==
    /\ link.busy
    /\ link' = NoLink
    /\ UNCHANGED <<ring, adm, cache, own, kept>>
    /\ ReportIo(IF Stale THEN [fp EXCEPT !.deferred = Backlog(fp)] ELSE Completed(fp))

Outcomes == {"done", "fatal", "ns2"}

ControlStep ==
    \/ \E b \in BOOLEAN : WriteMask(b) \/ WriteCommand(b)
    \/ \E shn \in BOOLEAN : \E flushed \in {TRUE, ~shn} :
          \/ Disable(shn, flushed)
          \/ \E valid \in BOOLEAN : Enable(valid, shn, flushed)
          \/ WriteShutdown(shn, flushed)
    \/ RejectedCcWrite

AdminStep ==
    \/ \E c \in AdminCommands, failing \in {"none", "flush", "map", "store"} :
          AdminTake(c, failing)
    \/ AdminFails
    \/ \E n \in 1..AdminDepth-1 : AdminAck(n)

DataStep ==
    \/ \E t \in 0..IoDepth-1, o \in Outcomes : SqDoorbell(t, o)
    \/ BadIoDoorbell
    \/ \E h \in 0..IoDepth-1 : CqAck(h)
    \/ \E o \in Outcomes : Tick(o)
    \/ LinkReturn

Next == ControlStep \/ AdminStep \/ DataStep

Spec == Init /\ [][Next]_vars

\* The tick recurs, the host answers, the driver acknowledges what it is told of.
Fairness ==
    /\ WF_vars(\E o \in Outcomes : Tick(o))
    /\ WF_vars(LinkReturn)
    /\ WF_vars(\E h \in 0..IoDepth-1 : h # fp.cqHead /\ CqAck(h))

FairSpec == Spec /\ Fairness

(***************************************************************************)
(* Properties.                                                             *)
(***************************************************************************)
DataPaths ==
    [armed : BOOLEAN, faulted : BOOLEAN, deferred : BOOLEAN,
     sqHead : 0..IoDepth-1, sqTail : 0..IoDepth-1,
     cqHead : 0..IoDepth-1, cqTail : 0..IoDepth-1, cqPending : 0..IoDepth-1,
     sqGen : 0..TruncModulus-1, cqGen : 0..TruncModulus-1]

\* Types of all variables; no cursor or count leaves its queue.
TypeOK ==
    /\ ctl \in [en : BOOLEAN, shn : BOOLEAN, rdy : BOOLEAN, cfs : BOOLEAN, shst : 0..2,
                mask : BOOLEAN, intx : BOOLEAN]
    /\ pend \in BOOLEAN /\ irq \in BOOLEAN /\ io \in BOOLEAN /\ bf \in BOOLEAN
    /\ ring \in [active : BOOLEAN, fatal : BOOLEAN, pending : 0..AdminDepth-1]
    /\ adm \in AdminStates /\ cache \in 0..1
    /\ own \in [sqGen : 0..GenModulus-1, cqGen : 0..GenModulus-1]
    /\ fp \in DataPaths
    /\ link \in [busy : BOOLEAN, head : 0..IoDepth-1,
                 sqGen : 0..TruncModulus-1, cqGen : 0..TruncModulus-1,
                 sameEpoch : BOOLEAN, fresh : BOOLEAN]
    /\ kept \in BOOLEAN

\* The level the interrupt bridge sees is high exactly when a completion the
\* driver has not acknowledged waits in a queue that may interrupt, nothing
\* masks it and the controller has not failed.  The code never computes this:
\* it keeps io_pending and pending as cached copies updated by callbacks.
InterruptTruth ==
    irq <=> /\ ring.pending # 0 \/ (fp.cqPending # 0 /\ adm.cq /\ adm.ien)
            /\ ~ctl.mask /\ ~ctl.intx /\ ~ctl.cfs

\* The data path executes commands only for a ready, healthy controller whose
\* two I/O queues exist and are the ones the adapter reconciled it with; and
\* while SQ1 doorbells are accepted (the checks of s229_mmio pass) it is armed,
\* so that none of them falls through to the host's hook, unless a CC write
\* was rejected after the adapter had disarmed the path for it.
ArmedExactly ==
    /\ fp.armed => /\ ctl.rdy /\ ~ctl.cfs /\ ~fp.faulted
                   /\ adm.sq /\ adm.cq
                   /\ own = [sqGen |-> adm.sqGen, cqGen |-> adm.cqGen]
                   /\ fp.sqGen = Truncated(adm.sqGen)
                   /\ fp.cqGen = Truncated(adm.cqGen)
    /\ kept /\ Usable /\ ctl.shst = 0 /\ ~ctl.shn /\ adm.sq => fp.armed

\* The completion count is the distance between the completion cursors: a
\* queue that is deleted, reset or recreated never inherits half of the old one.
IoRingExact == fp.cqPending = Apart(fp.cqHead, fp.cqTail)

\* A physical fault is terminal until a fresh boot (native-s230/README.md):
\* no reset, enable or admin command makes the controller look healthy again.
FaultIsTerminal == fp.faulted => ctl.cfs /\ ~fp.armed /\ ~irq

\* No wakeup is lost: a submitted command on an armed data path is remembered
\* by deferred (and so resumed by the tick) unless its NS2 request is out or the
\* guest broke a rule of CC or of the doorbell.
NoLostWakeup ==
    kept /\ fp.armed /\ ~link.busy /\ fp.sqHead # fp.sqTail => fp.deferred

\* An NS2 answer is published only into the queues its command came from: not
\* after a reset, a deletion or a recreation while the host was working, even
\* when the truncated generations agree again.
NoStaleCompletion ==
    [][link.busy /\ ~link'.busy /\ fp'.cqPending > fp.cqPending => link.fresh]_vars

\* Once shutdown is reported complete (CSTS.SHST = 2), no data command is started
\* or completed any more; holds for a guest that keeps CC.SHN set until EN = 0.
ShutdownQuiesces ==
    [][kept /\ ctl.shst = 2 => fp'.cqPending <= fp.cqPending /\ ~link'.busy]_vars

\* No submitted command waits for ever: on a path that stays armed, for a guest
\* that keeps the rules, the head moves again and again until nothing is left.
BacklogDrains ==
    []<>(~Backlog(fp) \/ ~kept) \/ []<><<fp'.sqHead # fp.sqHead>>_vars
=============================================================================
