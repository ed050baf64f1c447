------------------------- MODULE NvmeFrontendProofs -------------------------
(***************************************************************************)
(* Proofs about NvmeFrontend for every depth of the queues, every set of   *)
(* admin commands, every size and truncation of the generation counters,   *)
(* and with or without a rendezvous that gives up the lock.                *)
(***************************************************************************)
EXTENDS NvmeFrontend, AdminStateProofs, TLAPS

(***************************************************************************)
(* The cached copies: pending, the level and io_pending say what the       *)
(* counts say, the last one only while the backend has not failed (after a *)
(* failure the level is low whatever it says).                             *)
(***************************************************************************)
Cached ==
    /\ pend <=> io \/ (ring.active /\ ring.pending # 0)
    /\ irq <=> pend /\ ~ctl.mask /\ ~ctl.intx /\ ~ctl.cfs /\ ~bf /\ ~ring.fatal
    /\ ~bf => (io <=> fp.cqPending # 0 /\ adm.cq /\ adm.ien)
    /\ ring.pending # 0 => ring.active

\* Failure: what the ring and the backend report is in CSTS.CFS.
Failures == (bf => ctl.cfs) /\ (ring.fatal => bf)

\* A disabled controller has no queues; a completion queue outlives its SQ.
Descriptors ==
    /\ ctl.rdy => ctl.en
    /\ ~ctl.en => ~adm.cq
    /\ adm.sq => adm.cq
    /\ ~bf /\ adm.cq => own = [sqGen |-> adm.sqGen, cqGen |-> adm.cqGen]
    /\ ~bf /\ ~adm.sq => fp.sqHead = fp.sqTail
    /\ ~bf /\ ~adm.cq => fp.cqPending = 0

\* Shutdown, for a guest that keeps the rules.
Shutdown ==
    /\ fp.armed => ~ctl.shn
    /\ ctl.shst = 1 => ctl.cfs
    /\ kept /\ ctl.shst = 2 => ~link.busy /\ (ctl.cfs \/ ctl.shn)

\* An NS2 request has a completion slot, and the path stays armed over it only
\* for the queues it came from.
Request ==
    /\ link.busy => fp.cqPending < IoDepth - 1
    /\ link.busy /\ link.sameEpoch /\ fp.armed => link.fresh

Inv == /\ TypeOK /\ Cached /\ Failures /\ Descriptors /\ Shutdown /\ Request
       /\ ArmedExactly /\ IoRingExact /\ NoLostWakeup

Controls == [en : BOOLEAN, shn : BOOLEAN, rdy : BOOLEAN, cfs : BOOLEAN, shst : 0..2,
             mask : BOOLEAN, intx : BOOLEAN]
Rings == [active : BOOLEAN, fatal : BOOLEAN, pending : 0..AdminDepth-1]
Owners == [sqGen : 0..GenModulus-1, cqGen : 0..GenModulus-1]
Links == [busy : BOOLEAN, head : 0..IoDepth-1, sqGen : 0..TruncModulus-1,
          cqGen : 0..TruncModulus-1, sameEpoch : BOOLEAN, fresh : BOOLEAN]

\* The type invariant by its sets.
LEMMA Types ==
    TypeOK <=> /\ ctl \in Controls /\ pend \in BOOLEAN /\ irq \in BOOLEAN
               /\ io \in BOOLEAN /\ bf \in BOOLEAN /\ ring \in Rings
               /\ adm \in AdminStates /\ cache \in 0..1 /\ own \in Owners
               /\ fp \in DataPaths /\ link \in Links /\ kept \in BOOLEAN
  BY DEF TypeOK, Controls, Rings, Owners, Links

\* The same after a step.
LEMMA NextTypes ==
    ASSUME ctl' \in Controls, pend' \in BOOLEAN, irq' \in BOOLEAN, io' \in BOOLEAN,
           bf' \in BOOLEAN, ring' \in Rings, adm' \in AdminStates, cache' \in 0..1,
           own' \in Owners, fp' \in DataPaths, link' \in Links, kept' \in BOOLEAN
    PROVE  TypeOK'
  BY DEF TypeOK, Controls, Rings, Owners, Links

(***************************************************************************)
(* The pieces of the handlers, field by field.                             *)
(***************************************************************************)
SameCursors(f, g) ==
    /\ g.sqHead = f.sqHead /\ g.sqTail = f.sqTail
    /\ g.cqHead = f.cqHead /\ g.cqTail = f.cqTail /\ g.cqPending = f.cqPending
    /\ g.sqGen = f.sqGen /\ g.cqGen = f.cqGen

\* Disarming leaves the cursors alone.
LEMMA DisarmIs ==
    ASSUME NEW f \in DataPaths
    PROVE  /\ Disarm(f) \in DataPaths /\ SameCursors(f, Disarm(f))
           /\ ~Disarm(f).armed /\ Disarm(f).faulted = f.faulted
  BY DEF Disarm, DataPaths, SameCursors

\* Clearing one ring of the path leaves the other and the flags alone.
LEMMA ClearSqIs ==
    ASSUME NEW f \in DataPaths, 0 \in 0..IoDepth-1
    PROVE  LET g == ClearSq(f)
           IN  /\ g \in DataPaths /\ g.sqHead = 0 /\ g.sqTail = 0
               /\ g.cqHead = f.cqHead /\ g.cqTail = f.cqTail /\ g.cqPending = f.cqPending
               /\ g.armed = f.armed /\ g.deferred = f.deferred /\ g.faulted = f.faulted
  <1>1. [f EXCEPT !.sqHead = 0] \in DataPaths
    BY DEF DataPaths
  <1>2. ClearSq(f) \in DataPaths
    BY <1>1 DEF DataPaths, ClearSq
  <1> QED BY <1>2 DEF ClearSq, DataPaths

LEMMA ClearCqIs ==
    ASSUME NEW f \in DataPaths, 0 \in 0..IoDepth-1
    PROVE  LET g == ClearCq(f)
           IN  /\ g \in DataPaths /\ g.cqHead = 0 /\ g.cqTail = 0 /\ g.cqPending = 0
               /\ g.sqHead = f.sqHead /\ g.sqTail = f.sqTail
               /\ g.armed = f.armed /\ g.deferred = f.deferred /\ g.faulted = f.faulted
  <1>1. [f EXCEPT !.cqHead = 0] \in DataPaths
    BY DEF DataPaths
  <1>2. [f EXCEPT !.cqHead = 0, !.cqTail = 0] \in DataPaths
    BY <1>1 DEF DataPaths
  <1>3. ClearCq(f) \in DataPaths
    BY <1>2 DEF DataPaths, ClearCq
  <1> QED BY <1>3 DEF ClearCq, DataPaths

\* s229_irq leaves a healthy path alone and disarms a failed one.
LEMMA QuiesceIs ==
    ASSUME NEW f \in DataPaths, NEW failed \in BOOLEAN
    PROVE  /\ Quiesce(f, failed) \in DataPaths /\ SameCursors(f, Quiesce(f, failed))
           /\ Quiesce(f, failed).faulted = f.faulted
           /\ Quiesce(f, failed).armed => ~failed
           /\ ~failed => Quiesce(f, failed) = f
  BY DisarmIs DEF Quiesce, SameCursors

\* Registers d and path g after the shutdown half of a CC write that found c
\* and f: when the flush fails, CSTS.CFS says so.
ShutdownFacts(c, f, shn, d, g) ==
    /\ d \in Controls /\ g \in DataPaths /\ SameCursors(f, g)
    /\ d.en = c.en /\ d.rdy = c.rdy /\ d.shn = c.shn
    /\ d.mask = c.mask /\ d.intx = c.intx
    /\ c.cfs => d.cfs
    /\ g.armed = f.armed /\ g.deferred = f.deferred
    /\ ~d.cfs => g = f
    /\ ~shn => d = c /\ g = f
    /\ d.shst = 1 => d.cfs \/ c.shst = 1
    /\ d.shst = 2 => c.shst = 2 \/ (shn /\ ~link.busy)

LEMMA ShutdownIs ==
    ASSUME NEW c \in Controls, NEW f \in DataPaths, NEW shn \in BOOLEAN,
           NEW flushed \in BOOLEAN, link \in Links
    PROVE  ShutdownFacts(c, f, shn, AfterShutdown(c, f, shn, flushed),
                                    FlushFault(c, f, shn, flushed))
  <1> USE DEF Controls, Links
  <1>1. CASE ~ShutsDown(c, shn)
    BY <1>1 DEF AfterShutdown, FlushFault, SameCursors, ShutsDown, ShutdownFacts
  <1>2. CASE ShutsDown(c, shn) /\ FlushOk(f, flushed)
    BY <1>2 DEF AfterShutdown, FlushFault, FlushOk, SameCursors, ShutsDown, ShutdownFacts
  <1>3. CASE ShutsDown(c, shn) /\ ~FlushOk(f, flushed)
    <2>1. /\ AfterShutdown(c, f, shn, flushed) = [c EXCEPT !.shst = 1, !.cfs = TRUE]
          /\ FlushFault(c, f, shn, flushed) = [f EXCEPT !.faulted = TRUE]
      BY <1>3 DEF AfterShutdown, FlushFault
    <2>2. /\ [f EXCEPT !.faulted = TRUE] \in DataPaths
          /\ SameCursors(f, [f EXCEPT !.faulted = TRUE])
          /\ [f EXCEPT !.faulted = TRUE].armed = f.armed
          /\ [f EXCEPT !.faulted = TRUE].deferred = f.deferred
      BY DEF DataPaths, SameCursors
    <2>3. shn
      BY <1>3 DEF ShutsDown
    <2>4. PICK e : e = [c EXCEPT !.shst = 1, !.cfs = TRUE]
      OBVIOUS
    <2>5. e \in Controls /\ e.cfs /\ e.shst = 1
      <3>1. e \in Controls
        <4>1. [c EXCEPT !.shst = 1] \in Controls
          BY 1 \in 0..2
        <4>2. e = [[c EXCEPT !.shst = 1] EXCEPT !.cfs = TRUE]
          BY <2>4
        <4> QED BY <4>1, <4>2
      <3>2. e.cfs = TRUE
        BY <2>4
      <3>3. e.shst = 1
        BY <2>4
      <3> QED BY <3>1, <3>2, <3>3
    <2>6. /\ e.en = c.en /\ e.rdy = c.rdy /\ e.shn = c.shn
          /\ e.mask = c.mask /\ e.intx = c.intx
      BY <2>4
    <2>7. PICK k : k = [f EXCEPT !.faulted = TRUE]
      OBVIOUS
    <2>8. /\ k \in DataPaths /\ SameCursors(f, k) /\ k.armed = f.armed
          /\ k.deferred = f.deferred
      BY <2>2, <2>7
    <2>9. AfterShutdown(c, f, shn, flushed) = e /\ FlushFault(c, f, shn, flushed) = k
      BY <2>1, <2>4, <2>7
    <2> HIDE DEF Controls, Links
    <2>10. ShutdownFacts(c, f, shn, e, k)
      BY <2>3, <2>5, <2>6, <2>8 DEF ShutdownFacts
    <2> QED BY <2>9, <2>10
  <1> QED BY <1>1, <1>2, <1>3

\* The cursors of a ring of IoDepth slots.
LEMMA ApartIs ==
    ASSUME NEW a \in 0..IoDepth-1, NEW b \in 0..IoDepth-1
    PROVE  /\ Apart(a, b) = IF b >= a THEN b - a ELSE b + IoDepth - a
           /\ Apart(a, b) \in 0..IoDepth-1
  <1>1. IoDepth \in Nat /\ IoDepth >= 1
    BY FrontendAssumption
  <1> QED BY <1>1, RingDistance DEF Apart

LEMMA StepIs ==
    ASSUME NEW i \in 0..IoDepth-1
    PROVE  Step(i) = (IF i + 1 = IoDepth THEN 0 ELSE i + 1) /\ Step(i) \in 0..IoDepth-1
  <1>1. IoDepth \in Nat /\ IoDepth >= 1
    BY FrontendAssumption
  <1> QED BY <1>1, RingNext DEF Step

(***************************************************************************)
(* A step that moves no cursor, changes no descriptor and arms nothing.    *)
(***************************************************************************)
Settled ==
    /\ pend' <=> io' \/ (ring'.active /\ ring'.pending # 0)
    /\ irq' <=> pend' /\ ~ctl'.mask /\ ~ctl'.intx /\ ~ctl'.cfs /\ ~bf' /\ ~ring'.fatal

\* TrackLink only lets a request in flight become stale.
LinkTracked ==
    /\ link' \in Links
    /\ link'.busy = link.busy
    /\ link.busy /\ link'.sameEpoch => link.sameEpoch
    /\ link.busy /\ link'.sameEpoch /\ link.fresh => link'.fresh

\* What the health of the controller says after a step.
HealthKept ==
    /\ bf' => ctl'.cfs
    /\ ring'.fatal => bf'
    /\ ring'.pending # 0 => ring'.active
    /\ ctl'.rdy => ctl'.en
    /\ ctl'.shst = 1 => ctl'.cfs
    /\ kept' /\ ctl'.shst = 2 => ~link'.busy /\ (ctl'.cfs \/ ctl'.shn)
    /\ fp'.armed => ctl'.rdy /\ ~ctl'.cfs /\ ~ctl'.shn /\ ~fp'.faulted

SameQueues(s, t) ==
    t.sq = s.sq /\ t.cq = s.cq /\ t.ien = s.ien /\ t.sqGen = s.sqGen /\ t.cqGen = s.cqGen

LEMMA QuietStep ==
    ASSUME Inv, TypeOK', Settled, LinkTracked, HealthKept,
           SameQueues(adm, adm'), own' = own, io' = io,
           SameCursors(fp, fp'),
           bf => bf',
           fp'.armed => fp.armed /\ fp'.deferred = fp.deferred,
           ctl.en => ctl'.en,
           kept' => kept,
           kept' /\ Usable' /\ ctl'.shst = 0 /\ ~ctl'.shn /\ adm.sq => fp'.armed
    PROVE  Inv'
  <1>1. Cached'
    BY DEF Inv, Cached, Settled, HealthKept, SameCursors, SameQueues
  <1>2. Failures'
    BY DEF HealthKept, Failures
  <1>3. Descriptors'
    BY DEF Inv, Descriptors, HealthKept, SameCursors, SameQueues
  <1>4. Shutdown'
    BY DEF HealthKept, Shutdown
  <1>5. Request'
    BY DEF Inv, Request, LinkTracked, SameCursors
  <1>6. ArmedExactly'
    BY DEF Inv, ArmedExactly, HealthKept, SameCursors, SameQueues
  <1>7. IoRingExact'
    BY DEF Inv, IoRingExact, SameCursors
  <1>8. NoLostWakeup'
    BY DEF Inv, NoLostWakeup, LinkTracked, SameCursors
  <1> QED BY <1>1, <1>2, <1>3, <1>4, <1>5, <1>6, <1>7, <1>8 DEF Inv

\* The end of most handlers.
LEMMA SettleIs ==
    ASSUME Settle
    PROVE  Settled /\ pend' \in BOOLEAN /\ irq' \in BOOLEAN
  BY DEF Settle, Settled

LEMMA TrackTypes ==
    ASSUME link \in Links, NEW bumped \in BOOLEAN, TrackLink(bumped)
    PROVE  link' \in Links /\ link'.busy = link.busy
  <1>1. CASE ~link.busy
    BY <1>1 DEF TrackLink
  <1>2. CASE link.busy
    <2>1. PICK a \in BOOLEAN, b \in BOOLEAN :
            link' = [link EXCEPT !.sameEpoch = a, !.fresh = b]
      BY <1>2 DEF TrackLink
    <2> QED BY <2>1 DEF Links
  <1> QED BY <1>1, <1>2

LEMMA TrackIs ==
    ASSUME link \in Links, NEW bumped \in BOOLEAN, TrackLink(bumped),
           bumped \/ (adm'.sqGen = adm.sqGen /\ adm'.cqGen = adm.cqGen)
    PROVE  LinkTracked
  <1>1. CASE ~link.busy
    BY <1>1 DEF TrackLink, LinkTracked, Links
  <1>2. CASE link.busy
    <2>1. PICK a \in BOOLEAN, b \in BOOLEAN :
            /\ link' = [link EXCEPT !.sameEpoch = a, !.fresh = b]
            /\ a <=> link.sameEpoch /\ ~bumped
            /\ b <=> link.fresh /\ adm'.sqGen = adm.sqGen /\ adm'.cqGen = adm.cqGen
      BY <1>2 DEF TrackLink
    <2>2. link' \in Links /\ link'.busy = link.busy
      BY <2>1 DEF Links
    <2>3. link'.sameEpoch = a /\ link'.fresh = b
      BY <2>1 DEF Links
    <2> QED BY <2>1, <2>2, <2>3 DEF LinkTracked
  <1> QED BY <1>1, <1>2

\* nwoas_frontend_fault sets CSTS.CFS and nothing else.
LEMMA FaultIs ==
    ASSUME NEW c \in Controls
    PROVE  /\ Fault(c) \in Controls /\ Fault(c).cfs
           /\ Fault(c).en = c.en /\ Fault(c).rdy = c.rdy /\ Fault(c).shn = c.shn
           /\ Fault(c).shst = c.shst
  <1>1. /\ Fault(c) \in Controls
        /\ Fault(c).en = c.en /\ Fault(c).rdy = c.rdy /\ Fault(c).shn = c.shn
        /\ Fault(c).shst = c.shst
    BY DEF Fault, Controls
  <1>2. Fault(c).cfs = TRUE
    BY DEF Fault, Controls
  <1> QED BY <1>1, <1>2

(***************************************************************************)
(* Control registers.                                                      *)
(***************************************************************************)
LEMMA InvMasks ==
    ASSUME Inv, NEW b \in BOOLEAN, WriteMask(b) \/ WriteCommand(b)
    PROVE  Inv'
  <1>1. TypeOK /\ ctl \in Controls /\ fp \in DataPaths /\ link \in Links /\ bf \in BOOLEAN
    BY Types DEF Inv
  <1>2. /\ UNCHANGED <<ring, adm, io, bf, cache, own, kept>>
        /\ Settle /\ TrackLink(FALSE) /\ fp' = Quiesce(fp, ctl.cfs \/ bf)
        /\ ctl' = [ctl EXCEPT !.mask = b] \/ ctl' = [ctl EXCEPT !.intx = b]
    BY DEF WriteMask, WriteCommand
  <1>3. /\ ctl' \in Controls /\ ctl'.en = ctl.en /\ ctl'.rdy = ctl.rdy /\ ctl'.cfs = ctl.cfs
        /\ ctl'.shn = ctl.shn /\ ctl'.shst = ctl.shst
    BY <1>1, <1>2 DEF Controls
  <1>4. Settled /\ pend' \in BOOLEAN /\ irq' \in BOOLEAN
    BY <1>2, SettleIs
  <1>5. LinkTracked
    BY <1>1, <1>2, TrackIs
  <1>6. /\ fp' \in DataPaths /\ SameCursors(fp, fp') /\ fp'.faulted = fp.faulted
        /\ fp'.armed => ~ctl.cfs /\ ~bf
        /\ ~ctl.cfs /\ ~bf => fp' = fp
    <2>1. (ctl.cfs \/ bf) \in BOOLEAN
      OBVIOUS
    <2> QED BY <1>1, <1>2, <2>1, QuiesceIs
  <1>7. TypeOK'
    BY <1>1, <1>2, <1>3, <1>4, <1>5, <1>6, Types, NextTypes DEF LinkTracked
  <1>8. HealthKept
    BY <1>2, <1>3, <1>5, <1>6
       DEF Inv, HealthKept, LinkTracked, Cached, Failures, Descriptors, Shutdown, ArmedExactly
  <1>9. kept' /\ Usable' /\ ctl'.shst = 0 /\ ~ctl'.shn /\ adm.sq => fp'.armed
    BY <1>2, <1>3, <1>6 DEF Inv, ArmedExactly, Usable
  <1> QED BY <1>2, <1>3, <1>4, <1>5, <1>6, <1>7, <1>8, <1>9, QuietStep DEF SameQueues

LEMMA InvRejected ==
    ASSUME Inv, RejectedCcWrite
    PROVE  Inv'
  <1>1. TypeOK /\ fp \in DataPaths /\ link \in Links
    BY Types DEF Inv
  <1>2. /\ UNCHANGED <<ctl, pend, irq, ring, adm, io, bf, cache, own>>
        /\ kept' = FALSE /\ fp' = Disarm(fp) /\ TrackLink(TRUE)
    BY DEF RejectedCcWrite
  <1>3. Settled
    BY <1>2 DEF Inv, Cached, Settled
  <1>4. LinkTracked
    BY <1>1, <1>2, TrackIs
  <1>5. fp' \in DataPaths /\ SameCursors(fp, fp') /\ ~fp'.armed
    BY <1>1, <1>2, DisarmIs
  <1>6. TypeOK'
    BY <1>1, <1>2, <1>4, <1>5, Types, NextTypes DEF LinkTracked
  <1>7. HealthKept
    BY <1>2, <1>5 DEF Inv, HealthKept, Cached, Failures, Descriptors, Shutdown
  <1> QED BY <1>2, <1>3, <1>4, <1>5, <1>6, <1>7, QuietStep DEF SameQueues

\* CC written with EN = 1 while enabled.
LEMMA InvWriteShutdown ==
    ASSUME Inv, NEW shn \in BOOLEAN, NEW flushed \in BOOLEAN, WriteShutdown(shn, flushed)
    PROVE  Inv'
  <1>1. /\ TypeOK /\ ctl \in Controls /\ fp \in DataPaths /\ link \in Links /\ bf \in BOOLEAN
        /\ kept \in BOOLEAN
    BY Types DEF Inv
  <1>2. PICK f1, c1, c2, g :
          /\ f1 = (IF shn THEN Disarm(fp) ELSE fp)
          /\ c1 = [ctl EXCEPT !.shn = shn]
          /\ c2 = AfterShutdown(c1, f1, shn, flushed)
          /\ g = FlushFault(c1, f1, shn, flushed)
          /\ ctl' = IF bf THEN Fault(c2) ELSE c2
          /\ fp' = Quiesce(g, ctl'.cfs \/ bf)
    BY DEF WriteShutdown
  <1>3. /\ ctl.en /\ kept' = (kept /\ (ctl.shn => shn))
        /\ UNCHANGED <<ring, adm, io, bf, cache, own>>
        /\ Settle /\ TrackLink(shn)
    BY DEF WriteShutdown
  <1>4. f1 \in DataPaths /\ SameCursors(fp, f1) /\ (f1.armed => ~shn /\ f1 = fp) /\ (~shn => f1 = fp)
    BY <1>1, <1>2, DisarmIs DEF SameCursors
  <1>5. /\ c1 \in Controls /\ c1.shn = shn /\ c1.en = ctl.en /\ c1.rdy = ctl.rdy
        /\ c1.cfs = ctl.cfs /\ c1.shst = ctl.shst
    BY <1>1, <1>2 DEF Controls
  <1>6. ShutdownFacts(c1, f1, shn, c2, g)
    BY <1>1, <1>2, <1>4, <1>5, ShutdownIs
  <1>7. /\ ctl' \in Controls /\ ctl'.en /\ ctl'.rdy = ctl.rdy /\ ctl'.shn = shn
        /\ (c2.cfs \/ bf) => ctl'.cfs
        /\ ctl'.shst = c2.shst
        /\ ~bf => ctl' = c2
    BY <1>2, <1>3, <1>5, <1>6, FaultIs DEF ShutdownFacts
  <1>8. /\ fp' \in DataPaths /\ SameCursors(g, fp') /\ fp'.faulted = g.faulted
        /\ fp'.armed => ~ctl'.cfs /\ ~bf
        /\ ~ctl'.cfs /\ ~bf => fp' = g
    <2>1. (ctl'.cfs \/ bf) \in BOOLEAN /\ g \in DataPaths
      BY <1>6 DEF ShutdownFacts
    <2> QED BY <1>2, <2>1, QuiesceIs
  <1>9. SameCursors(fp, fp')
    BY <1>4, <1>6, <1>8 DEF ShutdownFacts, SameCursors
  <1>10. fp'.armed => /\ ~shn /\ ~ctl'.cfs /\ fp' = fp
    BY <1>4, <1>6, <1>7, <1>8 DEF ShutdownFacts
  <1>11. Settled /\ pend' \in BOOLEAN /\ irq' \in BOOLEAN /\ kept' \in BOOLEAN
    BY <1>1, <1>3, SettleIs
  <1>12. LinkTracked
    BY <1>1, <1>3, TrackIs
  <1>13. TypeOK'
    BY <1>1, <1>3, <1>7, <1>8, <1>11, <1>12, Types, NextTypes DEF LinkTracked
  <1>14. HealthKept
    <2>1. ctl'.shst = 1 => ctl'.cfs
      BY <1>5, <1>6, <1>7 DEF ShutdownFacts, Inv, Shutdown
    <2>2. kept' /\ ctl'.shst = 2 => ~link'.busy /\ (ctl'.cfs \/ ctl'.shn)
      BY <1>3, <1>5, <1>6, <1>7, <1>12 DEF ShutdownFacts, Inv, Shutdown, LinkTracked
    <2>3. fp'.armed => ctl'.rdy /\ ~ctl'.cfs /\ ~ctl'.shn /\ ~fp'.faulted
      BY <1>7, <1>10 DEF Inv, ArmedExactly
    <2> QED BY <1>3, <1>7, <2>1, <2>2, <2>3 DEF HealthKept, Inv, Failures, Cached
  <1>15. kept' /\ Usable' /\ ctl'.shst = 0 /\ ~ctl'.shn /\ adm.sq => fp'.armed
    <2> SUFFICES ASSUME kept', Usable', ctl'.shst = 0, ~ctl'.shn, adm.sq
                 PROVE  fp'.armed
      OBVIOUS
    <2>1. ~shn /\ kept /\ ~bf /\ ~ctl'.cfs /\ ctl'.rdy
      BY <1>3, <1>7 DEF Usable
    <2>2. c2 = c1 /\ g = f1 /\ f1 = fp /\ ctl' = c2 /\ fp' = g
      BY <1>4, <1>6, <1>7, <1>8, <2>1 DEF ShutdownFacts
    <2>3. ~ctl.shn
      BY <1>3, <2>1
    <2> QED BY <1>5, <2>1, <2>2, <2>3 DEF Inv, ArmedExactly, Usable
  <1> QED BY <1>3, <1>7, <1>9, <1>10, <1>11, <1>12, <1>13, <1>14, <1>15, QuietStep DEF SameQueues

\* CC.EN 0 -> 1: there are no queues, so nothing is armed before or after.
LEMMA InvEnable ==
    ASSUME Inv, NEW valid \in BOOLEAN, NEW shn \in BOOLEAN, NEW flushed \in BOOLEAN,
           Enable(valid, shn, flushed)
    PROVE  Inv'
  <1>1. /\ TypeOK /\ ctl \in Controls /\ fp \in DataPaths /\ link \in Links /\ bf \in BOOLEAN
        /\ ring \in Rings
    BY Types DEF Inv
  <1>2. /\ ~ctl.en /\ UNCHANGED <<adm, io, bf, cache, own, kept>>
        /\ Settle /\ TrackLink(shn)
    BY DEF Enable
  <1>3. ~fp.armed /\ ~adm.cq /\ ~adm.sq
    BY <1>2 DEF Inv, ArmedExactly, Descriptors
  <1>4. PICK f1 : /\ f1 = (IF shn THEN Disarm(fp) ELSE fp)
                  /\ f1 \in DataPaths /\ SameCursors(fp, f1) /\ ~f1.armed
    BY <1>1, <1>3, DisarmIs DEF SameCursors
  <1>5. PICK c1 : /\ c1 = [ctl EXCEPT !.en = TRUE, !.shn = shn]
                  /\ c1 \in Controls /\ c1.en /\ c1.shst = ctl.shst
    <2>1. [ctl EXCEPT !.en = TRUE] \in Controls
      BY <1>1 DEF Controls
    <2>2. [ctl EXCEPT !.en = TRUE, !.shn = shn] \in Controls
      BY <2>1 DEF Controls
    <2>3. /\ [ctl EXCEPT !.en = TRUE, !.shn = shn].en = TRUE
          /\ [ctl EXCEPT !.en = TRUE, !.shn = shn].shst = ctl.shst
      BY <1>1 DEF Controls
    <2> QED BY <2>2, <2>3
  <1>6. Settled /\ pend' \in BOOLEAN /\ irq' \in BOOLEAN
    BY <1>2, SettleIs
  <1>7. LinkTracked
    BY <1>1, <1>2, TrackIs
  <1>8. /\ ctl' \in Controls /\ ctl'.en /\ ring' \in Rings
        /\ fp' \in DataPaths /\ SameCursors(fp, fp') /\ ~fp'.armed
        /\ bf => ctl'.cfs
        /\ ring'.fatal => bf
        /\ ring'.pending # 0 => ring'.active
        /\ ctl'.shst = 1 => ctl'.cfs
        /\ ctl'.shst = 2 => ctl'.cfs \/ (~link.busy /\ shn /\ ctl'.shn = shn)
        /\ ctl'.shst = 2 => (ctl.shst = 2 \/ ~link.busy)
    <2>1. CASE ctl' = Fault(c1) /\ fp' = Disarm(f1) /\ UNCHANGED ring
      <3>1. ctl' \in Controls /\ ctl'.en /\ ctl'.cfs /\ ctl'.shst = ctl.shst
        BY <1>5, <2>1, FaultIs
      <3>2. fp' \in DataPaths /\ SameCursors(fp, fp') /\ ~fp'.armed
        BY <1>4, <2>1, DisarmIs DEF SameCursors
      <3>3. /\ ring' \in Rings /\ (ring'.fatal => bf) /\ (ring'.pending # 0 => ring'.active)
        BY <1>1, <2>1 DEF Inv, Failures, Cached
      <3> QED BY <3>1, <3>2, <3>3
    <2>2. CASE \E c2 : /\ c2 = [c1 EXCEPT !.rdy = TRUE, !.cfs = FALSE, !.shst = 0] /\ ~bf
                       /\ ring' = [active |-> TRUE, fatal |-> FALSE, pending |-> 0]
                       /\ ctl' = AfterShutdown(c2, f1, shn, flushed)
                       /\ fp' = Quiesce(FlushFault(c2, f1, shn, flushed), ctl'.cfs)
      <3>1. PICK c2 : /\ c2 = [c1 EXCEPT !.rdy = TRUE, !.cfs = FALSE, !.shst = 0]
                      /\ ctl' = AfterShutdown(c2, f1, shn, flushed)
                      /\ fp' = Quiesce(FlushFault(c2, f1, shn, flushed), ctl'.cfs)
        BY <2>2
      <3>2. c2 \in Controls /\ c2.en /\ c2.shst = 0 /\ c2.shn = shn
        <4>1. [c1 EXCEPT !.rdy = TRUE] \in Controls
          BY <1>5 DEF Controls
        <4>2. [c1 EXCEPT !.rdy = TRUE, !.cfs = FALSE] \in Controls
          BY <4>1 DEF Controls
        <4>3. [c1 EXCEPT !.rdy = TRUE, !.cfs = FALSE, !.shst = 0] \in Controls
          BY <4>2, 0 \in 0..2 DEF Controls
        <4>4. c1.shn = shn
          BY <1>1, <1>5 DEF Controls
        <4>5. c2.en = c1.en /\ c2.shst = 0 /\ c2.shn = c1.shn
          BY <1>5, <3>1 DEF Controls
        <4> QED BY <1>5, <3>1, <4>3, <4>4, <4>5
      <3>3. ShutdownFacts(c2, f1, shn, ctl', FlushFault(c2, f1, shn, flushed))
        BY <1>1, <1>4, <3>1, <3>2, ShutdownIs
      <3>4. fp' \in DataPaths /\ SameCursors(FlushFault(c2, f1, shn, flushed), fp') /\ ~fp'.armed
        <4>1. PICK g : g = FlushFault(c2, f1, shn, flushed) /\ g \in DataPaths /\ ~g.armed
          BY <1>4, <3>3 DEF ShutdownFacts
        <4>2. ctl'.cfs \in BOOLEAN
          BY <3>3 DEF ShutdownFacts, Controls
        <4> QED BY <3>1, <4>1, <4>2, QuiesceIs
      <3>5. SameCursors(fp, fp')
        BY <1>4, <3>3, <3>4 DEF ShutdownFacts, SameCursors
      <3>6. ring' \in Rings /\ ~ring'.fatal /\ ring'.pending = 0
        BY <2>2, FrontendAssumption DEF Rings
      <3>7. ~bf
        BY <2>2
      <3>8. /\ ctl' \in Controls /\ ctl'.en /\ ctl'.shn = shn
            /\ ctl'.shst = 1 => ctl'.cfs
            /\ ctl'.shst = 2 => shn /\ ~link.busy
        BY <3>2, <3>3 DEF ShutdownFacts
      <3> QED BY <3>4, <3>5, <3>6, <3>7, <3>8
    <2> QED BY <1>4, <1>5, <2>1, <2>2 DEF Enable
  <1>9. TypeOK'
    BY <1>1, <1>2, <1>6, <1>7, <1>8, Types, NextTypes DEF LinkTracked
  <1>10. HealthKept
    BY <1>2, <1>7, <1>8 DEF HealthKept, LinkTracked, Inv, Shutdown
  <1> QED BY <1>2, <1>3, <1>6, <1>7, <1>8, <1>9, <1>10, QuietStep DEF SameQueues

(***************************************************************************)
(* CC.EN = 0.                                                              *)
(***************************************************************************)
\* The queues are gone; the cursors are cleared or the controller has failed.
LEMMA InvDisable ==
    ASSUME Inv, NEW shn \in BOOLEAN, NEW flushed \in BOOLEAN, Disable(shn, flushed)
    PROVE  Inv'
  <1>1. /\ TypeOK /\ ctl \in Controls /\ fp \in DataPaths /\ link \in Links
        /\ adm \in AdminStates
    BY Types DEF Inv
  <1>0. PICK cancelled \in BOOLEAN : cancelled = (~link.busy /\ ~fp.faulted)
    OBVIOUS
  <1>2. PICK f1, c1, c2, g :
          /\ cancelled <=> ~link.busy /\ ~fp.faulted
          /\ f1 = (IF cancelled THEN ClearSq(ClearCq(Disarm(fp))) ELSE Disarm(fp))
          /\ c1 = [ctl EXCEPT !.en = FALSE, !.shn = shn, !.rdy = FALSE, !.cfs = FALSE, !.shst = 0]
          /\ c2 = AfterShutdown(c1, f1, shn, flushed)
          /\ g = FlushFault(c1, f1, shn, flushed)
          /\ bf' = ~cancelled
          /\ ctl' = (IF cancelled THEN c2 ELSE Fault(c2))
          /\ fp' = Quiesce(g, ctl'.cfs)
    BY <1>0 DEF Disable
  <1>3. /\ ring' = [active |-> FALSE, fatal |-> FALSE, pending |-> 0]
        /\ adm' = AdminReset(adm, FALSE) /\ io' = FALSE /\ kept' = TRUE
        /\ UNCHANGED <<cache, own>> /\ Settle /\ TrackLink(TRUE)
    BY DEF Disable
  <1>4. /\ f1 \in DataPaths /\ ~f1.armed /\ IoDepth >= 2 /\ IoDepth \in Nat
        /\ f1.cqPending = Apart(f1.cqHead, f1.cqTail)
        /\ cancelled => f1.cqPending = 0 /\ f1.sqHead = f1.sqTail
        /\ f1.cqPending <= fp.cqPending
    <2>1. PICK d : d = Disarm(fp) /\ d \in DataPaths /\ SameCursors(fp, d) /\ ~d.armed
      BY <1>1, DisarmIs
    <2>2. IoDepth \in Nat /\ IoDepth >= 2 /\ 0 \in 0..IoDepth-1
      BY FrontendAssumption
    <2>3. CASE ~cancelled
      BY <1>2, <2>1, <2>2, <2>3 DEF Inv, IoRingExact, SameCursors, DataPaths
    <2>4. CASE cancelled
      <3>1. PICK e : e = ClearCq(d) /\ e \in DataPaths /\ ~e.armed
                     /\ e.cqHead = 0 /\ e.cqTail = 0 /\ e.cqPending = 0
        BY <2>1, <2>2, ClearCqIs
      <3>2. f1 = ClearSq(e)
        BY <1>2, <2>1, <2>4, <3>1
      <3>3. /\ f1 \in DataPaths /\ ~f1.armed /\ f1.cqHead = 0 /\ f1.cqTail = 0
            /\ f1.cqPending = 0 /\ f1.sqHead = 0 /\ f1.sqTail = 0
        BY <2>2, <3>1, <3>2, ClearSqIs
      <3>4. Apart(0, 0) = 0
        BY <2>2, ApartIs
      <3> QED BY <1>1, <2>2, <3>3, <3>4 DEF DataPaths
    <2> QED BY <2>3, <2>4
  <1>5. c1 \in Controls /\ ~c1.en /\ ~c1.rdy /\ ~c1.cfs /\ c1.shst = 0 /\ c1.shn = shn
    <2>1. c1 = [en |-> FALSE, shn |-> shn, rdy |-> FALSE, cfs |-> FALSE, shst |-> 0,
                mask |-> ctl.mask, intx |-> ctl.intx]
      BY <1>1, <1>2 DEF Controls
    <2> QED BY <1>1, <2>1 DEF Controls
  <1>6. ShutdownFacts(c1, f1, shn, c2, g)
    BY <1>1, <1>2, <1>4, <1>5, ShutdownIs
  <1>7. /\ ctl' \in Controls /\ ~ctl'.en /\ ~ctl'.rdy /\ ctl'.shn = shn
        /\ bf' => ctl'.cfs
        /\ ctl'.shst = 1 => ctl'.cfs
        /\ ctl'.shst = 2 => shn /\ ~link.busy
    <2>1. /\ c2 \in Controls /\ ~c2.en /\ ~c2.rdy /\ c2.shn = shn
          /\ c2.shst = 1 => c2.cfs
          /\ c2.shst = 2 => shn /\ ~link.busy
      BY <1>5, <1>6 DEF ShutdownFacts
    <2>2. CASE cancelled
      BY <1>2, <2>1, <2>2
    <2>3. CASE ~cancelled
      BY <1>2, <2>1, <2>3, FaultIs
    <2> QED BY <2>2, <2>3
  <1>8. fp' \in DataPaths /\ SameCursors(f1, fp') /\ ~fp'.armed
    <2>1. g \in DataPaths /\ SameCursors(f1, g) /\ ~g.armed
      BY <1>4, <1>6 DEF ShutdownFacts
    <2>2. ctl'.cfs \in BOOLEAN
      BY <1>7 DEF Controls
    <2>3. fp' \in DataPaths /\ SameCursors(g, fp') /\ ~fp'.armed
      BY <1>2, <2>1, <2>2, QuiesceIs, ZenonT(60)
    <2> QED BY <2>1, <2>3 DEF SameCursors
  <1>9. adm' \in AdminStates /\ ~adm'.sq /\ ~adm'.cq
    <2>1. adm' \in AdminStates
      BY <1>1, <1>3, AdminResetType
    <2>2. adm'.sq = FALSE /\ adm'.cq = FALSE
      BY <1>3 DEF AdminReset
    <2> QED BY <2>1, <2>2
  <1>10. Settled /\ pend' \in BOOLEAN /\ irq' \in BOOLEAN
    BY <1>3, SettleIs
  <1>11. LinkTracked
    BY <1>1, <1>3, TrackIs
  <1>12. ring' \in Rings /\ ~ring'.fatal /\ ring'.pending = 0
    BY <1>3, FrontendAssumption DEF Rings
  <1>13. TypeOK'
    BY <1>1, <1>2, <1>3, <1>7, <1>8, <1>9, <1>10, <1>11, <1>12, Types, NextTypes DEF LinkTracked
  <1>14. Cached'
    BY <1>3, <1>9, <1>10, <1>12 DEF Cached, Settled
  <1>15. Failures' /\ Descriptors'
    BY <1>2, <1>4, <1>7, <1>8, <1>9, <1>12, ZenonT(30) DEF Failures, Descriptors, SameCursors
  <1>16. Shutdown'
    BY <1>7, <1>8, <1>11 DEF Shutdown, LinkTracked
  <1>17. Request'
    BY <1>1, <1>4, <1>8, <1>11 DEF Inv, Request, LinkTracked, SameCursors, DataPaths
  <1>18. ArmedExactly' /\ IoRingExact' /\ NoLostWakeup'
    BY <1>4, <1>8, <1>9 DEF ArmedExactly, IoRingExact, NoLostWakeup, SameCursors
  <1> QED BY <1>13, <1>14, <1>15, <1>16, <1>17, <1>18 DEF Inv

(***************************************************************************)
(* Admin queue.                                                            *)
(***************************************************************************)
\* A failure of the ring, or a bad doorbell of the data path.
LEMMA InvFails ==
    ASSUME Inv, AdminFails \/ BadIoDoorbell
    PROVE  Inv'
  <1>1. TypeOK /\ ctl \in Controls /\ fp \in DataPaths /\ link \in Links /\ ring \in Rings
    BY Types DEF Inv
  <1>2. /\ UNCHANGED <<adm, io, cache, own, kept>> /\ TrackLink(FALSE)
        /\ fp' = Disarm(fp) /\ ctl' = Fault(ctl) /\ bf' = TRUE
        /\ ring' \in {ring, [ring EXCEPT !.fatal = TRUE]}
        /\ Settle \/ (UNCHANGED <<pend, ring>> /\ irq' = FALSE)
    BY DEF AdminFails, RingFails, BadIoDoorbell
  <1>3. /\ ctl' \in Controls /\ ctl'.cfs /\ ctl'.en = ctl.en /\ ctl'.rdy = ctl.rdy
        /\ ctl'.shn = ctl.shn /\ ctl'.shst = ctl.shst
    BY <1>1, <1>2, FaultIs
  <1>4. Settled /\ pend' \in BOOLEAN /\ irq' \in BOOLEAN
    <2>1. CASE Settle
      BY <2>1, SettleIs
    <2>2. CASE UNCHANGED <<pend, ring>> /\ irq' = FALSE
      BY <1>1, <1>2, <1>3, <2>2, Types DEF Inv, Cached, Settled
    <2> QED BY <1>2, <2>1, <2>2
  <1>5. LinkTracked
    BY <1>1, <1>2, TrackIs
  <1>6. fp' \in DataPaths /\ SameCursors(fp, fp') /\ ~fp'.armed
    BY <1>1, <1>2, DisarmIs
  <1>7. /\ ring' \in Rings /\ ring'.pending = ring.pending /\ ring'.active = ring.active
    BY <1>1, <1>2 DEF Rings
  <1>8. TypeOK'
    BY <1>1, <1>2, <1>3, <1>4, <1>5, <1>6, <1>7, Types, NextTypes DEF LinkTracked
  <1>9. HealthKept
    BY <1>2, <1>3, <1>5, <1>6, <1>7
       DEF Inv, HealthKept, LinkTracked, Cached, Descriptors, Shutdown
  <1>10. ~Usable'
    BY <1>2 DEF Usable
  <1> QED BY <1>2, <1>3, <1>4, <1>5, <1>6, <1>8, <1>9, <1>10, QuietStep DEF SameQueues

LEMMA InvAdminAck ==
    ASSUME Inv, NEW n \in Nat, AdminAck(n)
    PROVE  Inv'
  <1>1. TypeOK /\ ctl \in Controls /\ fp \in DataPaths /\ link \in Links /\ ring \in Rings
    BY Types DEF Inv
  <1>2. /\ UNCHANGED <<ctl, adm, io, bf, cache, own, fp, kept>> /\ TrackLink(FALSE) /\ Settle
        /\ ring.active /\ n \in 1..ring.pending
        /\ ring' = [ring EXCEPT !.pending = @ - n]
    BY DEF AdminAck
  <1>3. Settled /\ pend' \in BOOLEAN /\ irq' \in BOOLEAN
    BY <1>2, SettleIs
  <1>4. LinkTracked
    BY <1>1, <1>2, TrackIs
  <1>5. ring' \in Rings /\ ring'.active = ring.active /\ ring'.fatal = ring.fatal
    <2>1. ring.pending - n \in 0..AdminDepth-1
      BY <1>1, <1>2, FrontendAssumption DEF Rings
    <2> QED BY <1>1, <1>2, <2>1 DEF Rings
  <1>6. TypeOK'
    BY <1>1, <1>2, <1>3, <1>4, <1>5, Types, NextTypes DEF LinkTracked
  <1>7. HealthKept
    BY <1>2, <1>4, <1>5
       DEF Inv, HealthKept, LinkTracked, Failures, Descriptors, Shutdown, ArmedExactly
  <1>8. SameCursors(fp, fp')
    BY <1>2 DEF SameCursors
  <1>9. kept' /\ Usable' /\ ctl'.shst = 0 /\ ~ctl'.shn /\ adm.sq => fp'.armed
    BY <1>2 DEF Inv, ArmedExactly, Usable
  <1> QED BY <1>2, <1>3, <1>4, <1>6, <1>7, <1>8, <1>9, QuietStep DEF SameQueues

\* s229_reconcile, field by field.
LEMMA ReconciledIs ==
    ASSUME Inv, NEW s \in AdminStates
    PROVE  LET f == Reconciled(s)
               same == own.sqGen = s.sqGen /\ own.cqGen = s.cqGen
           IN  /\ f \in DataPaths /\ f.faulted = fp.faulted
               /\ f.sqGen = Truncated(s.sqGen) /\ f.cqGen = Truncated(s.cqGen)
               /\ f.cqPending = Apart(f.cqHead, f.cqTail)
               /\ own.sqGen # s.sqGen => f.sqHead = f.sqTail
               /\ own.sqGen = s.sqGen => f.sqHead = fp.sqHead /\ f.sqTail = fp.sqTail
               /\ f.cqPending = IF own.cqGen = s.cqGen THEN fp.cqPending ELSE 0
               /\ f.armed <=> (fp.armed /\ same) \/ (s.sq /\ s.cq /\ ~ctl.shn)
               /\ same => f.deferred = fp.deferred
  <1>1. fp \in DataPaths /\ ctl \in Controls
    BY Types DEF Inv
  <1>2. 0 \in 0..IoDepth-1 /\ Apart(0, 0) = 0
    BY FrontendAssumption, ApartIs
  <1>3. PICK f1 : /\ f1 = IF own.sqGen # s.sqGen \/ own.cqGen # s.cqGen THEN Disarm(fp) ELSE fp
                  /\ f1 \in DataPaths /\ SameCursors(fp, f1) /\ f1.faulted = fp.faulted
                  /\ f1.armed <=> fp.armed /\ own.sqGen = s.sqGen /\ own.cqGen = s.cqGen
                  /\ own.sqGen = s.sqGen /\ own.cqGen = s.cqGen => f1 = fp
    BY <1>1, DisarmIs DEF SameCursors
  <1>4. PICK f2 : /\ f2 = IF own.sqGen # s.sqGen THEN ClearSq(f1) ELSE f1
                  /\ f2 \in DataPaths /\ f2.faulted = f1.faulted
                  /\ f2.armed = f1.armed /\ f2.deferred = f1.deferred
                  /\ f2.cqHead = f1.cqHead /\ f2.cqTail = f1.cqTail /\ f2.cqPending = f1.cqPending
                  /\ own.sqGen # s.sqGen => f2.sqHead = f2.sqTail
                  /\ own.sqGen = s.sqGen => f2.sqHead = f1.sqHead /\ f2.sqTail = f1.sqTail
    BY <1>2, <1>3, ClearSqIs
  <1>5. PICK f3 : /\ f3 = IF own.cqGen # s.cqGen THEN ClearCq(f2) ELSE f2
                  /\ f3 \in DataPaths /\ f3.faulted = f2.faulted
                  /\ f3.armed = f2.armed /\ f3.deferred = f2.deferred
                  /\ f3.sqHead = f2.sqHead /\ f3.sqTail = f2.sqTail
                  /\ own.cqGen # s.cqGen => f3.cqHead = 0 /\ f3.cqTail = 0 /\ f3.cqPending = 0
                  /\ own.cqGen = s.cqGen => f3 = f2
    BY <1>2, <1>4, ClearCqIs
  <1>6. Truncated(s.sqGen) \in 0..TruncModulus-1 /\ Truncated(s.cqGen) \in 0..TruncModulus-1
    BY FrontendAssumption, GenAssumption DEF Truncated, AdminStates
  <1>7. PICK f4 : /\ f4 = [f3 EXCEPT !.sqGen = Truncated(s.sqGen), !.cqGen = Truncated(s.cqGen)]
                  /\ f4 \in DataPaths
    <2>1. [f3 EXCEPT !.sqGen = Truncated(s.sqGen)] \in DataPaths
      BY <1>5, <1>6 DEF DataPaths
    <2>2. [f3 EXCEPT !.sqGen = Truncated(s.sqGen), !.cqGen = Truncated(s.cqGen)] \in DataPaths
      BY <1>6, <2>1 DEF DataPaths
    <2> QED BY <2>2
  <1>8. /\ f4.sqGen = Truncated(s.sqGen) /\ f4.cqGen = Truncated(s.cqGen)
        /\ f4.faulted = f3.faulted /\ f4.armed = f3.armed /\ f4.deferred = f3.deferred
        /\ f4.sqHead = f3.sqHead /\ f4.sqTail = f3.sqTail /\ f4.cqHead = f3.cqHead
        /\ f4.cqTail = f3.cqTail /\ f4.cqPending = f3.cqPending
    BY <1>5, <1>7 DEF DataPaths
  <1>9. PICK a \in BOOLEAN : /\ a <=> f4.armed \/ (s.sq /\ s.cq /\ ~ctl.shn)
                             /\ Reconciled(s) = [f4 EXCEPT !.armed = a]
    BY <1>3, <1>4, <1>5, <1>7 DEF Reconciled, Rearmed
  <1>10. PICK f : f = Reconciled(s) /\ f \in DataPaths /\ f.armed = a
                  /\ SameCursors(f4, f) /\ f.faulted = f4.faulted /\ f.deferred = f4.deferred
    <2>1. [f4 EXCEPT !.armed = a] \in DataPaths
      BY <1>7 DEF DataPaths
    <2>2. [f4 EXCEPT !.armed = a].armed = a
      BY <1>7 DEF DataPaths
    <2>3. /\ SameCursors(f4, [f4 EXCEPT !.armed = a])
          /\ [f4 EXCEPT !.armed = a].faulted = f4.faulted
          /\ [f4 EXCEPT !.armed = a].deferred = f4.deferred
      BY <1>7 DEF DataPaths, SameCursors
    <2> QED BY <1>9, <2>1, <2>2, <2>3
  <1>11. fp.cqPending = Apart(fp.cqHead, fp.cqTail)
    BY DEF Inv, IoRingExact
  <1>12. /\ f.faulted = fp.faulted
         /\ f.sqGen = Truncated(s.sqGen) /\ f.cqGen = Truncated(s.cqGen)
         /\ own.sqGen # s.sqGen => f.sqHead = f.sqTail
         /\ own.sqGen = s.sqGen => f.sqHead = fp.sqHead /\ f.sqTail = fp.sqTail
         /\ own.sqGen = s.sqGen /\ own.cqGen = s.cqGen => f.deferred = fp.deferred
    BY <1>3, <1>4, <1>5, <1>8, <1>10 DEF SameCursors
  <1>13. /\ f.cqPending = Apart(f.cqHead, f.cqTail)
         /\ f.cqPending = IF own.cqGen = s.cqGen THEN fp.cqPending ELSE 0
    BY <1>2, <1>3, <1>4, <1>5, <1>8, <1>10, <1>11 DEF SameCursors
  <1>14. f.armed <=> \/ fp.armed /\ own.sqGen = s.sqGen /\ own.cqGen = s.cqGen
                     \/ s.sq /\ s.cq /\ ~ctl.shn
    BY <1>3, <1>4, <1>5, <1>8, <1>9, <1>10
  <1> QED BY <1>10, <1>12, <1>13, <1>14

\* An accepted Set of the cache policy has operand 0 or 1.
LEMMA CacheOperand ==
    ASSUME NEW c \in AllCommands, NEW s, NEW ok, "cache" \in Changed(c, Status(s, c, ok))
    PROVE  c.arg \in 0..1
  <1>1. Status(s, c, ok) = Success /\ c.op = "SetCache"
    BY DEF Changed
  <1>2. c.ok
    BY <1>1 DEF Status, Success, InvalidField
  <1> QED BY <1>1, <1>2 DEF AllCommands

\* A command that changed descriptors was reconciled and is completed.
LEMMA ReconciledStep ==
    ASSUME Inv, NEW c \in AllCommands, NEW ok \in BOOLEAN, NEW s, NEW ch,
           s = Execute(adm, c, Status(adm, c, ok)), ch = Changed(c, Status(adm, c, ok)),
           TypeOK', Settled, link'.busy = link.busy,
           Usable, ~link.busy, ~fp.faulted, ~ring'.fatal, ring'.pending # 0 => ring'.active,
           adm' = s, own' = [sqGen |-> s.sqGen, cqGen |-> s.cqGen],
           io' = (io /\ "cq" \notin ch),
           ctl' = ctl, bf' = bf, kept' = kept, fp' = Reconciled(s)
    PROVE  Inv'
  <1>1. adm \in AdminStates /\ own \in Owners /\ ctl \in Controls /\ io \in BOOLEAN
    BY Types DEF Inv
  <1>2. s \in AdminStates
    BY <1>1, ExecuteType
  <1>3. /\ "sq" \notin ch => s.sq = adm.sq /\ s.sqGen = adm.sqGen
        /\ "cq" \notin ch => s.cq = adm.cq /\ s.ien = adm.ien /\ s.cqGen = adm.cqGen
        /\ "sq" \in ch => s.sqGen = NextGen(adm.sqGen)
        /\ "cq" \in ch => s.cqGen = NextGen(adm.cqGen)
    BY <1>1, ChangedIsTrue
  <1>4. (s.sq => s.cq) /\ ("cq" \in ch => ~s.sq)
    BY <1>1, PairKept DEF Inv, Descriptors
  <1>5. NextGen(adm.sqGen) # adm.sqGen /\ NextGen(adm.cqGen) # adm.cqGen
    BY <1>1, NextGenDiffers DEF AdminStates
  <1>6. ~bf /\ ctl.rdy /\ ~ctl.cfs
    BY DEF Usable
  <1>7. adm.cq => own.sqGen = adm.sqGen /\ own.cqGen = adm.cqGen
    BY <1>6 DEF Inv, Descriptors
  <1>8. own.sqGen = s.sqGen => "sq" \notin ch \/ ~adm.sq
    BY <1>3, <1>5, <1>7 DEF Inv, Descriptors
  <1>9. own.cqGen = s.cqGen => "cq" \notin ch \/ ~adm.cq
    BY <1>3, <1>5, <1>7
  <1>10. /\ fp'.faulted = fp.faulted
         /\ fp'.sqGen = Truncated(s.sqGen) /\ fp'.cqGen = Truncated(s.cqGen)
         /\ fp'.cqPending = Apart(fp'.cqHead, fp'.cqTail)
         /\ own.sqGen # s.sqGen => fp'.sqHead = fp'.sqTail
         /\ own.sqGen = s.sqGen => fp'.sqHead = fp.sqHead /\ fp'.sqTail = fp.sqTail
         /\ fp'.cqPending = IF own.cqGen = s.cqGen THEN fp.cqPending ELSE 0
         /\ fp'.armed <=> \/ fp.armed /\ own.sqGen = s.sqGen /\ own.cqGen = s.cqGen
                          \/ s.sq /\ s.cq /\ ~ctl.shn
         /\ own.sqGen = s.sqGen /\ own.cqGen = s.cqGen => fp'.deferred = fp.deferred
    BY <1>2, ReconciledIs
  <1>11. ~s.sq => fp'.sqHead = fp'.sqTail
    <2>1. ~s.sq /\ own.sqGen = s.sqGen => ~adm.sq
      BY <1>3, <1>8
    <2> QED BY <1>6, <1>10, <2>1 DEF Inv, Descriptors
  <1>12. ~s.cq => fp'.cqPending = 0
    <2>1. ~s.cq /\ own.cqGen = s.cqGen => ~adm.cq
      BY <1>3, <1>9
    <2> QED BY <1>6, <1>10, <2>1 DEF Inv, Descriptors
  <1>13. io' <=> fp'.cqPending # 0 /\ adm'.cq /\ adm'.ien
    <2>1. io <=> fp.cqPending # 0 /\ adm.cq /\ adm.ien
      BY <1>6 DEF Inv, Cached
    <2>2. CASE "cq" \in ch
      <3>1. fp'.cqPending = 0
        BY <1>6, <1>9, <1>10, <2>2 DEF Inv, Descriptors
      <3> QED BY <2>2, <3>1
    <2>3. CASE "cq" \notin ch
      <3>1. adm.cq => fp'.cqPending = fp.cqPending
        BY <1>3, <1>7, <1>10, <2>3
      <3> QED BY <1>3, <2>1, <2>3, <3>1
    <2> QED BY <2>2, <2>3
  <1>14. Cached'
    BY <1>13 DEF Settled, Cached
  <1>15. Failures'
    BY <1>6 DEF Failures
  <1>16. Descriptors'
    BY <1>4, <1>6, <1>11, <1>12 DEF Inv, Descriptors
  <1>17. Shutdown' /\ Request'
    BY <1>10 DEF Inv, Shutdown, Request
  <1>18. fp'.armed => s.sq /\ s.cq
    <2>1. fp.armed /\ own.sqGen = s.sqGen /\ own.cqGen = s.cqGen => s.sq
      BY <1>3, <1>8 DEF Inv, ArmedExactly
    <2> QED BY <1>4, <1>10, <2>1
  <1>19. ArmedExactly'
    BY <1>4, <1>6, <1>10, <1>18 DEF ArmedExactly
  <1>20. IoRingExact'
    BY <1>10 DEF IoRingExact
  <1>21. NoLostWakeup'
    <2> SUFFICES ASSUME kept, fp'.armed, fp'.sqHead # fp'.sqTail
                 PROVE  fp'.deferred
      BY DEF NoLostWakeup
    <2>1. own.sqGen = s.sqGen /\ fp.sqHead # fp.sqTail
      BY <1>10
    <2>2. adm.sq /\ adm.cq
      BY <1>6, <2>1 DEF Inv, Descriptors
    <2>3. "cq" \notin ch
      BY <1>4, <1>18
    <2>4. own.cqGen = s.cqGen
      BY <1>3, <1>7, <2>2, <2>3
    <2>5. ctl.shst = 0 /\ ~ctl.shn
      <3>1. ctl.shst \in 0..2 /\ ctl.shst # 1
        BY <1>1, <1>6 DEF Inv, Shutdown, Controls
      <3>2. ~ctl.shn
        BY <1>10 DEF Inv, Shutdown
      <3> QED BY <1>6, <3>1, <3>2 DEF Inv, Shutdown
    <2>6. fp.armed
      BY <2>2, <2>5 DEF Inv, ArmedExactly
    <2> QED BY <1>10, <2>1, <2>4, <2>6 DEF Inv, NoLostWakeup
  <1> QED BY <1>14, <1>15, <1>16, <1>17, <1>19, <1>20, <1>21 DEF Inv

\* A command whose execution failed: the path is disarmed and CFS is set, with
\* the descriptors of the admin state already changed.
LEMMA FailedCommandStep ==
    ASSUME Inv, TypeOK', Settled, link'.busy = link.busy,
           bf' = TRUE, ctl'.cfs, ctl'.en = ctl.en, ctl'.rdy = ctl.rdy, ctl'.shn = ctl.shn,
           ctl'.shst = ctl.shst, kept' = kept, ctl.en,
           ring'.pending # 0 => ring'.active,
           adm'.sq => adm'.cq,
           ~fp'.armed, fp'.cqPending = Apart(fp'.cqHead, fp'.cqTail),
           fp'.cqPending <= fp.cqPending
    PROVE  Inv'
  <1>1. Cached'
    BY DEF Cached, Settled
  <1>2. Failures' /\ Descriptors' /\ Shutdown'
    BY DEF Inv, Failures, Descriptors, Shutdown
  <1>3. fp \in DataPaths /\ fp' \in DataPaths /\ IoDepth \in Nat
    BY Types, FrontendAssumption DEF Inv, TypeOK
  <1>4. Request'
    BY <1>3 DEF Inv, Request, DataPaths
  <1>5. ArmedExactly' /\ IoRingExact' /\ NoLostWakeup'
    BY DEF ArmedExactly, Usable, IoRingExact, NoLostWakeup
  <1> QED BY <1>1, <1>2, <1>4, <1>5 DEF Inv

LEMMA InvAdminTake ==
    ASSUME Inv, NEW c \in AdminCommands, NEW failing, AdminTake(c, failing)
    PROVE  Inv'
  <1> DEFINE drains == c.op = "SetCache" /\ c.ok /\ cache = 1 /\ c.arg = 0
             setOk == drains => FlushOk(fp, failing # "flush")
             status == Status(adm, c, setOk)
             s == Execute(adm, c, status)
             changes == Changed(c, status)
             touched == changes # {} /\ ~link.busy /\ ~fp.faulted
             reconciled == touched /\ (Arms(s) => failing # "map")
             completes == setOk /\ (changes = {} \/ reconciled)
                          /\ (Deferred(c, status) \/ failing # "store")
             f == IF touched THEN Reconciled(s) ELSE fp
  <1>1. /\ Usable /\ ring.active /\ ~ring.fatal /\ ring.pending < AdminDepth - 1
        /\ adm' = s /\ Settle /\ TrackLink(FALSE) /\ kept' = kept
        /\ cache' = (IF "cache" \in changes THEN c.arg ELSE cache)
        /\ own' = (IF touched THEN [sqGen |-> s.sqGen, cqGen |-> s.cqGen] ELSE own)
        /\ io' = (io /\ ~("cq" \in changes /\ reconciled))
    BY DEF AdminTake
  <1>2. \/ /\ completes /\ fp' = f /\ UNCHANGED <<ctl, bf>>
           /\ ring' = [ring EXCEPT !.pending = IF Deferred(c, status) THEN @ ELSE @ + 1]
        \/ /\ ~completes /\ RingFails
           /\ fp' = [Disarm(f) EXCEPT !.faulted = @ \/ ~setOk]
    BY DEF AdminTake
  <1>3. /\ TypeOK /\ ctl \in Controls /\ fp \in DataPaths /\ link \in Links /\ ring \in Rings
        /\ adm \in AdminStates /\ own \in Owners /\ io \in BOOLEAN /\ cache \in 0..1
        /\ kept \in BOOLEAN /\ bf \in BOOLEAN
    BY Types DEF Inv
  <1>4. c \in AllCommands /\ setOk \in BOOLEAN
    BY FrontendAssumption
  <1>5. completes => (changes = {} /\ ~touched) \/ reconciled
    OBVIOUS
  <1>6. touched => ~link.busy /\ ~fp.faulted
    OBVIOUS
  <1>7. reconciled => touched
    OBVIOUS
  <1>8. s = Execute(adm, c, Status(adm, c, setOk)) /\ changes = Changed(c, Status(adm, c, setOk))
    OBVIOUS
  <1>9. (touched => f = Reconciled(s)) /\ (~touched => f = fp)
    OBVIOUS
  <1> HIDE DEF drains, setOk, status, s, changes, touched, reconciled, completes, f
  <1>10. s \in AdminStates /\ (s.sq => s.cq)
    BY <1>3, <1>4, <1>8, ExecuteType, PairKept DEF Inv, Descriptors
  <1>11. f \in DataPaths /\ f.cqPending = Apart(f.cqHead, f.cqTail) /\ f.cqPending <= fp.cqPending
    <2>1. CASE touched
      <3>1. /\ f \in DataPaths /\ f.cqPending = Apart(f.cqHead, f.cqTail)
            /\ f.cqPending = IF own.cqGen = s.cqGen THEN fp.cqPending ELSE 0
        BY <1>9, <1>10, <2>1, ReconciledIs
      <3> QED BY <1>3, <3>1, FrontendAssumption DEF DataPaths
    <2>2. CASE ~touched
      BY <1>3, <1>9, <2>2, FrontendAssumption DEF Inv, IoRingExact, DataPaths
    <2> QED BY <2>1, <2>2
  <1>12. cache' \in 0..1
    BY <1>1, <1>3, <1>4, <1>8, CacheOperand
  <1>13. own' \in Owners
    BY <1>1, <1>3, <1>10 DEF Owners, AdminStates
  <1>14. io' \in BOOLEAN /\ kept' \in BOOLEAN /\ Settled /\ pend' \in BOOLEAN /\ irq' \in BOOLEAN
    BY <1>1, <1>3, SettleIs
  <1>15. link' \in Links /\ link'.busy = link.busy
    BY <1>1, <1>3, TrackTypes
  <1>16. CASE completes
    <2>1. fp' = f /\ ctl' = ctl /\ bf' = bf
      BY <1>2, <1>16
    <2>2. ring' \in Rings /\ ring'.active /\ ~ring'.fatal
      <3>1. PICK n \in 0..AdminDepth-1 : ring' = [ring EXCEPT !.pending = n]
        BY <1>1, <1>2, <1>3, <1>16, FrontendAssumption DEF Rings
      <3> QED BY <1>1, <1>3, <3>1 DEF Rings
    <2>3. TypeOK'
      BY <1>1, <1>3, <1>10, <1>11, <1>12, <1>13, <1>14, <1>15, <2>1, <2>2, NextTypes
    <2>4. CASE changes = {} /\ ~touched
      <3>1. SameQueues(adm, adm')
        BY <1>1, <1>3, <1>4, <1>8, <2>4, ChangedIsTrue, ZenonT(60) DEF SameQueues
      <3>2. LinkTracked
        BY <1>1, <1>3, <3>1, TrackIs DEF SameQueues
      <3>3. fp' = fp /\ own' = own /\ io' = io
        BY <1>1, <1>3, <1>9, <2>1, <2>4
      <3>4. HealthKept
        BY <1>1, <1>15, <2>1, <2>2, <3>3
           DEF Inv, HealthKept, Failures, Descriptors, Shutdown, ArmedExactly
      <3>5. SameCursors(fp, fp')
        BY <3>3 DEF SameCursors
      <3>6. kept' /\ Usable' /\ ctl'.shst = 0 /\ ~ctl'.shn /\ adm.sq => fp'.armed
        BY <1>1, <2>1, <3>3 DEF Inv, ArmedExactly, Usable
      <3> QED BY <1>1, <1>14, <2>1, <2>3, <3>1, <3>2, <3>3, <3>4, <3>5, <3>6, QuietStep
    <2>5. CASE reconciled
      <3>1. touched
        BY <1>7, <2>5
      <3>2. /\ own' = [sqGen |-> s.sqGen, cqGen |-> s.cqGen] /\ fp' = Reconciled(s)
            /\ io' = (io /\ "cq" \notin changes)
        BY <1>1, <1>9, <2>1, <2>5, <3>1
      <3>3. ~link.busy /\ ~fp.faulted
        BY <1>6, <3>1
      <3> QED BY <1>1, <1>4, <1>8, <1>14, <1>15, <2>1, <2>2, <2>3, <3>2, <3>3, ReconciledStep
    <2> QED BY <1>5, <1>16, <2>4, <2>5
  <1>17. CASE ~completes
    <2>1. /\ ring' = [ring EXCEPT !.fatal = TRUE] /\ ctl' = Fault(ctl) /\ bf' = TRUE
      BY <1>2, <1>17 DEF RingFails
    <2>2. PICK b \in BOOLEAN : fp' = [Disarm(f) EXCEPT !.faulted = b]
      <3>1. Disarm(f).faulted \in BOOLEAN
        BY <1>11, DisarmIs DEF DataPaths
      <3> QED BY <1>2, <1>4, <1>17, <3>1
    <2>3. PICK d : d = Disarm(f) /\ d \in DataPaths /\ SameCursors(f, d) /\ ~d.armed
      BY <1>11, DisarmIs
    <2>4. fp' \in DataPaths /\ SameCursors(d, fp') /\ fp'.armed = d.armed
      BY <2>2, <2>3 DEF DataPaths, SameCursors
    <2>5. ~fp'.armed /\ fp'.cqPending = Apart(fp'.cqHead, fp'.cqTail) /\ fp'.cqPending <= fp.cqPending
      BY <1>11, <2>3, <2>4 DEF SameCursors
    <2>6. ring' \in Rings /\ ring'.active
      BY <1>1, <1>3, <2>1 DEF Rings
    <2>7. /\ ctl' \in Controls /\ ctl'.cfs /\ ctl'.en = ctl.en /\ ctl'.rdy = ctl.rdy
          /\ ctl'.shn = ctl.shn /\ ctl'.shst = ctl.shst
      BY <1>3, <2>1, FaultIs
    <2>8. TypeOK'
      BY <1>1, <1>10, <1>12, <1>13, <1>14, <1>15, <2>1, <2>4, <2>6, <2>7, NextTypes
    <2>9. ctl.en
      BY <1>1 DEF Usable, Inv, Descriptors
    <2> QED BY <1>1, <1>10, <1>14, <1>15, <2>1, <2>5, <2>6, <2>7, <2>8, <2>9, FailedCommandStep
  <1> QED BY <1>16, <1>17

(***************************************************************************)
(* The data path.                                                          *)
(***************************************************************************)
\* A step of the data path: the descriptors stay, cursors move.
LEMMA PathStep ==
    ASSUME Inv, TypeOK', Settled, adm' = adm, own' = own, ring' = ring, kept' => kept,
           bf => bf', bf' => ctl'.cfs, ctl.cfs => ctl'.cfs,
           ctl'.en = ctl.en, ctl'.rdy = ctl.rdy, ctl'.shn = ctl.shn, ctl'.shst = ctl.shst,
           ~bf' => (io' <=> fp'.cqPending # 0 /\ adm.cq /\ adm.ien),
           fp'.armed => fp.armed /\ ~ctl'.cfs /\ ~fp'.faulted,
           fp'.sqGen = fp.sqGen, fp'.cqGen = fp.cqGen,
           ~ctl'.cfs /\ fp.armed => fp'.armed,
           fp'.cqPending = Apart(fp'.cqHead, fp'.cqTail),
           ~adm.sq /\ fp.sqHead = fp.sqTail => fp'.sqHead = fp'.sqTail,
           ~adm.cq /\ fp.cqPending = 0 => fp'.cqPending = 0,
           kept' /\ fp'.armed /\ ~link'.busy /\ fp'.sqHead # fp'.sqTail => fp'.deferred,
           link'.busy => fp'.cqPending < IoDepth - 1,
           link'.busy /\ link'.sameEpoch /\ fp'.armed => link'.fresh,
           kept' /\ ctl'.shst = 2 => ~link'.busy
    PROVE  Inv'
  <1>1. Cached'
    BY DEF Inv, Cached, Settled
  <1>2. Failures'
    BY DEF Inv, Failures
  <1>3. Descriptors'
    BY DEF Inv, Descriptors
  <1>4. Shutdown'
    BY DEF Inv, Shutdown
  <1>5. Request'
    BY DEF Request
  <1>6. ArmedExactly'
    <2>1. fp'.armed => /\ ctl'.rdy /\ ~ctl'.cfs /\ ~fp'.faulted
                       /\ adm.sq /\ adm.cq
                       /\ own = [sqGen |-> adm.sqGen, cqGen |-> adm.cqGen]
                       /\ fp'.sqGen = Truncated(adm.sqGen)
                       /\ fp'.cqGen = Truncated(adm.cqGen)
      BY DEF Inv, ArmedExactly
    <2>2. kept' /\ Usable' /\ ctl'.shst = 0 /\ ~ctl'.shn /\ adm.sq => fp'.armed
      BY DEF Inv, ArmedExactly, Usable
    <2> QED BY <2>1, <2>2 DEF ArmedExactly
  <1>7. IoRingExact' /\ NoLostWakeup'
    BY DEF IoRingExact, NoLostWakeup
  <1> QED BY <1>1, <1>2, <1>3, <1>4, <1>5, <1>6, <1>7 DEF Inv

\* s229_fast_irq_update reports a path f that the step has made of fp.
LEMMA ReportStep ==
    ASSUME Inv, NEW f \in DataPaths, ReportIo(f), UNCHANGED <<ring, adm, cache, own>>,
           kept' => kept, kept' \in BOOLEAN, link' \in Links,
           f.armed = fp.armed, f.sqGen = fp.sqGen, f.cqGen = fp.cqGen,
           f.cqPending = Apart(f.cqHead, f.cqTail),
           ~adm.sq /\ fp.sqHead = fp.sqTail => f.sqHead = f.sqTail,
           ~adm.cq /\ fp.cqPending = 0 => f.cqPending = 0,
           kept' /\ f.armed /\ ~f.faulted /\ ~link'.busy /\ f.sqHead # f.sqTail => f.deferred,
           link'.busy => f.cqPending < IoDepth - 1,
           link'.busy /\ link'.sameEpoch /\ f.armed => link'.fresh,
           kept' /\ ctl.shst = 2 => ~link'.busy
    PROVE  Inv'
  <1>1. /\ TypeOK /\ ctl \in Controls /\ bf \in BOOLEAN /\ f.faulted \in BOOLEAN
        /\ adm.cq \in BOOLEAN /\ adm.ien \in BOOLEAN
    BY Types DEF Inv, DataPaths, AdminStates
  <1>2. /\ bf' = (bf \/ f.faulted) /\ ctl' = (IF f.faulted THEN Fault(ctl) ELSE ctl)
        /\ io' = (f.cqPending # 0 /\ adm.cq /\ adm.ien)
        /\ fp' = Quiesce(f, ctl'.cfs \/ bf')
    BY DEF ReportIo
  <1>3. Settled /\ pend' \in BOOLEAN /\ irq' \in BOOLEAN
    BY SettleIs DEF ReportIo
  <1>4. /\ ctl' \in Controls /\ ctl'.en = ctl.en /\ ctl'.rdy = ctl.rdy /\ ctl'.shn = ctl.shn
        /\ ctl'.shst = ctl.shst /\ (ctl.cfs => ctl'.cfs) /\ (f.faulted => ctl'.cfs)
    BY <1>1, <1>2, FaultIs
  <1>5. bf' \in BOOLEAN /\ io' \in BOOLEAN /\ (bf' => ctl'.cfs) /\ (bf => bf')
    BY <1>1, <1>2, <1>4 DEF Inv, Failures
  <1>6. /\ fp' \in DataPaths /\ SameCursors(f, fp') /\ fp'.faulted = f.faulted
        /\ fp'.armed => ~ctl'.cfs
        /\ ~ctl'.cfs => fp' = f
    <2>1. (ctl'.cfs \/ bf') \in BOOLEAN
      OBVIOUS
    <2>2. PICK b \in BOOLEAN : b = (ctl'.cfs \/ bf')
      BY <2>1
    <2> QED BY <1>2, <1>5, <2>2, QuiesceIs
  <1>7. TypeOK'
    BY <1>1, <1>3, <1>4, <1>5, <1>6, Types, NextTypes
  <1>8. /\ fp'.armed => fp.armed /\ ~ctl'.cfs /\ ~fp'.faulted
        /\ ~ctl'.cfs /\ fp.armed => fp'.armed
        /\ kept' /\ fp'.armed /\ ~link'.busy /\ fp'.sqHead # fp'.sqTail => fp'.deferred
        /\ link'.busy /\ link'.sameEpoch /\ fp'.armed => link'.fresh
    BY <1>4, <1>6
  <1>9. /\ fp'.cqPending = Apart(fp'.cqHead, fp'.cqTail)
        /\ fp'.sqGen = fp.sqGen /\ fp'.cqGen = fp.cqGen
        /\ ~adm.sq /\ fp.sqHead = fp.sqTail => fp'.sqHead = fp'.sqTail
        /\ ~adm.cq /\ fp.cqPending = 0 => fp'.cqPending = 0
        /\ link'.busy => fp'.cqPending < IoDepth - 1
        /\ io' <=> fp'.cqPending # 0 /\ adm.cq /\ adm.ien
    BY <1>2, <1>6 DEF SameCursors
  <1> QED BY <1>3, <1>4, <1>5, <1>7, <1>8, <1>9, PathStep

\* One more completion: the tail and the count move together.
LEMMA CompletedIs ==
    ASSUME NEW f \in DataPaths, f.cqPending < IoDepth - 1,
           f.cqPending = Apart(f.cqHead, f.cqTail)
    PROVE  LET g == Completed(f)
           IN  /\ g \in DataPaths /\ g.armed = f.armed /\ g.faulted = f.faulted
               /\ g.sqGen = f.sqGen /\ g.cqGen = f.cqGen
               /\ g.cqPending = Apart(g.cqHead, g.cqTail)
               /\ g.armed /\ ~g.faulted /\ g.sqHead # g.sqTail => g.deferred
               /\ g.cqPending = f.cqPending + 1
  <1>1. /\ IoDepth \in Nat /\ IoDepth >= 2
        /\ f.sqHead \in 0..IoDepth-1 /\ f.cqTail \in 0..IoDepth-1 /\ f.cqHead \in 0..IoDepth-1
        /\ f.cqPending \in 0..IoDepth-1
    BY FrontendAssumption DEF DataPaths
  <1>2. Step(f.sqHead) \in 0..IoDepth-1 /\ Step(f.cqTail) \in 0..IoDepth-1
    BY <1>1, StepIs
  <1>3. f.cqPending + 1 \in 0..IoDepth-1 /\ f.cqPending + 1 = Apart(f.cqHead, Step(f.cqTail))
    <2>1. Step(f.cqTail) = IF f.cqTail + 1 = IoDepth THEN 0 ELSE f.cqTail + 1
      BY <1>1, StepIs
    <2>2. Apart(f.cqHead, f.cqTail) = IF f.cqTail >= f.cqHead THEN f.cqTail - f.cqHead
                                      ELSE f.cqTail + IoDepth - f.cqHead
      BY <1>1, ApartIs
    <2>3. Apart(f.cqHead, Step(f.cqTail))
            = IF Step(f.cqTail) >= f.cqHead THEN Step(f.cqTail) - f.cqHead
              ELSE Step(f.cqTail) + IoDepth - f.cqHead
      BY <1>1, <1>2, ApartIs
    <2> QED BY <1>1, <2>1, <2>2, <2>3
  <1>4. PICK g : /\ g = [f EXCEPT !.sqHead = Step(@), !.cqTail = Step(@), !.cqPending = @ + 1]
                 /\ g \in DataPaths
    <2>1. [f EXCEPT !.sqHead = Step(f.sqHead)] \in DataPaths
      BY <1>2 DEF DataPaths
    <2>2. [f EXCEPT !.sqHead = Step(f.sqHead), !.cqTail = Step(f.cqTail)] \in DataPaths
      BY <1>2, <2>1 DEF DataPaths
    <2>3. [f EXCEPT !.sqHead = Step(f.sqHead), !.cqTail = Step(f.cqTail),
                    !.cqPending = f.cqPending + 1] \in DataPaths
      BY <1>3, <2>2 DEF DataPaths
    <2> QED BY <2>3
  <1>5. /\ g.cqTail = Step(f.cqTail) /\ g.cqPending = f.cqPending + 1 /\ g.cqHead = f.cqHead
        /\ g.armed = f.armed /\ g.faulted = f.faulted
        /\ g.sqGen = f.sqGen /\ g.cqGen = f.cqGen
    BY <1>4 DEF DataPaths
  <1>6. PICK b \in BOOLEAN : /\ b <=> g.armed /\ ~g.faulted /\ g.sqHead # g.sqTail
                             /\ Completed(f) = [g EXCEPT !.deferred = b]
    BY <1>4 DEF Completed, Backlog
  <1>7. [g EXCEPT !.deferred = b] \in DataPaths
    BY <1>4 DEF DataPaths
  <1>8. /\ SameCursors(g, [g EXCEPT !.deferred = b])
        /\ [g EXCEPT !.deferred = b].armed = g.armed
        /\ [g EXCEPT !.deferred = b].faulted = g.faulted
    BY <1>4 DEF DataPaths, SameCursors
  <1>9. [g EXCEPT !.deferred = b].deferred = b
    BY <1>4 DEF DataPaths
  <1>10. PICK k : k = Completed(f) /\ k \in DataPaths /\ SameCursors(g, k)
                  /\ k.armed = g.armed /\ k.faulted = g.faulted /\ k.deferred = b
    BY <1>6, <1>7, <1>8, <1>9
  <1>11. /\ k.armed = f.armed /\ k.faulted = f.faulted
         /\ k.sqGen = f.sqGen /\ k.cqGen = f.cqGen
         /\ k.cqPending = Apart(k.cqHead, k.cqTail)
         /\ k.armed /\ ~k.faulted /\ k.sqHead # k.sqTail => k.deferred
         /\ k.cqPending = f.cqPending + 1
    BY <1>3, <1>5, <1>6, <1>10 DEF SameCursors
  <1> QED BY <1>10, <1>11

\* The path a doorbell or a tick hands to process: at most the SQ tail is new.
Submitted(f) ==
    /\ f \in DataPaths /\ f.armed = fp.armed /\ f.faulted = fp.faulted
    /\ f.sqHead = fp.sqHead /\ f.sqGen = fp.sqGen /\ f.cqGen = fp.cqGen
    /\ f.cqHead = fp.cqHead /\ f.cqTail = fp.cqTail /\ f.cqPending = fp.cqPending

\* A new NS2 request is in flight for the queues of the path.
LEMMA RequestType ==
    ASSUME NEW f \in DataPaths,
           link' = [busy |-> TRUE, head |-> f.sqHead, sqGen |-> f.sqGen, cqGen |-> f.cqGen,
                    sameEpoch |-> TRUE, fresh |-> TRUE]
    PROVE  link' \in Links /\ link'.fresh
  <1>1. link' \in Links
    BY DEF DataPaths, Links
  <1>2. link'.fresh = TRUE
    OBVIOUS
  <1> QED BY <1>1, <1>2

LEMMA InvProcess ==
    ASSUME Inv, NEW f, Submitted(f), NEW outcome, Process(f, outcome),
           UNCHANGED <<ring, adm, cache, own>>, kept' => kept, kept' \in BOOLEAN,
           ~adm.sq /\ fp.sqHead = fp.sqTail => f.sqHead = f.sqTail,
           kept' /\ f.armed /\ ~link.busy /\ f.sqHead # f.sqTail => f.deferred
    PROVE  Inv'
  <1>1. /\ TypeOK /\ fp \in DataPaths /\ link \in Links /\ IoDepth \in Nat /\ f \in DataPaths
    BY Types, FrontendAssumption DEF Inv, Submitted
  <1>2. f.cqPending = Apart(f.cqHead, f.cqTail)
    BY DEF Inv, IoRingExact, Submitted
  <1>3. f.armed => adm.sq /\ adm.cq /\ ~ctl.shn /\ ~ctl.cfs
    BY DEF Inv, ArmedExactly, Shutdown, Submitted
  <1>4. kept /\ ctl.shst = 2 => ~link.busy
    BY DEF Inv, Shutdown
  <1>5. CASE /\ link.busy \/ ~f.armed \/ f.faulted
             /\ fp' = f /\ TrackLink(FALSE) /\ UNCHANGED <<ctl, pend, irq, io, bf>>
    <2>1. LinkTracked
      BY <1>1, <1>5, TrackIs
    <2>2. TypeOK'
      BY <1>1, <1>5, <2>1, Types, NextTypes DEF LinkTracked
    <2>3. Settled
      BY <1>5 DEF Inv, Cached, Settled
    <2>4. /\ bf' => ctl'.cfs
          /\ ~bf' => (io' <=> fp'.cqPending # 0 /\ adm.cq /\ adm.ien)
          /\ fp'.armed => fp.armed /\ ~ctl'.cfs /\ ~fp'.faulted
          /\ ~ctl'.cfs /\ fp.armed => fp'.armed
          /\ fp'.sqGen = fp.sqGen /\ fp'.cqGen = fp.cqGen
      BY <1>5 DEF Inv, Cached, Failures, ArmedExactly, Submitted
    <2>5. /\ link'.busy => fp'.cqPending < IoDepth - 1
          /\ link'.busy /\ link'.sameEpoch /\ fp'.armed => link'.fresh
          /\ kept' /\ ctl'.shst = 2 => ~link'.busy
          /\ kept' /\ fp'.armed /\ ~link'.busy /\ fp'.sqHead # fp'.sqTail => fp'.deferred
      BY <1>4, <1>5, <2>1 DEF Inv, Request, LinkTracked, Submitted
    <2> QED BY <1>2, <1>5, <2>2, <2>3, <2>4, <2>5, PathStep DEF Submitted
  <1>6. CASE /\ ~link.busy /\ f.armed /\ ~f.faulted
             /\ ReportIo([f EXCEPT !.deferred = Backlog(f)]) /\ link' = link
    <2>1. PICK b \in BOOLEAN : /\ b <=> f.armed /\ ~f.faulted /\ f.sqHead # f.sqTail
                               /\ ReportIo([f EXCEPT !.deferred = b])
      BY <1>6 DEF Backlog
    <2>2. PICK g : g = [f EXCEPT !.deferred = b]
      OBVIOUS
    <2>3. g \in DataPaths /\ SameCursors(f, g) /\ g.armed = f.armed /\ g.faulted = f.faulted
          /\ g.deferred = b
      BY <1>1, <2>2 DEF DataPaths, SameCursors
    <2>4. ReportIo(g)
      BY <2>1, <2>2
    <2> QED BY <1>1, <1>2, <1>3, <1>6, <2>1, <2>3, <2>4, ReportStep DEF SameCursors, Submitted
  <1>7. CASE CanProcess(f) /\ ReportIo(Completed(f)) /\ link' = link
    <2>1. ~link.busy /\ f.armed /\ f.cqPending < IoDepth - 1
      BY <1>7 DEF CanProcess
    <2>2. PICK g : g = Completed(f) /\ ReportIo(g)
      BY <1>7
    <2>3. /\ g \in DataPaths /\ g.armed = f.armed /\ g.faulted = f.faulted
          /\ g.sqGen = f.sqGen /\ g.cqGen = f.cqGen
          /\ g.cqPending = Apart(g.cqHead, g.cqTail)
          /\ g.armed /\ ~g.faulted /\ g.sqHead # g.sqTail => g.deferred
      BY <1>1, <1>2, <2>1, <2>2, CompletedIs
    <2> QED BY <1>1, <1>3, <1>7, <2>1, <2>2, <2>3, ReportStep DEF Submitted
  <1>8. CASE /\ CanProcess(f) /\ link' = link
             /\ ReportIo([f EXCEPT !.faulted = TRUE, !.deferred = FALSE])
    <2>1. ~link.busy /\ f.armed
      BY <1>8 DEF CanProcess
    <2>2. PICK g : g = [f EXCEPT !.faulted = TRUE, !.deferred = FALSE] /\ ReportIo(g)
      BY <1>8
    <2>3. PICK h : h = [f EXCEPT !.faulted = TRUE]
      OBVIOUS
    <2>4. h \in DataPaths /\ SameCursors(f, h) /\ h.armed = f.armed
      BY <1>1, <2>3 DEF DataPaths, SameCursors
    <2>5. h.faulted = TRUE
      BY <1>1, <2>3 DEF DataPaths
    <2>6. g = [h EXCEPT !.deferred = FALSE]
      BY <1>1, <2>2, <2>3 DEF DataPaths
    <2>7. g \in DataPaths /\ SameCursors(h, g) /\ g.armed = h.armed /\ g.faulted = h.faulted
      BY <2>4, <2>6 DEF DataPaths, SameCursors
    <2>8. g.faulted
      BY <2>5, <2>7
    <2> QED BY <1>1, <1>2, <1>3, <1>8, <2>1, <2>2, <2>4, <2>7, <2>8, ReportStep, ZenonT(60)
            DEF SameCursors, Submitted
  <1>9. CASE /\ CanProcess(f)
             /\ link' = [busy |-> TRUE, head |-> f.sqHead, sqGen |-> f.sqGen, cqGen |-> f.cqGen,
                         sameEpoch |-> TRUE, fresh |-> TRUE]
             /\ fp' = f /\ UNCHANGED <<ctl, pend, irq, io, bf>>
    <2>1. f.armed /\ ~f.faulted /\ f.cqPending < IoDepth - 1
      BY <1>9 DEF CanProcess
    <2>2. link' \in Links /\ link'.fresh /\ link'.busy = TRUE
      BY <1>1, <1>9, RequestType
    <2>3. TypeOK'
      BY <1>1, <1>9, <2>2, Types, NextTypes
    <2>4. Settled
      BY <1>9 DEF Inv, Cached, Settled
    <2>5. ~(kept' /\ ctl.shst = 2)
      BY <1>3, <2>1 DEF Inv, Shutdown
    <2>6. /\ bf' => ctl'.cfs
          /\ ~bf' => (io' <=> fp'.cqPending # 0 /\ adm.cq /\ adm.ien)
          /\ fp'.armed => fp.armed /\ ~ctl'.cfs /\ ~fp'.faulted
          /\ ~ctl'.cfs /\ fp.armed => fp'.armed
          /\ fp'.sqGen = fp.sqGen /\ fp'.cqGen = fp.cqGen
      BY <1>9 DEF Inv, Cached, Failures, ArmedExactly, Submitted
    <2> QED BY <1>2, <1>9, <2>1, <2>2, <2>3, <2>4, <2>5, <2>6, PathStep DEF Submitted
  <1> QED BY <1>5, <1>6, <1>7, <1>8, <1>9 DEF Process

\* SQ1 doorbell and tick.
LEMMA InvSqDoorbell ==
    ASSUME Inv, NEW t \in 0..IoDepth-1, NEW outcome, SqDoorbell(t, outcome)
    PROVE  Inv'
  <1>1. /\ fp.armed /\ adm.sq /\ UNCHANGED <<ring, adm, cache, own>>
        /\ kept' = (kept /\ Apart(fp.sqHead, fp.sqTail) <= Apart(fp.sqHead, t))
        /\ Process([fp EXCEPT !.sqTail = t, !.deferred = (fp.sqHead # t)], outcome)
    BY DEF SqDoorbell
  <1>2. fp \in DataPaths /\ kept \in BOOLEAN
    BY Types DEF Inv
  <1>3. PICK b \in BOOLEAN : b = (fp.sqHead # t)
    OBVIOUS
  <1>4. PICK h : h = [fp EXCEPT !.sqTail = t]
    OBVIOUS
  <1>5. /\ h \in DataPaths /\ h.sqTail = t /\ h.armed = fp.armed /\ h.faulted = fp.faulted
        /\ h.sqHead = fp.sqHead /\ h.sqGen = fp.sqGen /\ h.cqGen = fp.cqGen
        /\ h.cqHead = fp.cqHead /\ h.cqTail = fp.cqTail /\ h.cqPending = fp.cqPending
    BY <1>2, <1>4 DEF DataPaths
  <1>6. PICK f : f = [h EXCEPT !.deferred = b]
    OBVIOUS
  <1>7. /\ f \in DataPaths /\ SameCursors(h, f) /\ f.deferred = b
        /\ f.armed = h.armed /\ f.faulted = h.faulted
    BY <1>5, <1>6 DEF DataPaths, SameCursors
  <1>8. Process(f, outcome)
    <2>1. f = [fp EXCEPT !.sqTail = t, !.deferred = (fp.sqHead # t)]
      BY <1>2, <1>3, <1>4, <1>6 DEF DataPaths
    <2> QED BY <1>1, <2>1
  <1>9. Submitted(f)
    BY <1>5, <1>7 DEF Submitted, SameCursors
  <1>10. f.sqHead # f.sqTail => f.deferred
    BY <1>3, <1>5, <1>7 DEF SameCursors
  <1> QED BY <1>1, <1>2, <1>8, <1>9, <1>10, InvProcess

LEMMA InvTick ==
    ASSUME Inv, NEW outcome, Tick(outcome)
    PROVE  Inv'
  <1>1. Submitted(fp) /\ kept \in BOOLEAN
    BY Types DEF Inv, Submitted
  <1>2. UNCHANGED <<ring, adm, cache, own, kept>> /\ Process(fp, outcome)
    BY DEF Tick
  <1>3. kept' /\ fp.armed /\ ~link.busy /\ fp.sqHead # fp.sqTail => fp.deferred
    BY <1>2 DEF Inv, NoLostWakeup
  <1> QED BY <1>1, <1>2, <1>3, InvProcess

\* Retiring completions moves the head towards the tail and never past it.
LEMMA RetiredIs ==
    ASSUME NEW a \in 0..IoDepth-1, NEW b \in 0..IoDepth-1, NEW h \in 0..IoDepth-1,
           Apart(a, h) <= Apart(a, b)
    PROVE  /\ Apart(a, b) - Apart(a, h) = Apart(h, b)
           /\ Apart(h, b) \in 0..IoDepth-1 /\ Apart(h, b) <= Apart(a, b)
  <1>1. IoDepth \in Nat
    BY FrontendAssumption
  <1>2. Apart(a, h) = IF h >= a THEN h - a ELSE h + IoDepth - a
    BY ApartIs
  <1>3. Apart(a, b) = IF b >= a THEN b - a ELSE b + IoDepth - a
    BY ApartIs
  <1>4. Apart(h, b) = IF b >= h THEN b - h ELSE b + IoDepth - h
    BY ApartIs
  <1> QED BY <1>1, <1>2, <1>3, <1>4

LEMMA InvCqAck ==
    ASSUME Inv, NEW h \in 0..IoDepth-1, CqAck(h)
    PROVE  Inv'
  <1>1. /\ adm.cq /\ UNCHANGED <<ring, adm, cache, own, kept>> /\ TrackLink(FALSE)
        /\ Apart(fp.cqHead, h) <= fp.cqPending
        /\ ReportIo([fp EXCEPT !.cqHead = h, !.cqPending = @ - Apart(fp.cqHead, h),
                               !.deferred = (fp.sqHead # fp.sqTail)])
    BY DEF CqAck
  <1>2. fp \in DataPaths /\ kept \in BOOLEAN /\ link \in Links /\ IoDepth \in Nat
    BY Types, FrontendAssumption DEF Inv
  <1>3. PICK n \in 0..IoDepth-1 : /\ n = fp.cqPending - Apart(fp.cqHead, h)
                                 /\ n = Apart(h, fp.cqTail) /\ n <= fp.cqPending
    <2>1. fp.cqHead \in 0..IoDepth-1 /\ fp.cqTail \in 0..IoDepth-1
      BY <1>2 DEF DataPaths
    <2>2. fp.cqPending = Apart(fp.cqHead, fp.cqTail)
      BY DEF Inv, IoRingExact
    <2> QED BY <1>1, <2>1, <2>2, RetiredIs
  <1>4. PICK b \in BOOLEAN : b = (fp.sqHead # fp.sqTail)
    OBVIOUS
  <1>5. PICK d : d = [fp EXCEPT !.cqHead = h, !.cqPending = n]
    OBVIOUS
  <1>6. d \in DataPaths
    <2>1. [fp EXCEPT !.cqHead = h] \in DataPaths
      BY <1>2 DEF DataPaths
    <2> QED BY <1>5, <2>1 DEF DataPaths
  <1>7. /\ d.cqHead = h /\ d.cqTail = fp.cqTail /\ d.cqPending = n
        /\ d.armed = fp.armed /\ d.faulted = fp.faulted
        /\ d.sqHead = fp.sqHead /\ d.sqTail = fp.sqTail
        /\ d.sqGen = fp.sqGen /\ d.cqGen = fp.cqGen
    BY <1>2, <1>5 DEF DataPaths
  <1>8. PICK f : f = [d EXCEPT !.deferred = b]
    OBVIOUS
  <1>9. /\ f \in DataPaths /\ SameCursors(d, f) /\ f.deferred = b
        /\ f.armed = d.armed /\ f.faulted = d.faulted
    BY <1>6, <1>8 DEF DataPaths, SameCursors
  <1>10. ReportIo(f)
    <2>1. f = [fp EXCEPT !.cqHead = h, !.cqPending = @ - Apart(fp.cqHead, h),
                         !.deferred = (fp.sqHead # fp.sqTail)]
      BY <1>2, <1>3, <1>4, <1>5, <1>8 DEF DataPaths
    <2> QED BY <1>1, <2>1
  <1>11. LinkTracked
    BY <1>1, <1>2, TrackIs
  <1>12. /\ f.armed = fp.armed /\ f.sqGen = fp.sqGen /\ f.cqGen = fp.cqGen
         /\ f.cqPending = Apart(f.cqHead, f.cqTail) /\ f.cqPending = n
         /\ f.sqHead = fp.sqHead /\ f.sqTail = fp.sqTail
    BY <1>3, <1>7, <1>9 DEF SameCursors
  <1>13. f.sqHead # f.sqTail => f.deferred
    BY <1>4, <1>9, <1>12
  <1>14. /\ link'.busy => f.cqPending < IoDepth - 1
         /\ link'.busy /\ link'.sameEpoch /\ f.armed => link'.fresh
         /\ kept' /\ ctl.shst = 2 => ~link'.busy
    <2>1. fp.cqPending \in 0..IoDepth-1
      BY <1>2 DEF DataPaths
    <2>2. link.busy => fp.cqPending < IoDepth - 1
      BY DEF Inv, Request
    <2>3. link'.busy => f.cqPending < IoDepth - 1
      BY <1>2, <1>3, <1>11, <1>12, <2>1, <2>2 DEF LinkTracked
    <2> QED BY <1>1, <1>11, <1>12, <2>3 DEF Inv, Request, Shutdown, LinkTracked
  <1> QED BY <1>1, <1>2, <1>9, <1>10, <1>11, <1>12, <1>13, <1>14, ReportStep DEF LinkTracked

LEMMA NoLinkType == NoLink \in Links /\ ~NoLink.busy
  <1>1. 0 \in 0..IoDepth-1 /\ 0 \in 0..TruncModulus-1
    BY FrontendAssumption
  <1>2. NoLink \in Links
    BY <1>1 DEF NoLink, Links
  <1>3. NoLink.busy = FALSE
    BY DEF NoLink
  <1> QED BY <1>2, <1>3

\* The answer of the host is either dropped or published in the slot kept for it.
LEMMA InvLinkReturn ==
    ASSUME Inv, LinkReturn
    PROVE  Inv'
  <1>1. /\ link.busy /\ link' = NoLink /\ UNCHANGED <<ring, adm, cache, own, kept>>
        /\ ReportIo(IF Stale THEN [fp EXCEPT !.deferred = Backlog(fp)] ELSE Completed(fp))
    BY DEF LinkReturn
  <1>2. fp \in DataPaths /\ kept \in BOOLEAN /\ link' \in Links /\ ~link'.busy
    BY <1>1, Types, NoLinkType DEF Inv
  <1>3. CASE Stale
    <2>1. PICK b \in BOOLEAN : /\ b <=> fp.armed /\ ~fp.faulted /\ fp.sqHead # fp.sqTail
                               /\ ReportIo([fp EXCEPT !.deferred = b])
      BY <1>1, <1>3 DEF Backlog
    <2>2. PICK g : g = [fp EXCEPT !.deferred = b] /\ ReportIo(g)
      BY <2>1
    <2>3. /\ g \in DataPaths /\ SameCursors(fp, g) /\ g.armed = fp.armed
          /\ g.faulted = fp.faulted /\ g.deferred = b
      BY <1>2, <2>2 DEF DataPaths, SameCursors
    <2>4. g.cqPending = Apart(g.cqHead, g.cqTail)
      BY <2>3 DEF Inv, IoRingExact, SameCursors
    <2> QED BY <1>1, <1>2, <2>1, <2>2, <2>3, <2>4, ReportStep, ZenonT(30) DEF SameCursors
  <1>4. CASE ~Stale
    <2>1. fp.armed
      BY <1>4 DEF Stale
    <2>2. adm.sq /\ adm.cq /\ fp.cqPending < IoDepth - 1
          /\ fp.cqPending = Apart(fp.cqHead, fp.cqTail)
      BY <1>1, <2>1 DEF Inv, ArmedExactly, Request, IoRingExact
    <2>3. PICK g : g = Completed(fp) /\ ReportIo(g)
      BY <1>1, <1>4
    <2>4. /\ g \in DataPaths /\ g.armed = fp.armed /\ g.faulted = fp.faulted
          /\ g.sqGen = fp.sqGen /\ g.cqGen = fp.cqGen
          /\ g.cqPending = Apart(g.cqHead, g.cqTail)
          /\ g.armed /\ ~g.faulted /\ g.sqHead # g.sqTail => g.deferred
      BY <1>2, <2>2, <2>3, CompletedIs
    <2> QED BY <1>1, <1>2, <2>2, <2>3, <2>4, ReportStep
  <1> QED BY <1>3, <1>4

(***************************************************************************)
(* The invariant.                                                          *)
(***************************************************************************)
LEMMA InvInit == Init => Inv
  <1> SUFFICES ASSUME Init PROVE Inv
    OBVIOUS
  <1>1. /\ IoDepth \in Nat /\ IoDepth >= 2 /\ 0 \in 0..IoDepth-1 /\ 0 \in 0..TruncModulus-1
        /\ 0 \in 0..AdminDepth-1 /\ 0 \in 0..2 /\ 1 \in 0..1
    BY FrontendAssumption
  <1>2. 0 \in 0..GenModulus-1 /\ adm \in AdminStates /\ ~adm.sq /\ ~adm.cq
    <2>1. adm.sq = FALSE /\ adm.cq = FALSE
      BY DEF Init, AdminInit
    <2> QED BY <2>1, AdminInitType, GenAssumption DEF Init
  <1>3. ctl \in Controls /\ ring \in Rings
    BY <1>1 DEF Init, Controls, Rings
  <1>4. own \in Owners /\ fp \in DataPaths /\ link \in Links
    BY <1>1, <1>2, NoLinkType DEF Init, Owners, DataPaths
  <1>5. TypeOK
    BY <1>1, <1>2, <1>3, <1>4, Types DEF Init
  <1>6. /\ ctl.en = FALSE /\ ctl.rdy = FALSE /\ ctl.cfs = FALSE /\ ctl.shst = 0
        /\ ctl.shn = FALSE /\ ring.active = FALSE /\ ring.fatal = FALSE /\ ring.pending = 0
        /\ fp.armed = FALSE /\ fp.cqPending = 0 /\ fp.cqHead = 0 /\ fp.cqTail = 0
        /\ fp.sqHead = 0 /\ fp.sqTail = 0 /\ link.busy = FALSE
    BY DEF Init, NoLink
  <1>7. Apart(0, 0) = 0
    BY <1>1, ApartIs
  <1>8. Cached /\ Failures /\ Descriptors
    BY <1>2, <1>6 DEF Init, Cached, Failures, Descriptors
  <1>9. Shutdown /\ Request /\ ArmedExactly /\ IoRingExact /\ NoLostWakeup
    BY <1>2, <1>6, <1>7 DEF Shutdown, Request, ArmedExactly, Usable, IoRingExact, NoLostWakeup
  <1> QED BY <1>5, <1>8, <1>9 DEF Inv

LEMMA InvStutter ==
    ASSUME Inv, UNCHANGED vars
    PROVE  Inv'
  <1> USE DEF vars
  <1>1. TypeOK' /\ Cached' /\ Failures' /\ Descriptors'
    BY DEF Inv, TypeOK, Cached, Failures, Descriptors
  <1>2. Shutdown' /\ Request' /\ ArmedExactly' /\ IoRingExact' /\ NoLostWakeup'
    BY DEF Inv, Shutdown, Request, ArmedExactly, Usable, IoRingExact, NoLostWakeup
  <1> QED BY <1>1, <1>2 DEF Inv

LEMMA InvNext == Inv /\ [Next]_vars => Inv'
  <1> SUFFICES ASSUME Inv, [Next]_vars PROVE Inv'
    OBVIOUS
  <1>1. CASE UNCHANGED vars
    BY <1>1, InvStutter
  <1>2. CASE ControlStep
    <2>1. ASSUME NEW b \in BOOLEAN, WriteMask(b) \/ WriteCommand(b) PROVE Inv'
      BY <2>1, InvMasks
    <2>2. ASSUME NEW shn \in BOOLEAN, NEW flushed \in {TRUE, ~shn}, Disable(shn, flushed)
          PROVE  Inv'
      BY <2>2, InvDisable
    <2>3. ASSUME NEW shn \in BOOLEAN, NEW flushed \in {TRUE, ~shn}, NEW valid \in BOOLEAN,
                 Enable(valid, shn, flushed)
          PROVE  Inv'
      BY <2>3, InvEnable
    <2>4. ASSUME NEW shn \in BOOLEAN, NEW flushed \in {TRUE, ~shn}, WriteShutdown(shn, flushed)
          PROVE  Inv'
      BY <2>4, InvWriteShutdown
    <2> QED BY <1>2, <2>1, <2>2, <2>3, <2>4, InvRejected DEF ControlStep
  <1>3. CASE AdminStep
    BY <1>3, InvAdminTake, InvFails, InvAdminAck DEF AdminStep
  <1>4. CASE DataStep
    BY <1>4, InvSqDoorbell, InvFails, InvCqAck, InvTick, InvLinkReturn DEF DataStep
  <1> QED BY <1>1, <1>2, <1>3, <1>4 DEF Next

LEMMA Invariant == Spec => []Inv
  BY InvInit, InvNext, PTL DEF Spec

(***************************************************************************)
(* The theorems.                                                           *)
(***************************************************************************)
\* No register, cursor, count or generation of the controller leaves its range,
\* whatever the guest writes and whichever calls fail.
THEOREM TypeCorrect == Spec => []TypeOK
  <1>1. Inv => TypeOK
    BY DEF Inv
  <1> QED BY <1>1, Invariant, PTL

\* The level of the interrupt line is the truth about the two queues: the three
\* cached copies (io_pending, pending, the level) never drift from the counts.
THEOREM InterruptIsTrue == Spec => []InterruptTruth
  <1>1. Inv => InterruptTruth
    <2> SUFFICES ASSUME Inv PROVE InterruptTruth
      OBVIOUS
    <2>1. CASE ctl.cfs
      BY <2>1 DEF Inv, Cached, InterruptTruth
    <2>2. CASE ~ctl.cfs
      <3>1. ~bf /\ ~ring.fatal
        BY <2>2 DEF Inv, Failures
      <3> QED BY <2>2, <3>1 DEF Inv, Cached, InterruptTruth
    <2> QED BY <2>1, <2>2
  <1> QED BY <1>1, Invariant, PTL

\* The data path is armed for the queues that exist and for no others.
THEOREM ArmedIsExact == Spec => []ArmedExactly
  <1>1. Inv => ArmedExactly
    BY DEF Inv
  <1> QED BY <1>1, Invariant, PTL

\* The count of unacknowledged I/O completions is the distance of the cursors.
THEOREM IoRingIsExact == Spec => []IoRingExact
  <1>1. Inv => IoRingExact
    BY DEF Inv
  <1> QED BY <1>1, Invariant, PTL

\* A submitted command is never forgotten between the doorbell and the tick.
THEOREM WakeupsAreKept == Spec => []NoLostWakeup
  <1>1. Inv => NoLostWakeup
    BY DEF Inv
  <1> QED BY <1>1, Invariant, PTL

(***************************************************************************)
(* What a step may never do.                                               *)
(***************************************************************************)
\* A request in flight ends only when the host answers.
LEMMA RequestEnds ==
    ASSUME Inv, [Next]_vars, link.busy, ~link'.busy
    PROVE  LinkReturn
  <1>1. link \in Links
    BY Types DEF Inv
  <1>2. ~(\E b \in BOOLEAN : TrackLink(b))
    BY <1>1, TrackTypes
  <1>3. ASSUME NEW f, NEW o, Process(f, o) PROVE FALSE
    <2>1. TrackLink(FALSE) \/ link' = link \/ CanProcess(f)
      BY <1>3 DEF Process
    <2> QED BY <1>2, <2>1 DEF CanProcess
  <1>4. ~(link' = link)
    OBVIOUS
  <1>5. CASE ControlStep
    BY <1>2, <1>5, ZenonT(30) DEF ControlStep, WriteMask, WriteCommand, Disable, Enable, WriteShutdown,
                      RejectedCcWrite
  <1>6. CASE AdminStep
    <2>1. ASSUME NEW c, NEW failing, AdminTake(c, failing) PROVE FALSE
      BY <1>2, <2>1 DEF AdminTake
    <2>2. ~AdminFails /\ (\A n : ~AdminAck(n))
      BY <1>2 DEF AdminFails, AdminAck
    <2> QED BY <1>6, <2>1, <2>2 DEF AdminStep
  <1>7. CASE DataStep
    <2>1. \A t, o : ~SqDoorbell(t, o) /\ ~Tick(o)
      BY <1>3 DEF SqDoorbell, Tick
    <2>2. ~BadIoDoorbell /\ \A h : ~CqAck(h)
      BY <1>2 DEF BadIoDoorbell, CqAck
    <2> QED BY <1>7, <2>1, <2>2 DEF DataStep
  <1>8. ~UNCHANGED vars
    BY <1>4 DEF vars
  <1> QED BY <1>5, <1>6, <1>7, <1>8 DEF Next

\* The answer of the host to an NS2 request is published only while the queues
\* the command came from are still the queues of the controller, although the
\* staleness check compares truncated generations: the lifecycle epoch and the
\* armed flag make up for what truncation loses.
THEOREM NoStaleCompletionHolds == Spec => NoStaleCompletion
  <1> DEFINE A == link.busy /\ ~link'.busy /\ fp'.cqPending > fp.cqPending => link.fresh
  <1>1. Inv /\ [Next]_vars => A
    <2> SUFFICES ASSUME Inv, [Next]_vars, link.busy, ~link'.busy,
                        fp'.cqPending > fp.cqPending
                 PROVE  link.fresh
      OBVIOUS
    <2>1. LinkReturn
      BY RequestEnds
    <2>2. fp \in DataPaths /\ fp.cqPending \in Nat
      BY Types, FrontendAssumption DEF Inv, DataPaths
    <2>3. CASE Stale
      <3>1. PICK g : g = [fp EXCEPT !.deferred = Backlog(fp)] /\ ReportIo(g)
        BY <2>1, <2>3 DEF LinkReturn
      <3>2. g.cqPending = fp.cqPending /\ g \in DataPaths
        BY <2>2, <3>1 DEF DataPaths, Backlog
      <3>3. fp'.cqPending = g.cqPending
        <4>1. fp' = g \/ fp' = Disarm(g)
          BY <3>1 DEF ReportIo, Quiesce
        <4> QED BY <3>2, <4>1, DisarmIs DEF SameCursors
      <3> QED BY <2>2, <3>2, <3>3
    <2>4. CASE ~Stale
      BY <2>4 DEF Inv, Request, Stale
    <2> QED BY <2>3, <2>4
  <1>2. Inv /\ [Next]_vars => [A]_vars
    BY <1>1
  <1> QED BY <1>2, Invariant, PTL DEF Spec, NoStaleCompletion

\* Disarming and a failed flush leave the count of completions alone.
LEMMA CountKept ==
    ASSUME NEW f \in DataPaths
    PROVE  /\ Disarm(f) \in DataPaths /\ Disarm(f).cqPending = f.cqPending
           /\ \A b : Quiesce(f, b) \in DataPaths /\ Quiesce(f, b).cqPending = f.cqPending
           /\ \A c, shn, flushed : /\ FlushFault(c, f, shn, flushed) \in DataPaths
                                  /\ FlushFault(c, f, shn, flushed).cqPending = f.cqPending
  <1>1. Disarm(f) \in DataPaths /\ Disarm(f).cqPending = f.cqPending
    BY DisarmIs DEF SameCursors
  <1>2. /\ [f EXCEPT !.faulted = TRUE] \in DataPaths
        /\ [f EXCEPT !.faulted = TRUE].cqPending = f.cqPending
    BY DEF DataPaths
  <1> QED BY <1>1, <1>2 DEF Quiesce, FlushFault

\* A path that is not armed starts and completes nothing.
LEMMA DisarmedIsIdle ==
    ASSUME Inv, [Next]_vars, ~fp.armed, ~link.busy
    PROVE  fp'.cqPending <= fp.cqPending /\ ~link'.busy
  <1>1. /\ link \in Links /\ fp \in DataPaths /\ IoDepth \in Nat /\ 0 \in 0..IoDepth-1
        /\ fp.cqPending \in Nat /\ fp.cqPending \in 0..IoDepth-1 /\ adm \in AdminStates
    BY Types, FrontendAssumption DEF Inv, DataPaths
  <1>2. \A b \in BOOLEAN : TrackLink(b) => ~link'.busy
    BY <1>1, TrackTypes
  <1>idle. /\ TrackLink(FALSE) => ~link'.busy
        /\ fp.cqPending <= fp.cqPending
    <2>1. TrackLink(FALSE) => ~link'.busy
      BY <1>1, TrackTypes
    <2>2. fp.cqPending <= fp.cqPending
      BY <1>1
    <2> QED BY <2>1, <2>2
  <1>3. CASE ControlStep
    <2>1. ~link'.busy
      BY <1>2, <1>3, ZenonT(30) DEF ControlStep, WriteMask, WriteCommand, Disable, Enable, WriteShutdown,
                        RejectedCcWrite
    <2>2. fp'.cqPending <= fp.cqPending
      <3>1. ASSUME NEW b, WriteMask(b) \/ WriteCommand(b) PROVE fp'.cqPending = fp.cqPending
        BY <1>1, <3>1, CountKept, ZenonT(60) DEF WriteMask, WriteCommand
      <3>2. ASSUME NEW shn, NEW flushed, Disable(shn, flushed)
            PROVE  fp'.cqPending <= fp.cqPending
        <4>1. PICK d : d = Disarm(fp) /\ d \in DataPaths /\ d.cqPending = fp.cqPending
          BY <1>1, CountKept
        <4>2. PICK e : e = ClearSq(ClearCq(d)) /\ e \in DataPaths /\ e.cqPending = 0
          BY <1>1, <4>1, ClearCqIs, ClearSqIs
        <4>3. PICK f1, c1, b : /\ f1 = d \/ f1 = e
                               /\ fp' = Quiesce(FlushFault(c1, f1, shn, flushed), b)
          BY <3>2, <4>1, <4>2 DEF Disable
        <4>4. f1 \in DataPaths
          BY <4>1, <4>2, <4>3
        <4>5. PICK g : /\ g = FlushFault(c1, f1, shn, flushed)
                       /\ g \in DataPaths /\ g.cqPending = f1.cqPending
          BY <4>4, CountKept
        <4>6. fp'.cqPending = g.cqPending
          BY <4>3, <4>5, CountKept
        <4> QED BY <1>1, <4>1, <4>2, <4>3, <4>5, <4>6
      <3>3. ASSUME NEW valid, NEW shn, NEW flushed, Enable(valid, shn, flushed)
            PROVE  fp'.cqPending = fp.cqPending
        <4>1. PICK f1 : /\ f1 = (IF shn THEN Disarm(fp) ELSE fp)
                        /\ f1 \in DataPaths /\ f1.cqPending = fp.cqPending
          BY <1>1, CountKept
        <4>2. CASE fp' = Disarm(f1)
          BY <4>1, <4>2, CountKept
        <4>3. CASE fp' # Disarm(f1)
          <5>1. PICK c, b : fp' = Quiesce(FlushFault(c, f1, shn, flushed), b)
            BY <3>3, <4>1, <4>3 DEF Enable
          <5>2. PICK g : /\ g = FlushFault(c, f1, shn, flushed)
                         /\ g \in DataPaths /\ g.cqPending = f1.cqPending
            BY <4>1, CountKept
          <5> QED BY <4>1, <5>1, <5>2, CountKept
        <4> QED BY <4>2, <4>3
      <3>4. ASSUME NEW shn, NEW flushed, WriteShutdown(shn, flushed)
            PROVE  fp'.cqPending = fp.cqPending
        <4>1. PICK f1 : /\ f1 = (IF shn THEN Disarm(fp) ELSE fp)
                        /\ f1 \in DataPaths /\ f1.cqPending = fp.cqPending
          BY <1>1, CountKept
        <4>2. PICK c, b : fp' = Quiesce(FlushFault(c, f1, shn, flushed), b)
          BY <3>4, <4>1 DEF WriteShutdown
        <4>3. PICK g : /\ g = FlushFault(c, f1, shn, flushed)
                       /\ g \in DataPaths /\ g.cqPending = f1.cqPending
          BY <4>1, CountKept
        <4> QED BY <4>1, <4>2, <4>3, CountKept
      <3>5. RejectedCcWrite => fp'.cqPending = fp.cqPending
        BY <1>1, CountKept DEF RejectedCcWrite
      <3>6. fp'.cqPending = fp.cqPending => fp'.cqPending <= fp.cqPending
        BY <1>idle
      <3> QED BY <1>3, <3>1, <3>2, <3>3, <3>4, <3>5, <3>6 DEF ControlStep
    <2> QED BY <2>1, <2>2
  <1>4. CASE AdminStep
    <2>1. ASSUME NEW c \in AdminCommands, NEW failing, AdminTake(c, failing)
          PROVE  fp'.cqPending <= fp.cqPending /\ ~link'.busy
      <3>1. TrackLink(FALSE)
        BY <2>1 DEF AdminTake
      <3>2. c \in AllCommands
        BY FrontendAssumption
      <3>3. PICK s, f, setOk : setOk \in BOOLEAN
              /\ s = Execute(adm, c, Status(adm, c, setOk))
              /\ (f = Reconciled(s) \/ f = fp)
              /\ \/ fp' = f
                 \/ fp' = [Disarm(f) EXCEPT !.faulted = @ \/ ~setOk]
        BY <2>1 DEF AdminTake
      <3>4. s \in AdminStates
        <4>1. PICK status : s = Execute(adm, c, status)
          BY <3>3
        <4> QED BY <1>1, <3>2, <4>1, ExecuteType
      <3>5. f \in DataPaths /\ f.cqPending <= fp.cqPending
        <4>1. CASE f = fp
          BY <1>1, <4>1
        <4>2. CASE f = Reconciled(s)
          <5>1. f \in DataPaths /\ f.cqPending = IF own.cqGen = s.cqGen THEN fp.cqPending ELSE 0
            BY <3>4, <4>2, ReconciledIs
          <5> QED BY <1>1, <5>1
        <4> QED BY <3>3, <4>1, <4>2
      <3>6. fp'.cqPending = f.cqPending
        <4>1. PICK d : d = Disarm(f) /\ d \in DataPaths /\ d.cqPending = f.cqPending
          BY <3>5, CountKept
        <4>2. fp' = f \/ \E b : fp' = [d EXCEPT !.faulted = b]
          BY <3>3, <4>1
        <4> QED BY <4>1, <4>2 DEF DataPaths
      <3> QED BY <1>idle, <3>1, <3>5, <3>6
    <2>2. AdminFails => fp'.cqPending <= fp.cqPending /\ ~link'.busy
      BY <1>idle, <1>1, CountKept DEF AdminFails
    <2>3. \A n : AdminAck(n) => fp'.cqPending <= fp.cqPending /\ ~link'.busy
      BY <1>idle DEF AdminAck
    <2> QED BY <1>4, <2>1, <2>2, <2>3 DEF AdminStep
  <1>5. CASE DataStep
    <2>1. \A t, o : ~SqDoorbell(t, o)
      BY DEF SqDoorbell
    <2>2. BadIoDoorbell => fp'.cqPending <= fp.cqPending /\ ~link'.busy
      BY <1>idle, <1>1, CountKept DEF BadIoDoorbell
    <2>3. ASSUME NEW h \in 0..IoDepth-1, CqAck(h)
          PROVE  fp'.cqPending <= fp.cqPending /\ ~link'.busy
      <3>1. PICK n, b : b \in BOOLEAN
              /\ n = fp.cqPending - Apart(fp.cqHead, h)
              /\ ReportIo([fp EXCEPT !.cqHead = h, !.cqPending = n, !.deferred = b])
        BY <2>3 DEF CqAck
      <3>2. fp.cqHead \in 0..IoDepth-1
        BY <1>1 DEF DataPaths
      <3>3. Apart(fp.cqHead, h) \in 0..IoDepth-1 /\ Apart(fp.cqHead, h) <= fp.cqPending
        BY <2>3, <3>2, ApartIs DEF CqAck
      <3>4. n \in 0..IoDepth-1 /\ n <= fp.cqPending
        BY <1>1, <3>1, <3>3
      <3>5. PICK f : /\ f = [fp EXCEPT !.cqHead = h, !.cqPending = n, !.deferred = b]
                     /\ f \in DataPaths /\ f.cqPending = n
        <4>1. [fp EXCEPT !.cqHead = h] \in DataPaths
          BY <1>1 DEF DataPaths
        <4>2. [fp EXCEPT !.cqHead = h, !.cqPending = n] \in DataPaths
          BY <3>4, <4>1 DEF DataPaths
        <4>3. [fp EXCEPT !.cqHead = h, !.cqPending = n, !.deferred = b] \in DataPaths
          BY <3>1, <4>2 DEF DataPaths
        <4>4. [fp EXCEPT !.cqHead = h, !.cqPending = n, !.deferred = b].cqPending = n
          BY <1>1, <3>4 DEF DataPaths
        <4> QED BY <4>3, <4>4
      <3>6. \E q : fp' = Quiesce(f, q)
        BY <3>1, <3>5 DEF ReportIo
      <3>7. fp'.cqPending = n
        BY <3>5, <3>6, CountKept, ZenonT(100)
      <3>8. TrackLink(FALSE)
        BY <2>3 DEF CqAck
      <3> QED BY <1>idle, <3>4, <3>7, <3>8
    <2>4. ASSUME NEW o, Tick(o)
          PROVE  fp'.cqPending <= fp.cqPending /\ ~link'.busy
      <3>1. fp' = fp /\ TrackLink(FALSE)
        BY <2>4 DEF Tick, Process, CanProcess
      <3> QED BY <1>idle, <3>1
    <2> QED BY <1>5, <2>1, <2>2, <2>3, <2>4 DEF DataStep, LinkReturn
  <1>6. CASE UNCHANGED vars
    BY <1>1, <1>6 DEF vars
  <1> QED BY <1>3, <1>4, <1>5, <1>6 DEF Next

\* Once CSTS reports shutdown complete, no data command starts or completes any
\* more, for a guest that keeps CC.SHN set: neither a doorbell, a tick, an admin
\* command that recreates a queue, nor an answer that was still under way.
THEOREM ShutdownQuiescesHolds == Spec => ShutdownQuiesces
  <1> DEFINE A == kept /\ ctl.shst = 2 => fp'.cqPending <= fp.cqPending /\ ~link'.busy
  <1>1. Inv /\ [Next]_vars => A
    <2> SUFFICES ASSUME Inv, [Next]_vars, kept, ctl.shst = 2
                 PROVE  fp'.cqPending <= fp.cqPending /\ ~link'.busy
      OBVIOUS
    <2>1. ~link.busy /\ (ctl.cfs \/ ctl.shn)
      BY DEF Inv, Shutdown
    <2>2. ~fp.armed
      BY <2>1 DEF Inv, ArmedExactly, Shutdown
    <2> QED BY <2>1, <2>2, DisarmedIsIdle
  <1>2. Inv /\ [Next]_vars => [A]_vars
    BY <1>1
  <1> QED BY <1>2, Invariant, PTL DEF Spec, ShutdownQuiesces
=============================================================================
