-------------------------- MODULE FirmwareBootProofs --------------------------
(***************************************************************************)
(* Proofs about the boot of FirmwareBoot: what the status of the P-state   *)
(* routine says, that boot arguments and device tree arrive whole, what is *)
(* on the display when the guest is entered, which time it is told, and    *)
(* which memory the operating system is shown.                             *)
(***************************************************************************)
EXTENDS FirmwareBoot, FiniteSetTheorems, WellFoundedInduction, TLAPS

(***************************************************************************)
(* The P-state routine.  Its reads are single moments, so the invariant    *)
(* says what of an earlier read still holds at each point of the code.     *)
(***************************************************************************)
Outcomes == {"Ok", "RolledBack", "RollbackBusy", "RollbackUnverified", "RollbackFailed",
             "UnsupportedChip", "BaselineBusy", "BaselineNotP7"}

DevType == dev \in [desired : Points, busy : BOOLEAN, prot : BOOLEAN,
                    current : Points, target : Points]

PstateType ==
    pstate \in [pc : {"off", "baseline", "before", "write", "after", "verify", "done"},
                ask : Points, reads : Nat, prot : BOOLEAN,
                wrote : Points \cup {Nothing}, status : Outcomes \cup {Nothing}]

\* What was read and is relied on: an idle controller before the write; the
\* point and the protected bits before STATUS is read.
ReadStillTrue ==
    /\ pstate.pc = "write" => dev.busy = FALSE
    /\ pstate.pc = "verify" => dev.busy = FALSE /\ dev.desired = pstate.ask
                               /\ dev.prot = pstate.prot

\* The point this request has written, if it has.
Written ==
    /\ pstate.wrote \in {Nothing, pstate.ask}
    /\ pstate.pc \in {"after", "verify"} => pstate.wrote = pstate.ask

PstateInv ==
    /\ DevType /\ PstateType /\ ReadStillTrue /\ Written
    /\ pstate.pc # "done" => pstate.status = Nothing
    /\ PstateHonest

\* A status is none of the values that stand for nothing.
LEMMA NothingIsNone == Nothing \notin Points /\ Nothing \notin Outcomes /\ P7 # P12
  BY PstateAssumption DEF Points, P7, P12, Outcomes

\* The start and the end of a call.
LEMMA LocalsKeep ==
    ASSUME NEW pc, pc \in {"off", "baseline"}, DevType', pstate' = PstateLocals(pc)
    PROVE  PstateInv'
  <1>1. /\ pstate'.pc = pc /\ pstate'.status = Nothing /\ pstate'.wrote = Nothing
        /\ PstateType'
    BY DEF PstateLocals, PstateType, Points
  <1>2. ReadStillTrue' /\ Written'
    BY <1>1 DEF ReadStillTrue, Written
  <1>3. PstateHonest'
    BY <1>1, NothingIsNone DEF PstateHonest, Outcomes
  <1> QED BY <1>1, <1>2, <1>3 DEF PstateInv

\* The controller's own steps come while the routine works.
LEMMA DeviceKeeps ==
    ASSUME PstateInv, PstateDevice
    PROVE  PstateInv'
  <1>1. /\ pstate' = pstate /\ Working /\ DevType /\ PstateType /\ ReadStillTrue /\ Written
        /\ pstate.status = Nothing
    BY DEF PstateInv, PstateDevice, Settle, CatchUp, Working
  <1>2. PstateType' /\ Written'
    BY <1>1 DEF PstateType, Written
  <1>3. CASE Settle
    <2>1. dev.busy = TRUE
      BY <1>1, <1>3 DEF Settle, DevType
    <2>2. DevType'
      BY <1>1, <1>3 DEF Settle, DevType
    <2>3. ReadStillTrue' /\ PstateHonest'
      BY <1>1, <2>1, NothingIsNone DEF ReadStillTrue, PstateHonest, Outcomes
    <2> QED BY <1>1, <1>2, <2>2, <2>3 DEF PstateInv
  <1>4. CASE CatchUp
    <2>1. DevType' /\ UNCHANGED <<dev.busy, dev.desired, dev.prot>>
      BY <1>1, <1>4 DEF CatchUp, DevType
    <2>2. ReadStillTrue'
      BY <1>1, <2>1 DEF ReadStillTrue
    <2>3. PstateHonest'
      BY <1>1, <2>2, NothingIsNone DEF ReadStillTrue, PstateHonest, Outcomes
    <2> QED BY <1>1, <1>2, <2>1, <2>2, <2>3 DEF PstateInv
  <1> QED BY <1>3, <1>4 DEF PstateDevice

\* A return keeps the invariant when its status is true.
LEMMA EndKeeps ==
    ASSUME PstateInv, dev' = dev, NEW status \in Outcomes, End(status),
           status \in {"Ok", "RolledBack"} =>
              /\ pstate.pc = "verify" /\ dev.current = pstate.ask /\ dev.target = pstate.ask
              /\ pstate.ask = IF status = "Ok" THEN P12 ELSE P7,
           status = "RollbackBusy" => pstate.wrote = Nothing,
           status \in {"RollbackUnverified", "RollbackFailed"} => pstate.wrote = P7
    PROVE  PstateInv'
  <1>1. /\ pstate'.pc = "done" /\ pstate'.status = status
        /\ UNCHANGED <<pstate.ask, pstate.prot, pstate.wrote>> /\ PstateType'
    BY DEF End, PstateInv, PstateType
  <1>2. DevType' /\ ReadStillTrue' /\ Written'
    BY <1>1 DEF PstateInv, DevType, ReadStillTrue, Written
  <1>3. PstateHonest'
    <2>1. ASSUME status \in {"Ok", "RolledBack"}
          PROVE  dev = [desired |-> pstate.ask, busy |-> FALSE, prot |-> pstate.prot,
                        current |-> pstate.ask, target |-> pstate.ask]
      <3>1. /\ dev.busy = FALSE /\ dev.desired = pstate.ask /\ dev.prot = pstate.prot
            /\ dev.current = pstate.ask /\ dev.target = pstate.ask
        BY <2>1 DEF PstateInv, ReadStillTrue
      <3> QED BY <3>1 DEF PstateInv, DevType
    <2>2. status = "Ok" => pstate.ask = P12
      OBVIOUS
    <2>3. status = "RolledBack" => pstate.ask = P7
      OBVIOUS
    <2> QED BY <1>1, <2>1, <2>2, <2>3 DEF PstateHonest
  <1> QED BY <1>1, <1>2, <1>3 DEF PstateInv

\* A request that fails: P7 is asked for, or the status tells whether it was
\* written.
LEMMA FailsKeeps ==
    ASSUME PstateInv, dev' = dev, pstate.pc \in {"before", "after", "verify"}, NEW why, Fails(why),
           why # "StuckBusy" => pstate.pc \in {"after", "verify"}
    PROVE  PstateInv'
  <1>0. PstateType /\ Written /\ DevType /\ pstate.status = Nothing
    BY DEF PstateInv
  <1>1. CASE pstate.ask = P12
    <2>1. pstate' = [pstate EXCEPT !.pc = "before", !.ask = P7, !.reads = 0, !.wrote = Nothing]
      BY <1>1 DEF Fails
    <2>2. /\ pstate'.pc = "before" /\ pstate'.status = Nothing /\ pstate'.wrote = Nothing
          /\ PstateType'
      BY <1>0, <2>1 DEF PstateType, Points
    <2>3. ReadStillTrue' /\ Written' /\ DevType'
      BY <1>0, <2>2 DEF ReadStillTrue, Written, DevType
    <2>4. PstateHonest'
      BY <2>2, NothingIsNone DEF PstateHonest, Outcomes
    <2> QED BY <2>2, <2>3, <2>4 DEF PstateInv
  <1>2. CASE pstate.ask # P12
    <2>1. pstate.ask = P7
      BY <1>0, <1>2 DEF PstateType, Points
    <2>2. PICK status \in Outcomes :
            /\ End(status)
            /\ status = IF why # "StuckBusy" THEN "RollbackFailed"
                        ELSE IF pstate.wrote = P7 THEN "RollbackUnverified" ELSE "RollbackBusy"
      BY <1>2 DEF Fails, Outcomes
    <2>3. pstate.wrote # P7 => pstate.wrote = Nothing
      BY <1>0, <2>1 DEF Written
    <2>4. why # "StuckBusy" => pstate.wrote = P7
      BY <1>0, <2>1 DEF Written
    <2>5. /\ status \notin {"Ok", "RolledBack"}
          /\ status = "RollbackBusy" => pstate.wrote = Nothing
          /\ status \in {"RollbackUnverified", "RollbackFailed"} => pstate.wrote = P7
      BY <2>2, <2>3, <2>4
    <2> QED BY <2>2, <2>5, EndKeeps
  <1> QED BY <1>1, <1>2

\* A step that goes on from one point of the code to another.
LEMMA GoesOnKeeps ==
    ASSUME PstateInv, DevType', PstateType', pstate.pc # "done", pstate'.pc # "done",
           pstate'.status = pstate.status, ReadStillTrue', Written'
    PROVE  PstateInv'
  <1>1. pstate'.status = Nothing
    BY DEF PstateInv
  <1>2. PstateHonest'
    BY <1>1, NothingIsNone DEF PstateHonest, ReadStillTrue, Outcomes
  <1> QED BY <1>1, <1>2 DEF PstateInv

LEMMA BaselineKeeps ==
    ASSUME PstateInv, NEW t8103 \in BOOLEAN, Baseline(t8103)
    PROVE  PstateInv'
  <1>1. dev' = dev /\ pstate.pc = "baseline" /\ DevType' /\ PstateType /\ Written
    BY DEF Baseline, PstateInv, DevType
  <1>2. ASSUME NEW status \in {"UnsupportedChip", "BaselineBusy", "BaselineNotP7"}, End(status)
        PROVE  PstateInv'
    <2>1. status \in Outcomes /\ status \notin {"Ok", "RolledBack", "RollbackBusy",
                                                 "RollbackUnverified", "RollbackFailed"}
      BY DEF Outcomes
    <2> QED BY <1>1, <1>2, <2>1, EndKeeps
  <1>3. CASE pstate' = [pstate EXCEPT !.pc = "before", !.prot = dev.prot]
    <2>1. /\ PstateType' /\ pstate'.pc = "before" /\ UNCHANGED <<pstate.status, pstate.ask, pstate.wrote>>
      BY <1>1, <1>3 DEF PstateType, DevType
    <2>2. ReadStillTrue' /\ Written'
      BY <1>1, <2>1 DEF ReadStillTrue, Written
    <2> QED BY <1>1, <2>1, <2>2, GoesOnKeeps
  <1> QED BY <1>2, <1>3 DEF Baseline

LEMMA WaitKeeps ==
    ASSUME PstateInv, WaitIdle
    PROVE  PstateInv'
  <1>1. /\ dev' = dev /\ pstate.pc \in {"before", "after"} /\ DevType /\ DevType' /\ PstateType
        /\ Written
    BY DEF WaitIdle, PstateInv, DevType
  <1>2. ASSUME NEW why, Fails(why), why # "StuckBusy" => pstate.pc \in {"after", "verify"}
        PROVE  PstateInv'
    BY <1>1, <1>2, FailsKeeps
  <1>3. CASE pstate' = [pstate EXCEPT !.reads = @ + 1]
    <2>1. /\ PstateType'
          /\ UNCHANGED <<pstate.pc, pstate.status, pstate.ask, pstate.wrote>>
      BY <1>1, <1>3 DEF PstateType
    <2>2. ReadStillTrue' /\ Written'
      BY <1>1, <2>1 DEF ReadStillTrue, Written
    <2> QED BY <1>1, <2>1, <2>2, GoesOnKeeps
  <1>4. CASE /\ ~dev.busy /\ pstate.pc = "before"
             /\ pstate' = [pstate EXCEPT !.pc = "write", !.reads = 0]
    <2>1. /\ PstateType' /\ pstate'.pc = "write" /\ dev.busy = FALSE
          /\ UNCHANGED <<pstate.status, pstate.ask, pstate.wrote>>
      BY <1>1, <1>4 DEF PstateType, DevType
    <2>2. ReadStillTrue' /\ Written'
      BY <1>1, <2>1 DEF ReadStillTrue, Written
    <2> QED BY <1>1, <2>1, <2>2, GoesOnKeeps
  <1>5. CASE /\ ~dev.busy /\ pstate.pc = "after" /\ dev.desired = pstate.ask
             /\ dev.prot = pstate.prot
             /\ pstate' = [pstate EXCEPT !.pc = "verify", !.reads = 0]
    <2>1. /\ PstateType' /\ pstate'.pc = "verify" /\ dev.busy = FALSE
          /\ UNCHANGED <<pstate.status, pstate.ask, pstate.wrote, pstate.prot>>
      BY <1>1, <1>5 DEF PstateType, DevType
    <2>2. ReadStillTrue' /\ Written'
      BY <1>1, <1>5, <2>1 DEF ReadStillTrue, Written
    <2> QED BY <1>1, <2>1, <2>2, GoesOnKeeps
  <1> QED BY <1>2, <1>3, <1>4, <1>5 DEF WaitIdle

LEMMA WriteKeeps ==
    ASSUME PstateInv, Write
    PROVE  PstateInv'
  <1>1. /\ pstate.pc = "write" /\ DevType /\ PstateType
        /\ dev' = [dev EXCEPT !.desired = pstate.ask, !.busy = TRUE]
        /\ pstate' = [pstate EXCEPT !.pc = "after", !.wrote = pstate.ask]
    BY DEF Write, PstateInv
  <1>2. DevType'
    BY <1>1 DEF DevType, PstateType
  <1>3. /\ PstateType' /\ pstate'.pc = "after" /\ pstate'.wrote = pstate'.ask
        /\ pstate'.status = pstate.status
    BY <1>1 DEF PstateType
  <1>4. ReadStillTrue' /\ Written'
    BY <1>3 DEF ReadStillTrue, Written
  <1> QED BY <1>1, <1>2, <1>3, <1>4, GoesOnKeeps

LEMMA VerifyKeeps ==
    ASSUME PstateInv, Verify
    PROVE  PstateInv'
  <1>1. dev' = dev /\ pstate.pc = "verify" /\ PstateType
    BY DEF Verify, PstateInv
  <1>2. CASE Fails("StatusMismatch")
    BY <1>1, <1>2, FailsKeeps
  <1>3. CASE /\ dev.current = pstate.ask /\ dev.target = pstate.ask
             /\ End(IF pstate.ask = P12 THEN "Ok" ELSE "RolledBack")
    <2>1. PICK status \in Outcomes : /\ status = (IF pstate.ask = P12 THEN "Ok" ELSE "RolledBack")
                                     /\ End(status)
      BY <1>3 DEF Outcomes
    <2>2. pstate.ask = IF status = "Ok" THEN P12 ELSE P7
      BY <1>1, <2>1 DEF PstateType, Points
    <2>3. status \notin {"RollbackBusy", "RollbackUnverified", "RollbackFailed"}
      BY <2>1
    <2> QED BY <1>1, <1>3, <2>1, <2>2, <2>3, EndKeeps
  <1> QED BY <1>1, <1>2, <1>3 DEF Verify

\* Of a whole boot, only these steps concern the routine.
LEMMA PstateInvNext ==
    ASSUME PstateInv, [Next]_vars
    PROVE  PstateInv'
  <1>1. CASE UNCHANGED pstateVars
    BY <1>1 DEF pstateVars, PstateInv, DevType, PstateType, ReadStillTrue, Written, PstateHonest
  <1>2. CASE Enter
    <2>1. DevType'
      BY <1>2 DEF Enter, DevType
    <2> QED BY <1>2, <2>1, LocalsKeep DEF Enter
  <1>3. CASE Leave
    <2>1. DevType'
      BY <1>3 DEF Leave, Unknown, DevType, Points
    <2> QED BY <1>3, <2>1, LocalsKeep DEF Leave
  <1>4. CASE PstateStep \/ PstateDevice
    BY <1>4, DeviceKeeps, BaselineKeeps, WaitKeeps, WriteKeeps, VerifyKeeps DEF PstateStep
  <1> QED BY <1>1, <1>2, <1>3, <1>4
          DEF Next, vars, Display, World, Time, Prefix, Drivers, Bus, Event, Pstate, Controller,
              HandlerEnds, Loader, Others

\* Whatever the controller does and whenever it does it, through any number of
\* ReadyToBoot events: nwoas_cpu_pstate_enable_p12 writes no request into a
\* transition, and the status it returns is true of the controller.
THEOREM PstateAlwaysHonest == Spec => []PstateHonest
  <1>1. Init => PstateInv
    <2> SUFFICES ASSUME Init PROVE PstateInv
      OBVIOUS
    <2>1. dev = Unknown /\ pstate = PstateLocals("off")
      BY DEF Init, PstateInit
    <2>2. /\ pstate.pc = "off" /\ pstate.status = Nothing /\ pstate.wrote = Nothing
          /\ PstateType /\ DevType
      BY <2>1 DEF PstateLocals, PstateType, Points, Unknown, DevType
    <2>3. ReadStillTrue /\ Written
      BY <2>2 DEF ReadStillTrue, Written
    <2>4. PstateHonest
      BY <2>2, NothingIsNone DEF PstateHonest, Outcomes
    <2> QED BY <2>2, <2>3, <2>4 DEF PstateInv
  <1>2. PstateInv /\ [Next]_vars => PstateInv'
    BY PstateInvNext
  <1>3. PstateInv => PstateHonest
    BY DEF PstateInv
  <1> QED BY <1>1, <1>2, <1>3, PTL DEF Spec

(***************************************************************************)
(* The handoff of boot arguments and device tree.                          *)
(***************************************************************************)
\* Rounding up by a sum that does not wrap never goes below its argument.
LEMMA AlignedUpIs ==
    ASSUME NEW a \in Nat, NEW n \in Nat, n >= 1, ~Overflows(a, n - 1)
    PROVE  AlignedUp(a, n) \in Nat /\ AlignedUp(a, n) >= a
  <1>1. PICK s \in Nat : s = a + (n - 1) /\ s < Wrap
    BY HandoffAssumption DEF Overflows
  <1>2. Plus(a, n - 1) = s
    BY <1>1, HandoffAssumption DEF Plus
  <1>3. PICK q \in Nat : q = s \div n /\ q * n <= s /\ s < q * n + n
    BY <1>1
  <1>4. AlignedUp(a, n) = q * n
    BY <1>2, <1>3 DEF AlignedUp
  <1>5. q * n \in Nat
    BY <1>3
  <1> QED BY <1>1, <1>3, <1>4, <1>5

Untouched == [a \in Addresses |-> a]

\* What each step has established: the loader's layout, then the firmware's own
\* checks and the copies it made of untouched memory.
Placed == machine \in Machines /\ LayoutAccepts(machine) /\ fd \in Nat

HandoffInv ==
    /\ step = "copy" => Placed /\ mem = Untouched
    /\ step = "reserve" => /\ Placed /\ RangeAccepts(machine) /\ SourceAccepts(machine)
                           /\ mem = WithBootArgs(WithAdt(Untouched, machine), machine)
    /\ HandoffIntact

\* What the loader and the firmware check, without wrapping: where the copies
\* end, and that the image and the loader are clear of them.
LEMMA PlaceIsClear ==
    ASSUME Placed, RangeAccepts(machine), SourceAccepts(machine)
    PROVE  LET m == machine
           IN  /\ Adt \in Nat /\ Adt + m.adtSize <= HandoffEnd(m) /\ Adt + m.adtSize < Wrap
               /\ HandoffEnd(m) \in Nat /\ HandoffEnd(m) <= m.ram + m.size
               /\ m.ram + m.adtFrom + m.adtSize < Wrap
               /\ fd + m.image < Wrap
               /\ ~(BootArgs < fd + m.image /\ HandoffEnd(m) > fd)
               /\ ~(m.prefix < HandoffEnd(m) /\ m.prefixEnd > BootArgs)
  <1> DEFINE m == machine
  <1>1. /\ Wrap \in Nat /\ Granule \in Nat /\ Granule >= 1 /\ BootArgs \in Nat
        /\ BootArgs + Granule < Wrap
    BY HandoffAssumption
  <1>2. /\ m.ram \in Nat /\ m.size \in Nat /\ m.adtSize \in Nat /\ m.adtFrom \in Nat
        /\ m.image \in Nat /\ fd \in Nat
    BY HandoffAssumption DEF Placed, Addresses
  <1>3. /\ ~Overflows(m.ram, m.size) /\ ~Overflows(fd, m.image) /\ ~Overflows(Adt, m.adtSize)
        /\ ~Overflows(Adt + m.adtSize, Granule - 1)
        /\ HandoffEnd(m) <= m.ram + m.size
        /\ ~(BootArgs < fd + m.image /\ HandoffEnd(m) > fd)
    BY DEF RangeAccepts
  <1>4. ~(m.prefix < HandoffEnd(m) /\ m.prefixEnd > BootArgs)
    BY DEF Placed, LayoutAccepts
  <1>5. Adt \in Nat
    BY <1>1 DEF Adt
  <1>6. Adt + m.adtSize < Wrap /\ fd + m.image < Wrap /\ m.ram + m.size < Wrap
    BY <1>1, <1>2, <1>3, <1>5 DEF Overflows
  <1>7. Plus(Adt, m.adtSize) = Adt + m.adtSize
    <2>1. PICK a \in Nat : a = Adt + m.adtSize /\ a < Wrap
      BY <1>2, <1>5, <1>6
    <2>2. a % Wrap = a
      BY <1>1, <2>1
    <2> QED BY <2>1, <2>2 DEF Plus
  <1>8. HandoffEnd(m) \in Nat /\ HandoffEnd(m) >= Adt + m.adtSize
    <2>1. PICK a \in Nat : a = Adt + m.adtSize
      BY <1>2, <1>5
    <2>2. AlignedUp(a, Granule) \in Nat /\ AlignedUp(a, Granule) >= a
      BY <1>1, <1>3, <2>1, AlignedUpIs
    <2> QED BY <1>7, <2>1, <2>2 DEF HandoffEnd
  <1>9. m.ram + m.adtFrom + m.adtSize < Wrap
    <2>1. m.adtFrom <= m.size /\ m.adtSize <= m.size - m.adtFrom
      BY DEF SourceAccepts
    <2> QED BY <1>1, <1>2, <1>6, <2>1
  <1> QED BY <1>1, <1>2, <1>3, <1>4, <1>5, <1>6, <1>8, <1>9

\* The two copies in untouched memory, byte by byte: the device tree first,
\* whose source the boot arguments may then overwrite.
LEMMA CopiesAre ==
    ASSUME Placed, RangeAccepts(machine), SourceAccepts(machine)
    PROVE  LET m == machine
               bytes == WithBootArgs(WithAdt(Untouched, m), m)
           IN  /\ \A k \in 0 .. BootArgsLen - 1 : bytes[BootArgs + k] = m.argsFrom + k
               /\ \A k \in 0 .. m.adtSize - 1 : bytes[Adt + k] = m.ram + m.adtFrom + k
               /\ \A a \in Addresses : a < BootArgs \/ a >= HandoffEnd(m) => bytes[a] = a
  <1> DEFINE m == machine
             first == WithAdt(Untouched, m)
             bytes == WithBootArgs(first, m)
  <1>1. /\ Wrap \in Nat /\ Granule \in Nat /\ Granule >= 1 /\ BootArgs \in Nat
        /\ BootArgs + Granule < Wrap /\ BootArgsLen \in 0 .. Granule /\ Adt = BootArgs + Granule
    BY HandoffAssumption DEF Adt
  <1>2. /\ m.ram \in Nat /\ m.adtSize \in Nat /\ m.adtFrom \in Nat /\ m.argsFrom \in Nat
    BY HandoffAssumption DEF Placed, Addresses
  <1>3. /\ Adt + m.adtSize <= HandoffEnd(m) /\ Adt + m.adtSize < Wrap /\ HandoffEnd(m) \in Nat
        /\ m.ram + m.adtFrom + m.adtSize < Wrap
    BY PlaceIsClear
  <1>4. \A a \in Addresses : Untouched[a] = a
    BY DEF Untouched
  <1>5. /\ DOMAIN first = Addresses
        /\ \A a \in Addresses :
             first[a] = IF a \in Adt .. Adt + m.adtSize - 1
                        THEN Untouched[m.ram + m.adtFrom + (a - Adt)] ELSE Untouched[a]
    BY DEF WithAdt, Copied, Untouched
  <1> HIDE DEF first
  <1>6. \A a \in Addresses :
          bytes[a] = IF a \in BootArgs .. BootArgs + BootArgsLen - 1
                     THEN m.argsFrom + (a - BootArgs) ELSE first[a]
    BY <1>5 DEF WithBootArgs
  <1> HIDE DEF bytes
  <1>7. ASSUME NEW k \in 0 .. BootArgsLen - 1
        PROVE  bytes[BootArgs + k] = m.argsFrom + k
    <2>1. /\ BootArgs + k \in Addresses /\ BootArgs + k \in BootArgs .. BootArgs + BootArgsLen - 1
          /\ (BootArgs + k) - BootArgs = k
      BY <1>1 DEF Addresses
    <2> QED BY <1>6, <2>1
  <1>8. ASSUME NEW k \in 0 .. m.adtSize - 1
        PROVE  bytes[Adt + k] = m.ram + m.adtFrom + k
    <2>1. PICK a \in Addresses : /\ a = Adt + k /\ a \in Adt .. Adt + m.adtSize - 1 /\ a - Adt = k
                                 /\ a \notin BootArgs .. BootArgs + BootArgsLen - 1
      BY <1>1, <1>2, <1>3 DEF Addresses
    <2>2. PICK b \in Addresses : b = m.ram + m.adtFrom + k
      BY <1>1, <1>2, <1>3 DEF Addresses
    <2>3. bytes[a] = first[a]
      BY <1>6, <2>1
    <2>4. first[a] = Untouched[b]
      BY <1>5, <2>1, <2>2
    <2> QED BY <1>4, <2>1, <2>2, <2>3, <2>4
  <1>9. ASSUME NEW a \in Addresses, a < BootArgs \/ a >= HandoffEnd(m)
        PROVE  bytes[a] = a
    <2>1. a \notin BootArgs .. BootArgs + BootArgsLen - 1 /\ a \notin Adt .. Adt + m.adtSize - 1
      BY <1>1, <1>2, <1>3, <1>9 DEF Addresses
    <2> QED BY <1>4, <1>5, <1>6, <2>1
  <1> QED BY <1>7, <1>8, <1>9 DEF bytes, first

\* The reservation that ends the handoff, made from the copies.
LEMMA ReserveKeeps ==
    ASSUME HandoffInv, NEW found \in BOOLEAN, Reserve(found), step' = "done"
    PROVE  HandoffIntact'
  <1> DEFINE m == machine
             bytes == WithBootArgs(WithAdt(Untouched, m), m)
  <1>1. /\ Placed /\ RangeAccepts(m) /\ SourceAccepts(m) /\ mem = bytes
        /\ reserved' = HandoffEnd(m) /\ UNCHANGED <<machine, mem, fd>>
    BY DEF HandoffInv, Reserve, Stops
  <1>2. /\ \A k \in 0 .. BootArgsLen - 1 : bytes[BootArgs + k] = m.argsFrom + k
        /\ \A k \in 0 .. m.adtSize - 1 : bytes[Adt + k] = m.ram + m.adtFrom + k
        /\ \A a \in Addresses : a < BootArgs \/ a >= HandoffEnd(m) => bytes[a] = a
    BY <1>1, CopiesAre
  <1> HIDE DEF bytes
  <1>3. /\ Adt + m.adtSize <= HandoffEnd(m) /\ HandoffEnd(m) <= m.ram + m.size
        /\ HandoffEnd(m) \in Nat /\ fd + m.image < Wrap
        /\ ~(BootArgs < fd + m.image /\ HandoffEnd(m) > fd)
        /\ ~(m.prefix < HandoffEnd(m) /\ m.prefixEnd > BootArgs)
    BY <1>1, PlaceIsClear
  <1>4. /\ Wrap \in Nat /\ BootArgs \in Nat /\ fd \in Nat /\ m.image \in Nat
        /\ m.prefix \in Nat /\ m.prefixEnd \in 0 .. Wrap - 1
    BY <1>1, HandoffAssumption DEF Placed, Addresses
  <1>5. ASSUME NEW a \in fd .. fd + m.image - 1
        PROVE  bytes[a] = a
    <2>1. a \in Addresses /\ (a < BootArgs \/ a >= HandoffEnd(m))
      BY <1>3, <1>4 DEF Addresses
    <2> QED BY <1>2, <2>1
  <1>6. ASSUME NEW a \in m.prefix .. m.prefixEnd - 1
        PROVE  bytes[a] = a
    <2>1. a \in Addresses /\ (a < BootArgs \/ a >= HandoffEnd(m))
      BY <1>3, <1>4 DEF Addresses
    <2> QED BY <1>2, <2>1
  <1> QED BY <1>1, <1>2, <1>3, <1>5, <1>6 DEF HandoffIntact

LEMMA HandoffInvNext ==
    ASSUME HandoffInv, [Next]_vars
    PROVE  HandoffInv'
  <1> USE DEF HandoffInv
  <1>1. CASE UNCHANGED handoffVars
    <2>1. UNCHANGED <<machine, mem, fd, reserved, step>>
      BY <1>1 DEF handoffVars
    <2>2. Placed' = Placed /\ RangeAccepts(machine)' = RangeAccepts(machine)
          /\ HandoffIntact' = HandoffIntact
      BY <2>1 DEF Placed, RangeAccepts, HandoffIntact
    <2> QED BY <2>1, <2>2
  <1>2. ASSUME NEW m \in Machines, Load(m)
        PROVE  HandoffInv'
    <2>1. /\ machine' = m /\ mem' = Untouched /\ step' \in {"copy", "halt"}
          /\ step' = "copy" => LayoutAccepts(m) /\ fd' = ImageBase(m)
      BY <1>2 DEF Load, Untouched
    <2>2. HandoffIntact'
      BY <2>1 DEF HandoffIntact
    <2>3. ASSUME step' = "copy" PROVE fd' \in Nat
      <3>1. PICK h : h = IF m.heap > HandoffEnd(m) THEN m.heap ELSE HandoffEnd(m)
        OBVIOUS
      <3>2. ~Overflows(h, ImageAlign - 1) /\ fd' = AlignedUp(h, ImageAlign)
        BY <2>1, <2>3, <3>1 DEF LayoutAccepts, ImageBase
      <3>3. m.heap \in Nat /\ m.adtSize \in Nat /\ ImageAlign \in Nat /\ ImageAlign >= 1
        BY HandoffAssumption DEF Addresses
      <3>4. HandoffEnd(m) \in Nat
        <4>1. Wrap \in Nat /\ Wrap >= 1 /\ Granule \in Nat /\ Granule >= 1 /\ Adt \in Nat
          BY HandoffAssumption DEF Adt
        <4>2. PICK a \in Nat : a = Plus(Adt, m.adtSize)
          BY <3>3, <4>1 DEF Plus
        <4>3. PICK b \in Nat : b = Plus(a, Granule - 1)
          BY <4>1, <4>2 DEF Plus
        <4>4. (b \div Granule) * Granule \in Nat
          BY <4>1
        <4> QED BY <4>2, <4>3, <4>4 DEF HandoffEnd, AlignedUp
      <3> QED BY <3>1, <3>2, <3>3, <3>4, AlignedUpIs
    <2> QED BY <2>1, <2>2, <2>3 DEF Placed
  <1>3. CASE Copy
    <2>1. CASE Stops
      BY <2>1 DEF Stops, HandoffIntact
    <2>2. CASE /\ RangeAccepts(machine) /\ SourceAccepts(machine) /\ mem' = Copies(machine)
               /\ step' = "reserve" /\ UNCHANGED <<machine, fd, reserved>>
      <3>1. Placed /\ mem = Untouched
        BY <1>3 DEF Copy
      <3>2. mem' = WithBootArgs(WithAdt(Untouched, machine), machine)
        BY <2>2, <3>1 DEF Copies
      <3>3. Placed' /\ RangeAccepts(machine)'
        BY <2>2, <3>1 DEF Placed, RangeAccepts
      <3> QED BY <2>2, <3>2, <3>3 DEF HandoffIntact
    <2> QED BY <1>3, <2>1, <2>2 DEF Copy
  <1>4. ASSUME NEW found \in BOOLEAN, Reserve(found)
        PROVE  HandoffInv'
    <2>1. CASE Stops
      BY <2>1 DEF Stops, HandoffIntact
    <2>2. CASE step' = "done"
      BY <1>4, <2>2, ReserveKeeps
    <2> QED BY <1>4, <2>1, <2>2 DEF Reserve
  <1>5. CASE step = "done" /\ Forget
    <2>1. machine' = NoMachine /\ step' = "done"
      BY <1>5 DEF Forget
    <2> QED BY <2>1 DEF HandoffIntact
  <1> QED BY <1>1, <1>2, <1>3, <1>4, <1>5
          DEF Next, vars, Display, World, Time, Prefix, HandoffStep, Drivers, Bus, Event, Pstate,
              Controller, HandlerEnds, Loader, Others

\* For every machine, and boot arguments and device tree that may overlap each
\* other and the place of the copies: a firmware that goes on has both as the
\* loader left them (their sources lie below the image), has
\* overwritten neither image, and reserves a place in RAM that holds them.
THEOREM HandoffAlwaysIntact == Spec => []HandoffIntact
  <1>1. Init => HandoffInv
    BY DEF Init, HandoffInit, HandoffInv, HandoffIntact
  <1>2. HandoffInv /\ [Next]_vars => HandoffInv'
    BY HandoffInvNext
  <1>3. HandoffInv => HandoffIntact
    BY DEF HandoffInv
  <1> QED BY <1>1, <1>2, <1>3, PTL DEF Spec

(***************************************************************************)
(* The display.  choose_timing returns one of the modes that fit: the      *)
(* minimum of a set that is not empty exists, for numbers and for ranks.   *)
(***************************************************************************)
NatLess == {ss \in Nat \X Nat : ss[1] < ss[2]}

LEMMA NatLessIsWellFounded == IsWellFoundedOn(NatLess, Nat)
  BY NatLessThanWellFounded DEF OpToRel, NatLess

\* A set of numbers that is not empty has a least member.
LEMMA LeastOf ==
    ASSUME NEW T, T \subseteq Nat, T # {}
    PROVE  \E x \in T : \A y \in T : x <= y
  <1>1. PICK x \in T : \A y \in T : ~(<<y, x>> \in NatLess)
    BY NatLessIsWellFounded, WFMin
  <1>2. ASSUME NEW y \in T PROVE x <= y
    <2>1. x \in Nat /\ y \in Nat /\ <<y, x>> \in Nat \X Nat
      OBVIOUS
    <2>2. ~(y < x)
      BY <1>1, <2>1 DEF NatLess
    <2> QED BY <2>1, <2>2
  <1> QED BY <1>2

LEMMA NatMin ==
    ASSUME NEW T, T \subseteq Nat, T # {}
    PROVE  Min(T) \in T
  <1>1. PICK x \in T : \A y \in T : x <= y
    BY LeastOf
  <1> QED BY <1>1 DEF Min

\* The order of ranks is total.
LEMMA BeforeOrAfter ==
    ASSUME NEW x \in [1..4 -> Nat], NEW y \in [1..4 -> Nat],
           ~(<<y, x>> \in LexProductOrdering(NatLess, Nat, 4))
    PROVE  Before(x, y)
  <1>1. ASSUME NEW j \in 1..4, \A i \in 1..(j - 1) : y[i] = x[i]
        PROVE  x[j] <= y[j]
    <2>1. y[j] \in Nat /\ x[j] \in Nat /\ <<y[j], x[j]>> \in Nat \X Nat
      OBVIOUS
    <2>2. CASE y[j] < x[j]
      <3>1. <<y[j], x[j]>> \in NatLess
        BY <2>1, <2>2 DEF NatLess
      <3>2. <<y, x>> \in [1..4 -> Nat] \X [1..4 -> Nat]
        OBVIOUS
      <3> QED BY <1>1, <3>1, <3>2 DEF LexProductOrdering
    <2> QED BY <2>1, <2>2
  <1>2. DOMAIN x = 1..4 /\ DOMAIN y = 1..4
    OBVIOUS
  <1>3. ASSUME NEW k \in 1..4, x[k] # y[k], \A j \in 1 .. k - 1 : x[j] = y[j]
        PROVE  Before(x, y)
    <2>1. x[k] <= y[k]
      BY <1>1, <1>3
    <2>2. x[k] < y[k]
      BY <1>3, <2>1
    <2> QED BY <1>2, <1>3, <2>2 DEF Before
  <1>4. CASE x[1] # y[1]
    BY <1>3, <1>4
  <1>5. CASE x[1] = y[1] /\ x[2] # y[2]
    BY <1>3, <1>5
  <1>6. CASE x[1] = y[1] /\ x[2] = y[2] /\ x[3] # y[3]
    BY <1>3, <1>6
  <1>7. CASE x[1] = y[1] /\ x[2] = y[2] /\ x[3] = y[3] /\ x[4] # y[4]
    BY <1>3, <1>7
  <1>8. CASE x[1] = y[1] /\ x[2] = y[2] /\ x[3] = y[3] /\ x[4] = y[4]
    <2>1. x = y
      BY <1>8
    <2> QED BY <2>1 DEF Before
  <1> QED BY <1>4, <1>5, <1>6, <1>7, <1>8

\* choose_timing looks at modes of the display.
LEMMA CandidatesAre ==
    ASSUME NEW timings \in Seq([size : Nat \ {0}, err : Nat]), NEW count \in Nat,
           Choosable(timings, count)
    PROVE  Candidates(timings, count) \subseteq [size : Nat \ {0}, err : Nat]
  <1>1. /\ Candidates(timings, count) = {m \in {timings[k] : k \in 1 .. count} : Usable(m)}
        /\ count <= Len(timings)
    BY DEF Choosable, Candidates
  <1>2. ASSUME NEW k \in 1 .. count PROVE timings[k] \in [size : Nat \ {0}, err : Nat]
    <2>1. Len(timings) \in Nat /\ k \in 1 .. Len(timings)
      BY <1>1
    <2> DEFINE S == [size : Nat \ {0}, err : Nat]
    <2>2. timings \in Seq(S)
      OBVIOUS
    <2> HIDE DEF S
    <2>3. timings[k] \in S
      BY <2>1, <2>2
    <2> QED BY <2>3 DEF S
  <1> QED BY <1>1, <1>2

\* choose_timing returns one of the usable modes it looked at.
LEMMA ChosenIsCandidate ==
    ASSUME NEW timings \in Seq([size : Nat \ {0}, err : Nat]), NEW count \in Nat, NEW preferred,
           Choosable(timings, count)
    PROVE  Chosen(timings, count, preferred) \in Candidates(timings, count)
  <1> DEFINE C == Candidates(timings, count)
             T == {Rank(m, preferred) : m \in C}
  <1>1. C # {} /\ \A m \in C : m \in [size : Nat \ {0}, err : Nat]
    BY CandidatesAre DEF Choosable
  <1>2. \A m \in C : Rank(m, preferred) \in [1..4 -> Nat]
    <2> SUFFICES ASSUME NEW m \in C PROVE Rank(m, preferred) \in [1..4 -> Nat]
      OBVIOUS
    <2>1. m.size \in Nat /\ m.err \in Nat
      BY <1>1
    <2>2. PICK a \in Nat, b \in Nat, c \in Nat, d \in Nat : Rank(m, preferred) = <<a, b, c, d>>
      BY <2>1 DEF Rank
    <2> QED BY <2>2
  <1> HIDE DEF C
  <1>3. T \subseteq [1..4 -> Nat] /\ T # {}
    BY <1>1, <1>2
  <1>4. IsWellFoundedOn(LexProductOrdering(NatLess, Nat, 4), [1..4 -> Nat])
    BY NatLessIsWellFounded, WFLexProductOrdering
  <1>5. PICK x \in T : \A y \in T : ~(<<y, x>> \in LexProductOrdering(NatLess, Nat, 4))
    <2> HIDE DEF T
    <2> QED BY <1>3, <1>4, WFMin, ZenonT(30)
  <1>6. PICK m \in C : x = Rank(m, preferred)
    BY <1>5
  <1>7. \A n \in C : Before(Rank(m, preferred), Rank(n, preferred))
    BY <1>2, <1>5, <1>6, BeforeOrAfter
  <1> QED BY <1>7 DEF Chosen, C

(***************************************************************************)
(* What holds between any two steps of the hook, the display, the DCP and  *)
(* the clock.                                                              *)
(***************************************************************************)
Bodies == {<<>>} \cup {o.timings : o \in Offers} \cup {o.colors : o \in Offers}
          \cup {<<up, Len(o.timings), Len(o.colors)>> : up \in BOOLEAN, o \in Offers}
Packets == [kind : {"reply", "report"}, good : BOOLEAN, body : Bodies]

\* The variables are records of these fields.
IsHook(h) ==
    h = [pc |-> h.pc, rpc |-> h.rpc, spent |-> h.spent, elapsed |-> h.elapsed,
         attempts |-> h.attempts, counts |-> h.counts, fb |-> h.fb, down |-> h.down,
         round |-> h.round]
IsLink(l) == l = [req |-> l.req, rx |-> l.rx, mail |-> l.mail, noise |-> l.noise]
Shapes ==
    /\ IsHook(hook)
    /\ IsLink(link)
    /\ dcp = [on |-> dcp.on, size |-> dcp.size, layer |-> dcp.layer, lit |-> dcp.lit]
    /\ sink = [up |-> sink.up, offer |-> sink.offer, edges |-> sink.edges]
    /\ link.rx \in Seq(Packets)
    /\ sink.up \in BOOLEAN /\ sink.offer \in Offers /\ hook.counts[2] \in Nat

\* One command at a time: no request and no reply is left over from another,
\* and a reply that is there has the body the hook takes it for.
Fits(body) ==
    /\ Op = "counts" => body[2] \in Nat
    /\ Op = "timings" => body \in {o.timings : o \in Offers}
OneCommand ==
    /\ hook.rpc # "sent" => link.req = <<>> /\ Replies = {}
    /\ hook.rpc = "sent" =>
          /\ hook.pc \in Commanding
          /\ link.req = <<>> \/ (link.req = <<Op, hook.fb>> /\ Replies = {})
          /\ \A k \in Replies : Fits(link.rx[k].body)

\* A size that fits has been chosen.
NoSize == {"start", "counts1", "timings1", "guest", "aborted"}
Geometry == hook.pc \notin NoSize => hook.fb \in 1 .. VramSize

\* As long as no edge comes after the settle loop, what the hook has been
\* answered is still so: op names the last command that was answered well.
Done(op) ==
    CASE op = "power" -> dcp.on = TRUE
      [] op = "mode"  -> dcp.size = hook.fb
      [] op = "layer" -> dcp.layer = hook.fb
      [] op = "end"   -> dcp.lit = TRUE
      [] OTHER        -> TRUE
Past(op) ==
    CASE op = "power" -> {"mode", "begin", "layer", "end", "hold", "entered"}
      [] op = "mode"  -> {"begin", "layer", "end", "hold", "entered"}
      [] op = "layer" -> {"end", "hold", "entered"}
      [] op = "end"   -> {"hold", "entered"}
      [] OTHER        -> {}
Steady ==
    calm =>
      /\ hook.pc \in {"power", "mode", "begin", "layer", "end", "hold", "entered"}
      /\ hook.pc # "entered" => hook.round = 2
      /\ \A op \in {"power", "mode", "layer", "end"} :
            hook.pc \in Past(op) => Done(op)
      /\ hook.rpc = "sent" => \A k \in Replies : link.rx[k].good => Done(hook.pc)

DisplayInv == Shapes /\ OneCommand /\ Geometry /\ Steady /\ calm \in BOOLEAN

LEMMA LocalsAre ==
    ASSUME NEW pc
    PROVE  /\ HookLocals(pc).pc = pc /\ HookLocals(pc).rpc = "idle" /\ HookLocals(pc).fb = 0
           /\ HookLocals(pc).counts = <<FALSE, 0, 0>> /\ HookLocals(pc).round = 1
  BY DEF HookLocals

LEMMA SilentShape ==
    ASSUME link' = Silent
    PROVE  /\ IsLink(link')
           /\ link'.rx \in Seq(Packets) /\ link'.req = <<>> /\ Replies' = {}
  BY DEF Silent, Replies, IsLink

LEMMA EndsKeeps ==
    ASSUME NEW pc \in {"guest", "aborted"}, Ends(pc)
    PROVE  DisplayInv'
  <1>1. sink' = NoSink /\ calm' = FALSE /\ dcp' = Dark /\ link' = Silent /\ hook' = HookLocals(pc)
    BY DEF Ends
  <1>2. hook'.pc = pc /\ hook'.rpc = "idle" /\ hook'.counts = <<FALSE, 0, 0>>
    BY <1>1, LocalsAre
  <1>3. Shapes'
    <2>1. dcp' = [on |-> dcp'.on, size |-> dcp'.size, layer |-> dcp'.layer, lit |-> dcp'.lit]
      BY <1>1 DEF Dark
    <2>2. sink' = [up |-> sink'.up, offer |-> sink'.offer, edges |-> sink'.edges]
          /\ sink'.up \in BOOLEAN /\ sink'.offer \in Offers
      BY <1>1, DisplayAssumption DEF NoSink
    <2>3. IsHook(hook')
      BY <1>1 DEF HookLocals, IsHook
    <2>4. hook'.counts[2] \in Nat
      BY <1>2
    <2> QED BY <1>1, <2>1, <2>2, <2>3, <2>4, SilentShape DEF Shapes
  <1>4. OneCommand'
    BY <1>1, <1>2, SilentShape DEF OneCommand
  <1>5. Geometry' /\ Steady'
    BY <1>1, <1>2 DEF Geometry, NoSize, Steady
  <1> QED BY <1>1, <1>3, <1>4, <1>5 DEF DisplayInv

LEMMA AbortKeeps == Abort => DisplayInv'
  BY EndsKeeps DEF Abort

\* The display: an edge ends the calm.
LEMMA PlugKeeps ==
    ASSUME DisplayInv, HotPlug \/ Publish
    PROVE  DisplayInv'
  <1>1. /\ link' = link /\ hook' = hook /\ (calm' = FALSE \/ (calm' = calm /\ dcp' = dcp))
        /\ (dcp' = dcp \/ dcp' = Dark)
    BY DEF HotPlug, Publish
  <1>2. sink' = [up |-> sink'.up, offer |-> sink'.offer, edges |-> sink'.edges]
        /\ sink'.up \in BOOLEAN /\ sink'.offer \in Offers
    <2>1. CASE HotPlug
      <3>1. PICK offer \in IF sink.up THEN {NoOffer} ELSE Offers :
              sink' = [up |-> ~sink.up, offer |-> offer, edges |-> sink.edges - 1]
        BY <2>1 DEF HotPlug
      <3>2. offer \in Offers
        BY <3>1, DisplayAssumption
      <3> QED BY <3>1, <3>2
    <2>2. CASE Publish
      <3>1. PICK offer \in Offers \ {sink.offer} :
              sink' = [sink EXCEPT !.offer = offer, !.edges = @ - 1]
        BY <2>2 DEF Publish
      <3> QED BY <3>1 DEF DisplayInv, Shapes
    <2> QED BY <2>1, <2>2
  <1>3. dcp' = [on |-> dcp'.on, size |-> dcp'.size, layer |-> dcp'.layer, lit |-> dcp'.lit]
    BY <1>1 DEF DisplayInv, Shapes, Dark
  <1>4. Shapes'
    BY <1>1, <1>2, <1>3 DEF DisplayInv, Shapes
  <1>5. Replies' = Replies /\ Op' = Op
    BY <1>1 DEF Replies, Op
  <1>6. \A b : Fits(b)' = Fits(b)
    BY <1>5 DEF Fits
  <1>7. OneCommand' /\ Geometry'
    BY <1>1, <1>5, <1>6 DEF DisplayInv, OneCommand, Geometry
  <1>8. Steady' /\ calm' \in BOOLEAN
    <2>1. CASE calm' = FALSE
      BY <2>1 DEF Steady
    <2>2. CASE calm' = calm /\ dcp' = dcp
      <3>1. \A op : Done(op)' = Done(op)
        BY <1>1, <2>2 DEF Done
      <3> QED BY <1>1, <1>5, <2>2, <3>1 DEF DisplayInv, Steady
    <2> QED BY <1>1, <2>1, <2>2
  <1> QED BY <1>4, <1>7, <1>8 DEF DisplayInv

\* Ticks, reports and mail change nothing that is looked at here.
LEMMA NoiseKeeps ==
    ASSUME DisplayInv, UNCHANGED <<sink, calm, dcp>>,
           IsHook(hook'),
           hook'.pc = hook.pc, hook'.rpc = hook.rpc, hook'.counts = hook.counts,
           hook'.fb = hook.fb, hook'.round = hook.round,
           IsLink(link'),
           link'.req = link.req, link'.rx \in Seq(Packets), Replies' = Replies,
           \A k \in Replies : link'.rx[k] = link.rx[k]
    PROVE  DisplayInv'
  <1>1. Shapes'
    BY DEF DisplayInv, Shapes
  <1>2. Op' = Op
    BY DEF Op
  <1>3. \A b : Fits(b)' = Fits(b)
    BY <1>2 DEF Fits
  <1>4. OneCommand' /\ Geometry'
    BY <1>2, <1>3 DEF DisplayInv, OneCommand, Geometry
  <1>5. \A op : Done(op)' = Done(op)
    BY DEF Done
  <1>6. Steady' /\ calm' \in BOOLEAN
    BY <1>5 DEF DisplayInv, Steady
  <1> QED BY <1>1, <1>4, <1>6 DEF DisplayInv

LEMMA TickKeeps ==
    ASSUME DisplayInv, ClockTicks \/ UNCHANGED displayVars
    PROVE  DisplayInv'
  <1>0. Shapes
    BY DEF DisplayInv
  <1>1. UNCHANGED <<sink, calm, dcp, link>>
    BY DEF ClockTicks, displayVars
  <1>2. /\ IsHook(hook')
        /\ hook'.pc = hook.pc /\ hook'.rpc = hook.rpc /\ hook'.counts = hook.counts
        /\ hook'.fb = hook.fb /\ hook'.round = hook.round
    BY <1>0 DEF ClockTicks, displayVars, Shapes, IsHook
  <1>3. Replies' = Replies
    BY <1>1 DEF Replies
  <1>4. IsLink(link')
        /\ link'.rx \in Seq(Packets) /\ link'.req = link.req /\ \A k \in Replies : link'.rx[k] = link.rx[k]
    BY <1>0, <1>1 DEF Shapes
  <1> QED BY <1>1, <1>2, <1>3, <1>4, NoiseKeeps

\* The replies after one more message.
LEMMA RepliesAppend ==
    ASSUME NEW p \in Packets, link.rx \in Seq(Packets), link'.rx = Append(link.rx, p)
    PROVE  /\ link'.rx \in Seq(Packets)
           /\ \A k \in Replies : link'.rx[k] = link.rx[k]
           /\ p.kind # "reply" => Replies' = Replies
           /\ p.kind = "reply" /\ Replies = {} =>
                 \A k \in Replies' : link'.rx[k] = p
  <1>1. link'.rx \in Seq(Packets) /\ Len(link.rx) \in Nat /\ DOMAIN link.rx = 1..Len(link.rx)
        /\ DOMAIN link'.rx = 1..(Len(link.rx) + 1) /\ link'.rx[Len(link.rx) + 1] = p
        /\ \A k \in 1..Len(link.rx) : link'.rx[k] = link.rx[k]
    <2> HIDE DEF Packets
    <2> QED OBVIOUS
  <1>2. 1..(Len(link.rx) + 1) = 1..Len(link.rx) \cup {Len(link.rx) + 1}
    BY <1>1
  <1> QED BY <1>1, <1>2 DEF Replies

LEMMA DcpNoiseKeeps ==
    ASSUME DisplayInv, DcpNoise
    PROVE  DisplayInv'
  <1>0. Shapes /\ UNCHANGED <<sink, calm, dcp, hook>>
    BY DEF DisplayInv, DcpNoise
  <1>1. /\ IsHook(hook')
        /\ hook'.pc = hook.pc /\ hook'.rpc = hook.rpc /\ hook'.counts = hook.counts
        /\ hook'.fb = hook.fb /\ hook'.round = hook.round
    BY <1>0 DEF Shapes
  <1> DEFINE p == [kind |-> "report", good |-> TRUE, body |-> <<>>]
  <1>2. CASE link' = [link EXCEPT !.noise = @ - 1, !.rx = Append(@, p)]
    <2>1. IsLink(link')
          /\ link'.req = link.req /\ link'.rx = Append(link.rx, p)
      BY <1>0, <1>2 DEF Shapes, IsLink
    <2>2. p \in Packets /\ p.kind # "reply"
      BY DEF Packets, Bodies
    <2> HIDE DEF p
    <2>3. link'.rx \in Seq(Packets) /\ Replies' = Replies /\ \A k \in Replies : link'.rx[k] = link.rx[k]
      BY <1>0, <2>1, <2>2, RepliesAppend DEF Shapes
    <2> QED BY <1>0, <1>1, <2>1, <2>3, NoiseKeeps
  <1>3. CASE \E mail \in {"known", "unknown"} :
                link' = [link EXCEPT !.noise = @ - 1, !.mail = mail]
    <2>1. IsLink(link')
          /\ link'.req = link.req /\ link'.rx = link.rx
      BY <1>0, <1>3 DEF Shapes, IsLink
    <2>2. Replies' = Replies /\ link'.rx \in Seq(Packets)
      BY <1>0, <2>1 DEF Replies, Shapes
    <2> QED BY <1>0, <1>1, <2>1, <2>2, NoiseKeeps
  <1> QED BY <1>2, <1>3 DEF DcpNoise

\* The DCP answers the one request there is.
LEMMA AnswerKeeps ==
    ASSUME DisplayInv, DcpAnswers
    PROVE  DisplayInv'
  <1>0. Shapes /\ OneCommand /\ Geometry /\ Steady /\ UNCHANGED <<sink, calm, hook>> /\ link.req # <<>>
    BY DEF DisplayInv, DcpAnswers
  <1>1. hook.rpc = "sent" /\ hook.pc \in Commanding /\ link.req = <<Op, hook.fb>> /\ Replies = {}
    BY <1>0 DEF OneCommand
  <1>2. link.req[1] = Op /\ link.req[2] = hook.fb
    BY <1>1
  <1>3. PICK good \in BOOLEAN :
          /\ link' = [link EXCEPT !.req = <<>>, !.rx = Append(@, DcpReply(good, Body(Op)))]
          /\ dcp' = IF good THEN Told(Op, hook.fb) ELSE dcp
    BY <1>2 DEF DcpAnswers
  <1>4. PICK p : p = DcpReply(good, Body(Op))
    OBVIOUS
  <1>5. Body(Op) \in Bodies /\ Fits(Body(Op))
    <2>1. CASE Op = "counts"
      <3>1. Body(Op) = <<sink.up, Len(sink.offer.timings), Len(sink.offer.colors)>>
        BY <2>1 DEF Body
      <3>2. sink.up \in BOOLEAN /\ sink.offer \in Offers
        BY <1>0 DEF Shapes
      <3>3. Len(sink.offer.timings) \in Nat
        <4>1. sink.offer.timings \in Seq([size : Nat \ {0}, err : Nat])
          BY <3>2, DisplayAssumption
        <4> QED BY <4>1
      <3> QED BY <2>1, <3>1, <3>2, <3>3 DEF Bodies, Fits
    <2>2. CASE Op = "timings"
      <3>1. Body(Op) = sink.offer.timings
        BY <2>2 DEF Body
      <3> QED BY <1>0, <2>2, <3>1 DEF Bodies, Fits, Shapes
    <2>3. CASE Op \notin {"counts", "timings"}
      <3>1. Body(Op) = sink.offer.colors \/ Body(Op) = <<>>
        BY <2>3 DEF Body
      <3> QED BY <1>0, <2>3, <3>1 DEF Bodies, Fits, Shapes
    <2> QED BY <2>1, <2>2, <2>3
  <1>6. p \in Packets /\ p.kind = "reply" /\ p.good = good /\ p.body = Body(Op)
    BY <1>4, <1>5 DEF DcpReply, Packets
  <1>7. IsLink(link')
        /\ link'.req = <<>> /\ link'.rx = Append(link.rx, p)
    BY <1>0, <1>3, <1>4 DEF Shapes, IsLink
  <1>8. link'.rx \in Seq(Packets) /\ \A k \in Replies' : link'.rx[k] = p
    BY <1>0, <1>1, <1>6, <1>7, RepliesAppend DEF Shapes
  <1>9. dcp' = [on |-> dcp'.on, size |-> dcp'.size, layer |-> dcp'.layer, lit |-> dcp'.lit]
    BY <1>0, <1>3 DEF Shapes, Told
  <1>10. Shapes'
    BY <1>0, <1>7, <1>8, <1>9 DEF Shapes
  <1>11. Op' = Op /\ \A b : Fits(b)' = Fits(b)
    BY <1>0 DEF Op, Fits
  <1>12. OneCommand'
    BY <1>0, <1>1, <1>5, <1>6, <1>7, <1>8, <1>11 DEF OneCommand
  <1>13. Geometry'
    BY <1>0 DEF Geometry
  <1>14. Steady'
    <2> SUFFICES ASSUME calm PROVE Steady'
      BY <1>0 DEF Steady
    <2>1. hook.pc \in {"power", "mode", "begin", "layer", "end"} /\ Op = hook.pc
      BY <1>0, <1>1 DEF Steady, Op, Commanding
    <2>2. hook.fb # 0
      BY <1>0, <2>1, DisplayAssumption DEF Geometry, NoSize
    <2>3. \A op \in {"power", "mode", "layer", "end"} : hook.pc \in Past(op) => Done(op)
      BY <1>0 DEF Steady
    <2>4. CASE ~good
      <3>1. dcp' = dcp
        BY <2>4, <1>3
      <3>2. \A op : Done(op)' = Done(op)
        BY <3>1, <1>0 DEF Done
      <3> QED BY <1>0, <1>6, <1>8, <2>3, <2>4, <3>2 DEF Steady
    <2>5. CASE good
      <3>1. dcp' = Told(hook.pc, hook.fb)
        BY <2>1, <2>5, <1>3
      <3>2. Done(hook.pc)'
        <4>1. CASE hook.pc = "power"
          BY <4>1, <3>1, <1>0 DEF Told, Done, Shapes
        <4>2. CASE hook.pc = "mode"
          BY <4>2, <3>1, <1>0 DEF Told, Done, Shapes
        <4>3. CASE hook.pc = "layer"
          BY <4>3, <3>1, <1>0 DEF Told, Done, Shapes
        <4>4. CASE hook.pc = "end"
          <5>1. dcp.on = TRUE /\ dcp.size = hook.fb /\ dcp.layer = hook.fb
            BY <4>4, <2>3 DEF Past, Done
          <5>2. dcp'.lit = TRUE
            BY <4>4, <5>1, <2>2, <3>1, <1>0 DEF Told, Shapes
          <5> QED BY <4>4, <5>2, <1>0 DEF Done
        <4>5. CASE hook.pc = "begin"
          BY <4>5, <1>0 DEF Done
        <4> QED BY <2>1, <4>1, <4>2, <4>3, <4>4, <4>5
      <3>3. ASSUME NEW op \in {"power", "mode", "layer", "end"}, hook.pc \in Past(op)
            PROVE  Done(op)'
        <4>1. Done(op)
          BY <2>3, <3>3
        <4> QED BY <4>1, <3>1, <3>3, <2>1, <1>0 DEF Told, Done, Past, Shapes
      <3> QED BY <1>0, <1>6, <1>8, <3>2, <3>3 DEF Steady
    <2> QED BY <2>4, <2>5
  <1> QED BY <1>0, <1>10, <1>12, <1>13, <1>14 DEF DisplayInv

LEMMA DrainedIs ==
    ASSUME Shapes, link' = Drained
    PROVE  /\ IsLink(link')
           /\ link'.rx \in Seq(Packets) /\ link'.req = link.req /\ Replies' = {}
  <1>1. /\ IsLink(link')
        /\ link'.rx = <<>> /\ link'.req = link.req
    BY DEF Drained, Shapes, IsLink
  <1>2. link'.rx \in Seq(Packets) /\ Replies' = {}
    BY <1>1 DEF Replies
  <1> QED BY <1>1, <1>2

\* A step of the hook that sends nothing and leaves nothing on the rings.
LEMMA MoveKeeps ==
    ASSUME DisplayInv, UNCHANGED <<sink, dcp>>, calm' \in BOOLEAN,
           IsHook(hook'),
           hook'.rpc # "sent", hook'.counts[2] \in Nat,
           link.req = <<>>, link' = Drained \/ (link' = link /\ Replies = {}),
           Geometry', Steady'
    PROVE  DisplayInv'
  <1>0. Shapes
    BY DEF DisplayInv
  <1>1. /\ IsLink(link')
        /\ link'.rx \in Seq(Packets) /\ link'.req = <<>> /\ Replies' = {}
    <2>1. CASE link' = Drained
      BY <1>0, <2>1, DrainedIs
    <2>2. CASE link' = link /\ Replies = {}
      BY <1>0, <2>2 DEF Shapes, Replies
    <2> QED BY <2>1, <2>2
  <1>2. Shapes'
    BY <1>0, <1>1 DEF Shapes
  <1>3. OneCommand'
    BY <1>1 DEF OneCommand
  <1> QED BY <1>2, <1>3 DEF DisplayInv

LEMMA GoesIs ==
    ASSUME Shapes, NEW pc
    PROVE  /\ Goes(pc).pc = pc /\ Goes(pc).rpc = "idle" /\ Goes(pc).fb = hook.fb
           /\ Goes(pc).counts = hook.counts /\ Goes(pc).round = hook.round
           /\ Goes(pc) = [pc |-> pc, rpc |-> "idle", spent |-> 0, elapsed |-> 0, attempts |-> 0,
                          counts |-> hook.counts, fb |-> hook.fb, down |-> hook.down,
                          round |-> hook.round]
  <1>1. Goes(pc) = [pc |-> pc, rpc |-> "idle", spent |-> 0, elapsed |-> 0, attempts |-> 0,
                    counts |-> hook.counts, fb |-> hook.fb, down |-> hook.down,
                    round |-> hook.round]
    <2>1. PICK h : h = hook
      OBVIOUS
    <2>2. h = [pc |-> hook.pc, rpc |-> hook.rpc, spent |-> hook.spent,
               elapsed |-> hook.elapsed, attempts |-> hook.attempts, counts |-> hook.counts,
               fb |-> hook.fb, down |-> hook.down, round |-> hook.round]
      BY <2>1 DEF Shapes, IsHook
    <2>3. PICK g : g = [h EXCEPT !.pc = pc, !.rpc = "idle"]
      OBVIOUS
    <2>4. g = [pc |-> pc, rpc |-> "idle", spent |-> hook.spent,
               elapsed |-> hook.elapsed, attempts |-> hook.attempts, counts |-> hook.counts,
               fb |-> hook.fb, down |-> hook.down, round |-> hook.round]
      BY <2>2, <2>3
    <2>5. Goes(pc) = [g EXCEPT !.spent = 0, !.elapsed = 0, !.attempts = 0]
      BY <2>1, <2>3 DEF Goes
    <2> QED BY <2>4, <2>5
  <1> QED BY <1>1

LEMMA StartDcpKeeps ==
    ASSUME DisplayInv, StartDcp
    PROVE  DisplayInv'
  <1>1. CASE Abort
    BY <1>1, AbortKeeps
  <1>2. CASE ~Abort
    <2>1. /\ hook.pc = "start" /\ hook' = HookLocals("counts1") /\ UNCHANGED <<calm, dcp, link>>
          /\ \E up \in BOOLEAN, offer \in Offers :
                /\ ~up => offer = NoOffer
                /\ sink' = [up |-> up, offer |-> offer, edges |-> MaxEdges]
      BY <1>2 DEF StartDcp
    <2>2. Shapes /\ OneCommand /\ Steady /\ calm \in BOOLEAN
      BY DEF DisplayInv
    <2>3. calm = FALSE
      BY <2>1, <2>2 DEF Steady
    <2>4. hook.rpc # "sent"
      BY <2>1, <2>2 DEF OneCommand, Commanding
    <2>5. link.req = <<>> /\ Replies = {} /\ Replies' = {} /\ link' = link
      BY <2>1, <2>2, <2>4 DEF OneCommand, Replies
    <2>6. hook'.pc = "counts1" /\ hook'.rpc = "idle" /\ hook'.counts = <<FALSE, 0, 0>>
      BY <2>1, LocalsAre
    <2>7. hook'.counts[2] \in Nat
      BY <2>6
    <2>8. sink' = [up |-> sink'.up, offer |-> sink'.offer, edges |-> sink'.edges]
          /\ sink'.up \in BOOLEAN /\ sink'.offer \in Offers
      BY <2>1
    <2>9. IsHook(hook')
      BY <2>1 DEF HookLocals, IsHook
    <2>10. Shapes'
      BY <2>1, <2>2, <2>7, <2>8, <2>9 DEF Shapes
    <2>11. OneCommand' /\ Geometry' /\ Steady'
      BY <2>1, <2>3, <2>5, <2>6 DEF OneCommand, Geometry, NoSize, Steady
    <2> QED BY <2>1, <2>2, <2>10, <2>11 DEF DisplayInv
  <1> QED BY <1>1, <1>2

LEMMA SendKeeps ==
    ASSUME DisplayInv, Send
    PROVE  DisplayInv'
  <1>1. CASE Abort
    BY <1>1, AbortKeeps
  <1>2. CASE ~Abort
    <2>1. /\ hook.pc \in Commanding /\ hook.rpc = "idle"
          /\ link' = [Drained EXCEPT !.req = <<Op, hook.fb>>]
          /\ hook' = [hook EXCEPT !.rpc = "sent", !.spent = 0]
          /\ UNCHANGED <<sink, calm, dcp>>
      BY <1>2 DEF Send
    <2>2. Shapes /\ OneCommand /\ Geometry /\ Steady /\ calm \in BOOLEAN
      BY DEF DisplayInv
    <2>3. /\ IsLink(link')
          /\ link'.rx = <<>> /\ link'.req = <<Op, hook.fb>>
      BY <2>1, <2>2 DEF Drained, Shapes, IsLink
    <2>4. Replies' = {} /\ link'.rx \in Seq(Packets)
      BY <2>3 DEF Replies
    <2>5. /\ IsHook(hook')
          /\ hook'.pc = hook.pc /\ hook'.rpc = "sent" /\ hook'.fb = hook.fb
          /\ hook'.counts = hook.counts /\ hook'.round = hook.round
      BY <2>1, <2>2 DEF Shapes, IsHook
    <2>6. Op' = Op /\ \A op : Done(op)' = Done(op)
      BY <2>1, <2>5 DEF Op, Done
    <2>7. Shapes'
      BY <2>1, <2>2, <2>3, <2>4, <2>5 DEF Shapes
    <2>8. OneCommand'
      BY <2>1, <2>3, <2>4, <2>5, <2>6 DEF OneCommand
    <2>9. Geometry'
      BY <2>2, <2>5 DEF Geometry
    <2>10. Steady'
      BY <2>1, <2>2, <2>4, <2>5, <2>6 DEF Steady
    <2> QED BY <2>1, <2>2, <2>7, <2>8, <2>9, <2>10 DEF DisplayInv
  <1> QED BY <1>1, <1>2

\* A move that stays among the states without calm keeps what Steady says.
LEMMA NotCalm ==
    ASSUME Steady, calm' = calm, calm \in BOOLEAN,
           hook.pc \notin {"power", "mode", "begin", "layer", "end", "hold", "entered"}
    PROVE  Steady' /\ calm' \in BOOLEAN
  BY DEF Steady

LEMMA WakesKeeps ==
    ASSUME DisplayInv, Wakes
    PROVE  DisplayInv'
  <1>1. CASE Abort
    BY <1>1, AbortKeeps
  <1>2. CASE ~Abort
    <2>0. Shapes /\ OneCommand /\ Geometry /\ Steady /\ calm \in BOOLEAN
      BY DEF DisplayInv
    <2>1. /\ hook.rpc = "sleep" /\ UNCHANGED <<sink, calm, dcp, link>>
          /\ \/ hook' = [hook EXCEPT !.rpc = "idle"]
             \/ hook.pc = "settle" /\ hook' = [hook EXCEPT !.pc = "settled", !.rpc = "idle"]
      BY <1>2 DEF Wakes
    <2>2. link.req = <<>> /\ Replies = {} /\ link' = link /\ Replies' = {}
      BY <2>0, <2>1 DEF OneCommand, Replies
    <2>3. /\ IsHook(hook')
          /\ hook'.rpc = "idle" /\ hook'.fb = hook.fb
          /\ hook'.counts = hook.counts /\ hook'.round = hook.round
          /\ (hook'.pc = hook.pc \/ (hook.pc = "settle" /\ hook'.pc = "settled"))
      BY <2>0, <2>1 DEF Shapes, IsHook
    <2>4. Geometry'
      BY <2>0, <2>3 DEF Geometry, NoSize
    <2>5. \A op : Done(op)' = Done(op)
      BY <2>1, <2>3 DEF Done
    <2>6. Steady'
      <3>1. CASE hook'.pc = hook.pc
        BY <3>1, <2>0, <2>1, <2>3, <2>5 DEF Steady
      <3>2. CASE hook.pc = "settle"
        BY <3>2, <2>0, <2>1, NotCalm
      <3> QED BY <2>3, <3>1, <3>2
    <2>7. hook'.counts[2] \in Nat
      BY <2>0, <2>3 DEF Shapes
    <2> QED BY <2>0, <2>1, <2>2, <2>3, <2>4, <2>6, <2>7, MoveKeeps
  <1> QED BY <1>1, <1>2

LEMMA ReapplyKeeps ==
    ASSUME DisplayInv, Reapply
    PROVE  DisplayInv'
  <1>1. CASE Abort
    BY <1>1, AbortKeeps
  <1>2. CASE ~Abort
    <2>0. Shapes /\ OneCommand /\ Geometry
      BY DEF DisplayInv
    <2>1. /\ hook.pc = "settled" /\ hook' = [Goes("power") EXCEPT !.round = 2]
          /\ calm' = TRUE /\ UNCHANGED <<sink, dcp, link>>
      BY <1>2 DEF Reapply
    <2>2. hook.rpc # "sent"
      BY <2>0, <2>1 DEF OneCommand, Commanding
    <2>3. link.req = <<>> /\ Replies = {} /\ link' = link
      BY <2>0, <2>1, <2>2 DEF OneCommand
    <2>4. /\ IsHook(hook')
          /\ hook'.pc = "power" /\ hook'.rpc = "idle" /\ hook'.fb = hook.fb
          /\ hook'.counts = hook.counts /\ hook'.round = 2
      BY <2>0, <2>1, GoesIs DEF IsHook
    <2>5. Geometry'
      BY <2>0, <2>1, <2>4 DEF Geometry, NoSize
    <2>6. Steady'
      BY <2>4 DEF Steady, Past
    <2>7. hook'.counts[2] \in Nat
      BY <2>0, <2>4 DEF Shapes
    <2> QED BY <2>1, <2>3, <2>4, <2>5, <2>6, <2>7, MoveKeeps
  <1> QED BY <1>1, <1>2

LEMMA HoldKeeps ==
    ASSUME DisplayInv, Hold
    PROVE  DisplayInv'
  <1>1. CASE Abort
    BY <1>1, AbortKeeps
  <1>2. CASE ~Abort
    <2>0. Shapes /\ OneCommand /\ Geometry /\ Steady /\ calm \in BOOLEAN
      BY DEF DisplayInv
    <2>1. /\ hook.pc = "hold" /\ UNCHANGED <<sink, calm, dcp>>
          /\ \/ hook' = [HookLocals("entered") EXCEPT !.fb = hook.fb] /\ link' = link
             \/ hook' = hook /\ link' = Drained
      BY <1>2 DEF Hold
    <2>2. hook.rpc # "sent"
      BY <2>0, <2>1 DEF OneCommand, Commanding
    <2>3. link.req = <<>> /\ Replies = {}
      BY <2>0, <2>2 DEF OneCommand
    <2>4. /\ IsHook(hook')
          /\ hook'.rpc # "sent" /\ hook'.fb = hook.fb
          /\ (hook'.counts = hook.counts \/ hook'.counts = <<FALSE, 0, 0>>)
          /\ (hook'.pc = "entered" \/ hook' = hook)
      BY <2>0, <2>1, <2>2 DEF Shapes, IsHook, HookLocals
    <2>5. Geometry'
      BY <2>0, <2>1, <2>4 DEF Geometry, NoSize
    <2>6. \A op : Done(op)' = Done(op)
      BY <2>1, <2>4 DEF Done
    <2>7. \A op \in {"power", "mode", "layer", "end"} :
             calm /\ hook.pc \in Past(op) => Done(op)
      BY <2>0 DEF Steady
    <2>8. Steady'
      <3>1. \A op \in {"power", "mode", "layer", "end"} : hook.pc \in Past(op)
        BY <2>1 DEF Past
      <3> QED BY <2>0, <2>1, <2>4, <2>6, <2>7, <3>1 DEF Steady
    <2>9. hook'.counts[2] \in Nat
      <3>1. CASE hook'.counts = hook.counts
        BY <2>0, <3>1 DEF Shapes
      <3>2. CASE hook'.counts = <<FALSE, 0, 0>>
        BY <3>2
      <3> QED BY <2>4, <3>1, <3>2
    <2> QED BY <2>0, <2>1, <2>3, <2>4, <2>5, <2>8, <2>9, MoveKeeps
  <1> QED BY <1>1, <1>2

\* A good reply is taken: what the hook goes on to.
LEMMA SampledKeeps ==
    ASSUME DisplayInv, hook.rpc = "sent", link.req = <<>>, NEW sample, sample[2] \in Nat,
           \/ hook.pc \in {"counts1", "counts2"} /\ Sampled(sample)
           \/ hook.pc = "settle" /\ Settled(sample)
    PROVE  DisplayInv'
  <1>1. CASE Abort
    BY <1>1, AbortKeeps
  <1>2. CASE ~Abort
    <2>0. Shapes /\ OneCommand /\ Geometry /\ Steady /\ calm \in BOOLEAN
      BY DEF DisplayInv
    <2> DEFINE next == IF hook.pc = "counts1" THEN "timings1" ELSE "timings2"
               down == hook.down \/ ~sample[1]
               tries == hook.attempts + 1
    <2>1. hook.pc \in {"counts1", "counts2", "settle"} /\ link' = Drained /\ UNCHANGED <<sink, calm, dcp>>
      BY <1>2 DEF Sampled, Settled
    <2>2. \/ hook.pc \in {"counts1", "counts2"} /\ hook' = [Goes(next) EXCEPT !.counts = sample]
          \/ hook.pc \in {"counts1", "counts2"}
             /\ hook' = [hook EXCEPT !.rpc = "sleep", !.spent = 0, !.attempts = tries]
          \/ hook.pc = "settle"
             /\ hook' = [hook EXCEPT !.pc = "settled", !.rpc = "idle", !.counts = sample]
          \/ hook.pc = "settle"
             /\ hook' = [hook EXCEPT !.rpc = "sleep", !.spent = 0, !.counts = sample, !.down = down]
      BY <1>2 DEF Sampled, Settled
    <2>3. hook.pc # "counts1" => hook.fb \in 1 .. VramSize
      BY <2>0, <2>1 DEF Geometry, NoSize
    <2>4. (next = "timings1" => hook.pc = "counts1") /\ next \in {"timings1", "timings2"}
          /\ (hook.pc = "counts1" => next = "timings1")
      OBVIOUS
    <2> HIDE DEF next, down, tries
    <2>5. /\ IsHook(hook')
          /\ hook'.rpc # "sent" /\ hook'.fb = hook.fb
          /\ (hook'.counts = hook.counts \/ hook'.counts = sample)
          /\ (hook'.pc = hook.pc \/ hook'.pc = next \/ (hook'.pc = "settled" /\ hook.pc = "settle"))
      <3>1. CASE hook' = [Goes(next) EXCEPT !.counts = sample]
        BY <2>0, <3>1, GoesIs DEF IsHook
      <3>2. CASE hook' = [hook EXCEPT !.rpc = "sleep", !.spent = 0, !.attempts = tries]
        BY <2>0, <3>2 DEF Shapes, IsHook
      <3>3. CASE hook.pc = "settle"
                 /\ hook' = [hook EXCEPT !.pc = "settled", !.rpc = "idle", !.counts = sample]
        BY <2>0, <3>3 DEF Shapes, IsHook
      <3>4. CASE hook' = [hook EXCEPT !.rpc = "sleep", !.spent = 0, !.counts = sample, !.down = down]
        BY <2>0, <3>4 DEF Shapes, IsHook
      <3> QED BY <2>2, <3>1, <3>2, <3>3, <3>4
    <2>6. hook'.counts[2] \in Nat
      <3>1. CASE hook'.counts = hook.counts
        BY <2>0, <3>1 DEF Shapes
      <3>2. CASE hook'.counts = sample
        BY <3>2
      <3> QED BY <2>5, <3>1, <3>2
    <2>7. Geometry'
      BY <2>1, <2>3, <2>4, <2>5 DEF Geometry, NoSize
    <2>8. Steady' /\ calm' \in BOOLEAN
      BY <2>0, <2>1, NotCalm
    <2> QED BY <2>1, <2>5, <2>6, <2>7, <2>8, MoveKeeps
  <1> QED BY <1>1, <1>2

LEMMA SelectedKeeps ==
    ASSUME DisplayInv, hook.rpc = "sent", link.req = <<>>, hook.pc \in {"timings1", "timings2"},
           NEW o \in Offers, Selected(o.timings)
    PROVE  DisplayInv'
  <1>1. CASE Abort
    BY <1>1, AbortKeeps
  <1>2. CASE ~Abort
    <2>0. Shapes /\ OneCommand /\ Geometry /\ Steady /\ calm \in BOOLEAN
      BY DEF DisplayInv
    <2> DEFINE count == hook.counts[2]
               chosen == Chosen(o.timings, count, hook.fb)
    <2>1. /\ Choosable(o.timings, count) /\ link' = Drained /\ UNCHANGED <<sink, calm, dcp>>
          /\ hook' = IF hook.pc = "timings1"
                     THEN [Goes("counts2") EXCEPT !.fb = chosen.size]
                     ELSE Goes("colors")
      BY <1>2 DEF Selected
    <2>2. count \in Nat /\ o.timings \in Seq([size : Nat \ {0}, err : Nat])
      BY <2>0, DisplayAssumption DEF Shapes
    <2>3. chosen \in Candidates(o.timings, count)
      BY <2>1, <2>2, ChosenIsCandidate
    <2>4. chosen.size \in 1 .. VramSize
      <3>1. Candidates(o.timings, count) \subseteq [size : Nat \ {0}, err : Nat]
        BY <2>1, <2>2, CandidatesAre
      <3>2. chosen.size \in Nat \ {0}
        BY <2>3, <3>1
      <3>3. chosen.size <= VramSize
        BY <2>3 DEF Candidates, Usable
      <3> QED BY <3>2, <3>3, DisplayAssumption
    <2> HIDE DEF chosen, count
    <2>5. /\ IsHook(hook')
          /\ hook'.rpc # "sent" /\ hook'.counts = hook.counts
          /\ hook'.fb = IF hook.pc = "timings1" THEN chosen.size ELSE hook.fb
      <3>1. CASE hook.pc = "timings1"
        BY <2>0, <2>1, <3>1, GoesIs DEF IsHook
      <3>2. CASE hook.pc = "timings2"
        BY <2>0, <2>1, <3>2, GoesIs DEF IsHook
      <3> QED BY <3>1, <3>2
    <2>6. Geometry'
      BY <2>0, <2>4, <2>5 DEF Geometry, NoSize
    <2>7. Steady' /\ calm' \in BOOLEAN
      BY <2>0, <2>1, NotCalm
    <2>8. hook'.counts[2] \in Nat
      BY <2>0, <2>5 DEF Shapes
    <2> QED BY <2>1, <2>5, <2>6, <2>7, <2>8, MoveKeeps
  <1> QED BY <1>1, <1>2

LEMMA ColouredKeeps ==
    ASSUME DisplayInv, hook.rpc = "sent", link.req = <<>>, hook.pc = "colors",
           NEW colors, Coloured(colors)
    PROVE  DisplayInv'
  <1>1. CASE Abort
    BY <1>1, AbortKeeps
  <1>2. CASE ~Abort
    <2>0. Shapes /\ OneCommand /\ Geometry /\ Steady /\ calm \in BOOLEAN
      BY DEF DisplayInv
    <2>1. hook' = Goes("power") /\ link' = Drained /\ UNCHANGED <<sink, calm, dcp>>
      BY <1>2 DEF Coloured
    <2>2. /\ IsHook(hook')
          /\ hook'.rpc # "sent" /\ hook'.counts = hook.counts /\ hook'.fb = hook.fb
      BY <2>0, <2>1, GoesIs DEF IsHook
    <2>3. Geometry'
      BY <2>0, <2>2 DEF Geometry, NoSize
    <2>4. Steady' /\ calm' \in BOOLEAN
      BY <2>0, <2>1, NotCalm
    <2>5. hook'.counts[2] \in Nat
      BY <2>0, <2>2 DEF Shapes
    <2> QED BY <2>1, <2>2, <2>3, <2>4, <2>5, MoveKeeps
  <1> QED BY <1>1, <1>2

\* One of the five commands of a commit has been answered well.
LEMMA CommittedKeeps ==
    ASSUME DisplayInv, hook.rpc = "sent", link.req = <<>>,
           hook.pc \in {"power", "mode", "begin", "layer", "end"}, calm => Done(hook.pc),
           Committed
    PROVE  DisplayInv'
  <1>0. Shapes /\ OneCommand /\ Geometry /\ Steady /\ calm \in BOOLEAN
    BY DEF DisplayInv
  <1>1. link' = Drained /\ UNCHANGED <<sink, calm, dcp>>
    BY DEF Committed
  <1>2. hook.fb \in 1 .. VramSize
    BY <1>0 DEF Geometry, NoSize
  <1>3. CASE hook.pc = "end" /\ hook.round = 1
    <2>1. hook' = [Goes("settle") EXCEPT !.rpc = "sleep", !.counts = <<FALSE, 0, 0>>]
      BY <1>3 DEF Committed
    <2>2. /\ IsHook(hook')
          /\ hook'.rpc # "sent" /\ hook'.counts = <<FALSE, 0, 0>> /\ hook'.fb = hook.fb
      <3>1. PICK c : c = <<FALSE, 0, 0>>
        OBVIOUS
      <3>2. PICK g : g = Goes("settle")
        OBVIOUS
      <3>3. g = [pc |-> "settle", rpc |-> "idle", spent |-> 0, elapsed |-> 0, attempts |-> 0,
                 counts |-> hook.counts, fb |-> hook.fb, down |-> hook.down, round |-> hook.round]
        BY <1>0, <3>2, GoesIs
      <3>4. hook' = [g EXCEPT !.rpc = "sleep", !.counts = c]
        BY <2>1, <3>1, <3>2
      <3>5. hook' = [pc |-> "settle", rpc |-> "sleep", spent |-> 0, elapsed |-> 0, attempts |-> 0,
                 counts |-> c, fb |-> hook.fb, down |-> hook.down, round |-> hook.round]
        BY <3>3, <3>4
      <3> QED BY <3>1, <3>5 DEF IsHook
    <2>3. calm' = FALSE
      BY <1>0, <1>1, <1>3 DEF Steady
    <2>4. Geometry' /\ Steady'
      BY <1>2, <2>2, <2>3 DEF Geometry, Steady
    <2>5. hook'.counts[2] \in Nat
      BY <2>2
    <2> QED BY <1>1, <2>2, <2>3, <2>4, <2>5, MoveKeeps
  <1>4. CASE ~(hook.pc = "end" /\ hook.round = 1)
    <2> DEFINE next == AfterOp(hook.pc)
    <2>1. hook' = Goes(next)
      BY <1>4 DEF Committed
    <2>2. next \in {"mode", "begin", "layer", "end", "hold"}
      BY DEF AfterOp
    <2>3. \A op \in {"power", "mode", "layer", "end"} :
             next \in Past(op) => op = hook.pc \/ hook.pc \in Past(op)
      BY DEF AfterOp, Past
    <2> HIDE DEF next
    <2>4. /\ IsHook(hook')
          /\ hook'.rpc = "idle" /\ hook'.counts = hook.counts /\ hook'.fb = hook.fb
          /\ hook'.pc = next /\ hook'.round = hook.round
      BY <1>0, <2>1, GoesIs DEF IsHook
    <2>5. \A op : Done(op)' = Done(op)
      BY <1>1, <2>4 DEF Done
    <2>6. Geometry'
      BY <1>2, <2>4 DEF Geometry
    <2>7. Steady'
      <3> SUFFICES ASSUME calm PROVE Steady'
        BY <1>1 DEF Steady
      <3>1. hook.round = 2 /\ Done(hook.pc)
            /\ \A op \in {"power", "mode", "layer", "end"} : hook.pc \in Past(op) => Done(op)
        BY <1>0 DEF Steady
      <3>2. \A op \in {"power", "mode", "layer", "end"} : next \in Past(op) => Done(op)'
        BY <2>3, <2>5, <3>1
      <3> QED BY <2>2, <2>4, <3>1, <3>2 DEF Steady
    <2>8. hook'.counts[2] \in Nat
      BY <1>0, <2>4 DEF Shapes
    <2> QED BY <1>0, <1>1, <2>4, <2>6, <2>7, <2>8, MoveKeeps
  <1> QED BY <1>3, <1>4

LEMMA LenOf ==
    ASSUME NEW S, NEW s \in Seq(S)
    PROVE  DOMAIN s = 1 .. Len(s) /\ Len(s) \in Nat
  OBVIOUS
LEMMA ReceiveKeeps ==
    ASSUME DisplayInv, Receive
    PROVE  DisplayInv'
  <1>0. Shapes /\ OneCommand /\ Geometry /\ Steady /\ calm \in BOOLEAN /\ hook.rpc = "sent"
    BY DEF DisplayInv, Receive
  <1>1. CASE Abort
    BY <1>1, AbortKeeps
  <1>2. CASE Replies = {} /\ link' = Drained /\ UNCHANGED <<sink, calm, dcp, hook>>
    <2>1. /\ IsLink(link')
          /\ link'.rx \in Seq(Packets) /\ link'.req = link.req /\ Replies' = {}
      BY <1>0, <1>2, DrainedIs
    <2>2. IsHook(hook')
      BY <1>0, <1>2 DEF Shapes
    <2> QED BY <1>2, <2>1, <2>2, NoiseKeeps
  <1>3. CASE Replies # {} /\ FirstReply.good /\ Answered(FirstReply.body)
    <2> DEFINE k == Min(Replies)
    <2>1. k \in Replies
      <3>1. Replies \subseteq Nat
        <4>1. DOMAIN link.rx = 1 .. Len(link.rx) /\ Len(link.rx) \in Nat
          BY <1>0, LenOf DEF Shapes
        <4> QED BY <4>1 DEF Replies
      <3> QED BY <1>3, <3>1, NatMin
    <2>2. FirstReply = link.rx[k]
      BY DEF FirstReply
    <2> HIDE DEF k
    <2>3. PICK body : body = FirstReply.body
      OBVIOUS
    <2>4. Answered(body) /\ Fits(body) /\ link.req = <<>>
      BY <1>0, <1>3, <2>1, <2>2, <2>3 DEF OneCommand
    <2>5. calm => Done(hook.pc)
      BY <1>0, <1>3, <2>1, <2>2 DEF Steady
    <2>6. CASE hook.pc \in {"counts1", "counts2", "settle"}
      <3>1. body[2] \in Nat
        BY <2>4, <2>6 DEF Fits, Op
      <3>2. (hook.pc \in {"counts1", "counts2"} /\ Sampled(body)) \/ (hook.pc = "settle" /\ Settled(body))
        BY <2>4, <2>6 DEF Answered
      <3> QED BY <1>0, <2>4, <3>1, <3>2, SampledKeeps
    <2>7. CASE hook.pc \in {"timings1", "timings2"}
      <3>1. PICK o \in Offers : body = o.timings
        BY <2>4, <2>7 DEF Fits, Op
      <3>2. Selected(o.timings)
        BY <2>4, <2>7, <3>1 DEF Answered
      <3> QED BY <1>0, <2>4, <2>7, <3>2, SelectedKeeps
    <2>8. CASE hook.pc = "colors"
      <3>1. Coloured(body)
        BY <2>4, <2>8 DEF Answered
      <3> QED BY <1>0, <2>4, <2>8, <3>1, ColouredKeeps
    <2>9. CASE hook.pc \in {"power", "mode", "begin", "layer", "end"}
      <3>1. Committed
        BY <2>4, <2>9 DEF Answered
      <3> QED BY <1>0, <2>4, <2>5, <2>9, <3>1, CommittedKeeps
    <2> QED BY <2>4, <2>6, <2>7, <2>8, <2>9 DEF Answered
  <1> QED BY <1>1, <1>2, <1>3 DEF Receive

LEMMA DisplayInvNext == DisplayInv /\ [Next]_vars => DisplayInv'
  <1> SUFFICES ASSUME DisplayInv, [Next]_vars PROVE DisplayInv'
    OBVIOUS
  <1>1. CASE HookStep
    <2>1. CASE GivesUp
      BY <2>1, AbortKeeps DEF GivesUp
    <2>2. CASE GuestStarts
      BY <2>2, EndsKeeps DEF GuestStarts
    <2> QED BY <1>1, <2>1, <2>2, StartDcpKeeps, SendKeeps, ReceiveKeeps, WakesKeeps, ReapplyKeeps,
               HoldKeeps DEF HookStep
  <1>2. CASE DisplayWorld
    BY <1>2, PlugKeeps, AnswerKeeps, DcpNoiseKeeps DEF DisplayWorld
  <1>3. CASE ClockTicks \/ UNCHANGED displayVars
    BY <1>3, TickKeeps
  <1> QED BY <1>1, <1>2, <1>3
          DEF Next, vars, Display, World, Time, Prefix, Drivers, Bus, Event, Pstate,
              Controller, HandlerEnds, Loader, Others

\* For every display, every set of modes and every size of the memory, every
\* number of edges, and a DCP that answers late, refuses or is silent: when the
\* guest is entered and no edge came since the settle loop, the DCP scans out a
\* surface of the size in the guest's boot arguments, and it fits.
THEOREM ScanoutAlwaysMatches == Spec => []ScanoutMatches
  <1>1. Init => DisplayInv
    <2> SUFFICES ASSUME Init PROVE DisplayInv
      OBVIOUS
    <2>1. sink = NoSink /\ calm = FALSE /\ dcp = Dark /\ link = Silent /\ hook = HookLocals("start")
      BY DEF Init, DisplayInit
    <2>2. hook.pc = "start" /\ hook.rpc = "idle" /\ hook.counts = <<FALSE, 0, 0>> /\ IsHook(hook)
      BY <2>1 DEF HookLocals, IsHook
    <2>3. IsLink(link) /\ link.rx = <<>> /\ link.req = <<>>
      BY <2>1 DEF Silent, IsLink
    <2>4. link.rx \in Seq(Packets) /\ Replies = {}
      BY <2>3 DEF Replies
    <2>5. dcp = [on |-> dcp.on, size |-> dcp.size, layer |-> dcp.layer, lit |-> dcp.lit]
      BY <2>1 DEF Dark
    <2>6. sink = [up |-> sink.up, offer |-> sink.offer, edges |-> sink.edges]
          /\ sink.up \in BOOLEAN /\ sink.offer \in Offers
      BY <2>1, DisplayAssumption DEF NoSink
    <2>7. hook.counts[2] \in Nat
      BY <2>2
    <2>8. Shapes
      BY <2>2, <2>3, <2>4, <2>5, <2>6, <2>7 DEF Shapes
    <2>9. OneCommand /\ Geometry /\ Steady
      BY <2>1, <2>2, <2>3, <2>4 DEF OneCommand, Geometry, NoSize, Steady
    <2> QED BY <2>1, <2>8, <2>9 DEF DisplayInv
  <1>2. DisplayInv /\ [Next]_vars => DisplayInv'
    BY DisplayInvNext
  <1>3. DisplayInv => ScanoutMatches
    <2> SUFFICES ASSUME DisplayInv, hook.pc = "entered", calm
                 PROVE  /\ dcp.lit /\ dcp.size = hook.fb /\ dcp.layer = hook.fb
                        /\ hook.fb \in 1 .. VramSize
      BY DEF ScanoutMatches
    <2>1. \A op \in {"power", "mode", "layer", "end"} : hook.pc \in Past(op) => Done(op)
      BY DEF DisplayInv, Steady
    <2>2. Done("mode") /\ Done("layer") /\ Done("end")
      BY <2>1 DEF Past
    <2> QED BY <2>2 DEF Done, DisplayInv, Geometry, NoSize
  <1> QED BY <1>1, <1>2, <1>3, PTL DEF Spec

(***************************************************************************)
(* The clock.  A word with the echo of the command is a word of the answer *)
(* to the transaction under way, because a transaction only starts on an   *)
(* empty FIFO and only ends with one; so each value was true at some tick  *)
(* between the first command and now.                                      *)
(***************************************************************************)
Words == [echo : BOOLEAN, value : Int]

\* The words that are still to be read, in the order in which they will be.
Queue == spmi.rx \o spmi.out

\* What the transaction under way may be answered.
Answers == IF rtc.i = 2 THEN {OffsetCell}
                        ELSE {Counter(s) : s \in rtc.before .. now}

\* Only the first n words to come echo the command, with an answer of it.
Echoes(n) == \A k \in DOMAIN Queue :
                Queue[k].echo => k <= n /\ Queue[k].value \in Answers

RtcShapes ==
    /\ now \in 0 .. MaxTime
    /\ spmi = [tx |-> spmi.tx, out |-> spmi.out, rx |-> spmi.rx,
               stranger |-> spmi.stranger]
    /\ spmi.out \in Seq(Words) /\ spmi.rx \in Seq(Words)
    /\ rtc = [pc |-> rtc.pc, i |-> rtc.i, words |-> rtc.words,
              reply |-> rtc.reply, start |-> rtc.start, polls |-> rtc.polls,
              before |-> rtc.before, cntpct |-> rtc.cntpct,
              counter |-> rtc.counter]
    /\ rtc.pc \in {"off", "command", "words", "check", "sample", "seed", "done"}
    /\ rtc.i \in 1 .. 3
    /\ rtc.words \in 0 .. 3
    /\ rtc.pc = "words" => rtc.words # 3
    /\ rtc.pc = "check" => rtc.words = 3
    /\ rtc.pc \in {"words", "check"} /\ rtc.words > 0 => rtc.reply \in Words
    /\ rtc.before \in 0 .. now /\ rtc.cntpct \in 0 .. now
    /\ rtc.counter = [k \in 1 .. 3 |-> rtc.counter[k]]
    /\ Busy => clock \in Clocks
    /\ rtc.pc # "done" => seed = None

Transaction ==
    /\ rtc.pc = "command" =>
          spmi.tx \notin {"time", "offset"} /\ (spmi.rx # <<>> \/ Echoes(0))
    /\ rtc.pc = "words" /\ rtc.words = 0 =>
          \/ spmi.tx = Register[rtc.i] /\ Echoes(0)
          \/ spmi.tx = None /\ (Queue # <<>> /\ Queue[1].echo => Echoes(3))
    /\ rtc.pc \in {"words", "check"} /\ rtc.words > 0 /\ rtc.reply.echo =>
          spmi.tx = None /\ Echoes(3 - rtc.words) /\ rtc.reply.value \in Answers

Readings ==
    /\ rtc.i = 3 => rtc.counter[2] = OffsetCell
    /\ rtc.pc \in {"sample", "seed"} =>
          /\ rtc.i = 3
          /\ \E s \in rtc.before .. now :
                rtc.counter[3] = Counter(s) /\ (rtc.pc = "seed" => s <= rtc.cntpct)

RtcInv == RtcShapes /\ Transaction /\ Readings /\ TimeHonest


LEMMA DivModIs ==
    ASSUME NEW x \in Int, NEW m \in Nat \ {0}
    PROVE  /\ x \div m \in Int /\ x % m \in 0 .. m - 1
           /\ x = ((x \div m) * m) + (x % m)
  OBVIOUS

LEMMA DivModOf ==
    ASSUME NEW q \in Int, NEW m \in Nat \ {0}, NEW r \in 0 .. m - 1
    PROVE  (q * m + r) \div m = q /\ (q * m + r) % m = r
  <1> DEFINE x == q * m + r
  <1>1. x \in Int
    OBVIOUS
  <1>2. /\ x \div m \in Int /\ x % m \in 0 .. m - 1
        /\ x = ((x \div m) * m) + (x % m)
    BY <1>1, DivModIs
  <1>3. PICK p \in Int : p = x \div m
    BY <1>2
  <1>4. PICK e \in 0 .. m - 1 : e = x % m
    BY <1>2
  <1>5. q * m + r = p * m + e
    BY <1>2, <1>3, <1>4
  <1>6. (q - p) * m = e - r
    BY <1>5
  <1>7. ~(q - p >= 1) /\ ~(q - p <= -1)
    <2>1. q - p >= 1 => (q - p) * m >= m
      OBVIOUS
    <2>2. q - p <= -1 => (q - p) * m <= -m
      OBVIOUS
    <2> QED BY <1>6, <2>1, <2>2
  <1>8. q = p
    BY <1>7
  <1> QED BY <1>3, <1>4, <1>5, <1>8

\* What nwoas_sera_rtc_convert accepts is the time of the counter's moment, but
\* for the bit that settime dropped: when the raw counter has wrapped since,
\* the sum is negative.
LEMMA ConvertExact ==
    ASSUME clock \in Clocks, NEW s \in 0 .. MaxTime,
           Convert(Counter(s), OffsetCell) >= 0
    PROVE  /\ Convert(Counter(s), OffsetCell) \in Int
           /\ TrueTime(s) - Convert(Counter(s), OffsetCell) \in 0 .. 1
  <1>1. PICK M \in Nat \ {0} : M = Modulus
    BY RtcAssumption
  <1>2. PICK c \in 0 .. M - 1 : c = clock.counter
    BY <1>1, RtcAssumption
  <1>3. PICK t \in Nat : t = clock.time /\ t + MaxTime < M
    BY <1>1, RtcAssumption
  <1>4. s \in Nat /\ s <= MaxTime /\ t + s < M /\ MaxTime \in Nat
    BY <1>3, RtcAssumption
  <1>5. PICK h \in Int, d \in 0 .. 1 : h = (t - c) \div 2 /\ t - c = 2 * h + d
    <2>1. t - c \in Int /\ 2 \in Nat \ {0}
      OBVIOUS
    <2> QED BY <2>1, DivModIs
  <1>6. PICK k \in Int, o \in 0 .. M - 1 : o = h % M /\ h = k * M + o
    BY DivModIs
  <1>7. OffsetCell = o
    BY <1>1, <1>2, <1>3, <1>5, <1>6 DEF OffsetCell
  <1>8. PICK w \in 0 .. 1 : Counter(s) = c + s - w * M /\ (w = 1 => s >= 1)
    <2>1. CASE c + s < M
      <3>1. PICK q \in Int, r \in 0 .. M - 1 : q = 0 /\ r = c + s /\ q * M + r = c + s
        BY <1>4, <2>1
      <3>2. (q * M + r) % M = r
        BY DivModOf
      <3> QED BY <1>1, <1>2, <1>4, <3>1, <3>2 DEF Counter
    <2>2. CASE c + s >= M
      <3>1. PICK q \in Int, r \in 0 .. M - 1 : q = 1 /\ r = c + s - M /\ q * M + r = c + s
        BY <1>4, <2>2
      <3>2. (q * M + r) % M = r
        BY DivModOf
      <3> QED BY <1>1, <1>2, <1>4, <3>1, <3>2, <2>2 DEF Counter
    <2> QED BY <1>4, <2>1, <2>2
  <1> DEFINE sum == Counter(s) + 2 * OffsetCell
             low == t + s - d - w * M
  <1>9. sum = low - k * (2 * M)
    <2>1. k * (2 * M) = 2 * (k * M)
      OBVIOUS
    <2>2. 2 * o = 2 * h - 2 * (k * M)
      BY <1>6
    <2> QED BY <1>4, <1>5, <1>7, <1>8, <2>1, <2>2
  <1>10. low \in Int /\ (w = 1 => low < 0 /\ low >= -M) /\ (w = 0 => low >= -1 /\ low < M)
    BY <1>4, <1>8
  <1>11. CASE low >= 0
    <2>1. w = 0
      BY <1>10, <1>11
    <2>2. sum = (-k) * (2 * M) + low /\ low \in 0 .. 2 * M - 1
      BY <1>9, <1>10, <1>11, <2>1
    <2>3. sum % (2 * M) = low
      <3> HIDE DEF low
      <3>1. -k \in Int /\ 2 * M \in Nat \ {0}
        OBVIOUS
      <3>2. ((-k) * (2 * M) + low) % (2 * M) = low
        BY <2>2, <3>1, DivModOf
      <3> QED BY <2>2, <3>2
    <2>4. Convert(Counter(s), OffsetCell) = low
      BY <1>1, <2>1, <2>3, <1>10 DEF Convert, Signed
    <2> QED BY <2>4, <2>1, <1>3, <1>4 DEF TrueTime
  <1>12. CASE low < 0
    <2>1. low + 2 * M \in M .. 2 * M - 1
      BY <1>10, <1>12
    <2>2. sum = (-k - 1) * (2 * M) + (low + 2 * M)
      <3>1. (-k - 1) * (2 * M) = -(k * (2 * M)) - 2 * M
        OBVIOUS
      <3> QED BY <1>9, <3>1, <1>10
    <2>3. sum % (2 * M) = low + 2 * M
      <3> HIDE DEF low
      <3>1. -k - 1 \in Int /\ 2 * M \in Nat \ {0} /\ low + 2 * M \in 0 .. 2 * M - 1
        BY <2>1
      <3>2. ((-k - 1) * (2 * M) + (low + 2 * M)) % (2 * M) = low + 2 * M
        BY <3>1, DivModOf
      <3> QED BY <2>2, <3>2
    <2>4. Convert(Counter(s), OffsetCell) = low
      BY <1>1, <2>1, <2>3, <1>10 DEF Convert, Signed
    <2> QED BY <2>4, <1>12, <1>10
  <1> QED BY <1>10, <1>11, <1>12

\* The snapshot, advanced: seconds and rest apart are the same as their sum.
LEMMA AdvanceExact ==
    ASSUME clock \in Clocks, clock' = clock,
           NEW time \in Int, InRange(time),
           NEW p \in 0 .. MaxTime, NEW s \in 0 .. MaxTime,
           TrueTime(s) - time \in 0 .. 1, p - s \in 0 .. Second,
           seed' = [epoch |-> time \div Second, ns |-> time % Second, cntpct |-> p]
    PROVE  TimeHonest'
  <1>1. PICK S \in Nat \ {0} : S = Second
    BY RtcAssumption
  <1>2. PICK e \in Int, n \in 0 .. S - 1 :
            e = time \div S /\ n = time % S /\ time = (e * S) + n
    BY DivModIs
  <1>3. seed'.epoch = e /\ seed'.ns = n /\ seed'.cntpct = p
    BY <1>1, <1>2
  <1>4. e \in UtcMin .. UtcMax /\ UtcMin \in Nat /\ UtcMax \in Nat
    BY <1>1, <1>2, RtcAssumption DEF InRange
  <1>5. p \in Nat /\ s \in Nat /\ MaxTime \in Nat
    BY RtcAssumption
  <1> SUFFICES ASSUME NEW t \in p .. MaxTime + 2 * S, seed' # None,
                      LibGetTime(t)' # None
               PROVE  /\ TrueTime(t)' - LibGetTime(t)' \in 0 .. S + 1
                      /\ InRange(LibGetTime(t)')
    BY <1>1, <1>3 DEF TimeHonest, InRange
  <1>6. PICK delta \in Nat : delta = t - p
    BY <1>5
  <1>7. PICK q \in Int, r \in 0 .. S - 1 :
            q = delta \div S /\ r = delta % S /\ delta = (q * S) + r
    <2>1. delta \in Int
      OBVIOUS
    <2> QED BY <2>1, DivModIs
  <1>8. q >= 0
    <2>1. q <= -1 => q * S <= -S
      OBVIOUS
    <2> QED BY <1>7, <2>1
  <1>9. PICK c \in Int, m \in 0 .. S - 1 :
            c = (r + n) \div S /\ m = (r + n) % S /\ r + n = (c * S) + m
    <2>1. r + n \in Int
      OBVIOUS
    <2> QED BY <2>1, DivModIs
  <1>10. c \in 0 .. 1
    <2>1. c <= -1 => c * S <= -S
      OBVIOUS
    <2>2. c >= 2 => c * S >= 2 * S
      OBVIOUS
    <2> QED BY <1>9, <2>1, <2>2
  <1>11. /\ Advance(t)' # None => Advance(t)' = [epoch |-> e + q, rest |-> r]
         /\ Advance(t)' # None => e + q <= UtcMax
    <2>1. t' - seed.cntpct' = delta /\ (seed.epoch + ((t - seed.cntpct) \div Second))' = e + q
          /\ ((t - seed.cntpct) % Second)' = r
      BY <1>1, <1>3, <1>6, <1>7
    <2>2. Advance(t)' = IF t < p \/ e + q > UtcMax THEN None
                        ELSE [epoch |-> e + q, rest |-> r]
      BY <1>1, <1>3, <2>1 DEF Advance
    <2> QED BY <2>2, <1>4
  <1>12. Advance(t)' # None
    BY DEF LibGetTime
  <1>13. PICK a : a = Advance(t)'
    OBVIOUS
  <1>14. a.epoch = e + q /\ a.rest = r /\ a # None /\ e + q <= UtcMax
    BY <1>11, <1>12, <1>13
  <1>15. LibGetTime(t)' = IF c = 1 /\ e + q >= UtcMax THEN None
                          ELSE (e + q + c) * S + m
    BY <1>1, <1>3, <1>9, <1>13, <1>14 DEF LibGetTime
  <1>16. LibGetTime(t)' = (e + q + c) * S + m /\ e + q + c \in UtcMin .. UtcMax
    BY <1>4, <1>8, <1>10, <1>14, <1>15
  <1>17. (e + q + c) * S + m = time + delta
    <2>1. PICK es \in Int, qs \in Int, cs \in Int, sum \in Int :
            es = e * S /\ qs = q * S /\ cs = c * S /\ sum = (e + q + c) * S
      OBVIOUS
    <2>2. sum = es + qs + cs
      BY <2>1
    <2>3. time = es + n /\ delta = qs + r /\ r + n = cs + m
      BY <2>1, <1>2, <1>7, <1>9
    <2>4. sum + m = time + delta
      BY <2>2, <2>3
    <2> QED BY <2>1, <2>4
  <1>18. TrueTime(t)' - LibGetTime(t)' \in 0 .. S + 1
    <2>1. clock.time \in Nat
      BY RtcAssumption
    <2>2. TrueTime(t)' = clock.time + t /\ TrueTime(s) = clock.time + s
      BY DEF TrueTime
    <2> QED BY <1>1, <1>5, <1>6, <1>16, <1>17, <2>1, <2>2
  <1>19. InRange(LibGetTime(t)')
    <2>1. e + q + c \in Int
      OBVIOUS
    <2>2. ((e + q + c) * S + m) \div S = e + q + c
      BY <2>1, DivModOf
    <2>3. (e + q + c) * S + m >= 0
      <3>1. (e + q + c) * S >= 0
        BY <1>4, <1>16
      <3> QED BY <3>1
    <2> QED BY <1>1, <1>16, <2>2, <2>3 DEF InRange
  <1> QED BY <1>18, <1>19

LEMMA ConcatIs ==
    ASSUME NEW S, NEW a \in Seq(S), NEW b \in Seq(S)
    PROVE  /\ a \o b \in Seq(S) /\ Len(a \o b) = Len(a) + Len(b)
           /\ \A k \in 1 .. Len(a) : (a \o b)[k] = a[k]
           /\ \A k \in Len(a) + 1 .. Len(a) + Len(b) : (a \o b)[k] = b[k - Len(a)]
  OBVIOUS

LEMMA SameQueue ==
    ASSUME NEW S, NEW a \in Seq(S), NEW b \in Seq(S), b # <<>>
    PROVE  /\ Append(a, Head(b)) \o Tail(b) = a \o b
           /\ Append(a, Head(b)) \in Seq(S) /\ Tail(b) \in Seq(S)
  <1>1. Len(Append(a, Head(b)) \o Tail(b)) = Len(a \o b)
    OBVIOUS
  <1>2. \A k \in 1 .. Len(a) + Len(b) : (Append(a, Head(b)) \o Tail(b))[k] = (a \o b)[k]
    OBVIOUS
  <1> QED BY <1>1, <1>2

LEMMA LongerQueue ==
    ASSUME NEW S, NEW a \in Seq(S), NEW b \in Seq(S), NEW c \in Seq(S)
    PROVE  a \o (b \o c) = (a \o b) \o c
  OBVIOUS

LEMMA ShorterQueue ==
    ASSUME NEW S, NEW a \in Seq(S), NEW b \in Seq(S), a # <<>>
    PROVE  /\ Tail(a) \o b = Tail(a \o b) /\ Head(a) = (a \o b)[1]
           /\ a \o b # <<>> /\ Tail(a) \in Seq(S) /\ Head(a) \in S
  OBVIOUS

LEMMA NoSeedHonest == seed' = None => TimeHonest'
  BY DEF TimeHonest

LEMMA RtcLocalsAre ==
    ASSUME NEW pc, NEW l, l = Locals(pc)
    PROVE  /\ l = [pc |-> l.pc, i |-> l.i, words |-> l.words, reply |-> l.reply,
                   start |-> l.start, polls |-> l.polls, before |-> l.before,
                   cntpct |-> l.cntpct, counter |-> l.counter]
           /\ l.pc = pc /\ l.i = 1 /\ l.words = 0 /\ l.before = 0 /\ l.cntpct = 0
           /\ l.counter = [k \in 1 .. 3 |-> l.counter[k]]
  BY DEF Locals

LEMMA QuietIs ==
    /\ Quiet = [tx |-> Quiet.tx, out |-> Quiet.out, rx |-> Quiet.rx,
                stranger |-> Quiet.stranger]
    /\ Quiet.tx = None /\ Quiet.out = <<>> /\ Quiet.rx = <<>>
    /\ Quiet.out \in Seq(Words) /\ Quiet.rx \in Seq(Words)
  BY DEF Quiet

\* The end of LibRtcInitialize.
LEMMA RtcDoneKeeps ==
    ASSUME rtc' = Locals("done"), spmi' = Quiet, now' = 0
    PROVE  RtcShapes' /\ Transaction' /\ Readings'
  <1>1. MaxTime \in Nat /\ now' \in 0 .. MaxTime
    BY RtcAssumption
  <1>2. PICK l : l = rtc'
    OBVIOUS
  <1>3. /\ l = [pc |-> l.pc, i |-> l.i, words |-> l.words, reply |-> l.reply,
                start |-> l.start, polls |-> l.polls, before |-> l.before,
                cntpct |-> l.cntpct, counter |-> l.counter]
        /\ l.pc = "done" /\ l.i = 1 /\ l.words = 0 /\ l.before = 0 /\ l.cntpct = 0
        /\ l.counter = [k \in 1 .. 3 |-> l.counter[k]]
    BY <1>2, RtcLocalsAre
  <1>4. RtcShapes'
    BY <1>1, <1>2, <1>3, QuietIs DEF RtcShapes, Busy
  <1>5. Transaction' /\ Readings'
    BY <1>2, <1>3 DEF Transaction, Readings
  <1> QED BY <1>4, <1>5

LEMMA UnseededKeeps == Unseeded => RtcInv'
  BY RtcDoneKeeps, NoSeedHonest DEF Unseeded, RtcInv

LEMMA RtcStutterKeeps == RtcInv /\ UNCHANGED rtcVars => RtcInv'
  <1> SUFFICES ASSUME RtcInv, UNCHANGED rtcVars PROVE RtcInv'
    OBVIOUS
  <1>1. now' = now /\ clock' = clock /\ spmi' = spmi /\ rtc' = rtc /\ seed' = seed
    BY DEF rtcVars
  <1>2. RtcShapes'
    BY <1>1 DEF RtcInv, RtcShapes, Busy
  <1>3. Transaction'
    BY <1>1, ZenonT(30) DEF RtcInv, Transaction, Echoes, Queue, Answers, OffsetCell, Counter
  <1>4. Readings'
    BY <1>1 DEF RtcInv, Readings, OffsetCell, Counter
  <1>5. TimeHonest'
    BY <1>1 DEF RtcInv, TimeHonest, LibGetTime, Advance, TrueTime, InRange
  <1> QED BY <1>2, <1>3, <1>4, <1>5 DEF RtcInv

\* What could be answered still can be: of the values of the counter there are
\* only more as time goes by.
LEMMA AnswersGrow ==
    ASSUME RtcShapes, clock' = clock, rtc'.i = rtc.i, rtc'.before = rtc.before,
           now' \in Nat, now' >= now, NEW v \in Answers
    PROVE  v \in Answers'
  <1>1. rtc.before .. now \subseteq rtc'.before .. now'
    BY DEF RtcShapes
  <1>2. OffsetCell' = OffsetCell /\ \A s : Counter(s)' = Counter(s)
    BY DEF OffsetCell, Counter
  <1> QED BY <1>1, <1>2 DEF Answers

\* The same words, and no less time.
LEMMA EchoesKeep ==
    ASSUME RtcShapes, clock' = clock, rtc'.i = rtc.i, rtc'.before = rtc.before,
           now' \in Nat, now' >= now, Queue' = Queue,
           NEW n, Echoes(n)
    PROVE  \A k \in DOMAIN Queue' : Queue'[k].echo => k <= n /\ Queue'[k].value \in Answers'
  BY AnswersGrow DEF Echoes

\* A step of the bus or the counter: the firmware and its readings stay.
LEMMA BusFrame ==
    ASSUME RtcInv, Busy, clock' = clock, rtc' = rtc, seed' = seed,
           now' \in 0 .. MaxTime, now' >= now,
           spmi' = [tx |-> spmi'.tx, out |-> spmi'.out, rx |-> spmi'.rx,
                    stranger |-> spmi'.stranger],
           spmi'.out \in Seq(Words), spmi'.rx \in Seq(Words)
    PROVE  RtcShapes' /\ Readings' /\ TimeHonest'
  <1>1. RtcShapes'
    BY DEF RtcInv, RtcShapes, Busy
  <1>2. seed' = None
    BY DEF RtcInv, RtcShapes, Busy
  <1>3. OffsetCell' = OffsetCell /\ \A s : Counter(s)' = Counter(s)
    BY DEF OffsetCell, Counter
  <1>4. rtc.before .. now \subseteq rtc'.before .. now'
    BY DEF RtcInv, RtcShapes
  <1>5. Readings'
    BY <1>3, <1>4 DEF RtcInv, Readings
  <1> QED BY <1>1, <1>2, <1>5, NoSeedHonest

\* Time goes by, or a word goes from the bus into the FIFO.
LEMMA SameWordsKeep ==
    ASSUME RtcInv, Tick \/ Deliver
    PROVE  RtcInv'
  <1>1. /\ Busy /\ clock' = clock /\ rtc' = rtc /\ seed' = seed
        /\ now' \in 0 .. MaxTime /\ now' >= now /\ now' \in Nat
    <2>1. MaxTime \in Nat
      BY RtcAssumption
    <2> QED BY <2>1 DEF RtcInv, RtcShapes, Tick, Deliver
  <1>2. /\ spmi' = [tx |-> spmi'.tx, out |-> spmi'.out, rx |-> spmi'.rx,
                    stranger |-> spmi'.stranger]
        /\ spmi'.tx = spmi.tx /\ (spmi.rx # <<>> => spmi'.rx # <<>>)
        /\ spmi'.out \in Seq(Words) /\ spmi'.rx \in Seq(Words) /\ Queue' = Queue
    <2>1. CASE Tick
      BY <2>1 DEF RtcInv, RtcShapes, Tick, Queue
    <2>2. CASE Deliver
      <3>1. PICK a \in Seq(Words), b \in Seq(Words) : a = spmi.rx /\ b = spmi.out /\ b # <<>>
        BY <2>2 DEF RtcInv, RtcShapes, Deliver
      <3>2. spmi'.rx = Append(a, Head(b)) /\ spmi'.out = Tail(b)
        BY <2>2, <3>1 DEF RtcInv, RtcShapes, Deliver
      <3>3. /\ spmi' = [tx |-> spmi'.tx, out |-> spmi'.out, rx |-> spmi'.rx,
                        stranger |-> spmi'.stranger]
            /\ spmi'.tx = spmi.tx
        BY <2>2 DEF RtcInv, RtcShapes, Deliver
      <3>4. spmi'.rx # <<>>
        BY <3>2, SMTT(30)
      <3>5. /\ Append(a, Head(b)) \o Tail(b) = a \o b
            /\ Append(a, Head(b)) \in Seq(Words) /\ Tail(b) \in Seq(Words)
        <4>1. b # <<>>
          BY <3>1
        <4> QED BY <4>1, SameQueue, Zenon
      <3>6. Queue' = Queue
        <4>1. spmi'.rx \o spmi'.out = spmi.rx \o spmi.out
          BY ONLY <3>1, <3>2, <3>5
        <4> QED BY <4>1 DEF Queue
      <3> QED BY <3>2, <3>3, <3>4, <3>5, <3>6
    <2> QED BY <2>1, <2>2
  <1>3. RtcShapes' /\ Readings' /\ TimeHonest'
    BY <1>1, <1>2, BusFrame
  <1>4. \A n : Echoes(n) => Echoes(n)'
    BY <1>1, <1>2, EchoesKeep DEF RtcInv, Echoes
  <1>5. \A v : v \in Answers => v \in Answers'
    BY <1>1, AnswersGrow DEF RtcInv
  <1>6. Transaction'
    <2>1. Transaction
      BY DEF RtcInv
    <2>2. PICK n : n = 3 - rtc.words
      OBVIOUS
    <2>3. rtc'.pc = "command" =>
            spmi'.tx \notin {"time", "offset"} /\ (spmi'.rx # <<>> \/ Echoes(0)')
      BY <1>1, <1>2, <1>4, <2>1 DEF Transaction
    <2>4. rtc'.pc = "words" /\ rtc'.words = 0 =>
            \/ spmi'.tx = Register[rtc'.i] /\ Echoes(0)'
            \/ spmi'.tx = None /\ (Queue' # <<>> /\ Queue'[1].echo => Echoes(3)')
      BY <1>1, <1>2, <1>4, <2>1 DEF Transaction
    <2>5. rtc'.pc \in {"words", "check"} /\ rtc'.words > 0 /\ rtc'.reply.echo =>
            spmi'.tx = None /\ Echoes(n)' /\ rtc'.reply.value \in Answers'
      BY <1>1, <1>2, <1>4, <1>5, <2>1, <2>2 DEF Transaction
    <2>6. Echoes(n)' => Echoes(3 - rtc.words)'
      BY <1>1, <2>2 DEF Echoes
    <2> QED BY <2>3, <2>4, <2>5, <2>6, <1>1 DEF Transaction, Register
  <1> QED BY <1>3, <1>6 DEF RtcInv

LEMMA ThreeWordsAre ==
    ASSUME NEW w \in Words
    PROVE  /\ ThreeWords(w) \in Seq(Words) /\ Len(ThreeWords(w)) = 3
           /\ \A k \in 1 .. 3 : ThreeWords(w)[k] = w
  BY DEF ThreeWords

\* The words of a whole reply come last.
LEMMA ReplyComes ==
    ASSUME RtcShapes, NEW w \in Words, NEW tx, NEW stranger,
           spmi' = [tx |-> tx, out |-> spmi.out \o ThreeWords(w), rx |-> spmi.rx,
                    stranger |-> stranger]
    PROVE  /\ spmi' = [tx |-> spmi'.tx, out |-> spmi'.out, rx |-> spmi'.rx,
                       stranger |-> spmi'.stranger]
           /\ spmi'.out \in Seq(Words) /\ spmi'.rx \in Seq(Words)
           /\ Queue \in Seq(Words) /\ Queue' = Queue \o ThreeWords(w)
           /\ Len(Queue') = Len(Queue) + 3
           /\ \A k \in 1 .. Len(Queue) : Queue'[k] = Queue[k]
           /\ \A k \in Len(Queue) + 1 .. Len(Queue) + 3 : Queue'[k] = w
  <1>1. PICK a \in Seq(Words), b \in Seq(Words) : a = spmi.rx /\ b = spmi.out
    BY DEF RtcShapes
  <1>2. PICK c \in Seq(Words) : c = ThreeWords(w) /\ Len(c) = 3 /\ \A k \in 1 .. 3 : c[k] = w
    BY ThreeWordsAre
  <1>3. spmi'.rx = a /\ spmi'.out = b \o c /\ b \o c \in Seq(Words)
    BY <1>1, <1>2, ConcatIs
  <1>4. PICK q \in Seq(Words) : q = Queue /\ q = a \o b
    BY <1>1, ConcatIs DEF Queue
  <1>5. Queue' = q \o c
    <2>1. a \o (b \o c) = (a \o b) \o c
      BY LongerQueue, SMTT(60)
    <2> QED BY <1>3, <1>4, <2>1 DEF Queue
  <1>6. /\ Len(q \o c) = Len(q) + 3
        /\ \A k \in 1 .. Len(q) : (q \o c)[k] = q[k]
        /\ \A k \in Len(q) + 1 .. Len(q) + 3 : (q \o c)[k] = w
    <2>1. /\ Len(q \o c) = Len(q) + Len(c)
          /\ \A k \in 1 .. Len(q) : (q \o c)[k] = q[k]
          /\ \A k \in Len(q) + 1 .. Len(q) + Len(c) : (q \o c)[k] = c[k - Len(q)]
      BY ConcatIs
    <2>2. PICK len \in Nat : len = Len(q)
      OBVIOUS
    <2>3. \A k \in len + 1 .. len + 3 : k - len \in 1 .. 3
      OBVIOUS
    <2> QED BY <1>2, <2>1, <2>2, <2>3
  <1> QED BY <1>1, <1>2, <1>3, <1>4, <1>5, <1>6

LEMMA StrangerKeeps ==
    ASSUME RtcInv, StrangerReads
    PROVE  RtcInv'
  <1> DEFINE w == Reply(FALSE, 0)
  <1>1. /\ Busy /\ clock' = clock /\ rtc' = rtc /\ seed' = seed /\ now' = now
        /\ now' \in 0 .. MaxTime /\ now' >= now /\ now' \in Nat /\ RtcShapes /\ Transaction
    BY RtcAssumption DEF RtcInv, RtcShapes, StrangerReads
  <1>2. w \in Words /\ w.echo = FALSE
    BY DEF Words, Reply
  <1>3. spmi' = [tx |-> spmi.tx, out |-> spmi.out \o ThreeWords(w), rx |-> spmi.rx,
                 stranger |-> FALSE]
    BY DEF RtcInv, RtcShapes, StrangerReads
  <1> HIDE DEF w
  <1>4. /\ Queue \in Seq(Words) /\ Len(Queue') = Len(Queue) + 3
        /\ Queue' = Queue \o ThreeWords(w)
        /\ \A k \in 1 .. Len(Queue) : Queue'[k] = Queue[k]
        /\ \A k \in Len(Queue) + 1 .. Len(Queue) + 3 : Queue'[k] = w
        /\ RtcShapes' /\ Readings' /\ TimeHonest'
    BY <1>1, <1>2, <1>3, ReplyComes, BusFrame
  <1>5. Answers' = Answers
    BY <1>1 DEF Answers, OffsetCell, Counter
  <1>6. DOMAIN Queue' = 1 .. Len(Queue) + 3 /\ DOMAIN Queue = 1 .. Len(Queue) /\ Len(Queue) \in Nat
    BY <1>2, <1>4, ThreeWordsAre
  <1>7. \A n : Echoes(n) => Echoes(n)'
    BY <1>2, <1>4, <1>5, <1>6 DEF Echoes
  <1>8. Queue' # <<>> /\ Queue'[1].echo => Queue # <<>> /\ Queue[1].echo
    BY <1>2, <1>4, <1>6
  <1>9. spmi'.tx = spmi.tx /\ spmi'.rx = spmi.rx
    BY <1>3
  <1>10. Transaction'
    <2>2. PICK n : n = 3 - rtc.words
      OBVIOUS
    <2>3. rtc'.pc = "command" =>
            spmi'.tx \notin {"time", "offset"} /\ (spmi'.rx # <<>> \/ Echoes(0)')
      BY <1>1, <1>7, <1>9 DEF Transaction
    <2>4. rtc'.pc = "words" /\ rtc'.words = 0 =>
            \/ spmi'.tx = Register[rtc'.i] /\ Echoes(0)'
            \/ spmi'.tx = None /\ (Queue' # <<>> /\ Queue'[1].echo => Echoes(3)')
      BY <1>1, <1>7, <1>8, <1>9 DEF Transaction
    <2>5. rtc'.pc \in {"words", "check"} /\ rtc'.words > 0 /\ rtc'.reply.echo =>
            spmi'.tx = None /\ Echoes(n)' /\ rtc'.reply.value \in Answers'
      BY <1>1, <1>5, <1>7, <1>9, <2>2 DEF Transaction
    <2>6. Echoes(n)' => Echoes(3 - rtc.words)'
      BY <1>1, <2>2 DEF Echoes
    <2> QED BY <2>3, <2>4, <2>5, <2>6, <1>1 DEF Transaction, Register
  <1> QED BY <1>4, <1>10 DEF RtcInv

LEMMA RegisterIs ==
    Register[1] = "time" /\ Register[2] = "offset" /\ Register[3] = "time"
  BY DEF Register

\* The PMU answers the command that the transaction has sent, and nothing else.
LEMMA PmuKeeps ==
    ASSUME RtcInv, PmuReads
    PROVE  RtcInv'
  <1>1. PICK v : v = IF spmi.tx = "time" THEN Counter(now) ELSE OffsetCell
    OBVIOUS
  <1> DEFINE w == Reply(TRUE, v)
  <1>2. /\ Busy /\ clock' = clock /\ rtc' = rtc /\ seed' = seed /\ now' = now
        /\ now' \in 0 .. MaxTime /\ now' >= now /\ now' \in Nat /\ RtcShapes /\ Transaction
    BY RtcAssumption DEF RtcInv, RtcShapes, PmuReads
  <1>3. v \in Int
    <2>1. clock \in Clocks /\ now \in Nat
      BY <1>2 DEF RtcShapes
    <2>2. clock.counter \in Int /\ clock.time \in Int /\ Modulus \in Nat \ {0}
      BY <2>1, RtcAssumption
    <2>3. Counter(now) \in Int
      <3>1. clock.counter + now \in Int
        BY <2>1, <2>2
      <3> QED BY <2>2, <3>1, DivModIs, SMTT(30) DEF Counter
    <2>4. OffsetCell \in Int
      <3>1. clock.time - clock.counter \in Int /\ 2 \in Nat \ {0}
        BY <2>2
      <3>2. (clock.time - clock.counter) \div 2 \in Int
        BY <3>1, DivModIs
      <3> QED BY <2>2, <3>2, DivModIs DEF OffsetCell
    <2> QED BY <1>1, <2>3, <2>4
  <1>4. w \in Words /\ w.echo /\ w.value = v
    BY <1>3 DEF Words, Reply
  <1>5. spmi' = [tx |-> None, out |-> spmi.out \o ThreeWords(w), rx |-> spmi.rx,
                 stranger |-> spmi.stranger]
    BY <1>1 DEF RtcInv, RtcShapes, PmuReads
  <1> HIDE DEF w
  <1>6. /\ Queue \in Seq(Words) /\ Len(Queue') = Len(Queue) + 3
        /\ Queue' = Queue \o ThreeWords(w)
        /\ \A k \in 1 .. Len(Queue) : Queue'[k] = Queue[k]
        /\ \A k \in Len(Queue) + 1 .. Len(Queue) + 3 : Queue'[k] = w
        /\ RtcShapes' /\ Readings' /\ TimeHonest'
    BY <1>2, <1>4, <1>5, ReplyComes, BusFrame
  <1>7. DOMAIN Queue' = 1 .. Len(Queue) + 3 /\ DOMAIN Queue = 1 .. Len(Queue) /\ Len(Queue) \in Nat
    BY <1>4, <1>6, ThreeWordsAre
  <1>8. /\ spmi.tx \in {"time", "offset"} /\ spmi.tx # None /\ spmi'.tx = None
        /\ rtc.pc # "command"
    BY <1>2, <1>5, RtcAssumption DEF PmuReads, Transaction
  <1>9. rtc.pc \in {"words", "check"} /\ rtc.words > 0 => ~rtc.reply.echo
    BY <1>2, <1>8 DEF Transaction
  <1>10. ASSUME rtc.pc = "words", rtc.words = 0
         PROVE  Queue' # <<>> /\ Queue'[1].echo => Echoes(3)'
    <2>1. spmi.tx = Register[rtc.i] /\ Echoes(0)
      BY <1>2, <1>8, <1>10 DEF Transaction
    <2>2. v \in Answers'
      <3>1. rtc.i \in 1 .. 3 /\ now \in rtc.before .. now
        BY <1>2 DEF RtcShapes
      <3>2. v \in Answers
        BY <1>1, <2>1, <3>1, RegisterIs DEF Answers
      <3> QED BY <1>2, <3>2, AnswersGrow
    <2>3. CASE Len(Queue) = 0
      <3>1. \A k \in 1 .. 3 : Queue'[k] = w
        BY <1>6, <2>3
      <3> QED BY <1>4, <1>7, <2>2, <2>3, <3>1 DEF Echoes
    <2>4. CASE Len(Queue) # 0
      <3>1. 1 \in 1 .. Len(Queue)
        BY <1>7, <2>4
      <3>2. ~(Queue[1].echo)
        BY <1>7, <2>1, <3>1 DEF Echoes
      <3> QED BY <1>6, <3>1, <3>2
    <2> QED BY <2>3, <2>4
  <1>11. Transaction'
    BY <1>2, <1>8, <1>9, <1>10 DEF Transaction
  <1> QED BY <1>6, <1>11 DEF RtcInv

LEMMA RtcBusKeeps == RtcInv /\ RtcBus => RtcInv'
  BY SameWordsKeep, StrangerKeeps, PmuKeeps DEF RtcBus

LEMMA InitializeKeeps ==
    ASSUME RtcInv, NEW topology \in BOOLEAN, LibRtcInitialize(topology)
    PROVE  RtcInv'
  <1>1. CASE ~topology
    BY <1>1, UnseededKeeps DEF LibRtcInitialize
  <1>2. CASE topology
    <2>1. /\ clock' \in Clocks /\ seed' = None /\ now' = now /\ spmi' \in Found
          /\ now \in 0 .. MaxTime /\ now \in Nat
          /\ rtc' = [Locals("command") EXCEPT !.before = now]
      BY <1>2, RtcAssumption DEF LibRtcInitialize, RtcInv, RtcShapes
    <2>2. PICK m : m = Locals("command")
      OBVIOUS
    <2>3. /\ m = [pc |-> m.pc, i |-> m.i, words |-> m.words, reply |-> m.reply,
                  start |-> m.start, polls |-> m.polls, before |-> m.before,
                  cntpct |-> m.cntpct, counter |-> m.counter]
          /\ m.pc = "command" /\ m.i = 1 /\ m.words = 0 /\ m.cntpct = 0
          /\ m.counter = [k \in 1 .. 3 |-> m.counter[k]]
      BY <2>2, RtcLocalsAre
    <2>4. PICK l : l = rtc'
      OBVIOUS
    <2>5. /\ l = [pc |-> l.pc, i |-> l.i, words |-> l.words, reply |-> l.reply,
                  start |-> l.start, polls |-> l.polls, before |-> l.before,
                  cntpct |-> l.cntpct, counter |-> l.counter]
          /\ l.pc = "command" /\ l.i = 1 /\ l.words = 0 /\ l.before = now /\ l.cntpct = 0
          /\ l.counter = m.counter
      BY <2>1, <2>2, <2>3, <2>4
    <2>6. /\ spmi' = [tx |-> spmi'.tx, out |-> spmi'.out, rx |-> spmi'.rx,
                      stranger |-> spmi'.stranger]
          /\ spmi'.out = <<>> /\ spmi'.out \in Seq(Words) /\ spmi'.rx \in Seq(Words)
          /\ spmi'.tx \in {None, "other"} /\ (spmi'.rx = <<>> \/ spmi'.rx # <<>>)
      <3>1. Reply(TRUE, 0) \in Words
        BY DEF Reply, Words
      <3>2. ThreeWords(Reply(TRUE, 0)) \in Seq(Words)
        BY <3>1, ThreeWordsAre
      <3> QED BY <2>1, <3>2, QuietIs DEF Found
    <2>7. RtcShapes'
      BY <2>1, <2>3, <2>4, <2>5, <2>6 DEF RtcShapes, Busy
    <2>8. spmi'.rx = <<>> => Echoes(0)'
      <3>1. <<>> \o <<>> = <<>> /\ DOMAIN <<>> = {}
        OBVIOUS
      <3> QED BY <2>6, <3>1 DEF Echoes, Queue
    <2>9. Transaction' /\ Readings'
      BY <2>4, <2>5, <2>6, <2>8, RtcAssumption DEF Transaction, Readings
    <2> QED BY <2>1, <2>7, <2>9, NoSeedHonest DEF RtcInv
  <1> QED BY <1>1, <1>2

\* A transaction starts on an empty FIFO, so no word of an earlier one is left.
LEMMA CommandKeeps ==
    ASSUME RtcInv, Command
    PROVE  RtcInv'
  <1>1. CASE ~(spmi.rx = <<>> /\ spmi.tx = None)
    BY <1>1, UnseededKeeps DEF Command
  <1>2. CASE spmi.rx = <<>> /\ spmi.tx = None
    <2>1. /\ rtc' = [rtc EXCEPT !.pc = "words", !.words = 0, !.polls = 0, !.start = now]
          /\ spmi' = [spmi EXCEPT !.tx = Register[rtc.i]]
          /\ now' = now /\ clock' = clock /\ seed' = seed /\ rtc.pc = "command"
          /\ RtcShapes /\ Transaction /\ Readings
      BY <1>2 DEF Command, RtcInv
    <2>2. /\ rtc' = [pc |-> "words", i |-> rtc.i, words |-> 0, reply |-> rtc.reply,
                     start |-> now, polls |-> 0, before |-> rtc.before,
                     cntpct |-> rtc.cntpct, counter |-> rtc.counter]
          /\ spmi' = [tx |-> Register[rtc.i], out |-> spmi.out, rx |-> spmi.rx,
                      stranger |-> spmi.stranger]
      BY <2>1 DEF RtcShapes
    <2>3. RtcShapes'
      <3>1. PICK tx : tx = Register[rtc.i]
        OBVIOUS
      <3>2. /\ spmi'.tx = tx /\ spmi'.out = spmi.out /\ spmi'.rx = spmi.rx
            /\ spmi' = [tx |-> spmi'.tx, out |-> spmi'.out, rx |-> spmi'.rx,
                        stranger |-> spmi'.stranger]
        BY <2>2, <3>1
      <3>3. /\ rtc'.pc = "words" /\ rtc'.i = rtc.i /\ rtc'.words = 0
            /\ rtc'.before = rtc.before /\ rtc'.cntpct = rtc.cntpct
            /\ rtc'.counter = rtc.counter
            /\ rtc' = [pc |-> rtc'.pc, i |-> rtc'.i, words |-> rtc'.words,
                       reply |-> rtc'.reply, start |-> rtc'.start, polls |-> rtc'.polls,
                       before |-> rtc'.before, cntpct |-> rtc'.cntpct,
                       counter |-> rtc'.counter]
        BY <2>2
      <3> QED BY <2>1, <3>2, <3>3 DEF RtcShapes, Busy
    <2>4. Echoes(0)'
      <3>1. Echoes(0) /\ Queue' = Queue
        BY <1>2, <2>1, <2>2 DEF Transaction, Queue
      <3>2. Answers' = Answers
        BY <2>1, <2>2 DEF Answers, OffsetCell, Counter
      <3> QED BY <3>1, <3>2 DEF Echoes
    <2>5. Transaction'
      <3>1. rtc'.pc = "words" /\ rtc'.words = 0 /\ spmi'.tx = Register[rtc'.i]
        BY <2>2
      <3> QED BY <2>4, <3>1 DEF Transaction, Register
    <2>6. Readings'
      BY <2>1, <2>2 DEF Readings, OffsetCell
    <2>7. seed' = None
      BY <2>1 DEF RtcShapes
    <2> QED BY <2>3, <2>5, <2>6, <2>7, NoSeedHonest DEF RtcInv
  <1> QED BY <1>1, <1>2

\* The first word decides what the reply is taken for.
LEMMA PollKeeps ==
    ASSUME RtcInv, Poll
    PROVE  RtcInv'
  <1>1. CASE Unseeded
    BY <1>1, UnseededKeeps
  <1>2. CASE rtc' = [rtc EXCEPT !.polls = @ + 1] /\ UNCHANGED <<now, clock, spmi, seed>>
    <2>1. /\ rtc'.pc = rtc.pc /\ rtc'.i = rtc.i /\ rtc'.words = rtc.words
          /\ rtc'.reply = rtc.reply /\ rtc'.before = rtc.before
          /\ rtc'.cntpct = rtc.cntpct /\ rtc'.counter = rtc.counter
          /\ rtc' = [pc |-> rtc'.pc, i |-> rtc'.i, words |-> rtc'.words,
                     reply |-> rtc'.reply, start |-> rtc'.start, polls |-> rtc'.polls,
                     before |-> rtc'.before, cntpct |-> rtc'.cntpct,
                     counter |-> rtc'.counter]
      BY <1>2 DEF RtcInv, RtcShapes
    <2>2. RtcShapes' /\ seed' = None
      BY <1>2, <2>1 DEF RtcInv, RtcShapes, Busy, Poll
    <2>3. Queue' = Queue /\ Answers' = Answers /\ OffsetCell' = OffsetCell
          /\ \A s : Counter(s)' = Counter(s)
      BY <1>2, <2>1 DEF Queue, Answers, OffsetCell, Counter
    <2>4. Transaction'
      BY <1>2, <2>1, <2>3 DEF RtcInv, Transaction, Echoes
    <2>5. Readings'
      BY <1>2, <2>1, <2>3 DEF RtcInv, Readings
    <2> QED BY <2>2, <2>4, <2>5, NoSeedHonest DEF RtcInv
  <1>3. CASE /\ spmi.rx # <<>>
             /\ spmi' = [spmi EXCEPT !.rx = Tail(@)]
             /\ rtc' = [rtc EXCEPT !.words = @ + 1, !.polls = 0,
                                   !.reply = IF rtc.words = 0 THEN Head(spmi.rx) ELSE @,
                                   !.pc = IF rtc.words = 2 THEN "check" ELSE @]
             /\ UNCHANGED <<now, clock, seed>>
    <2>1. RtcShapes /\ Transaction /\ Readings /\ rtc.pc = "words" /\ rtc.words \in 0 .. 2
      BY DEF RtcInv, RtcShapes, Poll
    <2>2. PICK reply : reply = IF rtc.words = 0 THEN Head(spmi.rx) ELSE rtc.reply
      OBVIOUS
    <2>3. PICK pc : pc = IF rtc.words = 2 THEN "check" ELSE "words"
      OBVIOUS
    <2>4. /\ rtc' = [pc |-> pc, i |-> rtc.i, words |-> rtc.words + 1, reply |-> reply,
                     start |-> rtc.start, polls |-> 0, before |-> rtc.before,
                     cntpct |-> rtc.cntpct, counter |-> rtc.counter]
          /\ spmi' = [tx |-> spmi.tx, out |-> spmi.out, rx |-> Tail(spmi.rx),
                      stranger |-> spmi.stranger]
          /\ now' = now /\ clock' = clock /\ seed' = seed
      BY <1>3, <2>1, <2>2, <2>3 DEF RtcShapes
    <2>5. PICK a \in Seq(Words), b \in Seq(Words) : a = spmi.rx /\ b = spmi.out /\ a # <<>>
      BY <1>3, <2>1 DEF RtcShapes
    <2>6. /\ Tail(a) \o b = Tail(a \o b) /\ Head(a) = (a \o b)[1]
          /\ a \o b # <<>> /\ Tail(a) \in Seq(Words) /\ Head(a) \in Words
      <3>1. a # <<>>
        BY <2>5
      <3> QED BY <3>1, ShorterQueue, Zenon
    <2>7. PICK q \in Seq(Words) : q = Queue /\ q = a \o b
      BY <2>5, ConcatIs DEF Queue
    <2>8. q # <<>> /\ Queue' = Tail(q) /\ Head(a) = q[1]
      BY <2>4, <2>5, <2>6, <2>7 DEF Queue
    <2>9. reply \in Words
      BY <2>1, <2>2, <2>5, <2>6 DEF RtcShapes
    <2>10. RtcShapes' /\ seed' = None
      BY <2>1, <2>3, <2>4, <2>5, <2>6, <2>9 DEF RtcShapes, Busy
    <2>11. Readings'
      BY <2>1, <2>3, <2>4 DEF Readings, OffsetCell
    <2>12. Answers' = Answers
      BY <2>4 DEF Answers, OffsetCell, Counter
    <2>13. \A n \in 1 .. 3 : Echoes(n) => Echoes(n - 1)'
      <3> SUFFICES ASSUME NEW n \in 1 .. 3, Echoes(n), NEW k \in DOMAIN Tail(q), Tail(q)[k].echo
                   PROVE  k <= n - 1 /\ Tail(q)[k].value \in Answers
        BY <2>8, <2>12 DEF Echoes
      <3>1. PICK j \in Nat : j = k + 1 /\ k \in Nat /\ Tail(q)[k] = q[j] /\ j \in DOMAIN q
        BY <2>8
      <3>2. \A i \in DOMAIN q : q[i].echo => i <= n /\ q[i].value \in Answers
        BY <2>7 DEF Echoes
      <3>3. j <= n /\ q[j].value \in Answers
        BY <3>1, <3>2
      <3> QED BY <3>1, <3>3
    <2>14. ASSUME reply.echo
           PROVE  /\ spmi.tx = None /\ reply.value \in Answers
                  /\ Echoes(3 - rtc.words)
      <3>1. CASE rtc.words > 0
        BY <2>1, <2>2, <2>14, <3>1 DEF Transaction
      <3>2. CASE rtc.words = 0
        <4>1. reply = Queue[1] /\ 1 \in DOMAIN Queue
          <5>1. 1 \in DOMAIN q
            BY <2>8
          <5>2. reply = q[1]
            BY <2>2, <2>5, <2>8, <3>2
          <5> QED BY <2>7, <5>1, <5>2
        <4>2. ~Echoes(0)
          BY <2>14, <4>1 DEF Echoes
        <4>3. spmi.tx = None /\ Echoes(3)
          BY <2>1, <2>7, <2>8, <2>14, <3>2, <4>1, <4>2 DEF Transaction
        <4> QED BY <2>14, <3>2, <4>1, <4>3 DEF Echoes
      <3> QED BY <2>1, <3>1, <3>2
    <2>15. PICK n \in 1 .. 3 : n = 3 - rtc.words
      BY <2>1
    <2>16. reply.echo => Echoes(n - 1)'
      BY <2>13, <2>14, <2>15
    <2>17. rtc'.words = rtc.words + 1 /\ 3 - rtc'.words = n - 1 /\ rtc'.reply = reply
           /\ spmi'.tx = spmi.tx /\ rtc'.words > 0 /\ rtc'.pc \in {"words", "check"}
      BY <2>1, <2>3, <2>4, <2>15
    <2>18. reply.echo => Echoes(3 - rtc.words)'
      BY <2>16, <2>17 DEF Echoes
    <2>19. Transaction'
      BY <2>12, <2>14, <2>17, <2>18 DEF Transaction
    <2> QED BY <2>10, <2>11, <2>19, NoSeedHonest DEF RtcInv
  <1> QED BY <1>1, <1>2, <1>3 DEF Poll

LEMMA CheckKeeps ==
    ASSUME RtcInv, Check
    PROVE  RtcInv'
  <1>1. CASE ~rtc.reply.echo \/ spmi.rx # <<>> \/ Late
    BY <1>1, UnseededKeeps DEF Check
  <1>2. CASE ~(~rtc.reply.echo \/ spmi.rx # <<>> \/ Late)
    <2>1. /\ RtcShapes /\ Transaction /\ Readings /\ rtc.pc = "check" /\ rtc.words = 3
          /\ rtc.i \in 1 .. 3
      BY DEF RtcInv, RtcShapes, Check
    <2>2. spmi.tx = None /\ Echoes(3 - 3) /\ rtc.reply.value \in Answers
      BY <1>2, <2>1 DEF Transaction
    <2>3. PICK v : v = rtc.reply.value
      OBVIOUS
    <2>4. PICK counter : counter = [rtc.counter EXCEPT ![rtc.i] = v]
      OBVIOUS
    <2>5. PICK pc : pc = IF rtc.i = 3 THEN "sample" ELSE "command"
      OBVIOUS
    <2>6. PICK i \in 1 .. 3 : i = IF rtc.i = 3 THEN 3 ELSE rtc.i + 1
      BY <2>1
    <2>7. /\ rtc' = [pc |-> pc, i |-> i, words |-> 0, reply |-> None, start |-> rtc.start,
                     polls |-> rtc.polls, before |-> rtc.before,
                     cntpct |-> rtc.cntpct, counter |-> counter]
          /\ now' = now /\ clock' = clock /\ seed' = seed /\ spmi' = spmi
      BY <1>2, <2>1, <2>3, <2>4, <2>5, <2>6, ZenonT(30) DEF Check, RtcShapes
    <2>8. /\ counter = [k \in 1 .. 3 |-> counter[k]]
          /\ counter[rtc.i] = v /\ \A k \in 1 .. 3 : k # rtc.i => counter[k] = rtc.counter[k]
      BY <2>1, <2>4 DEF RtcShapes
    <2>9. RtcShapes' /\ seed' = None
      BY <2>1, <2>5, <2>7, <2>8 DEF RtcShapes, Busy
    <2>10. \A k \in DOMAIN Queue : ~Queue[k].echo
      <3>1. spmi.rx \in Seq(Words) /\ spmi.out \in Seq(Words)
        BY <2>1 DEF RtcShapes
      <3>2. Queue \in Seq(Words)
        BY <3>1, ConcatIs DEF Queue
      <3>3. \A k \in DOMAIN Queue : k \in Nat /\ k > 0
        BY <3>2
      <3> QED BY <2>2, <3>3 DEF Echoes
    <2>11. Echoes(0)'
      BY <2>7, <2>10 DEF Echoes, Queue
    <2>12. Transaction'
      BY <2>2, <2>5, <2>7, <2>11, RtcAssumption DEF Transaction
    <2>13. Readings'
      <3>1. OffsetCell' = OffsetCell /\ \A s : Counter(s)' = Counter(s)
        BY <2>7 DEF OffsetCell, Counter
      <3>2. i = 3 => counter[2] = OffsetCell
        <4>1. CASE rtc.i = 1
          BY <2>6, <4>1
        <4>2. CASE rtc.i = 2
          BY <2>2, <2>3, <2>8, <4>2 DEF Answers
        <4>3. CASE rtc.i = 3
          BY <2>1, <2>8, <4>3 DEF Readings
        <4> QED BY <2>1, <4>1, <4>2, <4>3
      <3>3. pc = "sample" => i = 3 /\ \E s \in rtc.before .. now : counter[3] = Counter(s)
        BY <2>2, <2>3, <2>5, <2>6, <2>8 DEF Answers
      <3>4. rtc'.i = i /\ rtc'.counter = counter /\ rtc'.pc = pc /\ rtc'.before = rtc.before
        BY <2>7
      <3>5. pc \in {"sample", "command"}
        BY <2>5
      <3> QED BY <2>7, <3>1, <3>2, <3>3, <3>4, <3>5 DEF Readings
    <2> QED BY <2>9, <2>12, <2>13, NoSeedHonest DEF RtcInv
  <1> QED BY <1>1, <1>2

LEMMA SampleKeeps ==
    ASSUME RtcInv, Sample
    PROVE  RtcInv'
  <1>1. /\ RtcShapes /\ Readings /\ rtc.pc = "sample"
        /\ now' = now /\ clock' = clock /\ seed' = seed /\ spmi' = spmi
        /\ rtc' = [rtc EXCEPT !.cntpct = now, !.pc = "seed"]
    BY DEF RtcInv, Sample
  <1>2. /\ rtc'.pc = "seed" /\ rtc'.i = rtc.i /\ rtc'.words = rtc.words
        /\ rtc'.before = rtc.before /\ rtc'.cntpct = now /\ rtc'.counter = rtc.counter
        /\ rtc' = [pc |-> rtc'.pc, i |-> rtc'.i, words |-> rtc'.words,
                   reply |-> rtc'.reply, start |-> rtc'.start, polls |-> rtc'.polls,
                   before |-> rtc'.before, cntpct |-> rtc'.cntpct,
                   counter |-> rtc'.counter]
    BY <1>1 DEF RtcShapes
  <1>3. RtcShapes' /\ seed' = None
    BY <1>1, <1>2 DEF RtcShapes, Busy
  <1>4. Transaction'
    BY <1>2 DEF Transaction
  <1>5. OffsetCell' = OffsetCell /\ \A s : Counter(s)' = Counter(s)
    BY <1>1 DEF OffsetCell, Counter
  <1>6. \A s \in rtc.before .. now : s <= now
    BY <1>1 DEF RtcShapes
  <1>7. Readings'
    BY <1>1, <1>2, <1>5, <1>6 DEF Readings
  <1> QED BY <1>3, <1>4, <1>7, NoSeedHonest DEF RtcInv

\* The snapshot is of a tick between the first command and the sample of the
\* physical counter, which the whole was quick enough to make a second at most.
LEMMA SeedKeeps ==
    ASSUME RtcInv, Seed
    PROVE  RtcInv'
  <1> DEFINE time == Convert(rtc.counter[3], rtc.counter[2])
  <1>1. CASE Unseeded
    BY <1>1, UnseededKeeps
  <1>2. CASE ~Unseeded
    <2>1. /\ InRange(time) /\ Quick
          /\ seed' = [epoch |-> time \div Second, ns |-> time % Second,
                      cntpct |-> rtc.cntpct]
          /\ rtc' = Locals("done") /\ spmi' = Quiet /\ now' = 0 /\ clock' = clock
          /\ rtc.pc = "seed"
      BY <1>2 DEF Seed
    <2>2. /\ rtc.before \in 0 .. now /\ rtc.cntpct \in 0 .. now /\ now \in 0 .. MaxTime
          /\ clock \in Clocks /\ MaxTime \in Nat
      BY <2>1, RtcAssumption DEF RtcInv, RtcShapes, Busy
    <2>3. PICK s \in rtc.before .. now :
            rtc.counter[3] = Counter(s) /\ s <= rtc.cntpct /\ rtc.counter[2] = OffsetCell
      BY <2>1 DEF RtcInv, Readings
    <2>4. s \in 0 .. MaxTime /\ rtc.cntpct \in 0 .. MaxTime
      BY <2>2
    <2>5. time \in Int /\ TrueTime(s) - time \in 0 .. 1
      <3>1. time >= 0 /\ time = Convert(Counter(s), OffsetCell)
        BY <2>1, <2>3 DEF InRange
      <3> HIDE DEF time
      <3> QED BY <2>2, <2>4, <3>1, ConvertExact
    <2>6. rtc.cntpct - s \in 0 .. Second
      <3>1. Second \in Nat
        BY RtcAssumption
      <3> QED BY <2>1, <2>2, <2>3, <3>1 DEF Quick
    <2> HIDE DEF time
    <2>7. TimeHonest'
      BY <2>1, <2>2, <2>4, <2>5, <2>6, AdvanceExact
    <2> QED BY <2>1, <2>7, RtcDoneKeeps DEF RtcInv
  <1> QED BY <1>1, <1>2

LEMMA RtcInvNext == RtcInv /\ [Next]_vars => RtcInv'
  <1> SUFFICES ASSUME RtcInv, [Next]_vars PROVE RtcInv'
    OBVIOUS
  <1>1. CASE RtcStep
    BY <1>1, InitializeKeeps, CommandKeeps, PollKeeps, CheckKeeps, SampleKeeps, SeedKeeps
       DEF RtcStep
  <1>2. CASE RtcBus
    BY <1>2, RtcBusKeeps
  <1>3. CASE UNCHANGED rtcVars
    BY <1>3, RtcStutterKeeps
  <1> QED BY <1>1, <1>2, <1>3
          DEF Next, vars, Display, World, Time, Prefix, Drivers, Bus, Event, Pstate,
              Controller, HandlerEnds, Loader, Others

\* For every PMU clock, every width of its counter, every length of a second
\* and every stop of the CPU, with whatever another user of the bus has left in
\* the FIFOs or puts there: the time LibGetTime reports is never ahead of the
\* wall clock and at most a second and the dropped bit behind it.
THEOREM TimeAlwaysHonest == Spec => []TimeHonest
  <1>1. Init => RtcInv
    <2> SUFFICES ASSUME Init PROVE RtcInv
      OBVIOUS
    <2>1. now = 0 /\ spmi = Quiet /\ rtc = Locals("off") /\ seed = None
      BY DEF Init, RtcInit
    <2>2. PICK l : l = rtc
      OBVIOUS
    <2>3. /\ l = [pc |-> l.pc, i |-> l.i, words |-> l.words, reply |-> l.reply,
                  start |-> l.start, polls |-> l.polls, before |-> l.before,
                  cntpct |-> l.cntpct, counter |-> l.counter]
          /\ l.pc = "off" /\ l.i = 1 /\ l.words = 0 /\ l.before = 0 /\ l.cntpct = 0
          /\ l.counter = [k \in 1 .. 3 |-> l.counter[k]]
      BY <2>1, <2>2, RtcLocalsAre
    <2>4. MaxTime \in Nat
      BY RtcAssumption
    <2>5. RtcShapes
      BY <2>1, <2>2, <2>3, <2>4, QuietIs DEF RtcShapes, Busy
    <2>6. Transaction /\ Readings
      BY <2>2, <2>3 DEF Transaction, Readings
    <2> QED BY <2>1, <2>5, <2>6 DEF RtcInv, TimeHonest
  <1>2. RtcInv /\ [Next]_vars => RtcInv'
    BY RtcInvNext
  <1>3. RtcInv => TimeHonest
    BY DEF RtcInv
  <1> QED BY <1>1, <1>2, <1>3, PTL DEF Spec

(***************************************************************************)
(* The memory map.  The pages of memory are an interval.                   *)
(***************************************************************************)
\* A set of numbers with a bound has a greatest member.
LEMMA GreatestOf ==
    ASSUME NEW T, T \subseteq Nat, T # {}, NEW k \in Nat, \A y \in T : y <= k
    PROVE  Max(T) \in T /\ \A y \in T : y <= Max(T)
  <1> DEFINE U == {n \in Nat : \A y \in T : y <= n}
  <1>1. k \in U
    OBVIOUS
  <1>2. PICK x \in U : \A y \in U : x <= y
    <2>1. U \subseteq Nat /\ U # {}
      BY <1>1
    <2> HIDE DEF U
    <2> QED BY <2>1, LeastOf
  <1>3. x \in T
    <2>1. SUFFICES ASSUME x \notin T PROVE FALSE
      OBVIOUS
    <2>2. \A y \in T : y < x
      BY <1>2, <2>1
    <2>3. PICK y \in T : TRUE
      OBVIOUS
    <2>4. x - 1 \in U
      BY <1>2, <2>2, <2>3
    <2> QED BY <1>2, <2>4
  <1>4. \E z \in T : \A y \in T : z >= y
    BY <1>2, <1>3
  <1>5. Max(T) \in T /\ \A y \in T : Max(T) >= y
    BY <1>4, Zenon DEF Max
  <1> QED BY <1>5

LEMMA PagesAre ==
    /\ IsFiniteSet(Pages) /\ Pages \subseteq Nat
    /\ \A p, q : p \in Pages /\ q \in 0 .. p => q \in Pages
    /\ \E n \in Nat : Cardinality(Pages) = n /\ Pages = 0 .. n - 1
  <1>1. PICK m \in Nat : m = Max(MemSizes)
    <2>1. \E z \in MemSizes : \A y \in MemSizes : z >= y
      BY MapAssumption
    <2>2. Max(MemSizes) \in MemSizes
      BY <2>1, Zenon DEF Max
    <2> QED BY <2>2, MapAssumption
  <1>2. PICK n \in Nat : n = PhysBase + m /\ Pages = 0 .. n - 1
    BY <1>1, MapAssumption DEF Pages
  <1>3. IsFiniteSet(0 .. n - 1) /\ Cardinality(0 .. n - 1) = n
    BY FS_Interval
  <1> QED BY <1>2, <1>3

(***************************************************************************)
(* What a set of descriptors must be to be a map of ram.                   *)
(***************************************************************************)
IsDesc(d, ram) ==
    /\ d = Desc(d.start, d.pages, d.type)
    /\ d.start \in Nat /\ d.pages \in Nat \ {0} /\ PagesOf(d) \subseteq Pages
    /\ \A p \in PagesOf(d) : ram[p] = d.type
    /\ d.type # "hole"

Apart(map) == \A d, e \in map : d # e => PagesOf(d) \cap PagesOf(e) = {}

Covered(map) == UNION {PagesOf(d) : d \in map}

IsMap(map, ram) ==
    /\ \A d \in map : IsDesc(d, ram)
    /\ Apart(map)
    /\ \A p \in Pages : ram[p] # "hole" => p \in Covered(map)

(***************************************************************************)
(* The pages of the descriptors add up to the pages that they cover.  The  *)
(* sum is a recursive function: the number of pages covered satisfies its  *)
(* equation, so there is one, and by a least counterexample only one.      *)
(***************************************************************************)
Pick(s) == CHOOSE x \in s : TRUE
Summed(f, S) == f = [s \in SUBSET S |-> IF s = {} THEN 0 ELSE Pick(s).pages + f[s \ {Pick(s)}]]

LEMMA PageSumIs ==
    ASSUME NEW S
    PROVE  PageSum(S) = (CHOOSE f : Summed(f, S))[S]
  BY Zenon DEF PageSum, MapThenSumSet, MapThenFoldSet, Summed, Pick

LEMMA DescPages ==
    ASSUME NEW ram, NEW d, IsDesc(d, ram)
    PROVE  /\ d.pages \in Nat /\ d.start \in PagesOf(d)
           /\ IsFiniteSet(PagesOf(d)) /\ Cardinality(PagesOf(d)) = d.pages
  <1>1. PICK s \in Nat, n \in Nat \ {0} : s = d.start /\ n = d.pages /\ PagesOf(d) = s .. s + n - 1
    BY DEF IsDesc, PagesOf
  <1>2. IsFiniteSet(s .. s + n - 1) /\ Cardinality(s .. s + n - 1) = n
    BY FS_Interval
  <1> QED BY <1>1, <1>2

\* The descriptors of a map begin at different pages: there are finitely many.
LEMMA MapIsFinite ==
    ASSUME NEW ram, NEW S, \A d \in S : IsDesc(d, ram), Apart(S)
    PROVE  IsFiniteSet(S)
  <1> DEFINE f == [d \in S |-> d.start]
  <1>1. \A d \in S : d.start \in PagesOf(d) /\ d.start \in Pages
    BY DescPages DEF IsDesc
  <1>2. f \in [S -> Pages]
    BY <1>1
  <1>3. \A d, e \in S : f[d] = f[e] => d = e
    BY <1>1 DEF Apart
  <1> HIDE DEF f
  <1>4. f \in Injection(S, Pages)
    BY <1>2, <1>3 DEF Injection, IsInjective
  <1> QED BY <1>4, PagesAre, FS_Injection

LEMMA CoveredFinite ==
    ASSUME NEW ram, NEW S, \A d \in S : IsDesc(d, ram)
    PROVE  Covered(S) \subseteq Pages /\ IsFiniteSet(Covered(S)) /\ Cardinality(Covered(S)) \in Nat
  <1>1. Covered(S) \subseteq Pages
    BY DEF Covered, IsDesc
  <1> QED BY <1>1, PagesAre, FS_Subset, FS_CardinalityType

LEMMA CoveredStep ==
    ASSUME NEW ram, NEW S, \A d \in S : IsDesc(d, ram), Apart(S), NEW x \in S
    PROVE  Cardinality(Covered(S)) = x.pages + Cardinality(Covered(S \ {x}))
  <1>1. Covered(S) = PagesOf(x) \cup Covered(S \ {x})
    BY DEF Covered
  <1>2. PagesOf(x) \cap Covered(S \ {x}) = {}
    BY DEF Covered, Apart
  <1>3. \A d \in S \ {x} : IsDesc(d, ram)
    OBVIOUS
  <1>4. IsFiniteSet(Covered(S \ {x})) /\ Cardinality(Covered(S \ {x})) \in Nat
    BY <1>3, CoveredFinite
  <1>5. IsFiniteSet(PagesOf(x)) /\ Cardinality(PagesOf(x)) = x.pages /\ x.pages \in Nat
    BY DescPages
  <1>6. Cardinality(PagesOf(x) \cap Covered(S \ {x})) = 0
    BY <1>2, FS_EmptySet
  <1>7. Cardinality(PagesOf(x) \cup Covered(S \ {x}))
          = Cardinality(PagesOf(x)) + Cardinality(Covered(S \ {x}))
            - Cardinality(PagesOf(x) \cap Covered(S \ {x}))
    BY <1>4, <1>5, FS_Union
  <1> QED BY <1>1, <1>4, <1>5, <1>6, <1>7

LEMMA PageSumCovers ==
    ASSUME NEW ram, NEW S, \A d \in S : IsDesc(d, ram), Apart(S)
    PROVE  PageSum(S) = Cardinality(Covered(S))
  <1> DEFINE g == [s \in SUBSET S |-> Cardinality(Covered(s))]
  <1>1. ASSUME NEW s \in SUBSET S
        PROVE  /\ \A d \in s : IsDesc(d, ram)
               /\ Apart(s)
               /\ s # {} => Pick(s) \in s
               /\ s = {} => Cardinality(Covered(s)) = 0
    <2>1. s # {} => Pick(s) \in s
      BY Zenon DEF Pick
    <2>2. s = {} => Covered(s) = {}
      BY DEF Covered
    <2> QED BY <2>1, <2>2, FS_EmptySet DEF Apart
  <1>2. ASSUME NEW s \in SUBSET S
        PROVE  g[s] = IF s = {} THEN 0 ELSE Pick(s).pages + g[s \ {Pick(s)}]
    <2>1. CASE s = {}
      BY <1>1, <2>1
    <2>2. CASE s # {}
      <3>1. PICK x \in s : x = Pick(s)
        BY <1>1, <2>2
      <3>2. s \ {x} \in SUBSET S
        OBVIOUS
      <3>3. Cardinality(Covered(s)) = x.pages + Cardinality(Covered(s \ {x}))
        BY <1>1, CoveredStep
      <3> QED BY <2>2, <3>1, <3>2, <3>3
    <2> QED BY <2>1, <2>2
  <1>3. Summed(g, S)
    <2>1. g = [s \in SUBSET S |-> g[s]]
      OBVIOUS
    <2> HIDE DEF g
    <2> QED BY <1>2, <2>1 DEF Summed
  <1>4. PICK f : f = (CHOOSE h : Summed(h, S)) /\ Summed(f, S)
    <2> HIDE DEF g
    <2>1. Summed(CHOOSE h : Summed(h, S), S)
      BY <1>3, Zenon
    <2> QED BY <2>1
  <1> HIDE DEF g
  <1>5. ASSUME NEW s \in SUBSET S
        PROVE  f[s] = IF s = {} THEN 0 ELSE Pick(s).pages + f[s \ {Pick(s)}]
    BY <1>4 DEF Summed
  <1> DEFINE Wrong == {n \in Nat : \E s \in SUBSET S : Cardinality(s) = n /\ f[s] # g[s]}
  <1>6. Wrong = {}
    <2>1. SUFFICES ASSUME Wrong # {} PROVE FALSE
      OBVIOUS
    <2>2. PICK n \in Wrong : \A k \in Wrong : n <= k
      <3>1. Wrong \subseteq Nat
        OBVIOUS
      <3> HIDE DEF Wrong
      <3> QED BY <2>1, <3>1, LeastOf
    <2>3. PICK s \in SUBSET S : Cardinality(s) = n /\ f[s] # g[s]
      BY <2>2
    <2>4. s # {}
      BY <1>2, <1>5, <2>3
    <2>5. PICK x \in s : x = Pick(s)
      BY <1>1, <2>4
    <2>6. PICK r \in SUBSET S : r = s \ {x}
      OBVIOUS
    <2>7. f[s] = x.pages + f[r] /\ g[s] = x.pages + g[r]
      BY <1>2, <1>5, <2>4, <2>5, <2>6
    <2>8. f[r] # g[r]
      BY <2>3, <2>7
    <2>9. IsFiniteSet(s) /\ n \in Nat
      BY <1>1, <2>3, MapIsFinite, FS_CardinalityType
    <2>10. Cardinality(r) = n - 1 /\ Cardinality(r) \in Nat
      BY <2>3, <2>5, <2>6, <2>9, FS_RemoveElement, FS_CardinalityType
    <2>11. n - 1 \in Wrong
      BY <2>8, <2>10
    <2> QED BY <2>2, <2>9, <2>11
  <1>7. f[S] = g[S]
    <2>1. IsFiniteSet(S) /\ Cardinality(S) \in Nat
      BY MapIsFinite, FS_CardinalityType
    <2> QED BY <1>6, <2>1
  <1>8. g[S] = Cardinality(Covered(S))
    BY DEF g
  <1> QED BY <1>4, <1>7, <1>8, PageSumIs

(***************************************************************************)
(* CoreGetMemoryMap returns a map of the memory.                           *)
(***************************************************************************)
Memories == [Pages -> {"free", "used", "hole"}]

\* Pages p to p + n - 1 are of one type.
Runs(ram, p, n) == p + n - 1 \in Pages /\ \A q \in p .. p + n - 1 : ram[q] = ram[p]
RunLengths(ram, p) == {n \in 1 .. Cardinality(Pages) : Runs(ram, p, n)}
RunStarts(ram) == {p \in Pages : ram[p] # "hole" /\ (p = 0 \/ ram[p - 1] # ram[p])}

LEMMA DescriptorsAre ==
    ASSUME NEW ram
    PROVE  Descriptors(ram) =
             {Desc(p, Max(RunLengths(ram, p)), ram[p]) : p \in RunStarts(ram)}
  BY DEF Descriptors, RunLengths, RunStarts, Runs

LEMMA RunLengthIs ==
    ASSUME NEW ram, NEW p \in Pages
    PROVE  /\ Max(RunLengths(ram, p)) \in Nat \ {0} /\ Runs(ram, p, Max(RunLengths(ram, p)))
           /\ \A n \in Nat : n > 0 /\ Runs(ram, p, n) => n <= Max(RunLengths(ram, p))
  <1>1. PICK k \in Nat : k = Cardinality(Pages) /\ Pages = 0 .. k - 1
    BY PagesAre
  <1>2. p \in Nat /\ p < k
    <2>1. p \in 0 .. k - 1
      BY <1>1, Zenon
    <2> QED BY <2>1
  <1>3. 1 \in RunLengths(ram, p)
    BY <1>1, <1>2 DEF RunLengths, Runs
  <1>4. PICK T : /\ T = RunLengths(ram, p) /\ T = {n \in 1 .. k : Runs(ram, p, n)}
                 /\ T \subseteq Nat /\ T # {} /\ \A y \in T : y <= k
    <2>1. RunLengths(ram, p) = {n \in 1 .. k : Runs(ram, p, n)}
      BY <1>1, Zenon DEF RunLengths
    <2> QED BY <1>3, <2>1
  <1>5. Max(T) \in T /\ \A y \in T : y <= Max(T)
    BY <1>4, GreatestOf
  <1>6. ASSUME NEW n \in Nat, n > 0, Runs(ram, p, n)
        PROVE  n \in T
    <2>1. p + n - 1 \in 0 .. k - 1
      BY <1>1, <1>6, Zenon DEF Runs
    <2>2. n \in 1 .. k
      BY <1>2, <1>6, <2>1
    <2> QED BY <1>4, <1>6, <2>2
  <1>7. Max(T) \in Nat \ {0} /\ Runs(ram, p, Max(T))
    BY <1>4, <1>5
  <1> QED BY <1>4, <1>5, <1>6, <1>7

\* Every page lies in a run that begins somewhere.
LEMMA RunFrom ==
    ASSUME NEW ram, NEW p \in Pages, ram[p] # "hole"
    PROVE  \E s \in RunStarts(ram) : s <= p /\ Runs(ram, s, p - s + 1)
  <1> DEFINE T == {s \in 0 .. p : \A q \in s .. p : ram[q] = ram[p]}
  <1>1. p \in Nat
    BY PagesAre
  <1>2. p \in T
    BY <1>1
  <1>3. PICK s \in T : \A y \in T : s <= y
    <2>1. T \subseteq Nat /\ T # {}
      BY <1>1, <1>2
    <2> HIDE DEF T
    <2> QED BY <2>1, LeastOf
  <1>4. s \in Pages /\ s \in Nat /\ s <= p /\ ram[s] = ram[p]
    BY <1>1, <1>3, PagesAre
  <1>5. s = 0 \/ ram[s - 1] # ram[s]
    <2>1. SUFFICES ASSUME s # 0, ram[s - 1] = ram[s] PROVE FALSE
      OBVIOUS
    <2>2. s - 1 \in T
      <3>1. s - 1 \in 0 .. p
        BY <1>1, <1>4, <2>1
      <3>2. \A q \in s - 1 .. p : q = s - 1 \/ q \in s .. p
        BY <1>1, <1>4, <2>1
      <3> QED BY <1>3, <1>4, <2>1, <3>1, <3>2
    <2>3. s <= s - 1
      BY <1>3, <2>2
    <2> QED BY <1>4, <2>3
  <1>6. Runs(ram, s, p - s + 1)
    <2>1. s + (p - s + 1) - 1 = p
      BY <1>1, <1>4
    <2> QED BY <1>3, <1>4, <2>1 DEF Runs
  <1> QED BY <1>4, <1>5, <1>6 DEF RunStarts

LEMMA DescIs ==
    ASSUME NEW s, NEW n, NEW y
    PROVE  \E d : /\ d = Desc(s, n, y) /\ d = Desc(d.start, d.pages, d.type)
                  /\ d.start = s /\ d.pages = n /\ d.type = y
  <1>1. Desc(s, n, y).start = s /\ Desc(s, n, y).pages = n /\ Desc(s, n, y).type = y
    BY DEF Desc
  <1> QED BY <1>1

LEMMA DescriptorsMap ==
    ASSUME NEW ram \in Memories
    PROVE  IsMap(Descriptors(ram), ram)
  <1> DEFINE D(p) == Desc(p, Max(RunLengths(ram, p)), ram[p])
  <1>1. ASSUME NEW p \in RunStarts(ram)
        PROVE  /\ IsDesc(D(p), ram) /\ D(p).start = p /\ p \in Nat
               /\ PagesOf(D(p)) = p .. p + Max(RunLengths(ram, p)) - 1
    <2>1. p \in Pages /\ p \in Nat /\ ram[p] # "hole"
      BY PagesAre DEF RunStarts
    <2>2. PICK n \in Nat \ {0} : n = Max(RunLengths(ram, p)) /\ Runs(ram, p, n)
      BY <2>1, RunLengthIs
    <2>3. PICK d : /\ d = Desc(p, n, ram[p]) /\ d = Desc(d.start, d.pages, d.type)
                   /\ d.start = p /\ d.pages = n /\ d.type = ram[p]
      BY DescIs
    <2>4. PagesOf(d) = p .. p + n - 1
      BY <2>3 DEF PagesOf
    <2>5. p .. p + n - 1 \subseteq Pages
      <3>1. p + n - 1 \in Pages
        BY <2>2 DEF Runs
      <3>2. \A q \in p .. p + n - 1 : q \in 0 .. p + n - 1
        BY <2>1, <2>2
      <3> QED BY <3>1, <3>2, PagesAre
    <2>6. \A q \in PagesOf(d) : ram[q] = d.type
      BY <2>2, <2>3, <2>4 DEF Runs
    <2>7. IsDesc(d, ram)
      BY <2>1, <2>2, <2>3, <2>4, <2>5, <2>6 DEF IsDesc
    <2> QED BY <2>1, <2>2, <2>3, <2>4, <2>7
  <1>2. Descriptors(ram) = {D(p) : p \in RunStarts(ram)}
    BY DescriptorsAre
  <1> HIDE DEF D
  <1>3. \A d \in Descriptors(ram) : IsDesc(d, ram)
    BY <1>1, <1>2
  <1>4. ASSUME NEW p \in RunStarts(ram), NEW r \in RunStarts(ram), p < r
        PROVE  PagesOf(D(p)) \cap PagesOf(D(r)) = {}
    <2>1. SUFFICES ASSUME NEW q, q \in PagesOf(D(p)), q \in PagesOf(D(r)) PROVE FALSE
      OBVIOUS
    <2>2. PICK n \in Nat \ {0} : n = Max(RunLengths(ram, p)) /\ Runs(ram, p, n)
      BY RunLengthIs DEF RunStarts
    <2>3. PICK m \in Nat \ {0} : m = Max(RunLengths(ram, r))
      BY RunLengthIs DEF RunStarts
    <2>4. q \in p .. p + n - 1 /\ q \in r .. r + m - 1 /\ p \in Nat /\ r \in Nat
      BY <1>1, <2>1, <2>2, <2>3
    <2>5. r \in p .. p + n - 1 /\ r - 1 \in p .. p + n - 1
      BY <1>4, <2>2, <2>3, <2>4
    <2>6. ram[r] = ram[p] /\ ram[r - 1] = ram[p]
      BY <2>2, <2>5 DEF Runs
    <2>7. r # 0
      BY <1>4, <2>4
    <2> QED BY <2>6, <2>7 DEF RunStarts
  <1>5. Apart(Descriptors(ram))
    <2> SUFFICES ASSUME NEW p \in RunStarts(ram), NEW r \in RunStarts(ram), D(p) # D(r)
                 PROVE  PagesOf(D(p)) \cap PagesOf(D(r)) = {}
      BY <1>2 DEF Apart
    <2>1. p # r /\ p \in Nat /\ r \in Nat
      BY <1>1
    <2>2. p < r \/ r < p
      BY <2>1
    <2> QED BY <1>4, <2>2
  <1>6. ASSUME NEW p \in Pages, ram[p] # "hole" PROVE p \in Covered(Descriptors(ram))
    <2>1. PICK s \in RunStarts(ram) : s <= p /\ Runs(ram, s, p - s + 1)
      BY <1>6, RunFrom
    <2>2. p \in Nat /\ s \in Nat /\ s \in Pages
      BY PagesAre DEF RunStarts
    <2>3. PICK n \in Nat : n = Max(RunLengths(ram, s)) /\ p - s + 1 <= n
      <3>1. p - s + 1 \in Nat /\ p - s + 1 > 0
        BY <2>1, <2>2
      <3> QED BY <2>1, <2>2, <3>1, RunLengthIs
    <2>4. p \in PagesOf(D(s))
      BY <1>1, <2>1, <2>2, <2>3
    <2> QED BY <1>2, <2>4 DEF Covered
  <1> QED BY <1>3, <1>5, <1>6 DEF IsMap

\* What a map says of a page is what it is, and its pages are all there are.
LEMMA MapSays ==
    ASSUME NEW map, NEW ram, IsMap(map, ram)
    PROVE  /\ \A p \in Pages : TypeIn(map, p) = ram[p]
           /\ PageSum(map) = Cardinality({p \in Pages : ram[p] # "hole"})
  <1>1. \A d \in map : IsDesc(d, ram)
    BY DEF IsMap
  <1>2. ASSUME NEW p \in Pages PROVE TypeIn(map, p) = ram[p]
    <2>1. CASE \E d \in map : p \in PagesOf(d)
      <3>1. PICK e : e = (CHOOSE d \in map : p \in PagesOf(d)) /\ e \in map /\ p \in PagesOf(e)
        BY <2>1, Zenon
      <3>2. TypeIn(map, p) = e.type
        BY <2>1, <3>1 DEF TypeIn
      <3> QED BY <1>1, <3>1, <3>2 DEF IsDesc
    <2>2. CASE ~\E d \in map : p \in PagesOf(d)
      BY <2>2 DEF TypeIn, IsMap, Covered
    <2> QED BY <2>1, <2>2
  <1>3. Covered(map) = {p \in Pages : ram[p] # "hole"}
    BY <1>1 DEF IsMap, Covered, IsDesc
  <1>4. PageSum(map) = Cardinality(Covered(map))
    BY <1>1, PageSumCovers DEF IsMap
  <1> QED BY <1>2, <1>3, <1>4

(***************************************************************************)
(* The wrapper.  No descriptor lies across the hole between the low window *)
(* and guest RAM, so that each is hidden or shown as a whole once the one  *)
(* across the end of the extent that is kept is split.                     *)
(***************************************************************************)
Gap(ram) == \A p \in Pages : p \in HideBase .. PhysBase - 1 => ram[p] = "hole"

LEMMA BesideGap ==
    ASSUME NEW ram, Gap(ram), NEW d, IsDesc(d, ram)
    PROVE  /\ d.start < HideBase => \A p \in PagesOf(d) : p < HideBase
           /\ d.start >= HideBase => \A p \in PagesOf(d) : p >= PhysBase /\ p >= HideBase
  <1>1. PICK s \in Nat, n \in Nat \ {0} : s = d.start /\ n = d.pages /\ PagesOf(d) = s .. s + n - 1
    BY DEF IsDesc, PagesOf
  <1>2. \A p \in s .. s + n - 1 : p \notin HideBase .. PhysBase - 1
    BY <1>1 DEF IsDesc, Gap
  <1>3. HideBase \in Nat /\ PhysBase \in Nat /\ HideBase < PhysBase
    BY MapAssumption
  <1>4. ASSUME s < HideBase, NEW p \in s .. s + n - 1 PROVE p < HideBase
    <2>1. p >= HideBase => HideBase \in s .. s + n - 1
      BY <1>1, <1>3, <1>4
    <2>2. HideBase \in HideBase .. PhysBase - 1
      BY <1>3
    <2> QED BY <1>2, <1>3, <1>4, <2>1, <2>2
  <1>5. ASSUME s >= HideBase PROVE s >= PhysBase
    <2>1. s \in s .. s + n - 1
      BY <1>1
    <2> QED BY <1>1, <1>2, <1>3, <1>5, <2>1
  <1> QED BY <1>1, <1>3, <1>4, <1>5

\* The guard counts the free pages of the low window.
LEMMA LowSum ==
    ASSUME NEW map, NEW ram, IsMap(map, ram), Gap(ram)
    PROVE  PageSum({d \in map : d.start < HideBase /\ d.type = "free"})
             = Cardinality({p \in Pages : p < HideBase /\ ram[p] = "free"})
  <1> DEFINE Low == {d \in map : d.start < HideBase /\ d.type = "free"}
  <1>1. (\A d \in Low : IsDesc(d, ram)) /\ Apart(Low)
    BY DEF IsMap, Apart
  <1>2. Covered(Low) \subseteq {p \in Pages : p < HideBase /\ ram[p] = "free"}
    <2> SUFFICES ASSUME NEW d \in Low, NEW p \in PagesOf(d)
                 PROVE  p \in Pages /\ p < HideBase /\ ram[p] = "free"
      BY DEF Covered
    <2>1. IsDesc(d, ram) /\ d.start < HideBase /\ d.type = "free"
      BY <1>1
    <2> QED BY <2>1, BesideGap DEF IsDesc
  <1>3. ASSUME NEW p \in Pages, p < HideBase, ram[p] = "free" PROVE p \in Covered(Low)
    <2>1. PICK d \in map : p \in PagesOf(d) /\ IsDesc(d, ram)
      BY <1>3 DEF IsMap, Covered
    <2>2. d.type = "free"
      BY <1>3, <2>1 DEF IsDesc
    <2>3. d.start < HideBase
      <3>1. p \in Nat /\ HideBase \in Nat /\ d.start \in Nat
        BY <2>1, PagesAre, MapAssumption DEF IsDesc
      <3>2. d.start >= HideBase => p >= HideBase
        BY <2>1, BesideGap
      <3> QED BY <1>3, <3>1, <3>2
    <2> QED BY <2>1, <2>2, <2>3 DEF Covered
  <1>4. Covered(Low) = {p \in Pages : p < HideBase /\ ram[p] = "free"}
    BY <1>2, <1>3
  <1> HIDE DEF Low
  <1>5. PageSum(Low) = Cardinality(Covered(Low))
    BY <1>1, PageSumCovers
  <1> QED BY <1>4, <1>5 DEF Low

\* The two parts of a descriptor across the end of the extent.
Inside(d) == Desc(d.start, KeepEnd - d.start, d.type)
Beyond(d) == Desc(KeepEnd, d.start + d.pages - KeepEnd, d.type)

LEMMA SplitIs ==
    ASSUME NEW map, NEW x
    PROVE  x \in Split(map)
             <=> \E d \in map : IF Straddles(d) THEN x = Inside(d) \/ x = Beyond(d) ELSE x = d
  BY DEF Split, Inside, Beyond

LEMMA PiecesAre ==
    ASSUME NEW ram, NEW d, IsDesc(d, ram), Straddles(d), KeepEnd \in Nat, KeepStart \in Nat
    PROVE  /\ IsDesc(Inside(d), ram) /\ ~Straddles(Inside(d))
           /\ IsDesc(Beyond(d), ram) /\ ~Straddles(Beyond(d))
           /\ PagesOf(Inside(d)) \cup PagesOf(Beyond(d)) = PagesOf(d)
           /\ PagesOf(Inside(d)) \cap PagesOf(Beyond(d)) = {}
  <1>1. PICK s \in Nat, n \in Nat \ {0}, k \in Nat, y \in {d.type} :
           /\ s = d.start /\ n = d.pages /\ k = KeepEnd /\ PagesOf(d) = s .. s + n - 1
           /\ s < k /\ s + n > k /\ y # "hole"
    BY DEF IsDesc, PagesOf, Straddles
  <1>2. PICK b : /\ b = Inside(d) /\ b = Desc(b.start, b.pages, b.type)
                 /\ b.start = s /\ b.pages = k - s /\ b.type = y
    BY <1>1, DescIs DEF Inside
  <1>3. PICK a : /\ a = Beyond(d) /\ a = Desc(a.start, a.pages, a.type)
                 /\ a.start = k /\ a.pages = s + n - k /\ a.type = y
    BY <1>1, DescIs DEF Beyond
  <1>4. PagesOf(b) = s .. k - 1 /\ PagesOf(a) = k .. s + n - 1
    <2>1. s + (k - s) - 1 = k - 1 /\ k + (s + n - k) - 1 = s + n - 1
      OBVIOUS
    <2>2. PagesOf(b) = s .. s + (k - s) - 1 /\ PagesOf(a) = k .. k + (s + n - k) - 1
      BY <1>2, <1>3, Zenon DEF PagesOf
    <2> QED BY <2>1, <2>2
  <1>5. PagesOf(b) \cup PagesOf(a) = PagesOf(d) /\ PagesOf(b) \cap PagesOf(a) = {}
    BY <1>1, <1>4
  <1>6. \A p \in PagesOf(d) : p \in Pages /\ ram[p] = y
    BY <1>1 DEF IsDesc
  <1>7. IsDesc(b, ram)
    <2>1. k - s \in Nat \ {0}
      BY <1>1
    <2> QED BY <1>1, <1>2, <1>5, <1>6, <2>1, SMTT(30) DEF IsDesc
  <1>8. IsDesc(a, ram)
    <2>1. s + n > k
      BY <1>1
    <2>2. s + n - k \in Nat \ {0}
      BY <2>1
    <2> QED BY <1>1, <1>3, <1>5, <1>6, <2>2, SMTT(30) DEF IsDesc
  <1>9. ~Straddles(b)
    BY <1>1, <1>2 DEF Straddles
  <1>10. ~Straddles(a)
    BY <1>1, <1>3 DEF Straddles
  <1> QED BY <1>2, <1>3, <1>5, <1>7, <1>8, <1>9, <1>10

LEMMA SplitMap ==
    ASSUME NEW map, NEW ram, IsMap(map, ram), KeepEnd \in Nat, KeepStart \in Nat
    PROVE  IsMap(Split(map), ram) /\ \A d \in Split(map) : ~Straddles(d)
  <1>1. \A d \in map : IsDesc(d, ram)
    BY DEF IsMap
  <1>2. ASSUME NEW x \in Split(map)
        PROVE  \E d \in map :
                  /\ IF Straddles(d) THEN x = Inside(d) \/ x = Beyond(d) ELSE x = d
                  /\ IsDesc(x, ram) /\ ~Straddles(x) /\ PagesOf(x) \subseteq PagesOf(d)
    <2>1. PICK d \in map : IF Straddles(d) THEN x = Inside(d) \/ x = Beyond(d) ELSE x = d
      BY SplitIs
    <2>2. CASE Straddles(d)
      <3>1. /\ IsDesc(Inside(d), ram) /\ ~Straddles(Inside(d))
            /\ IsDesc(Beyond(d), ram) /\ ~Straddles(Beyond(d))
            /\ PagesOf(Inside(d)) \cup PagesOf(Beyond(d)) = PagesOf(d)
        BY <1>1, <2>2, PiecesAre
      <3>2. PagesOf(Inside(d)) \subseteq PagesOf(d) /\ PagesOf(Beyond(d)) \subseteq PagesOf(d)
        BY <3>1, Zenon
      <3> QED BY <2>1, <2>2, <3>1, <3>2
    <2>3. CASE ~Straddles(d)
      BY <1>1, <2>1, <2>3
    <2> QED BY <2>2, <2>3
  <1>3. ASSUME NEW x \in Split(map), NEW y \in Split(map), x # y
        PROVE  PagesOf(x) \cap PagesOf(y) = {}
    <2>1. PICK d \in map : /\ IF Straddles(d) THEN x = Inside(d) \/ x = Beyond(d) ELSE x = d
                           /\ PagesOf(x) \subseteq PagesOf(d)
      BY <1>2
    <2>2. PICK e \in map : /\ IF Straddles(e) THEN y = Inside(e) \/ y = Beyond(e) ELSE y = e
                           /\ PagesOf(y) \subseteq PagesOf(e)
      BY <1>2
    <2>3. CASE d # e
      <3>1. PagesOf(d) \cap PagesOf(e) = {}
        BY <2>3 DEF IsMap, Apart
      <3> QED BY <2>1, <2>2, <3>1
    <2>4. CASE d = e
      <3>1. Straddles(d)
        BY <1>3, <2>1, <2>2, <2>4
      <3>2. PagesOf(Inside(d)) \cap PagesOf(Beyond(d)) = {}
        BY <1>1, <3>1, PiecesAre
      <3>3. (x = Inside(d) /\ y = Beyond(d)) \/ (x = Beyond(d) /\ y = Inside(d))
        BY <1>3, <2>1, <2>2, <2>4, <3>1
      <3> QED BY <3>2, <3>3
    <2> QED BY <2>3, <2>4
  <1>4. ASSUME NEW p \in Pages, ram[p] # "hole" PROVE p \in Covered(Split(map))
    <2>1. PICK d \in map : p \in PagesOf(d)
      BY <1>4 DEF IsMap, Covered
    <2>2. \E x \in Split(map) : p \in PagesOf(x)
      <3>1. CASE Straddles(d)
        <4>1. p \in PagesOf(Inside(d)) \/ p \in PagesOf(Beyond(d))
          BY <1>1, <2>1, <3>1, PiecesAre
        <4>2. Inside(d) \in Split(map) /\ Beyond(d) \in Split(map)
          BY <3>1, SplitIs
        <4> QED BY <4>1, <4>2
      <3>2. CASE ~Straddles(d)
        BY <2>1, <3>2, SplitIs
      <3> QED BY <3>1, <3>2
    <2> QED BY <2>2 DEF Covered
  <1>5. Apart(Split(map))
    BY <1>3 DEF Apart
  <1> QED BY <1>2, <1>4, <1>5 DEF IsMap

\* The memory as the wrapper shows it.
Kept(p) == p \in KeepStart .. KeepEnd - 1
Shown(ram) == [p \in Pages |-> IF p >= HideBase /\ ram[p] = "free" /\ ~Kept(p)
                               THEN "reserved" ELSE ram[p]]

KeepIs == keep = <<0, 0>> \/ keep = <<PhysBase, PhysBase + KeepPages>>

LEMMA KeepNumbers ==
    ASSUME KeepIs
    PROVE  /\ KeepStart \in Nat /\ KeepEnd \in Nat
           /\ KeepEnd > KeepStart => KeepStart = PhysBase
  BY MapAssumption DEF KeepIs, KeepStart, KeepEnd

Hides(d) == Hideable(d) /\ ~(Keeps /\ WhollyKept(d))
Veiled(d) == IF Hides(d) THEN [d EXCEPT !.type = "reserved"] ELSE d

LEMMA VeiledIs ==
    ASSUME NEW ram, NEW d, IsDesc(d, ram)
    PROVE  /\ Veiled(d) = Desc(Veiled(d).start, Veiled(d).pages, Veiled(d).type)
           /\ Veiled(d).start = d.start /\ Veiled(d).pages = d.pages
           /\ PagesOf(Veiled(d)) = PagesOf(d)
           /\ Veiled(d).type = IF Hides(d) THEN "reserved" ELSE d.type
  <1>1. PICK s, n, y : d = Desc(s, n, y) /\ d.start = s /\ d.pages = n /\ d.type = y
    BY DEF IsDesc
  <1>2. PICK z : z = IF Hides(d) THEN "reserved" ELSE y
    OBVIOUS
  <1>3. Veiled(d) = Desc(s, n, z)
    BY <1>1, <1>2 DEF Veiled, Desc
  <1>4. Desc(s, n, z).start = s /\ Desc(s, n, z).pages = n /\ Desc(s, n, z).type = z
    BY DEF Desc
  <1> QED BY <1>1, <1>2, <1>3, <1>4 DEF PagesOf

\* A descriptor is hidden when all its pages are to be, and shown when none is.
LEMMA HidesWhole ==
    ASSUME NEW ram \in Memories, Gap(ram), KeepIs, NEW d, IsDesc(d, ram),
           Keeps => ~Straddles(d), NEW p \in PagesOf(d)
    PROVE  Shown(ram)[p] = IF Hides(d) THEN "reserved" ELSE d.type
  <1>1. PICK s \in Nat, n \in Nat \ {0} :
           /\ s = d.start /\ n = d.pages /\ p \in s .. s + n - 1 /\ p \in Pages
           /\ ram[p] = d.type
    BY DEF IsDesc, PagesOf
  <1>2. PICK k \in Nat, l \in Nat :
           k = KeepStart /\ l = KeepEnd /\ (l > k => k = PhysBase) /\ (Keeps <=> l > k)
    BY KeepNumbers DEF Keeps
  <1>3. /\ HideBase \in Nat /\ PhysBase \in Nat
        /\ s < HideBase => p < HideBase
        /\ s >= HideBase => p >= HideBase /\ s >= PhysBase
    <2>1. s \in PagesOf(d)
      BY <1>1, DescPages
    <2> QED BY <1>1, <2>1, BesideGap, MapAssumption
  <1>4. Shown(ram)[p] = IF p >= HideBase /\ ram[p] = "free" /\ ~(p \in k .. l - 1)
                        THEN "reserved" ELSE ram[p]
    BY <1>1, <1>2 DEF Shown, Kept
  <1>5. Hides(d) <=> /\ s >= HideBase /\ d.type = "free"
                     /\ ~(l > k /\ s \in k .. l - 1 /\ n <= l - s)
    BY <1>1, <1>2 DEF Hides, Hideable, WhollyKept
  <1>6. l > k /\ d.type = "free" => ~(s \in k .. l - 1 /\ s + n > l)
    BY <1>1, <1>2 DEF Straddles
  <1>7. CASE d.type # "free"
    BY <1>1, <1>4, <1>5, <1>7
  <1>8. CASE d.type = "free" /\ s < HideBase
    BY <1>1, <1>3, <1>4, <1>5, <1>8
  <1>9. CASE d.type = "free" /\ s >= HideBase
    <2>1. p \in k .. l - 1 <=> (l > k /\ s \in k .. l - 1 /\ n <= l - s)
      BY <1>1, <1>2, <1>3, <1>6, <1>9
    <2> QED BY <1>1, <1>3, <1>4, <1>5, <1>9, <2>1
  <1> QED BY <1>1, <1>3, <1>7, <1>8, <1>9

LEMMA HiddenMap ==
    ASSUME NEW ram \in Memories, Gap(ram), KeepIs, NEW map, IsMap(map, ram),
           Keeps => \A d \in map : ~Straddles(d)
    PROVE  IsMap(Hidden(map), Shown(ram))
  <1>1. Hidden(map) = {Veiled(d) : d \in map}
    BY DEF Hidden, Veiled, Hides
  <1>2. ASSUME NEW d \in map
        PROVE  IsDesc(Veiled(d), Shown(ram)) /\ PagesOf(Veiled(d)) = PagesOf(d)
    <2>1. IsDesc(d, ram)
      BY DEF IsMap
    <2>2. /\ Veiled(d) = Desc(Veiled(d).start, Veiled(d).pages, Veiled(d).type)
          /\ Veiled(d).start = d.start /\ Veiled(d).pages = d.pages
          /\ PagesOf(Veiled(d)) = PagesOf(d)
          /\ Veiled(d).type = IF Hides(d) THEN "reserved" ELSE d.type
      BY <2>1, VeiledIs
    <2>3. \A p \in PagesOf(d) : Shown(ram)[p] = Veiled(d).type
      BY <2>1, <2>2, HidesWhole
    <2>4. Veiled(d).type # "hole"
      BY <2>1, <2>2 DEF IsDesc
    <2> QED BY <2>1, <2>2, <2>3, <2>4 DEF IsDesc
  <1>3. Apart(Hidden(map))
    BY <1>1, <1>2 DEF Apart, IsMap
  <1>4. ASSUME NEW p \in Pages, Shown(ram)[p] # "hole" PROVE p \in Covered(Hidden(map))
    <2>1. ram[p] # "hole"
      BY <1>4 DEF Shown
    <2>2. PICK d \in map : p \in PagesOf(d)
      BY <2>1 DEF IsMap, Covered
    <2> QED BY <1>1, <1>2, <2>2 DEF Covered
  <1> QED BY <1>1, <1>2, <1>3, <1>4 DEF IsMap

\* What a caller gets when it gets a map.
Faithful(map, ram) ==
    IF Cardinality({p \in Pages : p < HideBase /\ ram[p] = "free"}) < MinLowFree
    THEN IsMap(map, ram) ELSE IsMap(map, Shown(ram))

LEMMA WrapperFaithful ==
    ASSUME live \in Memories, Gap(live), KeepIs, NEW cap, NEW answer,
           answer = WrappedGetMemoryMap(cap), answer.ok
    PROVE  Faithful(answer.map, live)
  <1>1. PICK map : map = Descriptors(live) /\ IsMap(map, live)
    BY DescriptorsMap
  <1>2. AbortGuard(map)
          <=> Cardinality({p \in Pages : p < HideBase /\ live[p] = "free"}) < MinLowFree
    BY <1>1, LowSum DEF AbortGuard
  <1>3. KeepStart \in Nat /\ KeepEnd \in Nat
    BY KeepNumbers
  <1>4. /\ Cardinality(map) <= cap
        /\ answer.map = IF AbortGuard(map) THEN map
                        ELSE IF ~Keeps THEN Hidden(map) ELSE Hidden(Split(map))
    BY <1>1 DEF WrappedGetMemoryMap, CoreGetMemoryMap, Success, TooSmall
  <1>5. ~AbortGuard(map) => IsMap(answer.map, Shown(live))
    <2>1. CASE ~Keeps
      BY <1>1, <1>4, <2>1, HiddenMap
    <2>2. CASE Keeps
      <3>1. IsMap(Split(map), live) /\ \A d \in Split(map) : ~Straddles(d)
        BY <1>1, <1>3, SplitMap
      <3>2. IsMap(Hidden(Split(map)), Shown(live))
        BY <3>1, HiddenMap
      <3> QED BY <1>4, <2>2, <3>2
    <2> QED BY <2>1, <2>2
  <1> QED BY <1>1, <1>2, <1>4, <1>5 DEF Faithful

(***************************************************************************)
(* The boot.  The loader asks the wrapper and nothing else, and the extent *)
(* that is kept is settled before it first asks.                           *)
(***************************************************************************)
LoaderShape ==
    loader = [pc |-> loader.pc, cap |-> loader.cap, ask |-> loader.ask, snap |-> loader.snap,
              key |-> loader.key, left |-> loader.left, options |-> loader.options]

WrapperCalled ==
    /\ loader.pc # "ready" /\ hideDone => vector = "wrapper"
    /\ loader.pc # "off" => hideDone

SnapshotInv ==
    /\ live \in Memories /\ Gap(live) /\ KeepIs
    /\ LoaderShape /\ WrapperCalled
    /\ loader.pc \in {"off", "ready"} => loader.snap = {}
    /\ loader.snap # {} => loader.key \in Memories /\ Faithful(loader.snap, loader.key)

\* Hiding a page makes no page of a hole, and no hole of a page.
LEMMA FaithfulIsExact == SnapshotInv => SnapshotExact
  <1> SUFFICES ASSUME SnapshotInv, loader.snap # {} PROVE SnapshotExact
    BY DEF SnapshotExact
  <1>1. PICK map, ram : map = loader.snap /\ ram = loader.key /\ ram \in Memories
                        /\ Faithful(map, ram)
    BY DEF SnapshotInv
  <1>2. PICK few \in BOOLEAN :
           few <=> Cardinality({p \in Pages : p < HideBase /\ ram[p] = "free"}) < MinLowFree
    <2>1. (Cardinality({p \in Pages : p < HideBase /\ ram[p] = "free"}) < MinLowFree) \in BOOLEAN
      OBVIOUS
    <2> QED BY <2>1
  <1>3. /\ \A p \in Pages : TypeIn(map, p) =
              IF ~few /\ p >= HideBase /\ ram[p] = "free" /\ ~Kept(p)
              THEN "reserved" ELSE ram[p]
        /\ PageSum(map) = Cardinality({p \in Pages : ram[p] # "hole"})
    <2>1. CASE few
      <3>1. IsMap(map, ram)
        BY <1>1, <1>2, <2>1 DEF Faithful
      <3> QED BY <2>1, <3>1, MapSays
    <2>2. CASE ~few
      <3>1. IsMap(map, Shown(ram))
        BY <1>1, <1>2, <2>2 DEF Faithful
      <3>2. \A p \in Pages : Shown(ram)[p] = IF p >= HideBase /\ ram[p] = "free" /\ ~Kept(p)
                                             THEN "reserved" ELSE ram[p]
        BY DEF Shown
      <3>3. {p \in Pages : Shown(ram)[p] # "hole"} = {p \in Pages : ram[p] # "hole"}
        BY <3>2
      <3>4. /\ \A p \in Pages : TypeIn(map, p) = Shown(ram)[p]
            /\ PageSum(map) = Cardinality({p \in Pages : Shown(ram)[p] # "hole"})
        BY <3>1, MapSays
      <3> QED BY <2>2, <3>2, <3>3, <3>4
    <2> QED BY <2>1, <2>2
  <1> QED BY <1>1, <1>2, <1>3 DEF SnapshotExact, Kept

LEMMA MemoryIs ==
    ASSUME NEW size, NEW used
    PROVE  Memory(size, used) \in Memories /\ Gap(Memory(size, used))
  BY DEF Memory, Memories, Gap

LEMMA SnapshotInit == MapInit => SnapshotInv
  <1> SUFFICES ASSUME MapInit PROVE SnapshotInv
    OBVIOUS
  <1>1. LoaderShape /\ loader.pc = "off" /\ loader.snap = {}
    BY DEF MapInit, LoaderShape
  <1>2. live \in Memories /\ Gap(live)
    BY MemoryIs DEF MapInit
  <1> QED BY <1>1, <1>2 DEF MapInit, SnapshotInv, WrapperCalled, KeepIs

LEMMA ReadyToBootKeeps ==
    ASSUME SnapshotInv, ReadyToBoot PROVE SnapshotInv'
  <1>1. PICK pc : pc = (IF Already THEN "call" ELSE "ready") /\ loader' = [loader EXCEPT !.pc = pc]
    BY DEF ReadyToBoot
  <1>2. /\ LoaderShape' /\ loader'.pc = pc /\ loader'.snap = loader.snap
        /\ loader'.key = loader.key
    BY <1>1 DEF SnapshotInv, LoaderShape
  <1>3. loader.pc = "off" /\ hideDone' /\ UNCHANGED <<live, vector, orig, keep>>
    BY DEF ReadyToBoot
  <1>4. live' \in Memories /\ Gap(live') /\ KeepIs' /\ loader'.snap = {}
    BY <1>2, <1>3 DEF SnapshotInv, Gap, KeepIs
  <1>5. WrapperCalled'
    BY <1>1, <1>2, <1>3 DEF SnapshotInv, WrapperCalled, Already
  <1> QED BY <1>2, <1>4, <1>5 DEF SnapshotInv

LEMMA InstallKeeps ==
    ASSUME SnapshotInv, Install PROVE SnapshotInv'
  <1>1. loader.pc = "ready" /\ loader' = [loader EXCEPT !.pc = "call"] /\ vector' = "wrapper"
        /\ hideDone' = hideDone
    BY DEF Install
  <1>2. LoaderShape' /\ loader'.pc = "call" /\ loader'.snap = {}
    BY <1>1 DEF SnapshotInv, LoaderShape
  <1>3. PICK size \in MemSizes, used \in UsedSets :
           live' = Memory(size, used) /\ keep' = KeepExtent(size)
    BY DEF Install
  <1>4. live' \in Memories /\ Gap(live') /\ KeepIs'
    BY <1>3, MemoryIs DEF KeepIs, KeepExtent
  <1> QED BY <1>1, <1>2, <1>4 DEF SnapshotInv, WrapperCalled

\* The loader's own steps leave the firmware's state alone.
LEMMA LoaderFrame ==
    ASSUME SnapshotInv, UNCHANGED <<live, hideDone, vector, orig, keep>>,
           LoaderShape', WrapperCalled', loader'.pc \in {"off", "ready"} => loader'.snap = {},
           \/ loader'.snap = {}
           \/ loader'.snap = loader.snap /\ loader'.key = loader.key
           \/ loader'.key = live /\ Faithful(loader'.snap, live)
    PROVE  SnapshotInv'
  <1>1. live' \in Memories /\ Gap(live') /\ KeepIs'
    BY DEF SnapshotInv, Gap, KeepIs
  <1>2. \A map, ram : Faithful(map, ram) => Faithful(map, ram)'
    <2> TAKE map, ram
    <2>1. \A p : Kept(p)' <=> Kept(p)
      BY DEF Kept, KeepStart, KeepEnd
    <2>2. Shown(ram)' = Shown(ram)
      BY <2>1 DEF Shown
    <2> QED BY <2>2 DEF Faithful
  <1>3. loader'.snap # {} => loader'.key \in Memories /\ Faithful(loader'.snap, loader'.key)
    BY DEF SnapshotInv
  <1>4. loader'.snap # {} => loader'.key \in Memories /\ Faithful(loader.snap, loader.key)'
    BY <1>2, <1>3
  <1> QED BY <1>1, <1>4 DEF SnapshotInv

LEMMA CallKeeps ==
    ASSUME SnapshotInv, Call PROVE SnapshotInv'
  <1>1. loader.pc = "call" /\ UNCHANGED <<live, hideDone, vector, orig, keep>>
    BY DEF Call
  <1>2. vector = "wrapper"
    BY <1>1 DEF SnapshotInv, WrapperCalled
  <1>3. PICK answer : answer = WrappedGetMemoryMap(loader.cap)
    OBVIOUS
  <1>4. loader' = IF answer.ok
                  THEN [loader EXCEPT !.pc = "exit", !.snap = answer.map, !.key = live]
                  ELSE [loader EXCEPT !.pc = "grow", !.ask = answer.size]
    BY <1>2, <1>3 DEF Call
  <1>5. /\ LoaderShape' /\ loader'.pc \in {"exit", "grow"}
        /\ IF answer.ok THEN loader'.snap = answer.map /\ loader'.key = live
                        ELSE loader'.snap = loader.snap /\ loader'.key = loader.key
    BY <1>4 DEF SnapshotInv, LoaderShape
  <1>6. answer.ok => Faithful(answer.map, live)
    BY <1>3, WrapperFaithful DEF SnapshotInv
  <1>7. WrapperCalled'
    BY <1>1, <1>2, <1>5 DEF SnapshotInv, WrapperCalled
  <1> QED BY <1>1, <1>5, <1>6, <1>7, LoaderFrame

\* A larger buffer, a key that is stale, and the next boot option.
LEMMA OtherStepKeeps ==
    ASSUME SnapshotInv, Grow \/ ExitBootServices \/ NextOption PROVE SnapshotInv'
  <1>1. loader.pc # "off" /\ loader.pc # "ready" /\ UNCHANGED <<live, hideDone, vector, orig, keep>>
    BY DEF Grow, ExitBootServices, NextOption
  <1>2. /\ LoaderShape' /\ loader'.pc \in {"call", "os", "off"}
        /\ loader'.snap = {} \/ (loader'.snap = loader.snap /\ loader'.key = loader.key)
        /\ loader'.pc = "off" => loader'.snap = {}
    <2>1. CASE Grow
      BY <2>1 DEF Grow, SnapshotInv, LoaderShape
    <2>2. CASE ExitBootServices
      <3>1. \/ loader' = [loader EXCEPT !.pc = "os"]
            \/ loader' = [loader EXCEPT !.pc = "call", !.snap = {}, !.key = <<>>]
        BY <2>2 DEF ExitBootServices
      <3>2. LoaderShape
        BY DEF SnapshotInv
      <3>3. CASE loader' = [loader EXCEPT !.pc = "os"]
        BY <3>2, <3>3 DEF LoaderShape
      <3>4. CASE loader' = [loader EXCEPT !.pc = "call", !.snap = {}, !.key = <<>>]
        BY <3>2, <3>4 DEF LoaderShape
      <3> QED BY <3>1, <3>3, <3>4
    <2>3. CASE NextOption
      <3>1. loader' = [loader EXCEPT !.pc = "off", !.cap = 0, !.ask = 0, !.snap = {},
                                     !.key = <<>>, !.options = @ - 1]
        BY <2>3 DEF NextOption
      <3>2. LoaderShape
        BY DEF SnapshotInv
      <3> QED BY <3>1, <3>2 DEF LoaderShape
    <2> QED BY <2>1, <2>2, <2>3
  <1>3. WrapperCalled'
    BY <1>1, <1>2 DEF SnapshotInv, WrapperCalled
  <1> QED BY <1>1, <1>2, <1>3, LoaderFrame

\* The live map moves on; the map a caller has and its key do not.
LEMMA ChangeKeeps ==
    ASSUME SnapshotInv, Change PROVE SnapshotInv'
  <1>1. /\ loader' = [loader EXCEPT !.left = @ - 1]
        /\ UNCHANGED <<hideDone, vector, orig, keep>>
    BY DEF Change
  <1>2. PICK p \in Pages :
          /\ live[p] # "hole"
          /\ live' = [live EXCEPT ![p] = IF @ = "free" THEN "used" ELSE "free"]
    BY DEF Change
  <1>3. live' \in Memories /\ Gap(live')
    BY <1>2 DEF SnapshotInv, Memories, Gap
  <1>4. /\ LoaderShape' /\ loader'.pc = loader.pc
        /\ loader'.snap = loader.snap /\ loader'.key = loader.key
    BY <1>1 DEF SnapshotInv, LoaderShape
  <1>5. Shown(loader.key)' = Shown(loader.key)
    <2>1. \A q : Kept(q)' <=> Kept(q)
      BY <1>1 DEF Kept, KeepStart, KeepEnd
    <2> QED BY <1>4, <2>1 DEF Shown
  <1>6. Faithful(loader.snap, loader.key) => Faithful(loader.snap, loader.key)'
    BY <1>4, <1>5 DEF Faithful
  <1>7. KeepIs' /\ WrapperCalled'
    BY <1>1, <1>4 DEF SnapshotInv, KeepIs, WrapperCalled
  <1> QED BY <1>3, <1>4, <1>6, <1>7 DEF SnapshotInv

LEMMA SnapshotInvNext == SnapshotInv /\ [Next]_vars => SnapshotInv'
  <1> SUFFICES ASSUME SnapshotInv, [Next]_vars PROVE SnapshotInv'
    OBVIOUS
  <1>1. CASE ReadyToBoot
    BY <1>1, ReadyToBootKeeps
  <1>2. CASE Install
    BY <1>2, InstallKeeps
  <1>3. CASE LoaderStep \/ Change \/ NextOption
    BY <1>3, CallKeeps, OtherStepKeeps, ChangeKeeps DEF LoaderStep
  <1>4. CASE UNCHANGED mapVars
    <2>1. UNCHANGED <<live, hideDone, vector, orig, keep, loader>>
      BY <1>4 DEF mapVars
    <2>2. LoaderShape' /\ WrapperCalled'
      BY <2>1 DEF SnapshotInv, LoaderShape, WrapperCalled
    <2> QED BY <2>1, <2>2, LoaderFrame DEF SnapshotInv
  <1> QED BY <1>1, <1>2, <1>3, <1>4
          DEF Next, vars, Display, World, Time, Prefix, Drivers, Bus, Event, Pstate,
              Controller, HandlerEnds, Loader, Others

\* For every size of guest RAM, whatever the firmware has allocated and however
\* the live map changes between two calls, through any number of boot options:
\* a map that NwoasWrappedGetMemoryMap returns accounts for every page once and
\* hides exactly the free pages outside the low window and the extent kept.
THEOREM SnapshotAlwaysExact == Spec => []SnapshotExact
  <1>1. Init => SnapshotInv
    BY SnapshotInit DEF Init
  <1>2. SnapshotInv /\ [Next]_vars => SnapshotInv'
    BY SnapshotInvNext
  <1>3. SnapshotInv => SnapshotExact
    BY FaithfulIsExact
  <1> QED BY <1>1, <1>2, <1>3, PTL DEF Spec
=============================================================================
