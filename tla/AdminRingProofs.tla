--------------------------- MODULE AdminRingProofs ---------------------------
(***************************************************************************)
(* TLAPS proofs about AdminRing, for every queue depth and command set.    *)
(* With any doorbell values: the type invariant, the exactness of the      *)
(* pending count, the phase discipline of completion memory, agreement     *)
(* with the owner of the I/O queues, silence after a fault.  With a driver *)
(* that follows the NVMe contract: completions are true, and the engine    *)
(* implements AdminQueue.                                                  *)
(***************************************************************************)
EXTENDS AdminRing, AdminStateProofs, SequenceTheorems, TLAPS

(***************************************************************************)
(* Ring arithmetic.                                                        *)
(***************************************************************************)
\* Advance steps to the next slot and wraps at the depth.
LEMMA AdvanceIs ==
    ASSUME NEW d \in Nat, d >= 1, NEW i \in 0..d-1
    PROVE  /\ Advance(i, d) = IF i + 1 = d THEN 0 ELSE i + 1
           /\ Advance(i, d) \in 0..d-1
  BY RingNext DEF Advance

\* Distance counts the slots from one cursor to the other around the ring.
LEMMA DistanceIs ==
    ASSUME NEW d \in Nat, d >= 1, NEW a \in 0..d-1, NEW b \in 0..d-1
    PROVE  /\ Distance(a, b, d) = IF b >= a THEN b - a ELSE b + d - a
           /\ Distance(a, b, d) \in 0..d-1
  BY RingDistance DEF Distance

(***************************************************************************)
(* The type invariant, with the reservation of a completion slot without   *)
(* which pending could leave its range.                                    *)
(***************************************************************************)
RingType == TypeOK /\ SlotReserved

\* The initial state is well typed.
LEMMA InitType == Init => RingType
  <1> SUFFICES ASSUME Init PROVE RingType
    OBVIOUS
  <1>0. FlagType
    BY DEF Init, FlagType
  <1>1. CursorType
    BY DepthAssumption DEF Init, CursorType, Slots
  <1>2. AdminType
    BY AdminInitType DEF Init, AdminType, Owned, AdminStates
  <1>3. HandlerType
    BY CidsAssumption DEF Init, HandlerType, NoWork, Statuses, MaxBudget
  <1>4. MemoryType
    <2>1. ZeroCommand \in AllCommands
      BY CidsAssumption DEF ZeroCommand, AllCommands, Ops
    <2> QED BY <2>1, CidsAssumption, DepthAssumption
        DEF Init, MemoryType, ZeroBody, ZeroStat, Slots, Statuses
  <1>5. DriverType
    BY DepthAssumption DEF Init, DriverType, DriverReset, Slots
  <1>6. SlotReserved
    BY DEF Init, SlotReserved
  <1> QED BY <1>0, <1>1, <1>2, <1>3, <1>4, <1>5, <1>6 DEF RingType, TypeOK

\* A controller reset or a configuration keeps the types.
LEMMA ControlType ==
    ASSUME RingType, NEW full \in BOOLEAN, NEW ns \in Depths, NEW nc \in Depths,
           RingReset(full) \/ Configure(ns, nc)
    PROVE  RingType'
  <1>1. CASE RingReset(full)
    <2> USE <1>1 DEF RingReset, ClearCursors, RingType, TypeOK
    <2>1. FlagType'
      BY DEF FlagType
    <2>2. CursorType'
      BY DepthAssumption DEF CursorType, Slots
    <2>3. AdminType'
      BY AdminResetType DEF AdminType, Owned, AdminStates
    <2>4. HandlerType'
      BY DEF HandlerType
    <2>5. MemoryType'
      BY DEF MemoryType, guestMemory
    <2>6. DriverType'
      BY DepthAssumption DEF DriverType, DriverReset, Slots
    <2>7. SlotReserved'
      BY DEF SlotReserved, Idle
    <2> QED BY <2>1, <2>2, <2>3, <2>4, <2>5, <2>6, <2>7
  <1>2. CASE Configure(ns, nc)
    <2> USE <1>2 DEF Configure, ClearCursors, RingType, TypeOK
    <2>1. FlagType'
      BY DEF FlagType
    <2>2. CursorType'
      BY DepthAssumption DEF CursorType, Slots, Depths
    <2>3. AdminType'
      BY DEF AdminType
    <2>4. HandlerType'
      BY DEF HandlerType
    <2>5. MemoryType'
      <3>1. ZeroCommand \in AllCommands
        BY CidsAssumption DEF ZeroCommand, AllCommands, Ops
      <3> QED BY <3>1, CidsAssumption, DepthAssumption
          DEF MemoryType, ZeroBody, ZeroStat, Slots, Statuses
    <2>6. DriverType'
      BY DepthAssumption DEF DriverType, DriverReset, Slots
    <2>7. SlotReserved'
      BY DEF SlotReserved, Idle
    <2> QED BY <2>1, <2>2, <2>3, <2>4, <2>5, <2>6, <2>7
  <1> QED BY <1>1, <1>2

\* The state fail() leaves the handler in.
LEMMA FailType ==
    ASSUME RingType, Fail, UNCHANGED active
    PROVE  FlagType' /\ HandlerType' /\ SlotReserved'
  <1> USE DEF Fail, RingType, TypeOK
  <1>1. FlagType'
    BY DEF FlagType
  <1>2. HandlerType'
    BY CidsAssumption DEF HandlerType, NoWork, Statuses, MaxBudget
  <1>3. SlotReserved'
    BY DEF SlotReserved
  <1> QED BY <1>1, <1>2, <1>3

\* A doorbell with any value keeps the types.
LEMMA DoorbellType ==
    ASSUME RingType, NEW v \in 0..MaxDepth, TailDoorbell(v) \/ AckDoorbell(v)
    PROVE  RingType'
  <1> USE DEF RingType, TypeOK
  <1>1. CASE TailDoorbell(v)
    <2> USE <1>1
    <2>0. FlagType' /\ HandlerType' /\ SlotReserved'
      <3>1. CASE Fail
        BY <3>1, FailType DEF TailDoorbell
      <3>2. CASE v < sqDepth /\ Serve(MaxBudget) /\ UNCHANGED <<fatal, reported, cur>>
        <4>1. FlagType'
          BY <3>2 DEF TailDoorbell, FlagType
        <4>2. HandlerType'
          BY <3>2 DEF HandlerType, Serve, MaxBudget
        <4>3. SlotReserved'
          BY <3>2 DEF TailDoorbell, SlotReserved, Serve
        <4> QED BY <4>1, <4>2, <4>3
      <3> QED BY <3>1, <3>2 DEF TailDoorbell
    <2>1. CursorType'
      BY DepthAssumption DEF TailDoorbell, CursorType, Slots, Depths
    <2>2. AdminType' /\ MemoryType' /\ DriverType'
      BY DEF TailDoorbell, AdminType, MemoryType, DriverType, guestMemory
    <2> QED BY <2>0, <2>1, <2>2
  <1>2. CASE AckDoorbell(v)
    <2> USE <1>2
    <2>0. FlagType' /\ HandlerType' /\ SlotReserved'
      <3>1. CASE Fail
        BY <3>1, FailType DEF AckDoorbell
      <3>2. CASE /\ reported' = (pending' # 0)
                 /\ UNCHANGED <<fatal, pc, budget, cur>>
        <4>1. FlagType'
          BY <3>2 DEF AckDoorbell, FlagType
        <4>2. HandlerType'
          BY <3>2 DEF HandlerType
        <4>3. SlotReserved'
          BY <3>2 DEF AckDoorbell, SlotReserved, Idle
        <4> QED BY <4>1, <4>2, <4>3
      <3> QED BY <3>1, <3>2 DEF AckDoorbell
    <2>1. CursorType'
      <3>1. CASE UNCHANGED <<cqHead, pending>>
        BY <3>1 DEF AckDoorbell, CursorType
      <3>2. CASE /\ v < cqDepth /\ Distance(cqHead, v, cqDepth) <= pending
                 /\ cqHead' = v /\ pending' = pending - Distance(cqHead, v, cqDepth)
        <4>1. /\ active /\ cqDepth \in Nat /\ cqDepth >= 1 /\ cqDepth <= MaxDepth
              /\ cqHead \in 0..cqDepth-1 /\ v \in 0..cqDepth-1
          BY <3>2, DepthAssumption DEF AckDoorbell, CursorType, Depths, Slots
        <4>2. Distance(cqHead, v, cqDepth) \in 0..cqDepth-1
          BY <4>1, DistanceIs, Zenon
        <4> QED BY <4>1, <4>2, <3>2, DepthAssumption
            DEF AckDoorbell, CursorType, Slots, Depths
      <3> QED BY <3>1, <3>2 DEF AckDoorbell
    <2>2. AdminType' /\ MemoryType' /\ DriverType'
      BY DEF AckDoorbell, AdminType, MemoryType, DriverType, guestMemory
    <2> QED BY <2>0, <2>1, <2>2
  <1> QED BY <1>1, <1>2

\* Starting and ending the service loop keeps the types.
LEMMA LoopType ==
    ASSUME RingType, Poll \/ EndServe \/ FetchFails
    PROVE  RingType'
  <1> USE DEF RingType, TypeOK
  <1>1. CursorType' /\ AdminType' /\ MemoryType' /\ DriverType' /\ UNCHANGED active
    BY DEF Poll, EndServe, FetchFails, ringCursors, guestMemory,
           CursorType, AdminType, MemoryType, DriverType
  <1>2. FlagType' /\ HandlerType' /\ SlotReserved'
    <2>1. CASE Poll
      BY <2>1 DEF Poll, Serve, Idle, FlagType, HandlerType, SlotReserved, MaxBudget
    <2>2. CASE EndServe
      BY <2>2 DEF EndServe, FlagType, HandlerType, SlotReserved, MaxBudget
    <2>3. CASE FetchFails
      BY <2>3, <1>1, FailType DEF FetchFails
    <2> QED BY <2>1, <2>2, <2>3
  <1> QED BY <1>1, <1>2

\* Taking a command keeps the types: the interpreter stays in range, the head
\* wraps, and a free completion slot is reserved.
LEMMA FetchType ==
    ASSUME RingType, NEW setCacheOk \in BOOLEAN, NEW reconcileOk \in BOOLEAN,
           Fetch(setCacheOk, reconcileOk)
    PROVE  RingType'
  <1> USE DEF RingType, TypeOK
  <1> DEFINE c == sqMem[sqHead]
             status == Status(adm, c, setCacheOk)
             cacheAfter == IF "cache" \in Changed(c, status) THEN c.arg ELSE cache
             admAfter == Execute(adm, c, status)
  <1>1. /\ pc = "serve" /\ CanTake /\ adm' = admAfter /\ cache' = cacheAfter
        /\ sqHead' = Advance(sqHead, sqDepth)
        /\ UNCHANGED <<active, sqDepth, cqDepth, sqTail, cqHead, cqTail, pending, phase,
                       guestMemory, drv>>
    BY DEF Fetch
  <1>2. \/ Fail /\ UNCHANGED owner
        \/ /\ owner' = IF Changed(c, status) = {} THEN owner ELSE Owned(admAfter)
           /\ pc' = AfterExecute(c, status)
           /\ budget' = budget - 1
           /\ cur' = IF Deferred(c, status) THEN NoWork
                     ELSE [cid |-> c.cid, status |-> FinalStatus(c, status),
                           result |-> Result(adm, c, status, cacheAfter),
                           data |-> AfterExecute(c, status) = "payload"]
           /\ UNCHANGED <<fatal, reported>>
    BY DEF Fetch
  <1>3. active /\ ~fatal
    BY <1>1 DEF SlotReserved
  <1>4. /\ sqDepth \in Nat /\ sqDepth >= 1 /\ sqDepth <= MaxDepth /\ sqHead \in 0..sqDepth-1
    BY <1>3, DepthAssumption DEF CursorType, Depths, Slots
  <1>5. c \in AllCommands /\ status \in Statuses /\ admAfter \in AdminStates
    <2>1. c \in AllCommands
      BY DEF MemoryType, CursorType
    <2>2. status \in Statuses
      BY StatusType
    <2>3. admAfter \in AdminStates
      BY <2>1, ExecuteType DEF AdminType
    <2> QED BY <2>1, <2>2, <2>3
  <1>6. cacheAfter \in 0..1
    <2>1. CASE "cache" \in Changed(c, status)
      <3>1. c.op = "SetCache" /\ status = Success
        BY <2>1 DEF Changed
      <3>2. c.ok
        BY <3>1, <1>5 DEF Status, Success, InvalidField
      <3> QED BY <2>1, <3>1, <3>2, <1>5 DEF AllCommands
    <2>2. CASE "cache" \notin Changed(c, status)
      BY <2>2 DEF AdminType
    <2> QED BY <2>1, <2>2
  <1>7. CursorType'
    <2>1. Advance(sqHead, sqDepth) \in 0..sqDepth-1
      BY <1>4, AdvanceIs, Zenon
    <2>2. /\ sqHead' = Advance(sqHead, sqDepth)
          /\ UNCHANGED <<active, sqDepth, cqDepth, sqTail, cqHead, cqTail, pending, phase>>
      BY <1>1
    <2>3. sqHead' \in Slots /\ sqHead' < sqDepth
      BY <2>1, <2>2, <1>4, DepthAssumption DEF Slots
    <2> QED BY <2>2, <2>3 DEF CursorType
  <1>8. AdminType'
    <2>1. Owned(admAfter) \in [sqGen : 0..GenModulus-1, cqGen : 0..GenModulus-1]
      BY <1>5 DEF Owned, AdminStates
    <2> QED BY <2>1, <1>1, <1>2, <1>5, <1>6 DEF AdminType
  <1>9. MemoryType' /\ DriverType'
    BY <1>1 DEF MemoryType, DriverType, guestMemory
  <1>10. FlagType' /\ HandlerType' /\ SlotReserved'
    <2>1. CASE Fail
      BY <2>1, <1>1, FailType
    <2>2. CASE /\ pc' = AfterExecute(c, status)
               /\ budget' = budget - 1
               /\ cur' = IF Deferred(c, status) THEN NoWork
                         ELSE [cid |-> c.cid, status |-> FinalStatus(c, status),
                               result |-> Result(adm, c, status, cacheAfter),
                               data |-> AfterExecute(c, status) = "payload"]
               /\ UNCHANGED <<fatal, reported>>
      <3>1. FlagType'
        BY <2>2, <1>1 DEF FlagType
      <3>2. pc' \in {"serve", "payload", "body"}
        BY <2>2 DEF AfterExecute
      <3>3. budget' \in 0..MaxBudget
        BY <2>2, <1>1 DEF HandlerType, CanTake, MaxBudget
      <3>4. cur' \in [cid : Cids, status : Statuses, result : 0..2, data : BOOLEAN]
        <4>1. Result(adm, c, status, cacheAfter) \in 0..2
          BY <1>5, <1>6, ResultType DEF AdminType
        <4>2. FinalStatus(c, status) \in Statuses
          BY <1>5 DEF FinalStatus, Statuses
        <4>3. c.cid \in Cids
          BY <1>5 DEF AllCommands
        <4>4. NoWork \in [cid : Cids, status : Statuses, result : 0..2, data : BOOLEAN]
          BY CidsAssumption DEF NoWork, Statuses
        <4> QED BY <4>1, <4>2, <4>3, <4>4, <2>2
      <3>5. SlotReserved'
        BY <3>2, <1>1, <1>3, <2>2 DEF SlotReserved, CanTake, HasWork
      <3> QED BY <3>1, <3>2, <3>3, <3>4, <3>5 DEF HandlerType
    <2> QED BY <1>2, <2>1, <2>2
  <1> QED BY <1>7, <1>8, <1>9, <1>10

\* Publishing a completion keeps the types: the reserved slot keeps pending
\* below the depth.
LEMMA PublishType ==
    ASSUME RingType, NEW ok \in BOOLEAN,
           WritePayload(ok) \/ WriteBody(ok) \/ WriteStatus(ok)
    PROVE  RingType'
  <1> USE DEF RingType, TypeOK
  <1>1. CASE WritePayload(ok)
    <2>1. FlagType' /\ HandlerType' /\ SlotReserved'
      <3>1. CASE Fail
        BY <3>1, <1>1, FailType DEF WritePayload
      <3>2. CASE pc' = "body" /\ UNCHANGED <<fatal, reported, budget, cur>>
        BY <3>2, <1>1 DEF WritePayload, ringCursors, FlagType, HandlerType, SlotReserved
      <3> QED BY <1>1, <3>1, <3>2 DEF WritePayload
    <2>2. CursorType' /\ AdminType' /\ DriverType'
      BY <1>1 DEF WritePayload, ringCursors, CursorType, AdminType, DriverType
    <2>3. MemoryType'
      BY <1>1 DEF WritePayload, MemoryType, HandlerType
    <2> QED BY <2>1, <2>2, <2>3
  <1>2. CASE WriteBody(ok)
    <2>1. FlagType' /\ HandlerType' /\ SlotReserved'
      <3>1. CASE Fail
        BY <3>1, <1>2, FailType DEF WriteBody
      <3>2. CASE pc' = "status" /\ UNCHANGED <<fatal, reported, budget, cur>>
        BY <3>2, <1>2 DEF WriteBody, ringCursors, FlagType, HandlerType, SlotReserved
      <3> QED BY <1>2, <3>1, <3>2 DEF WriteBody
    <2>2. CursorType' /\ AdminType' /\ DriverType'
      BY <1>2 DEF WriteBody, ringCursors, CursorType, AdminType, DriverType
    <2>3. MemoryType'
      BY <1>2 DEF WriteBody, MemoryType, HandlerType, CursorType
    <2> QED BY <2>1, <2>2, <2>3
  <1>3. CASE WriteStatus(ok)
    <2>1. FlagType' /\ HandlerType' /\ SlotReserved'
      <3>1. CASE Fail
        BY <3>1, <1>3, FailType DEF WriteStatus
      <3>2. CASE /\ pc' = "serve" /\ reported' = TRUE /\ cur' = NoWork
                 /\ UNCHANGED <<fatal, budget>>
        <4>1. FlagType'
          BY <3>2, <1>3 DEF WriteStatus, FlagType
        <4>2. HandlerType'
          BY <3>2, CidsAssumption DEF HandlerType, NoWork, Statuses
        <4>3. SlotReserved'
          BY <3>2, <1>3 DEF WriteStatus, SlotReserved
        <4> QED BY <4>1, <4>2, <4>3
      <3> QED BY <1>3, <3>1, <3>2 DEF WriteStatus
    <2>2. AdminType' /\ DriverType'
      BY <1>3 DEF WriteStatus, AdminType, DriverType
    <2>3. MemoryType'
      BY <1>3 DEF WriteStatus, MemoryType, HandlerType, CursorType
    <2>4. CursorType'
      <3>1. /\ active /\ pending < cqDepth - 1 /\ cqDepth \in Nat /\ cqDepth >= 1
            /\ cqDepth <= MaxDepth /\ cqTail \in 0..cqDepth-1
        BY <1>3, DepthAssumption DEF WriteStatus, SlotReserved, CursorType, Depths, Slots
      <3>2. Advance(cqTail, cqDepth) \in 0..cqDepth-1
        BY <3>1, AdvanceIs, Zenon
      <3>3. /\ cqTail' \in Slots /\ cqTail' < cqDepth /\ pending' \in Slots /\ phase' \in 0..1
        BY <3>1, <3>2, <1>3, DepthAssumption DEF WriteStatus, CursorType, Slots
      <3> QED BY <3>3, <1>3 DEF WriteStatus, CursorType
    <2> QED BY <2>1, <2>2, <2>3, <2>4
  <1> QED BY <1>1, <1>2, <1>3

\* The driver's memory accesses keep the types.
LEMMA DriverStepType ==
    ASSUME RingType, (\E c \in Commands : DriverSubmit(c)) \/ DriverConsume
    PROVE  RingType'
  <1> USE DEF RingType, TypeOK
  <1>1. ASSUME NEW c \in Commands, DriverSubmit(c)
        PROVE  RingType'
    <2>1. Advance(drv.tail, sqDepth) \in Slots
      <3>0. active
        BY <1>1 DEF DriverSubmit
      <3>1. sqDepth \in Nat /\ sqDepth >= 1 /\ sqDepth <= MaxDepth /\ drv.tail + 1 \in Nat
        BY <3>0, DepthAssumption DEF CursorType, DriverType, Depths, Slots
      <3> QED BY <3>1, DepthAssumption DEF Advance, Slots
    <2>2. DriverType'
      BY <2>1, <1>1, CommandsAssumption DEF DriverSubmit, DriverType, AllCommands
    <2>3. MemoryType'
      BY <1>1, CommandsAssumption DEF DriverSubmit, MemoryType, DriverType
    <2>4. FlagType' /\ CursorType' /\ AdminType' /\ HandlerType' /\ SlotReserved'
      BY <1>1 DEF DriverSubmit, ringCursors, FlagType, CursorType, AdminType, HandlerType,
                  SlotReserved
    <2> QED BY <2>2, <2>3, <2>4
  <1>2. CASE DriverConsume
    <2>1. Advance(drv.head, cqDepth) \in Slots
      <3>1. cqDepth \in Nat /\ cqDepth >= 1 /\ cqDepth <= MaxDepth /\ drv.head + 1 \in Nat
        BY <1>2, DepthAssumption DEF DriverConsume, Visible, CursorType, DriverType, Depths, Slots
      <3> QED BY <3>1, DepthAssumption DEF Advance, Slots
    <2>2. DriverType'
      <3>1. cqBody[drv.head].sqhd \in Slots
        BY DEF DriverType, MemoryType
      <3>2. drv' = [drv EXCEPT !.head = Advance(drv.head, cqDepth),
                               !.phase = IF Advance(drv.head, cqDepth) = 0
                                         THEN 1 - @ ELSE @,
                               !.sqHead = cqBody[drv.head].sqhd,
                               !.inFlight = @ \ {cqBody[drv.head].cid}]
        BY <1>2 DEF DriverConsume
      <3>3. drv.phase \in 0..1 /\ 1 - drv.phase \in 0..1
        BY DEF DriverType
      <3> QED BY <2>1, <3>1, <3>2, <3>3 DEF DriverType
    <2>3. /\ FlagType' /\ CursorType' /\ AdminType' /\ HandlerType' /\ MemoryType'
          /\ SlotReserved'
      BY <1>2 DEF DriverConsume, ringCursors, guestMemory, FlagType, CursorType, AdminType,
                  HandlerType, MemoryType, SlotReserved
    <2> QED BY <2>2, <2>3
  <1> QED BY <1>1, <1>2

\* Every step keeps the types and the reservation.
LEMMA StepType == RingType /\ [Next]_vars => RingType'
  <1> SUFFICES ASSUME RingType, [Next]_vars
               PROVE  RingType'
    OBVIOUS
  <1>1. CASE UNCHANGED vars
    BY <1>1 DEF vars, ringCursors, guestMemory, RingType, TypeOK, FlagType, CursorType,
                AdminType, HandlerType, MemoryType, DriverType, SlotReserved
  <1>2. CASE \E full \in BOOLEAN : RingReset(full)
    <2>1. 2 \in Depths
      BY DepthAssumption DEF Depths
    <2> QED BY <1>2, <2>1, ControlType
  <1>3. CASE \E ns, nc \in Depths : Configure(ns, nc)
    BY <1>3, ControlType
  <1>4. CASE \E t \in 0..MaxDepth : TailDoorbell(t) \/ AckDoorbell(t)
    BY <1>4, DoorbellType
  <1>5. CASE Poll
    BY <1>5, LoopType
  <1>6. CASE HandlerStep
    BY <1>6, LoopType, FetchType, PublishType DEF HandlerStep
  <1>7. CASE (\E c \in Commands : DriverSubmit(c)) \/ DriverConsume
    BY <1>7, DriverStepType
  <1> QED BY <1>1, <1>2, <1>3, <1>4, <1>5, <1>6, <1>7 DEF Next

\* Type correctness of the ring engine for every depth, command set and
\* doorbell sequence: in particular every cursor nwoas_ring_poll and
\* nwoas_ring_ack index guest memory with is below the configured depth.
THEOREM TypeCorrect == Spec => []TypeOK
  <1>1. RingType => TypeOK
    BY DEF RingType
  <1> QED BY InitType, StepType, <1>1, PTL DEF Spec

\* A handler that has fetched a command always finds its completion slot free.
THEOREM SlotAlwaysReserved == Spec => []SlotReserved
  <1>1. RingType => SlotReserved
    BY DEF RingType
  <1> QED BY InitType, StepType, <1>1, PTL DEF Spec

(***************************************************************************)
(* The pending count and the phase bits.  PendingExact needs the           *)
(* reservation (publishing must not run into cq_head); PhaseDiscipline is  *)
(* inductive with the types.                                               *)
(***************************************************************************)
\* Steps other than an acknowledgement, a publication, a configuration and a
\* reset leave the completion side alone.
CompletionSideUnchanged == UNCHANGED <<active, cqDepth, cqHead, cqTail, pending, phase, cqStat>>

\* The split of a step by what it does to the completion side.
LEMMA StepCases ==
    ASSUME [Next]_vars
    PROVE  \/ CompletionSideUnchanged
           \/ ~active'
           \/ \E ns, nc \in Depths : Configure(ns, nc)
           \/ \E t \in 0..MaxDepth : AckDoorbell(t)
           \/ WriteStatus(TRUE)
  <1> USE DEF CompletionSideUnchanged, ringCursors, guestMemory
  <1>1. CASE UNCHANGED vars
    BY <1>1 DEF vars
  <1>2. CASE \E full \in BOOLEAN : RingReset(full)
    BY <1>2 DEF RingReset
  <1>3. CASE \E t \in 0..MaxDepth : TailDoorbell(t)
    BY <1>3 DEF TailDoorbell
  <1>4. CASE Poll
    BY <1>4 DEF Poll
  <1>5. CASE HandlerStep
    <2>1. CASE EndServe
      BY <2>1 DEF EndServe
    <2>2. CASE FetchFails
      BY <2>2 DEF FetchFails
    <2>3. ASSUME NEW a \in BOOLEAN, NEW b \in BOOLEAN, Fetch(a, b)
          PROVE  CompletionSideUnchanged
      BY <2>3 DEF Fetch
    <2>4. ASSUME NEW ok \in BOOLEAN, WritePayload(ok)
          PROVE  CompletionSideUnchanged
      BY <2>4 DEF WritePayload
    <2>5. ASSUME NEW ok \in BOOLEAN, WriteBody(ok)
          PROVE  CompletionSideUnchanged
      BY <2>5 DEF WriteBody
    <2>6. ASSUME NEW ok \in BOOLEAN, WriteStatus(ok)
          PROVE  CompletionSideUnchanged \/ WriteStatus(TRUE)
      <3>1. CASE ok
        BY <3>1, <2>6
      <3>2. CASE ~ok
        BY <3>2, <2>6 DEF WriteStatus
      <3> QED BY <3>1, <3>2
    <2> HIDE DEF CompletionSideUnchanged
    <2> QED BY <1>5, <2>1, <2>2, <2>3, <2>4, <2>5, <2>6 DEF HandlerStep
  <1>6. CASE \E c \in Commands : DriverSubmit(c)
    BY <1>6 DEF DriverSubmit
  <1>7. CASE DriverConsume
    BY <1>7 DEF DriverConsume
  <1> QED BY <1>1, <1>2, <1>3, <1>4, <1>5, <1>6, <1>7 DEF Next

\* The pending count follows the cursors through every step.
LEMMA StepPending ==
    ASSUME RingType, PendingExact, [Next]_vars
    PROVE  PendingExact'
  <1> SUFFICES ASSUME active'
               PROVE  pending' = Distance(cqHead', cqTail', cqDepth') /\ pending' < cqDepth'
    BY DEF PendingExact
  <1>0. active => /\ cqDepth \in Nat /\ cqDepth >= 1
                  /\ cqHead \in 0..cqDepth-1 /\ cqTail \in 0..cqDepth-1 /\ pending \in Nat
    BY DepthAssumption DEF RingType, TypeOK, CursorType, Depths, Slots
  <1>1. CASE CompletionSideUnchanged
    BY <1>1 DEF CompletionSideUnchanged, PendingExact
  <1>2. ASSUME NEW ns \in Depths, NEW nc \in Depths, Configure(ns, nc)
        PROVE  pending' = Distance(cqHead', cqTail', cqDepth') /\ pending' < cqDepth'
    <2>1. nc \in Nat /\ nc >= 2 /\ 0 \in 0..nc-1
      BY DepthAssumption DEF Depths
    <2>2. Distance(0, 0, nc) = 0
      BY <2>1, DistanceIs
    <2> QED BY <1>2, <2>1, <2>2 DEF Configure, ClearCursors
  <1>3. ASSUME NEW t \in 0..MaxDepth, AckDoorbell(t)
        PROVE  pending' = Distance(cqHead', cqTail', cqDepth') /\ pending' < cqDepth'
    <2>0. active /\ UNCHANGED <<cqDepth, cqTail>>
      BY <1>3 DEF AckDoorbell
    <2>1. CASE UNCHANGED <<cqHead, pending>>
      BY <2>0, <2>1 DEF PendingExact
    <2>2. CASE /\ t < cqDepth /\ Distance(cqHead, t, cqDepth) <= pending
               /\ cqHead' = t /\ pending' = pending - Distance(cqHead, t, cqDepth)
      <3>1. t \in 0..cqDepth-1
        BY <2>2, <2>0, <1>0, DepthAssumption
      <3>2. Distance(cqHead, t, cqDepth) = IF t >= cqHead THEN t - cqHead ELSE t + cqDepth - cqHead
        BY <3>1, <2>0, <1>0, DistanceIs, Zenon
      <3>3. Distance(cqHead, cqTail, cqDepth) =
               IF cqTail >= cqHead THEN cqTail - cqHead ELSE cqTail + cqDepth - cqHead
        BY <2>0, <1>0, DistanceIs, Zenon
      <3>4. Distance(t, cqTail, cqDepth) = IF cqTail >= t THEN cqTail - t ELSE cqTail + cqDepth - t
        BY <3>1, <2>0, <1>0, DistanceIs, Zenon
      <3> QED BY <2>0, <2>2, <1>0, <3>1, <3>2, <3>3, <3>4 DEF PendingExact
    <2> QED BY <1>3, <2>1, <2>2 DEF AckDoorbell
  <1>4. ASSUME WriteStatus(TRUE)
        PROVE  pending' = Distance(cqHead', cqTail', cqDepth') /\ pending' < cqDepth'
    <2>1. /\ active /\ UNCHANGED <<cqDepth, cqHead>>
          /\ cqTail' = Advance(cqTail, cqDepth) /\ pending' = pending + 1
          /\ pending < cqDepth - 1
      BY <1>4 DEF WriteStatus, RingType, SlotReserved
    <2>2. /\ Advance(cqTail, cqDepth) = IF cqTail + 1 = cqDepth THEN 0 ELSE cqTail + 1
          /\ Advance(cqTail, cqDepth) \in 0..cqDepth-1
      BY <2>1, <1>0, AdvanceIs
    <2>3. Distance(cqHead, cqTail, cqDepth) =
             IF cqTail >= cqHead THEN cqTail - cqHead ELSE cqTail + cqDepth - cqHead
      BY <2>1, <1>0, DistanceIs, Zenon
    <2>4. Distance(cqHead, cqTail', cqDepth) =
             IF cqTail' >= cqHead THEN cqTail' - cqHead ELSE cqTail' + cqDepth - cqHead
      <3>1. cqTail' \in 0..cqDepth-1
        BY <2>1, <2>2
      <3> QED BY <3>1, <2>1, <1>0, DistanceIs, Zenon
    <2> QED BY <2>1, <2>2, <2>3, <2>4, <1>0 DEF PendingExact
  <1> QED BY <1>1, <1>2, <1>3, <1>4, StepCases

\* pending is exact for every depth and every sequence of doorbell values.
THEOREM PendingAlwaysExact == Spec => []PendingExact
  <1>1. Init => PendingExact
    BY DEF Init, PendingExact
  <1> QED BY InitType, StepType, StepPending, <1>1, PTL DEF Spec

\* The phase bits follow cq_tail and the phase flag through every step.
LEMMA StepPhase ==
    ASSUME RingType, PhaseDiscipline, [Next]_vars
    PROVE  PhaseDiscipline'
  <1> SUFFICES ASSUME active', NEW i \in 0..cqDepth'-1
               PROVE  cqStat'[i].phase = IF i < cqTail' THEN phase' ELSE 1 - phase'
    BY DEF PhaseDiscipline
  <1>1. CASE CompletionSideUnchanged
    BY <1>1 DEF CompletionSideUnchanged, PhaseDiscipline
  <1>2. ASSUME NEW ns \in Depths, NEW nc \in Depths, Configure(ns, nc)
        PROVE  cqStat'[i].phase = IF i < cqTail' THEN phase' ELSE 1 - phase'
    <2>1. i \in Slots /\ i \in Nat
      BY <1>2, DepthAssumption DEF Configure, Depths, Slots
    <2>2. cqStat' = [j \in Slots |-> ZeroStat] /\ cqTail' = 0 /\ phase' = 1
      BY <1>2 DEF Configure, ClearCursors
    <2> QED BY <2>1, <2>2 DEF ZeroStat
  <1>3. ASSUME NEW t \in 0..MaxDepth, AckDoorbell(t)
        PROVE  cqStat'[i].phase = IF i < cqTail' THEN phase' ELSE 1 - phase'
    BY <1>3 DEF AckDoorbell, PhaseDiscipline, guestMemory
  <1>4. ASSUME WriteStatus(TRUE)
        PROVE  cqStat'[i].phase = IF i < cqTail' THEN phase' ELSE 1 - phase'
    <2>1. /\ active /\ cqDepth' = cqDepth
          /\ cqTail' = Advance(cqTail, cqDepth)
          /\ phase' = IF cqTail' = 0 THEN 1 - phase ELSE phase
      BY <1>4 DEF WriteStatus, RingType, SlotReserved
    <2>2. /\ cqDepth \in Nat /\ cqDepth >= 1 /\ cqDepth <= MaxDepth
          /\ cqTail \in 0..cqDepth-1 /\ phase \in 0..1
      BY <2>1, DepthAssumption DEF RingType, TypeOK, CursorType, Depths, Slots
    <2>3. Advance(cqTail, cqDepth) = IF cqTail + 1 = cqDepth THEN 0 ELSE cqTail + 1
      BY <2>2, AdvanceIs, Zenon
    <2>4. i \in 0..cqDepth-1 /\ i \in Slots
      BY <2>1, <2>2, DepthAssumption DEF Slots
    <2>5. cqStat[i].phase = IF i < cqTail THEN phase ELSE 1 - phase
      BY <2>1, <2>4 DEF PhaseDiscipline
    <2>6. cqStat'[i].phase = IF i = cqTail THEN phase ELSE cqStat[i].phase
      BY <1>4, <2>4 DEF WriteStatus, RingType, TypeOK, MemoryType
    <2> QED BY <2>1, <2>2, <2>3, <2>4, <2>5, <2>6
  <1> QED BY <1>1, <1>2, <1>3, <1>4, StepCases

\* The phase bits in completion memory mark cq_tail for every depth and every
\* sequence of doorbell values, through any number of laps.
THEOREM PhaseAlwaysDisciplined == Spec => []PhaseDiscipline
  <1>1. Init => PhaseDiscipline
    BY DEF Init, PhaseDiscipline
  <1> QED BY InitType, StepType, StepPhase, <1>1, PTL DEF Spec

(***************************************************************************)
(* The owner of the I/O queues, and a controller that has failed.          *)
(***************************************************************************)
\* A step leaves the admin state and the owner alone, removes both queues, or is
\* the step that executes a command.
LEMMA AdminCases ==
    ASSUME [Next]_vars
    PROVE  \/ UNCHANGED <<adm, owner>> /\ (fatal => fatal')
           \/ ~adm'.sq /\ ~adm'.cq
           \/ \E a, b \in BOOLEAN : Fetch(a, b)
  <1>1. CASE UNCHANGED vars
    BY <1>1 DEF vars
  <1>2. CASE \E full \in BOOLEAN : RingReset(full)
    BY <1>2 DEF RingReset, AdminReset
  <1>3. CASE \E ns, nc \in Depths : Configure(ns, nc)
    BY <1>3 DEF Configure
  <1>4. CASE \E t \in 0..MaxDepth : TailDoorbell(t) \/ AckDoorbell(t)
    BY <1>4 DEF TailDoorbell, AckDoorbell
  <1>5. CASE Poll
    BY <1>5 DEF Poll
  <1>6. CASE HandlerStep
    <2>1. CASE EndServe \/ FetchFails
      BY <2>1 DEF EndServe, FetchFails, Fail
    <2>2. CASE \E ok \in BOOLEAN : WritePayload(ok) \/ WriteBody(ok) \/ WriteStatus(ok)
      BY <2>2 DEF WritePayload, WriteBody, WriteStatus, Fail
    <2> QED BY <1>6, <2>1, <2>2 DEF HandlerStep
  <1>7. CASE (\E c \in Commands : DriverSubmit(c)) \/ DriverConsume
    BY <1>7 DEF DriverSubmit, DriverConsume
  <1> QED BY <1>1, <1>2, <1>3, <1>4, <1>5, <1>6, <1>7 DEF Next

LEMMA StepOwner ==
    ASSUME RingType, OwnerAgrees, [Next]_vars
    PROVE  OwnerAgrees'
  <1>1. CASE UNCHANGED <<adm, owner>> /\ (fatal => fatal')
    BY <1>1 DEF OwnerAgrees
  <1>2. CASE ~adm'.sq /\ ~adm'.cq
    BY <1>2 DEF OwnerAgrees
  <1>3. ASSUME NEW a \in BOOLEAN, NEW b \in BOOLEAN, Fetch(a, b)
        PROVE  OwnerAgrees'
    <2>1. PICK c, status : /\ c = sqMem[sqHead] /\ adm' = Execute(adm, c, status)
                           /\ \/ Fail
                              \/ owner' = IF Changed(c, status) = {} THEN owner ELSE Owned(adm')
      BY <1>3 DEF Fetch
    <2>2. pc = "serve" /\ ~fatal
      BY <1>3 DEF Fetch, RingType, SlotReserved
    <2>3. c \in AllCommands /\ adm \in AdminStates
      BY <2>1 DEF RingType, TypeOK, MemoryType, CursorType, AdminType
    <2>4. CASE Fail
      BY <2>4 DEF Fail, OwnerAgrees
    <2>5. CASE Changed(c, status) = {} /\ owner' = owner
      <3>1. /\ adm'.sqGen = adm.sqGen /\ adm'.cqGen = adm.cqGen
            /\ adm'.sq = adm.sq /\ adm'.cq = adm.cq
        BY <2>1, <2>3, <2>5, ChangedIsTrue
      <3> QED BY <2>2, <2>5, <3>1 DEF OwnerAgrees
    <2>6. CASE owner' = Owned(adm')
      BY <2>6 DEF OwnerAgrees, Owned
    <2> QED BY <2>1, <2>4, <2>5, <2>6
  <1> QED BY <1>1, <1>2, <1>3, AdminCases

\* For every command set, any outcome of the callbacks and any resets between
\* them, an I/O queue that exists has been reconciled with its owner under its
\* present generation, unless a refused reconciliation has made the ring fatal.
THEOREM OwnerAlwaysAgrees == Spec => []OwnerAgrees
  <1>1. Init => OwnerAgrees
    BY DEF Init, OwnerAgrees, AdminInit
  <1> QED BY InitType, StepType, StepOwner, <1>1, PTL DEF Spec

\* What makes FatalIsSilent inductive: fail() has reported pending low.
FatalIsLow == fatal => ~reported

\* A fatal ring runs no handler: only a reset and the driver's memory accesses
\* are left.
LEMMA FatalCases ==
    ASSUME RingType, [Next]_vars, fatal
    PROVE  \/ UNCHANGED <<fatal, reported, cqBody, cqStat, landed, sqHead, cqTail, adm>>
           \/ \E full \in BOOLEAN : RingReset(full)
           \/ \E c \in Commands : DriverSubmit(c)
  <1>1. pc = "idle"
    BY DEF RingType, SlotReserved
  <1>2. ~HandlerStep
    BY <1>1 DEF HandlerStep, EndServe, FetchFails, Fetch, WritePayload, WriteBody, WriteStatus
  <1>3. ~Poll /\ (\A t : ~TailDoorbell(t) /\ ~AckDoorbell(t)) /\ \A ns, nc : ~Configure(ns, nc)
    BY DEF Poll, TailDoorbell, AckDoorbell, Configure
  <1>4. DriverConsume \/ UNCHANGED vars
          => UNCHANGED <<fatal, reported, cqBody, cqStat, landed, sqHead, cqTail, adm>>
    BY DEF DriverConsume, vars, ringCursors, guestMemory
  <1> QED BY <1>2, <1>3, <1>4 DEF Next

LEMMA StepFatalIsLow ==
    ASSUME RingType, FatalIsLow, [Next]_vars
    PROVE  FatalIsLow'
  <1>1. CASE fatal
    BY <1>1, FatalCases DEF FatalIsLow, RingReset, DriverSubmit
  <1>2. CASE ~fatal /\ fatal'
    <2>1. Fail
      <3>1. CASE HandlerStep
        BY <1>2, <3>1 DEF HandlerStep, EndServe, FetchFails, Fetch, WritePayload, WriteBody,
                          WriteStatus
      <3>2. CASE ~HandlerStep
        BY <1>2, <3>2 DEF Next, vars, RingReset, Configure, TailDoorbell, AckDoorbell, Poll,
                          DriverSubmit, DriverConsume
      <3> QED BY <3>1, <3>2
    <2> QED BY <2>1 DEF Fail, FatalIsLow
  <1> QED BY <1>1, <1>2 DEF FatalIsLow, RingType, TypeOK, FlagType

\* From fail() to the next reset the engine stores nothing in guest memory,
\* takes no command, executes nothing and reports no pending completion, for
\* whichever store or callback failed.
THEOREM FatalAlwaysSilent == Spec => FatalIsSilent
  <1> DEFINE A == fatal => /\ UNCHANGED <<cqBody, cqStat>> /\ landed' \subseteq landed
                           /\ ~reported'
                           /\ fatal' => UNCHANGED <<sqHead, cqTail, adm>>
  <1>1. RingType /\ FatalIsLow /\ [Next]_vars => A
    <2> SUFFICES ASSUME RingType, FatalIsLow, [Next]_vars, fatal
                 PROVE  /\ UNCHANGED <<cqBody, cqStat>> /\ landed' \subseteq landed
                        /\ ~reported'
                        /\ fatal' => UNCHANGED <<sqHead, cqTail, adm>>
      OBVIOUS
    <2>1. CASE UNCHANGED <<fatal, reported, cqBody, cqStat, landed, sqHead, cqTail, adm>>
      BY <2>1 DEF FatalIsLow
    <2>2. ASSUME NEW full \in BOOLEAN, RingReset(full)
          PROVE  UNCHANGED <<cqBody, cqStat, landed>> /\ ~reported' /\ ~fatal'
      BY <2>2 DEF RingReset, guestMemory
    <2>3. ASSUME NEW c \in Commands, DriverSubmit(c)
          PROVE  /\ UNCHANGED <<cqBody, cqStat, sqHead, cqTail, adm, reported>>
                 /\ landed' \subseteq landed
      BY <2>3 DEF DriverSubmit, ringCursors
    <2> QED BY <2>1, <2>2, <2>3, FatalCases DEF FatalIsLow
  <1>2. RingType /\ FatalIsLow /\ [Next]_vars => [A]_vars
    BY <1>1
  <1>3. Init => FatalIsLow
    BY DEF Init, FatalIsLow
  <1> QED BY <1>2, <1>3, InitType, StepType, StepFatalIsLow, PTL DEF Spec, FatalIsSilent

(***************************************************************************)
(* The engine and a correct driver.  The two run on different CPUs and     *)
(* each knows the other's cursors only from an earlier moment; what makes  *)
(* the rings work is the order of the six cursors around each ring, and    *)
(* that no identifier is ever in two places.                               *)
(***************************************************************************)
\* Slots with a command not yet taken, and with a completion not yet read.
Queued == {i \in 0..sqDepth-1 :
              Distance(sqHead, i, sqDepth) < Distance(sqHead, drv.tail, sqDepth)}
Unread == {i \in 0..cqDepth-1 :
              Distance(drv.head, i, cqDepth) < Distance(drv.head, cqTail, cqDepth)}

Executing == pc \in {"payload", "body", "status"}

\* The cursors follow each other: the driver's idea of the SQ head, the head,
\* the tail the engine was told, the driver's tail; the acknowledged CQ head,
\* the driver's head, the tail.  The driver's phase is the one of its lap.
CursorOrder ==
    /\ drv.tail \in 0..sqDepth-1 /\ drv.sqHead \in 0..sqDepth-1 /\ drv.head \in 0..cqDepth-1
    /\ Distance(sqHead, sqTail, sqDepth) <= Distance(sqHead, drv.tail, sqDepth)
    /\ Distance(drv.sqHead, sqHead, sqDepth) <= Distance(drv.sqHead, drv.tail, sqDepth)
    /\ Distance(cqHead, drv.head, cqDepth) <= Distance(cqHead, cqTail, cqDepth)
    /\ drv.phase = IF drv.head <= cqTail THEN phase ELSE 1 - phase

\* The SQ heads that unread completions report are in order and not beyond the
\* engine's head.
HeadsReported ==
    \A i \in Unread :
       /\ cqBody[i].sqhd \in 0..sqDepth-1
       /\ Distance(drv.sqHead, cqBody[i].sqhd, sqDepth) <= Distance(drv.sqHead, sqHead, sqDepth)
       /\ \A j \in Unread :
            Distance(drv.head, i, cqDepth) <= Distance(drv.head, j, cqDepth)
            => Distance(drv.sqHead, cqBody[i].sqhd, sqDepth)
                 <= Distance(drv.sqHead, cqBody[j].sqhd, sqDepth)

\* Unread completions are whole, and the one being made will be.
Whole ==
    /\ \A i \in Unread : /\ cqBody[i].cid = cqStat[i].for
                         /\ cqStat[i].data => cqBody[i].cid \in landed
    /\ pc \in {"body", "status"} /\ cur.data => cur.cid \in landed
    /\ pc = "status" => cqBody[cqTail].cid = cur.cid /\ cqBody[cqTail].sqhd = sqHead

\* A command is queued, in execution, unread or held, never two of them, and
\* the driver does not reuse its identifier meanwhile.
OnePlace ==
    /\ \A i \in Queued : /\ sqMem[i].cid \in drv.inFlight
                         /\ \A j \in Queued : i # j => sqMem[i].cid # sqMem[j].cid
    /\ \A i \in Unread : /\ cqBody[i].cid \in drv.inFlight
                         /\ \A j \in Unread : i # j => cqBody[i].cid # cqBody[j].cid
                         /\ \A j \in Queued : cqBody[i].cid # sqMem[j].cid
    /\ Executing => /\ cur.cid \in drv.inFlight
                    /\ \A i \in Queued : sqMem[i].cid # cur.cid
                    /\ \A i \in Unread : cqBody[i].cid # cur.cid
    /\ adm.aer => /\ adm.aerCid \in drv.inFlight
                  /\ \A i \in Queued : sqMem[i].cid # adm.aerCid
                  /\ \A i \in Unread : cqBody[i].cid # adm.aerCid
                  /\ Executing => cur.cid # adm.aerCid

DriverInv ==
    /\ active => CursorOrder /\ HeadsReported /\ Whole /\ OnePlace
    /\ ~active => ~adm.aer

(***************************************************************************)
(* Three cursors on a ring.                                                *)
(***************************************************************************)
\* With b between a and c, the way from a to c is the way over b.
LEMMA DistanceSplit ==
    ASSUME NEW d \in Nat, d >= 1, NEW a \in 0..d-1, NEW b \in 0..d-1, NEW c \in 0..d-1,
           Distance(a, b, d) <= Distance(a, c, d)
    PROVE  Distance(b, c, d) = Distance(a, c, d) - Distance(a, b, d)
  <1>1. Distance(a, b, d) = IF b >= a THEN b - a ELSE b + d - a
    BY DistanceIs
  <1>2. Distance(a, c, d) = IF c >= a THEN c - a ELSE c + d - a
    BY DistanceIs
  <1>3. Distance(b, c, d) = IF c >= b THEN c - b ELSE c + d - b
    BY DistanceIs
  <1> QED BY <1>1, <1>2, <1>3

\* A cursor is at distance 0 from itself only, and distances tell slots apart.
LEMMA DistanceZero ==
    ASSUME NEW d \in Nat, d >= 1, NEW a \in 0..d-1, NEW b \in 0..d-1, NEW c \in 0..d-1
    PROVE  /\ Distance(a, b, d) = 0 <=> a = b
           /\ Distance(a, b, d) = Distance(a, c, d) => b = c
  <1>1. Distance(a, b, d) = IF b >= a THEN b - a ELSE b + d - a
    BY DistanceIs
  <1>2. Distance(a, c, d) = IF c >= a THEN c - a ELSE c + d - a
    BY DistanceIs
  <1> QED BY <1>1, <1>2

\* A distance is a number.
LEMMA DistanceNat ==
    ASSUME NEW d \in Nat, d >= 1, NEW a \in 0..d-1, NEW b \in 0..d-1
    PROVE  Distance(a, b, d) \in Nat
  <1>1. Distance(a, b, d) \in 0..d-1
    BY DistanceIs
  <1> QED BY <1>1

\* Moving the near end of a stretch of slots drops its first slot.
LEMMA Shrinks ==
    ASSUME NEW d \in Nat, d >= 1, NEW a \in 0..d-1, NEW b \in 0..d-1, NEW i \in 0..d-1, a # b
    PROVE  LET e == Advance(a, d)
           IN  /\ Distance(e, b, d) = Distance(a, b, d) - 1
               /\ i # a => Distance(e, i, d) = Distance(a, i, d) - 1
               /\ Distance(e, i, d) < Distance(e, b, d)
                     <=> Distance(a, i, d) < Distance(a, b, d) /\ i # a
  <1>1. PICK e \in 0..d-1 : e = Advance(a, d) /\ e = IF a + 1 = d THEN 0 ELSE a + 1
    BY AdvanceIs
  <1>2. Distance(a, b, d) = IF b >= a THEN b - a ELSE b + d - a
    BY DistanceIs
  <1>3. Distance(a, i, d) = IF i >= a THEN i - a ELSE i + d - a
    BY DistanceIs
  <1>4. Distance(e, b, d) = IF b >= e THEN b - e ELSE b + d - e
    BY DistanceIs
  <1>5. Distance(e, i, d) = IF i >= e THEN i - e ELSE i + d - e
    BY DistanceIs
  <1>6. /\ Distance(e, b, d) = Distance(a, b, d) - 1
        /\ i # a => Distance(e, i, d) = Distance(a, i, d) - 1
        /\ Distance(e, i, d) < Distance(e, b, d)
              <=> Distance(a, i, d) < Distance(a, b, d) /\ i # a
    BY <1>1, <1>2, <1>3, <1>4, <1>5
  <1> QED BY <1>1, <1>6

\* Moving the far end adds the slot it stood on.
LEMMA Grows ==
    ASSUME NEW d \in Nat, d >= 1, NEW a \in 0..d-1, NEW b \in 0..d-1, NEW i \in 0..d-1,
           Advance(b, d) # a
    PROVE  LET e == Advance(b, d)
           IN  /\ Distance(a, e, d) = Distance(a, b, d) + 1
               /\ Distance(a, i, d) < Distance(a, e, d)
                     <=> Distance(a, i, d) < Distance(a, b, d) \/ i = b
  <1>1. PICK e \in 0..d-1 : e = Advance(b, d) /\ e = IF b + 1 = d THEN 0 ELSE b + 1
    BY AdvanceIs
  <1>2. Distance(a, b, d) = IF b >= a THEN b - a ELSE b + d - a
    BY DistanceIs
  <1>3. Distance(a, i, d) = IF i >= a THEN i - a ELSE i + d - a
    BY DistanceIs
  <1>4. Distance(a, e, d) = IF e >= a THEN e - a ELSE e + d - a
    BY DistanceIs
  <1>5. /\ Distance(a, e, d) = Distance(a, b, d) + 1
        /\ Distance(a, i, d) < Distance(a, e, d)
              <=> Distance(a, i, d) < Distance(a, b, d) \/ i = b
    BY <1>1, <1>2, <1>3, <1>4
  <1> QED BY <1>1, <1>5

\* A stretch that is not all of the ring can grow.
LEMMA RoomToGrow ==
    ASSUME NEW d \in Nat, d >= 1, NEW a \in 0..d-1, NEW b \in 0..d-1
    PROVE  Distance(a, b, d) < d - 1 <=> Advance(b, d) # a
  <1>1. Advance(b, d) = IF b + 1 = d THEN 0 ELSE b + 1
    BY AdvanceIs
  <1>2. Distance(a, b, d) = IF b >= a THEN b - a ELSE b + d - a
    BY DistanceIs
  <1> QED BY <1>1, <1>2

\* The cursors of an active ring.
LEMMA ActiveTypes ==
    ASSUME RingType, active
    PROVE  /\ sqDepth \in Nat /\ sqDepth >= 1 /\ sqDepth <= MaxDepth
           /\ cqDepth \in Nat /\ cqDepth >= 1 /\ cqDepth <= MaxDepth
           /\ sqHead \in 0..sqDepth-1 /\ sqTail \in 0..sqDepth-1
           /\ cqHead \in 0..cqDepth-1 /\ cqTail \in 0..cqDepth-1
           /\ phase \in 0..1 /\ drv.phase \in 0..1
  BY DepthAssumption DEF RingType, TypeOK, CursorType, DriverType, Depths, Slots

\* Steps that move neither end of a stretch of slots.
LEMMA DriverQuiet ==
    ASSUME DriverInv, UNCHANGED <<active, sqDepth, cqDepth, sqHead, cqTail, phase, adm,
                                  guestMemory, drv>>,
           active => Distance(sqHead, sqTail', sqDepth) <= Distance(sqHead, drv.tail, sqDepth),
           active => Distance(cqHead', drv.head, cqDepth) <= Distance(cqHead', cqTail, cqDepth),
           pc' \notin {"payload", "body", "status"} \/ UNCHANGED <<pc, cur>>
    PROVE  DriverInv'
  <1>1. Queued' = Queued /\ Unread' = Unread /\ UNCHANGED <<sqMem, cqBody, cqStat, landed>>
    BY DEF Queued, Unread, guestMemory
  <1>2. CASE ~active
    BY <1>2 DEF DriverInv
  <1>3. CASE active
    <2>1. CursorOrder'
      BY <1>3 DEF DriverInv, CursorOrder
    <2>2. HeadsReported'
      BY <1>1, <1>3 DEF DriverInv, HeadsReported
    <2>3. Whole'
      BY <1>1, <1>3 DEF DriverInv, Whole
    <2>4. OnePlace'
      BY <1>1, <1>3 DEF DriverInv, OnePlace, Executing
    <2> QED BY <1>3, <2>1, <2>2, <2>3, <2>4 DEF DriverInv
  <1> QED BY <1>2, <1>3

\* Reset and configuration: no command is anywhere.
LEMMA DriverControl ==
    ASSUME RingType, DriverInv, NEW full \in BOOLEAN, NEW ns \in Depths, NEW nc \in Depths,
           RingReset(full) \/ Configure(ns, nc)
    PROVE  DriverInv'
  <1>1. CASE RingReset(full)
    <2>1. adm'.aer = FALSE
      BY <1>1 DEF RingReset, AdminReset
    <2> QED BY <1>1, <2>1 DEF RingReset, DriverInv
  <1>2. CASE Configure(ns, nc)
    <2>1. ns \in Nat /\ ns >= 1 /\ nc \in Nat /\ nc >= 1 /\ 0 \in 0..ns-1 /\ 0 \in 0..nc-1
      BY DepthAssumption DEF Depths
    <2>2. Distance(0, 0, ns) = 0 /\ Distance(0, 0, nc) = 0
      BY <2>1, DistanceZero
    <2>3. /\ active' /\ ~active /\ sqDepth' = ns /\ cqDepth' = nc /\ phase' = 1
          /\ sqHead' = 0 /\ sqTail' = 0 /\ cqHead' = 0 /\ cqTail' = 0
          /\ adm' = adm /\ pc = "idle" /\ pc' = pc /\ drv' = DriverReset
      BY <1>2 DEF Configure, ClearCursors, Idle
    <2>4. drv'.tail = 0 /\ drv'.sqHead = 0 /\ drv'.head = 0 /\ drv'.phase = 1
      BY <2>3 DEF DriverReset
    <2>5. Queued' = {} /\ Unread' = {}
      <3>1. \A i \in 0..ns-1 : ~(Distance(0, i, ns) < 0)
        BY <2>1, DistanceIs
      <3>2. \A i \in 0..nc-1 : ~(Distance(0, i, nc) < 0)
        BY <2>1, DistanceIs
      <3> QED BY <2>2, <2>3, <2>4, <3>1, <3>2 DEF Queued, Unread
    <2>6. CursorOrder'
      BY <2>1, <2>2, <2>3, <2>4 DEF CursorOrder
    <2>7. HeadsReported' /\ Whole'
      BY <2>3, <2>5 DEF HeadsReported, Whole
    <2>8. OnePlace'
      BY <2>3, <2>5 DEF DriverInv, OnePlace, Executing
    <2> QED BY <2>3, <2>6, <2>7, <2>8 DEF DriverInv
  <1> QED BY <1>1, <1>2

\* Executing a command holds it when it is deferred and touches the held request
\* in no other case.
LEMMA HeldRequest ==
    ASSUME NEW s \in AdminStates, NEW c \in AllCommands, NEW status
    PROVE  LET t == Execute(s, c, status)
           IN  IF Deferred(c, status) THEN t.aerCid = c.cid
               ELSE t.aer = s.aer /\ t.aerCid = s.aerCid
  <1> USE DEF AdminStates, AllCommands, Ops, Execute, Deferred
  <1>1. CASE status # Success
    BY <1>1
  <1>2. CASE status = Success /\ c.op \in {"CreateSQ", "CreateCQ"}
    BY <1>2 DEF CreateQueue
  <1>3. CASE status = Success /\ c.op \in {"DeleteSQ", "DeleteCQ"}
    BY <1>3 DEF DeleteQueue
  <1>4. CASE status = Success /\ c.op \in {"SetFeature", "AER"}
    BY <1>4
  <1>5. CASE status = Success /\ c.op \in Ops \ {"CreateSQ", "CreateCQ", "DeleteSQ", "DeleteCQ",
                                               "SetFeature", "AER"}
    BY <1>5
  <1> QED BY <1>1, <1>2, <1>3, <1>4, <1>5

\* What taking a command does, for the driver: the command at the head goes into
\* execution, is held, or is lost in a failure.
Taken(c) ==
    /\ c = sqMem[sqHead] /\ sqHead' = Advance(sqHead, sqDepth)
    /\ sqHead # sqTail /\ active /\ pc = "serve"
    /\ UNCHANGED <<active, sqDepth, cqDepth, sqTail, cqHead, cqTail, phase,
                   sqMem, cqBody, cqStat, landed, drv>>
    /\ \/ UNCHANGED <<adm.aer, adm.aerCid>> /\ pc' = "idle"
       \/ UNCHANGED <<adm.aer, adm.aerCid>> /\ pc' = "payload" /\ cur'.cid = c.cid
       \/ UNCHANGED <<adm.aer, adm.aerCid>> /\ pc' = "body" /\ cur'.cid = c.cid /\ ~cur'.data
       \/ adm'.aerCid = c.cid /\ pc' = "serve"

LEMMA FetchTakes ==
    ASSUME RingType, NEW a \in BOOLEAN, NEW b \in BOOLEAN, Fetch(a, b)
    PROVE  Taken(sqMem[sqHead])
  <1>1. PICK c, status, r :
          /\ c = sqMem[sqHead] /\ adm' = Execute(adm, c, status)
          /\ \/ Changed(c, status) # {} /\ Fail
             \/ /\ pc' = AfterExecute(c, status)
                /\ cur' = IF Deferred(c, status) THEN NoWork
                          ELSE [cid |-> c.cid, status |-> FinalStatus(c, status), result |-> r,
                                data |-> AfterExecute(c, status) = "payload"]
    BY DEF Fetch
  <1>2. /\ sqHead' = Advance(sqHead, sqDepth) /\ sqHead # sqTail /\ pc = "serve" /\ active
        /\ UNCHANGED <<active, sqDepth, cqDepth, sqTail, cqHead, cqTail, phase,
                       sqMem, cqBody, cqStat, landed, drv>>
    BY DEF Fetch, CanTake, HasWork, guestMemory, RingType, SlotReserved
  <1>3. c \in AllCommands /\ adm \in AdminStates
    BY <1>1 DEF RingType, TypeOK, MemoryType, CursorType, AdminType
  <1>4. IF Deferred(c, status) THEN adm'.aerCid = c.cid
        ELSE adm'.aer = adm.aer /\ adm'.aerCid = adm.aerCid
    BY <1>1, <1>3, HeldRequest
  <1>5. CASE Changed(c, status) # {} /\ Fail
    <2>1. ~Deferred(c, status)
      BY <1>5 DEF Changed, Deferred
    <2> QED BY <1>1, <1>2, <1>4, <1>5, <2>1 DEF Fail, Taken
  <1>6. CASE /\ pc' = AfterExecute(c, status)
             /\ cur' = IF Deferred(c, status) THEN NoWork
                       ELSE [cid |-> c.cid, status |-> FinalStatus(c, status), result |-> r,
                             data |-> AfterExecute(c, status) = "payload"]
    <2>1. CASE Deferred(c, status)
      BY <1>1, <1>2, <1>4, <1>6, <2>1 DEF AfterExecute, Taken
    <2>2. CASE ~Deferred(c, status) /\ AfterExecute(c, status) = "payload"
      <3>1. cur'.cid = c.cid
        BY <1>6, <2>2
      <3> QED BY <1>1, <1>2, <1>4, <1>6, <2>2, <3>1 DEF Taken
    <2>3. CASE ~Deferred(c, status) /\ AfterExecute(c, status) = "body"
      <3>1. cur'.cid = c.cid /\ cur'.data = FALSE
        BY <1>6, <2>3
      <3> QED BY <1>1, <1>2, <1>4, <1>6, <2>3, <3>1 DEF Taken
    <2> QED BY <2>1, <2>2, <2>3 DEF AfterExecute
  <1> QED BY <1>1, <1>5, <1>6

LEMMA DriverFetch ==
    ASSUME RingType, DriverInv, NEW c, Taken(c)
    PROVE  DriverInv'
  <1> DEFINE d == sqDepth
  <1>1. /\ c = sqMem[sqHead] /\ sqHead' = Advance(sqHead, d) /\ sqHead # sqTail /\ active
        /\ pc = "serve"
        /\ UNCHANGED <<active, sqDepth, cqDepth, sqTail, cqHead, cqTail, phase,
                       sqMem, cqBody, cqStat, landed, drv>>
    BY DEF Taken
  <1>2. d \in Nat /\ d >= 1 /\ sqHead \in 0..d-1 /\ sqTail \in 0..d-1
    BY <1>1, ActiveTypes
  <1>3. /\ CursorOrder /\ HeadsReported /\ Whole /\ OnePlace
        /\ drv.tail \in 0..d-1 /\ drv.sqHead \in 0..d-1
    BY <1>1 DEF DriverInv, CursorOrder
  <1>4. sqHead # drv.tail /\ sqHead \in Queued
    <2>1. Distance(sqHead, sqTail, d) # 0 /\ Distance(sqHead, sqTail, d) \in 0..d-1
      BY <1>1, <1>2, DistanceIs, DistanceZero
    <2>2. Distance(sqHead, drv.tail, d) \in 0..d-1 /\ Distance(sqHead, sqHead, d) = 0
      BY <1>2, <1>3, DistanceIs, DistanceZero
    <2>3. Distance(sqHead, sqTail, d) <= Distance(sqHead, drv.tail, d)
      BY <1>3 DEF CursorOrder
    <2>4. Distance(sqHead, drv.tail, d) > 0
      BY <1>2, <2>1, <2>2, <2>3
    <2> QED BY <1>2, <2>2, <2>4 DEF Queued
  <1>5. Advance(sqHead, d) \in 0..d-1
    BY <1>2, AdvanceIs
  <1>6. Queued' = Queued \ {sqHead} /\ Unread' = Unread
    <2>1. \A i \in 0..d-1 :
             Distance(sqHead', i, d) < Distance(sqHead', drv.tail, d)
               <=> Distance(sqHead, i, d) < Distance(sqHead, drv.tail, d) /\ i # sqHead
      BY <1>1, <1>2, <1>3, <1>4, Shrinks
    <2>2. Queued' = {i \in 0..d-1 : Distance(sqHead', i, d) < Distance(sqHead', drv.tail, d)}
      BY <1>1 DEF Queued
    <2>3. Queued' = Queued \ {sqHead}
      BY <2>1, <2>2 DEF Queued
    <2> QED BY <1>1, <2>3 DEF Unread
  <1>7. /\ Distance(sqHead', sqTail, d) = Distance(sqHead, sqTail, d) - 1
        /\ Distance(sqHead', drv.tail, d) = Distance(sqHead, drv.tail, d) - 1
    BY <1>1, <1>2, <1>3, <1>4, Shrinks
  <1>8. /\ Distance(drv.sqHead, sqHead', d) = Distance(drv.sqHead, sqHead, d) + 1
        /\ Distance(drv.sqHead, sqHead', d) <= Distance(drv.sqHead, drv.tail, d)
    <2>1. /\ Distance(drv.sqHead, sqHead, d) \in 0..d-1
          /\ Distance(drv.sqHead, drv.tail, d) \in 0..d-1
      BY <1>2, <1>3, DistanceIs
    <2>2. Distance(drv.sqHead, sqHead, d) # Distance(drv.sqHead, drv.tail, d)
      BY <1>2, <1>3, <1>4, DistanceZero
    <2>3. Distance(drv.sqHead, sqHead, d) <= Distance(drv.sqHead, drv.tail, d)
      BY <1>3 DEF CursorOrder
    <2>4. Distance(drv.sqHead, sqHead, d) < d - 1
      BY <1>2, <2>1, <2>2, <2>3
    <2>5. Advance(sqHead, d) # drv.sqHead
      BY <1>2, <1>3, <2>4, RoomToGrow
    <2>6. Distance(drv.sqHead, sqHead', d) = Distance(drv.sqHead, sqHead, d) + 1
      BY <1>1, <1>2, <1>3, <2>5, Grows
    <2> QED BY <1>2, <2>1, <2>2, <2>3, <2>6
  <1>9. CursorOrder'
    <2>1. /\ Distance(sqHead, sqTail, d) \in Nat /\ Distance(sqHead, drv.tail, d) \in Nat
      BY <1>2, <1>3, DistanceNat
    <2>2. Distance(sqHead', sqTail, d) <= Distance(sqHead', drv.tail, d)
      BY <1>3, <1>7, <2>1 DEF CursorOrder
    <2> QED BY <1>1, <1>3, <1>8, <2>2 DEF CursorOrder
  <1>10. HeadsReported'
    <2> SUFFICES ASSUME NEW i \in Unread
                 PROVE  /\ cqBody[i].sqhd \in 0..d-1
                        /\ Distance(drv.sqHead, cqBody[i].sqhd, d)
                              <= Distance(drv.sqHead, sqHead', d)
                        /\ \A j \in Unread :
                             Distance(drv.head, i, cqDepth) <= Distance(drv.head, j, cqDepth)
                             => Distance(drv.sqHead, cqBody[i].sqhd, d)
                                  <= Distance(drv.sqHead, cqBody[j].sqhd, d)
      BY <1>1, <1>6 DEF HeadsReported
    <2>1. /\ cqBody[i].sqhd \in 0..d-1
          /\ Distance(drv.sqHead, cqBody[i].sqhd, d) <= Distance(drv.sqHead, sqHead, d)
      BY <1>3 DEF HeadsReported
    <2>2. /\ Distance(drv.sqHead, cqBody[i].sqhd, d) \in Nat
          /\ Distance(drv.sqHead, sqHead, d) \in Nat
      BY <1>2, <1>3, <2>1, DistanceNat
    <2>3. Distance(drv.sqHead, cqBody[i].sqhd, d) <= Distance(drv.sqHead, sqHead', d)
      BY <1>8, <2>1, <2>2
    <2> QED BY <1>3, <2>1, <2>3 DEF HeadsReported
  <1>11. Whole'
    BY <1>1, <1>3, <1>6 DEF Whole, Taken
  <1>12. OnePlace'
    <2>1. /\ \A i \in Queued : /\ sqMem[i].cid \in drv.inFlight
                               /\ \A j \in Queued : i # j => sqMem[i].cid # sqMem[j].cid
          /\ \A i \in Unread : /\ cqBody[i].cid \in drv.inFlight
                               /\ \A j \in Unread : i # j => cqBody[i].cid # cqBody[j].cid
                               /\ \A j \in Queued : cqBody[i].cid # sqMem[j].cid
      BY <1>3 DEF OnePlace
    <2>2. /\ c.cid \in drv.inFlight
          /\ \A i \in Queued' : sqMem[i].cid # c.cid
          /\ \A i \in Unread : cqBody[i].cid # c.cid
      BY <1>1, <1>4, <1>6, <2>1
    <2>3. Executing' => /\ cur'.cid = c.cid
                        /\ adm'.aer = adm.aer /\ adm'.aerCid = adm.aerCid
      BY DEF Taken, Executing
    <2>4. adm'.aer => /\ adm'.aerCid \in drv.inFlight
                      /\ \A i \in Queued' : sqMem[i].cid # adm'.aerCid
                      /\ \A i \in Unread : cqBody[i].cid # adm'.aerCid
                      /\ Executing' => cur'.cid # adm'.aerCid
      <3>1. CASE adm'.aer = adm.aer /\ adm'.aerCid = adm.aerCid
        BY <1>1, <1>3, <1>4, <1>6, <2>3, <3>1 DEF OnePlace
      <3>2. CASE adm'.aerCid = c.cid /\ ~Executing'
        BY <2>2, <3>2
      <3> QED BY <3>1, <3>2 DEF Taken, Executing
    <2> QED BY <1>1, <1>6, <2>1, <2>2, <2>3, <2>4 DEF OnePlace
  <1> QED BY <1>1, <1>9, <1>10, <1>11, <1>12 DEF DriverInv

\* The slot a completion is being written to is not one the driver may read.
LEMMA TailIsFree ==
    ASSUME RingType, active, CursorOrder
    PROVE  cqTail \notin Unread
  <1>1. Distance(drv.head, cqTail, cqDepth) \in Nat
    BY ActiveTypes, DistanceNat DEF CursorOrder
  <1>2. ~(Distance(drv.head, cqTail, cqDepth) < Distance(drv.head, cqTail, cqDepth))
    BY <1>1
  <1> QED BY <1>2 DEF Unread

\* The payload and the body of a completion.
LEMMA DriverWrites ==
    ASSUME RingType, DriverInv, WritePayload(TRUE) \/ WriteBody(TRUE)
    PROVE  DriverInv'
  <1>1. /\ active /\ Executing /\ CursorOrder /\ HeadsReported /\ Whole /\ OnePlace
        /\ UNCHANGED <<active, sqDepth, cqDepth, sqHead, sqTail, cqHead, cqTail, phase, adm,
                       sqMem, cqStat, drv, cur>>
    BY DEF WritePayload, WriteBody, ringCursors, Executing, RingType, SlotReserved, DriverInv
  <1>2. Queued' = Queued /\ Unread' = Unread /\ cqTail \notin Unread
    BY <1>1, TailIsFree DEF Queued, Unread
  <1>3. CursorOrder'
    BY <1>1 DEF CursorOrder
  <1>4. CASE WritePayload(TRUE)
    <2>1. /\ cqBody' = cqBody /\ landed' = landed \cup {cur.cid} /\ pc' = "body"
      BY <1>4 DEF WritePayload
    <2>2. HeadsReported'
      BY <1>1, <1>2, <2>1 DEF HeadsReported
    <2>3. Whole'
      BY <1>1, <1>2, <2>1 DEF Whole
    <2>4. OnePlace'
      BY <1>1, <1>2, <2>1 DEF OnePlace, Executing
    <2> QED BY <1>1, <1>3, <2>2, <2>3, <2>4 DEF DriverInv
  <1>5. CASE WriteBody(TRUE)
    <2>1. /\ landed' = landed /\ pc' = "status" /\ pc = "body"
          /\ cqBody' = [cqBody EXCEPT ![cqTail] =
                           [cid |-> cur.cid, sqhd |-> sqHead, result |-> cur.result]]
      BY <1>5 DEF WriteBody
    <2>2. /\ \A i \in Unread : cqBody'[i] = cqBody[i]
          /\ cqBody'[cqTail].cid = cur.cid /\ cqBody'[cqTail].sqhd = sqHead
      BY <1>2, <2>1 DEF RingType, TypeOK, MemoryType, CursorType
    <2>3. HeadsReported'
      BY <1>1, <1>2, <2>2 DEF HeadsReported
    <2>4. Whole'
      BY <1>1, <1>2, <2>1, <2>2 DEF Whole
    <2>5. OnePlace'
      BY <1>1, <1>2, <2>1, <2>2 DEF OnePlace, Executing
    <2> QED BY <1>1, <1>3, <2>3, <2>4, <2>5 DEF DriverInv
  <1> QED BY <1>4, <1>5

\* There is room for the completion: the tail does not run into the slot the
\* driver reads next.
LEMMA TailHasRoom ==
    ASSUME RingType, PendingExact, active, CursorOrder, Executing
    PROVE  Advance(cqTail, cqDepth) # drv.head
  <1> DEFINE q == cqDepth
  <1>1. q \in Nat /\ q >= 1 /\ cqHead \in 0..q-1 /\ cqTail \in 0..q-1 /\ drv.head \in 0..q-1
    BY ActiveTypes DEF CursorOrder
  <1>2. pending = Distance(cqHead, cqTail, q) /\ pending < q - 1
    BY DEF PendingExact, RingType, SlotReserved, Executing
  <1>3. Distance(cqHead, drv.head, q) <= Distance(cqHead, cqTail, q)
    BY DEF CursorOrder
  <1>4. Distance(drv.head, cqTail, q) = Distance(cqHead, cqTail, q) - Distance(cqHead, drv.head, q)
    BY <1>1, <1>3, DistanceSplit
  <1>5. Distance(cqHead, cqTail, q) \in Nat /\ Distance(cqHead, drv.head, q) \in Nat
    BY <1>1, DistanceNat
  <1>6. Distance(drv.head, cqTail, q) < q - 1
    BY <1>1, <1>2, <1>4, <1>5
  <1> QED BY <1>1, <1>6, RoomToGrow

\* The status word makes the completion readable.
LEMMA DriverPublish ==
    ASSUME RingType, PendingExact, DriverInv, WriteStatus(TRUE)
    PROVE  DriverInv'
  <1> DEFINE q == cqDepth
  <1>1. /\ active /\ pc = "status" /\ pc' = "serve"
        /\ CursorOrder /\ HeadsReported /\ Whole /\ OnePlace
        /\ UNCHANGED <<active, sqDepth, cqDepth, sqHead, sqTail, cqHead, adm,
                       sqMem, cqBody, landed, drv>>
        /\ cqTail' = Advance(cqTail, q)
        /\ phase' = IF cqTail' = 0 THEN 1 - phase ELSE phase
        /\ cqStat' = [cqStat EXCEPT ![cqTail] = [status |-> cur.status, phase |-> phase,
                                                 for |-> cur.cid, data |-> cur.data]]
    BY DEF WriteStatus, RingType, SlotReserved, DriverInv
  <1>2. /\ q \in Nat /\ q >= 1 /\ cqHead \in 0..q-1 /\ cqTail \in 0..q-1
        /\ drv.head \in 0..q-1 /\ phase \in 0..1
        /\ sqDepth \in Nat /\ sqDepth >= 1 /\ sqHead \in 0..sqDepth-1
    BY <1>1, ActiveTypes DEF CursorOrder
  <1>3. cqTail' # drv.head /\ cqTail' # cqHead
    <2>1. cqTail' # drv.head
      BY <1>1, TailHasRoom DEF Executing
    <2>2. Distance(cqHead, cqTail, q) < q - 1
      BY <1>1 DEF PendingExact, RingType, SlotReserved
    <2> QED BY <1>1, <1>2, <2>1, <2>2, RoomToGrow
  <1>4. Queued' = Queued /\ Unread' = Unread \cup {cqTail} /\ cqTail \notin Unread
    <2>1. \A i \in 0..q-1 :
            Distance(drv.head, i, q) < Distance(drv.head, cqTail', q)
              <=> Distance(drv.head, i, q) < Distance(drv.head, cqTail, q) \/ i = cqTail
      BY <1>1, <1>2, <1>3, Grows
    <2>2. Unread' = {i \in 0..q-1 : Distance(drv.head, i, q) < Distance(drv.head, cqTail', q)}
      BY <1>1 DEF Unread
    <2>3. Unread' = Unread \cup {cqTail}
      BY <1>2, <2>1, <2>2 DEF Unread
    <2> QED BY <1>1, <2>3, TailIsFree DEF Queued
  <1>5. CursorOrder'
    <2>1. Distance(cqHead, cqTail', q) = Distance(cqHead, cqTail, q) + 1
      BY <1>1, <1>2, <1>3, Grows
    <2>2. Distance(cqHead, cqTail, q) \in Nat /\ Distance(cqHead, drv.head, q) \in Nat
      BY <1>2, DistanceNat
    <2>3. Distance(cqHead, drv.head, q) <= Distance(cqHead, cqTail', q)
      BY <1>1, <2>1, <2>2 DEF CursorOrder
    <2>4. drv.phase = IF drv.head <= cqTail' THEN phase' ELSE 1 - phase'
      <3>1. cqTail' = IF cqTail + 1 = q THEN 0 ELSE cqTail + 1
        BY <1>1, <1>2, AdvanceIs
      <3>2. drv.phase = IF drv.head <= cqTail THEN phase ELSE 1 - phase
        BY <1>1 DEF CursorOrder
      <3> QED BY <1>1, <1>2, <1>3, <3>1, <3>2
    <2> QED BY <1>1, <2>3, <2>4 DEF CursorOrder
  <1>6. HeadsReported'
    <2>1. cqBody[cqTail].sqhd = sqHead
      BY <1>1 DEF Whole
    <2>2. Distance(drv.sqHead, sqHead, sqDepth) <= Distance(drv.sqHead, sqHead, sqDepth)
      <3>1. drv.sqHead \in 0..sqDepth-1
        BY <1>1 DEF CursorOrder
      <3>2. Distance(drv.sqHead, sqHead, sqDepth) \in Nat
        BY <1>2, <3>1, DistanceNat
      <3> QED BY <3>2
    <2>3. \A j \in Unread : ~(Distance(drv.head, cqTail, q) <= Distance(drv.head, j, q))
      <3> SUFFICES ASSUME NEW j \in Unread
                   PROVE  ~(Distance(drv.head, cqTail, q) <= Distance(drv.head, j, q))
        OBVIOUS
      <3>1. j \in 0..q-1 /\ Distance(drv.head, j, q) < Distance(drv.head, cqTail, q)
        BY DEF Unread
      <3>2. Distance(drv.head, j, q) \in Nat /\ Distance(drv.head, cqTail, q) \in Nat
        BY <1>2, <3>1, DistanceNat
      <3> QED BY <3>1, <3>2
    <2>4. \A i \in Unread' :
            /\ cqBody[i].sqhd \in 0..sqDepth-1
            /\ Distance(drv.sqHead, cqBody[i].sqhd, sqDepth) <= Distance(drv.sqHead, sqHead, sqDepth)
      BY <1>1, <1>2, <1>4, <2>1, <2>2 DEF HeadsReported
    <2>5. ASSUME NEW i \in Unread', NEW j \in Unread',
                 Distance(drv.head, i, q) <= Distance(drv.head, j, q)
          PROVE  Distance(drv.sqHead, cqBody[i].sqhd, sqDepth)
                   <= Distance(drv.sqHead, cqBody[j].sqhd, sqDepth)
      <3>1. CASE j = cqTail
        BY <2>1, <2>4, <3>1
      <3>2. CASE j # cqTail /\ i = cqTail
        BY <1>4, <2>3, <2>5, <3>2
      <3>3. CASE j # cqTail /\ i # cqTail
        BY <1>1, <1>4, <2>5, <3>3 DEF HeadsReported
      <3> QED BY <3>1, <3>2, <3>3
    <2> QED BY <1>1, <2>4, <2>5 DEF HeadsReported
  <1>7. Whole'
    <2>1. /\ \A i \in Unread : cqStat'[i] = cqStat[i]
          /\ cqStat'[cqTail].for = cur.cid /\ cqStat'[cqTail].data = cur.data
      BY <1>1, <1>4 DEF RingType, TypeOK, MemoryType, CursorType
    <2> QED BY <1>1, <1>4, <2>1 DEF Whole
  <1>8. OnePlace'
    <2>1. cqBody[cqTail].cid = cur.cid /\ Executing /\ ~Executing'
      BY <1>1 DEF Whole, Executing
    <2> QED BY <1>1, <1>4, <2>1 DEF OnePlace
  <1> QED BY <1>1, <1>5, <1>6, <1>7, <1>8 DEF DriverInv

\* A driver that keeps a slot free behind the head it knows of keeps one free
\* behind the engine's head.
LEMMA SubmitHasRoom ==
    ASSUME RingType, active, CursorOrder, Advance(drv.tail, sqDepth) # drv.sqHead
    PROVE  Advance(drv.tail, sqDepth) # sqHead
  <1> DEFINE d == sqDepth
             t == drv.tail
  <1>1. d \in Nat /\ d >= 1 /\ sqHead \in 0..d-1 /\ t \in 0..d-1 /\ drv.sqHead \in 0..d-1
    BY ActiveTypes DEF CursorOrder
  <1>2. Distance(drv.sqHead, sqHead, d) <= Distance(drv.sqHead, t, d)
    BY DEF CursorOrder
  <1>3. /\ Distance(drv.sqHead, sqHead, d) \in Nat /\ Distance(drv.sqHead, t, d) \in Nat
        /\ Distance(sqHead, t, d) \in Nat
    BY <1>1, DistanceNat
  <1>4. Distance(drv.sqHead, t, d) < d - 1
    BY <1>1, RoomToGrow
  <1>5. Distance(sqHead, t, d) = Distance(drv.sqHead, t, d) - Distance(drv.sqHead, sqHead, d)
    BY <1>1, <1>2, DistanceSplit
  <1>6. Distance(sqHead, t, d) < d - 1
    BY <1>1, <1>3, <1>4, <1>5
  <1> QED BY <1>1, <1>6, RoomToGrow

\* The driver queues a command behind its tail.
LEMMA DriverSubmits ==
    ASSUME RingType, DriverInv, NEW c \in Commands, DriverSubmit(c)
    PROVE  DriverInv'
  <1> DEFINE d == sqDepth
             t == drv.tail
  <1>1. /\ active /\ CursorOrder /\ HeadsReported /\ Whole /\ OnePlace
        /\ c.cid \notin drv.inFlight /\ Advance(t, d) # drv.sqHead
        /\ sqMem' = [sqMem EXCEPT ![t] = c] /\ landed' = landed \ {c.cid}
        /\ UNCHANGED <<active, sqDepth, cqDepth, sqHead, sqTail, cqHead, cqTail, phase, adm,
                       pc, cur, cqBody, cqStat>>
    BY DEF DriverSubmit, ringCursors, DriverInv
  <1>2. /\ drv'.tail = Advance(t, d) /\ drv'.inFlight = drv.inFlight \cup {c.cid}
        /\ drv'.sqHead = drv.sqHead /\ drv'.head = drv.head /\ drv'.phase = drv.phase
    BY DEF DriverSubmit, RingType, TypeOK, DriverType
  <1>3. /\ d \in Nat /\ d >= 1 /\ sqHead \in 0..d-1 /\ sqTail \in 0..d-1
        /\ t \in 0..d-1 /\ drv.sqHead \in 0..d-1 /\ Advance(t, d) \in 0..d-1
    BY <1>1, ActiveTypes, AdvanceIs DEF CursorOrder
  <1>4. Distance(drv.sqHead, sqHead, d) <= Distance(drv.sqHead, t, d)
    BY <1>1 DEF CursorOrder
  <1>5. /\ Distance(drv.sqHead, sqHead, d) \in Nat /\ Distance(drv.sqHead, t, d) \in Nat
        /\ Distance(sqHead, sqTail, d) \in Nat /\ Distance(sqHead, t, d) \in Nat
    BY <1>3, DistanceNat
  <1>6. Advance(t, d) # sqHead
    BY <1>1, SubmitHasRoom
  <1>7. /\ Distance(sqHead, Advance(t, d), d) = Distance(sqHead, t, d) + 1
        /\ Distance(drv.sqHead, Advance(t, d), d) = Distance(drv.sqHead, t, d) + 1
    BY <1>1, <1>3, <1>6, Grows
  <1>8. Queued' = Queued \cup {t} /\ Unread' = Unread /\ t \notin Queued
    <2>1. \A i \in 0..d-1 :
            Distance(sqHead, i, d) < Distance(sqHead, Advance(t, d), d)
              <=> Distance(sqHead, i, d) < Distance(sqHead, t, d) \/ i = t
      BY <1>3, <1>6, Grows
    <2>2. Queued' = {i \in 0..d-1 : Distance(sqHead, i, d) < Distance(sqHead, Advance(t, d), d)}
      BY <1>1, <1>2 DEF Queued
    <2>3. Queued' = Queued \cup {t}
      BY <1>3, <2>1, <2>2 DEF Queued
    <2>4. t \notin Queued
      <3>1. ~(Distance(sqHead, t, d) < Distance(sqHead, t, d))
        BY <1>5
      <3> QED BY <3>1 DEF Queued
    <2> QED BY <1>1, <1>2, <2>3, <2>4 DEF Unread
  <1>9. (\A i \in Queued : sqMem'[i] = sqMem[i]) /\ sqMem'[t] = c
    BY <1>1, <1>8 DEF RingType, TypeOK, MemoryType, DriverType
  <1>10. CursorOrder'
    <2>1. Distance(sqHead, sqTail, d) <= Distance(sqHead, Advance(t, d), d)
      BY <1>1, <1>5, <1>7 DEF CursorOrder
    <2>2. Distance(drv.sqHead, sqHead, d) <= Distance(drv.sqHead, Advance(t, d), d)
      BY <1>4, <1>5, <1>7
    <2> QED BY <1>1, <1>2, <1>3, <2>1, <2>2 DEF CursorOrder
  <1>11. HeadsReported'
    BY <1>1, <1>2, <1>8 DEF HeadsReported
  <1>12. Whole'
    <2>1. /\ \A i \in Unread : cqBody[i].cid # c.cid
          /\ Executing => cur.cid # c.cid
      BY <1>1 DEF OnePlace
    <2> QED BY <1>1, <1>8, <2>1 DEF Whole, Executing
  <1>13. OnePlace'
    <2>1. /\ \A i \in Queued : sqMem[i].cid # c.cid
          /\ \A i \in Unread : cqBody[i].cid # c.cid
          /\ Executing => cur.cid # c.cid
          /\ adm.aer => adm.aerCid # c.cid
      BY <1>1 DEF OnePlace
    <2>2. Executing' <=> Executing
      BY <1>1 DEF Executing
    <2> QED BY <1>1, <1>2, <1>8, <1>9, <2>1, <2>2 DEF OnePlace
  <1> QED BY <1>1, <1>10, <1>11, <1>12, <1>13 DEF DriverInv

\* The phase bits let the driver read exactly the unread completions.
LEMMA VisibleIsUnread ==
    ASSUME RingType, PhaseDiscipline, active, CursorOrder
    PROVE  Visible <=> drv.head # cqTail
  <1>1. /\ cqDepth \in Nat /\ cqTail \in 0..cqDepth-1 /\ drv.head \in 0..cqDepth-1
        /\ phase \in 0..1
    BY ActiveTypes DEF CursorOrder
  <1>2. cqStat[drv.head].phase = IF drv.head < cqTail THEN phase ELSE 1 - phase
    BY <1>1 DEF PhaseDiscipline
  <1>3. drv.phase = IF drv.head <= cqTail THEN phase ELSE 1 - phase
    BY DEF CursorOrder
  <1> QED BY <1>1, <1>2, <1>3 DEF Visible

\* The driver reads a completion and learns the SQ head from it.
LEMMA DriverConsumes ==
    ASSUME RingType, PhaseDiscipline, DriverInv, DriverConsume
    PROVE  DriverInv'
  <1> DEFINE d == sqDepth
             q == cqDepth
             h == drv.head
             e == Advance(h, q)
             b == cqBody[h]
  <1>1. /\ active /\ Visible /\ CursorOrder /\ HeadsReported /\ Whole /\ OnePlace
        /\ UNCHANGED <<active, sqDepth, cqDepth, sqHead, sqTail, cqHead, cqTail, phase, adm,
                       pc, cur, sqMem, cqBody, cqStat, landed>>
    BY DEF DriverConsume, Visible, ringCursors, guestMemory, DriverInv
  <1>2. /\ drv'.head = e /\ drv'.phase = (IF e = 0 THEN 1 - drv.phase ELSE drv.phase)
        /\ drv'.sqHead = b.sqhd /\ drv'.inFlight = drv.inFlight \ {b.cid}
        /\ drv'.tail = drv.tail
    BY DEF DriverConsume, RingType, TypeOK, DriverType
  <1>3. /\ d \in Nat /\ d >= 1 /\ sqHead \in 0..d-1 /\ drv.tail \in 0..d-1
        /\ drv.sqHead \in 0..d-1
        /\ q \in Nat /\ q >= 1 /\ cqHead \in 0..q-1 /\ cqTail \in 0..q-1 /\ h \in 0..q-1
        /\ phase \in 0..1
    BY <1>1, ActiveTypes DEF CursorOrder
  <1>4. h # cqTail
    BY <1>1, VisibleIsUnread
  <1>5. e \in 0..q-1 /\ e = IF h + 1 = q THEN 0 ELSE h + 1
    BY <1>3, AdvanceIs
  <1>6. Unread' = Unread \ {h} /\ h \in Unread /\ Queued' = Queued
    <2>1. \A i \in 0..q-1 : Distance(e, i, q) < Distance(e, cqTail, q)
                             <=> Distance(h, i, q) < Distance(h, cqTail, q) /\ i # h
      BY <1>3, <1>4, Shrinks
    <2>2. Unread' = {i \in 0..q-1 : Distance(e, i, q) < Distance(e, cqTail, q)}
      BY <1>1, <1>2 DEF Unread
    <2>3. Unread' = Unread \ {h}
      BY <2>1, <2>2 DEF Unread
    <2>4. Distance(h, h, q) = 0 /\ Distance(h, cqTail, q) # 0 /\ Distance(h, cqTail, q) \in Nat
      BY <1>3, <1>4, DistanceZero, DistanceNat
    <2>5. h \in Unread
      BY <1>3, <2>4 DEF Unread
    <2> QED BY <1>1, <1>2, <2>3, <2>5 DEF Queued
  <1>7. /\ b.sqhd \in 0..d-1
        /\ Distance(drv.sqHead, b.sqhd, d) <= Distance(drv.sqHead, sqHead, d)
        /\ Distance(drv.sqHead, sqHead, d) <= Distance(drv.sqHead, drv.tail, d)
    BY <1>1, <1>6 DEF HeadsReported, CursorOrder
  <1>8. /\ Distance(drv.sqHead, b.sqhd, d) \in Nat /\ Distance(drv.sqHead, sqHead, d) \in Nat
        /\ Distance(drv.sqHead, drv.tail, d) \in Nat
        /\ Distance(cqHead, h, q) \in Nat /\ Distance(cqHead, cqTail, q) \in 0..q-1
    BY <1>3, <1>7, DistanceNat, DistanceIs
  <1>9. Distance(drv.sqHead, b.sqhd, d) <= Distance(drv.sqHead, drv.tail, d)
    BY <1>7, <1>8
  <1>10. /\ Distance(b.sqhd, sqHead, d)
               = Distance(drv.sqHead, sqHead, d) - Distance(drv.sqHead, b.sqhd, d)
         /\ Distance(b.sqhd, drv.tail, d)
               = Distance(drv.sqHead, drv.tail, d) - Distance(drv.sqHead, b.sqhd, d)
    BY <1>3, <1>7, <1>9, DistanceSplit
  <1>11. CursorOrder'
    <2>1. Distance(b.sqhd, sqHead, d) <= Distance(b.sqhd, drv.tail, d)
      BY <1>7, <1>8, <1>10
    <2>2. Distance(cqHead, e, q) <= Distance(cqHead, cqTail, q)
      <3>1. Distance(cqHead, h, q) <= Distance(cqHead, cqTail, q)
        BY <1>1 DEF CursorOrder
      <3>2. Distance(cqHead, h, q) # Distance(cqHead, cqTail, q)
        BY <1>3, <1>4, DistanceZero
      <3>3. Distance(cqHead, h, q) < q - 1
        BY <1>3, <1>8, <3>1, <3>2
      <3>4. e # cqHead
        BY <1>3, <3>3, RoomToGrow
      <3>5. Distance(cqHead, e, q) = Distance(cqHead, h, q) + 1
        BY <1>3, <3>4, Grows
      <3> QED BY <1>3, <1>8, <3>1, <3>2, <3>5
    <2>3. drv'.phase = IF e <= cqTail THEN phase ELSE 1 - phase
      <3>1. drv.phase = IF h <= cqTail THEN phase ELSE 1 - phase
        BY <1>1 DEF CursorOrder
      <3> QED BY <1>2, <1>3, <1>4, <1>5, <3>1
    <2>4. Distance(sqHead, sqTail, d) <= Distance(sqHead, drv.tail, d)
      BY <1>1 DEF CursorOrder
    <2> QED BY <1>1, <1>2, <1>3, <1>5, <1>7, <2>1, <2>2, <2>3, <2>4 DEF CursorOrder
  <1>12. HeadsReported'
    <2>1. \A i \in Unread : i \in 0..q-1 /\ Distance(h, h, q) <= Distance(h, i, q)
      <3>1. \A i \in 0..q-1 : Distance(h, i, q) \in Nat
        BY <1>3, DistanceNat
      <3>2. Distance(h, h, q) = 0
        BY <1>3, DistanceZero
      <3> QED BY <3>1, <3>2 DEF Unread
    <2>2. \A i \in Unread :
             /\ cqBody[i].sqhd \in 0..d-1
             /\ Distance(drv.sqHead, cqBody[i].sqhd, d) <= Distance(drv.sqHead, sqHead, d)
             /\ Distance(drv.sqHead, b.sqhd, d) <= Distance(drv.sqHead, cqBody[i].sqhd, d)
      BY <1>1, <1>6, <2>1 DEF HeadsReported
    <2>3. \A i \in Unread :
             Distance(b.sqhd, cqBody[i].sqhd, d)
               = Distance(drv.sqHead, cqBody[i].sqhd, d) - Distance(drv.sqHead, b.sqhd, d)
      BY <1>3, <1>7, <2>2, DistanceSplit
    <2>4. \A i \in Unread : Distance(drv.sqHead, cqBody[i].sqhd, d) \in Nat
      BY <1>3, <2>2, DistanceNat
    <2>5. \A i \in Unread : Distance(b.sqhd, cqBody[i].sqhd, d) <= Distance(b.sqhd, sqHead, d)
      BY <1>8, <1>10, <2>2, <2>3, <2>4
    <2>6. ASSUME NEW i \in Unread, NEW j \in Unread, i # h, j # h,
                 Distance(e, i, q) <= Distance(e, j, q)
          PROVE  Distance(b.sqhd, cqBody[i].sqhd, d) <= Distance(b.sqhd, cqBody[j].sqhd, d)
      <3>1. i \in 0..q-1 /\ j \in 0..q-1
        BY <2>1
      <3>2. /\ Distance(e, i, q) = Distance(h, i, q) - 1
            /\ Distance(e, j, q) = Distance(h, j, q) - 1
        BY <1>3, <1>4, <2>6, <3>1, Shrinks
      <3>3. Distance(h, i, q) \in Nat /\ Distance(h, j, q) \in Nat
        BY <1>3, <3>1, DistanceNat
      <3>4. Distance(h, i, q) <= Distance(h, j, q)
        BY <2>6, <3>2, <3>3
      <3>5. Distance(drv.sqHead, cqBody[i].sqhd, d) <= Distance(drv.sqHead, cqBody[j].sqhd, d)
        BY <1>1, <3>4 DEF HeadsReported
      <3> QED BY <1>8, <2>3, <2>4, <3>5
    <2> QED BY <1>1, <1>2, <1>6, <2>2, <2>5, <2>6 DEF HeadsReported
  <1>13. Whole'
    BY <1>1, <1>6 DEF Whole
  <1>14. OnePlace'
    <2>1. Executing' <=> Executing
      BY <1>1 DEF Executing
    <2>2. /\ \A i \in Unread \ {h} : cqBody[i].cid # b.cid
          /\ \A i \in Queued : sqMem[i].cid # b.cid
          /\ Executing => cur.cid # b.cid
          /\ adm.aer => adm.aerCid # b.cid
      BY <1>1, <1>6 DEF OnePlace
    <2> QED BY <1>1, <1>2, <1>6, <2>1, <2>2 DEF OnePlace
  <1> QED BY <1>1, <1>11, <1>12, <1>13, <1>14 DEF DriverInv

(***************************************************************************)
(* The invariant of the engine and its driver together.                    *)
(***************************************************************************)
RingInv == RingType /\ PendingExact /\ PhaseDiscipline /\ DriverInv

LEMMA RingInvInit == Init => RingInv
  <1> SUFFICES ASSUME Init PROVE RingInv
    OBVIOUS
  <1>1. active = FALSE /\ adm.aer = FALSE
    BY DEF Init, AdminInit
  <1> QED BY <1>1, InitType DEF RingInv, PendingExact, PhaseDiscipline, DriverInv

\* Every step keeps the invariant when the driver's doorbells tell the truth.
LEMMA RingInvNext ==
    ASSUME DriverCorrect, RingInv, [Next]_vars
    PROVE  RingInv'
  <1>0. RingType /\ PendingExact /\ PhaseDiscipline /\ DriverInv
    BY DEF RingInv
  <1>1. RingType' /\ PendingExact' /\ PhaseDiscipline'
    BY <1>0, StepType, StepPending, StepPhase
  <1> SUFFICES DriverInv'
    BY <1>1 DEF RingInv
  <1>2. /\ active => Distance(sqHead, sqTail, sqDepth) <= Distance(sqHead, drv.tail, sqDepth)
        /\ active => Distance(cqHead, drv.head, cqDepth) <= Distance(cqHead, cqTail, cqDepth)
    BY <1>0 DEF DriverInv, CursorOrder
  <1>3. ASSUME UNCHANGED <<active, sqDepth, cqDepth, sqHead, sqTail, cqHead, cqTail, phase, adm,
                           guestMemory, drv>>,
               pc' \notin {"payload", "body", "status"} \/ UNCHANGED <<pc, cur>>
        PROVE  DriverInv'
    BY <1>0, <1>2, <1>3, DriverQuiet
  <1>4. CASE UNCHANGED vars
    BY <1>3, <1>4 DEF vars, ringCursors
  <1>5. CASE \E full \in BOOLEAN : RingReset(full)
    <2>1. 2 \in Depths
      BY DepthAssumption DEF Depths
    <2> QED BY <1>0, <1>5, <2>1, DriverControl
  <1>6. CASE \E ns, nc \in Depths : Configure(ns, nc)
    BY <1>0, <1>6, DriverControl
  <1>7. ASSUME NEW t \in 0..MaxDepth, TailDoorbell(t)
        PROVE  DriverInv'
    <2>1. /\ UNCHANGED <<active, sqDepth, cqDepth, sqHead, cqHead, cqTail, phase, adm,
                         guestMemory, drv>>
          /\ pc' \notin {"payload", "body", "status"} /\ active
          /\ sqTail' = sqTail \/ sqTail' = drv.tail
      <3>1. active /\ sqDepth \in Nat /\ t \in Nat
        BY <1>0, <1>7, ActiveTypes, DepthAssumption DEF TailDoorbell
      <3>2. \/ Fail /\ sqTail' = sqTail
            \/ t = drv.tail /\ sqTail' = t /\ Serve(MaxBudget)
        BY <1>7, <3>1 DEF TailDoorbell
      <3> QED BY <1>7, <3>1, <3>2 DEF TailDoorbell, Fail, Serve
    <2>2. Distance(sqHead, drv.tail, sqDepth) <= Distance(sqHead, drv.tail, sqDepth)
      <3>1. Distance(sqHead, drv.tail, sqDepth) \in Nat
        BY <1>0, <2>1, ActiveTypes, DistanceNat DEF DriverInv, CursorOrder
      <3> QED BY <3>1
    <2> QED BY <1>0, <1>2, <2>1, <2>2, DriverQuiet
  <1>8. ASSUME NEW t \in 0..MaxDepth, AckDoorbell(t)
        PROVE  DriverInv'
    <2>1. /\ UNCHANGED <<active, sqDepth, cqDepth, sqHead, sqTail, cqTail, phase, adm,
                         guestMemory, drv>>
          /\ pc' \notin {"payload", "body", "status"} /\ active
          /\ cqHead' = cqHead \/ cqHead' = drv.head
      <3>1. active /\ cqDepth \in Nat /\ t \in Nat
        BY <1>0, <1>8, ActiveTypes, DepthAssumption DEF AckDoorbell
      <3>2. \/ Fail /\ cqHead' = cqHead
            \/ t = drv.head /\ cqHead' = t /\ pc' = pc
        BY <1>8, <3>1 DEF AckDoorbell
      <3> QED BY <1>8, <3>1, <3>2 DEF AckDoorbell, Fail, Idle
    <2>2. Distance(drv.head, drv.head, cqDepth) <= Distance(drv.head, cqTail, cqDepth)
      <3>1. /\ Distance(drv.head, cqTail, cqDepth) \in Nat
            /\ Distance(drv.head, drv.head, cqDepth) = 0
        BY <1>0, <2>1, ActiveTypes, DistanceNat, DistanceZero DEF DriverInv, CursorOrder
      <3> QED BY <3>1
    <2> QED BY <1>0, <1>2, <2>1, <2>2, DriverQuiet
  <1>9. CASE Poll \/ EndServe \/ FetchFails
    <2>1. /\ UNCHANGED <<active, sqDepth, cqDepth, sqHead, sqTail, cqHead, cqTail, phase, adm,
                         guestMemory, drv>>
          /\ pc' \notin {"payload", "body", "status"}
      BY <1>9 DEF Poll, EndServe, FetchFails, Serve, Fail, ringCursors
    <2> QED BY <1>3, <2>1
  <1>10. ASSUME NEW a \in BOOLEAN, NEW b \in BOOLEAN, Fetch(a, b)
         PROVE  DriverInv'
    BY <1>0, <1>10, FetchTakes, DriverFetch
  <1>11. ASSUME NEW ok \in BOOLEAN, WritePayload(ok) \/ WriteBody(ok) \/ WriteStatus(ok)
         PROVE  DriverInv'
    <2>1. CASE ok
      BY <1>0, <1>11, <2>1, DriverWrites, DriverPublish
    <2>2. CASE ~ok
      <3>1. /\ UNCHANGED <<active, sqDepth, cqDepth, sqHead, sqTail, cqHead, cqTail, phase, adm,
                           guestMemory, drv>>
            /\ pc' \notin {"payload", "body", "status"}
        BY <1>11, <2>2 DEF WritePayload, WriteBody, WriteStatus, Fail, ringCursors, guestMemory
      <3> QED BY <1>3, <3>1
    <2> QED BY <2>1, <2>2
  <1>12. CASE \E c \in Commands : DriverSubmit(c)
    BY <1>0, <1>12, DriverSubmits
  <1>13. CASE DriverConsume
    BY <1>0, <1>13, DriverConsumes
  <1> QED BY <1>4, <1>5, <1>6, <1>7, <1>8, <1>9, <1>10, <1>11, <1>12, <1>13
          DEF Next, HandlerStep

LEMMA RingInvariant ==
    ASSUME DriverCorrect
    PROVE  Spec => []RingInv
  <1>1. RingInv /\ [Next]_vars => RingInv'
    BY RingInvNext
  <1> QED BY <1>1, RingInvInit, PTL DEF Spec

\* For every pair of depths, every command set, any interleaving of the driver's
\* CPU with the loop of nwoas_ring_poll and any failing store: a completion the
\* driver can see is whole, its payload is in memory, and a held Asynchronous
\* Event Request keeps its identifier to itself.
THEOREM CompletionsAlwaysTrue ==
    ASSUME DriverCorrect
    PROVE  Spec => []CompletionsTrue
  <1>1. RingInv => CompletionsTrue
    <2> SUFFICES ASSUME RingInv PROVE CompletionsTrue
      OBVIOUS
    <2>1. RingType /\ PhaseDiscipline /\ DriverInv
      BY DEF RingInv
    <2>2. ASSUME Visible
          PROVE  /\ cqBody[drv.head].cid = cqStat[drv.head].for
                 /\ cqStat[drv.head].data => cqBody[drv.head].cid \in landed
      <3>1. active /\ CursorOrder /\ Whole
        BY <2>1, <2>2 DEF Visible, DriverInv
      <3>2. /\ cqDepth \in Nat /\ cqDepth >= 1 /\ cqTail \in 0..cqDepth-1
            /\ drv.head \in 0..cqDepth-1
        BY <2>1, <3>1, ActiveTypes DEF CursorOrder
      <3>3. drv.head # cqTail
        BY <2>1, <2>2, <3>1, VisibleIsUnread
      <3>4. /\ Distance(drv.head, drv.head, cqDepth) = 0
            /\ Distance(drv.head, cqTail, cqDepth) # 0
            /\ Distance(drv.head, cqTail, cqDepth) \in Nat
        BY <3>2, <3>3, DistanceZero, DistanceNat
      <3>5. drv.head \in Unread
        BY <3>2, <3>4 DEF Unread
      <3> QED BY <3>1, <3>5 DEF Whole
    <2>3. ASSUME active, adm.aer
          PROVE  /\ adm.aerCid \in drv.inFlight
                 /\ \A i \in Unread : cqBody[i].cid # adm.aerCid
      BY <2>1, <2>3 DEF DriverInv, OnePlace
    <2> QED BY <2>2, <2>3 DEF CompletionsTrue, Unread
  <1> QED BY <1>1, RingInvariant, PTL

(***************************************************************************)
(* Stretches of a ring as sequences.                                       *)
(***************************************************************************)
\* The k-th slot after a cursor.
LEMMA SlotIs ==
    ASSUME NEW d \in Nat, d >= 1, NEW a \in 0..d-1, NEW k \in 1..d
    PROVE  /\ (a + k - 1) % d = IF a + k - 1 < d THEN a + k - 1 ELSE a + k - 1 - d
           /\ (a + k - 1) % d \in 0..d-1
           /\ Distance(a, (a + k - 1) % d, d) = k - 1
  <1>1. PICK n \in Nat : n = a + k - 1 /\ n < 2 * d
    OBVIOUS
  <1>2. n % d = IF n < d THEN n ELSE n - d
    <2>1. CASE n < d
      BY <2>1, ModSmall
    <2>2. CASE n >= d
      BY <1>1, <2>2, ModBig
    <2> QED BY <2>1, <2>2
  <1>3. PICK s \in 0..d-1 : s = n % d
    BY <1>1, <1>2
  <1>4. Distance(a, s, d) = IF s >= a THEN s - a ELSE s + d - a
    BY DistanceIs
  <1> QED BY <1>1, <1>2, <1>3, <1>4

\* Counting from the next cursor, and reaching the far end.
LEMMA SlotNext ==
    ASSUME NEW d \in Nat, d >= 1, NEW a \in 0..d-1, NEW b \in 0..d-1
    PROVE  /\ \A k \in 1..d-1 : (Advance(a, d) + k - 1) % d = (a + (k + 1) - 1) % d
           /\ (a + (Distance(a, b, d) + 1) - 1) % d = b
           /\ (a + 1 - 1) % d = a
  <1>1. ASSUME NEW k \in 1..d-1
        PROVE  (Advance(a, d) + k - 1) % d = (a + (k + 1) - 1) % d
    <2>1. PICK e \in 0..d-1 : e = Advance(a, d) /\ e = IF a + 1 = d THEN 0 ELSE a + 1
      BY AdvanceIs
    <2>2. k \in 1..d /\ k + 1 \in 1..d
      OBVIOUS
    <2>3. (e + k - 1) % d = IF e + k - 1 < d THEN e + k - 1 ELSE e + k - 1 - d
      BY <2>2, SlotIs
    <2>4. PICK j \in 1..d : j = k + 1
      BY <2>2
    <2>5. (a + j - 1) % d = IF a + j - 1 < d THEN a + j - 1 ELSE a + j - 1 - d
      BY SlotIs
    <2> QED BY <2>1, <2>3, <2>4, <2>5
  <1>2. (a + (Distance(a, b, d) + 1) - 1) % d = b
    <2>1. PICK n \in 0..d-1 : n = Distance(a, b, d) /\ n = IF b >= a THEN b - a ELSE b + d - a
      BY DistanceIs
    <2>2. PICK j \in 1..d : j = n + 1
      OBVIOUS
    <2>3. (a + j - 1) % d = IF a + j - 1 < d THEN a + j - 1 ELSE a + j - 1 - d
      BY SlotIs
    <2>4. (a + j - 1) % d = b
      BY <2>1, <2>2, <2>3
    <2> QED BY <2>1, <2>2, <2>4
  <1>3. (a + 1 - 1) % d = a
    BY ModSmall
  <1> QED BY <1>1, <1>2, <1>3

\* The values f has at the slots from a to b.
Stretch(f, a, b, d) == [k \in 1..Distance(a, b, d) |-> f[(a + k - 1) % d]]

\* Two pieces of memory hold the same values at those slots.
Agree(f, g, a, b, d) ==
    \A i \in 0..d-1 : Distance(a, i, d) < Distance(a, b, d) => f[i] = g[i]

\* A stretch is a sequence.
LEMMA StretchIsSeq ==
    ASSUME NEW d \in Nat, d >= 1, NEW a \in 0..d-1, NEW b \in 0..d-1, NEW S, NEW f,
           \A i \in 0..d-1 : f[i] \in S
    PROVE  /\ Stretch(f, a, b, d) \in Seq(S)
           /\ Len(Stretch(f, a, b, d)) = Distance(a, b, d)
           /\ \A k \in 1..Distance(a, b, d) : Stretch(f, a, b, d)[k] = f[(a + k - 1) % d]
  <1>1. PICK n \in Nat : n = Distance(a, b, d) /\ n < d
    BY DistanceIs
  <1>2. \A k \in 1..n : (a + k - 1) % d \in 0..d-1
    <2> TAKE k \in 1..n
    <2>1. k \in 1..d
      BY <1>1
    <2> QED BY <2>1, SlotIs
  <1> DEFINE s == [k \in 1..n |-> f[(a + k - 1) % d]]
  <1>3. s \in [1..n -> S]
    BY <1>2
  <1>4. s \in Seq(S) /\ Len(s) = n
    <2> HIDE DEF s
    <2> QED BY <1>3, <1>1
  <1>5. Stretch(f, a, b, d) = s
    BY <1>1 DEF Stretch
  <1> QED BY <1>1, <1>4, <1>5

\* Two stretches of the same slots with the same values.
LEMMA StretchSame ==
    ASSUME NEW d \in Nat, d >= 1, NEW a \in 0..d-1, NEW b \in 0..d-1, NEW f, NEW g,
           Agree(f, g, a, b, d)
    PROVE  Stretch(f, a, b, d) = Stretch(g, a, b, d)
  <1>1. PICK n \in Nat : n = Distance(a, b, d) /\ n < d
    BY DistanceIs
  <1>2. ASSUME NEW k \in 1..n
        PROVE  f[(a + k - 1) % d] = g[(a + k - 1) % d]
    <2>1. k \in 1..d /\ k - 1 < n
      BY <1>1
    <2>2. PICK s \in 0..d-1 : s = (a + k - 1) % d /\ Distance(a, s, d) = k - 1
      BY <2>1, SlotIs
    <2> QED BY <1>1, <2>1, <2>2 DEF Agree
  <1> QED BY <1>1, <1>2 DEF Stretch

\* Taking the first value: the near end moves.
LEMMA StretchTail ==
    ASSUME NEW d \in Nat, d >= 1, NEW a \in 0..d-1, NEW b \in 0..d-1, NEW f, a # b
    PROVE  /\ Stretch(f, a, b, d) # <<>>
           /\ Head(Stretch(f, a, b, d)) = f[a]
           /\ Stretch(f, Advance(a, d), b, d) = Tail(Stretch(f, a, b, d))
  <1>0. PICK S : \A i \in 0..d-1 : f[i] \in S
    <2> WITNESS {f[i] : i \in 0..d-1}
    <2> QED OBVIOUS
  <1> DEFINE s == Stretch(f, a, b, d)
  <1>1. PICK n \in Nat : n = Distance(a, b, d) /\ n < d /\ n # 0
    <2>1. Distance(a, b, d) \in 0..d-1
      BY DistanceIs
    <2>2. Distance(a, b, d) # 0
      BY DistanceZero
    <2> QED BY <2>1, <2>2
  <1>2. s \in Seq(S) /\ Len(s) = n /\ \A k \in 1..n : s[k] = f[(a + k - 1) % d]
    <2>1. s \in Seq(S)
      BY <1>0, StretchIsSeq
    <2>2. Len(s) = Distance(a, b, d)
      BY <1>0, StretchIsSeq
    <2>3. \A k \in 1..Distance(a, b, d) : s[k] = f[(a + k - 1) % d]
      BY DEF Stretch
    <2> HIDE DEF s
    <2> QED BY <1>1, <2>1, <2>2, <2>3
  <1>3. PICK e \in 0..d-1 : e = Advance(a, d)
    BY AdvanceIs
  <1>4. Distance(e, b, d) = n - 1
    BY <1>1, <1>3, Shrinks
  <1> DEFINE t == Stretch(f, e, b, d)
  <1>5. t \in Seq(S) /\ Len(t) = n - 1 /\ \A k \in 1..n-1 : t[k] = f[(e + k - 1) % d]
    <2>1. t \in Seq(S)
      BY <1>0, StretchIsSeq
    <2>2. Len(t) = Distance(e, b, d)
      BY <1>0, StretchIsSeq
    <2>3. \A k \in 1..Distance(e, b, d) : t[k] = f[(e + k - 1) % d]
      BY DEF Stretch
    <2> HIDE DEF t
    <2> QED BY <1>4, <2>1, <2>2, <2>3
  <1> HIDE DEF s, t
  <1>6. s # <<>> /\ 1 \in 1..n
    BY <1>1, <1>2
  <1>7. Head(s) = f[a]
    <2>1. Head(s) = s[1] /\ s[1] = f[(a + 1 - 1) % d]
      BY <1>2, <1>6
    <2> QED BY <2>1, SlotNext
  <1>8. /\ Tail(s) \in Seq(S) /\ Len(Tail(s)) = n - 1
        /\ \A k \in 1..n-1 : Tail(s)[k] = s[k + 1]
    BY <1>2, <1>6, HeadTailProperties
  <1>9. ASSUME NEW k \in 1..n-1
        PROVE  t[k] = Tail(s)[k]
    <2>1. k \in 1..d-1 /\ k + 1 \in 1..n
      BY <1>1
    <2>2. (e + k - 1) % d = (a + (k + 1) - 1) % d
      BY <1>3, <2>1, SlotNext
    <2>3. t[k] = f[(e + k - 1) % d]
      BY <1>5
    <2>4. s[k + 1] = f[(a + (k + 1) - 1) % d]
      BY <1>2, <2>1
    <2>5. Tail(s)[k] = s[k + 1]
      BY <1>8
    <2> QED BY <2>2, <2>3, <2>4, <2>5
  <1>10. t = Tail(s)
    BY <1>5, <1>8, <1>9, SeqEqual
  <1> QED BY <1>3, <1>6, <1>7, <1>10 DEF s, t

\* Adding a value: the far end moves.
LEMMA StretchAppend ==
    ASSUME NEW d \in Nat, d >= 1, NEW a \in 0..d-1, NEW b \in 0..d-1, NEW f, NEW g,
           Advance(b, d) # a,
           Agree(f, g, a, b, d)
    PROVE  Stretch(g, a, Advance(b, d), d) = Stretch(f, a, b, d) \o <<g[b]>>
  <1>set. PICK S : \A i \in 0..d-1 : g[i] \in S
    <2> WITNESS {g[i] : i \in 0..d-1}
    <2> QED OBVIOUS
  <1> DEFINE s == Stretch(g, a, b, d)
  <1>0. Stretch(f, a, b, d) = s
    BY StretchSame
  <1>1. PICK n \in Nat : n = Distance(a, b, d) /\ n < d
    BY DistanceIs
  <1>2. s \in Seq(S) /\ Len(s) = n /\ \A k \in 1..n : s[k] = g[(a + k - 1) % d]
    <2>1. s \in Seq(S)
      BY <1>set, StretchIsSeq
    <2>2. Len(s) = Distance(a, b, d)
      BY <1>set, StretchIsSeq
    <2>3. \A k \in 1..Distance(a, b, d) : s[k] = g[(a + k - 1) % d]
      BY DEF Stretch
    <2> HIDE DEF s
    <2> QED BY <1>1, <2>1, <2>2, <2>3
  <1>3. PICK e \in 0..d-1 : e = Advance(b, d)
    BY AdvanceIs
  <1>4. Distance(a, e, d) = n + 1
    BY <1>1, <1>3, Grows
  <1> DEFINE t == Stretch(g, a, e, d)
  <1>5. t \in Seq(S) /\ Len(t) = n + 1 /\ \A k \in 1..n+1 : t[k] = g[(a + k - 1) % d]
    <2>1. t \in Seq(S)
      BY <1>set, StretchIsSeq
    <2>2. Len(t) = Distance(a, e, d)
      BY <1>set, StretchIsSeq
    <2>3. \A k \in 1..Distance(a, e, d) : t[k] = g[(a + k - 1) % d]
      BY DEF Stretch
    <2> HIDE DEF t
    <2> QED BY <1>4, <2>1, <2>2, <2>3
  <1> HIDE DEF s, t
  <1>6. (a + (n + 1) - 1) % d = b
    BY <1>1, SlotNext
  <1> DEFINE u == Append(s, g[b])
  <1>7. g[b] \in S
    BY <1>set
  <1>8. /\ u \in Seq(S) /\ Len(u) = n + 1 /\ \A i \in 1..n : u[i] = s[i]
        /\ u[n + 1] = g[b]
    BY <1>2, <1>7, AppendProperties
  <1>9. u = s \o <<g[b]>>
    BY <1>2, <1>7, AppendIsConcat
  <1> HIDE DEF u
  <1>10. ASSUME NEW k \in 1..n+1
         PROVE  t[k] = u[k]
    <2>1. CASE k \in 1..n
      BY <2>1, <1>2, <1>5, <1>8
    <2>2. CASE k = n + 1
      BY <2>2, <1>5, <1>6, <1>8
    <2> QED BY <2>1, <2>2
  <1>11. t = u
    BY <1>5, <1>8, <1>10, SeqEqual
  <1> QED BY <1>0, <1>3, <1>9, <1>11 DEF s, t, u

(***************************************************************************)
(* The abstract queue.  Each step of the engine or of the driver is a step *)
(* of AdminQueue on the stretches, or leaves them alone.                   *)
(***************************************************************************)
\* The identifiers in a piece of completion memory.
CidsIn(body, q) == [i \in 0..q-1 |-> body[i].cid]

\* The unread identifiers are a stretch.
LEMMA DoneIsStretch ==
    ASSUME NEW q \in Nat, q >= 1, NEW a \in 0..q-1, NEW b \in 0..q-1, NEW body
    PROVE  [k \in 1..Distance(a, b, q) |-> body[(a + k - 1) % q].cid]
             = Stretch(CidsIn(body, q), a, b, q)
  <1>1. PICK n \in Nat : n = Distance(a, b, q) /\ n < q
    BY DistanceIs
  <1>2. ASSUME NEW k \in 1..n
        PROVE  CidsIn(body, q)[(a + k - 1) % q] = body[(a + k - 1) % q].cid
    <2>1. k \in 1..q
      BY <1>1
    <2>2. PICK s \in 0..q-1 : s = (a + k - 1) % q
      BY <2>1, SlotIs
    <2> QED BY <2>2 DEF CidsIn
  <1> QED BY <1>1, <1>2 DEF Stretch

\* The two sequences of the mapping, as stretches, before and after a step.
LEMMA QueueIs ==
    /\ active => QueueNow = Stretch(sqMem, sqHead, drv.tail, sqDepth)
    /\ active' => QueueNow' = Stretch(sqMem', sqHead', drv'.tail, sqDepth')
    /\ ~active => QueueNow = <<>> /\ DoneNow = <<>>
    /\ ~active' => QueueNow' = <<>> /\ DoneNow' = <<>>
  BY DEF QueueNow, QueueOf, Stretch, DoneNow

LEMMA DoneIs ==
    ASSUME cqDepth \in Nat, cqDepth >= 1, active, active', cqDepth' = cqDepth,
           drv.head \in 0..cqDepth-1, cqTail \in 0..cqDepth-1,
           drv'.head \in 0..cqDepth-1, cqTail' \in 0..cqDepth-1
    PROVE  /\ DoneNow = Stretch(CidsIn(cqBody, cqDepth), drv.head, cqTail, cqDepth)
           /\ DoneNow' = Stretch(CidsIn(cqBody', cqDepth), drv'.head, cqTail', cqDepth)
  <1>1. DoneNow = [k \in 1..Distance(drv.head, cqTail, cqDepth) |->
                     cqBody[(drv.head + k - 1) % cqDepth].cid]
    BY DEF DoneNow, DoneOf
  <1>2. DoneNow' = [k \in 1..Distance(drv'.head, cqTail', cqDepth) |->
                     cqBody'[(drv'.head + k - 1) % cqDepth].cid]
    BY DEF DoneNow, DoneOf
  <1>3. Stretch(CidsIn(cqBody, cqDepth), drv.head, cqTail, cqDepth)
          = [k \in 1..Distance(drv.head, cqTail, cqDepth) |->
                     cqBody[(drv.head + k - 1) % cqDepth].cid]
    BY DoneIsStretch
  <1>4. Stretch(CidsIn(cqBody', cqDepth), drv'.head, cqTail', cqDepth)
          = [k \in 1..Distance(drv'.head, cqTail', cqDepth) |->
                     cqBody'[(drv'.head + k - 1) % cqDepth].cid]
    BY DoneIsStretch
  <1> QED BY <1>1, <1>2, <1>3, <1>4

\* Steps that touch neither side of a mapped sequence.
LEMMA MappedSame ==
    /\ UNCHANGED <<active, sqDepth, sqHead, sqMem, drv.tail>> => QueueNow' = QueueNow
    /\ UNCHANGED <<active, cqDepth, cqTail, cqBody, drv.head>> => DoneNow' = DoneNow
    /\ UNCHANGED <<pc, cur>> => WorkNow' = WorkNow
    /\ pc \in {"idle", "serve"} => WorkNow = <<>>
    /\ pc' \in {"idle", "serve"} => WorkNow' = <<>>
  <1>1. UNCHANGED <<active, sqDepth, sqHead, sqMem, drv.tail>> => QueueNow' = QueueNow
    BY DEF QueueNow, QueueOf
  <1>2. UNCHANGED <<active, cqDepth, cqTail, cqBody, drv.head>> => DoneNow' = DoneNow
    BY DEF DoneNow, DoneOf
  <1>3. /\ UNCHANGED <<pc, cur>> => WorkNow' = WorkNow
        /\ pc \in {"idle", "serve"} => WorkNow = <<>>
        /\ pc' \in {"idle", "serve"} => WorkNow' = <<>>
    BY DEF WorkNow
  <1> QED BY <1>1, <1>2, <1>3

\* Taking a command takes the head of the queue.
LEMMA QueueTakes ==
    ASSUME RingType, CursorOrder, NEW c, Taken(c)
    PROVE  /\ QueueNow # <<>> /\ Head(QueueNow) = c /\ QueueNow' = Tail(QueueNow)
  <1> DEFINE d == sqDepth
  <1>1. /\ active /\ active' /\ c = sqMem[sqHead] /\ sqHead' = Advance(sqHead, d)
        /\ sqHead # sqTail /\ sqDepth' = sqDepth /\ sqMem' = sqMem /\ drv' = drv
    BY DEF Taken
  <1>2. /\ d \in Nat /\ d >= 1 /\ d <= MaxDepth /\ sqHead \in 0..d-1 /\ sqTail \in 0..d-1
        /\ drv.tail \in 0..d-1
    BY <1>1, ActiveTypes DEF CursorOrder
  <1>3. sqHead # drv.tail
    <2>1. Distance(sqHead, sqTail, d) <= Distance(sqHead, drv.tail, d)
      BY DEF CursorOrder
    <2>2. Distance(sqHead, sqTail, d) # 0 /\ Distance(sqHead, sqTail, d) \in Nat
      BY <1>1, <1>2, DistanceZero, DistanceNat
    <2>3. Distance(sqHead, drv.tail, d) \in Nat /\ Distance(sqHead, drv.tail, d) # 0
      BY <1>2, <2>1, <2>2, DistanceNat
    <2> QED BY <1>2, <2>3, DistanceZero
  <1>4. \A i \in 0..d-1 : sqMem[i] \in AllCommands
    BY <1>2, DepthAssumption DEF RingType, TypeOK, MemoryType, Slots
  <1> DEFINE s == Stretch(sqMem, sqHead, drv.tail, d)
  <1>5. /\ s # <<>> /\ Head(s) = sqMem[sqHead]
        /\ Stretch(sqMem, Advance(sqHead, d), drv.tail, d) = Tail(s)
    BY <1>2, <1>3, <1>4, StretchTail
  <1> HIDE DEF s
  <1>6. QueueNow = s /\ QueueNow' = Stretch(sqMem, Advance(sqHead, d), drv.tail, d)
    BY <1>1, QueueIs DEF s
  <1> QED BY <1>1, <1>5, <1>6

\* Submitting a command appends it.
LEMMA QueueGrows ==
    ASSUME RingType, CursorOrder, NEW c \in Commands, DriverSubmit(c)
    PROVE  QueueNow' = Append(QueueNow, c)
  <1> DEFINE d == sqDepth
             t == drv.tail
  <1>1. /\ active /\ active' /\ Advance(t, d) # drv.sqHead
        /\ sqMem' = [sqMem EXCEPT ![t] = c] /\ sqDepth' = sqDepth /\ sqHead' = sqHead
        /\ drv'.tail = Advance(t, d)
    BY DEF DriverSubmit, ringCursors, RingType, TypeOK, DriverType
  <1>2. /\ d \in Nat /\ d >= 1 /\ d <= MaxDepth /\ sqHead \in 0..d-1 /\ t \in 0..d-1
    BY <1>1, ActiveTypes DEF CursorOrder
  <1>3. Advance(t, d) # sqHead
    BY <1>1, SubmitHasRoom
  <1>4. /\ \A i \in 0..d-1 : sqMem[i] \in AllCommands /\ sqMem'[i] \in AllCommands
        /\ \A i \in 0..d-1 : i # t => sqMem[i] = sqMem'[i]
        /\ sqMem'[t] = c
    <2>1. sqMem \in [Slots -> AllCommands] /\ 0..d-1 \subseteq Slots /\ c \in AllCommands
      BY <1>2, DepthAssumption, CommandsAssumption DEF RingType, TypeOK, MemoryType, Slots
    <2> QED BY <1>1, <1>2, <2>1
  <1>5. Agree(sqMem, sqMem', sqHead, t, d)
    <2>1. Distance(sqHead, t, d) \in Nat
      BY <1>2, DistanceNat
    <2>2. ~(Distance(sqHead, t, d) < Distance(sqHead, t, d))
      BY <2>1
    <2> QED BY <1>4, <2>2 DEF Agree
  <1> DEFINE s == Stretch(sqMem, sqHead, t, d)
  <1>6. Stretch(sqMem', sqHead, Advance(t, d), d) = s \o <<sqMem'[t]>>
    BY <1>2, <1>3, <1>5, StretchAppend, ZenonT(60)
  <1>7. s \in Seq(AllCommands)
    BY <1>2, <1>4, StretchIsSeq
  <1>8. QueueNow = s /\ QueueNow' = Stretch(sqMem', sqHead, Advance(t, d), d)
    BY <1>1, QueueIs
  <1> HIDE DEF s
  <1>9. Append(s, c) = s \o <<c>>
    BY <1>7, CommandsAssumption, AppendIsConcat
  <1> QED BY <1>4, <1>6, <1>8, <1>9

\* The writes of a body and of a status word, and the driver's reads.
LEMMA DoneKept ==
    ASSUME RingType, active, CursorOrder, WriteBody(TRUE)
    PROVE  DoneNow' = DoneNow
  <1> DEFINE q == cqDepth
  <1>1. /\ active' /\ UNCHANGED <<cqDepth, cqTail, drv>>
        /\ \E e : cqBody' = [cqBody EXCEPT ![cqTail] = e]
    BY DEF WriteBody, ringCursors
  <1>2. /\ q \in Nat /\ q >= 1 /\ q <= MaxDepth /\ cqTail \in 0..q-1 /\ drv.head \in 0..q-1
    BY ActiveTypes DEF CursorOrder
  <1>3. Agree(CidsIn(cqBody, q), CidsIn(cqBody', q), drv.head, cqTail, q)
    <2> SUFFICES ASSUME NEW i \in 0..q-1, Distance(drv.head, i, q) < Distance(drv.head, cqTail, q)
                 PROVE  CidsIn(cqBody, q)[i] = CidsIn(cqBody', q)[i]
      BY DEF Agree
    <2>1. i # cqTail
      BY TailIsFree DEF Unread
    <2>2. cqBody'[i] = cqBody[i]
      BY <1>1, <2>1
    <2> QED BY <2>2 DEF CidsIn
  <1>4. Stretch(CidsIn(cqBody, q), drv.head, cqTail, q)
          = Stretch(CidsIn(cqBody', q), drv.head, cqTail, q)
    BY <1>2, <1>3, StretchSame
  <1> QED BY <1>1, <1>2, <1>4, DoneIs

LEMMA DoneGrows ==
    ASSUME RingType, PendingExact, active, CursorOrder, Whole, WriteStatus(TRUE)
    PROVE  DoneNow' = DoneNow \o <<cur.cid>>
  <1> DEFINE q == cqDepth
             f == CidsIn(cqBody, q)
  <1>1. /\ active' /\ UNCHANGED <<cqDepth, cqBody, drv>> /\ cqTail' = Advance(cqTail, q)
        /\ pc = "status"
    BY DEF WriteStatus
  <1>2. /\ q \in Nat /\ q >= 1 /\ q <= MaxDepth /\ cqTail \in 0..q-1 /\ drv.head \in 0..q-1
        /\ cqTail' \in 0..q-1
    BY <1>1, ActiveTypes, AdvanceIs DEF CursorOrder
  <1>3. Advance(cqTail, q) # drv.head
    BY <1>1, TailHasRoom DEF Executing
  <1>4. f[cqTail] = cur.cid
    BY <1>1, <1>2 DEF Whole, CidsIn
  <1>5. Agree(f, f, drv.head, cqTail, q)
    BY DEF Agree
  <1>6. Stretch(f, drv.head, Advance(cqTail, q), q) = Stretch(f, drv.head, cqTail, q) \o <<f[cqTail]>>
    <2> HIDE DEF f
    <2> QED BY <1>2, <1>3, <1>5, StretchAppend
  <1>7. /\ DoneNow = Stretch(f, drv.head, cqTail, q)
        /\ DoneNow' = Stretch(f, drv.head, Advance(cqTail, q), q)
    BY <1>1, <1>2, DoneIs
  <1> QED BY <1>4, <1>6, <1>7

LEMMA DoneShrinks ==
    ASSUME RingType, PhaseDiscipline, active, CursorOrder, DriverConsume
    PROVE  DoneNow # <<>> /\ DoneNow' = Tail(DoneNow)
  <1> DEFINE q == cqDepth
             f == CidsIn(cqBody, q)
  <1>1. /\ Visible /\ active' /\ UNCHANGED <<cqDepth, cqTail, cqBody>>
        /\ drv'.head = Advance(drv.head, q)
    BY DEF DriverConsume, ringCursors, guestMemory, RingType, TypeOK, DriverType
  <1>2. /\ q \in Nat /\ q >= 1 /\ q <= MaxDepth /\ cqTail \in 0..q-1 /\ drv.head \in 0..q-1
        /\ drv'.head \in 0..q-1
    BY <1>1, ActiveTypes, AdvanceIs DEF CursorOrder
  <1>3. drv.head # cqTail
    BY <1>1, VisibleIsUnread
  <1>4. /\ Stretch(f, drv.head, cqTail, q) # <<>>
        /\ Stretch(f, Advance(drv.head, q), cqTail, q) = Tail(Stretch(f, drv.head, cqTail, q))
    <2> HIDE DEF f
    <2> QED BY <1>2, <1>3, StretchTail
  <1>5. /\ DoneNow = Stretch(f, drv.head, cqTail, q)
        /\ DoneNow' = Stretch(f, Advance(drv.head, q), cqTail, q)
    BY <1>1, <1>2, DoneIs
  <1> QED BY <1>4, <1>5

\* What a fetch does to the abstract state besides taking the command.
LEMMA FetchOutcome ==
    ASSUME RingType, NEW a \in BOOLEAN, NEW b \in BOOLEAN, Fetch(a, b)
    PROVE  /\ ~fatal /\ DoneNow' = DoneNow /\ WorkNow = <<>> /\ active /\ active'
           /\ \/ fatal' /\ WorkNow' = <<>>
              \/ ~fatal' /\ WorkNow' = <<sqMem[sqHead].cid>>
              \/ ~fatal' /\ WorkNow' = <<>> /\ sqMem[sqHead].op = "AER"
  <1>1. /\ pc = "serve" /\ ~fatal /\ active
        /\ UNCHANGED <<active, cqDepth, cqTail, cqBody, drv>>
    BY DEF Fetch, guestMemory, RingType, SlotReserved
  <1>2. DoneNow' = DoneNow /\ WorkNow = <<>>
    BY <1>1, MappedSame
  <1>3. PICK c, status, r :
          /\ c = sqMem[sqHead]
          /\ \/ Fail
             \/ /\ pc' = AfterExecute(c, status) /\ fatal' = fatal
                /\ cur' = IF Deferred(c, status) THEN NoWork
                          ELSE [cid |-> c.cid, status |-> FinalStatus(c, status), result |-> r,
                                data |-> AfterExecute(c, status) = "payload"]
    BY DEF Fetch
  <1>4. CASE Fail
    BY <1>1, <1>2, <1>4, MappedSame DEF Fail
  <1>5. CASE Deferred(c, status) /\ pc' = AfterExecute(c, status) /\ fatal' = fatal
    <2>1. pc' = "serve" /\ c.op = "AER"
      BY <1>5 DEF AfterExecute, Deferred
    <2> QED BY <1>1, <1>2, <1>3, <1>5, <2>1, MappedSame
  <1>6. CASE /\ ~Deferred(c, status) /\ pc' = AfterExecute(c, status) /\ fatal' = fatal
             /\ cur' = [cid |-> c.cid, status |-> FinalStatus(c, status), result |-> r,
                        data |-> AfterExecute(c, status) = "payload"]
    <2>1. pc' \in {"payload", "body"} /\ cur'.cid = c.cid
      BY <1>6 DEF AfterExecute
    <2>2. WorkNow' = <<c.cid>>
      BY <2>1 DEF WorkNow
    <2> QED BY <1>1, <1>2, <1>3, <1>6, <2>2
  <1> QED BY <1>3, <1>4, <1>5, <1>6

\* A step that fails halts the abstract queue, where nothing else changes.
LEMMA FailHalts ==
    ASSUME Fail, active, ~fatal, active' = active, QueueNow' = QueueNow, DoneNow' = DoneNow
    PROVE  Abstract!Halt
  BY MappedSame DEF Fail, Abstract!Halt

\* Every step of the ring is a step of the abstract queue or leaves it alone.
LEMMA StepSimulates ==
    ASSUME DriverCorrect, RingInv, [Next]_vars
    PROVE  [Abstract!Next]_(Abstract!vars)
  <1>0. RingType /\ PendingExact /\ PhaseDiscipline /\ DriverInv
    BY DEF RingInv
  <1>1. active => CursorOrder /\ Whole
    BY <1>0 DEF DriverInv
  <1>2. ASSUME UNCHANGED <<active, fatal, sqDepth, cqDepth, sqHead, cqTail, sqMem, cqBody, drv>>,
               WorkNow' = WorkNow
        PROVE  UNCHANGED Abstract!vars
    BY <1>2, MappedSame DEF Abstract!vars
  <1>3. ASSUME UNCHANGED <<active, sqDepth, cqDepth, sqHead, cqTail, sqMem, cqBody, drv>>,
               Fail, active, ~fatal
        PROVE  Abstract!Next
    <2>1. QueueNow' = QueueNow /\ DoneNow' = DoneNow
      BY <1>3, MappedSame
    <2> QED BY <1>3, <2>1, FailHalts DEF Abstract!Next
  <1>4. CASE UNCHANGED vars
    <2>1. WorkNow' = WorkNow
      BY <1>4, MappedSame DEF vars
    <2> QED BY <1>2, <1>4, <2>1 DEF vars, ringCursors, guestMemory
  <1>5. ASSUME NEW full \in BOOLEAN, RingReset(full)
        PROVE  Abstract!Next
    <2>1. active' = FALSE /\ fatal' = FALSE /\ pc' = "idle"
      BY <1>5 DEF RingReset, Idle
    <2>2. QueueNow' = <<>> /\ DoneNow' = <<>> /\ WorkNow' = <<>>
      BY <2>1, QueueIs, MappedSame
    <2> QED BY <2>1, <2>2 DEF Abstract!Next, Abstract!Close
  <1>6. ASSUME NEW ns \in Depths, NEW nc \in Depths, Configure(ns, nc)
        PROVE  Abstract!Next
    <2>1. /\ ~active /\ active' = TRUE /\ ~fatal /\ fatal' = fatal /\ pc' = "idle"
          /\ sqDepth' = ns /\ cqDepth' = nc /\ sqHead' = 0 /\ cqTail' = 0
          /\ drv'.tail = 0 /\ drv'.head = 0
      BY <1>6 DEF Configure, ClearCursors, Idle, DriverReset
    <2>2. ns \in Nat /\ ns >= 1 /\ nc \in Nat /\ nc >= 1 /\ 0 \in 0..ns-1 /\ 0 \in 0..nc-1
      BY DepthAssumption DEF Depths
    <2>3. Distance(0, 0, ns) = 0 /\ Distance(0, 0, nc) = 0
      BY <2>2, DistanceZero
    <2>4. QueueNow' = <<>> /\ DoneNow' = <<>>
      BY <2>1, <2>3 DEF QueueNow, QueueOf, DoneNow, DoneOf
    <2>5. WorkNow' = <<>>
      BY <2>1, MappedSame
    <2>6. fatal' = FALSE
      BY <1>0, <2>1 DEF RingType, TypeOK, FlagType
    <2> QED BY <2>1, <2>4, <2>5, <2>6 DEF Abstract!Next, Abstract!Open
  <1>7. ASSUME NEW t \in 0..MaxDepth, TailDoorbell(t) \/ AckDoorbell(t)
        PROVE  Abstract!Next \/ UNCHANGED Abstract!vars
    <2>1. /\ UNCHANGED <<active, sqDepth, cqDepth, sqHead, cqTail, sqMem, cqBody, drv>>
          /\ active /\ ~fatal /\ pc = "idle"
          /\ Fail \/ (fatal' = fatal /\ pc' \in {"idle", "serve"})
      BY <1>7 DEF TailDoorbell, AckDoorbell, Serve, Idle, guestMemory
    <2>2. CASE Fail
      BY <1>3, <2>1, <2>2
    <2>3. CASE fatal' = fatal /\ pc' \in {"idle", "serve"}
      <3>1. WorkNow' = WorkNow
        BY <2>1, <2>3, MappedSame
      <3> QED BY <1>2, <2>1, <2>3, <3>1
    <2> QED BY <2>1, <2>2, <2>3
  <1>8. CASE Poll \/ EndServe \/ FetchFails
    <2>1. /\ UNCHANGED <<active, sqDepth, cqDepth, sqHead, cqTail, sqMem, cqBody, drv>>
          /\ pc \in {"idle", "serve"}
          /\ Fail \/ (fatal' = fatal /\ pc' \in {"idle", "serve"})
      BY <1>8 DEF Poll, EndServe, FetchFails, Serve, Idle, ringCursors, guestMemory
    <2>2. CASE Fail
      <3>1. active /\ ~fatal
        BY <1>0, <1>8 DEF Poll, EndServe, FetchFails, RingType, SlotReserved
      <3> QED BY <1>3, <2>1, <2>2, <3>1
    <2>3. CASE fatal' = fatal /\ pc' \in {"idle", "serve"}
      <3>1. WorkNow' = WorkNow
        BY <2>1, <2>3, MappedSame
      <3> QED BY <1>2, <2>1, <2>3, <3>1
    <2> QED BY <2>1, <2>2, <2>3
  <1>9. ASSUME NEW a \in BOOLEAN, NEW b \in BOOLEAN, Fetch(a, b)
        PROVE  Abstract!Next
    <2> DEFINE c == sqMem[sqHead]
    <2>1. /\ ~fatal /\ DoneNow' = DoneNow /\ WorkNow = <<>> /\ active /\ active'
          /\ \/ fatal' /\ WorkNow' = <<>>
             \/ ~fatal' /\ WorkNow' = <<c.cid>>
             \/ ~fatal' /\ WorkNow' = <<>> /\ c.op = "AER"
      BY <1>0, <1>9, FetchOutcome
    <2>2. QueueNow # <<>> /\ Head(QueueNow) = c /\ QueueNow' = Tail(QueueNow)
      BY <1>0, <1>1, <1>9, <2>1, FetchTakes, QueueTakes
    <2>3. fatal' \in BOOLEAN /\ fatal \in BOOLEAN /\ active \in BOOLEAN /\ active' \in BOOLEAN
      BY <1>0, StepType DEF RingType, TypeOK, FlagType
    <2> HIDE DEF c
    <2>4. CASE fatal'
      BY <2>1, <2>2, <2>3, <2>4 DEF Abstract!Next, Abstract!Halt
    <2>5. CASE ~fatal'
      BY <2>1, <2>2, <2>3, <2>5 DEF Abstract!Next, Abstract!Take
    <2> QED BY <2>4, <2>5
  <1>10. ASSUME NEW ok \in BOOLEAN, WritePayload(ok) \/ WriteBody(ok) \/ WriteStatus(ok)
         PROVE  Abstract!Next \/ UNCHANGED Abstract!vars
    <2>1. active /\ ~fatal
      BY <1>0, <1>10 DEF WritePayload, WriteBody, WriteStatus, RingType, SlotReserved
    <2>2. CASE ~ok
      <3>1. /\ UNCHANGED <<active, sqDepth, cqDepth, sqHead, cqTail, sqMem, cqBody, drv>>
            /\ Fail
        BY <1>10, <2>2 DEF WritePayload, WriteBody, WriteStatus, ringCursors, guestMemory
      <3> QED BY <1>3, <2>1, <3>1
    <2>3. CASE ok /\ WritePayload(ok)
      <3>1. /\ UNCHANGED <<active, fatal, sqDepth, cqDepth, sqHead, cqTail, sqMem, cqBody, drv>>
            /\ pc = "payload" /\ pc' = "body" /\ cur' = cur
        BY <2>3 DEF WritePayload, ringCursors
      <3>2. WorkNow' = WorkNow
        BY <3>1 DEF WorkNow
      <3> QED BY <1>2, <3>1, <3>2
    <2>4. CASE ok /\ WriteBody(ok)
      <3>1. /\ UNCHANGED <<active, fatal, sqDepth, sqHead, sqMem, drv>>
            /\ pc = "body" /\ pc' = "status" /\ cur' = cur /\ WriteBody(TRUE)
        BY <2>4 DEF WriteBody, ringCursors
      <3>2. WorkNow' = WorkNow
        BY <3>1 DEF WorkNow
      <3>3. QueueNow' = QueueNow
        BY <3>1, MappedSame
      <3>4. DoneNow' = DoneNow
        BY <1>0, <1>1, <2>1, <3>1, DoneKept
      <3> QED BY <3>1, <3>2, <3>3, <3>4 DEF Abstract!vars
    <2>5. CASE ok /\ WriteStatus(ok)
      <3>1. /\ UNCHANGED <<active, fatal, sqDepth, sqHead, sqMem, drv>>
            /\ pc = "status" /\ pc' = "serve" /\ WriteStatus(TRUE)
        BY <2>5 DEF WriteStatus
      <3>2. WorkNow = <<cur.cid>> /\ WorkNow' = <<>>
        BY <3>1 DEF WorkNow
      <3>3. QueueNow' = QueueNow
        BY <3>1, MappedSame
      <3>4. DoneNow' = DoneNow \o <<cur.cid>>
        BY <1>0, <1>1, <2>1, <3>1, DoneGrows
      <3> QED BY <2>1, <3>1, <3>2, <3>3, <3>4 DEF Abstract!Next, Abstract!Complete
    <2> QED BY <1>10, <2>2, <2>3, <2>4, <2>5
  <1>11. ASSUME NEW c \in Commands, DriverSubmit(c)
         PROVE  Abstract!Next
    <2>1. /\ active /\ UNCHANGED <<active, fatal, cqDepth, cqTail, cqBody, pc, cur>>
          /\ drv'.head = drv.head
      BY <1>0, <1>11 DEF DriverSubmit, ringCursors, RingType, TypeOK, DriverType
    <2>2. DoneNow' = DoneNow /\ WorkNow' = WorkNow
      BY <2>1, MappedSame
    <2>3. QueueNow' = Append(QueueNow, c)
      BY <1>0, <1>1, <1>11, <2>1, QueueGrows
    <2> QED BY <2>1, <2>2, <2>3 DEF Abstract!Next, Abstract!Submit
  <1>12. CASE DriverConsume
    <2>1. /\ active /\ UNCHANGED <<active, fatal, sqDepth, sqHead, sqMem, pc, cur>>
          /\ drv'.tail = drv.tail
      BY <1>0, <1>12 DEF DriverConsume, Visible, ringCursors, guestMemory, RingType, TypeOK,
                         DriverType
    <2>2. QueueNow' = QueueNow /\ WorkNow' = WorkNow
      BY <2>1, MappedSame
    <2>3. DoneNow # <<>> /\ DoneNow' = Tail(DoneNow)
      BY <1>0, <1>1, <1>12, <2>1, DoneShrinks
    <2> QED BY <2>1, <2>2, <2>3 DEF Abstract!Next, Abstract!Deliver
  <1> QED BY <1>4, <1>5, <1>6, <1>7, <1>8, <1>9, <1>10, <1>11, <1>12 DEF Next, HandlerStep

\* For every depth and command set, and any interleaving of the driver's CPU
\* with the loop of nwoas_ring_poll, the engine with a correct driver implements
\* AdminQueue: first in, first out on both rings, one completion per command.
THEOREM RingImplementsQueue ==
    ASSUME DriverCorrect
    PROVE  Spec => ImplementsQueue
  <1>1. Init => Abstract!Init
    <2> SUFFICES ASSUME Init PROVE Abstract!Init
      OBVIOUS
    <2>1. active = FALSE /\ fatal = FALSE /\ pc = "idle"
      BY DEF Init
    <2>2. QueueNow = <<>> /\ DoneNow = <<>> /\ WorkNow = <<>>
      BY <2>1 DEF QueueNow, DoneNow, WorkNow
    <2> QED BY <2>1, <2>2 DEF Abstract!Init
  <1>2. RingInv /\ [Next]_vars => [Abstract!Next]_(Abstract!vars)
    BY StepSimulates
  <1> QED BY <1>1, <1>2, RingInvariant, PTL DEF Spec, ImplementsQueue, Abstract!Spec
=============================================================================
