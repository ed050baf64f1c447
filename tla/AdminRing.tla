------------------------------ MODULE AdminRing ------------------------------
(***************************************************************************)
(* The bounded admin submission/completion engine                          *)
(* (native-s227/admin_ring.c) that interprets commands with AdminState.    *)
(*                                                                         *)
(* The engine runs on one CPU under the hypervisor's big lock, so doorbell *)
(* traps, the deferred poll and resets never overlap.  The guest's other   *)
(* CPUs do not stop: they write submission entries and read completion     *)
(* entries while a handler is in the middle of its loop.  A handler is     *)
(* therefore one step per access to guest memory (pc tells where it is),   *)
(* and the driver's memory accesses interleave with those steps, while     *)
(* every action that needs the lock waits for pc = "idle".                 *)
(*                                                                         *)
(* A callback of the code that can fail (read, write, reconcile,           *)
(* set_cache) is a Boolean parameter of the step that makes the call.      *)
(*                                                                         *)
(* The driver (external: the guest's NVMe driver) is modelled by what the  *)
(* NVMe queue contract lets it do when DriverCorrect holds; otherwise its  *)
(* doorbells carry any value.  A doorbell out of range is always possible. *)
(***************************************************************************)
EXTENDS AdminState, Sequences

CONSTANTS Commands,      \* the commands the driver submits
          MaxDepth,      \* the largest queue depth (256)
          DriverCorrect  \* whether doorbell values follow the NVMe contract

ASSUME CommandsAssumption == Commands \subseteq AllCommands

ASSUME DepthAssumption == MaxDepth \in Nat /\ MaxDepth >= 2

ASSUME DriverAssumption == DriverCorrect \in BOOLEAN

VARIABLES
    active, fatal,          \* r->active, r->fatal
    sqDepth, cqDepth,       \* r->sq_depth, r->cq_depth
    sqHead, sqTail,         \* r->sq_head, r->sq_tail
    cqHead, cqTail,         \* r->cq_head, r->cq_tail
    pending, phase,         \* r->pending, r->phase
    adm,                    \* r->admin
    cache,                  \* the cache policy behind set_cache/get_cache
    owner,                  \* the descriptor generations reconcile last accepted
    reported,               \* the last level given to cb.pending
    pc, budget,             \* where the running handler is; commands it may still take
    cur,                    \* the command in progress: r->command and its result
    sqMem, cqBody, cqStat,  \* guest memory: SQ entries, CQ entry bodies, status words
    landed,                 \* guest memory: cids whose payload has been written
    drv                     \* the driver's own cursors and its commands in flight

ringCursors == <<sqDepth, cqDepth, sqHead, sqTail, cqHead, cqTail, pending, phase>>
guestMemory == <<sqMem, cqBody, cqStat, landed>>
vars == <<active, fatal, ringCursors, adm, cache, owner, reported, pc, budget, cur,
          guestMemory, drv>>

Slots == 0..MaxDepth-1
Depths == 2..MaxDepth
MaxBudget == 256            \* a tail doorbell takes at most 256 commands

NoWork == [cid |-> 0, status |-> Success, result |-> 0, data |-> FALSE]
ZeroBody == [cid |-> 0, sqhd |-> 0, result |-> 0]
\* for and data are not fields of the status word: they record which command it
\* completes and whether it promises a payload in memory.
ZeroStat == [status |-> Success, phase |-> 0, for |-> 0, data |-> FALSE]
DriverReset == [tail |-> 0, sqHead |-> 0, head |-> 0, phase |-> 1, inFlight |-> {}]
Owned(s) == [sqGen |-> s.sqGen, cqGen |-> s.cqGen]

Idle == pc = "idle"
Advance(i, depth) == (i + 1) % depth
Distance(from, to, depth) == (to + depth - from) % depth

Init ==
    /\ active = FALSE /\ fatal = FALSE
    /\ sqDepth = 0 /\ cqDepth = 0
    /\ sqHead = 0 /\ sqTail = 0 /\ cqHead = 0 /\ cqTail = 0
    /\ pending = 0 /\ phase = 1
    /\ adm = AdminInit /\ cache = 1 /\ owner = Owned(AdminInit)
    /\ reported = FALSE /\ pc = "idle" /\ budget = 0 /\ cur = NoWork
    /\ sqMem = [i \in Slots |-> ZeroCommand]
    /\ cqBody = [i \in Slots |-> ZeroBody]
    /\ cqStat = [i \in Slots |-> ZeroStat]
    /\ landed = {} /\ drv = DriverReset

(***************************************************************************)
(* Control operations: nwoas_ring_reset and nwoas_ring_configure.  The     *)
(* driver rebuilds its queues with zeroed memory before it enables them    *)
(* again.                                                                  *)
(***************************************************************************)
ClearCursorsKeepPending ==
    /\ sqHead' = 0 /\ sqTail' = 0 /\ cqHead' = 0 /\ cqTail' = 0
    /\ pending' = pending /\ phase' = 1

ClearCursorsKeepPhase ==
    /\ sqHead' = 0 /\ sqTail' = 0 /\ cqHead' = 0 /\ cqTail' = 0
    /\ pending' = 0 /\ phase' = phase

ClearCursors ==
    /\ sqHead' = 0 /\ sqTail' = 0 /\ cqHead' = 0 /\ cqTail' = 0
    /\ pending' = 0 /\ phase' = 1

\* The owner of the I/O queues is not told: it cancels them itself before it
\* resets the ring, and keeps the generations it reconciled last.
RingReset(full) ==
    /\ Idle
    /\ active' = FALSE /\ fatal' = FALSE
    /\ sqDepth' = 0 /\ cqDepth' = 0 /\ ClearCursors
    /\ adm' = AdminReset(adm, full)
    /\ reported' = FALSE
    /\ drv' = DriverReset
    /\ UNCHANGED <<cache, owner, pc, budget, cur, guestMemory>>

Configure(ns, nc) ==
    /\ Idle /\ ~active /\ ~fatal
    /\ active' = TRUE /\ sqDepth' = ns /\ cqDepth' = nc /\ ClearCursors
    /\ reported' = FALSE
    /\ sqMem' = [i \in Slots |-> ZeroCommand]
    /\ cqBody' = [i \in Slots |-> ZeroBody]
    /\ cqStat' = [i \in Slots |-> ZeroStat]
    /\ landed' = {} /\ drv' = DriverReset
    /\ UNCHANGED <<fatal, adm, cache, owner, pc, budget, cur>>

(***************************************************************************)
(* fail(): the handler stops where it is; pending is reported low.         *)
(***************************************************************************)
FailGoesOn ==
    /\ fatal' = TRUE /\ reported' = FALSE
    /\ pc' = "serve" /\ budget' = budget /\ cur' = NoWork

Fail ==
    /\ fatal' = TRUE /\ reported' = FALSE
    /\ pc' = "idle" /\ budget' = 0 /\ cur' = NoWork

(***************************************************************************)
(* Doorbells and the deferred poll.                                        *)
(***************************************************************************)
Serve(n) == pc' = "serve" /\ budget' = n

TailDoorbell(t) ==
    /\ Idle /\ active /\ ~fatal
    /\ DriverCorrect => (t = drv.tail /\ t # sqTail) \/ t >= sqDepth
    /\ \/ /\ t >= sqDepth
          /\ Fail /\ UNCHANGED sqTail
       \/ /\ t < sqDepth
          /\ sqTail' = t /\ Serve(MaxBudget)
          /\ UNCHANGED <<fatal, reported, cur>>
    /\ UNCHANGED <<active, sqDepth, cqDepth, sqHead, cqHead, cqTail, pending, phase,
                   adm, cache, owner, guestMemory, drv>>

HasWorkWhenFull == sqHead # sqTail /\ pending < cqDepth
HasWorkStingy == sqHead # sqTail /\ pending + 1 < cqDepth - 1
HasWork == sqHead # sqTail /\ pending < cqDepth - 1

\* The owner's scheduled poll: one command per tick (s229_poll).  A tick that
\* finds no work returns at once, a stuttering step.
Poll ==
    /\ Idle /\ active /\ ~fatal /\ HasWork
    /\ Serve(1)
    /\ UNCHANGED <<active, fatal, ringCursors, adm, cache, owner, reported, cur,
                   guestMemory, drv>>

AckDoorbell(h) ==
    /\ Idle /\ active /\ ~fatal
    /\ DriverCorrect => (h = drv.head /\ h # cqHead) \/ h >= cqDepth
    /\ \/ /\ h >= cqDepth \/ Distance(cqHead, h, cqDepth) > pending
          /\ Fail /\ UNCHANGED <<cqHead, pending>>
       \/ /\ h < cqDepth /\ Distance(cqHead, h, cqDepth) <= pending
          /\ cqHead' = h /\ pending' = pending - Distance(cqHead, h, cqDepth)
          /\ reported' = (pending' # 0)
          /\ UNCHANGED <<fatal, pc, budget, cur>>
    /\ UNCHANGED <<active, sqDepth, cqDepth, sqHead, sqTail, cqTail, phase,
                   adm, cache, owner, guestMemory, drv>>

(***************************************************************************)
(* The loop of nwoas_ring_poll.                                            *)
(***************************************************************************)
CanTake == budget > 0 /\ HasWork

EndServe ==
    /\ pc = "serve" /\ ~CanTake
    /\ pc' = "idle" /\ budget' = 0
    /\ UNCHANGED <<active, fatal, ringCursors, adm, cache, owner, reported, cur,
                   guestMemory, drv>>

FetchFails ==
    /\ pc = "serve" /\ CanTake
    /\ Fail
    /\ UNCHANGED <<active, ringCursors, adm, cache, owner, guestMemory, drv>>

AfterExecuteDropsData(c, status) ==
    IF Deferred(c, status) \/ c.op = "Data" THEN "serve" ELSE "body"

\* The step that follows once the command's effects are reconciled.
AfterExecute(c, status) ==
    IF Deferred(c, status) THEN "serve"
    ELSE IF c.op = "Data" /\ status = Success /\ c.arg > 0 THEN "payload"
    ELSE "body"

\* resolve() == 0 turns a successful data command into Invalid Field.
FinalStatus(c, status) ==
    IF c.op = "Data" /\ status = Success /\ c.arg = 0 THEN InvalidField ELSE status

\* Read the entry, execute it, advance the head, reconcile what it changed.
Fetch(setCacheOk, reconcileOk) ==
    LET c == sqMem[sqHead]
        status == Status(adm, c, setCacheOk)
        cacheAfter == IF "cache" \in Changed(c, status) THEN c.arg ELSE cache
        admAfter == Execute(adm, c, status)
    IN  /\ pc = "serve" /\ CanTake
        /\ adm' = admAfter /\ cache' = cacheAfter
        /\ sqHead' = Advance(sqHead, sqDepth)
        /\ \/ /\ Changed(c, status) # {} /\ ~reconcileOk
              /\ Fail /\ UNCHANGED owner
           \/ /\ Changed(c, status) = {} \/ reconcileOk
              /\ owner' = IF Changed(c, status) = {} THEN owner ELSE Owned(admAfter)
              /\ pc' = AfterExecute(c, status)
              /\ budget' = budget - 1
              /\ cur' = IF Deferred(c, status) THEN NoWork
                        ELSE [cid |-> c.cid, status |-> FinalStatus(c, status),
                              result |-> Result(adm, c, status, cacheAfter),
                              data |-> AfterExecute(c, status) = "payload"]
              /\ UNCHANGED <<fatal, reported>>
        /\ UNCHANGED <<active, sqDepth, cqDepth, sqTail, cqHead, cqTail, pending, phase,
                       guestMemory, drv>>

WritePayloadSkipsBody(ok) ==
    /\ pc = "payload"
    /\ \/ /\ ~ok /\ Fail /\ UNCHANGED landed
       \/ /\ ok /\ landed' = landed \cup {cur.cid} /\ pc' = "status"
          /\ UNCHANGED <<fatal, reported, budget, cur>>
    /\ UNCHANGED <<active, ringCursors, adm, cache, owner, sqMem, cqBody, cqStat, drv>>

WritePayload(ok) ==
    /\ pc = "payload"
    /\ \/ /\ ~ok /\ Fail /\ UNCHANGED landed
       \/ /\ ok /\ landed' = landed \cup {cur.cid} /\ pc' = "body"
          /\ UNCHANGED <<fatal, reported, budget, cur>>
    /\ UNCHANGED <<active, ringCursors, adm, cache, owner, sqMem, cqBody, cqStat, drv>>

\* The first 14 bytes of the completion entry.
WriteBody(ok) ==
    /\ pc = "body"
    /\ \/ /\ ~ok /\ Fail /\ UNCHANGED cqBody
       \/ /\ ok /\ pc' = "status"
          /\ cqBody' = [cqBody EXCEPT ![cqTail] =
                           [cid |-> cur.cid, sqhd |-> sqHead, result |-> cur.result]]
          /\ UNCHANGED <<fatal, reported, budget, cur>>
    /\ UNCHANGED <<active, ringCursors, adm, cache, owner, sqMem, cqStat, landed, drv>>

\* After the barrier, the status word; then the cursor, the phase and pending.
WriteStatus(ok) ==
    /\ pc = "status"
    /\ \/ /\ ~ok /\ Fail /\ UNCHANGED <<cqStat, cqTail, pending, phase>>
       \/ /\ ok /\ pc' = "serve"
          /\ cqStat' = [cqStat EXCEPT ![cqTail] =
                           [status |-> cur.status, phase |-> phase, for |-> cur.cid,
                            data |-> cur.data]]
          /\ cqTail' = Advance(cqTail, cqDepth)
          /\ pending' = pending + 1
          /\ phase' = IF cqTail' = 0 THEN 1 - phase ELSE phase
          /\ reported' = TRUE /\ cur' = NoWork
          /\ UNCHANGED <<fatal, budget>>
    /\ UNCHANGED <<active, sqDepth, cqDepth, sqHead, sqTail, cqHead,
                   adm, cache, owner, sqMem, cqBody, landed, drv>>

(***************************************************************************)
(* The driver on another CPU: it needs no lock.                            *)
(***************************************************************************)
DriverSubmit(c) ==
    /\ active
    /\ c.cid \notin drv.inFlight
    /\ Advance(drv.tail, sqDepth) # drv.sqHead
    /\ sqMem' = [sqMem EXCEPT ![drv.tail] = c]
    /\ landed' = landed \ {c.cid}
    /\ drv' = [drv EXCEPT !.tail = Advance(@, sqDepth), !.inFlight = @ \cup {c.cid}]
    /\ UNCHANGED <<active, fatal, ringCursors, adm, cache, owner, reported, pc, budget,
                   cur, cqBody, cqStat>>

\* The entry at the driver's head carries the phase it waits for.
Visible == active /\ cqStat[drv.head].phase = drv.phase

DriverConsume ==
    /\ Visible
    /\ LET next == Advance(drv.head, cqDepth) IN
       drv' = [drv EXCEPT !.head = next,
                          !.phase = IF next = 0 THEN 1 - @ ELSE @,
                          !.sqHead = cqBody[drv.head].sqhd,
                          !.inFlight = @ \ {cqBody[drv.head].cid}]
    /\ UNCHANGED <<active, fatal, ringCursors, adm, cache, owner, reported, pc, budget,
                   cur, guestMemory>>

HandlerStep ==
    \/ EndServe
    \/ FetchFails
    \/ \E setCacheOk, reconcileOk \in BOOLEAN : Fetch(setCacheOk, reconcileOk)
    \/ \E ok \in BOOLEAN : WritePayload(ok) \/ WriteBody(ok) \/ WriteStatus(ok)

Next ==
    \/ \E full \in BOOLEAN : RingReset(full)
    \/ \E ns, nc \in Depths : Configure(ns, nc)
    \/ \E t \in 0..MaxDepth : TailDoorbell(t) \/ AckDoorbell(t)
    \/ Poll
    \/ HandlerStep
    \/ \E c \in Commands : DriverSubmit(c)
    \/ DriverConsume

Spec == Init /\ [][Next]_vars

\* A handler runs to its end; the 5 kHz tick recurs; the driver rings the
\* doorbell for what it queued, consumes what it sees and acknowledges it.
Fairness ==
    /\ WF_vars(HandlerStep)
    /\ WF_vars(Poll)
    /\ WF_vars(TailDoorbell(drv.tail))
    /\ WF_vars(AckDoorbell(drv.head))
    /\ WF_vars(DriverConsume)

FairSpec == Spec /\ Fairness
(***************************************************************************)
(* Properties.                                                             *)
(***************************************************************************)
FlagType == active \in BOOLEAN /\ fatal \in BOOLEAN /\ reported \in BOOLEAN

CursorType ==
    /\ sqDepth \in {0} \cup Depths /\ cqDepth \in {0} \cup Depths
    /\ sqHead \in Slots /\ sqTail \in Slots /\ cqHead \in Slots /\ cqTail \in Slots
    /\ pending \in Slots /\ phase \in 0..1
    /\ active => /\ sqDepth \in Depths /\ cqDepth \in Depths
                 /\ sqHead < sqDepth /\ sqTail < sqDepth
                 /\ cqHead < cqDepth /\ cqTail < cqDepth

AdminType ==
    /\ adm \in AdminStates /\ cache \in 0..1
    /\ owner \in [sqGen : 0..GenModulus-1, cqGen : 0..GenModulus-1]

HandlerType ==
    /\ pc \in {"idle", "serve", "payload", "body", "status"}
    /\ budget \in 0..MaxBudget
    /\ cur \in [cid : Cids, status : Statuses, result : 0..2, data : BOOLEAN]

MemoryType ==
    /\ sqMem \in [Slots -> AllCommands]
    /\ cqBody \in [Slots -> [cid : Cids, sqhd : Slots, result : 0..2]]
    /\ cqStat \in [Slots -> [status : Statuses, phase : 0..1, for : Cids, data : BOOLEAN]]
    /\ landed \subseteq Cids

DriverType ==
    drv \in [tail : Slots, sqHead : Slots, head : Slots, phase : 0..1,
            inFlight : SUBSET Cids]

\* Every variable of the engine, of guest memory and of the driver keeps its
\* range, in particular every cursor stays below the configured depth.
TypeOK == FlagType /\ CursorType /\ AdminType /\ HandlerType /\ MemoryType /\ DriverType

\* pending, which nwoas_ring_poll increments and nwoas_ring_ack decrements, is
\* always the distance from the acknowledged head to the tail, for any sequence
\* of doorbell values, and one completion slot is always left unused.
PendingExact ==
    active => /\ pending = Distance(cqHead, cqTail, cqDepth)
              /\ pending < cqDepth

\* A handler past its fetch runs on an active, healthy ring and still has the
\* completion slot that its loop condition saw free, although it reads the
\* condition several memory accesses before it publishes.
SlotReserved ==
    /\ pc # "idle" => active /\ ~fatal
    /\ pc \in {"payload", "body", "status"} => pending < cqDepth - 1

\* The phase bits in completion memory are those of the current lap below
\* cq_tail and those of the previous lap from cq_tail on, so a reader that
\* follows the phase stops exactly at cq_tail.
PhaseDiscipline ==
    active => \A i \in 0..cqDepth-1 :
                 cqStat[i].phase = IF i < cqTail THEN phase ELSE 1 - phase

\* What the driver can read is true.  The completion it sees next is whole:
\* the body under the status word is the one of the same command, and the
\* payload of a successful data command is in memory (the barrier and the
\* separate status store of nwoas_ring_poll).  And while an Asynchronous Event
\* Request is held (result.deferred), its identifier stays in flight and none
\* of the unread completions carries it, through any number of laps.
CompletionsTrue ==
    /\ Visible => /\ cqBody[drv.head].cid = cqStat[drv.head].for
                  /\ cqStat[drv.head].data => cqBody[drv.head].cid \in landed
    /\ active /\ adm.aer =>
          /\ adm.aerCid \in drv.inFlight
          /\ \A i \in 0..cqDepth-1 :
                Distance(drv.head, i, cqDepth) < Distance(drv.head, cqTail, cqDepth)
                  => cqBody[i].cid # adm.aerCid

\* Once fatal, the controller publishes nothing and consumes nothing until it
\* is reset, however far the failing handler had got, and reports no pending.
FatalIsSilent ==
    [][fatal => /\ UNCHANGED <<cqBody, cqStat>> /\ landed' \subseteq landed
                /\ ~reported'
                /\ fatal' => UNCHANGED <<sqHead, cqTail, adm>>]_vars

\* An I/O queue that exists is the one its owner reconciled last, by generation,
\* except when a refused reconciliation has stopped the controller.  A reset
\* leaves the owner with old generations and may follow a refusal; the next
\* queue the driver creates must be reconciled before anything else runs.
OwnerAgrees ==
    ~fatal => /\ adm.sq => owner.sqGen = adm.sqGen
              /\ adm.cq => owner.cqGen = adm.cqGen

\* Every command the driver queues leaves the in-flight set (completed, or
\* dropped by a reset), unless it is the held AER or the controller is fatal;
\* the backlog behind a full completion queue drains although an
\* acknowledgement never starts work.
CommandsComplete ==
    \A k \in Cids : k \in drv.inFlight ~>
        (k \notin drv.inFlight \/ fatal \/ (adm.aer /\ adm.aerCid = k))

(***************************************************************************)
(* The abstract queue this engine implements for a correct driver.         *)
(***************************************************************************)
\* The commands in memory from the engine's head to the driver's tail.
QueueOf(from, n) == [k \in 1..n |-> sqMem[(from + k - 1) % sqDepth]]

\* The unread completions, from the driver's head to the engine's tail.
DoneOf(from, n) == [k \in 1..n |-> cqBody[(from + k - 1) % cqDepth].cid]

\* The abstract queue's state: what waits, what is in execution, what is unread.
QueueNow == IF active THEN QueueOf(sqHead, Distance(sqHead, drv.tail, sqDepth)) ELSE <<>>
WorkNow == IF pc \in {"payload", "body", "status"} THEN <<cur.cid>> ELSE <<>>
DoneNow == IF active THEN DoneOf(drv.head, Distance(drv.head, cqTail, cqDepth)) ELSE <<>>

Abstract == INSTANCE AdminQueue WITH
    Entries <- Commands, open <- active, halted <- fatal,
    queue <- QueueNow, work <- WorkNow, done <- DoneNow

\* The ring engine with a correct driver implements AdminQueue: first in, first
\* out on both sides, one completion per command, whatever the interleaving of
\* the driver's memory accesses with the loop of nwoas_ring_poll.
ImplementsQueue == Abstract!Spec
=============================================================================
