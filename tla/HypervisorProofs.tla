-------------------------- MODULE HypervisorProofs --------------------------
(***************************************************************************)
(* Proofs about three parts of the hypervisor that share no state in the   *)
(* models: who may run in it (CpuEntry), for every set of CPUs, every      *)
(* threshold and every choice of the CPUs the host pins and switches to;   *)
(* what it delivers into the guest (VgicDelivery), for every number of     *)
(* List Registers, size of the queues and set of sources; and where the    *)
(* guest's addresses lead and what becomes of an access that is emulated   *)
(* (StageTwo, MmioEmulation), for every size of the tables, every place of *)
(* RAM and of the hypervisor in it, and every set of requests and accesses.*)
(***************************************************************************)
EXTENDS CpuEntry, VgicDelivery, MmioEmulation, FiniteSetTheorems, WellFoundedInduction, TLAPS

EntryPoints == {"guest", "entry", "recall", "reswitch", "out", "wait", "yield", "off"}
          \cup Locked

(***************************************************************************)
(* OneOwner is not inductive: HostReturns goes on where caller says, and   *)
(* that is under the lock only because caller is never anything else.      *)
(***************************************************************************)
Owner ==
    /\ pc \in [Cpus -> EntryPoints]
    /\ lock \in Cpus \cup {None}
    /\ caller \in [Cpus -> {"after", "call"}]
    /\ OneOwner

LEMMA OwnerInit == Init => Owner
  BY CpuAssumption DEF Init, Owner, EntryPoints, Locked, OneOwner

\* The steps that take the lock, give it up or stay outside.
LEMMA OwnerLock ==
    ASSUME Owner, NEW c \in Cpus,
           \/ \E cause \in {"emulate", "proxy", "abort", "fiq"} : Trap(c, cause)
           \/ CpuOff(c) \/ FiqExits(c) \/ Acquire(c) \/ Exit(c) \/ Enter(c)
           \/ WaitEnds(c) \/ YieldEnds(c)
    PROVE  Owner'
  <1> USE CpuAssumption DEF Owner, EntryPoints, Locked, OneOwner, Goto
  <1>1. CASE \E cause \in {"emulate", "proxy", "abort", "fiq"} : Trap(c, cause)
    BY <1>1 DEF Trap
  <1>2. CASE CpuOff(c)
    BY <1>2 DEF CpuOff
  <1>3. CASE FiqExits(c)
    BY <1>3 DEF FiqExits
  <1>4. CASE Acquire(c)
    BY <1>4 DEF Acquire
  <1>5. CASE Exit(c)
    BY <1>5 DEF Exit
  <1>6. CASE Enter(c)
    BY <1>6 DEF Enter
  <1>7. CASE WaitEnds(c)
    BY <1>7 DEF WaitEnds
  <1>8. CASE YieldEnds(c)
    BY <1>8 DEF YieldEnds
  <1> QED BY <1>1, <1>2, <1>3, <1>4, <1>5, <1>6, <1>7, <1>8

\* The steps of a handler that has the lock.
LEMMA OwnerHandler ==
    ASSUME Owner, NEW c \in Cpus,
           \/ Emulate(c) \/ AskHost(c) \/ Abort(c) \/ Tick(c) \/ TakeIpi(c)
    PROVE  Owner'
  <1> USE CpuAssumption DEF Owner, EntryPoints, Locked, OneOwner, Goto
  <1>1. CASE Emulate(c)
    BY <1>1 DEF Emulate
  <1>2. CASE AskHost(c)
    BY <1>2 DEF AskHost
  <1>3. CASE Abort(c)
    <2>1. \E place \in {"leave", "call"} : Goto(c, place)
      BY <1>3 DEF Abort
    <2>2. pc[c] = "handle" /\ UNCHANGED <<lock, caller>>
      BY <1>3 DEF Abort
    <2> QED BY <2>1, <2>2
  <1>4. CASE Tick(c)
    BY <1>4 DEF Tick
  <1>5. CASE TakeIpi(c)
    BY <1>5 DEF TakeIpi
  <1> QED BY <1>1, <1>2, <1>3, <1>4, <1>5

\* The steps around the host call, two of which give the lock up.
LEMMA OwnerProxy ==
    ASSUME Owner, NEW c \in Cpus,
           \/ Call(c) \/ MaybeSwitch(c) \/ Rendezvous(c) \/ Gathered(c)
           \/ \E pin \in Pins \cup {None}, switch \in (Switches \cap Started) \cup {None} :
                 HostReturns(c, pin, switch)
    PROVE  Owner'
  <1> USE CpuAssumption DEF Owner, EntryPoints, Locked, OneOwner, Goto
  <1>1. CASE Call(c)
    BY <1>1 DEF Call
  <1>2. CASE MaybeSwitch(c)
    BY <1>2 DEF MaybeSwitch
  <1>3. CASE Rendezvous(c)
    BY <1>3 DEF Rendezvous
  <1>4. CASE Gathered(c)
    BY <1>4 DEF Gathered
  <1>5. CASE \E pin \in Pins \cup {None}, switch \in (Switches \cap Started) \cup {None} :
                 HostReturns(c, pin, switch)
    BY <1>5 DEF HostReturns
  <1> QED BY <1>1, <1>2, <1>3, <1>4, <1>5

LEMMA OwnerNext == Owner /\ [Next]_vars => Owner'
  <1> SUFFICES ASSUME Owner, [Next]_vars PROVE Owner'
    OBVIOUS
  <1>1. CASE UNCHANGED vars
    BY <1>1 DEF vars, Owner, OneOwner
  <1>2. CASE Next
    <2> PICK c \in Cpus : Sync(c) \/ Fiq(c) \/ CpuOff(c) \/ FiqExits(c) \/ Step(c)
      BY <1>2 DEF Next
    <2>1. CASE Sync(c) \/ Fiq(c) \/ CpuOff(c) \/ FiqExits(c)
      BY <2>1, OwnerLock, Zenon DEF Sync, Fiq
    <2>2. CASE Step(c)
      BY <2>2, OwnerLock, OwnerHandler, OwnerProxy, Zenon DEF Step
    <2> QED BY <2>1, <2>2
  <1> QED BY <1>1, <1>2

\* Whoever runs the serialised part of a handler holds bhl, and nobody else
\* does, through every hand-over in hv_exc_proxy and hv_maybe_switch_cpu.
THEOREM AlwaysOneOwner == Spec => []OneOwner
  <1>1. Owner => OneOwner
    BY DEF Owner
  <1> QED BY <1>1, OwnerInit, OwnerNext, PTL DEF Spec

(***************************************************************************)
(* The storm.                                                              *)
(***************************************************************************)
Storm ==
    /\ pinned \in Pins \cup {None}
    /\ streak \in [Cpus -> Nat]
    /\ StormBounded

LEMMA StormInit == Init => Storm
  BY CpuAssumption DEF Init, Storm, StormBounded

LEMMA StormAbort ==
    ASSUME Storm, NEW c \in Cpus, Abort(c)
    PROVE  Storm'
  <1> PICK n \in Counts(c) :
        IF Parks(c, n) THEN streak' = [streak EXCEPT ![c] = 0]
                       ELSE streak' = [streak EXCEPT ![c] = n]
    BY DEF Abort
  <1>1. n \in Nat /\ UNCHANGED pinned
    BY DEF Abort, Counts, Storm
  <1>2. ASSUME c \in Cpus \ (Pins \cup {Boot}), ~Parks(c, n)
        PROVE  n < Threshold
    <2>1. n <= Threshold
      BY <1>2, CpuAssumption DEF Counts, Storm, StormBounded
    <2>2. c # pinned
      BY <1>2, CpuAssumption DEF Storm
    <2>3. n # Threshold
      BY <1>2, <2>2 DEF Parks
    <2> QED BY <1>1, <2>1, <2>3, CpuAssumption
  <1>3. CASE Parks(c, n)
    BY <1>1, <1>3, CpuAssumption DEF Storm, StormBounded
  <1>4. CASE ~Parks(c, n)
    BY <1>1, <1>2, <1>4, CpuAssumption DEF Storm, StormBounded
  <1> QED BY <1>3, <1>4

\* Only an abort counts, and only the host pins.
LEMMA StormOthers ==
    ASSUME NEW c \in Cpus, Sync(c) \/ Fiq(c) \/ CpuOff(c) \/ FiqExits(c) \/ Step(c)
    PROVE  \/ Abort(c)
           \/ UNCHANGED streak /\ pinned' \in Pins \cup {None, pinned}
  BY DEF Sync, Fiq, Trap, CpuOff, FiqExits, Step, Acquire, Exit, Enter, Emulate,
         AskHost, Tick, TakeIpi, Call, WaitEnds, MaybeSwitch, YieldEnds,
         Rendezvous, Gathered, HostReturns

LEMMA StormNext == Storm /\ [Next]_vars => Storm'
  <1> SUFFICES ASSUME Storm, [Next]_vars PROVE Storm'
    OBVIOUS
  <1>1. CASE UNCHANGED vars
    BY <1>1 DEF vars, Storm, StormBounded
  <1>2. CASE Next
    <2> PICK c \in Cpus : Sync(c) \/ Fiq(c) \/ CpuOff(c) \/ FiqExits(c) \/ Step(c)
      BY <1>2 DEF Next
    <2>1. CASE Abort(c)
      BY <2>1, StormAbort
    <2>2. CASE UNCHANGED streak /\ pinned' \in Pins \cup {None, pinned}
      BY <2>2 DEF Storm, StormBounded
    <2> QED BY <2>1, <2>2, StormOthers
  <1> QED BY <1>1, <1>2

\* A secondary CPU that the host never pins is parked before it has asked the
\* host Threshold times about aborts at one ELR.
THEOREM StormAlwaysBounded == Spec => []StormBounded
  <1>1. Storm => StormBounded
    BY DEF Storm
  <1> QED BY <1>1, StormInit, StormNext, PTL DEF Spec

(***************************************************************************)
(* Interrupt delivery.  The shape of the registers and queues: which       *)
(* interrupts a queue can hold is what makes a timer one to be found by    *)
(* hv_vgic_virq_outstanding(), which only looks into the timers' queue.    *)
(***************************************************************************)
Fields == {"lr"} \cup Queues
Registers == [id : Ids \cup {0}, state : {"free", "pending", "active", "eoi"}]
Capped == Levels \cap (Timers \cup {NvmeSpi})
OfQueue(q) == IF q = "timer_queue" THEN Levels \cap Timers
              ELSE IF q = "sgi_queue" THEN Sgis
              ELSE Devices \cup (Levels \cap {UsbSpi, Fl1100Spi})

Well(s) ==
    /\ s = [f \in Fields |-> s[f]]
    /\ s.lr \in [Regs -> Registers]
    /\ \A q \in Queues : s[q] \in Seq(OfQueue(q)) /\ Len(s[q]) <= QueueSize

InHandling == InFlight \cup {"eoi"}
AtMostOne(S) == \A x, y \in S : x = y

Single(s) == \A id \in Capped : AtMostOne(Places(s, InFlight, id))

\* A device line has a copy exactly while it is masked, but for a refused one.
DeviceOk(s, m, f) ==
    \A d \in Devices : /\ AtMostOne(Places(s, InHandling, d))
                       /\ Places(s, InHandling, d) # {} <=> d \in m \ f

NoneWaits(s) == s.timer_queue # <<>> \/ s.irq_queue # <<>> => Free(s) = {}

VgicInv ==
    /\ Well(v) /\ Single(v) /\ DeviceOk(v, masked, refused) /\ NoneWaits(v)
    /\ line \subseteq Levels \cup Devices /\ enabled \subseteq Levels \cap Gated
    /\ masked \subseteq Devices /\ refused \subseteq masked
    /\ pendingIpi \in BOOLEAN /\ sender \in {"idle", "push"} /\ at \in {"guest", "ipi"}

(***************************************************************************)
(* The first free register, and the ranks of the free ones.                *)
(***************************************************************************)
Earlier == {ss \in Nat \X Nat : ss[1] < ss[2]}

LEMMA LeastOf ==
    ASSUME NEW S, S \subseteq Nat, S # {}
    PROVE  \E x \in S : \A y \in S : x <= y
  <1>1. IsWellFoundedOn(Earlier, Nat)
    BY NatLessThanWellFounded DEF OpToRel, Earlier
  <1>2. PICK x \in S : \A y \in S : ~(<<y, x>> \in Earlier)
    BY <1>1, WFMin
  <1>3. ASSUME NEW y \in S PROVE x <= y
    <2>1. x \in Nat /\ y \in Nat /\ <<y, x>> \in Nat \X Nat
      OBVIOUS
    <2>2. ~(y < x)
      BY <1>2, <2>1 DEF Earlier
    <2> QED BY <2>1, <2>2
  <1> QED BY <1>3

LEMMA MinIs ==
    ASSUME NEW S, S \subseteq Nat, S # {}
    PROVE  Min(S) \in S
  <1>1. PICK x \in S : \A y \in S : x <= y
    BY LeastOf
  <1> QED BY <1>1 DEF Min

LEMMA FreeIs ==
    ASSUME NEW s
    PROVE  /\ Free(s) \subseteq Regs /\ Regs \subseteq Nat /\ IsFiniteSet(Free(s))
           /\ Cardinality(Free(s)) \in Nat
  <1>1. LRs \in Nat
    BY VgicAssumption
  <1>2. Regs \subseteq Nat /\ IsFiniteSet(Regs)
    BY <1>1, FS_Interval DEF Regs
  <1>3. Free(s) \in SUBSET Regs
    BY DEF Free
  <1>4. IsFiniteSet(Free(s))
    BY <1>2, <1>3, FS_Subset
  <1> QED BY <1>2, <1>3, <1>4, FS_CardinalityType

\* The free registers are numbered from 1 in their order, each number once.
LEMMA RankIs ==
    ASSUME NEW s
    PROVE  LET n == Cardinality(Free(s))
           IN  /\ \A r \in Free(s) : Rank(s, r) \in 1..n
               /\ \A r1, r2 \in Free(s) : Rank(s, r1) = Rank(s, r2) => r1 = r2
               /\ \A k \in 1..n : \E r \in Free(s) : Rank(s, r) = k
  <1> DEFINE n == Cardinality(Free(s))
             Below(r) == {x \in Free(s) : x <= r}
  <1>1. Free(s) \subseteq Nat /\ IsFiniteSet(Free(s)) /\ n \in Nat
    BY FreeIs
  <1>2. \A r \in Free(s) : /\ Below(r) \in SUBSET Free(s) /\ IsFiniteSet(Below(r))
                           /\ Rank(s, r) \in Nat /\ Rank(s, r) <= n
    <2> TAKE r \in Free(s)
    <2>1. Below(r) \in SUBSET Free(s)
      OBVIOUS
    <2>2. IsFiniteSet(Below(r)) /\ Cardinality(Below(r)) <= n
      BY <1>1, <2>1, FS_Subset
    <2>3. Cardinality(Below(r)) \in Nat
      BY <2>2, FS_CardinalityType
    <2> QED BY <2>1, <2>2, <2>3 DEF Rank
  <1>3. \A r \in Free(s) : Rank(s, r) # 0
    <2> TAKE r \in Free(s)
    <2>1. r \in Below(r)
      BY <1>1
    <2>2. Cardinality(Below(r)) # 0
      BY <1>2, <2>1, FS_EmptySet
    <2> QED BY <2>2 DEF Rank
  <1>4. \A r \in Free(s) : Rank(s, r) \in 1..n
    <2> TAKE r \in Free(s)
    <2>1. Rank(s, r) \in Nat /\ Rank(s, r) <= n /\ Rank(s, r) # 0
      BY <1>2, <1>3
    <2> HIDE DEF n
    <2> QED BY <1>1, <2>1
  <1>5. ASSUME NEW a \in Free(s), NEW b \in Free(s), a < b
        PROVE  Rank(s, a) # Rank(s, b)
    <2>1. Below(a) \in SUBSET Below(b) /\ b \in Below(b) /\ b \notin Below(a)
      BY <1>1, <1>5
    <2>2. Below(a) # Below(b)
      BY <2>1
    <2>3. Cardinality(Below(a)) # Cardinality(Below(b))
      BY <1>2, <2>1, <2>2, FS_Subset
    <2> QED BY <2>3 DEF Rank
  <1>6. \A r1, r2 \in Free(s) : Rank(s, r1) = Rank(s, r2) => r1 = r2
    <2> TAKE r1, r2 \in Free(s)
    <2>1. r1 \in Nat /\ r2 \in Nat
      BY <1>1
    <2>2. r1 < r2 \/ r2 < r1 \/ r1 = r2
      BY <2>1
    <2> QED BY <1>5, <2>2
  <1>7. \A k \in 1..n : \E r \in Free(s) : Rank(s, r) = k
    <2> DEFINE f == [r \in Free(s) |-> Rank(s, r)]
    <2>1. f \in Injection(Free(s), 1..n)
      <3>1. f \in [Free(s) -> 1..n]
        BY <1>4
      <3>2. \A a, b \in Free(s) : f[a] = f[b] => a = b
        BY <1>6
      <3> QED BY <3>1, <3>2 DEF Injection, IsInjective
    <2>2. IsFiniteSet(1..n) /\ Cardinality(1..n) = n
      BY <1>1, FS_Interval
    <2>3. f \in Surjection(Free(s), 1..n)
      BY <2>1, <2>2, FS_Injection
    <2>4. \A k \in 1..n : \E r \in Free(s) : f[r] = k
      BY <2>3 DEF Surjection
    <2> QED BY <2>4
  <1> QED BY <1>4, <1>6, <1>7

(***************************************************************************)
(* Places, and how the operations on registers and queues move them.       *)
(***************************************************************************)
Counted == {InFlight, InHandling}

LEMMA CountedIs ==
    ASSUME NEW st \in Counted
    PROVE  "pending" \in st /\ "active" \in st /\ "free" \notin st
  BY DEF Counted, InHandling, InFlight

LEMMA QueuesAre ==
    /\ "lr" \notin Queues
    /\ \A q \in Queues : q \in {"timer_queue", "sgi_queue", "irq_queue"}
  BY DEF Queues

LEMMA LrPlace ==
    ASSUME NEW s, NEW st, NEW id, NEW r
    PROVE  <<"lr", r>> \in Places(s, st, id)
              <=> r \in Regs /\ s.lr[r].id = id /\ s.lr[r].state \in st
  BY QueuesAre DEF Places

LEMMA QueuePlace ==
    ASSUME NEW s, Well(s), NEW st, NEW id, NEW q \in Queues, NEW k
    PROVE  <<q, k>> \in Places(s, st, id) <=> k \in 1..Len(s[q]) /\ s[q][k] = id
  <1>1. Len(s[q]) \in Nat /\ Len(s[q]) <= QueueSize /\ QueueSize \in Nat
    <2>1. s[q] \in Seq(OfQueue(q)) /\ Len(s[q]) <= QueueSize
      BY DEF Well
    <2> QED BY <2>1, VgicAssumption
  <1>2. k \in 1..Len(s[q]) <=> k \in 1..QueueSize /\ k <= Len(s[q])
    BY <1>1
  <1>3. q # "lr"
    BY QueuesAre
  <1> QED BY <1>2, <1>3 DEF Places

LEMMA PlaceForm ==
    ASSUME NEW s, NEW st, NEW id, NEW p \in Places(s, st, id)
    PROVE  \/ \E r \in Regs : p = <<"lr", r>>
           \/ \E q \in Queues, k \in 1..QueueSize : p = <<q, k>>
  BY DEF Places

\* Two states with the same places of the one interrupt.
LEMMA SamePlaces ==
    ASSUME NEW s, NEW t, NEW st, NEW id,
           \A r \in Regs : (t.lr[r].id = id /\ t.lr[r].state \in st)
                              <=> (s.lr[r].id = id /\ s.lr[r].state \in st),
           \A q \in Queues : t[q] = s[q]
    PROVE  Places(t, st, id) = Places(s, st, id)
  BY QueuesAre DEF Places

\* Only the interrupt id has moved, and there is one copy more of it.
OthersStay(s, t, id) ==
    \A st \in Counted : \A x : x # id => Places(t, st, x) = Places(s, st, x)
OneMore(s, t, id) ==
    \E p : \A st \in Counted : Places(t, st, id) = Places(s, st, id) \cup {p}

LEMMA InjectIs ==
    ASSUME NEW s, Well(s), Free(s) # {}, NEW id \in Ids, NEW t, t = Inject(s, id)
    PROVE  /\ Well(t) /\ \A q \in Queues : t[q] = s[q]
           /\ Free(t) \subseteq Free(s)
           /\ OthersStay(s, t, id) /\ OneMore(s, t, id)
  <1>1. PICK m \in Free(s) : m = Min(Free(s))
    BY MinIs, FreeIs
  <1>2. m \in Regs /\ s.lr[m].state = "free"
    BY DEF Free
  <1>3. PICK lr : lr = [s.lr EXCEPT ![m] = Pending(id)]
    OBVIOUS
  <1>4. t = [s EXCEPT !.lr = lr]
    BY <1>1, <1>3 DEF Inject
  <1>5. Pending(id) \in Registers /\ Pending(id).id = id /\ Pending(id).state = "pending"
    BY DEF Pending, Registers
  <1>6. lr \in [Regs -> Registers]
    BY <1>3, <1>5 DEF Well
  <1>7. t = [f \in Fields |-> t[f]] /\ t.lr = lr /\ \A q \in Queues : t[q] = s[q]
    BY <1>4, QueuesAre DEF Well, Fields
  <1>8. Well(t)
    BY <1>6, <1>7 DEF Well
  <1>9. /\ lr[m].id = id /\ lr[m].state = "pending"
        /\ \A r \in Regs : r # m => lr[r] = s.lr[r]
    BY <1>2, <1>3, <1>5 DEF Well
  <1>10. Free(t) \subseteq Free(s)
    BY <1>7, <1>9 DEF Free
  <1>11. ASSUME NEW st \in Counted, NEW x, x # id PROVE Places(t, st, x) = Places(s, st, x)
    BY <1>2, <1>7, <1>9, <1>11, CountedIs, SamePlaces
  <1>12. ASSUME NEW st \in Counted
         PROVE  Places(t, st, id) = Places(s, st, id) \cup {<<"lr", m>>}
    <2>1. "pending" \in st /\ "free" \notin st
      BY CountedIs
    <2> SUFFICES ASSUME NEW p
                 PROVE  p \in Places(t, st, id) <=> p \in Places(s, st, id) \/ p = <<"lr", m>>
      OBVIOUS
    <2>2. CASE \E r \in Regs : p = <<"lr", r>>
      <3>1. PICK r \in Regs : p = <<"lr", r>>
        BY <2>2
      <3>2. p = <<"lr", m>> <=> r = m
        BY <3>1
      <3> QED BY <1>2, <1>7, <1>9, <2>1, <3>1, <3>2, LrPlace
    <2>3. CASE \E q \in Queues, k \in 1..QueueSize : p = <<q, k>>
      <3>1. PICK q \in Queues, k \in 1..QueueSize : p = <<q, k>>
        BY <2>3
      <3>2. p # <<"lr", m>>
        BY <3>1, QueuesAre
      <3> QED BY <1>7, <1>8, <3>1, <3>2, QueuePlace
    <2>4. CASE ~(\E r \in Regs : p = <<"lr", r>>)
               /\ ~(\E q \in Queues, k \in 1..QueueSize : p = <<q, k>>)
      BY <1>2, <2>4, PlaceForm
    <2> QED BY <2>2, <2>3, <2>4
  <1> QED BY <1>7, <1>8, <1>10, <1>11, <1>12 DEF OthersStay, OneMore

LEMMA AppendIs ==
    ASSUME NEW S, NEW a \in Seq(S), NEW x \in S
    PROVE  /\ Append(a, x) \in Seq(S) /\ Len(Append(a, x)) = Len(a) + 1 /\ Len(a) \in Nat
           /\ Append(a, x)[Len(a) + 1] = x /\ \A k \in 1..Len(a) : Append(a, x)[k] = a[k]
  OBVIOUS

LEMMA PushIs ==
    ASSUME NEW s, Well(s), NEW q \in Queues, NEW id \in OfQueue(q),
           NEW t, t = Push(s, q, id)
    PROVE  /\ Well(t) /\ t.lr = s.lr /\ Free(t) = Free(s)
           /\ \A o \in Queues : o # q => t[o] = s[o]
           /\ Full(s, q) => t = s
           /\ OthersStay(s, t, id)
           /\ ~Full(s, q) => OneMore(s, t, id)
  <1>1. CASE Full(s, q)
    BY <1>1 DEF Push, OthersStay
  <1>2. CASE ~Full(s, q)
    <2>1. PICK a \in Seq(OfQueue(q)) : a = s[q] /\ Len(a) <= QueueSize /\ Len(a) # QueueSize
      BY <1>2 DEF Full, Well
    <2>2. PICK n \in Nat : n = Len(a) /\ n < QueueSize
      BY <2>1, VgicAssumption
    <2>3. PICK b \in Seq(OfQueue(q)) :
            /\ b = Append(a, id) /\ Len(b) = n + 1 /\ b[n + 1] = id
            /\ \A k \in 1..n : b[k] = a[k]
      <3>1. /\ Append(a, id) \in Seq(OfQueue(q)) /\ Len(Append(a, id)) = Len(a) + 1
            /\ Append(a, id)[Len(a) + 1] = id
            /\ \A k \in 1..Len(a) : Append(a, id)[k] = a[k]
        <4>1. PICK S : S = OfQueue(q)
          OBVIOUS
        <4>2. a \in Seq(S) /\ id \in S
          BY <4>1
        <4>3. /\ Append(a, id) \in Seq(S) /\ Len(Append(a, id)) = Len(a) + 1 /\ Len(a) \in Nat
              /\ Append(a, id)[Len(a) + 1] = id
              /\ \A k \in 1..Len(a) : Append(a, id)[k] = a[k]
          BY <4>2
        <4> QED BY <4>1, <4>3
      <3>2. WITNESS Append(a, id) \in Seq(OfQueue(q))
      <3> QED BY <2>2, <3>1
    <2>4. t = [s EXCEPT ![q] = b]
      BY <1>2, <2>1, <2>3 DEF Push
    <2>5. /\ t = [f \in Fields |-> t[f]] /\ t.lr = s.lr /\ t[q] = b
          /\ \A o \in Queues : o # q => t[o] = s[o]
      BY <2>4, QueuesAre DEF Well, Fields
    <2>6. Well(t)
      <3>1. n + 1 <= QueueSize
        BY <2>2, VgicAssumption
      <3> QED BY <2>3, <2>5, <3>1 DEF Well
    <2>7. Free(t) = Free(s)
      BY <2>5 DEF Free
    <2>8. ASSUME NEW st \in Counted, NEW x, NEW p
          PROVE  p \in Places(t, st, x) <=> p \in Places(s, st, x) \/ (x = id /\ p = <<q, n + 1>>)
      <3>1. CASE \E r \in Regs : p = <<"lr", r>>
        <4>1. PICK r \in Regs : p = <<"lr", r>>
          BY <3>1
        <4>2. p # <<q, n + 1>>
          BY <4>1, QueuesAre
        <4> QED BY <2>5, <4>1, <4>2, LrPlace, SMTT(60)
      <3>2. CASE \E o \in Queues, k \in 1..QueueSize : p = <<o, k>>
        <4>1. PICK o \in Queues, k \in 1..QueueSize : p = <<o, k>>
          BY <3>2
        <4>2. CASE o # q
          <5>1. p \in Places(t, st, x) <=> k \in 1..Len(t[o]) /\ t[o][k] = x
            BY <2>6, <4>1, QueuePlace
          <5>2. p \in Places(s, st, x) <=> k \in 1..Len(s[o]) /\ s[o][k] = x
            BY <4>1, QueuePlace
          <5>3. p # <<q, n + 1>>
            BY <4>1, <4>2
          <5> QED BY <2>5, <4>2, <5>1, <5>2, <5>3
        <4>3. CASE o = q
          <5>1. p \in Places(t, st, x) <=> k \in 1..n + 1 /\ b[k] = x
            <6>1. p \in Places(t, st, x) <=> k \in 1..Len(t[q]) /\ t[q][k] = x
              BY <2>6, <4>1, <4>3, QueuePlace
            <6> QED BY <2>3, <2>5, <6>1
          <5>2. p \in Places(s, st, x) <=> k \in 1..n /\ a[k] = x
            BY <2>1, <2>2, <4>1, <4>3, QueuePlace
          <5>3. k \in 1..n + 1 <=> k \in 1..n \/ k = n + 1
            BY <2>2
          <5>4. ~(n + 1 \in 1..n)
            BY <2>2
          <5>5. p = <<q, n + 1>> <=> k = n + 1
            BY <4>1, <4>3
          <5> QED BY <2>3, <5>1, <5>2, <5>3, <5>4, <5>5
        <4> QED BY <4>2, <4>3
      <3>3. CASE ~(\E r \in Regs : p = <<"lr", r>>)
                 /\ ~(\E o \in Queues, k \in 1..QueueSize : p = <<o, k>>)
        <4>1. n + 1 \in 1..QueueSize
          BY <2>2, VgicAssumption
        <4> QED BY <3>3, <4>1, PlaceForm
      <3> QED BY <3>1, <3>2, <3>3
    <2>9. \A st \in Counted : \A x : x # id => Places(t, st, x) = Places(s, st, x)
      <3> TAKE st \in Counted
      <3> TAKE x
      <3> HAVE x # id
      <3>1. \A p : p \in Places(t, st, x) <=> p \in Places(s, st, x)
        BY <2>8
      <3> QED BY <3>1
    <2>10. \A st \in Counted : Places(t, st, id) = Places(s, st, id) \cup {<<q, n + 1>>}
      <3> TAKE st \in Counted
      <3>1. \A p : p \in Places(t, st, id)
                     <=> p \in Places(s, st, id) \cup {<<q, n + 1>>}
        <4> TAKE p
        <4>1. p \in Places(t, st, id) <=> p \in Places(s, st, id) \/ p = <<q, n + 1>>
          BY <2>8
        <4> QED BY <4>1
      <3> QED BY <3>1
    <2> QED BY <1>2, <2>5, <2>6, <2>7, <2>9, <2>10 DEF OthersStay, OneMore
  <1> QED BY <1>1, <1>2

LEMMA RestIs ==
    ASSUME NEW S, NEW a \in Seq(S), NEW n \in Nat
    PROVE  LET b == SubSeq(a, n + 1, Len(a))
           IN  /\ b \in Seq(S) /\ Len(b) \in Nat /\ Len(a) \in Nat
               /\ Len(b) = IF n <= Len(a) THEN Len(a) - n ELSE 0
               /\ \A k \in 1..Len(b) : b[k] = a[k + n]
  OBVIOUS

\* Where an entry or a register of the drained state was before.
Was(s, q, p) ==
    IF p[1] = "lr" THEN IF p[2] \in Free(s) THEN <<q, Rank(s, p[2])>> ELSE p
    ELSE IF p[1] = q THEN <<q, p[2] + Cardinality(Free(s))>> ELSE p

LEMMA DrainIs ==
    ASSUME NEW s, Well(s), NEW q \in Queues, NEW t, t = Drain(s, q)
    PROVE  /\ Well(t) /\ Free(t) \subseteq Free(s)
           /\ \A o \in Queues : o # q => t[o] = s[o]
           /\ t[q] # <<>> => Free(t) = {}
           /\ s[q] = <<>> => t[q] = <<>>
           /\ \A st \in Counted : \A id :
                 /\ AtMostOne(Places(s, st, id)) => AtMostOne(Places(t, st, id))
                 /\ Places(t, st, id) # {} <=> Places(s, st, id) # {}
  <1>1. PICK n \in Nat : n = Cardinality(Free(s))
    BY FreeIs
  <1>2. PICK a \in Seq(OfQueue(q)) : a = s[q] /\ Len(a) <= QueueSize /\ Len(a) \in Nat
    <2>1. s[q] \in Seq(OfQueue(q)) /\ Len(s[q]) <= QueueSize
      BY DEF Well
    <2> QED BY <2>1
  <1>3. PICK b \in Seq(OfQueue(q)) :
          /\ b = SubSeq(a, n + 1, Len(a)) /\ Len(b) \in Nat
          /\ Len(b) = (IF n <= Len(a) THEN Len(a) - n ELSE 0)
          /\ \A k \in 1..Len(b) : b[k] = a[k + n]
    <2>1. PICK S : S = OfQueue(q)
      OBVIOUS
    <2>2. a \in Seq(S)
      BY <2>1
    <2>3. LET c == SubSeq(a, n + 1, Len(a))
          IN  /\ c \in Seq(S) /\ Len(c) \in Nat /\ Len(a) \in Nat
              /\ Len(c) = IF n <= Len(a) THEN Len(a) - n ELSE 0
              /\ \A k \in 1..Len(c) : c[k] = a[k + n]
      BY <2>2
    <2>4. WITNESS SubSeq(a, n + 1, Len(a)) \in Seq(OfQueue(q))
    <2> QED BY <2>1, <2>3
  <1>4. /\ \A r \in Free(s) : Rank(s, r) \in 1..n
        /\ \A r1, r2 \in Free(s) : Rank(s, r1) = Rank(s, r2) => r1 = r2
        /\ \A k \in 1..n : \E r \in Free(s) : Rank(s, r) = k
    BY <1>1, RankIs
  <1>5. Free(s) \subseteq Regs /\ \A r \in Regs : r \in Free(s) <=> s.lr[r].state = "free"
    BY DEF Free
  <1>6. PICK lr : lr = [r \in Regs |-> IF r \in Free(s) /\ Rank(s, r) <= Len(a)
                                       THEN Pending(a[Rank(s, r)]) ELSE s.lr[r]]
    OBVIOUS
  <1>7. t = [s EXCEPT !.lr = lr, ![q] = b]
    BY <1>1, <1>2, <1>3, <1>6 DEF Drain
  <1>8. /\ t = [f \in Fields |-> t[f]] /\ t.lr = lr /\ t[q] = b
        /\ \A o \in Queues : o # q => t[o] = s[o]
    BY <1>7, QueuesAre DEF Well, Fields
  <1>9. ASSUME NEW r \in Free(s), Rank(s, r) <= Len(a)
        PROVE  /\ Rank(s, r) \in 1..Len(a) /\ lr[r] = Pending(a[Rank(s, r)])
               /\ lr[r].id = a[Rank(s, r)] /\ lr[r].state = "pending"
               /\ lr[r] \in Registers
    <2>1. PICK k \in 1..n : k = Rank(s, r) /\ k \in 1..Len(a)
      BY <1>2, <1>4, <1>9
    <2>2. lr[r] = Pending(a[k])
      BY <1>5, <1>6, <1>9, <2>1
    <2>3. a[k] \in OfQueue(q)
      BY <2>1
    <2>4. a[k] \in Ids
      BY <2>3 DEF OfQueue, Ids
    <2> QED BY <2>1, <2>2, <2>4 DEF Pending, Registers
  <1>10. ASSUME NEW r \in Regs, ~(r \in Free(s) /\ Rank(s, r) <= Len(a))
         PROVE  lr[r] = s.lr[r] /\ lr[r] \in Registers
    BY <1>6, <1>10 DEF Well
  <1>11. Well(t)
    <2>1. lr \in [Regs -> Registers]
      <3>1. \A r \in Regs : lr[r] \in Registers
        BY <1>9, <1>10
      <3>2. lr = [r \in Regs |-> lr[r]]
        BY <1>6
      <3> QED BY <3>1, <3>2
    <2>2. Len(b) <= QueueSize
      BY <1>1, <1>2, <1>3, VgicAssumption
    <2> QED BY <1>8, <2>1, <2>2 DEF Well
  <1>12. Free(t) \subseteq Free(s)
    <2> SUFFICES ASSUME NEW r \in Regs, lr[r].state = "free" PROVE r \in Free(s)
      BY <1>8 DEF Free
    <2> QED BY <1>5, <1>10
  <1>13. t[q] # <<>> => Free(t) = {}
    <2> SUFFICES ASSUME b # <<>>, NEW r \in Regs, lr[r].state = "free" PROVE FALSE
      BY <1>8 DEF Free
    <2>1. r \in Free(s)
      BY <1>5, <1>10
    <2>2. Len(b) > 0
      BY <1>3
    <2>3. n < Len(a)
      BY <1>2, <1>3, <2>2
    <2>4. Rank(s, r) <= Len(a)
      BY <1>2, <1>4, <2>1, <2>3
    <2> QED BY <1>9, <2>1, <2>4
  <1>14. s[q] = <<>> => t[q] = <<>>
    <2> SUFFICES ASSUME a = <<>> PROVE b = <<>>
      BY <1>2, <1>8
    <2>1. Len(a) = 0
      OBVIOUS
    <2>2. Len(b) = 0
      BY <1>3, <2>1
    <2> QED BY <2>2
  <1>15. ASSUME NEW st \in Counted, NEW id
         PROVE  /\ AtMostOne(Places(s, st, id)) => AtMostOne(Places(t, st, id))
                /\ Places(t, st, id) # {} <=> Places(s, st, id) # {}
    <2> DEFINE P == Places(s, st, id)
               Q == Places(t, st, id)
               w(p) == Was(s, q, p)
    <2>1. "pending" \in st /\ "free" \notin st
      BY CountedIs
    <2>2. \A j : <<q, j>> \in P <=> j \in 1..Len(a) /\ a[j] = id
      BY <1>2, QueuePlace
    <2>3. \A j : <<q, j>> \in Q <=> j \in 1..Len(b) /\ b[j] = id
      BY <1>8, <1>11, QueuePlace
    <2>4. \A o \in Queues : \A j : o # q => (<<o, j>> \in Q <=> <<o, j>> \in P)
      <3> SUFFICES ASSUME NEW o \in Queues, NEW j, o # q
                   PROVE  <<o, j>> \in Q <=> <<o, j>> \in P
        OBVIOUS
      <3>1. <<o, j>> \in Q <=> j \in 1..Len(t[o]) /\ t[o][j] = id
        BY <1>11, QueuePlace
      <3>2. <<o, j>> \in P <=> j \in 1..Len(s[o]) /\ s[o][j] = id
        BY QueuePlace
      <3> QED BY <1>8, <3>1, <3>2
    <2>5. \A r \in Free(s) : <<"lr", r>> \in Q <=> <<q, Rank(s, r)>> \in P
      <3> TAKE r \in Free(s)
      <3>1. r \in Regs /\ s.lr[r].state = "free"
        BY <1>5
      <3>2. <<"lr", r>> \in Q <=> lr[r].id = id /\ lr[r].state \in st
        BY <1>8, <3>1, LrPlace
      <3>3. CASE Rank(s, r) <= Len(a)
        BY <1>9, <2>1, <2>2, <3>2, <3>3
      <3>4. CASE ~(Rank(s, r) <= Len(a))
        <4>1. ~(Rank(s, r) \in 1..Len(a))
          BY <1>2, <3>4
        <4> QED BY <1>10, <2>1, <2>2, <3>1, <3>2, <3>4, <4>1
      <3> QED BY <3>3, <3>4
    <2>6. \A r \in Regs : r \notin Free(s) => (<<"lr", r>> \in Q <=> <<"lr", r>> \in P)
      BY <1>8, <1>10, LrPlace
    <2>7. \A r \in Free(s) : <<"lr", r>> \notin P
      <3> TAKE r \in Free(s)
      <3>1. r \in Regs /\ s.lr[r].state \notin st
        BY <1>5, <2>1
      <3> QED BY <3>1, LrPlace
    <2>8. \A j \in 1..Len(b) : <<q, j>> \in Q <=> <<q, j + n>> \in P
      <3> TAKE j \in 1..Len(b)
      <3>1. j + n \in 1..Len(a) /\ b[j] = a[j + n]
        BY <1>1, <1>2, <1>3, SMTT(30)
      <3> QED BY <2>2, <2>3, <3>1
    <2> HIDE DEF P, Q
    \* The four ways to be in the new state.
    <2>9. ASSUME NEW p \in Q
          PROVE  /\ w(p) \in P
                 /\ \/ \E r \in Regs \ Free(s) : p = <<"lr", r>> /\ w(p) = <<"lr", r>>
                    \/ \E r \in Free(s) : p = <<"lr", r>> /\ w(p) = <<q, Rank(s, r)>>
                    \/ \E j \in 1..Len(b) : p = <<q, j>> /\ w(p) = <<q, j + n>>
                    \/ \E o \in Queues, j \in 1..QueueSize :
                          o # q /\ p = <<o, j>> /\ w(p) = <<o, j>>
      <3>1. CASE \E r \in Regs : p = <<"lr", r>>
        <4>1. PICK r \in Regs : p = <<"lr", r>>
          BY <3>1
        <4>2. p[1] = "lr" /\ p[2] = r
          BY <4>1
        <4>3. CASE r \in Free(s)
          <5>1. w(p) = <<q, Rank(s, r)>>
            BY <4>2, <4>3 DEF Was
          <5> QED BY <2>5, <2>9, <4>1, <4>3, <5>1
        <4>4. CASE r \notin Free(s)
          <5>1. w(p) = p
            BY <4>2, <4>4 DEF Was
          <5> QED BY <2>6, <2>9, <4>1, <4>4, <5>1
        <4> QED BY <4>3, <4>4
      <3>2. CASE \E o \in Queues, j \in 1..QueueSize : p = <<o, j>>
        <4>1. PICK o \in Queues, j \in 1..QueueSize : p = <<o, j>>
          BY <3>2
        <4>2. p[1] = o /\ p[2] = j /\ o # "lr"
          BY <4>1, QueuesAre
        <4>3. CASE o = q
          <5>1. w(p) = <<q, j + n>>
            BY <1>1, <4>2, <4>3 DEF Was
          <5>2. j \in 1..Len(b)
            BY <2>3, <2>9, <4>1, <4>3
          <5> QED BY <2>8, <2>9, <4>1, <4>3, <5>1, <5>2
        <4>4. CASE o # q
          <5>1. w(p) = p
            BY <4>2, <4>4 DEF Was
          <5> QED BY <2>4, <2>9, <4>1, <4>4, <5>1
        <4> QED BY <4>3, <4>4
      <3> QED BY <2>9, <3>1, <3>2, PlaceForm DEF Q
    <2> HIDE DEF w
    <2>10. ASSUME NEW x \in Q, NEW y \in Q, w(x) = w(y) PROVE x = y
      <3>1. "lr" # q
        BY QueuesAre
      <3>2. ASSUME NEW p \in Q
            PROVE  \/ \E r \in Regs \ Free(s) : p = <<"lr", r>> /\ w(p) = <<"lr", r>>
                   \/ \E r \in Free(s) : /\ p = <<"lr", r>> /\ w(p) = <<q, Rank(s, r)>>
                                         /\ Rank(s, r) \in 1..n
                   \/ \E j \in Nat : j > 0 /\ p = <<q, j>> /\ w(p) = <<q, j + n>>
                   \/ \E o \in Queues, j \in 1..QueueSize :
                         o # q /\ p = <<o, j>> /\ w(p) = <<o, j>>
        BY <1>3, <1>4, <2>9, <3>2
      <3>3. CASE w(x)[1] # q
        <4>1. w(x) = x /\ w(y) = y
          BY <2>10, <3>2, <3>3
        <4> QED BY <2>10, <4>1
      <3>4. CASE w(x)[1] = q /\ w(x)[2] <= n
        <4>1. PICK r1 \in Free(s) : x = <<"lr", r1>> /\ w(x) = <<q, Rank(s, r1)>>
          BY <1>1, <3>1, <3>2, <3>4
        <4>2. PICK r2 \in Free(s) : y = <<"lr", r2>> /\ w(y) = <<q, Rank(s, r2)>>
          BY <1>1, <2>10, <3>1, <3>2, <3>4
        <4> QED BY <1>4, <2>10, <4>1, <4>2
      <3>5. CASE w(x)[1] = q /\ ~(w(x)[2] <= n)
        <4>1. PICK j1 \in Nat : x = <<q, j1>> /\ w(x) = <<q, j1 + n>>
          BY <1>1, <3>1, <3>2, <3>5
        <4>2. PICK j2 \in Nat : y = <<q, j2>> /\ w(y) = <<q, j2 + n>>
          BY <1>1, <2>10, <3>1, <3>2, <3>5
        <4> QED BY <2>10, <4>1, <4>2
      <3> QED BY <3>3, <3>4, <3>5
    <2>11. AtMostOne(P) => AtMostOne(Q)
      BY <2>9, <2>10 DEF AtMostOne
    <2>12. Q # {} => P # {}
      BY <2>9
    <2>13. ASSUME NEW p \in P PROVE Q # {}
      <3>1. CASE \E r \in Regs : p = <<"lr", r>>
        BY <2>6, <2>7, <2>13, <3>1
      <3>2. CASE \E o \in Queues, j \in 1..QueueSize : p = <<o, j>>
        <4>1. PICK o \in Queues, j \in 1..QueueSize : p = <<o, j>>
          BY <3>2
        <4>2. CASE o # q
          BY <2>4, <2>13, <4>1, <4>2
        <4>3. CASE o = q /\ j <= n
          <5>1. PICK r \in Free(s) : Rank(s, r) = j
            BY <1>4, <4>3
          <5> QED BY <2>5, <2>13, <4>1, <4>3, <5>1
        <4>4. CASE o = q /\ ~(j <= n)
          <5>1. j \in 1..Len(a)
            BY <2>2, <2>13, <4>1, <4>4
          <5>2. PICK i \in 1..Len(b) : i + n = j
            <6>1. n < j /\ j <= Len(a) /\ j \in Nat
              BY <1>1, <1>2, <4>4, <5>1
            <6>2. Len(b) = Len(a) - n
              BY <1>2, <1>3, <6>1
            <6>3. j - n \in 1..Len(b)
              BY <1>2, <6>1, <6>2
            <6> QED BY <6>1, <6>3
          <5> QED BY <2>8, <2>13, <4>1, <4>4, <5>2
        <4> QED BY <4>2, <4>3, <4>4
      <3> QED BY <2>13, <3>1, <3>2, PlaceForm DEF P
    <2> QED BY <2>11, <2>12, <2>13 DEF P, Q
  <1> QED BY <1>8, <1>11, <1>12, <1>13, <1>14, <1>15

(***************************************************************************)
(* The steps.  s and t stand for the registers and queues at some point    *)
(* of a handler.                                                           *)
(***************************************************************************)
Sound(s, m, f) == Well(s) /\ Single(s) /\ DeviceOk(s, m, f)

LEMMA DrainKeeps ==
    ASSUME NEW s, NEW m, NEW f, Sound(s, m, f), NEW q \in Queues, NEW t, t = Drain(s, q)
    PROVE  /\ Sound(t, m, f) /\ Free(t) \subseteq Free(s)
           /\ \A o \in Queues : o # q => t[o] = s[o]
           /\ t[q] # <<>> => Free(t) = {}
  <1>1. /\ Well(t) /\ Free(t) \subseteq Free(s)
        /\ \A o \in Queues : o # q => t[o] = s[o]
        /\ t[q] # <<>> => Free(t) = {}
        /\ \A st \in Counted : \A id :
              /\ AtMostOne(Places(s, st, id)) => AtMostOne(Places(t, st, id))
              /\ Places(t, st, id) # {} <=> Places(s, st, id) # {}
    BY DrainIs DEF Sound
  <1>2. InFlight \in Counted /\ InHandling \in Counted
    BY DEF Counted
  <1>3. Single(t)
    BY <1>1, <1>2 DEF Sound, Single
  <1>4. DeviceOk(t, m, f)
    BY <1>1, <1>2 DEF Sound, DeviceOk
  <1> QED BY <1>1, <1>3, <1>4 DEF Sound

\* Where the levels are looked for is where they can be.
LEMMA NotOutstanding ==
    ASSUME NEW s, Well(s), NEW id \in Capped, ~Outstanding(s, id)
    PROVE  Places(s, InFlight, id) = {}
  <1> SUFFICES ASSUME NEW p \in Places(s, InFlight, id) PROVE FALSE
    OBVIOUS
  <1>1. CASE \E r \in Regs : p = <<"lr", r>>
    <2>1. PICK r \in Regs : p = <<"lr", r>>
      BY <1>1
    <2>2. s.lr[r].id = id /\ s.lr[r].state \in InFlight
      BY <2>1, LrPlace
    <2> QED BY <2>2 DEF Outstanding, Held, InFlight
  <1>2. CASE \E q \in Queues, k \in 1..QueueSize : p = <<q, k>>
    <2>1. PICK q \in Queues, k \in 1..QueueSize : p = <<q, k>>
      BY <1>2
    <2>2. k \in 1..Len(s[q]) /\ s[q][k] = id
      BY <2>1, QueuePlace
    <2>3. s[q] \in Seq(OfQueue(q))
      BY DEF Well
    <2>4. id \in OfQueue(q)
      BY <2>2, <2>3
    <2>5. q = "timer_queue"
      BY <2>4, VgicAssumption, QueuesAre
         DEF OfQueue, Capped, Timers, NvmeSpi, UsbSpi, Fl1100Spi
    <2> QED BY <2>2, <2>5 DEF Outstanding, Queued
  <1> QED BY <1>1, <1>2, PlaceForm

\* A level that is not outstanding gets a register or a place in a queue.
LEMMA LevelKeeps ==
    ASSUME NEW s, NEW m, NEW f, Sound(s, m, f), NoneWaits(s), NEW id \in Levels,
           ~Outstanding(s, id), NEW q \in Queues, NEW t,
           \/ Free(s) # {} /\ t = Inject(s, id)
           \/ Free(s) = {} /\ id \in OfQueue(q) /\ t = Push(s, q, id)
    PROVE  Sound(t, m, f) /\ NoneWaits(t)
  <1>1. Well(s) /\ Single(s) /\ DeviceOk(s, m, f) /\ id \in Ids
    BY DEF Sound, Ids
  <1>2. Well(t) /\ NoneWaits(t) /\ OthersStay(s, t, id) /\ (OneMore(s, t, id) \/ t = s)
    <2>1. CASE Free(s) # {} /\ t = Inject(s, id)
      <3>1. /\ Well(t) /\ \A o \in Queues : t[o] = s[o]
            /\ Free(t) \subseteq Free(s)
            /\ OthersStay(s, t, id) /\ OneMore(s, t, id)
        BY <1>1, <2>1, InjectIs
      <3>2. NoneWaits(t)
        BY <2>1, <3>1 DEF NoneWaits, Queues
      <3> QED BY <3>1, <3>2
    <2>2. CASE Free(s) = {} /\ id \in OfQueue(q) /\ t = Push(s, q, id)
      <3>1. /\ Well(t) /\ t.lr = s.lr /\ Free(t) = Free(s)
            /\ Full(s, q) => t = s
            /\ OthersStay(s, t, id)
            /\ ~Full(s, q) => OneMore(s, t, id)
        BY <1>1, <2>2, PushIs
      <3>2. NoneWaits(t)
        BY <2>2, <3>1 DEF NoneWaits
      <3> QED BY <3>1, <3>2
    <2> QED BY <2>1, <2>2
  <1>3. InFlight \in Counted /\ InHandling \in Counted
    BY DEF Counted
  <1>4. DeviceOk(t, m, f)
    <2>1. \A d \in Devices : d # id
      BY VgicAssumption
    <2> QED BY <1>1, <1>2, <1>3, <2>1 DEF DeviceOk, OthersStay
  <1>5. Single(t)
    <2> SUFFICES ASSUME NEW x \in Capped PROVE AtMostOne(Places(t, InFlight, x))
      BY DEF Single
    <2>1. CASE x # id \/ t = s
      BY <1>1, <1>2, <1>3, <2>1 DEF Single, OthersStay
    <2>2. CASE x = id /\ t # s
      <3>1. Places(s, InFlight, id) = {}
        BY <1>1, <2>2, NotOutstanding
      <3>2. PICK p : Places(t, InFlight, id) = Places(s, InFlight, id) \cup {p}
        BY <1>2, <1>3, <2>2 DEF OneMore
      <3> QED BY <2>2, <3>1, <3>2 DEF AtMostOne
    <2> QED BY <2>1, <2>2
  <1> QED BY <1>2, <1>4, <1>5 DEF Sound

LEMMA UpdateKeeps ==
    ASSUME VgicInv, NEW open \in SUBSET Levels, UpdateFiq(open)
    PROVE  Sound(v', masked, refused) /\ NoneWaits(v')
  <1> DEFINE G(s) == Sound(s, masked, refused) /\ NoneWaits(s)
  <1>1. G(v)
    BY DEF VgicInv, Sound
  <1>2. PICK a : a = TimerPpi(v, 17, open)
    OBVIOUS
  <1>3. PICK b : b = TimerPpi(a, 18, open)
    OBVIOUS
  <1>4. PICK c : c = BridgeNvme(b, open)
    OBVIOUS
  <1>5. PICK d : d = BridgeUsbXhci(c, open)
    OBVIOUS
  <1>6. v' = BridgeFl1100(d, open)
    BY <1>2, <1>3, <1>4, <1>5 DEF UpdateFiq
  <1>7. "timer_queue" \in Queues /\ "irq_queue" \in Queues
    BY DEF Queues
  <1>8. ASSUME NEW s, G(s), NEW id \in {17, 18} PROVE G(TimerPpi(s, id, open))
    <2>1. CASE Due(s, id, open)
      <3>1. id \in Levels /\ ~Outstanding(s, id)
        BY <2>1 DEF Due
      <3>2. id \in OfQueue("timer_queue")
        BY <3>1 DEF OfQueue, Timers
      <3> QED BY <1>7, <1>8, <2>1, <3>1, <3>2, LevelKeeps DEF TimerPpi, InjectOrPush
    <2>2. CASE ~Due(s, id, open)
      BY <1>8, <2>2 DEF TimerPpi
    <2> QED BY <2>1, <2>2
  <1>9. G(a)
    BY <1>1, <1>2, <1>8
  <1>10. G(b)
    BY <1>3, <1>8, <1>9
  <1>11. G(c)
    <2>1. CASE Due(b, NvmeSpi, open) /\ Free(b) # {}
      <3>1. NvmeSpi \in Levels /\ ~Outstanding(b, NvmeSpi)
        BY <2>1 DEF Due
      <3> QED BY <1>4, <1>7, <1>10, <2>1, <3>1, LevelKeeps DEF BridgeNvme
    <2>2. CASE ~(Due(b, NvmeSpi, open) /\ Free(b) # {})
      BY <1>4, <1>10, <2>2 DEF BridgeNvme
    <2> QED BY <2>1, <2>2
  <1>12. ASSUME NEW s, G(s), NEW id \in {UsbSpi, Fl1100Spi}, Due(s, id, open)
         PROVE  G(InjectOrPush(s, "irq_queue", id))
    <2>1. id \in Levels /\ ~Outstanding(s, id)
      BY <1>12 DEF Due
    <2>2. id \in OfQueue("irq_queue")
      BY <2>1 DEF OfQueue
    <2> QED BY <1>7, <1>12, <2>1, <2>2, LevelKeeps DEF InjectOrPush
  <1>13. G(d)
    BY <1>5, <1>11, <1>12 DEF BridgeUsbXhci
  <1> QED BY <1>6, <1>12, <1>13 DEF BridgeFl1100

\* The rest of the invariant.
Frame ==
    /\ line \subseteq Levels \cup Devices /\ enabled \subseteq Levels \cap Gated
    /\ masked \subseteq Devices /\ refused \subseteq masked
    /\ pendingIpi \in BOOLEAN /\ sender \in {"idle", "push"} /\ at \in {"guest", "ipi"}

LEMMA InvIs == VgicInv <=> Sound(v, masked, refused) /\ NoneWaits(v) /\ Frame
  BY DEF VgicInv, Sound, Frame

LEMMA ReturnKeeps ==
    ASSUME VgicInv, NEW open \in SUBSET Levels, ReturnToGuest(open) \/ FiqExit(open)
    PROVE  VgicInv'
  <1>1. UpdateFiq(open) /\ masked' = masked /\ refused' = refused /\ Frame'
    BY DEF VgicInv, Frame, ReturnToGuest, FiqExit
  <1>2. Sound(v', masked, refused) /\ NoneWaits(v')
    BY <1>1, UpdateKeeps
  <1> QED BY <1>1, <1>2 DEF VgicInv, Sound, Frame

LEMMA FiqIpiKeeps ==
    ASSUME VgicInv, FiqIpi
    PROVE  VgicInv'
  <1>1. /\ v' = Drain(v, "sgi_queue") /\ masked' = masked /\ refused' = refused /\ Frame'
        /\ Sound(v, masked, refused) /\ NoneWaits(v) /\ "sgi_queue" \in Queues
    BY DEF VgicInv, Frame, Sound, FiqIpi, Queues
  <1>2. /\ Sound(v', masked, refused) /\ Free(v') \subseteq Free(v)
        /\ \A o \in Queues : o # "sgi_queue" => v'[o] = v[o]
    BY <1>1, DrainKeeps
  <1>3. NoneWaits(v')
    BY <1>1, <1>2 DEF NoneWaits, Queues
  <1> QED BY <1>1, <1>2, <1>3 DEF VgicInv, Sound, Frame

LEMMA ClearedIs ==
    ASSUME NEW s, NEW m, NEW f, Sound(s, m, f), f \subseteq m, NEW t, t = Cleared(s)
    PROVE  LET n == m \ {s.lr[r].id : r \in Ended(s)}
           IN  Sound(t, n, f) /\ f \cap Devices \subseteq n
  <1> DEFINE n == m \ {s.lr[r].id : r \in Ended(s)}
  <1>1. Well(s) /\ Single(s) /\ DeviceOk(s, m, f)
    BY DEF Sound
  <1>2. PICK lr : lr = [r \in Regs |-> IF r \in Ended(s) THEN Empty ELSE s.lr[r]]
    OBVIOUS
  <1>3. t = [s EXCEPT !.lr = lr]
    BY <1>2 DEF Cleared
  <1>4. t = [g \in Fields |-> t[g]] /\ t.lr = lr /\ \A q \in Queues : t[q] = s[q]
    BY <1>1, <1>3, QueuesAre DEF Well, Fields
  <1>5. Empty \in Registers /\ Empty.state = "free"
    BY DEF Empty, Registers
  <1>6. \A r \in Regs : r \in Ended(s) <=> s.lr[r].state = "eoi"
    BY DEF Ended
  <1>7. Well(t)
    <2>1. lr \in [Regs -> Registers]
      BY <1>1, <1>2, <1>5 DEF Well
    <2> QED BY <1>1, <1>4, <2>1 DEF Well
  <1>8. \A x : Places(t, InFlight, x) = Places(s, InFlight, x)
    <2> TAKE x
    <2>1. \A r \in Regs : (t.lr[r].id = x /\ t.lr[r].state \in InFlight)
                            <=> (s.lr[r].id = x /\ s.lr[r].state \in InFlight)
      BY <1>2, <1>4, <1>5, <1>6 DEF InFlight
    <2> QED BY <1>4, <2>1, SamePlaces
  <1>9. \A x : x \notin {s.lr[r].id : r \in Ended(s)}
                 => Places(t, InHandling, x) = Places(s, InHandling, x)
    <2> TAKE x
    <2> HAVE x \notin {s.lr[r].id : r \in Ended(s)}
    <2>1. \A r \in Regs : (t.lr[r].id = x /\ t.lr[r].state \in InHandling)
                            <=> (s.lr[r].id = x /\ s.lr[r].state \in InHandling)
      BY <1>2, <1>4, <1>5, <1>6 DEF InHandling, InFlight
    <2> QED BY <1>4, <2>1, SamePlaces
  <1>10. ASSUME NEW r \in Ended(s), NEW d \in Devices, d = s.lr[r].id
         PROVE  Places(t, InHandling, d) = {} /\ d \in m \ f
    <2>1. r \in Regs /\ s.lr[r].state = "eoi"
      BY <1>6, <1>10 DEF Ended
    <2>2. <<"lr", r>> \in Places(s, InHandling, d)
      BY <1>10, <2>1, LrPlace DEF InHandling
    <2>3. /\ \A p \in Places(s, InHandling, d) : p = <<"lr", r>>
          /\ d \in m \ f
      BY <1>1, <2>2 DEF DeviceOk, AtMostOne
    <2>4. \A p \in Places(t, InHandling, d) : FALSE
      <3> TAKE p \in Places(t, InHandling, d)
      <3>1. p # <<"lr", r>>
        <4>1. t.lr[r].state = "free"
          BY <1>2, <1>4, <1>5, <1>10, <2>1
        <4>2. "free" \notin InHandling
          BY DEF InHandling, InFlight
        <4> QED BY <4>1, <4>2, LrPlace
      <3>2. CASE \E x \in Regs : p = <<"lr", x>>
        <4>1. PICK x \in Regs : p = <<"lr", x>>
          BY <3>2
        <4>2. t.lr[x].id = d /\ t.lr[x].state \in InHandling
          BY <4>1, LrPlace
        <4>3. x \notin Ended(s)
          BY <1>2, <1>4, <1>5, <4>2 DEF InHandling, InFlight
        <4>4. s.lr[x].id = d /\ s.lr[x].state \in InHandling
          BY <1>2, <1>4, <4>2, <4>3
        <4>5. p \in Places(s, InHandling, d)
          BY <4>1, <4>4, LrPlace
        <4> QED BY <2>3, <3>1, <4>5
      <3>3. CASE \E q \in Queues, k \in 1..QueueSize : p = <<q, k>>
        <4>1. PICK q \in Queues, k \in 1..QueueSize : p = <<q, k>>
          BY <3>3
        <4>2. k \in 1..Len(t[q]) /\ t[q][k] = d
          BY <1>7, <4>1, QueuePlace
        <4>3. p \in Places(s, InHandling, d)
          BY <1>1, <1>4, <4>1, <4>2, QueuePlace
        <4> QED BY <2>3, <3>1, <4>3
      <3> QED BY <3>2, <3>3, PlaceForm
    <2> QED BY <2>3, <2>4
  <1>11. DeviceOk(t, n, f)
    <2> SUFFICES ASSUME NEW d \in Devices
                 PROVE  /\ AtMostOne(Places(t, InHandling, d))
                        /\ Places(t, InHandling, d) # {} <=> d \in n \ f
      BY DEF DeviceOk
    <2>1. CASE d \in {s.lr[r].id : r \in Ended(s)}
      <3>1. Places(t, InHandling, d) = {} /\ d \notin n
        BY <1>10, <2>1
      <3> QED BY <3>1 DEF AtMostOne
    <2>2. CASE d \notin {s.lr[r].id : r \in Ended(s)}
      BY <1>1, <1>9, <2>2 DEF DeviceOk
    <2> QED BY <2>1, <2>2
  <1>12. f \cap Devices \subseteq n
    BY <1>10
  <1>13. Single(t)
    BY <1>1, <1>8 DEF Single
  <1> QED BY <1>7, <1>11, <1>12, <1>13 DEF Sound

LEMMA MaintenanceKeeps ==
    ASSUME VgicInv, Maintenance
    PROVE  VgicInv'
  <1>1. /\ Sound(v, masked, refused) /\ refused \subseteq masked /\ masked \subseteq Devices
        /\ masked' = masked \ {v.lr[r].id : r \in Ended(v)} /\ refused' = refused
        /\ {"timer_queue", "sgi_queue", "irq_queue"} \subseteq Queues
    BY DEF VgicInv, Sound, Maintenance, Queues
  <1>2. PICK s : s = Cleared(v) /\ DrainAll(s)
    BY DEF Maintenance
  <1>3. Sound(s, masked', refused) /\ refused \subseteq masked'
    BY <1>1, <1>2, ClearedIs
  <1> DEFINE Fine(x) == Sound(x, masked', refused)
  <1>b. ASSUME NEW x, Fine(x), NEW q \in Queues, NEW y, y = Drain(x, q)
        PROVE  /\ Fine(y) /\ Free(y) \subseteq Free(x)
               /\ \A o \in Queues : o # q => y[o] = x[o]
               /\ y[q] # <<>> => Free(y) = {}
    BY <1>b, DrainKeeps
  <1>a. Fine(s)
    BY <1>3
  <1> HIDE DEF Fine
  <1>4. PICK a : a = Drain(s, "timer_queue")
    OBVIOUS
  <1>5. PICK b : b = Drain(a, "sgi_queue")
    OBVIOUS
  <1>6. PICK c : c = Drain(b, "irq_queue") /\ v' = c
    BY <1>2, <1>4, <1>5 DEF DrainAll
  <1>7. Fine(a) /\ (a["timer_queue"] # <<>> => Free(a) = {})
    BY <1>b, <1>1, <1>a, <1>4
  <1>8. Fine(b) /\ Free(b) \subseteq Free(a) /\ b["timer_queue"] = a["timer_queue"]
    BY <1>b, <1>1, <1>5, <1>7, SMTT(30)
  <1>9. /\ Fine(c) /\ Free(c) \subseteq Free(b) /\ c["timer_queue"] = b["timer_queue"]
        /\ c["irq_queue"] # <<>> => Free(c) = {}
    BY <1>b, <1>1, <1>6, <1>8, SMTT(30)
  <1>10. NoneWaits(c)
    BY <1>7, <1>8, <1>9 DEF NoneWaits
  <1>11. Frame'
    BY <1>1, <1>3 DEF VgicInv, Frame, Maintenance
  <1> QED BY <1>1, <1>6, <1>9, <1>10, <1>11 DEF VgicInv, Sound, Frame, Fine

LEMMA DeviceIrqKeeps ==
    ASSUME VgicInv, NEW d \in Devices, DeviceIrq(d)
    PROVE  VgicInv'
  <1>1. /\ Well(v) /\ Single(v) /\ DeviceOk(v, masked, refused) /\ NoneWaits(v)
        /\ refused \subseteq masked /\ d \notin masked /\ masked' = masked \cup {d}
        /\ "irq_queue" \in Queues /\ d \in OfQueue("irq_queue") /\ d \in Ids
    BY DEF VgicInv, DeviceIrq, Masks, Queues, OfQueue, Ids
  <1>2. PICK t : t = v' /\ t = InjectOrPush(v, "irq_queue", d)
    BY DEF DeviceIrq
  <1>3. /\ Places(v, InHandling, d) = {} /\ Counted = {InFlight, InHandling}
        /\ \A x \in Capped : x # d
    BY <1>1, VgicAssumption DEF DeviceOk, Counted, Capped
  <1>4. /\ Well(t) /\ OthersStay(v, t, d) /\ NoneWaits(t)
        /\ \/ refused' = refused /\ OneMore(v, t, d)
           \/ refused' = refused \cup {d} /\ t = v
    <2>1. CASE Free(v) # {}
      <3>1. t = Inject(v, d) /\ refused' = refused
        BY <1>2, <2>1 DEF InjectOrPush, DeviceIrq
      <3>2. /\ Well(t) /\ \A q \in Queues : t[q] = v[q]
            /\ Free(t) \subseteq Free(v)
            /\ OthersStay(v, t, d) /\ OneMore(v, t, d)
        BY <1>1, <2>1, <3>1, InjectIs
      <3>3. NoneWaits(t)
        BY <1>1, <3>2 DEF NoneWaits, Queues
      <3> QED BY <3>1, <3>2, <3>3
    <2>2. CASE Free(v) = {}
      <3>1. t = Push(v, "irq_queue", d)
        BY <1>2, <2>2 DEF InjectOrPush
      <3>2. /\ Well(t) /\ Free(t) = Free(v)
            /\ Full(v, "irq_queue") => t = v
            /\ OthersStay(v, t, d)
            /\ ~Full(v, "irq_queue") => OneMore(v, t, d)
        BY <1>1, <3>1, PushIs
      <3>3. refused' = IF Full(v, "irq_queue") THEN refused \cup {d} ELSE refused
        BY <2>2 DEF DeviceIrq
      <3>4. NoneWaits(t)
        BY <2>2, <3>2 DEF NoneWaits
      <3> QED BY <3>2, <3>3, <3>4
    <2> QED BY <2>1, <2>2
  <1>5. Single(t)
    BY <1>1, <1>3, <1>4 DEF Single, OthersStay
  <1>6. DeviceOk(t, masked', refused')
    <2> SUFFICES ASSUME NEW x \in Devices
                 PROVE  /\ AtMostOne(Places(t, InHandling, x))
                        /\ Places(t, InHandling, x) # {} <=> x \in masked' \ refused'
      BY DEF DeviceOk
    <2>1. CASE x # d
      <3>1. Places(t, InHandling, x) = Places(v, InHandling, x)
        BY <1>3, <1>4, <2>1 DEF OthersStay
      <3>2. x \in masked' \ refused' <=> x \in masked \ refused
        BY <1>1, <1>4, <2>1
      <3> QED BY <1>1, <3>1, <3>2 DEF DeviceOk
    <2>2. CASE x = d /\ t = v /\ refused' = refused \cup {d}
      BY <1>3, <2>2 DEF AtMostOne
    <2>3. CASE x = d /\ OneMore(v, t, d) /\ refused' = refused
      <3>1. PICK p : Places(t, InHandling, d) = Places(v, InHandling, d) \cup {p}
        BY <1>3, <2>3 DEF OneMore
      <3>2. Places(t, InHandling, d) = {p}
        BY <1>3, <3>1
      <3>3. d \in masked' \ refused'
        BY <1>1, <2>3
      <3> QED BY <2>3, <3>2, <3>3 DEF AtMostOne
    <2> QED BY <1>4, <2>1, <2>2, <2>3
  <1>7. Frame'
    BY <1>1, <1>4 DEF VgicInv, Frame, DeviceIrq
  <1> QED BY <1>2, <1>4, <1>5, <1>6, <1>7 DEF VgicInv, Frame

LEMMA SgiPushKeeps ==
    ASSUME VgicInv, NEW g \in Sgis, SgiPush(g)
    PROVE  VgicInv'
  <1>1. /\ Well(v) /\ Single(v) /\ DeviceOk(v, masked, refused) /\ NoneWaits(v)
        /\ "sgi_queue" \in Queues /\ g \in OfQueue("sgi_queue")
        /\ masked' = masked /\ refused' = refused
    BY DEF VgicInv, SgiPush, Queues, OfQueue
  <1>2. PICK t : t = v' /\ t = Push(v, "sgi_queue", g)
    BY DEF SgiPush
  <1>3. /\ Well(t) /\ Free(t) = Free(v) /\ OthersStay(v, t, g)
        /\ \A o \in Queues : o # "sgi_queue" => t[o] = v[o]
    BY <1>1, <1>2, PushIs
  <1>4. (\A x \in Capped \cup Devices : x # g) /\ Counted = {InFlight, InHandling}
    BY VgicAssumption DEF Capped, Counted
  <1>5. Single(t) /\ DeviceOk(t, masked, refused)
    BY <1>1, <1>3, <1>4 DEF Single, DeviceOk, OthersStay
  <1>6. NoneWaits(t)
    BY <1>1, <1>3 DEF NoneWaits, Queues
  <1>7. Frame'
    BY DEF VgicInv, Frame, SgiPush
  <1> QED BY <1>1, <1>2, <1>3, <1>5, <1>6, <1>7 DEF VgicInv, Frame

\* The guest acknowledges or ends an interrupt: the copy in handling stays.
LEMMA GuestKeeps ==
    ASSUME VgicInv, NEW r \in Regs, Take(r) \/ Eoi(r)
    PROVE  VgicInv'
  <1>1. /\ Well(v) /\ Single(v) /\ DeviceOk(v, masked, refused) /\ NoneWaits(v)
        /\ masked' = masked /\ refused' = refused /\ Frame'
    BY DEF VgicInv, Frame, Take, Eoi
  <1>0. PICK t : t = v'
    OBVIOUS
  <1>2. PICK new \in {"active", "eoi"} :
            t = v' /\ t = [v EXCEPT !.lr[r].state = new] /\ v.lr[r].state \in InFlight
    BY <1>0 DEF Take, Eoi, InFlight
  <1>3. PICK lr : lr = [v.lr EXCEPT ![r].state = new]
    OBVIOUS
  <1>4. t = [v EXCEPT !.lr = lr]
    BY <1>2, <1>3
  <1>5. t = [g \in Fields |-> t[g]] /\ t.lr = lr /\ \A q \in Queues : t[q] = v[q]
    BY <1>1, <1>4, QueuesAre DEF Well, Fields
  <1>6. v.lr \in [Regs -> Registers] /\ v.lr[r] \in Registers
    BY <1>1 DEF Well
  <1>7. [v.lr[r] EXCEPT !.state = new] \in Registers
    BY <1>6 DEF Registers
  <1>8. lr \in [Regs -> Registers]
    BY <1>3, <1>6, <1>7
  <1>9. /\ lr[r].id = v.lr[r].id /\ lr[r].state = new
        /\ \A x \in Regs : x # r => lr[x] = v.lr[x]
    BY <1>3, <1>6 DEF Registers
  <1>10. Well(t)
    BY <1>1, <1>5, <1>8 DEF Well
  <1>11. Free(t) = Free(v)
    BY <1>2, <1>5, <1>9 DEF Free, InFlight
  <1>12. \A x : Places(t, InHandling, x) = Places(v, InHandling, x)
    <2> TAKE x
    <2>1. \A i \in Regs : (t.lr[i].id = x /\ t.lr[i].state \in InHandling)
                            <=> (v.lr[i].id = x /\ v.lr[i].state \in InHandling)
      BY <1>2, <1>5, <1>9 DEF InHandling, InFlight
    <2> QED BY <1>5, <2>1, SamePlaces
  <1>13. \A x : Places(t, InFlight, x) \subseteq Places(v, InFlight, x)
    <2> SUFFICES ASSUME NEW x, NEW p \in Places(t, InFlight, x)
                 PROVE  p \in Places(v, InFlight, x)
      OBVIOUS
    <2>1. CASE \E i \in Regs : p = <<"lr", i>>
      <3>1. PICK i \in Regs : p = <<"lr", i>>
        BY <2>1
      <3>2. t.lr[i].id = x /\ t.lr[i].state \in InFlight
        BY <3>1, LrPlace
      <3>3. v.lr[i].id = x /\ v.lr[i].state \in InFlight
        BY <1>2, <1>5, <1>9, <3>2
      <3> QED BY <3>1, <3>3, LrPlace
    <2>2. CASE \E q \in Queues, k \in 1..QueueSize : p = <<q, k>>
      <3>1. PICK q \in Queues, k \in 1..QueueSize : p = <<q, k>>
        BY <2>2
      <3>2. k \in 1..Len(t[q]) /\ t[q][k] = x
        BY <1>10, <3>1, QueuePlace
      <3> QED BY <1>1, <1>5, <3>1, <3>2, QueuePlace
    <2> QED BY <2>1, <2>2, PlaceForm
  <1>14. Single(t)
    <2>1. \A x : AtMostOne(Places(v, InFlight, x)) => AtMostOne(Places(t, InFlight, x))
      BY <1>13 DEF AtMostOne
    <2> QED BY <1>1, <2>1 DEF Single
  <1>15. DeviceOk(t, masked, refused)
    BY <1>1, <1>12 DEF DeviceOk
  <1>16. NoneWaits(t)
    BY <1>1, <1>5, <1>11 DEF NoneWaits, Queues
  <1> QED BY <1>1, <1>2, <1>10, <1>14, <1>15, <1>16 DEF VgicInv, Frame

LEMMA VgicInvNext == VgicInv /\ [VgicNext]_vgicVars => VgicInv'
  <1> SUFFICES ASSUME VgicInv, [VgicNext]_vgicVars PROVE VgicInv'
    OBVIOUS
  <1>1. CASE v' = v /\ masked' = masked /\ refused' = refused /\ Frame'
    BY <1>1 DEF VgicInv, Frame
  <1>2. ASSUME NEW id \in Levels \cup Devices, Raise(id) PROVE VgicInv'
    BY <1>1, <1>2 DEF VgicInv, Frame, Raise
  <1>3. ASSUME NEW id \in Levels \cap Gated, Enable(id) PROVE VgicInv'
    BY <1>1, <1>3 DEF VgicInv, Frame, Enable
  <1>4. ASSUME NEW r \in Regs, Service(r) PROVE VgicInv'
    BY <1>1, <1>4 DEF VgicInv, Frame, Service
  <1>5. CASE SgiSend \/ UNCHANGED vgicVars
    BY <1>1, <1>5 DEF VgicInv, Frame, SgiSend, vgicVars
  <1> QED BY <1>2, <1>3, <1>4, <1>5, ReturnKeeps, FiqIpiKeeps, MaintenanceKeeps,
             DeviceIrqKeeps, SgiPushKeeps, GuestKeeps DEF VgicNext

LEMMA VgicInvInit == VgicInit => VgicInv
  <1> SUFFICES ASSUME VgicInit PROVE VgicInv
    OBVIOUS
  <1>1. /\ v.lr = [r \in Regs |-> Empty] /\ \A q \in Queues : v[q] = <<>>
        /\ v = [f \in Fields |-> v[f]]
    BY DEF VgicInit, Fields, Queues
  <1>2. Empty \in Registers /\ Empty.state = "free"
    BY DEF Empty, Registers
  <1>3. Well(v)
    <2>1. v.lr \in [Regs -> Registers]
      BY <1>1, <1>2
    <2>2. \A q \in Queues : v[q] \in Seq(OfQueue(q)) /\ Len(v[q]) <= QueueSize
      <3> TAKE q \in Queues
      <3>1. v[q] = <<>> /\ QueueSize \in Nat
        BY <1>1, VgicAssumption
      <3>2. <<>> \in Seq(OfQueue(q)) /\ Len(<<>>) = 0
        OBVIOUS
      <3> QED BY <3>1, <3>2
    <2> QED BY <1>1, <2>1, <2>2 DEF Well
  <1>4. \A st \in Counted : \A id : Places(v, st, id) = {}
    <2> SUFFICES ASSUME NEW st \in Counted, NEW id, NEW p \in Places(v, st, id) PROVE FALSE
      OBVIOUS
    <2>1. CASE \E r \in Regs : p = <<"lr", r>>
      BY <1>1, <1>2, <2>1, LrPlace, CountedIs
    <2>2. CASE \E q \in Queues, k \in 1..QueueSize : p = <<q, k>>
      <3>1. PICK q \in Queues, k \in 1..QueueSize : p = <<q, k>>
        BY <2>2
      <3>2. k \in 1..Len(v[q])
        BY <1>3, <3>1, QueuePlace
      <3>3. v[q] = <<>>
        BY <1>1
      <3> QED BY <3>2, <3>3
    <2> QED BY <2>1, <2>2, PlaceForm
  <1>5. Single(v) /\ DeviceOk(v, masked, refused)
    BY <1>4 DEF Single, DeviceOk, AtMostOne, Counted, VgicInit
  <1>6. NoneWaits(v)
    BY <1>1 DEF NoneWaits, Queues
  <1> QED BY <1>3, <1>5, <1>6 DEF VgicInv, VgicInit

LEMMA VgicInvHolds == VgicSpec => []VgicInv
  BY VgicInvInit, VgicInvNext, PTL DEF VgicSpec

\* Types of all variables, and the queues within their size.
THEOREM VgicTypeCorrect == VgicSpec => []TypeOK
  <1>1. VgicInv => TypeOK
    <2> SUFFICES ASSUME VgicInv PROVE TypeOK
      OBVIOUS
    <2>1. \A q \in Queues : v[q] \in Seq(Ids) /\ Len(v[q]) <= QueueSize
      <3> TAKE q \in Queues
      <3>1. v[q] \in Seq(OfQueue(q)) /\ Len(v[q]) <= QueueSize
        BY DEF VgicInv, Well
      <3>2. OfQueue(q) \subseteq Ids
        BY DEF OfQueue, Ids
      <3> QED BY <3>1, <3>2
    <2> QED BY <2>1 DEF VgicInv, Well, TypeOK, Registers
  <1> QED BY <1>1, VgicInvHolds, PTL

LEMMA AtMostOneCounts ==
    ASSUME NEW S, AtMostOne(S)
    PROVE  Cardinality(S) = IF S = {} THEN 0 ELSE 1
  <1>1. CASE S = {}
    BY <1>1, FS_EmptySet
  <1>2. CASE S # {}
    <2>1. PICK x : x \in S
      BY <1>2
    <2>2. S = {x}
      BY <2>1 DEF AtMostOne
    <2> QED BY <1>2, <2>2, FS_Singleton
  <1> QED BY <1>1, <1>2

\* For every number of registers, size of the queues and set of sources: a timer
\* and the NVMe level are never twice on their way to the guest.
THEOREM OneAlwaysOutstanding == VgicSpec => []OneOutstanding
  <1>1. VgicInv => OneOutstanding
    BY AtMostOneCounts DEF VgicInv, Single, Capped, OneOutstanding, Copies
  <1> QED BY <1>1, VgicInvHolds, PTL

\* For every number of registers and size of the queues, nothing waits in the
\* timers' or the devices' queue while a List Register is free.
THEOREM QueueNeverStranded == VgicSpec => []NoStrandedQueue
  <1>1. VgicInv => NoStrandedQueue
    BY DEF VgicInv, NoneWaits, NoStrandedQueue
  <1> QED BY <1>1, VgicInvHolds, PTL

\* For every set of lines: one is masked exactly while one copy of its interrupt
\* is on its way to the end of its handler, or was refused.
THEOREM MaskAlwaysMatches == VgicSpec => []MaskMatchesCopy
  <1>1. VgicInv => MaskMatchesCopy
    BY AtMostOneCounts DEF VgicInv, DeviceOk, MaskMatchesCopy, InHandling
  <1> QED BY <1>1, VgicInvHolds, PTL

(***************************************************************************)
(* Division.                                                               *)
(***************************************************************************)
LEMMA DivModIs ==
    ASSUME NEW x \in Int, NEW m \in Nat \ {0}
    PROVE  /\ x \div m \in Int /\ x % m \in 0 .. m - 1
           /\ x = ((x \div m) * m) + (x % m)
  OBVIOUS

\* Quotient and remainder are unique.
Divided(x, m, q, r) == q \in Int /\ r \in 0 .. m - 1 /\ x = q * m + r

LEMMA DivModOf ==
    ASSUME NEW m \in Nat \ {0}, NEW x \in Int, NEW q, NEW r, Divided(x, m, q, r)
    PROVE  x \div m = q /\ x % m = r
  <1>0. q \in Int /\ r \in 0 .. m - 1 /\ x = q * m + r
    BY DEF Divided
  <1>1. PICK p \in Int, e \in 0 .. m - 1 : p = x \div m /\ e = x % m /\ x = p * m + e
    BY DivModIs
  <1>2. (q - p) * m = e - r
    BY <1>0, <1>1
  <1>3. ~(q - p >= 1) /\ ~(q - p <= -1)
    <2>1. q - p >= 1 => (q - p) * m >= m
      BY <1>0
    <2>2. q - p <= -1 => (q - p) * m <= -m
      BY <1>0
    <2> QED BY <1>0, <1>1, <1>2, <2>1, <2>2
  <1>4. q = p
    BY <1>0, <1>3
  <1> QED BY <1>0, <1>1, <1>4

LEMMA DivMod ==
    ASSUME NEW x \in Nat, NEW m \in Nat \ {0}
    PROVE  \E q \in Nat, r \in 0 .. m - 1 : Divided(x, m, q, r)
  <1>1. PICK q \in Int, r \in 0 .. m - 1 : q = x \div m /\ r = x % m /\ x = q * m + r
    BY DivModIs
  <1>2. q <= -1 => q * m <= -m
    OBVIOUS
  <1>3. q \in Nat
    BY <1>1, <1>2
  <1>4. Divided(x, m, q, r)
    BY <1>1 DEF Divided
  <1> QED BY <1>3, <1>4

\* x is a multiple of m.
LEMMA MultipleIs ==
    ASSUME NEW x \in Int, NEW m \in Nat \ {0}
    PROVE  x % m = 0 <=> \E k \in Int : x = k * m
  <1>1. ASSUME x % m = 0 PROVE \E k \in Int : x = k * m
    <2>1. PICK q \in Int : q = x \div m /\ x = q * m + (x % m)
      BY DivModIs
    <2>2. x = q * m
      BY <1>1, <2>1
    <2> WITNESS q \in Int
    <2> QED BY <2>2
  <1>2. ASSUME NEW k \in Int, x = k * m PROVE x % m = 0
    <2>1. Divided(x, m, k, 0)
      BY <1>2 DEF Divided
    <2> QED BY <2>1, DivModOf
  <1> QED BY <1>1, <1>2

LEMMA MultiplesAdd ==
    ASSUME NEW m \in Nat \ {0}, NEW x \in Int, NEW y \in Int, x % m = 0, y % m = 0
    PROVE  (x + y) % m = 0 /\ (x - y) % m = 0
  <1>1. PICK k \in Int, l \in Int : x = k * m /\ y = l * m
    BY MultipleIs
  <1>2. x + y = (k + l) * m /\ x - y = (k - l) * m
    BY <1>1
  <1>3. k + l \in Int /\ k - l \in Int /\ x + y \in Int /\ x - y \in Int
    OBVIOUS
  <1> QED BY <1>2, <1>3, MultipleIs

\* A multiple that is positive is no less than what it is a multiple of.
LEMMA MultipleLeast ==
    ASSUME NEW m \in Nat \ {0}, NEW x \in Nat, x % m = 0
    PROVE  x = 0 \/ x >= m
  <1>0. x \in Int
    OBVIOUS
  <1>1. PICK k \in Int : x = k * m
    BY <1>0, MultipleIs
  <1>2. k <= 0 => k * m <= 0
    OBVIOUS
  <1>3. k >= 1 => k * m >= m
    OBVIOUS
  <1> QED BY <1>1, <1>2, <1>3

LEMMA AlignDownIs ==
    ASSUME NEW n \in Nat \ {0}, NEW a \in Nat
    PROVE  /\ AlignDown(a, n) \in Nat /\ AlignDown(a, n) % n = 0
           /\ AlignDown(a, n) <= a /\ a < AlignDown(a, n) + n
           /\ a % n = 0 => AlignDown(a, n) = a
  <1>1. PICK q \in Int, r \in 0 .. n - 1 : q = a \div n /\ r = a % n /\ a = q * n + r
    BY DivModIs
  <1>2. AlignDown(a, n) = q * n /\ q * n \in Int
    BY <1>1 DEF AlignDown
  <1>3. q * n >= 0
    <2>1. q <= -1 => q * n <= -n
      OBVIOUS
    <2>2. q >= 0 => q * n >= 0
      OBVIOUS
    <2> QED BY <1>1, <2>1, <2>2
  <1>4. (q * n) % n = 0
    BY <1>2, MultipleIs
  <1> QED BY <1>1, <1>2, <1>3, <1>4

LEMMA AlignUpIs ==
    ASSUME NEW n \in Nat \ {0}, NEW a \in Nat
    PROVE  /\ AlignUp(a, n) \in Nat /\ AlignUp(a, n) % n = 0
           /\ a <= AlignUp(a, n) /\ AlignUp(a, n) < a + n
           /\ a % n = 0 => AlignUp(a, n) = a
  <1>1. a + n - 1 \in Nat /\ AlignUp(a, n) = AlignDown(a + n - 1, n)
    BY DEF AlignUp, AlignDown
  <1>2. PICK u \in Nat : u = AlignUp(a, n) /\ u % n = 0 /\ u <= a + n - 1 /\ a + n - 1 < u + n
    BY <1>1, AlignDownIs
  <1>3. ASSUME a % n = 0 PROVE u = a
    <2>1. (u - a) % n = 0 /\ u - a \in Nat
      BY <1>2, <1>3, MultiplesAdd
    <2> QED BY <1>2, <2>1, MultipleLeast
  <1> QED BY <1>2, <1>3

LEMMA SelfMultiple ==
    ASSUME NEW n \in Nat \ {0}
    PROVE  n % n = 0
  <1>1. /\ AlignDown(n, n) \in Nat /\ n < AlignDown(n, n) + n
        /\ AlignDown(n, n) <= n /\ AlignDown(n, n) % n = 0
    BY AlignDownIs
  <1>2. AlignDown(n, n) = n
    BY <1>1, MultipleLeast
  <1> QED BY <1>1, <1>2

(***************************************************************************)
(* Where an address is in the tables.                                      *)
(***************************************************************************)
LEMMA Sizes ==
    /\ Blocks \in Nat \ {0} /\ Pages \in Nat \ {0} /\ Words \in Nat \ {0}
    /\ Page \in Nat \ {0} /\ Block \in Nat \ {0}
    /\ Page = Words /\ Page <= Block
  <1>1. Blocks \in Nat \ {0} /\ Pages \in Nat \ {0} /\ Words \in Nat \ {0}
    BY StageTwoAssumption
  <1>2. Pages * Words >= Words
    BY <1>1
  <1> QED BY <1>1, <1>2 DEF Page, Block

LEMMA BlockIs == Block = Pages * Page
  BY DEF Page, Block

\* The place of a page in its block.
LEMMA PageInBlock ==
    ASSUME NEW j \in 0 .. Pages - 1
    PROVE  j * Page \in Nat /\ j * Page + Page <= Block /\ (j # 0 => j * Page >= Page)
  <1> USE Sizes
  <1>1. j * Page <= (Pages - 1) * Page
    OBVIOUS
  <1>2. (Pages - 1) * Page = Block - Page
    BY BlockIs
  <1>3. j * Page \in Nat /\ (j # 0 => j * Page >= Page)
    OBVIOUS
  <1> QED BY <1>1, <1>2, <1>3

\* a is word n of page j of block i.
Word(a, i, j, n) == a = i * Block + j * Page + n
\* The same, with all that follows from it: p and s are the starts of the block, and
\* of the page in the block.
Place(a, i, j, n, p, s) ==
    /\ i \in Nat /\ j \in 0 .. Pages - 1 /\ n \in 0 .. Page - 1 /\ p \in Nat /\ s \in Nat
    /\ i = L2Index(a) /\ j = L3Index(a) /\ n = L4Index(a)
    /\ p = i * Block /\ s = j * Page /\ a = p + s + n
    /\ n = a % Page /\ a % Block = s + n /\ s + n < Block
    /\ a \in Addr => i < Blocks

LEMMA PlaceOf ==
    ASSUME NEW i \in Nat, NEW j \in 0 .. Pages - 1, NEW n \in 0 .. Page - 1,
           NEW a \in Nat, Word(a, i, j, n)
    PROVE  /\ L2Index(a) = i /\ L3Index(a) = j /\ L4Index(a) = n
           /\ a % Page = n /\ a % Block = j * Page + n
  <1> USE Sizes
  <1>1. PICK q \in Nat : q = i * Pages + j
    OBVIOUS
  <1>2. a = q * Page + n
    <2>0. a = i * Block + j * Page + n
      BY DEF Word
    <2>1. i * Block = (i * Pages) * Page
      BY BlockIs
    <2>2. q * Page = (i * Pages) * Page + j * Page
      BY <1>1
    <2> QED BY <2>0, <2>1, <2>2
  <1>3. a \in Int /\ q \in Int /\ i \in Int
    OBVIOUS
  <1>4. a \div Page = q /\ a % Page = n
    <2>1. Divided(a, Page, q, n)
      BY <1>2, <1>3 DEF Divided
    <2> QED BY <1>3, <2>1, DivModOf
  <1>5. q % Pages = j
    <2>1. Divided(q, Pages, i, j)
      BY <1>1, <1>3 DEF Divided
    <2> QED BY <1>3, <2>1, DivModOf
  <1>6. PICK m \in 0 .. Block - 1 : m = j * Page + n
    BY PageInBlock
  <1>7. a = i * Block + m
    BY <1>6 DEF Word
  <1>8. a \div Block = i /\ a % Block = m
    <2>1. Divided(a, Block, i, m)
      BY <1>3, <1>7 DEF Divided
    <2> QED BY <1>3, <2>1, DivModOf
  <1> QED BY <1>4, <1>5, <1>6, <1>8 DEF L2Index, L3Index, L4Index

LEMMA PlaceExists ==
    ASSUME NEW a \in Nat
    PROVE  \E i \in Nat, j \in 0 .. Pages - 1, n \in 0 .. Page - 1 :
              Word(a, i, j, n)
  <1> USE Sizes
  <1>1. PICK q \in Nat, n \in 0 .. Page - 1 : Divided(a, Page, q, n)
    BY DivMod
  <1>2. PICK i \in Nat, j \in 0 .. Pages - 1 : Divided(q, Pages, i, j)
    BY DivMod
  <1>3. a = i * Block + j * Page + n
    <2>1. i * Block = (i * Pages) * Page
      BY BlockIs
    <2>2. q = i * Pages + j
      BY <1>2 DEF Divided
    <2>3. q * Page = (i * Pages) * Page + j * Page
      BY <2>2
    <2>4. a = q * Page + n
      BY <1>1 DEF Divided
    <2> QED BY <2>1, <2>3, <2>4
  <1>4. Word(a, i, j, n)
    BY <1>3 DEF Word
  <1> QED BY <1>4, Zenon

LEMMA PlaceIs ==
    ASSUME NEW a \in Nat
    PROVE  \E i, j, n, p, s : Place(a, i, j, n, p, s)
  <1> USE Sizes
  <1>1. PICK i \in Nat, j \in 0 .. Pages - 1, n \in 0 .. Page - 1 :
           Word(a, i, j, n)
    BY PlaceExists
  <1>2. /\ L2Index(a) = i /\ L3Index(a) = j /\ L4Index(a) = n
        /\ a % Page = n /\ a % Block = j * Page + n
    BY <1>1, PlaceOf
  <1>3. PICK p \in Nat, s \in Nat : p = i * Block /\ s = j * Page /\ s + Page <= Block
    BY PageInBlock
  <1>4. a \in Addr => i < Blocks
    <2>1. i >= Blocks => i * Block >= Blocks * Block
      OBVIOUS
    <2>2. a \in Addr => a < Blocks * Block
      BY DEF Addr
    <2> QED BY <1>1, <1>3, <2>1, <2>2 DEF Word
  <1>5. a = p + s + n /\ s + n < Block
    BY <1>1, <1>3 DEF Word
  <1>6. Place(a, i, j, n, p, s)
    BY <1>2, <1>3, <1>4, <1>5 DEF Place
  <1> QED BY <1>6, Zenon

LEMMA IndexIn ==
    ASSUME NEW a \in Addr
    PROVE  /\ a \in Nat /\ L2Index(a) \in 0 .. Blocks - 1 /\ L3Index(a) \in 0 .. Pages - 1
           /\ L4Index(a) \in 0 .. Words - 1 /\ L4Index(a) = a % Page
           /\ a % Block \in Nat /\ a % Block = (L3Index(a) * Page) + (a % Page)
           /\ L3Index(a) * Page \in Nat
  <1>1. a \in Nat
    BY Sizes DEF Addr
  <1>2. PICK i, j, n, p, s : Place(a, i, j, n, p, s)
    BY <1>1, PlaceIs, Zenon
  <1>3. /\ L3Index(a) * Page = s /\ i = L2Index(a) /\ j = L3Index(a) /\ n = L4Index(a)
        /\ a % Page = n /\ a % Block = s + n /\ s \in Nat
        /\ j \in 0 .. Pages - 1 /\ n \in 0 .. Page - 1 /\ i \in Nat /\ i < Blocks
    BY <1>2, Zenon DEF Place
  <1> QED BY <1>1, <1>3, Sizes

\* What is aligned to a block is aligned to a page.
LEMMA BlockIsPages ==
    ASSUME NEW x \in Nat, x % Block = 0
    PROVE  x % Page = 0
  <1>1. PICK i, j, n, p, s : Place(x, i, j, n, p, s)
    BY PlaceIs, Zenon
  <1> QED BY <1>1, Sizes DEF Place

LEMMA SamePage ==
    ASSUME NEW b \in Nat, b % Page = 0, NEW a \in Nat
    PROVE  /\ (L2Index(a) = L2Index(b) /\ L3Index(a) = L3Index(b)) <=> a \in b .. b + Page - 1
           /\ a \in b .. b + Page - 1 => a % Page = a - b
  <1> USE Sizes
  <1>1. PICK i, j, z, p, s : Place(b, i, j, z, p, s)
    BY PlaceIs, Zenon
  <1>2. b = p + s /\ p \in Nat /\ s \in Nat /\ i = L2Index(b) /\ j = L3Index(b)
    BY <1>1 DEF Place
  <1>3. ASSUME L2Index(a) = i, L3Index(a) = j
        PROVE  a \in b .. b + Page - 1
    <2>1. PICK n, p1, s1 : Place(a, i, j, n, p1, s1)
      <3>1. PICK i1, j1, n, p1, s1 : Place(a, i1, j1, n, p1, s1)
        BY PlaceIs, Zenon
      <3>2. i1 = i /\ j1 = j
        BY <1>3, <3>1, Zenon DEF Place
      <3> QED BY <3>1, <3>2, Zenon
    <2>2. p1 = p /\ s1 = s
      BY <1>1, <2>1, Zenon DEF Place
    <2>3. a = p + s + n /\ n \in 0 .. Page - 1
      BY <2>1, <2>2, Zenon DEF Place
    <2> QED BY <1>2, <2>3
  <1>4. ASSUME a \in b .. b + Page - 1
        PROVE  L2Index(a) = i /\ L3Index(a) = j /\ a % Page = a - b
    <2>1. PICK n \in 0 .. Page - 1 : n = a - b
      BY <1>4
    <2>2. a = p + s + n
      BY <1>2, <2>1
    <2>3. Word(a, i, j, n) /\ i \in Nat /\ j \in 0 .. Pages - 1
      BY <1>1, <2>2, Zenon DEF Place, Word
    <2> QED BY <2>1, <2>3, PlaceOf
  <1> QED BY <1>2, <1>3, <1>4

LEMMA SameBlock ==
    ASSUME NEW b \in Nat, b % Block = 0, NEW a \in Nat
    PROVE  /\ L2Index(a) = L2Index(b) <=> a \in b .. b + Block - 1
           /\ a \in b .. b + Block - 1 => a % Block = a - b
  <1> USE Sizes
  <1>0. a \in Int /\ b \in Int
    OBVIOUS
  <1>1. PICK i \in Nat, r \in 0 .. Block - 1 : Divided(b, Block, i, r)
    BY DivMod
  <1>2. i = L2Index(b) /\ r = 0
    BY <1>0, <1>1, DivModOf DEF L2Index
  <1>3. PICK p \in Nat : p = i * Block /\ b = p
    BY <1>1, <1>2 DEF Divided
  <1>4. ASSUME L2Index(a) = i
        PROVE  a \in b .. b + Block - 1
    <2>1. PICK j \in Nat, n \in 0 .. Block - 1 : Divided(a, Block, j, n)
      BY DivMod
    <2>2. j = i
      BY <1>0, <1>4, <2>1, DivModOf DEF L2Index
    <2>3. a = p + n
      BY <1>3, <2>1, <2>2 DEF Divided
    <2> QED BY <1>3, <2>3
  <1>5. ASSUME a \in b .. b + Block - 1
        PROVE  L2Index(a) = i /\ a % Block = a - b
    <2>1. PICK n \in 0 .. Block - 1 : n = a - b
      BY <1>5
    <2>2. Divided(a, Block, i, n)
      BY <1>3, <2>1 DEF Divided
    <2> QED BY <1>0, <2>1, <2>2, DivModOf DEF L2Index
  <1> QED BY <1>2, <1>4, <1>5

LEMMA SameWord ==
    ASSUME NEW b \in Nat, NEW a \in Nat, L2Index(a) = L2Index(b), L3Index(a) = L3Index(b),
           L4Index(a) = L4Index(b)
    PROVE  a = b
  <1>1. PICK i, j, n, p, s : Place(a, i, j, n, p, s)
    BY PlaceIs, Zenon
  <1>2. PICK i1, j1, n1, p1, s1 : Place(b, i1, j1, n1, p1, s1)
    BY PlaceIs, Zenon
  <1> QED BY <1>1, <1>2, Zenon DEF Place

(***************************************************************************)
(* The tree: what its entries look like, and what a walk finds in it.      *)
(***************************************************************************)
Leaf(e) ==
    /\ e.k \in {"none", "hw", "sw", "hook", "proxyR", "proxyW", "proxyRW"}
    /\ e = [k |-> e.k, t |-> e.t]
    /\ e.k \in {"hw", "sw"} => e.t \in Nat

\* Hardware maps a block only where the target is aligned like it.
BlockLeaf(e) == Leaf(e) /\ (e.k = "hw" => e.t % Block = 0)

\* A table of n entries.
IsTableOf(e, n) == e = Table(e.e) /\ e.e = [i \in 0 .. n - 1 |-> e.e[i]]

Entry3(e) == Leaf(e) \/ (IsTableOf(e, Words) /\ \A i \in 0 .. Words - 1 : Leaf(e.e[i]))
Entry2(e) == BlockLeaf(e) \/ (IsTableOf(e, Pages) /\ \A i \in 0 .. Pages - 1 : Entry3(e.e[i]))

Tree(t) == /\ t = [i \in 0 .. Blocks - 1 |-> t[i]]
           /\ \A i \in 0 .. Blocks - 1 : Entry2(t[i])

\* Walk(a) in the tree t.
Found(t, a) ==
    LET d2 == t[L2Index(a)]
        d3 == d2.e[L3Index(a)]
    IN IF ~IsTable(d2) THEN InBlock(d2, a)
       ELSE IF ~IsTable(d3) THEN Plus(d3, a % Page)
       ELSE d3.e[L4Index(a)]

\* A store into the L2 table, into an L3 table, and into an L4 table.
Stored2(t, u, i, x) == u = [t EXCEPT ![i] = x]
Stored3(t, u, i, j, x) == u = [t EXCEPT ![i].e[j] = x]
Stored4(t, u, i, j, n, x) == u = [t EXCEPT ![i].e[j].e[n] = x]

LEMMA PlusIs ==
    ASSUME NEW e, Leaf(e), NEW n \in Nat
    PROVE  /\ Leaf(Plus(e, n)) /\ Plus(e, n).k = e.k
           /\ e.k \in {"hw", "sw"} => Plus(e, n).t = e.t + n
           /\ e.k \notin {"hw", "sw"} => Plus(e, n) = e
           /\ Plus(e, 0) = e
  <1>1. CASE e.k \in {"hw", "sw"}
    <2>1. PICK y \in {"hw", "sw"}, z \in Nat : e = [k |-> y, t |-> z]
      BY <1>1 DEF Leaf
    <2>2. Plus(e, n) = [k |-> y, t |-> z + n] /\ Plus(e, 0) = e
      BY <2>1 DEF Plus
    <2> QED BY <2>1, <2>2 DEF Leaf
  <1>2. CASE e.k \notin {"hw", "sw"}
    BY <1>2 DEF Leaf, Plus
  <1> QED BY <1>1, <1>2

LEMMA PlusPlus ==
    ASSUME NEW e, Leaf(e), NEW n \in Nat, NEW m \in Nat
    PROVE  Plus(Plus(e, n), m) = Plus(e, n + m)
  <1>1. CASE e.k \in {"hw", "sw"}
    <2>1. PICK y \in {"hw", "sw"}, z \in Nat : e = [k |-> y, t |-> z]
      BY <1>1 DEF Leaf
    <2>2. Plus(e, n) = [k |-> y, t |-> z + n] /\ Plus(e, n + m) = [k |-> y, t |-> z + (n + m)]
      BY <2>1 DEF Plus
    <2>3. Plus([k |-> y, t |-> z + n], m) = [k |-> y, t |-> (z + n) + m]
      BY <2>1 DEF Plus
    <2> QED BY <2>2, <2>3
  <1>2. CASE e.k \notin {"hw", "sw"}
    BY <1>2 DEF Plus
  <1> QED BY <1>1, <1>2

LEMMA LeafIsNoTable ==
    ASSUME NEW e, Leaf(e)
    PROVE  ~IsTable(e)
  BY DEF Leaf, IsTable

LEMMA TableIs ==
    ASSUME NEW f, NEW n, f = [i \in 0 .. n - 1 |-> f[i]]
    PROVE  IsTableOf(Table(f), n) /\ Table(f).e = f /\ IsTable(Table(f))
  BY DEF IsTableOf, Table, IsTable

LEMMA TableEntries ==
    /\ \A e : Entry2(e) /\ IsTable(e)
                 => IsTableOf(e, Pages) /\ \A i \in 0 .. Pages - 1 : Entry3(e.e[i])
    /\ \A e : Entry2(e) /\ ~IsTable(e) => BlockLeaf(e)
    /\ \A e : Entry3(e) /\ IsTable(e)
                 => IsTableOf(e, Words) /\ \A i \in 0 .. Words - 1 : Leaf(e.e[i])
    /\ \A e : Entry3(e) /\ ~IsTable(e) => Leaf(e)
  BY LeafIsNoTable DEF Entry2, Entry3, BlockLeaf, IsTableOf, Table, IsTable

\* In a block a walk adds, for hardware too.
LEMMA InBlockIs ==
    ASSUME NEW d, BlockLeaf(d), NEW a \in Addr
    PROVE  InBlock(d, a) = Plus(d, a % Block)
  <1>1. CASE d.k = "hw"
    <2>1. PICK z \in Nat : d = [k |-> "hw", t |-> z] /\ z % Block = 0
      BY <1>1 DEF BlockLeaf, Leaf
    <2>2. AlignDown(z, Block) = z
      BY <2>1, AlignDownIs, Sizes
    <2>3. PICK n \in Nat : n = a % Block
      BY IndexIn
    <2>4. Plus(d, n) = [k |-> "hw", t |-> z + n]
      BY <2>1, <2>3 DEF Plus
    <2> QED BY <2>1, <2>2, <2>3, <2>4 DEF InBlock, Hw
  <1>2. CASE d.k # "hw"
    BY <1>2 DEF InBlock
  <1> QED BY <1>1, <1>2

\* What a walk finds, by the three depths of the tree.
LEMMA FoundIs ==
    ASSUME NEW t, Tree(t), NEW a \in Addr, NEW d2, d2 = t[L2Index(a)]
    PROVE  /\ Entry2(d2)
           /\ ~IsTable(d2) => BlockLeaf(d2) /\ Found(t, a) = Plus(d2, a % Block)
           /\ IsTable(d2) /\ ~IsTable(d2.e[L3Index(a)])
                 => Leaf(d2.e[L3Index(a)]) /\ Found(t, a) = Plus(d2.e[L3Index(a)], a % Page)
           /\ IsTable(d2) /\ IsTable(d2.e[L3Index(a)])
                 => Found(t, a) = d2.e[L3Index(a)].e[L4Index(a)]
  <1>1. Entry2(d2)
    BY IndexIn DEF Tree
  <1>2. ~IsTable(d2) => BlockLeaf(d2)
    BY <1>1, TableEntries
  <1>3. IsTable(d2) /\ ~IsTable(d2.e[L3Index(a)]) => Leaf(d2.e[L3Index(a)])
    BY <1>1, TableEntries, IndexIn
  <1> QED BY <1>1, <1>2, <1>3, InBlockIs DEF Found

\* A store into the L2 table.
LEMMA Store2Is ==
    ASSUME NEW t, Tree(t), NEW i \in 0 .. Blocks - 1, NEW x, NEW u, Stored2(t, u, i, x)
    PROVE  /\ u = [m \in 0 .. Blocks - 1 |-> u[m]] /\ u[i] = x
           /\ \A m \in 0 .. Blocks - 1 : m # i => u[m] = t[m]
           /\ Entry2(x) => Tree(u)
  BY DEF Tree, Stored2

\* A store into an L3 table.
LEMMA Store3Is ==
    ASSUME NEW t, Tree(t), NEW i \in 0 .. Blocks - 1, IsTable(t[i]), NEW j \in 0 .. Pages - 1,
           NEW x, NEW u, Stored3(t, u, i, j, x)
    PROVE  /\ u = [m \in 0 .. Blocks - 1 |-> u[m]]
           /\ \A m \in 0 .. Blocks - 1 : m # i => u[m] = t[m]
           /\ IsTableOf(u[i], Pages) /\ IsTable(u[i]) /\ u[i].e[j] = x
           /\ \A m \in 0 .. Pages - 1 : m # j => u[i].e[m] = t[i].e[m]
           /\ Entry3(x) => Tree(u)
  <1>1. PICK f : t[i] = Table(f) /\ f = [m \in 0 .. Pages - 1 |-> f[m]] /\ f = t[i].e
    BY TableEntries DEF Tree, IsTableOf
  <1>2. PICK g : g = [f EXCEPT ![j] = x]
    OBVIOUS
  <1>3. [t[i] EXCEPT !.e = g] = Table(g)
    BY <1>1 DEF Table
  <1>4. Stored2(t, u, i, Table(g))
    BY <1>1, <1>2, <1>3 DEF Stored2, Stored3
  <1>5. g = [m \in 0 .. Pages - 1 |-> g[m]] /\ g[j] = x
        /\ \A m \in 0 .. Pages - 1 : m # j => g[m] = f[m]
    BY <1>1, <1>2
  <1>6. IsTableOf(Table(g), Pages) /\ Table(g).e = g /\ IsTable(Table(g))
    BY <1>5, TableIs
  <1>7. ASSUME Entry3(x) PROVE Entry2(Table(g))
    <2>1. \A m \in 0 .. Pages - 1 : Entry3(f[m])
      BY <1>1, TableEntries DEF Tree
    <2>2. \A m \in 0 .. Pages - 1 : Entry3(g[m])
      BY <1>5, <1>7, <2>1
    <2> QED BY <1>6, <2>2 DEF Entry2
  <1>8. /\ u = [m \in 0 .. Blocks - 1 |-> u[m]] /\ u[i] = Table(g)
        /\ \A m \in 0 .. Blocks - 1 : m # i => u[m] = t[m]
        /\ Entry2(Table(g)) => Tree(u)
    BY <1>4, Store2Is
  <1>9. IsTableOf(u[i], Pages) /\ IsTable(u[i]) /\ u[i].e = g
    BY <1>6, <1>8
  <1>10. u[i].e[j] = x /\ \A m \in 0 .. Pages - 1 : m # j => u[i].e[m] = t[i].e[m]
    BY <1>1, <1>5, <1>9
  <1> QED BY <1>7, <1>8, <1>9, <1>10

\* A store into an L4 table.
LEMMA Store4Is ==
    ASSUME NEW t, Tree(t), NEW i \in 0 .. Blocks - 1, IsTable(t[i]), NEW j \in 0 .. Pages - 1,
           IsTable(t[i].e[j]), NEW n \in 0 .. Words - 1, NEW x, Leaf(x),
           NEW u, Stored4(t, u, i, j, n, x)
    PROVE  /\ Tree(u)
           /\ \A m \in 0 .. Blocks - 1 : m # i => u[m] = t[m]
           /\ IsTable(u[i]) /\ IsTable(u[i].e[j]) /\ u[i].e[j].e[n] = x
           /\ \A m \in 0 .. Pages - 1 : m # j => u[i].e[m] = t[i].e[m]
           /\ \A m \in 0 .. Words - 1 : m # n => u[i].e[j].e[m] = t[i].e[j].e[m]
  <1>1. Entry3(t[i].e[j])
    BY TableEntries DEF Tree
  <1>2. PICK f : /\ t[i].e[j] = Table(f) /\ f = [m \in 0 .. Words - 1 |-> f[m]]
                 /\ f = t[i].e[j].e /\ \A m \in 0 .. Words - 1 : Leaf(f[m])
    BY <1>1, TableEntries DEF IsTableOf
  <1>3. PICK g : g = [f EXCEPT ![n] = x]
    OBVIOUS
  <1>4. [t[i].e[j] EXCEPT !.e = g] = Table(g)
    BY <1>2 DEF Table
  <1>5. Stored3(t, u, i, j, Table(g))
    BY <1>2, <1>3, <1>4 DEF Stored3, Stored4
  <1>6. /\ g = [m \in 0 .. Words - 1 |-> g[m]] /\ g[n] = x
        /\ \A m \in 0 .. Words - 1 : m # n => g[m] = f[m]
        /\ \A m \in 0 .. Words - 1 : Leaf(g[m])
    BY <1>2, <1>3
  <1>7. IsTableOf(Table(g), Words) /\ Table(g).e = g /\ IsTable(Table(g))
    BY <1>6, TableIs
  <1>8. Entry3(Table(g))
    BY <1>6, <1>7 DEF Entry3
  <1>9. /\ Tree(u) /\ IsTable(u[i]) /\ u[i].e[j] = Table(g)
        /\ \A m \in 0 .. Blocks - 1 : m # i => u[m] = t[m]
        /\ \A m \in 0 .. Pages - 1 : m # j => u[i].e[m] = t[i].e[m]
    BY <1>5, <1>8, Store3Is
  <1>10. IsTable(u[i].e[j]) /\ u[i].e[j].e = g
    BY <1>7, <1>9
  <1> QED BY <1>2, <1>6, <1>9, <1>10

\* Two trees that agree on the way to a find the same.
LEMMA FoundSame ==
    ASSUME NEW t, NEW u, NEW a, u[L2Index(a)] = t[L2Index(a)]
    PROVE  Found(u, a) = Found(t, a)
  BY DEF Found

LEMMA FoundSame3 ==
    ASSUME NEW t, NEW u, NEW a, IsTable(u[L2Index(a)]), IsTable(t[L2Index(a)]),
           u[L2Index(a)].e[L3Index(a)] = t[L2Index(a)].e[L3Index(a)]
    PROVE  Found(u, a) = Found(t, a)
  BY DEF Found

\* hv_pt_get_l3(): the walks find what they found.
LEMMA SplitBlock ==
    ASSUME NEW t, Tree(t), NEW i \in 0 .. Blocks - 1, ~IsTable(t[i]),
           NEW u, Stored2(t, u, i, Filled3(t[i]))
    PROVE  Tree(u) /\ \A a \in Addr : Found(u, a) = Found(t, a)
  <1>1. PICK d : d = t[i] /\ BlockLeaf(d) /\ Leaf(d)
    BY TableEntries DEF Tree, BlockLeaf
  <1>2. PICK f : /\ Filled3(d) = Table(f) /\ f = [j \in 0 .. Pages - 1 |-> f[j]]
                 /\ \A j \in 0 .. Pages - 1 : f[j] = Plus(d, j * Page)
    <2> DEFINE g == [j \in 0 .. Pages - 1 |-> Plus(d, j * Page)]
    <2>1. /\ Filled3(d) = Table(g) /\ g = [j \in 0 .. Pages - 1 |-> g[j]]
          /\ \A j \in 0 .. Pages - 1 : g[j] = Plus(d, j * Page)
      BY DEF Filled3
    <2> HIDE DEF g
    <2> QED BY <2>1
  <1>3. \A j \in 0 .. Pages - 1 : Leaf(f[j])
    <2>1. \A j \in 0 .. Pages - 1 : j * Page \in Nat
      BY PageInBlock
    <2> QED BY <1>1, <1>2, <2>1, PlusIs
  <1>4. IsTableOf(Table(f), Pages) /\ Table(f).e = f /\ IsTable(Table(f))
    BY <1>2, TableIs
  <1>5. Entry2(Table(f))
    BY <1>3, <1>4 DEF Entry2, Entry3
  <1>6. /\ u[i] = Table(f) /\ Tree(u)
        /\ \A m \in 0 .. Blocks - 1 : m # i => u[m] = t[m]
    BY <1>1, <1>2, <1>5, Store2Is
  <1>7. ASSUME NEW a \in Addr PROVE Found(u, a) = Found(t, a)
    <2>1. L2Index(a) \in 0 .. Blocks - 1
      BY IndexIn
    <2>2. CASE L2Index(a) # i
      BY <1>6, <2>1, <2>2, FoundSame
    <2>3. CASE L2Index(a) = i
      <3>1. PICK j \in 0 .. Pages - 1, s \in Nat, n \in Nat :
               j = L3Index(a) /\ s = j * Page /\ n = a % Page /\ a % Block = s + n
        BY IndexIn
      <3>2. Found(t, a) = Plus(d, s + n)
        BY <1>1, <2>3, <3>1, FoundIs
      <3>3. Found(u, a) = Plus(f[j], n)
        BY <1>3, <1>4, <1>6, <2>3, <3>1, FoundIs, LeafIsNoTable
      <3>4. f[j] = Plus(d, s)
        BY <1>2, <3>1
      <3> QED BY <1>1, <3>2, <3>3, <3>4, PlusPlus
    <2> QED BY <2>2, <2>3
  <1> QED BY <1>6, <1>7

LEMMA AgreesPlus ==
    ASSUME NEW d, Leaf(d), NEW n \in Nat, NEW e, e = (IF d.k = "hw" THEN Sw(d.t) ELSE d)
    PROVE  Leaf(e) /\ Agrees(Plus(e, n), Plus(d, n))
  <1>1. CASE d.k = "hw"
    <2>1. PICK z \in Nat : d = [k |-> "hw", t |-> z]
      BY <1>1 DEF Leaf
    <2>2. e = [k |-> "sw", t |-> z]
      BY <2>1 DEF Sw
    <2>3. Plus(e, n) = [k |-> "sw", t |-> z + n] /\ Plus(d, n) = [k |-> "hw", t |-> z + n]
      BY <2>1, <2>2 DEF Plus
    <2> QED BY <2>2, <2>3 DEF Agrees, Sw, Leaf
  <1>2. CASE d.k # "hw"
    BY <1>2 DEF Agrees
  <1> QED BY <1>1, <1>2

LEMMA Filled4Is ==
    ASSUME NEW d, Leaf(d)
    PROVE  /\ Entry3(Filled4(d)) /\ IsTable(Filled4(d))
           /\ \A n \in 0 .. Words - 1 : Agrees(Filled4(d).e[n], Plus(d, n))
  <1>1. PICK e : e = IF d.k = "hw" THEN Sw(d.t) ELSE d
    OBVIOUS
  <1>2. PICK f : /\ Filled4(d) = Table(f) /\ f = [n \in 0 .. Words - 1 |-> f[n]]
                 /\ \A n \in 0 .. Words - 1 : f[n] = Plus(e, n)
    <2> DEFINE g == [n \in 0 .. Words - 1 |-> Plus(e, n)]
    <2>1. /\ Filled4(d) = Table(g) /\ g = [n \in 0 .. Words - 1 |-> g[n]]
          /\ \A n \in 0 .. Words - 1 : g[n] = Plus(e, n)
      BY <1>1 DEF Filled4
    <2> HIDE DEF g
    <2> QED BY <2>1
  <1>3. ASSUME NEW n \in 0 .. Words - 1
        PROVE  Leaf(f[n]) /\ Agrees(f[n], Plus(d, n))
    <2>1. n \in Nat
      BY Sizes
    <2>2. Leaf(e) /\ Agrees(Plus(e, n), Plus(d, n))
      BY <1>1, <2>1, AgreesPlus
    <2>3. Leaf(Plus(e, n))
      BY <2>1, <2>2, PlusIs
    <2> QED BY <1>2, <2>2, <2>3
  <1>4. IsTableOf(Table(f), Words) /\ Table(f).e = f /\ IsTable(Table(f))
    BY <1>2, TableIs
  <1>5. Entry3(Table(f))
    BY <1>3, <1>4 DEF Entry3
  <1> QED BY <1>2, <1>3, <1>4, <1>5

\* hv_pt_get_l4(): the walks find what they found, or by software what was
\* found by hardware.
LEMMA SplitPage ==
    ASSUME NEW t, Tree(t), NEW i \in 0 .. Blocks - 1, IsTable(t[i]), NEW j \in 0 .. Pages - 1,
           ~IsTable(t[i].e[j]), NEW u, Stored3(t, u, i, j, Filled4(t[i].e[j]))
    PROVE  Tree(u) /\ \A a \in Addr : Agrees(Found(u, a), Found(t, a))
  <1>1. PICK d : d = t[i].e[j] /\ Leaf(d)
    BY TableEntries DEF Tree
  <1>2. PICK x : /\ x = Filled4(d) /\ Entry3(x) /\ IsTable(x)
                 /\ \A n \in 0 .. Words - 1 : Agrees(x.e[n], Plus(d, n))
    BY <1>1, Filled4Is
  <1>3. /\ Tree(u) /\ IsTable(u[i]) /\ u[i].e[j] = x
        /\ \A m \in 0 .. Blocks - 1 : m # i => u[m] = t[m]
        /\ \A m \in 0 .. Pages - 1 : m # j => u[i].e[m] = t[i].e[m]
    BY <1>1, <1>2, Store3Is
  <1>4. ASSUME NEW a \in Addr PROVE Agrees(Found(u, a), Found(t, a))
    <2>1. L2Index(a) \in 0 .. Blocks - 1 /\ L3Index(a) \in 0 .. Pages - 1
      BY IndexIn
    <2>2. CASE L2Index(a) # i
      BY <1>3, <2>1, <2>2, FoundSame DEF Agrees
    <2>3. CASE L2Index(a) = i /\ L3Index(a) # j
      BY <1>3, <2>1, <2>3, FoundSame3 DEF Agrees
    <2>4. CASE L2Index(a) = i /\ L3Index(a) = j
      <3>1. PICK n \in 0 .. Words - 1 : n = L4Index(a) /\ n = a % Page
        BY IndexIn
      <3>2. Found(t, a) = Plus(d, n)
        BY <1>1, <2>4, <3>1, FoundIs
      <3>3. Found(u, a) = x.e[n]
        BY <1>2, <1>3, <2>4, <3>1 DEF Found
      <3> QED BY <1>2, <3>2, <3>3
    <2> QED BY <2>2, <2>3, <2>4
  <1> QED BY <1>3, <1>4

\* From t to u the n words from b have come to map to e, and no others.
Maps(t, u, b, n, e) ==
    /\ Tree(u)
    /\ \A a \in Addr : Found(u, a) = IF a \in b .. b + n - 1 THEN Plus(e, a - b) ELSE Found(t, a)

LEMMA StoreWord ==
    ASSUME NEW t, Tree(t), NEW b \in Addr, IsTable(t[L2Index(b)]),
           IsTable(t[L2Index(b)].e[L3Index(b)]), NEW e, Leaf(e),
           NEW u, Stored4(t, u, L2Index(b), L3Index(b), L4Index(b), e)
    PROVE  Maps(t, u, b, 1, e)
  <1>1. PICK i \in 0 .. Blocks - 1, j \in 0 .. Pages - 1, n \in 0 .. Words - 1 :
           i = L2Index(b) /\ j = L3Index(b) /\ n = L4Index(b)
    BY IndexIn
  <1>2. /\ Tree(u)
        /\ \A m \in 0 .. Blocks - 1 : m # i => u[m] = t[m]
        /\ IsTable(u[i]) /\ IsTable(u[i].e[j]) /\ u[i].e[j].e[n] = e
        /\ \A m \in 0 .. Pages - 1 : m # j => u[i].e[m] = t[i].e[m]
        /\ \A m \in 0 .. Words - 1 : m # n => u[i].e[j].e[m] = t[i].e[j].e[m]
    BY <1>1, Store4Is
  <1>3. ASSUME NEW a \in Addr
        PROVE  Found(u, a) = IF a \in b .. b + 1 - 1 THEN Plus(e, a - b) ELSE Found(t, a)
    <2>1. /\ L2Index(a) \in 0 .. Blocks - 1 /\ L3Index(a) \in 0 .. Pages - 1
          /\ L4Index(a) \in 0 .. Words - 1 /\ a \in Nat /\ b \in Nat
      BY IndexIn
    <2>2. a \in b .. b + 1 - 1 <=> a = b
      BY <2>1
    <2>3. CASE a = b
      <3>1. Found(u, a) = e
        BY <1>1, <1>2, <2>3 DEF Found
      <3>2. a - b = 0
        BY <2>1, <2>3
      <3>3. Plus(e, a - b) = e
        BY <3>2, PlusIs
      <3> QED BY <2>2, <2>3, <3>1, <3>3
    <2>4. CASE a # b
      <3>1. L2Index(a) # i \/ L3Index(a) # j \/ L4Index(a) # n
        BY <1>1, <2>1, <2>4, SameWord
      <3>2. Found(u, a) = Found(t, a)
        <4>1. CASE L2Index(a) # i
          BY <1>2, <2>1, <4>1, FoundSame
        <4>2. CASE L2Index(a) = i /\ L3Index(a) # j
          BY <1>1, <1>2, <2>1, <4>2, FoundSame3
        <4>3. CASE L2Index(a) = i /\ L3Index(a) = j /\ L4Index(a) # n
          <5>1. Found(u, a) = u[i].e[j].e[L4Index(a)]
            BY <1>2, <4>3 DEF Found
          <5>2. Found(t, a) = t[i].e[j].e[L4Index(a)]
            BY <1>1, <4>3 DEF Found
          <5> QED BY <1>2, <2>1, <4>3, <5>1, <5>2
        <4> QED BY <3>1, <4>1, <4>2, <4>3
      <3> QED BY <2>2, <2>4, <3>2
    <2> QED BY <2>3, <2>4
  <1> QED BY <1>2, <1>3 DEF Maps

LEMMA StorePage ==
    ASSUME NEW t, Tree(t), NEW b \in Addr, b % Page = 0, IsTable(t[L2Index(b)]), NEW e, Leaf(e),
           NEW u, Stored3(t, u, L2Index(b), L3Index(b), e)
    PROVE  Maps(t, u, b, Page, e)
  <1>1. PICK i \in 0 .. Blocks - 1, j \in 0 .. Pages - 1 : i = L2Index(b) /\ j = L3Index(b)
    BY IndexIn
  <1>2. Entry3(e) /\ ~IsTable(e)
    BY LeafIsNoTable DEF Entry3
  <1>3. /\ Tree(u) /\ IsTable(u[i]) /\ u[i].e[j] = e
        /\ \A m \in 0 .. Blocks - 1 : m # i => u[m] = t[m]
        /\ \A m \in 0 .. Pages - 1 : m # j => u[i].e[m] = t[i].e[m]
    BY <1>1, <1>2, Store3Is
  <1>4. ASSUME NEW a \in Addr
        PROVE  Found(u, a) = IF a \in b .. b + Page - 1 THEN Plus(e, a - b) ELSE Found(t, a)
    <2>1. /\ L2Index(a) \in 0 .. Blocks - 1 /\ L3Index(a) \in 0 .. Pages - 1
          /\ a \in Nat /\ b \in Nat
      BY IndexIn
    <2>2. /\ (L2Index(a) = i /\ L3Index(a) = j) <=> a \in b .. b + Page - 1
          /\ a \in b .. b + Page - 1 => a % Page = a - b
      BY <1>1, <2>1, SamePage
    <2>3. CASE L2Index(a) = i /\ L3Index(a) = j
      <3>1. Found(u, a) = Plus(e, a % Page)
        BY <1>2, <1>3, <2>3 DEF Found
      <3> QED BY <2>2, <2>3, <3>1
    <2>4. CASE L2Index(a) # i
      <3>1. Found(u, a) = Found(t, a)
        BY <1>3, <2>1, <2>4, FoundSame
      <3> QED BY <2>2, <2>4, <3>1
    <2>5. CASE L2Index(a) = i /\ L3Index(a) # j
      <3>1. Found(u, a) = Found(t, a)
        BY <1>1, <1>3, <2>1, <2>5, FoundSame3
      <3> QED BY <2>2, <2>5, <3>1
    <2> QED BY <2>3, <2>4, <2>5
  <1> QED BY <1>3, <1>4 DEF Maps

LEMMA StoreBlock ==
    ASSUME NEW t, Tree(t), NEW b \in Addr, b % Block = 0, NEW e, BlockLeaf(e),
           NEW u, Stored2(t, u, L2Index(b), e)
    PROVE  Maps(t, u, b, Block, e)
  <1>1. PICK i \in 0 .. Blocks - 1 : i = L2Index(b)
    BY IndexIn
  <1>2. Entry2(e) /\ ~IsTable(e)
    BY LeafIsNoTable DEF Entry2, BlockLeaf
  <1>3. Tree(u) /\ u[i] = e /\ \A m \in 0 .. Blocks - 1 : m # i => u[m] = t[m]
    BY <1>1, <1>2, Store2Is
  <1>4. ASSUME NEW a \in Addr
        PROVE  Found(u, a) = IF a \in b .. b + Block - 1 THEN Plus(e, a - b) ELSE Found(t, a)
    <2>1. L2Index(a) \in 0 .. Blocks - 1 /\ a \in Nat /\ b \in Nat
      BY IndexIn
    <2>2. /\ L2Index(a) = i <=> a \in b .. b + Block - 1
          /\ a \in b .. b + Block - 1 => a % Block = a - b
      BY <1>1, <2>1, SameBlock
    <2>3. CASE L2Index(a) = i
      <3>1. Found(u, a) = InBlock(e, a)
        BY <1>2, <1>3, <2>3 DEF Found
      <3>2. Found(u, a) = Plus(e, a % Block)
        BY <3>1, InBlockIs
      <3> QED BY <2>2, <2>3, <3>2
    <2>4. CASE L2Index(a) # i
      <3>1. Found(u, a) = Found(t, a)
        BY <1>3, <2>1, <2>4, FoundSame
      <3> QED BY <2>2, <2>4, <3>1
    <2> QED BY <2>3, <2>4
  <1> QED BY <1>3, <1>4 DEF Maps

(***************************************************************************)
(* The call: the request that is left in c, of which w says what its words *)
(* shall map to, and where the parts of hv_map() begin and end.            *)
(***************************************************************************)
Parts == {"entry", "head4", "head3", "block", "tail3", "tail4"}

Request(c, w) ==
    /\ c = [pc |-> c.pc, from |-> c.from, to |-> c.to, size |-> c.size, chunk |-> c.chunk]
    /\ c.pc \in Parts
    /\ c.from \in Nat /\ c.size \in Nat /\ c.chunk \in 0 .. c.size
    /\ c.from + c.size <= Blocks * Block
    /\ Leaf(c.to)
    /\ \A a \in c.from .. c.from + c.size - 1 : w[a] = Plus(c.to, a - c.from)

AtHead4(c) == /\ (c.from + c.chunk) % Page = 0 \/ c.chunk = c.size
              /\ c.to.k = "hw" => c.chunk = 0
AtHead3(c) == /\ c.chunk % Page = 0
              /\ (c.from + c.chunk) % Block = 0 \/ c.size - c.chunk < Page
AtBlock(c) == /\ c.chunk % Block = 0
              /\ c.chunk > 0 => c.from % Block = 0 /\ BlockLeaf(c.to)
AtTail3(c) == c.chunk % Page = 0 /\ c.size - c.chunk < Page
AtTail4(c) == c.chunk = c.size /\ c.size < Page

Alignment(c) ==
    /\ c.to.k = "hw" => c.from % Page = 0 /\ c.size % Page = 0
    /\ c.pc \in {"head3", "block", "tail3"} => c.from % Page = 0 \/ c.size = 0
    /\ c.pc = "entry" => c.chunk = 0
    /\ c.pc = "head4" => AtHead4(c)
    /\ c.pc = "head3" => AtHead3(c)
    /\ c.pc = "block" => AtBlock(c)
    /\ c.pc = "tail3" => AtTail3(c)
    /\ c.pc = "tail4" => AtTail4(c)

InRequest(c, a) == c.pc # "idle" /\ a \in c.from .. c.from + c.size - 1

\* MapExact of the tree t, the call c, and what was and is asked for.
Exact(t, c, o, w) ==
    \A a \in Addr : Agrees(Found(t, a), IF InRequest(c, a) THEN o[a] ELSE w[a])

\* n words of the chunk are mapped.
Moved(c, d, n) ==
    d = [c EXCEPT !.from = @ + n, !.to = Plus(@, n), !.size = @ - n, !.chunk = @ - n]

LEMMA MovedIs ==
    ASSUME NEW c, NEW w, Request(c, w), NEW n, NEW d, Moved(c, d, n)
    PROVE  /\ d.pc = c.pc /\ d.from = c.from + n /\ d.to = Plus(c.to, n)
           /\ d.size = c.size - n /\ d.chunk = c.chunk - n
           /\ d = [pc |-> d.pc, from |-> d.from, to |-> d.to, size |-> d.size, chunk |-> d.chunk]
  <1>1. PICK p, f, t, s, k : c = [pc |-> p, from |-> f, to |-> t, size |-> s, chunk |-> k]
    BY DEF Request
  <1>2. d = [pc |-> p, from |-> f + n, to |-> Plus(t, n), size |-> s - n, chunk |-> k - n]
    BY <1>1 DEF Moved
  <1> QED BY <1>1, <1>2

\* What the first n words of the request map to is done, the rest is left.
LEMMA MovedKeeps ==
    ASSUME NEW c, NEW w, Request(c, w), NEW n \in Nat, n <= c.chunk, NEW d, Moved(c, d, n),
           NEW t, NEW u, Maps(t, u, c.from, n, c.to), NEW o, Exact(t, c, o, w)
    PROVE  Request(d, w) /\ Exact(u, d, o, w)
  <1>1. PICK f, s, k, e :
           /\ f \in Nat /\ s \in Nat /\ k \in 0 .. s
           /\ f = c.from /\ s = c.size /\ k = c.chunk /\ e = c.to /\ Leaf(e)
           /\ f + s <= Blocks * Block /\ n <= k
           /\ \A a \in f .. f + s - 1 : w[a] = Plus(e, a - f)
    BY DEF Request
  <1>2. PICK g, r, m :
           /\ g \in Nat /\ r \in Nat /\ m \in 0 .. r
           /\ d.from = g /\ d.size = r /\ d.chunk = m /\ g = f + n /\ r = s - n /\ m = k - n
    BY <1>1, MovedIs
  <1>3. d.to = Plus(e, n) /\ Leaf(d.to) /\ d.pc = c.pc /\ c.pc \in Parts
    <2>1. d.to = Plus(e, n) /\ d.pc = c.pc
      BY <1>1, MovedIs
    <2>2. Leaf(Plus(e, n))
      BY <1>1, PlusIs
    <2> QED BY <2>1, <2>2 DEF Request
  <1>4. ASSUME NEW a \in g .. g + r - 1
        PROVE  w[a] = Plus(d.to, a - g)
    <2>1. a \in f .. f + s - 1 /\ a - f = n + (a - g) /\ a - g \in Nat
      BY <1>1, <1>2
    <2>2. PICK q \in Nat : q = a - g /\ a - f = n + q
      BY <2>1
    <2>3. Plus(Plus(e, n), q) = Plus(e, n + q)
      BY <1>1, PlusPlus
    <2> QED BY <1>1, <1>3, <2>1, <2>2, <2>3
  <1>5. g + r = f + s
    BY <1>1, <1>2
  <1>6. Request(d, w)
    BY <1>1, <1>2, <1>3, <1>4, <1>5, MovedIs DEF Request
  <1>7. ASSUME NEW a \in Addr
        PROVE  Agrees(Found(u, a), IF InRequest(d, a) THEN o[a] ELSE w[a])
    <2>1. a \in Nat
      BY IndexIn
    <2>2. c.pc # "idle" /\ d.pc # "idle"
      BY <1>3 DEF Parts
    <2>3. /\ InRequest(c, a) <=> a \in f .. f + s - 1
          /\ InRequest(d, a) <=> a \in g .. g + r - 1
      BY <1>1, <1>2, <2>2 DEF InRequest
    <2>4. /\ Found(u, a) = (IF a \in f .. f + n - 1 THEN Plus(e, a - f) ELSE Found(t, a))
          /\ Agrees(Found(t, a), IF InRequest(c, a) THEN o[a] ELSE w[a])
      BY <1>1 DEF Maps, Exact
    <2>5. CASE a \in f .. f + n - 1
      <3>1. ~(a \in g .. g + r - 1) /\ a \in f .. f + s - 1
        BY <1>1, <1>2, <2>1, <2>5
      <3>2. Found(u, a) = w[a]
        BY <1>1, <2>4, <2>5, <3>1
      <3> QED BY <2>3, <3>1, <3>2 DEF Agrees
    <2>6. CASE ~(a \in f .. f + n - 1)
      <3>1. a \in g .. g + r - 1 <=> a \in f .. f + s - 1
        BY <1>1, <1>2, <2>1, <2>6
      <3> QED BY <2>3, <2>4, <2>6, <3>1
    <2> QED BY <2>5, <2>6
  <1> QED BY <1>6, <1>7 DEF Exact

LEMMA AgreesTransitive ==
    ASSUME NEW e, NEW f, NEW w, Agrees(e, f), Agrees(f, w)
    PROVE  Agrees(e, w)
  BY DEF Agrees, Sw

\* A word: never one of a hardware mapping.
LEMMA WordAligned ==
    ASSUME NEW c, NEW w, Request(c, w), Alignment(c), c.pc \in {"head4", "tail4"}, c.chunk > 0,
           NEW d, Moved(c, d, 1)
    PROVE  Alignment(d)
  <1> USE Sizes
  <1>1. c.from \in Nat /\ c.size \in Nat /\ c.chunk \in Nat /\ c.chunk <= c.size /\ Leaf(c.to)
    BY DEF Request
  <1>2. /\ d.pc = c.pc /\ d.from = c.from + 1 /\ d.to = Plus(c.to, 1) /\ d.to.k = c.to.k
        /\ d.size = c.size - 1 /\ d.chunk = c.chunk - 1
    <2>1. Plus(c.to, 1).k = c.to.k
      BY <1>1, PlusIs
    <2> QED BY <2>1, MovedIs
  <1>3. c.to.k # "hw"
    <2>1. CASE c.pc = "head4"
      BY <2>1, <1>1 DEF Alignment, AtHead4
    <2>2. CASE c.pc = "tail4"
      <3>1. c.size < Page /\ c.chunk = c.size /\ (c.to.k = "hw" => c.size % Page = 0)
        BY <2>2 DEF Alignment, AtTail4
      <3> QED BY <1>1, <3>1, MultipleLeast
    <2> QED BY <2>1, <2>2
  <1>4. d.from + d.chunk = c.from + c.chunk
    BY <1>1, <1>2
  <1>5. c.pc = "head4" => AtHead4(d)
    BY <1>1, <1>2, <1>3, <1>4 DEF Alignment, AtHead4
  <1>6. c.pc = "tail4" => AtTail4(d)
    BY <1>1, <1>2 DEF Alignment, AtTail4
  <1> QED BY <1>2, <1>3, <1>5, <1>6 DEF Alignment

LEMMA PageAligned ==
    ASSUME NEW c, NEW w, Request(c, w), Alignment(c), c.pc \in {"head3", "tail3"}, c.chunk > 0,
           NEW d, Moved(c, d, Page)
    PROVE  Alignment(d) /\ c.from % Page = 0 /\ Page <= c.chunk
  <1> USE Sizes
  <1>1. PICK f \in Nat, s \in Nat, k \in Nat :
           f = c.from /\ s = c.size /\ k = c.chunk /\ k <= s /\ k > 0 /\ Leaf(c.to)
    BY DEF Request
  <1>2. f % Page = 0 /\ k % Page = 0 /\ (c.to.k = "hw" => s % Page = 0)
    BY <1>1 DEF Alignment, AtHead3, AtTail3
  <1>3. Page <= k
    BY <1>1, <1>2, MultipleLeast
  <1>4. PICK g \in Nat, r \in Nat, m \in Nat :
           /\ g = d.from /\ r = d.size /\ m = d.chunk
           /\ g = f + Page /\ r = s - Page /\ m = k - Page
    BY <1>1, <1>3, MovedIs
  <1>5. d.pc = c.pc /\ d.to.k = c.to.k
    <2>1. Plus(c.to, Page).k = c.to.k
      BY <1>1, PlusIs
    <2> QED BY <2>1, MovedIs
  <1>6. Page % Page = 0
    BY SelfMultiple
  <1>7. g % Page = 0 /\ m % Page = 0 /\ (c.to.k = "hw" => r % Page = 0)
    <2>1. {f, s, k, Page} \subseteq Int
      BY <1>1
    <2>2. (f + Page) % Page = 0 /\ (k - Page) % Page = 0
      BY <1>2, <1>6, <2>1, MultiplesAdd
    <2>3. ASSUME s % Page = 0 PROVE (s - Page) % Page = 0
      BY <1>6, <2>1, <2>3, MultiplesAdd
    <2> QED BY <1>2, <1>4, <2>2, <2>3
  <1>8. g + m = f + k /\ r - m = s - k
    BY <1>4
  <1>9. c.pc = "head3" => AtHead3(d)
    BY <1>1, <1>4, <1>7, <1>8 DEF Alignment, AtHead3
  <1>10. c.pc = "tail3" => AtTail3(d)
    BY <1>1, <1>4, <1>7, <1>8 DEF Alignment, AtTail3
  <1> QED BY <1>1, <1>2, <1>3, <1>4, <1>5, <1>7, <1>9, <1>10 DEF Alignment

LEMMA BlockAligned ==
    ASSUME NEW c, NEW w, Request(c, w), Alignment(c), c.pc = "block", c.chunk > 0,
           NEW d, Moved(c, d, Block)
    PROVE  /\ Alignment(d) /\ c.from % Block = 0 /\ BlockLeaf(c.to) /\ Block <= c.chunk
  <1> USE Sizes
  <1>1. PICK f \in Nat, s \in Nat, k \in Nat :
           f = c.from /\ s = c.size /\ k = c.chunk /\ k <= s /\ k > 0 /\ Leaf(c.to)
    BY DEF Request
  <1>2. /\ f % Block = 0 /\ f % Page = 0 /\ k % Block = 0 /\ BlockLeaf(c.to)
        /\ c.to.k = "hw" => s % Page = 0
    BY <1>1, BlockIsPages DEF Alignment, AtBlock
  <1>3. Block <= k
    BY <1>1, <1>2, MultipleLeast
  <1>4. PICK g \in Nat, r \in Nat, m \in Nat :
           /\ g = d.from /\ r = d.size /\ m = d.chunk
           /\ g = f + Block /\ r = s - Block /\ m = k - Block
    BY <1>1, <1>3, MovedIs
  <1>5. d.pc = c.pc /\ d.to = Plus(c.to, Block)
    BY MovedIs
  <1>6. Block % Block = 0 /\ Block % Page = 0
    BY SelfMultiple, BlockIsPages
  <1>7. {f, s, k, Block} \subseteq Int
    BY <1>1
  <1>8. g % Block = 0 /\ m % Block = 0
    <2>1. (f + Block) % Block = 0 /\ (k - Block) % Block = 0
      BY <1>2, <1>6, <1>7, MultiplesAdd
    <2> QED BY <1>4, <2>1
  <1>9. g % Page = 0
    BY <1>8, BlockIsPages
  <1>10. s % Page = 0 => r % Page = 0
    <2>1. s % Page = 0 => (s - Block) % Page = 0
      BY <1>6, <1>7, MultiplesAdd
    <2> QED BY <1>4, <2>1
  <1>11. BlockLeaf(d.to) /\ d.to.k = c.to.k
    <2>1. Leaf(d.to) /\ d.to.k = c.to.k
      <3>1. Leaf(Plus(c.to, Block)) /\ Plus(c.to, Block).k = c.to.k
        BY <1>1, PlusIs
      <3> QED BY <1>5, <3>1
    <2>2. CASE c.to.k = "hw"
      <3>1. PICK z \in Nat : z = c.to.t /\ z % Block = 0 /\ d.to.t = z + Block
        <4>1. c.to.t \in Nat /\ c.to.t % Block = 0
          BY <1>2, <2>2 DEF BlockLeaf, Leaf
        <4>2. Plus(c.to, Block).t = c.to.t + Block
          BY <1>1, <2>2, PlusIs
        <4> QED BY <1>5, <4>1, <4>2
      <3>2. z \in Int /\ Block \in Int
        OBVIOUS
      <3>3. (z + Block) % Block = 0
        BY <1>6, <3>1, <3>2, MultiplesAdd
      <3> QED BY <2>1, <3>1, <3>3 DEF BlockLeaf
    <2> QED BY <2>1, <2>2 DEF BlockLeaf
  <1>12. AtBlock(d)
    BY <1>4, <1>8, <1>11 DEF AtBlock
  <1> QED BY <1>1, <1>2, <1>3, <1>4, <1>5, <1>9, <1>10, <1>11, <1>12 DEF Alignment

\* The parts of hv_map(), one after the other.
Begun(c, d) == d = [c EXCEPT !.pc = NextPart(@), !.chunk = Chunk(NextPart(c.pc), c)]

LEMMA BegunIs ==
    ASSUME NEW c, NEW w, Request(c, w), NEW d, Begun(c, d)
    PROVE  /\ d.pc = NextPart(c.pc) /\ d.from = c.from /\ d.to = c.to /\ d.size = c.size
           /\ d.chunk = Chunk(NextPart(c.pc), c)
           /\ d = [pc |-> d.pc, from |-> d.from, to |-> d.to, size |-> d.size, chunk |-> d.chunk]
  <1>1. PICK p, f, t, s, k : c = [pc |-> p, from |-> f, to |-> t, size |-> s, chunk |-> k]
    BY DEF Request
  <1>2. PICK p1, k1 : p1 = NextPart(c.pc) /\ k1 = Chunk(NextPart(c.pc), c)
    OBVIOUS
  <1>3. d = [pc |-> p1, from |-> f, to |-> t, size |-> s, chunk |-> k1]
    BY <1>1, <1>2 DEF Begun
  <1> QED BY <1>1, <1>2, <1>3

\* The boundary up to which pages are mapped.
LEMMA BoundaryIs ==
    ASSUME NEW f \in Nat
    PROVE  Boundary(f) \in Nat /\ f <= Boundary(f) /\ Boundary(f) % Block = 0
  <1> USE Sizes
  <1>1. PICK b \in Nat : b = AlignUp(f, Block) /\ f <= b /\ b % Block = 0
    BY AlignUpIs
  <1>2. PICK x \in Nat : x = AlignUp(Base, Block) /\ Base <= x /\ x % Block = 0 /\ Base \in Nat
    BY AlignUpIs, StageTwoAssumption
  <1>3. Boundary(f) = IF b >= RamBase /\ b < Base THEN x ELSE b
    BY <1>1, <1>2 DEF Boundary
  <1> QED BY <1>1, <1>2, <1>3

LEMMA BeginHead4 ==
    ASSUME NEW c, NEW w, Request(c, w), Alignment(c), c.pc = "entry", NEW d, Begun(c, d)
    PROVE  d.pc = "head4" /\ d.chunk \in 0 .. d.size /\ Alignment(d)
  <1> USE Sizes
  <1>1. PICK f \in Nat, s \in Nat : f = c.from /\ s = c.size
    BY DEF Request
  <1>2. PICK x \in Nat : /\ x = AlignUp(f, Page) /\ f <= x /\ x % Page = 0
                         /\ f % Page = 0 => x = f
    BY AlignUpIs
  <1>3. d.pc = "head4" /\ d.chunk = Min2(s, x - f)
    BY <1>1, <1>2, BegunIs DEF NextPart, Chunk
  <1>4. PICK k \in 0 .. s : k = d.chunk /\ (k = s \/ f + k = x) /\ (x = f => k = 0)
    BY <1>1, <1>2, <1>3 DEF Min2
  <1>5. d.from = f /\ d.size = s /\ d.to = c.to
    BY <1>1, BegunIs
  <1>6. c.to.k = "hw" => f % Page = 0 /\ s % Page = 0
    BY <1>1 DEF Alignment
  <1>7. AtHead4(d)
    BY <1>2, <1>4, <1>5, <1>6 DEF AtHead4
  <1> QED BY <1>3, <1>4, <1>5, <1>6, <1>7 DEF Alignment

LEMMA BeginHead3 ==
    ASSUME NEW c, NEW w, Request(c, w), Alignment(c), c.pc = "head4", c.chunk = 0,
           NEW d, Begun(c, d)
    PROVE  d.pc = "head3" /\ d.chunk \in 0 .. d.size /\ Alignment(d)
  <1> USE Sizes
  <1>1. PICK f \in Nat, s \in Nat : f = c.from /\ s = c.size
    BY DEF Request
  <1>2. PICK b \in Nat : b = Boundary(f) /\ f <= b /\ b % Block = 0
    BY BoundaryIs
  <1>3. PICK m \in Nat : m = Min2(s, b - f) /\ m <= s /\ (m = s \/ m = b - f)
    BY <1>2 DEF Min2
  <1>4. PICK k \in Nat : /\ k = AlignDown(m, Page) /\ k % Page = 0 /\ k <= m /\ m < k + Page
                         /\ m % Page = 0 => k = m
    BY AlignDownIs
  <1>5. d.pc = "head3" /\ d.chunk = k
    BY <1>1, <1>2, <1>3, <1>4, BegunIs DEF NextPart, Chunk
  <1>6. d.from = f /\ d.size = s /\ d.to = c.to
    BY <1>1, BegunIs
  <1>7. (c.to.k = "hw" => f % Page = 0 /\ s % Page = 0) /\ (f % Page = 0 \/ s = 0)
    BY <1>1 DEF Alignment, AtHead4
  <1>8. (f + k) % Block = 0 \/ s - k < Page
    <2>1. CASE m = s
      BY <1>4, <2>1
    <2>2. CASE m = b - f /\ f % Page = 0
      <3>1. b % Page = 0 /\ b \in Int /\ f \in Int
        BY <1>2, BlockIsPages
      <3>2. (b - f) % Page = 0
        BY <2>2, <3>1, MultiplesAdd
      <3>3. f + k = b
        BY <1>2, <1>4, <2>2, <3>2
      <3> QED BY <1>2, <3>3
    <2>3. CASE s = 0
      BY <1>3, <1>4, <2>3
    <2> QED BY <1>3, <1>7, <2>1, <2>2, <2>3
  <1>9. AtHead3(d)
    BY <1>4, <1>5, <1>6, <1>8 DEF AtHead3
  <1> QED BY <1>3, <1>4, <1>5, <1>6, <1>7, <1>9 DEF Alignment

LEMMA BeginBlock ==
    ASSUME NEW c, NEW w, Request(c, w), Alignment(c), c.pc = "head3", c.chunk = 0,
           NEW d, Begun(c, d)
    PROVE  d.pc = "block" /\ d.chunk \in 0 .. d.size /\ Alignment(d)
  <1> USE Sizes
  <1>1. PICK f \in Nat, s \in Nat : f = c.from /\ s = c.size
    BY DEF Request
  <1>2. PICK m \in Nat : m = AlignDown(s, Block) /\ m % Block = 0 /\ m <= s
    BY AlignDownIs
  <1>3. 0 % Block = 0
    OBVIOUS
  <1>4. /\ d.pc = "block"
        /\ d.chunk = (IF c.to.k = "hw" /\ c.to.t % Block # 0 THEN 0 ELSE m)
    BY <1>1, <1>2, BegunIs DEF NextPart, Chunk
  <1>5. d.from = f /\ d.size = s /\ d.to = c.to /\ Leaf(c.to)
    BY <1>1, BegunIs DEF Request
  <1>6. PICK k \in 0 .. s : k = d.chunk /\ k % Block = 0 /\ (k > 0 => BlockLeaf(c.to))
    BY <1>2, <1>3, <1>4, <1>5 DEF BlockLeaf
  <1>7. /\ c.to.k = "hw" => f % Page = 0 /\ s % Page = 0
        /\ f % Page = 0 \/ s = 0
        /\ f % Block = 0 \/ s < Page
    BY <1>1 DEF Alignment, AtHead3
  <1>8. k > 0 => f % Block = 0
    BY <1>6, <1>7, MultipleLeast
  <1>9. AtBlock(d)
    BY <1>5, <1>6, <1>8 DEF AtBlock
  <1> QED BY <1>4, <1>5, <1>6, <1>7, <1>9 DEF Alignment

LEMMA BeginTail3 ==
    ASSUME NEW c, NEW w, Request(c, w), Alignment(c), c.pc = "block", c.chunk = 0,
           NEW d, Begun(c, d)
    PROVE  d.pc = "tail3" /\ d.chunk \in 0 .. d.size /\ Alignment(d)
  <1> USE Sizes
  <1>1. PICK f \in Nat, s \in Nat : f = c.from /\ s = c.size
    BY DEF Request
  <1>2. PICK k \in Nat : k = AlignDown(s, Page) /\ k % Page = 0 /\ k <= s /\ s < k + Page
    BY AlignDownIs
  <1>3. d.pc = "tail3" /\ d.chunk = k
    BY <1>1, <1>2, BegunIs DEF NextPart, Chunk
  <1>4. d.from = f /\ d.size = s /\ d.to = c.to
    BY <1>1, BegunIs
  <1>5. (c.to.k = "hw" => f % Page = 0 /\ s % Page = 0) /\ (f % Page = 0 \/ s = 0)
    BY <1>1 DEF Alignment
  <1>6. AtTail3(d)
    BY <1>2, <1>3, <1>4 DEF AtTail3
  <1> QED BY <1>2, <1>3, <1>4, <1>5, <1>6 DEF Alignment

LEMMA BeginTail4 ==
    ASSUME NEW c, NEW w, Request(c, w), Alignment(c), c.pc = "tail3", c.chunk = 0,
           NEW d, Begun(c, d)
    PROVE  d.pc = "tail4" /\ d.chunk \in 0 .. d.size /\ Alignment(d)
  <1>1. PICK f \in Nat, s \in Nat : f = c.from /\ s = c.size
    BY DEF Request
  <1>2. d.pc = "tail4" /\ d.chunk = s
    BY <1>1, BegunIs DEF NextPart, Chunk
  <1>3. d.from = f /\ d.size = s /\ d.to = c.to
    BY <1>1, BegunIs
  <1>4. (c.to.k = "hw" => f % Page = 0 /\ s % Page = 0) /\ s < Page
    BY <1>1 DEF Alignment, AtTail3
  <1>5. AtTail4(d)
    BY <1>2, <1>3, <1>4 DEF AtTail4
  <1> QED BY <1>2, <1>3, <1>4, <1>5 DEF Alignment

LEMMA BegunKeeps ==
    ASSUME NEW c, NEW w, Request(c, w), Alignment(c), c.pc # "tail4", c.chunk = 0,
           NEW d, Begun(c, d), NEW t, NEW o, Exact(t, c, o, w)
    PROVE  Request(d, w) /\ Alignment(d) /\ Exact(t, d, o, w)
  <1>1. d.pc \in Parts /\ d.chunk \in 0 .. d.size /\ Alignment(d)
    BY BeginHead4, BeginHead3, BeginBlock, BeginTail3, BeginTail4 DEF Request, Parts
  <1>2. /\ d.from = c.from /\ d.to = c.to /\ d.size = c.size
        /\ d = [pc |-> d.pc, from |-> d.from, to |-> d.to, size |-> d.size, chunk |-> d.chunk]
    BY BegunIs
  <1>3. Request(d, w)
    BY <1>1, <1>2 DEF Request
  <1>4. c.pc # "idle" /\ d.pc # "idle"
    BY <1>1 DEF Request, Parts
  <1>5. \A a : InRequest(d, a) <=> InRequest(c, a)
    BY <1>2, <1>4 DEF InRequest
  <1>6. Exact(t, d, o, w)
    BY <1>5 DEF Exact
  <1> QED BY <1>1, <1>3, <1>6

(***************************************************************************)
(* MapExact is not inductive: what a store does depends on the shape of    *)
(* the tree, on the alignment of the part of hv_map() that runs, and on    *)
(* the request that is left still asking for what was asked for; and only  *)
(* tables of the entry that is stored next are ever freed and linked.      *)
(***************************************************************************)
FreedNext ==
    freed => \/ At2 /\ IsTable(D2)
             \/ At3 /\ IsTable(D2) /\ IsTable(D3)

StageInv ==
    /\ Tree(l2) /\ FreedNext
    /\ call = NoCall \/ (Request(call, wanted) /\ Alignment(call))
    /\ Exact(l2, call, old, wanted)

LEMMA StageInvInit == StageInit => StageInv
  <1> SUFFICES ASSUME StageInit PROVE StageInv
    OBVIOUS
  <1> USE Sizes
  <1>1. Leaf(Unmapped) /\ Unmapped.k = "none" /\ BlockLeaf(Unmapped)
    BY DEF Unmapped, Leaf, BlockLeaf
  <1>2. Tree(l2)
    BY <1>1 DEF StageInit, Tree, Entry2
  <1>3. ASSUME NEW a \in Addr PROVE Found(l2, a) = wanted[a]
    <2>1. PICK i \in 0 .. Blocks - 1, n \in Nat : i = L2Index(a) /\ n = a % Block
      BY IndexIn
    <2>2. l2[i] = Unmapped
      BY DEF StageInit
    <2>3. Found(l2, a) = Plus(Unmapped, n)
      BY <1>1, <1>2, <2>1, <2>2, FoundIs, LeafIsNoTable
    <2>4. Plus(Unmapped, n) = Unmapped
      BY <1>1 DEF Plus
    <2> QED BY <2>3, <2>4 DEF StageInit
  <1>4. Exact(l2, call, old, wanted)
    BY <1>3 DEF Exact, InRequest, Agrees, StageInit, NoCall
  <1> QED BY <1>2, <1>4 DEF StageInv, StageInit, FreedNext

\* Nothing is freed but by the parts that store entries over tables.
LEMMA NoneFreed ==
    ASSUME StageInv, call = NoCall \/ call.chunk = 0 \/ At4 \/ ~IsTable(D2)
    PROVE  ~freed
  BY DEF StageInv, FreedNext, At2, At3, At4, NoCall

\* hv_map() is called.
LEMMA HvMapKeeps ==
    ASSUME StageInv, NEW r \in Ranges, NEW to, Leaf(to), HvMap(r[1], to, r[2])
    PROVE  StageInv'
  <1>1. PICK f \in Nat, s \in Nat : f = r[1] /\ s = r[2] /\ f + s <= Blocks * Block
    BY StageTwoAssumption, IndexIn
  <1>2. /\ call = NoCall
        /\ to.k = "hw" => f % Page = 0 /\ s % Page = 0
        /\ call' = [pc |-> "entry", from |-> f, to |-> to, size |-> s, chunk |-> 0]
        /\ old' = wanted /\ l2' = l2 /\ freed' = freed
        /\ wanted' = [a \in Addr |-> IF a \in f .. f + s - 1 THEN Plus(to, a - f) ELSE wanted[a]]
    BY <1>1 DEF HvMap
  <1>3. \A a \in f .. f + s - 1 : a \in Addr
    BY <1>1, Sizes DEF Addr
  <1>4. \A a \in f .. f + s - 1 : wanted'[a] = Plus(to, a - f)
    BY <1>2, <1>3
  <1>5. PICK d : /\ d = call' /\ d.pc = "entry" /\ d.from = f /\ d.to = to /\ d.size = s
                 /\ d.chunk = 0
                 /\ d = [pc |-> d.pc, from |-> d.from, to |-> d.to, size |-> d.size,
                         chunk |-> d.chunk]
    BY <1>2
  <1>6. PICK w : w = wanted' /\ \A a \in f .. f + s - 1 : w[a] = Plus(to, a - f)
    BY <1>4
  <1>7. Request(d, w)
    BY <1>1, <1>5, <1>6 DEF Request, Parts
  <1>8. Alignment(d)
    BY <1>2, <1>5 DEF Alignment
  <1>9. ASSUME NEW a \in Addr
        PROVE  Agrees(Found(l2, a), IF InRequest(d, a) THEN wanted[a] ELSE w[a])
    <2>1. Agrees(Found(l2, a), wanted[a])
      BY <1>2 DEF StageInv, Exact, InRequest, NoCall
    <2>2. InRequest(d, a) <=> a \in f .. f + s - 1
      BY <1>5 DEF InRequest
    <2>3. ~InRequest(d, a) => w[a] = wanted[a]
      BY <1>2, <1>6, <2>2
    <2> QED BY <2>1, <2>3
  <1>10. Exact(l2, d, wanted, w)
    BY <1>9 DEF Exact
  <1>11. FreedNext'
    BY <1>2, NoneFreed DEF FreedNext
  <1> QED BY <1>2, <1>5, <1>6, <1>7, <1>8, <1>10, <1>11 DEF StageInv

\* A part of hv_map() begins, and the last one ends.
LEMMA PartKeeps ==
    ASSUME StageInv, Part \/ Return
    PROVE  StageInv'
  <1>1. call # NoCall /\ Request(call, wanted) /\ Alignment(call)
    BY DEF Part, Return, NoCall, StageInv
  <1>4. FreedNext'
    BY NoneFreed DEF FreedNext, Part, Return
  <1>2. CASE Part
    <2>1. PICK d : d = call' /\ Begun(call, d) /\ call.pc # "tail4" /\ call.chunk = 0
      BY <1>2 DEF Part, Begun
    <2>2. Exact(l2, call, old, wanted)
      BY DEF StageInv
    <2>3. Request(d, wanted) /\ Alignment(d) /\ Exact(l2, d, old, wanted)
      BY <1>1, <2>1, <2>2, BegunKeeps
    <2> QED BY <1>2, <1>4, <2>1, <2>3 DEF Part, StageInv
  <1>3. CASE Return
    <2>1. call.pc = "tail4" /\ call.size = 0 /\ call.from \in Nat
      BY <1>1, <1>3 DEF Return, Alignment, AtTail4, Request
    <2>2. \A a \in Addr : ~InRequest(call, a) /\ ~InRequest(NoCall, a)
      BY <2>1, IndexIn DEF InRequest, NoCall
    <2>3. Exact(l2, NoCall, old, wanted)
      BY <2>2 DEF Exact, StageInv
    <2> QED BY <1>3, <1>4, <2>3 DEF Return, StageInv
  <1> QED BY <1>2, <1>3

\* What the running part of hv_map() works on is in the tree.
LEMMA AtWork ==
    ASSUME StageInv, At2 \/ At3 \/ At4
    PROVE  /\ Request(call, wanted) /\ Alignment(call) /\ call.chunk > 0 /\ call.from \in Addr
           /\ I2 \in 0 .. Blocks - 1 /\ I3 \in 0 .. Pages - 1
           /\ L4Index(call.from) \in 0 .. Words - 1
           /\ Tree(l2) /\ Exact(l2, call, old, wanted)
  <1>1. call # NoCall /\ call.chunk > 0
    BY DEF At2, At3, At4, NoCall
  <1>2. Request(call, wanted) /\ Alignment(call) /\ Tree(l2) /\ Exact(l2, call, old, wanted)
    BY <1>1 DEF StageInv
  <1>3. call.from \in Addr
    BY <1>1, <1>2, Sizes DEF Request, Addr
  <1> QED BY <1>1, <1>2, <1>3, IndexIn DEF I2, I3

\* The tables that hv_map() needs.
LEMMA GetKeeps ==
    ASSUME StageInv, GetL3 \/ GetL4
    PROVE  StageInv'
  <1>1. /\ I2 \in 0 .. Blocks - 1 /\ I3 \in 0 .. Pages - 1 /\ Tree(l2)
        /\ Exact(l2, call, old, wanted)
    BY AtWork DEF GetL3, GetL4
  <1>2. /\ call' = call /\ old' = old /\ wanted' = wanted
    BY DEF GetL3, GetL4
  <1>3. PICK u : /\ u = l2' /\ Tree(u)
                 /\ \A a \in Addr : Agrees(Found(u, a), Found(l2, a))
    <2>1. CASE GetL3
      <3>1. PICK u : u = l2' /\ Stored2(l2, u, I2, Filled3(l2[I2])) /\ ~IsTable(l2[I2])
        BY <2>1 DEF GetL3, Stored2, D2
      <3>2. Tree(u) /\ \A a \in Addr : Found(u, a) = Found(l2, a)
        BY <1>1, <3>1, SplitBlock
      <3> QED BY <3>1, <3>2 DEF Agrees
    <2>2. CASE GetL4
      <3>1. PICK u : /\ u = l2' /\ Stored3(l2, u, I2, I3, Filled4(l2[I2].e[I3]))
                     /\ IsTable(l2[I2]) /\ ~IsTable(l2[I2].e[I3])
        BY <2>2 DEF GetL4, Stored3, D2, D3
      <3>2. Tree(u) /\ \A a \in Addr : Agrees(Found(u, a), Found(l2, a))
        BY <1>1, <3>1, SplitPage
      <3> QED BY <3>1, <3>2
    <2> QED BY <2>1, <2>2
  <1>4. Exact(u, call, old, wanted)
    BY <1>1, <1>3, AgreesTransitive DEF Exact
  <1>5. FreedNext'
    BY NoneFreed DEF FreedNext, GetL3, GetL4
  <1> QED BY <1>2, <1>3, <1>4, <1>5 DEF StageInv

\* The tables of the entry that is stored next are freed.
LEMMA FreeKeeps ==
    ASSUME StageInv, FreePage \/ FreeBlock
    PROVE  StageInv'
  <1>1. UNCHANGED <<l2, call, old, wanted>>
    BY DEF FreePage, FreeBlock
  <1>2. FreedNext'
    BY <1>1 DEF FreePage, FreeBlock, FreedNext, At2, At3, D2, D3, I2, I3
  <1> QED BY <1>1, <1>2 DEF StageInv

\* The stores: words, pages and blocks.
LEMMA MapKeeps ==
    ASSUME StageInv, MapL4 \/ MapL3 \/ MapL2
    PROVE  StageInv'
  <1>1. /\ Request(call, wanted) /\ Alignment(call) /\ call.chunk > 0 /\ call.from \in Addr
        /\ I2 \in 0 .. Blocks - 1 /\ I3 \in 0 .. Pages - 1
        /\ Tree(l2) /\ Exact(l2, call, old, wanted)
    BY AtWork DEF MapL4, MapL3, MapL2
  <1>2. old' = old /\ wanted' = wanted /\ Leaf(call.to) /\ call.chunk \in Nat
    BY <1>1 DEF MapL4, MapL3, MapL2, Request
  <1>3. PICK u, d, n : /\ u = l2' /\ d = call' /\ n \in Nat /\ n <= call.chunk
                       /\ Moved(call, d, n) /\ Alignment(d)
                       /\ Maps(l2, u, call.from, n, call.to)
    <2>1. CASE MapL4
      <3>1. PICK u, d :
               /\ u = l2' /\ d = call' /\ Moved(call, d, 1) /\ call.pc \in {"head4", "tail4"}
               /\ Stored4(l2, u, L2Index(call.from), L3Index(call.from), L4Index(call.from),
                          call.to)
               /\ IsTable(l2[L2Index(call.from)])
               /\ IsTable(l2[L2Index(call.from)].e[L3Index(call.from)])
        BY <2>1 DEF MapL4, At4, D2, D3, I2, I3, Stored4, Advanced, Moved
      <3>2. Alignment(d)
        BY <1>1, <3>1, WordAligned
      <3>3. Maps(l2, u, call.from, 1, call.to)
        BY <1>1, <1>2, <3>1, StoreWord
      <3>4. 1 \in Nat /\ 1 <= call.chunk
        BY <1>1, <1>2
      <3> QED BY <3>1, <3>2, <3>3, <3>4, SMTT(30)
    <2>2. CASE MapL3
      <3>1. PICK u, d :
               /\ u = l2' /\ d = call' /\ Moved(call, d, Page) /\ call.pc \in {"head3", "tail3"}
               /\ Stored3(l2, u, L2Index(call.from), L3Index(call.from), call.to)
               /\ IsTable(l2[L2Index(call.from)])
        BY <2>2 DEF MapL3, At3, D2, I2, I3, Stored3, Advanced, Moved
      <3>2. Alignment(d) /\ call.from % Page = 0 /\ Page <= call.chunk
        BY <1>1, <3>1, PageAligned
      <3>3. Maps(l2, u, call.from, Page, call.to)
        BY <1>1, <1>2, <3>1, <3>2, StorePage
      <3> QED BY <3>1, <3>2, <3>3, Sizes
    <2>3. CASE MapL2
      <3>1. PICK u, d :
               /\ u = l2' /\ d = call' /\ Moved(call, d, Block) /\ call.pc = "block"
               /\ Stored2(l2, u, L2Index(call.from), call.to)
        BY <2>3 DEF MapL2, At2, I2, Stored2, Advanced, Moved
      <3>2. /\ Alignment(d) /\ call.from % Block = 0 /\ BlockLeaf(call.to)
            /\ Block <= call.chunk
        BY <1>1, <3>1, BlockAligned
      <3>3. Maps(l2, u, call.from, Block, call.to)
        BY <1>1, <3>1, <3>2, StoreBlock
      <3> QED BY <3>1, <3>2, <3>3, Sizes
    <2> QED BY <2>1, <2>2, <2>3
  <1>4. Request(d, wanted) /\ Exact(u, d, old, wanted)
    BY <1>1, <1>3, MovedKeeps
  <1>5. Tree(u)
    BY <1>3 DEF Maps
  <1>6. /\ Tree(l2') /\ Request(call', wanted') /\ Alignment(call')
        /\ Exact(l2', call', old', wanted')
    BY <1>2, <1>3, <1>4, <1>5
  <1>7. FreedNext'
    BY NoneFreed DEF FreedNext, MapL4, MapL3, MapL2
  <1> QED BY <1>6, <1>7 DEF StageInv

LEMMA StageInvNext == StageInv /\ [StageNext]_stageVars => StageInv'
  <1> SUFFICES ASSUME StageInv, [StageNext]_stageVars PROVE StageInv'
    OBVIOUS
  <1>1. ASSUME NEW r \in Ranges,
               \/ HvUnmap(r)
               \/ \E o \in HwOffsets : HvMapHw(r, o)
               \/ \E o \in SwOffsets : HvMapSw(r, o)
               \/ \E k \in HookKinds, h \in Hooks : HvMapHook(r, k, h)
        PROVE  StageInv'
    <2>1. r[1] \in Nat
      BY StageTwoAssumption, IndexIn
    <2>2. CASE HvUnmap(r)
      <3>1. Leaf(Unmapped)
        BY DEF Leaf, Unmapped
      <3> QED BY <2>2, <3>1, HvMapKeeps DEF HvUnmap
    <2>3. ASSUME NEW o \in HwOffsets, HvMapHw(r, o) PROVE StageInv'
      <3>1. o \in Nat
        BY StageTwoAssumption
      <3>2. Leaf(Hw(r[1] + o))
        BY <2>1, <3>1 DEF Leaf, Hw
      <3> QED BY <2>3, <3>2, HvMapKeeps DEF HvMapHw
    <2>4. ASSUME NEW o \in SwOffsets, HvMapSw(r, o) PROVE StageInv'
      <3>1. o \in Nat
        BY StageTwoAssumption
      <3>2. Leaf(Sw(r[1] + o))
        BY <2>1, <3>1 DEF Leaf, Sw
      <3> QED BY <2>4, <3>2, HvMapKeeps DEF HvMapSw
    <2>5. ASSUME NEW k \in HookKinds, NEW h \in Hooks, HvMapHook(r, k, h) PROVE StageInv'
      <3>1. Leaf(Hook(k, h))
        BY DEF Leaf, Hook, HookKinds, ProxyKinds
      <3> QED BY <2>5, <3>1, HvMapKeeps DEF HvMapHook
    <2> QED BY <1>1, <2>2, <2>3, <2>4, <2>5
  <1>2. CASE Part \/ Return
    BY <1>2, PartKeeps
  <1>3. CASE GetL3 \/ GetL4
    BY <1>3, GetKeeps
  <1>4. CASE MapL4 \/ MapL3 \/ MapL2
    BY <1>4, MapKeeps
  <1>5. CASE FreePage \/ FreeBlock
    BY <1>5, FreeKeeps
  <1>6. CASE UNCHANGED stageVars
    BY <1>6 DEF StageInv, stageVars, FreedNext, At2, At3, D2, D3, I2, I3
  <1> QED BY <1>1, <1>2, <1>3, <1>4, <1>5, <1>6, Zenon DEF StageNext

\* The words that are translated by a freed table are those of the block or
\* page that the running call maps next.
LEMMA DanglingLeft ==
    ASSUME StageInv, NEW a \in Addr, Dangling(a)
    PROVE  Left(a)
  <1>1. At2 \/ At3
    BY DEF Dangling, FreedBlock, FreedPage
  <1>2. PICK f \in Nat, s \in Nat, k \in Nat :
           /\ f = call.from /\ s = call.size /\ k = call.chunk /\ k <= s /\ k > 0
           /\ call.pc \in Parts /\ f \in Addr
    BY <1>1, AtWork DEF Request
  <1>3. PICK n \in Nat : n <= k /\ a \in f .. f + n - 1
    <2>1. CASE FreedBlock(L2Index(a))
      <3>1. f % Block = 0 /\ k % Block = 0
        BY <1>1, <1>2, <2>1, AtWork DEF FreedBlock, At2, Alignment, AtBlock
      <3>2. Block <= k
        BY <1>2, <3>1, Sizes, MultipleLeast
      <3>3. a \in f .. f + Block - 1
        BY <1>2, <2>1, <3>1, IndexIn, SameBlock DEF FreedBlock, I2
      <3> QED BY <3>2, <3>3, Sizes
    <2>2. CASE FreedPage(L2Index(a), L3Index(a))
      <3>1. f % Page = 0 /\ k % Page = 0
        BY <1>1, <1>2, <2>2, AtWork DEF FreedPage, At3, Alignment, AtHead3, AtTail3
      <3>2. Page <= k
        BY <1>2, <3>1, Sizes, MultipleLeast
      <3>3. a \in f .. f + Page - 1
        BY <1>2, <2>2, <3>1, IndexIn, SamePage DEF FreedPage, I2, I3
      <3> QED BY <3>2, <3>3, Sizes
    <2> QED BY <2>1, <2>2 DEF Dangling
  <1>4. a \in f .. f + s - 1
    BY <1>2, <1>3
  <1> QED BY <1>2, <1>4 DEF Left, Parts

LEMMA StageInvExact == StageInv => MapExact
  <1> SUFFICES ASSUME StageInv, NEW a \in Addr
               PROVE  IF Dangling(a) THEN Left(a)
                      ELSE Agrees(Walk(a), IF Left(a) THEN old[a] ELSE wanted[a])
    BY DEF MapExact
  <1>1. Agrees(Walk(a), IF Left(a) THEN old[a] ELSE wanted[a])
    BY DEF StageInv, Exact, Walk, Found, Left, InRequest
  <1> QED BY <1>1, DanglingLeft

\* After every store of hv_map() every word maps to what the newest request
\* that covers it asked for, or, where the running call has not come to it, to
\* what it did, and while tables are freed and still linked no word but those
\* that the running call maps next is translated by them: for every size of the
\* tables and every history of calls.
THEOREM MapAlwaysExact == StageSpec => []MapExact
  <1>1. StageInit => StageInv
    BY StageInvInit
  <1>2. StageInv /\ [StageNext]_stageVars => StageInv'
    BY StageInvNext
  <1>3. StageInv => MapExact
    BY StageInvExact
  <1> QED BY <1>1, <1>2, <1>3, PTL DEF StageSpec

(***************************************************************************)
(* The tables of a tree, below the L2 table.                               *)
(***************************************************************************)
Tables3(t) == {i \in DOMAIN t : IsTable(t[i])}
Tables4(t) == {p \in (DOMAIN t) \X (0 .. Pages - 1) : IsTable(t[p[1]]) /\ IsTable(t[p[1]].e[p[2]])}

LEMMA TablesFinite ==
    ASSUME NEW t, Tree(t)
    PROVE  /\ IsFiniteSet(Tables3(t)) /\ IsFiniteSet(Tables4(t))
           /\ Cardinality(Tables3(t)) \in Nat /\ Cardinality(Tables4(t)) \in Nat
  <1>1. IsFiniteSet(0 .. Blocks - 1) /\ IsFiniteSet(0 .. Pages - 1)
    BY FS_Interval, Sizes
  <1>2. IsFiniteSet((0 .. Blocks - 1) \X (0 .. Pages - 1))
    BY <1>1, FS_Product
  <1>3. DOMAIN t = 0 .. Blocks - 1
    BY DEF Tree
  <1>4. Tables3(t) \subseteq 0 .. Blocks - 1
    BY <1>3 DEF Tables3
  <1>5. Tables4(t) \subseteq (0 .. Blocks - 1) \X (0 .. Pages - 1)
    BY <1>3 DEF Tables4
  <1>6. IsFiniteSet(Tables3(t)) /\ IsFiniteSet(Tables4(t))
    BY <1>1, <1>2, <1>4, <1>5, FS_Subset
  <1> QED BY <1>6, FS_CardinalityType

\* Which entries are tables, in a tree.
LEMMA TablesAre ==
    ASSUME NEW t, Tree(t)
    PROVE  /\ \A i : i \in Tables3(t) <=> i \in 0 .. Blocks - 1 /\ IsTable(t[i])
           /\ \A i, j : <<i, j>> \in Tables4(t)
                <=> /\ i \in 0 .. Blocks - 1 /\ j \in 0 .. Pages - 1
                    /\ IsTable(t[i]) /\ IsTable(t[i].e[j])
           /\ \A p \in Tables4(t) : p = <<p[1], p[2]>>
  <1>1. DOMAIN t = 0 .. Blocks - 1
    BY DEF Tree
  <1> QED BY <1>1 DEF Tables3, Tables4

\* Sets of pairs are equal when they have the same pairs.
LEMMA SamePairs ==
    ASSUME NEW S, NEW T, \A p \in S : p = <<p[1], p[2]>>, \A p \in T : p = <<p[1], p[2]>>,
           \A i, j : <<i, j>> \in S <=> <<i, j>> \in T
    PROVE  S = T
  <1>1. ASSUME NEW p \in S PROVE p \in T
    <2>1. PICK i, j : p = <<i, j>>
      OBVIOUS
    <2> QED BY <2>1
  <1>2. ASSUME NEW p \in T PROVE p \in S
    <2>1. PICK i, j : p = <<i, j>>
      OBVIOUS
    <2> QED BY <2>1
  <1> QED BY <1>1, <1>2

\* hv_pt_get_l3() makes one L3 table.
LEMMA SplitBlockTables ==
    ASSUME NEW t, Tree(t), NEW i \in 0 .. Blocks - 1, ~IsTable(t[i]),
           NEW u, Stored2(t, u, i, Filled3(t[i]))
    PROVE  Tables3(u) = Tables3(t) \cup {i} /\ i \notin Tables3(t) /\ Tables4(u) = Tables4(t)
  <1>1. Tree(u)
    BY SplitBlock
  <1>2. u[i] = Filled3(t[i]) /\ \A m \in 0 .. Blocks - 1 : m # i => u[m] = t[m]
    BY Store2Is
  <1>3. IsTable(u[i])
    BY <1>2 DEF Filled3, Table, IsTable
  <1>4. ASSUME NEW j \in 0 .. Pages - 1 PROVE ~IsTable(u[i].e[j])
    <2>1. Leaf(t[i]) /\ j * Page \in Nat
      BY TableEntries, PageInBlock DEF Tree, BlockLeaf
    <2>2. u[i].e[j] = Plus(t[i], j * Page)
      BY <1>2 DEF Filled3, Table
    <2> QED BY <2>1, <2>2, PlusIs, LeafIsNoTable
  <1>5. Tables3(u) = Tables3(t) \cup {i} /\ i \notin Tables3(t)
    BY <1>1, <1>2, <1>3, TablesAre
  <1>6. \A m, j : <<m, j>> \in Tables4(u) <=> <<m, j>> \in Tables4(t)
    <2> SUFFICES ASSUME NEW m, NEW j
                 PROVE  <<m, j>> \in Tables4(u) <=> <<m, j>> \in Tables4(t)
      OBVIOUS
    <2>1. <<m, j>> \in Tables4(u)
            <=> /\ m \in 0 .. Blocks - 1 /\ j \in 0 .. Pages - 1
                /\ IsTable(u[m]) /\ IsTable(u[m].e[j])
      BY <1>1, TablesAre
    <2>2. <<m, j>> \in Tables4(t)
            <=> /\ m \in 0 .. Blocks - 1 /\ j \in 0 .. Pages - 1
                /\ IsTable(t[m]) /\ IsTable(t[m].e[j])
      BY TablesAre
    <2> QED BY <1>2, <1>4, <2>1, <2>2
  <1>7. Tables4(u) = Tables4(t)
    BY <1>1, <1>6, TablesAre, SamePairs
  <1> QED BY <1>5, <1>7

\* A store into an L3 table.
LEMMA Store3Tables ==
    ASSUME NEW t, Tree(t), NEW i \in 0 .. Blocks - 1, IsTable(t[i]), NEW j \in 0 .. Pages - 1,
           NEW x, Entry3(x), NEW u, Stored3(t, u, i, j, x)
    PROVE  /\ Tables3(u) = Tables3(t)
           /\ IsTable(x) => Tables4(u) = Tables4(t) \cup {<<i, j>>}
           /\ ~IsTable(x) => Tables4(u) = Tables4(t) \ {<<i, j>>}
  <1>1. /\ Tree(u) /\ IsTable(u[i]) /\ u[i].e[j] = x
        /\ \A m \in 0 .. Blocks - 1 : m # i => u[m] = t[m]
        /\ \A m \in 0 .. Pages - 1 : m # j => u[i].e[m] = t[i].e[m]
    BY Store3Is
  <1>2. Tables3(u) = Tables3(t)
    <2>1. \A m \in 0 .. Blocks - 1 : IsTable(u[m]) <=> IsTable(t[m])
      BY <1>1
    <2>2. \A m : m \in Tables3(u) <=> m \in 0 .. Blocks - 1 /\ IsTable(u[m])
      BY <1>1, TablesAre
    <2>3. \A m : m \in Tables3(t) <=> m \in 0 .. Blocks - 1 /\ IsTable(t[m])
      BY TablesAre
    <2> QED BY <2>1, <2>2, <2>3
  <1>3. \A m, n : <<m, n>> \in Tables4(u)
           <=> IF m = i /\ n = j THEN IsTable(x) ELSE <<m, n>> \in Tables4(t)
    <2> SUFFICES ASSUME NEW m, NEW n
                 PROVE  <<m, n>> \in Tables4(u)
                          <=> IF m = i /\ n = j THEN IsTable(x) ELSE <<m, n>> \in Tables4(t)
      OBVIOUS
    <2>1. <<m, n>> \in Tables4(u)
            <=> /\ m \in 0 .. Blocks - 1 /\ n \in 0 .. Pages - 1
                /\ IsTable(u[m]) /\ IsTable(u[m].e[n])
      BY <1>1, TablesAre
    <2>2. <<m, n>> \in Tables4(t)
            <=> /\ m \in 0 .. Blocks - 1 /\ n \in 0 .. Pages - 1
                /\ IsTable(t[m]) /\ IsTable(t[m].e[n])
      BY TablesAre
    <2>3. CASE m = i /\ n = j
      BY <1>1, <2>1, <2>3
    <2>4. CASE m = i /\ n # j
      BY <1>1, <2>1, <2>2, <2>4
    <2>5. CASE m # i
      BY <1>1, <2>1, <2>2, <2>5
    <2> QED BY <2>3, <2>4, <2>5
  <1>4. IsTable(x) => Tables4(u) = Tables4(t) \cup {<<i, j>>}
    BY <1>1, <1>3, TablesAre, SamePairs
  <1>5. ~IsTable(x) => Tables4(u) = Tables4(t) \ {<<i, j>>}
    BY <1>1, <1>3, TablesAre, SamePairs
  <1> QED BY <1>2, <1>4, <1>5

\* The tables below an L3 table are as many as its entries that are tables.
LEMMA TablesBelow ==
    ASSUME NEW t, Tree(t), NEW i \in 0 .. Blocks - 1, IsTable(t[i])
    PROVE  Cardinality({p \in Tables4(t) : p[1] = i}) = L4Tables(t[i])
  <1> DEFINE J == {j \in DOMAIN t[i].e : IsTable(t[i].e[j])}
             P == {p \in Tables4(t) : p[1] = i}
             f == [j \in J |-> <<i, j>>]
  <1>1. DOMAIN t[i].e = 0 .. Pages - 1
    BY TableEntries DEF Tree, IsTableOf
  <1>2. \A j \in J : <<i, j>> \in P
    BY <1>1, TablesAre
  <1>3. \A p \in P : p[2] \in J /\ p = <<i, p[2]>>
    BY <1>1, TablesAre
  <1>4. f \in Bijection(J, P)
    <2>1. f \in [J -> P]
      BY <1>2
    <2>2. \A a, b \in J : f[a] = f[b] => a = b
      OBVIOUS
    <2>3. \A p \in P : \E j \in J : f[j] = p
      BY <1>3
    <2> HIDE DEF f, J, P
    <2> QED BY <2>1, <2>2, <2>3 DEF Bijection, Injection, Surjection, IsInjective
  <1>5. ExistsBijection(J, P)
    BY <1>4 DEF ExistsBijection
  <1>6. IsFiniteSet(J)
    <2>1. IsFiniteSet(0 .. Pages - 1)
      BY FS_Interval, Sizes
    <2>2. J \subseteq 0 .. Pages - 1
      BY <1>1
    <2> QED BY <2>1, <2>2, FS_Subset
  <1>7. Cardinality(P) = Cardinality(J)
    BY <1>5, <1>6, FS_Bijection
  <1> QED BY <1>7 DEF L4Tables

\* hv_pt_map_l2() replaces an entry by a leaf.
LEMMA Store2Tables ==
    ASSUME NEW t, Tree(t), NEW i \in 0 .. Blocks - 1, NEW x, BlockLeaf(x),
           NEW u, Stored2(t, u, i, x)
    PROVE  /\ Tables3(u) = Tables3(t) \ {i}
           /\ Tables4(u) = Tables4(t) \ {p \in Tables4(t) : p[1] = i}
  <1>1. Entry2(x) /\ ~IsTable(x)
    BY LeafIsNoTable DEF Entry2, BlockLeaf
  <1>2. Tree(u) /\ u[i] = x /\ \A m \in 0 .. Blocks - 1 : m # i => u[m] = t[m]
    BY <1>1, Store2Is
  <1>3. Tables3(u) = Tables3(t) \ {i}
    BY <1>1, <1>2, TablesAre
  <1>4. \A m, n : <<m, n>> \in Tables4(u) <=> <<m, n>> \in Tables4(t) /\ m # i
    <2> SUFFICES ASSUME NEW m, NEW n
                 PROVE  <<m, n>> \in Tables4(u) <=> <<m, n>> \in Tables4(t) /\ m # i
      OBVIOUS
    <2>1. <<m, n>> \in Tables4(u)
            <=> /\ m \in 0 .. Blocks - 1 /\ n \in 0 .. Pages - 1
                /\ IsTable(u[m]) /\ IsTable(u[m].e[n])
      BY <1>2, TablesAre
    <2>2. <<m, n>> \in Tables4(t)
            <=> /\ m \in 0 .. Blocks - 1 /\ n \in 0 .. Pages - 1
                /\ IsTable(t[m]) /\ IsTable(t[m].e[n])
      BY TablesAre
    <2> QED BY <1>1, <1>2, <2>1, <2>2
  <1>5. \A m, n : <<m, n>> \in Tables4(t) \ {p \in Tables4(t) : p[1] = i}
                    <=> <<m, n>> \in Tables4(t) /\ m # i
    OBVIOUS
  <1>6. PICK S : S = Tables4(t) \ {p \in Tables4(t) : p[1] = i}
    OBVIOUS
  <1>7. \A p \in S : p = <<p[1], p[2]>>
    BY <1>6, TablesAre
  <1>8. \A m, n : <<m, n>> \in Tables4(u) <=> <<m, n>> \in S
    BY <1>4, <1>5, <1>6
  <1>9. Tables4(u) = S
    BY <1>2, <1>7, <1>8, TablesAre, SamePairs
  <1> QED BY <1>3, <1>6, <1>9

\* What the tree loses with the tables of a block, and with that of a page.
LEMMA WithoutBlock ==
    ASSUME NEW t, Tree(t), NEW i \in 0 .. Blocks - 1, IsTable(t[i])
    PROVE  Cardinality(Tables3(t) \ {i})
             + Cardinality(Tables4(t) \ {p \in Tables4(t) : p[1] = i})
             = Cardinality(Tables3(t)) + Cardinality(Tables4(t)) - FreeL3(t[i])
  <1> DEFINE P == {p \in Tables4(t) : p[1] = i}
  <1>1. Cardinality(Tables3(t) \ {i}) = Cardinality(Tables3(t)) - 1
    BY TablesAre, TablesFinite, FS_RemoveElement
  <1>2. IsFiniteSet(P) /\ Cardinality(P) \in Nat
    BY TablesFinite, FS_Subset, FS_CardinalityType
  <1>3. Cardinality(P) = L4Tables(t[i])
    BY TablesBelow
  <1>4. Tables4(t) \cap P = P
    OBVIOUS
  <1> HIDE DEF P
  <1>5. Cardinality(Tables4(t) \ P) = Cardinality(Tables4(t)) - Cardinality(Tables4(t) \cap P)
    BY TablesFinite, FS_Difference
  <1>6. Cardinality(Tables3(t) \ {i}) + Cardinality(Tables4(t) \ P)
          = Cardinality(Tables3(t)) + Cardinality(Tables4(t)) - FreeL3(t[i])
    BY <1>1, <1>2, <1>3, <1>4, <1>5, TablesFinite DEF FreeL3
  <1> QED BY <1>6 DEF P

LEMMA FreeL3Is ==
    ASSUME NEW t, Tree(t), NEW i \in 0 .. Blocks - 1, IsTable(t[i])
    PROVE  FreeL3(t[i]) \in Nat
  <1>1. IsFiniteSet({p \in Tables4(t) : p[1] = i})
    BY TablesFinite, FS_Subset
  <1>2. L4Tables(t[i]) \in Nat
    BY <1>1, TablesBelow, FS_CardinalityType
  <1> QED BY <1>2 DEF FreeL3

LEMMA WithoutPage ==
    ASSUME NEW t, Tree(t), NEW i \in 0 .. Blocks - 1, NEW j \in 0 .. Pages - 1
    PROVE  Cardinality(Tables4(t) \ {<<i, j>>})
             = Cardinality(Tables4(t))
               - (IF IsTable(t[i]) /\ IsTable(t[i].e[j]) THEN 1 ELSE 0)
  <1>1. <<i, j>> \in Tables4(t) <=> IsTable(t[i]) /\ IsTable(t[i].e[j])
    BY TablesAre
  <1>2. Cardinality(Tables4(t) \ {<<i, j>>})
          = IF <<i, j>> \in Tables4(t) THEN Cardinality(Tables4(t)) - 1
            ELSE Cardinality(Tables4(t))
    BY TablesFinite, FS_RemoveElement
  <1> QED BY <1>1, <1>2, TablesFinite

\* TablesAccounted is not inductive: what a store unlinks was freed before it.
Unlinking == IF freed THEN (IF At2 THEN FreeL3(D2) ELSE 1) ELSE 0
Accounted == live = Cardinality(Tables3(l2)) + Cardinality(Tables4(l2)) - Unlinking

\* What is allocated and freed is what the tree gains and loses.
LEMMA GetL3Accounts ==
    ASSUME StageInv, Accounted, GetL3
    PROVE  Accounted'
  <1>1. I2 \in 0 .. Blocks - 1 /\ Tree(l2)
    BY AtWork DEF GetL3
  <1>2. PICK u : u = l2' /\ Stored2(l2, u, I2, Filled3(l2[I2])) /\ ~IsTable(l2[I2])
    BY DEF GetL3, Stored2, D2
  <1>3. /\ Tables3(u) = Tables3(l2) \cup {I2} /\ I2 \notin Tables3(l2)
        /\ Tables4(u) = Tables4(l2)
    BY <1>1, <1>2, SplitBlockTables
  <1>4. Cardinality(Tables3(u)) = Cardinality(Tables3(l2)) + 1
    BY <1>1, <1>3, TablesFinite, FS_AddElement
  <1>5. live' = live + 1 /\ Unlinking = 0 /\ Unlinking' = 0
    BY NoneFreed DEF GetL3, Unlinking
  <1> QED BY <1>1, <1>2, <1>3, <1>4, <1>5, TablesFinite DEF Accounted

LEMMA GetL4Accounts ==
    ASSUME StageInv, Accounted, GetL4
    PROVE  Accounted'
  <1>1. I2 \in 0 .. Blocks - 1 /\ I3 \in 0 .. Pages - 1 /\ Tree(l2)
    BY AtWork DEF GetL4
  <1>2. PICK u, x : /\ u = l2' /\ x = Filled4(l2[I2].e[I3]) /\ Stored3(l2, u, I2, I3, x)
                    /\ IsTable(l2[I2]) /\ ~IsTable(l2[I2].e[I3])
    BY DEF GetL4, Stored3, D2, D3
  <1>3. Entry3(x) /\ IsTable(x)
    <2>1. Leaf(l2[I2].e[I3])
      BY <1>1, <1>2, TableEntries DEF Tree
    <2> QED BY <1>2, <2>1, Filled4Is
  <1>4. Tables3(u) = Tables3(l2) /\ Tables4(u) = Tables4(l2) \cup {<<I2, I3>>}
    BY <1>1, <1>2, <1>3, Store3Tables
  <1>5. <<I2, I3>> \notin Tables4(l2)
    BY <1>1, <1>2, TablesAre
  <1>6. Cardinality(Tables4(u)) = Cardinality(Tables4(l2)) + 1
    BY <1>1, <1>4, <1>5, TablesFinite, FS_AddElement
  <1>7. live' = live + 1 /\ Unlinking = 0 /\ Unlinking' = 0
    BY NoneFreed DEF GetL4, Unlinking
  <1> QED BY <1>1, <1>2, <1>4, <1>6, <1>7, TablesFinite DEF Accounted

LEMMA FreeAccounts ==
    ASSUME StageInv, Accounted, FreePage \/ FreeBlock
    PROVE  Accounted'
  <1>1. Tree(l2) /\ I2 \in 0 .. Blocks - 1 /\ I3 \in 0 .. Pages - 1
    BY AtWork DEF FreePage, FreeBlock
  <1>2. PICK c \in Nat : c = Cardinality(Tables3(l2)) + Cardinality(Tables4(l2))
    BY <1>1, TablesFinite
  <1>3. l2' = l2 /\ live = c
    <2>1. Unlinking = 0
      BY DEF FreePage, FreeBlock, Unlinking
    <2>2. live = c
      BY <1>1, <1>2, <2>1, TablesFinite DEF Accounted
    <2> QED BY <2>2 DEF FreePage, FreeBlock
  <1>4. PICK q \in Nat : q = Unlinking' /\ live' = live - q
    <2>1. CASE FreePage
      BY <2>1 DEF FreePage, Unlinking, At2, At3
    <2>2. CASE FreeBlock
      <3>1. FreeL3(D2) \in Nat
        BY <1>1, <2>2, FreeL3Is DEF FreeBlock, D2
      <3>2. Unlinking' = FreeL3(D2)
        BY <2>2 DEF FreeBlock, Unlinking, At2, D2, I2
      <3> QED BY <2>2, <3>1, <3>2 DEF FreeBlock
    <2> QED BY <2>1, <2>2
  <1> QED BY <1>1, <1>2, <1>3, <1>4, TablesFinite DEF Accounted

LEMMA MapL3Accounts ==
    ASSUME StageInv, Accounted, MapL3
    PROVE  Accounted'
  <1>1. I2 \in 0 .. Blocks - 1 /\ I3 \in 0 .. Pages - 1 /\ Tree(l2) /\ Leaf(call.to)
    BY AtWork DEF MapL3, Request
  <1>2. PICK u, x : /\ u = l2' /\ x = call.to /\ Stored3(l2, u, I2, I3, x)
                    /\ IsTable(l2[I2])
    BY DEF MapL3, Stored3, D2
  <1>3. Entry3(x) /\ ~IsTable(x)
    BY <1>1, <1>2, LeafIsNoTable DEF Entry3
  <1>4. Tables3(u) = Tables3(l2) /\ Tables4(u) = Tables4(l2) \ {<<I2, I3>>}
    BY <1>1, <1>2, <1>3, Store3Tables
  <1>5. Cardinality(Tables4(u)) = Cardinality(Tables4(l2)) - (IF IsTable(D3) THEN 1 ELSE 0)
    BY <1>1, <1>2, <1>4, WithoutPage DEF D3, D2
  <1>6. Unlinking = (IF IsTable(D3) THEN 1 ELSE 0)
    BY DEF MapL3, Unlinking, StageInv, FreedNext, At2, At3
  <1>7. live' = live /\ Unlinking' = 0
    BY DEF MapL3, Unlinking
  <1> QED BY <1>1, <1>2, <1>4, <1>5, <1>6, <1>7, TablesFinite DEF Accounted

LEMMA MapL4Accounts ==
    ASSUME StageInv, Accounted, MapL4
    PROVE  Accounted'
  <1>1. /\ I2 \in 0 .. Blocks - 1 /\ I3 \in 0 .. Pages - 1 /\ Tree(l2) /\ Leaf(call.to)
        /\ L4Index(call.from) \in 0 .. Words - 1
    BY AtWork DEF MapL4, Request
  <1>2. PICK u : /\ u = l2' /\ Stored4(l2, u, I2, I3, L4Index(call.from), call.to)
                 /\ IsTable(l2[I2]) /\ IsTable(l2[I2].e[I3])
    BY DEF MapL4, Stored4, D2, D3
  <1>3. /\ Tree(u) /\ IsTable(u[I2]) /\ IsTable(u[I2].e[I3])
        /\ \A m \in 0 .. Blocks - 1 : m # I2 => u[m] = l2[m]
        /\ \A m \in 0 .. Pages - 1 : m # I3 => u[I2].e[m] = l2[I2].e[m]
    BY <1>1, <1>2, Store4Is
  <1>4. Tables3(u) = Tables3(l2)
    <2>1. \A m : m \in Tables3(u) <=> m \in 0 .. Blocks - 1 /\ IsTable(u[m])
      BY <1>3, TablesAre
    <2>2. \A m : m \in Tables3(l2) <=> m \in 0 .. Blocks - 1 /\ IsTable(l2[m])
      BY <1>1, TablesAre
    <2> QED BY <1>2, <1>3, <2>1, <2>2
  <1>5. \A m, n : <<m, n>> \in Tables4(u) <=> <<m, n>> \in Tables4(l2)
    <2> SUFFICES ASSUME NEW m, NEW n
                 PROVE  <<m, n>> \in Tables4(u) <=> <<m, n>> \in Tables4(l2)
      OBVIOUS
    <2>1. <<m, n>> \in Tables4(u)
            <=> /\ m \in 0 .. Blocks - 1 /\ n \in 0 .. Pages - 1
                /\ IsTable(u[m]) /\ IsTable(u[m].e[n])
      BY <1>3, TablesAre
    <2>2. <<m, n>> \in Tables4(l2)
            <=> /\ m \in 0 .. Blocks - 1 /\ n \in 0 .. Pages - 1
                /\ IsTable(l2[m]) /\ IsTable(l2[m].e[n])
      BY <1>1, TablesAre
    <2>3. CASE m = I2 /\ n = I3
      BY <1>2, <1>3, <2>1, <2>2, <2>3
    <2>4. CASE m = I2 /\ n # I3
      BY <1>2, <1>3, <2>1, <2>2, <2>4
    <2>5. CASE m # I2
      BY <1>3, <2>1, <2>2, <2>5
    <2> QED BY <2>3, <2>4, <2>5
  <1>6. Tables4(u) = Tables4(l2)
    BY <1>1, <1>3, <1>5, TablesAre, SamePairs
  <1>7. live' = live /\ Unlinking = 0 /\ Unlinking' = 0
    BY NoneFreed DEF MapL4, Unlinking
  <1> QED BY <1>2, <1>4, <1>6, <1>7 DEF Accounted

LEMMA MapL2Accounts ==
    ASSUME StageInv, Accounted, MapL2
    PROVE  Accounted'
  <1>1. /\ I2 \in 0 .. Blocks - 1 /\ Tree(l2) /\ Request(call, wanted) /\ Alignment(call)
        /\ call.pc = "block" /\ call.chunk > 0
    BY AtWork DEF MapL2, At2
  <1>2. PICK u : u = l2' /\ Stored2(l2, u, I2, call.to)
    BY DEF MapL2, Stored2
  <1>3. BlockLeaf(call.to)
    BY <1>1 DEF Alignment, AtBlock
  <1>4. /\ Tables3(u) = Tables3(l2) \ {I2}
        /\ Tables4(u) = Tables4(l2) \ {p \in Tables4(l2) : p[1] = I2}
    BY <1>1, <1>2, <1>3, Store2Tables
  <1>5. live' = live /\ Unlinking' = 0
    BY DEF MapL2, Unlinking
  <1>6. CASE IsTable(l2[I2])
    <2>1. Unlinking = FreeL3(l2[I2])
      BY <1>6 DEF MapL2, Unlinking, D2
    <2>2. Cardinality(Tables3(u)) + Cardinality(Tables4(u))
            = Cardinality(Tables3(l2)) + Cardinality(Tables4(l2)) - FreeL3(l2[I2])
      BY <1>1, <1>4, <1>6, WithoutBlock
    <2>3. Cardinality(Tables3(u)) \in Nat /\ Cardinality(Tables4(u)) \in Nat
      <3>1. IsFiniteSet(Tables3(u)) /\ IsFiniteSet(Tables4(u))
        BY <1>1, <1>4, TablesFinite, FS_Subset
      <3> QED BY <3>1, FS_CardinalityType
    <2> QED BY <1>2, <1>5, <2>1, <2>2, <2>3 DEF Accounted
  <1>7. CASE ~IsTable(l2[I2])
    <2>1. Unlinking = 0
      BY <1>7, NoneFreed DEF Unlinking, D2
    <2>2. Tables3(u) = Tables3(l2)
      BY <1>1, <1>4, <1>7, TablesAre
    <2>3. Tables4(u) = Tables4(l2)
      BY <1>1, <1>4, <1>7 DEF Tables4
    <2> QED BY <1>2, <1>5, <2>1, <2>2, <2>3 DEF Accounted
  <1> QED BY <1>6, <1>7

LEMMA AccountedNext ==
    ASSUME StageInv, Accounted, [StageNext]_stageVars
    PROVE  Accounted'
  <1>1. CASE UNCHANGED stageVars
    BY <1>1 DEF stageVars, Accounted, Unlinking, At2, D2, I2
  <1>2. CASE GetL3 \/ GetL4 \/ MapL4 \/ FreePage \/ MapL3 \/ FreeBlock \/ MapL2
    BY <1>2, GetL3Accounts, GetL4Accounts, MapL4Accounts, FreeAccounts, MapL3Accounts,
       MapL2Accounts
  <1>3. ASSUME UNCHANGED <<l2, live, freed>>, ~freed PROVE Accounted'
    BY <1>3 DEF Accounted, Unlinking
  <1>4. CASE Part \/ Return
    <2>1. ~freed
      BY <1>4, NoneFreed DEF Part, Return
    <2> QED BY <1>3, <1>4, <2>1 DEF Part, Return
  <1>5. ASSUME NEW from, NEW to, NEW size, HvMap(from, to, size) PROVE Accounted'
    <2>1. ~freed
      BY <1>5, NoneFreed DEF HvMap
    <2> QED BY <1>3, <1>5, <2>1 DEF HvMap
  <1> QED BY <1>1, <1>2, <1>4, <1>5, Zenon DEF StageNext, HvUnmap, HvMapHw, HvMapSw, HvMapHook

LEMMA AccountedTables ==
    ASSUME StageInv, Accounted
    PROVE  TablesAccounted
  <1> DEFINE K3 == {i \in DOMAIN l2 : IsTable(l2[i]) /\ ~FreedBlock(i)}
             K4 == {p \in (DOMAIN l2) \X (0 .. Pages - 1) :
                      /\ IsTable(l2[p[1]]) /\ IsTable(l2[p[1]].e[p[2]])
                      /\ ~FreedBlock(p[1]) /\ ~FreedPage(p[1], p[2])}
  <1>1. Tree(l2)
    BY DEF StageInv
  <1>2. SUFFICES live = Cardinality(K3) + Cardinality(K4)
    BY DEF TablesAccounted
  <1>3. CASE ~freed
    <2>1. K3 = Tables3(l2) /\ K4 = Tables4(l2)
      BY <1>3 DEF Tables3, Tables4, FreedBlock, FreedPage
    <2> HIDE DEF K3, K4
    <2>2. Unlinking = 0
      BY <1>3 DEF Unlinking
    <2> QED BY <1>1, <2>1, <2>2, TablesFinite DEF Accounted
  <1>4. CASE freed /\ At2
    <2>1. I2 \in 0 .. Blocks - 1 /\ IsTable(l2[I2])
      BY <1>4, AtWork DEF StageInv, FreedNext, D2
    <2>2. K3 = Tables3(l2) \ {I2}
      BY <1>4 DEF Tables3, FreedBlock
    <2>3. K4 = Tables4(l2) \ {p \in Tables4(l2) : p[1] = I2}
      BY <1>4 DEF Tables4, FreedBlock, FreedPage, At2, At3
    <2> HIDE DEF K3, K4
    <2>4. Unlinking = FreeL3(l2[I2])
      BY <1>4 DEF Unlinking, D2
    <2> QED BY <1>1, <2>1, <2>2, <2>3, <2>4, WithoutBlock DEF Accounted
  <1>5. CASE freed /\ ~At2
    <2>1. /\ At3 /\ I2 \in 0 .. Blocks - 1 /\ I3 \in 0 .. Pages - 1
          /\ IsTable(l2[I2]) /\ IsTable(l2[I2].e[I3])
      BY <1>5, AtWork DEF StageInv, FreedNext, D2, D3
    <2>2. K3 = Tables3(l2)
      BY <1>5 DEF Tables3, FreedBlock
    <2>3. K4 = Tables4(l2) \ {<<I2, I3>>}
      <3>1. \A p \in (DOMAIN l2) \X (0 .. Pages - 1) :
               p = <<I2, I3>> <=> FreedPage(p[1], p[2])
        BY <1>5, <2>1 DEF FreedPage
      <3>2. \A i : ~FreedBlock(i)
        BY <1>5 DEF FreedBlock
      <3> QED BY <3>1, <3>2 DEF Tables4
    <2> HIDE DEF K3, K4
    <2>4. Cardinality(K4) = Cardinality(Tables4(l2)) - 1
      BY <1>1, <2>1, <2>3, WithoutPage
    <2>5. Unlinking = 1
      BY <1>5 DEF Unlinking
    <2> QED BY <1>1, <2>2, <2>4, <2>5, TablesFinite DEF Accounted
  <1> QED BY <1>3, <1>4, <1>5

\* hv_pt_map_l2(), hv_pt_map_l3() and hv_pt_free_l3() free exactly the tables
\* that their next store makes unreachable, for every size of the tables and
\* every history of calls: at every step the heap holds the tables of the tree
\* that are not freed, none is lost and none is freed twice.
THEOREM TablesAlwaysAccounted == StageSpec => []TablesAccounted
  <1>1. StageInit => StageInv /\ Accounted
    <2> SUFFICES ASSUME StageInit PROVE Accounted
      BY StageInvInit
    <2>1. Tables3(l2) = {} /\ Tables4(l2) = {} /\ Unlinking = 0
      BY DEF StageInit, Tables3, Tables4, IsTable, Unmapped, Unlinking
    <2>2. Cardinality(Tables3(l2)) = 0 /\ Cardinality(Tables4(l2)) = 0
      BY <2>1, FS_EmptySet
    <2> QED BY <2>1, <2>2 DEF Accounted, StageInit
  <1>2. StageInv /\ Accounted /\ [StageNext]_stageVars => StageInv' /\ Accounted'
    BY StageInvNext, AccountedNext
  <1>3. StageInv /\ Accounted => TablesAccounted
    BY AccountedTables
  <1> QED BY <1>1, <1>2, <1>3, PTL DEF StageSpec

(***************************************************************************)
(* The emulation.  An operation serves the bytes a .. b - 1 of an access   *)
(* when it transfers each of them to its place in B, and operations trace  *)
(* the bytes of an access when they serve them one after the other.        *)
(***************************************************************************)
Ops(H) == [hook : H, at : Nat, w : Nat \ {0}]

Serves(op, B, a, b) ==
    /\ b = a + op.w
    /\ \A i \in 1 .. op.w : OpBytes(op)[i] = B[a + i - 1]
    /\ op.hook # Unmapped => op.at % op.w = 0

Cut(s, B, o) ==
    /\ \A i \in 0 .. Len(s) : o[i] \in Nat
    /\ \A i \in 1 .. Len(s) : Serves(s[i], B, o[i - 1], o[i])

Traced(s, B, a, b) == \E o : Cut(s, B, o) /\ o[0] = a /\ o[Len(s)] = b

LEMMA JoinTraces ==
    ASSUME NEW H, NEW B, NEW a, NEW b, NEW c,
           NEW s \in Seq(Ops(H)), NEW t \in Seq(Ops(H)), Traced(s, B, a, b), Traced(t, B, b, c)
    PROVE  Traced(s \o t, B, a, c)
  <1>1. PICK o : Cut(s, B, o) /\ o[0] = a /\ o[Len(s)] = b
    BY DEF Traced
  <1>2. PICK p : Cut(t, B, p) /\ p[0] = b /\ p[Len(t)] = c
    BY DEF Traced
  <1>3. PICK m \in Nat, n \in Nat : m = Len(s) /\ n = Len(t)
    OBVIOUS
  <1>4. PICK u : u = s \o t
    OBVIOUS
  <1>5. /\ Len(u) = m + n
        /\ \A i \in 1 .. m : u[i] = s[i]
        /\ \A i \in m + 1 .. m + n : u[i] = t[i - m]
    BY <1>3, <1>4
  <1>6. PICK q : /\ \A i \in 0 .. m : q[i] = o[i]
                 /\ \A i \in m .. m + n : q[i] = p[i - m]
    <2> DEFINE g == [i \in 0 .. m + n |-> IF i <= m THEN o[i] ELSE p[i - m]]
    <2>1. \A i \in 0 .. m : g[i] = o[i]
      OBVIOUS
    <2>2. \A i \in m .. m + n : g[i] = p[i - m]
      BY <1>1, <1>2, <1>3
    <2> HIDE DEF g
    <2> QED BY <2>1, <2>2
  <1>7. ASSUME NEW i \in 0 .. m + n PROVE q[i] \in Nat
    <2>1. CASE i <= m
      BY <1>1, <1>3, <1>6, <2>1 DEF Cut
    <2>2. CASE i > m
      <3>1. i - m \in 0 .. n
        BY <2>2
      <3> QED BY <1>2, <1>3, <1>6, <2>2, <3>1 DEF Cut
    <2> QED BY <2>1, <2>2
  <1>8. ASSUME NEW i \in 1 .. m + n PROVE Serves(u[i], B, q[i - 1], q[i])
    <2>1. CASE i <= m
      <3>1. i \in 1 .. m /\ i - 1 \in 0 .. m /\ i \in 0 .. m
        BY <2>1
      <3>2. u[i] = s[i] /\ q[i - 1] = o[i - 1] /\ q[i] = o[i]
        BY <1>5, <1>6, <3>1
      <3> QED BY <1>1, <1>3, <3>1, <3>2 DEF Cut
    <2>2. CASE i > m
      <3>1. PICK j \in 1 .. n : j = i - m
        BY <2>2
      <3>2. i \in m + 1 .. m + n /\ i - 1 \in m .. m + n /\ i \in m .. m + n
            /\ (i - 1) - m = j - 1
        BY <2>2, <3>1
      <3>3. u[i] = t[j] /\ q[i - 1] = p[j - 1] /\ q[i] = p[j]
        BY <1>5, <1>6, <3>1, <3>2
      <3> QED BY <1>2, <1>3, <3>1, <3>3 DEF Cut
    <2> QED BY <2>1, <2>2
  <1>9. Cut(u, B, q)
    BY <1>5, <1>7, <1>8 DEF Cut
  <1>10. q[0] = a /\ q[m + n] = c
    <2>1. 0 \in 0 .. m /\ m + n \in m .. m + n /\ (m + n) - m = n
      OBVIOUS
    <2> QED BY <1>1, <1>2, <1>3, <1>6, <2>1
  <1> QED BY <1>4, <1>5, <1>9, <1>10 DEF Traced

LEMMA EmptyTrace ==
    ASSUME NEW B, NEW a \in Nat
    PROVE  Traced(<<>>, B, a, a)
  <1> DEFINE o == [i \in 0 .. 0 |-> a]
  <1>1. o[0] = a
    OBVIOUS
  <1>2. Len(<<>>) = 0
    OBVIOUS
  <1> HIDE DEF o
  <1>3. Cut(<<>>, B, o)
    BY <1>1, <1>2 DEF Cut
  <1> QED BY <1>1, <1>2, <1>3 DEF Traced

LEMMA SingleTrace ==
    ASSUME NEW H, NEW op \in Ops(H), NEW B, NEW a \in Nat, NEW b \in Nat, Serves(op, B, a, b)
    PROVE  Traced(<<op>>, B, a, b)
  <1> DEFINE o == [i \in 0 .. 1 |-> IF i = 0 THEN a ELSE b]
  <1>1. o[0] = a /\ o[1] = b
    OBVIOUS
  <1>2. PICK s : s = <<op>> /\ Len(s) = 1 /\ s[1] = op
    <2>1. Len(<<op>>) = 1 /\ <<op>>[1] = op
      OBVIOUS
    <2> QED BY <2>1
  <1> HIDE DEF o
  <1>3. Cut(s, B, o)
    <2>1. \A i \in 0 .. 1 : o[i] \in Nat
      BY <1>1
    <2>2. \A i \in 1 .. 1 : Serves(s[i], B, o[i - 1], o[i])
      BY <1>1, <1>2
    <2> QED BY <1>2, <2>1, <2>2 DEF Cut
  <1> QED BY <1>1, <1>2, <1>3 DEF Traced

\* FlattenSeq is a recursive function too.
Flattened(f, ss) == f = [i \in 1 .. Len(ss) |-> IF i = 1 THEN ss[i] ELSE f[i - 1] \o ss[i]]

LEMMA FlattenIs ==
    ASSUME NEW ss, Len(ss) # 0
    PROVE  FlattenSeq(ss) = (CHOOSE f : Flattened(f, ss))[Len(ss)]
  BY Zenon DEF FlattenSeq, Flattened

\* The first m bytes of B.
First(B, m) == [j \in 1 .. m |-> B[j - 1]]

LEMMA ConcatIs ==
    ASSUME NEW S, NEW s \in Seq(S), NEW t \in Seq(S)
    PROVE  /\ s \o t \in Seq(S) /\ Len(s \o t) = Len(s) + Len(t)
           /\ \A k \in 1 .. Len(s) : (s \o t)[k] = s[k]
           /\ \A k \in Len(s) + 1 .. Len(s) + Len(t) : (s \o t)[k] = t[k - Len(s)]
  OBVIOUS

LEMMA SeqIs ==
    ASSUME NEW S, NEW m \in Nat, NEW f, f = [i \in 1 .. m |-> f[i]], \A i \in 1 .. m : f[i] \in S
    PROVE  f \in Seq(S) /\ Len(f) = m
  OBVIOUS

LEMMA SameSeq ==
    ASSUME NEW S, NEW s \in Seq(S), NEW t \in Seq(S), NEW n \in Nat, Len(s) = n, Len(t) = n,
           \A i \in 1 .. n : s[i] = t[i]
    PROVE  s = t
  OBVIOUS

LEMMA FirstGrows ==
    ASSUME NEW B, NEW m \in Nat, NEW w \in Nat
    PROVE  First(B, m) \o [i \in 1 .. w |-> B[m + i - 1]] = First(B, m + w)
  <1>1. PICK S : \A j \in Nat : B[j] \in S
    <2>1. \A j \in Nat : B[j] \in {B[k] : k \in Nat}
      OBVIOUS
    <2> QED BY <2>1
  <1>2. PICK s : s = First(B, m)
    OBVIOUS
  <1>3. s \in Seq(S) /\ Len(s) = m /\ \A i \in 1 .. m : s[i] = B[i - 1]
    <2>1. s = [i \in 1 .. m |-> s[i]] /\ \A i \in 1 .. m : s[i] = B[i - 1] /\ s[i] \in S
      BY <1>1, <1>2 DEF First
    <2> QED BY <2>1, SeqIs
  <1>4. PICK t : t = [i \in 1 .. w |-> B[m + i - 1]]
    OBVIOUS
  <1>5. t \in Seq(S) /\ Len(t) = w /\ \A i \in 1 .. w : t[i] = B[m + i - 1]
    <2>1. t = [i \in 1 .. w |-> t[i]] /\ \A i \in 1 .. w : t[i] = B[m + i - 1] /\ t[i] \in S
      BY <1>1, <1>4
    <2> QED BY <2>1, SeqIs
  <1>6. PICK n \in Nat : n = m + w
    OBVIOUS
  <1>7. PICK u : u = First(B, n)
    OBVIOUS
  <1>8. u \in Seq(S) /\ Len(u) = n /\ \A i \in 1 .. n : u[i] = B[i - 1]
    <2>1. u = [i \in 1 .. n |-> u[i]] /\ \A i \in 1 .. n : u[i] = B[i - 1] /\ u[i] \in S
      BY <1>1, <1>7 DEF First
    <2> QED BY <2>1, SeqIs
  <1>9. PICK r : r = s \o t
    OBVIOUS
  <1>10. /\ r \in Seq(S) /\ Len(r) = Len(s) + Len(t)
         /\ \A k \in 1 .. Len(s) : r[k] = s[k]
         /\ \A k \in Len(s) + 1 .. Len(s) + Len(t) : r[k] = t[k - Len(s)]
    <2>1. s \in Seq(S) /\ t \in Seq(S)
      BY <1>3, <1>5
    <2> QED BY <1>9, <2>1, ConcatIs
  <1>11. ASSUME NEW i \in 1 .. n PROVE r[i] = u[i]
    <2>1. CASE i <= m
      <3>1. i \in 1 .. m
        BY <2>1
      <3> QED BY <1>3, <1>8, <1>10, <3>1
    <2>2. CASE i > m
      <3>1. PICK k \in 1 .. w : k = i - m /\ m + k - 1 = i - 1
        BY <1>6, <2>2
      <3>2. i \in m + 1 .. m + w
        BY <1>6, <2>2
      <3>3. r[i] = t[k]
        BY <1>3, <1>5, <1>10, <3>1, <3>2
      <3>4. t[k] = B[i - 1]
        BY <1>5, <3>1
      <3> QED BY <1>8, <3>3, <3>4
    <2> QED BY <2>1, <2>2
  <1>12. r = u
    <2>1. r \in Seq(S) /\ u \in Seq(S) /\ Len(r) = n /\ Len(u) = n
      BY <1>3, <1>5, <1>6, <1>8, <1>10
    <2> QED BY <1>11, <2>1, SameSeq
  <1> QED BY <1>2, <1>4, <1>6, <1>7, <1>9, <1>12

\* Operations that trace an access transfer its bytes in their order.
LEMMA TraceIsExact ==
    ASSUME NEW H, NEW s \in Seq(Ops(H)), NEW B, NEW n \in Nat, Traced(s, B, 0, n)
    PROVE  /\ FlattenSeq([i \in 1 .. Len(s) |-> OpBytes(s[i])]) = First(B, n)
           /\ \A i \in 1 .. Len(s) : s[i].hook # Unmapped => s[i].at % s[i].w = 0
  <1>1. PICK o : Cut(s, B, o) /\ o[0] = 0 /\ o[Len(s)] = n
    BY DEF Traced
  <1>2. PICK m \in Nat : m = Len(s)
    OBVIOUS
  <1>3. PICK ss : ss = [i \in 1 .. m |-> OpBytes(s[i])]
    OBVIOUS
  <1>4. Len(ss) = m /\ \A i \in 1 .. m : ss[i] = OpBytes(s[i])
    BY <1>3
  <1>5. ASSUME NEW i \in 1 .. m
        PROVE  /\ o[i - 1] \in Nat /\ o[i] \in Nat
               /\ i = 1 => ss[i] = First(B, o[i])
               /\ First(B, o[i - 1]) \o ss[i] = First(B, o[i])
               /\ s[i].hook # Unmapped => s[i].at % s[i].w = 0
    <2>1. Serves(s[i], B, o[i - 1], o[i]) /\ o[i - 1] \in Nat /\ o[i] \in Nat
      BY <1>1, <1>2 DEF Cut
    <2>2. PICK a \in Nat, b \in Nat, w \in Nat : a = o[i - 1] /\ b = o[i] /\ w = s[i].w
      <3>1. s[i] \in Ops(H)
        BY <1>2
      <3>2. s[i].w \in Nat
        BY <3>1 DEF Ops
      <3> QED BY <2>1, <3>2
    <2>3. b = a + w /\ \A j \in 1 .. w : OpBytes(s[i])[j] = B[a + j - 1]
      BY <2>1, <2>2, SMTT(30) DEF Serves
    <2>4. OpBytes(s[i]) = [j \in 1 .. w |-> OpBytes(s[i])[j]]
      BY <2>2 DEF OpBytes
    <2>5. ss[i] = [j \in 1 .. w |-> B[a + j - 1]]
      BY <1>4, <2>3, <2>4
    <2>6. First(B, a) \o ss[i] = First(B, b)
      <3>1. First(B, a) \o [j \in 1 .. w |-> B[a + j - 1]] = First(B, a + w)
        BY FirstGrows
      <3> QED BY <2>3, <2>5, <3>1
    <2>7. i = 1 => a = 0
      BY <1>1, <2>2
    <2>8. a = 0 => ss[i] = First(B, b)
      <3>1. ASSUME a = 0 PROVE \A j \in 1 .. w : B[a + j - 1] = B[j - 1]
        BY <3>1
      <3> QED BY <2>3, <2>5, <3>1 DEF First
    <2> QED BY <2>1, <2>2, <2>6, <2>7, <2>8 DEF Serves
  <1>6. CASE m = 0
    <2>1. FlattenSeq(ss) = ss
      BY <1>4, <1>6 DEF FlattenSeq
    <2>2. n = 0
      BY <1>1, <1>2, <1>6
    <2>3. ss = First(B, n)
      BY <1>3, <1>6, <2>2 DEF First
    <2> QED BY <1>2, <1>3, <1>6, <2>1, <2>3
  <1>7. CASE m # 0
    <2> DEFINE g == [i \in 1 .. m |-> First(B, o[i])]
    <2>1. \A i \in 1 .. m : g[i] = First(B, o[i])
      OBVIOUS
    <2>2. g = [i \in 1 .. m |-> g[i]]
      OBVIOUS
    <2> HIDE DEF g
    <2>3. ASSUME NEW i \in 1 .. m
          PROVE  g[i] = IF i = 1 THEN ss[i] ELSE g[i - 1] \o ss[i]
      <3>1. i # 1 => i - 1 \in 1 .. m
        OBVIOUS
      <3> QED BY <1>5, <2>1, <3>1
    <2>4. Flattened(g, ss)
      BY <1>4, <2>2, <2>3 DEF Flattened
    <2>5. PICK f : f = (CHOOSE h : Flattened(h, ss)) /\ Flattened(f, ss)
      <3>1. Flattened(CHOOSE h : Flattened(h, ss), ss)
        BY <2>4, Zenon
      <3> QED BY <3>1
    <2>6. ASSUME NEW i \in 1 .. m
          PROVE  f[i] = IF i = 1 THEN ss[i] ELSE f[i - 1] \o ss[i]
      BY <1>4, <2>5 DEF Flattened
    <2> DEFINE Wrong == {i \in 1 .. m : f[i] # g[i]}
    <2>7. Wrong = {}
      <3>1. SUFFICES ASSUME Wrong # {} PROVE FALSE
        OBVIOUS
      <3>2. PICK i \in Wrong : \A k \in Wrong : i <= k
        <4>1. Wrong \subseteq Nat
          OBVIOUS
        <4> HIDE DEF Wrong
        <4> QED BY <3>1, <4>1, LeastOf
      <3>3. i \in 1 .. m /\ f[i] # g[i] /\ i # 1
        BY <2>3, <2>6, <3>2
      <3>4. PICK k \in 1 .. m : k = i - 1
        BY <3>3
      <3>5. f[k] # g[k]
        BY <2>3, <2>6, <3>3, <3>4
      <3> QED BY <3>2, <3>4, <3>5
    <2>8. f[m] = g[m]
      BY <1>7, <2>7
    <2>9. FlattenSeq(ss) = f[m]
      BY <1>4, <1>7, <2>5, FlattenIs
    <2>10. g[m] = First(B, n)
      BY <1>1, <1>2, <1>7, <2>1
    <2> QED BY <1>2, <1>3, <1>5, <2>8, <2>9, <2>10
  <1> QED BY <1>2, <1>5, <1>6, <1>7

LEMMA WidthIs ==
    ASSUME NEW left \in Nat \ {0}, NEW a \in Nat
    PROVE  Width(left, a) \in 1 .. left /\ a % Width(left, a) = 0
  <1> DEFINE T == {w \in Widths : left >= w /\ a % w = 0}
  <1>1. 1 \in T /\ T \subseteq {1, 2, 4, 8, 16, 32, 64}
    BY DEF Widths
  <1>2. PICK x \in T : \A y \in T : x >= y
    <2> HIDE DEF T
    <2>1. CASE 64 \in T
      BY <1>1, <2>1
    <2>2. CASE 64 \notin T /\ 32 \in T
      BY <1>1, <2>2
    <2>3. CASE T \cap {32, 64} = {} /\ 16 \in T
      BY <1>1, <2>3
    <2>4. CASE T \cap {16, 32, 64} = {} /\ 8 \in T
      BY <1>1, <2>4
    <2>5. CASE T \cap {8, 16, 32, 64} = {} /\ 4 \in T
      BY <1>1, <2>5
    <2>6. CASE T \cap {4, 8, 16, 32, 64} = {}
      BY <1>1, <2>6
    <2> QED BY <2>1, <2>2, <2>3, <2>4, <2>5, <2>6
  <1>3. Max(T) \in T
    <2> HIDE DEF T
    <2> QED BY <1>2, Zenon DEF Max
  <1>4. Width(left, a) = Max(T)
    BY DEF Width
  <1>5. PICK w : w = Max(T)
    OBVIOUS
  <1>6. w \in {1, 2, 4, 8, 16, 32, 64} /\ left >= w /\ a % w = 0
    BY <1>1, <1>3, <1>5
  <1> QED BY <1>4, <1>5, <1>6

(***************************************************************************)
(* hv_emulate_rw() for one entry: the width and the operation it takes     *)
(* with so many bytes left.                                                *)
(***************************************************************************)
NextWidth(a, bytes, left) == Width(left, a + (bytes - left))
NextOp(e, write, a, bytes, left) ==
    Op(e, write, e.t * WordBytes + (a % WordBytes) + (bytes - left), a + (bytes - left),
       NextWidth(a, bytes, left))

\* f is what is done for up to n bytes left.
Runs(f, e, write, a, bytes, n) ==
    f = [left \in 0 .. n |->
           IF left = 0 THEN <<>>
           ELSE <<NextOp(e, write, a, bytes, left)>> \o f[left - NextWidth(a, bytes, left)]]

LEMMA SplitIs ==
    ASSUME NEW e, NEW write, NEW a, NEW bytes
    PROVE  Split(e, write, a, bytes) = (CHOOSE f : Runs(f, e, write, a, bytes, bytes))[bytes]
  BY Zenon DEF Split, Runs, NextOp, NextWidth

LEMMA NextWidthIs ==
    ASSUME NEW a \in Nat, NEW bytes \in Nat, NEW left \in 1 .. bytes
    PROVE  /\ NextWidth(a, bytes, left) \in 1 .. left
           /\ (a + (bytes - left)) % NextWidth(a, bytes, left) = 0
           /\ left - NextWidth(a, bytes, left) \in 0 .. left - 1
  <1>1. a + (bytes - left) \in Nat /\ left \in Nat \ {0}
    OBVIOUS
  <1>2. PICK w : w = NextWidth(a, bytes, left)
    OBVIOUS
  <1>3. w \in 1 .. left /\ (a + (bytes - left)) % w = 0
    BY <1>1, <1>2, WidthIs DEF NextWidth
  <1> QED BY <1>2, <1>3

\* There is such a function: it can be extended by one byte.
LEMMA RunsExist ==
    ASSUME NEW e, NEW write, NEW a \in Nat, NEW bytes \in Nat
    PROVE  \E f : Runs(f, e, write, a, bytes, bytes)
  <1> DEFINE Bad == {n \in 0 .. bytes : ~\E f : Runs(f, e, write, a, bytes, n)}
  <1>1. SUFFICES ASSUME Bad # {} PROVE FALSE
    OBVIOUS
  <1>2. PICK n \in Bad : \A k \in Bad : n <= k
    <2>1. Bad \subseteq Nat
      OBVIOUS
    <2> HIDE DEF Bad
    <2> QED BY <1>1, <2>1, LeastOf
  <1>3. CASE n = 0
    <2> DEFINE g == [left \in 0 .. 0 |-> <<>>]
    <2>1. g = [left \in 0 .. 0 |-> g[left]] /\ g[0] = <<>>
      OBVIOUS
    <2> HIDE DEF g
    <2>2. Runs(g, e, write, a, bytes, 0)
      BY <2>1 DEF Runs
    <2> QED BY <1>2, <1>3, <2>2
  <1>4. CASE n # 0
    <2>1. PICK m \in 0 .. bytes : m = n - 1
      BY <1>2, <1>4
    <2>2. PICK f : Runs(f, e, write, a, bytes, m)
      BY <1>2, <2>1
    <2>3. n \in 1 .. bytes
      BY <1>2, <1>4
    <2>4. PICK last : last = <<NextOp(e, write, a, bytes, n)>> \o f[n - NextWidth(a, bytes, n)]
      OBVIOUS
    <2> DEFINE g == [left \in 0 .. n |-> IF left = n THEN last ELSE f[left]]
    <2>5. /\ g = [left \in 0 .. n |-> g[left]] /\ g[n] = last
          /\ \A left \in 0 .. m : g[left] = f[left]
      BY <2>1, <2>3
    <2> HIDE DEF g
    <2>6. ASSUME NEW left \in 0 .. n
          PROVE  g[left] = IF left = 0 THEN <<>>
                           ELSE <<NextOp(e, write, a, bytes, left)>> \o g[left - NextWidth(a, bytes, left)]
      <3>1. CASE left = 0
        <4>1. 0 \in 0 .. m
          BY <2>1
        <4>2. f[0] = <<>>
          BY <2>2, <4>1 DEF Runs
        <4> QED BY <2>5, <3>1, <4>1, <4>2
      <3>2. CASE left # 0
        <4>1. left \in 1 .. bytes
          BY <2>3, <3>2
        <4>2. PICK k \in 0 .. left - 1 : k = left - NextWidth(a, bytes, left)
          BY <4>1, NextWidthIs
        <4>3. k \in 0 .. m
          BY <2>1, <2>3, <4>2
        <4>4. g[k] = f[k]
          BY <2>5, <4>3
        <4>5. CASE left = n
          BY <2>4, <2>5, <3>2, <4>2, <4>4, <4>5
        <4>6. CASE left # n
          <5>1. left \in 0 .. m
            BY <2>1, <2>3, <4>6
          <5>2. f[left] = <<NextOp(e, write, a, bytes, left)>> \o f[k]
            BY <2>2, <3>2, <4>2, <5>1 DEF Runs
          <5> QED BY <2>5, <3>2, <4>2, <4>4, <5>1, <5>2
        <4> QED BY <4>5, <4>6
      <3> QED BY <3>1, <3>2
    <2>7. Runs(g, e, write, a, bytes, n)
      BY <2>5, <2>6 DEF Runs
    <2> QED BY <1>2, <2>7
  <1> QED BY <1>3, <1>4

Operation(h, z, w) == [hook |-> h, at |-> z, w |-> w]

LEMMA OperationBytes ==
    ASSUME NEW h, NEW z \in Nat, NEW w \in Nat, NEW i \in 1 .. w
    PROVE  OpBytes(Operation(h, z, w))[i] = Operation(h, z + i - 1, 1)
  <1>1. PICK op, y : op = Operation(h, z, w) /\ y = z + i - 1
    OBVIOUS
  <1>2. op.at = z /\ op.w = w
    BY <1>1 DEF Operation
  <1>3. OpBytes(op)[i] = [op EXCEPT !.at = y, !.w = 1]
    BY <1>1, <1>2 DEF OpBytes
  <1>4. PICK p : p = [op EXCEPT !.at = y]
    OBVIOUS
  <1>5. p = [hook |-> h, at |-> y, w |-> w]
    BY <1>1, <1>4 DEF Operation
  <1>6. [p EXCEPT !.w = 1] = [hook |-> h, at |-> y, w |-> 1]
    BY <1>5
  <1>7. OpBytes(op)[i] = Operation(h, y, 1)
    BY <1>3, <1>4, <1>6 DEF Operation
  <1> QED BY <1>1, <1>7

\* What an entry makes of an access: a hook or a place, and where it begins.
Reaches(e, write, a, h, z) ==
    /\ h # Unmapped => z = a
    /\ \A k, w : Op(e, write, e.t * WordBytes + (a % WordBytes) + k, a + k, w) = Operation(h, z + k, w)

LEMMA EntryReaches ==
    ASSUME NEW e, Leaf(e), e.k # "none", NEW write \in BOOLEAN, NEW a \in Nat
    PROVE  \E h \in {Unmapped, e}, z \in Nat : Reaches(e, write, a, h, z)
  <1>1. CASE Calls(e, write)
    <2>1. Reaches(e, write, a, e, a)
      BY <1>1 DEF Reaches, Op, Operation
    <2> QED BY <2>1
  <1>2. CASE ~Calls(e, write) /\ e.k \in ProxyKinds
    <2>1. Reaches(e, write, a, Unmapped, a)
      BY <1>2 DEF Reaches, Op, Operation
    <2> QED BY <2>1
  <1>3. CASE ~Calls(e, write) /\ e.k \notin ProxyKinds
    <2>1. e.t \in Nat
      BY <1>3 DEF Leaf, Calls, ProxyKinds
    <2>2. PICK z \in Nat : z = e.t * WordBytes + (a % WordBytes)
      BY <2>1 DEF WordBytes
    <2>3. Reaches(e, write, a, Unmapped, z)
      BY <1>3, <2>2 DEF Reaches, Op, Operation
    <2> QED BY <2>3
  <1> QED BY <1>1, <1>2, <1>3

\* The bytes of B from base on are n bytes of one place or hook.
Sends(B, base, h, z, n) == \A k \in 0 .. n - 1 : B[base + k] = Operation(h, z + k, 1)

LEMMA NextOpServes ==
    ASSUME NEW e, NEW write, NEW a \in Nat, NEW H, NEW h \in H, NEW z \in Nat, Reaches(e, write, a, h, z),
           NEW bytes \in Nat, NEW base \in Nat, NEW B,
           Sends(B, base, h, z, bytes),
           NEW left \in 1 .. bytes, NEW w, w = NextWidth(a, bytes, left), NEW d, d = bytes - left
    PROVE  /\ NextOp(e, write, a, bytes, left) \in Ops(H)
           /\ Serves(NextOp(e, write, a, bytes, left), B, base + d, base + d + w)
  <1>1. w \in 1 .. left /\ (a + d) % w = 0 /\ d \in Nat /\ w \in Nat \ {0} /\ d + w <= bytes
    <2>1. w \in 1 .. left /\ (a + d) % w = 0
      BY NextWidthIs
    <2> QED BY <2>1
  <1>2. PICK op : op = NextOp(e, write, a, bytes, left)
    OBVIOUS
  <1>3. op = Operation(h, z + d, w)
    BY <1>2 DEF NextOp, Reaches
  <1>4. PICK y \in Nat : y = z + d
    BY <1>1
  <1>5. /\ op \in Ops(H) /\ op.hook = h /\ op.at = y /\ op.w = w
        /\ \A i \in 1 .. w : OpBytes(op)[i] = Operation(h, y + i - 1, 1)
    <2>1. op = Operation(h, y, w)
      BY <1>3, <1>4
    <2>2. w \in Nat \ {0}
      BY <1>1
    <2>3. op \in Ops(H)
      BY <1>4, <2>1, <2>2 DEF Operation, Ops
    <2>4. op.hook = h /\ op.at = y /\ op.w = w
      BY <2>1 DEF Operation
    <2>5. \A i \in 1 .. w : OpBytes(op)[i] = Operation(h, y + i - 1, 1)
      BY <2>1, <2>2, OperationBytes
    <2> QED BY <2>3, <2>4, <2>5
  <1>6. ASSUME NEW i \in 1 .. w
        PROVE  OpBytes(op)[i] = B[(base + d) + i - 1]
    <2>1. PICK k \in 0 .. bytes - 1 :
             /\ k = d + i - 1 /\ y + i - 1 = z + k /\ (base + d) + i - 1 = base + k
      BY <1>1, <1>4
    <2>2. B[base + k] = Operation(h, z + k, 1)
      BY DEF Sends
    <2> QED BY <1>5, <2>1, <2>2
  <1>7. h # Unmapped => y % w = 0
    BY <1>1, <1>4 DEF Reaches
  <1> QED BY <1>1, <1>2, <1>5, <1>6, <1>7 DEF Serves

\* The operations of hv_emulate_rw() trace the bytes.
LEMMA SplitTraces ==
    ASSUME NEW e, NEW write, NEW a \in Nat, NEW H, NEW h \in H, NEW z \in Nat, Reaches(e, write, a, h, z),
           NEW bytes \in Nat, NEW base \in Nat, NEW B,
           Sends(B, base, h, z, bytes)
    PROVE  /\ Split(e, write, a, bytes) \in Seq(Ops(H))
           /\ Traced(Split(e, write, a, bytes), B, base, base + bytes)
  <1>1. PICK f : f = (CHOOSE g : Runs(g, e, write, a, bytes, bytes)) /\ Runs(f, e, write, a, bytes, bytes)
    <2>1. Runs(CHOOSE g : Runs(g, e, write, a, bytes, bytes), e, write, a, bytes, bytes)
      BY RunsExist, Zenon
    <2> QED BY <2>1
  <1>2. Split(e, write, a, bytes) = f[bytes]
    BY <1>1, SplitIs
  <1> DEFINE Good(left) == /\ f[left] \in Seq(Ops(H))
                           /\ Traced(f[left], B, base + (bytes - left), base + bytes)
             Bad == {left \in 0 .. bytes : ~Good(left)}
  <1>3. Bad = {}
    <2>1. SUFFICES ASSUME Bad # {} PROVE FALSE
      OBVIOUS
    <2>2. PICK left \in Bad : \A k \in Bad : left <= k
      <3>1. Bad \subseteq Nat
        OBVIOUS
      <3> HIDE DEF Bad
      <3> QED BY <2>1, <3>1, LeastOf
    <2>3. \A k \in 0 .. bytes : ~(left <= k) => Good(k)
      <3> HIDE DEF Good
      <3> QED BY <2>2, SMTT(30)
    <2>4. CASE left = 0
      <3>1. f[0] = <<>>
        BY <1>1, <2>4 DEF Runs
      <3>2. Traced(<<>>, B, base + bytes, base + bytes)
        BY EmptyTrace
      <3>3. Good(0)
        BY <3>1, <3>2
      <3> QED BY <2>2, <2>4, <3>3
    <2>5. CASE left # 0
      <3>1. left \in 1 .. bytes
        BY <2>2, <2>5
      <3>2. PICK w, d : w = NextWidth(a, bytes, left) /\ d = bytes - left
        OBVIOUS
      <3>3. w \in 1 .. left /\ d \in Nat
        BY <3>1, <3>2, NextWidthIs
      <3>4. PICK k \in 0 .. left - 1 : k = left - w /\ bytes - k = d + w
        <4>1. left \in Nat /\ d = bytes - left
          BY <3>1, <3>2
        <4>2. left - w \in 0 .. left - 1 /\ bytes - (left - w) = d + w
          BY <3>3, <4>1
        <4> QED BY <4>2
      <3>5. Good(k)
        <4> HIDE DEF Good, Bad
        <4>1. k \in 0 .. bytes /\ ~(left <= k)
          BY <3>1, SMTT(60)
        <4> QED BY <2>3, <4>1, SMTT(30)
      <3>6. f[left] = <<NextOp(e, write, a, bytes, left)>> \o f[k]
        BY <1>1, <2>5, <3>1, <3>2, <3>4 DEF Runs
      <3>7. PICK op : op = NextOp(e, write, a, bytes, left)
        OBVIOUS
      <3>8. op \in Ops(H) /\ Serves(op, B, base + d, base + d + w)
        BY <3>1, <3>2, <3>7, NextOpServes
      <3>9. base + d \in Nat /\ base + d + w \in Nat
        BY <3>3
      <3>10. Traced(<<op>>, B, base + d, base + d + w)
        BY <3>8, <3>9, SingleTrace
      <3>11. <<op>> \in Seq(Ops(H))
        BY <3>8
      <3>12. f[k] \in Seq(Ops(H)) /\ Traced(f[k], B, base + d + w, base + bytes)
        <4>1. base + (bytes - k) = base + d + w
          BY <3>3, <3>4
        <4> QED BY <3>5, <4>1
      <3>13. Traced(<<op>> \o f[k], B, base + d, base + bytes)
        BY <3>10, <3>11, <3>12, JoinTraces
      <3>14. <<op>> \o f[k] \in Seq(Ops(H))
        BY <3>11, <3>12
      <3>15. Good(left)
        BY <3>2, <3>6, <3>7, <3>13, <3>14
      <3> QED BY <2>2, <3>15
    <2> QED BY <2>4, <2>5
  <1>4. Good(bytes)
    BY <1>3
  <1>5. base + (bytes - bytes) = base
    OBVIOUS
  <1> QED BY <1>2, <1>4, <1>5

LEMMA FoundLeaf ==
    ASSUME NEW t, Tree(t), NEW a \in Addr
    PROVE  Leaf(Found(t, a))
  <1>1. PICK d2 : d2 = t[L2Index(a)]
    OBVIOUS
  <1>2. /\ Entry2(d2)
        /\ ~IsTable(d2) => BlockLeaf(d2) /\ Found(t, a) = Plus(d2, a % Block)
        /\ IsTable(d2) /\ ~IsTable(d2.e[L3Index(a)])
              => Leaf(d2.e[L3Index(a)]) /\ Found(t, a) = Plus(d2.e[L3Index(a)], a % Page)
        /\ IsTable(d2) /\ IsTable(d2.e[L3Index(a)])
              => Found(t, a) = d2.e[L3Index(a)].e[L4Index(a)]
    BY <1>1, FoundIs
  <1>3. /\ L3Index(a) \in 0 .. Pages - 1 /\ L4Index(a) \in 0 .. Words - 1
        /\ a % Block \in Nat /\ a % Page \in Nat
    BY IndexIn, Sizes
  <1>4. CASE ~IsTable(d2)
    BY <1>2, <1>3, <1>4, PlusIs DEF BlockLeaf
  <1>5. CASE IsTable(d2) /\ ~IsTable(d2.e[L3Index(a)])
    BY <1>2, <1>3, <1>5, PlusIs
  <1>6. CASE IsTable(d2) /\ IsTable(d2.e[L3Index(a)])
    BY <1>2, <1>3, <1>6, TableEntries
  <1> QED BY <1>4, <1>5, <1>6

\* The byte k bytes on is mapped with the one at a, whose entry is e, and goes
\* where that entry sends it.
MappedWith(e, a, k) ==
    WalkByte(a + k) = Plus(e, ((a + k) \div WordBytes) - (a \div WordBytes))

LEMMA TargetIs ==
    ASSUME NEW e, Leaf(e), e.k # "none", NEW write \in BOOLEAN, NEW a \in Nat, NEW k \in Nat,
           NEW h, NEW z \in Nat, Reaches(e, write, a, h, z),
           MappedWith(e, a, k)
    PROVE  Target(a + k, write) = Operation(h, z + k, 1)
  <1>1. PICK n \in Nat : /\ n = ((a + k) \div WordBytes) - (a \div WordBytes)
                         /\ n * 4 + ((a + k) % WordBytes) = (a % WordBytes) + k
    BY DEF WordBytes
  <1>2. PICK d : d = Plus(e, n) /\ d = WalkByte(a + k)
    BY <1>1 DEF MappedWith
  <1>3. Target(a + k, write) = Op(d, write, d.t * WordBytes + ((a + k) % WordBytes), a + k, 1)
    BY <1>2 DEF Target
  <1>4. Op(e, write, e.t * WordBytes + (a % WordBytes) + k, a + k, 1) = Operation(h, z + k, 1)
    BY DEF Reaches
  <1>5. CASE e.k \notin {"hw", "sw"}
    <2>1. d = e
      BY <1>2, <1>5 DEF Plus
    <2>2. Calls(e, write) \/ e.k \in ProxyKinds
      BY <1>5 DEF Leaf, Calls, ProxyKinds
    <2> QED BY <1>3, <1>4, <2>1, <2>2 DEF Op
  <1>6. CASE e.k \in {"hw", "sw"}
    <2>1. e.t \in Nat /\ ~Calls(e, write) /\ e.k \notin ProxyKinds
      BY <1>6 DEF Leaf, Calls, ProxyKinds
    <2>2. d.k = e.k /\ d.t = e.t + n
      <3>1. Plus(e, n).k = e.k /\ Plus(e, n).t = e.t + n
        BY <1>6, PlusIs
      <3> QED BY <1>2, <3>1
    <2>3. d.t * WordBytes + ((a + k) % WordBytes) = e.t * WordBytes + (a % WordBytes) + k
      <3>1. PICK r \in Nat, q \in Nat : r = (a + k) % WordBytes /\ q = a % WordBytes
        BY DEF WordBytes
      <3>2. (e.t + n) * 4 + r = e.t * 4 + q + k
        BY <1>1, <2>1, <3>1
      <3> QED BY <2>2, <3>1, <3>2 DEF WordBytes
    <2>4. ~Calls(d, write) /\ d.k \notin ProxyKinds
      BY <2>1, <2>2 DEF Calls
    <2> QED BY <1>3, <1>4, <2>1, <2>3, <2>4 DEF Op
  <1> QED BY <1>5, <1>6

LEMMA LowerIs ==
    ASSUME NEW x \in Accesses
    PROVE  /\ x[1] \in Nat /\ x[2] \in Nat \ {0} /\ x[3] * PageBytes \in Nat
           /\ x[1] \div WordBytes \in Addr /\ (x[3] * PageBytes) \div WordBytes \in Addr
           /\ Lower(x) \in Nat \ {0} /\ Lower(x) <= x[2]
  <1>1. /\ x[1] \in Nat /\ x[2] \in Nat \ {0} /\ x[3] \in Nat
        /\ x[1] \div WordBytes \in Addr /\ x[3] * Page \in Addr
    BY MmioAssumption DEF Widths
  <1>2. PICK m \in Nat \ {0} : m = Page
    BY Sizes
  <1>3. PICK p \in Nat : p = x[3] * m
    BY <1>1
  <1>4. x[3] * PageBytes = p * 4
    BY <1>1, <1>2, <1>3 DEF PageBytes, WordBytes
  <1>5. (p * 4) \div WordBytes = p
    BY DEF WordBytes
  <1>6. PICK r \in Nat : r = x[1] % PageBytes /\ r < PageBytes /\ PageBytes \in Nat
    <2>1. PageBytes \in Nat \ {0}
      BY <1>2 DEF PageBytes, WordBytes
    <2>2. PICK a \in Nat, q \in Nat \ {0} : a = x[1] /\ q = PageBytes
      BY <1>1, <2>1
    <2>3. a % q \in 0 .. q - 1
      BY DivModIs
    <2> QED BY <2>2, <2>3
  <1>7. Lower(x) \in Nat \ {0} /\ Lower(x) <= x[2]
    BY <1>1, <1>6 DEF Lower, Min2
  <1> QED BY <1>1, <1>2, <1>3, <1>4, <1>5, <1>7

\* One half of an access: its bytes are those from base on.
LEMMA HalfTraces ==
    ASSUME NEW a \in Nat, NEW e, Leaf(e), e.k # "none", NEW write \in BOOLEAN,
           NEW bytes \in Nat, NEW base \in Nat, NEW B,
           \A k \in 0 .. bytes - 1 : B[base + k] = Target(a + k, write) /\ MappedWith(e, a, k),
           NEW H, {Unmapped, e} \subseteq H
    PROVE  /\ Split(e, write, a, bytes) \in Seq(Ops(H))
           /\ Traced(Split(e, write, a, bytes), B, base, base + bytes)
  <1>1. PICK h \in H, z \in Nat : Reaches(e, write, a, h, z)
    BY EntryReaches
  <1>2. ASSUME NEW k \in 0 .. bytes - 1 PROVE B[base + k] = Operation(h, z + k, 1)
    <2>1. k \in Nat
      OBVIOUS
    <2>2. MappedWith(e, a, k) /\ B[base + k] = Target(a + k, write)
      OBVIOUS
    <2>3. Target(a + k, write) = Operation(h, z + k, 1)
      BY <1>1, <2>1, <2>2, TargetIs
    <2> QED BY <2>2, <2>3
  <1>3. Sends(B, base, h, z, bytes)
    BY <1>2 DEF Sends
  <1> QED BY <1>1, <1>3, SplitTraces, ZenonT(60)

\* The first operations of some that trace bytes trace the first of them, and
\* fewer bytes unless they are all of the operations.
LEMMA PrefixTraces ==
    ASSUME NEW H, NEW s \in Seq(Ops(H)), NEW B, NEW a \in Nat, NEW b \in Nat, Traced(s, B, a, b),
           NEW m \in 0 .. Len(s), m < Len(s)
    PROVE  /\ SubSeq(s, 1, m) \in Seq(Ops(H))
           /\ \E c \in a .. b - 1 : Traced(SubSeq(s, 1, m), B, a, c)
  <1>1. PICK o : Cut(s, B, o) /\ o[0] = a /\ o[Len(s)] = b
    BY DEF Traced
  <1>2. PICK n \in Nat : n = Len(s) /\ m < n /\ m \in Nat
    OBVIOUS
  <1>3. PICK u : u = SubSeq(s, 1, m)
    OBVIOUS
  <1>4. u \in Seq(Ops(H)) /\ Len(u) = m /\ \A i \in 1 .. m : u[i] = s[i]
    BY <1>2, <1>3
  <1>5. Cut(u, B, o)
    <2>1. \A i \in 0 .. m : i \in 0 .. n
      BY <1>2
    <2>2. \A i \in 1 .. m : i \in 1 .. n
      BY <1>2
    <2> QED BY <1>1, <1>2, <1>4, <2>1, <2>2 DEF Cut
  <1>6. ASSUME NEW i \in 1 .. n PROVE o[i - 1] \in Nat /\ o[i] \in Nat /\ o[i - 1] < o[i]
    <2>1. i - 1 \in 0 .. n /\ i \in 0 .. n
      OBVIOUS
    <2>2. o[i - 1] \in Nat /\ o[i] \in Nat /\ Serves(s[i], B, o[i - 1], o[i])
      BY <1>1, <1>2, <2>1 DEF Cut
    <2>3. s[i] \in Ops(H)
      BY <1>2
    <2>4. PICK w \in Nat \ {0} : w = s[i].w
      BY <2>3 DEF Ops
    <2> QED BY <2>2, <2>4, SMTT(30) DEF Serves
  <1>7. ASSUME NEW i \in 0 .. n, NEW j \in i .. n PROVE o[i] \in Nat /\ o[j] \in Nat /\ o[j] >= o[i]
    <2>0. \A k \in 0 .. n : o[k] \in Nat
      BY <1>1, <1>2 DEF Cut
    <2> DEFINE Bad == {k \in i .. n : ~(o[k] >= o[i])}
    <2>1. Bad = {}
      <3>1. SUFFICES ASSUME Bad # {} PROVE FALSE
        OBVIOUS
      <3>2. PICK k \in Bad : \A l \in Bad : k <= l
        <4>1. Bad \subseteq Nat
          OBVIOUS
        <4> HIDE DEF Bad
        <4> QED BY <3>1, <4>1, LeastOf
      <3>3. k # i /\ k \in i .. n
        BY <2>0
      <3>4. k - 1 \in i .. n /\ k \in 1 .. n /\ k - 1 \notin Bad
        BY <3>2, <3>3
      <3>5. o[k - 1] >= o[i] /\ o[k - 1] < o[k] /\ o[k - 1] \in Nat /\ o[k] \in Nat
        BY <1>6, <3>4
      <3>6. o[k] >= o[i]
        BY <2>0, <3>5
      <3> QED BY <3>2, <3>6
    <2>2. i \in 0 .. n /\ j \in 0 .. n
      OBVIOUS
    <2> QED BY <2>0, <2>1, <2>2
  <1>8. o[m] \in a .. b - 1
    <2>1. m \in 0 .. n /\ m + 1 \in 1 .. n /\ n \in m + 1 .. n /\ 0 \in 0 .. n /\ m \in 0 .. n
          /\ m + 1 \in 0 .. n /\ (m + 1) - 1 = m
      BY <1>2
    <2>2. o[0] <= o[m] /\ o[m + 1] <= o[n] /\ o[m] < o[m + 1]
          /\ o[m] \in Nat /\ o[m + 1] \in Nat /\ o[n] \in Nat
      BY <1>6, <1>7, <2>1
    <2> QED BY <1>1, <1>2, <2>2
  <1>9. Traced(u, B, a, o[m])
    BY <1>1, <1>4, <1>5 DEF Traced
  <1> QED BY <1>3, <1>4, <1>8, <1>9

\* A run of hv_emulate_rw() over the bytes of base .. base + bytes - 1: what is
\* done traces the first of them, and all of them exactly if it succeeds.
Did(r, B, H, base, bytes, c) ==
    /\ r.done \in Seq(Ops(H)) /\ r.ok \in BOOLEAN
    /\ c \in base .. base + bytes
    /\ Traced(r.done, B, base, c)
    /\ r.ok <=> c = base + bytes

LEMMA RunDoes ==
    ASSUME NEW a \in Nat, NEW e, Leaf(e), e.k # "none", NEW write \in BOOLEAN,
           NEW bytes \in Nat, NEW base \in Nat, NEW B,
           \A k \in 0 .. bytes - 1 : B[base + k] = Target(a + k, write) /\ MappedWith(e, a, k),
           NEW H, {Unmapped, e} \subseteq H, NEW n \in Int
    PROVE  \E c : Did(EmulateRw(e, write, a, bytes, n), B, H, base, bytes, c)
  <1>1. PICK s : s = Split(e, write, a, bytes) /\ s \in Seq(Ops(H))
                 /\ Traced(s, B, base, base + bytes)
    BY HalfTraces, Zenon
  <1>2. PICK r : r = EmulateRw(e, write, a, bytes, n)
    OBVIOUS
  <1>3. CASE n \in 1 .. Len(s) /\ MayFail(s[n])
    <2>1. r = [done |-> SubSeq(s, 1, n - 1), ok |-> FALSE]
      BY <1>1, <1>2, <1>3 DEF EmulateRw
    <2>2. PICK m \in 0 .. Len(s) : m = n - 1 /\ m < Len(s)
      BY <1>1, <1>3
    <2>3. base + bytes \in Nat
      OBVIOUS
    <2>4. /\ SubSeq(s, 1, m) \in Seq(Ops(H))
          /\ \E c \in base .. (base + bytes) - 1 : Traced(SubSeq(s, 1, m), B, base, c)
      BY <1>1, <2>2, <2>3, PrefixTraces
    <2>5. PICK c \in base .. (base + bytes) - 1 : Traced(SubSeq(s, 1, m), B, base, c)
      BY <2>4
    <2>6. c \in base .. base + bytes /\ c # base + bytes
      OBVIOUS
    <2>7. r.done = SubSeq(s, 1, m) /\ r.ok = FALSE
      BY <2>1, <2>2
    <2> QED BY <1>2, <2>4, <2>5, <2>6, <2>7 DEF Did
  <1>4. CASE ~(n \in 1 .. Len(s) /\ MayFail(s[n]))
    <2>1. r = [done |-> s, ok |-> TRUE]
      BY <1>1, <1>2, <1>4 DEF EmulateRw
    <2>2. base + bytes \in base .. base + bytes
      OBVIOUS
    <2>3. r.done = s /\ r.ok = TRUE
      BY <2>1
    <2> QED BY <1>1, <1>2, <2>2, <2>3 DEF Did
  <1> QED BY <1>3, <1>4

LEMMA AccessTraces ==
    ASSUME Tree(l2), NEW x \in Accesses, Emulated(x),
           Uniform(x, 0, Lower(x) - 1), Uniform(x, Lower(x), x[2] - 1),
           NEW write \in BOOLEAN, NEW f \in Int,
           NEW B, \A j \in 0 .. x[2] - 1 : B[j] = Target(ByteAt(x, j), write)
    PROVE  \E H, c : Did(HandleDabort(x, write, f), B, H, 0, x[2], c)
  <1>1. PICK a \in Nat, b \in Nat, n \in Nat \ {0}, low \in Nat \ {0} :
           /\ a = x[1] /\ b = x[3] * PageBytes /\ n = x[2] /\ low = Lower(x) /\ low <= n
           /\ a \div WordBytes \in Addr /\ b \div WordBytes \in Addr
    BY LowerIs, ZenonT(60)
  <1>2. PICK d, e : d = WalkByte(a) /\ e = WalkByte(b) /\ Leaf(d) /\ Leaf(e)
    <2>1. Leaf(Found(l2, a \div WordBytes)) /\ Leaf(Found(l2, b \div WordBytes))
      BY <1>1, FoundLeaf
    <2> QED BY <2>1 DEF WalkByte, Walk, Found
  <1>3. PICK H : H = {Unmapped, d, e}
    OBVIOUS
  <1>4. PICK s, t : /\ s = EmulateRw(d, write, a, low, f)
                    /\ t = EmulateRw(e, write, b, n - low, f - Len(s.done))
    OBVIOUS
  <1>5. HandleDabort(x, write, f)
          = IF low < n /\ s.ok THEN [done |-> s.done \o t.done, ok |-> t.ok] ELSE s
    BY <1>1, <1>2, <1>4 DEF HandleDabort, Straddles
  <1>6. \A j \in 0 .. n - 1 : ByteAt(x, j) = IF j < low THEN a + j ELSE b + j - low
    BY <1>1 DEF ByteAt
  <1>7. PICK c : Did(s, B, H, 0, low, c)
    <2>1. d.k # "none"
      BY <1>1, <1>2 DEF Emulated
    <2>2. ASSUME NEW k \in 0 .. low - 1
          PROVE  B[0 + k] = Target(a + k, write) /\ MappedWith(d, a, k)
      <3>1. k \in 0 .. n - 1 /\ 0 \in 0 .. n - 1 /\ k < low /\ 0 < low
        BY <1>1
      <3>2. ByteAt(x, k) = a + k /\ ByteAt(x, 0) = a
        BY <1>6, <3>1
      <3>3. WalkByte(ByteAt(x, k)) = Plus(WalkByte(ByteAt(x, 0)),
               (ByteAt(x, k) \div WordBytes) - (ByteAt(x, 0) \div WordBytes))
        BY <1>1 DEF Uniform
      <3>4. B[k] = Target(ByteAt(x, k), write)
        BY <1>1, <3>1
      <3> QED BY <1>2, <3>2, <3>3, <3>4 DEF MappedWith
    <2>3. {Unmapped, d} \subseteq H
      BY <1>3
    <2>4. low \in Nat /\ 0 \in Nat
      OBVIOUS
    <2>5. \E c : Did(EmulateRw(d, write, a, low, f), B, H, 0, low, c)
      BY <1>2, <2>1, <2>2, <2>3, <2>4, RunDoes, Zenon
    <2> QED BY <1>4, <2>5
  <1>8. c \in 0 .. low /\ (s.ok <=> c = low) /\ s.ok \in BOOLEAN
        /\ s.done \in Seq(Ops(H)) /\ Traced(s.done, B, 0, c)
    BY <1>7 DEF Did
  <1>9. CASE ~(low < n /\ s.ok)
    <2>1. HandleDabort(x, write, f) = s
      BY <1>5, <1>9
    <2>2. c \in 0 .. 0 + n /\ (s.ok <=> c = 0 + n)
      BY <1>1, <1>8, <1>9
    <2>3. Did(s, B, H, 0, n, c)
      BY <1>8, <2>2 DEF Did
    <2> QED BY <1>1, <2>1, <2>3
  <1>10. CASE low < n /\ s.ok
    <2>1. PICK m \in Nat : m = n - low
      BY <1>1, <1>10
    <2>2. ASSUME NEW k \in 0 .. m - 1
          PROVE  B[low + k] = Target(b + k, write) /\ MappedWith(e, b, k)
      <3>1. PICK j \in low .. n - 1 : j = low + k /\ j \in 0 .. n - 1 /\ low \in 0 .. n - 1
        BY <1>1, <1>10, <2>1
      <3>2. ByteAt(x, j) = b + k /\ ByteAt(x, low) = b
        BY <1>6, <3>1
      <3>3. WalkByte(ByteAt(x, j)) = Plus(WalkByte(ByteAt(x, low)),
               (ByteAt(x, j) \div WordBytes) - (ByteAt(x, low) \div WordBytes))
        BY <1>1, <3>1 DEF Uniform
      <3>4. B[j] = Target(ByteAt(x, j), write)
        BY <1>1, <3>1
      <3> QED BY <1>2, <3>1, <3>2, <3>3, <3>4 DEF MappedWith
    <2>3. e.k # "none"
      <3>1. PICK k \in 0 .. m - 1 : k = m - 1
        BY <1>10, <2>1
      <3>2. ByteAt(x, n - 1) = b + k
        BY <1>1, <1>6, <1>10, <2>1, <3>1
      <3>3. WalkByte(b + k).k # "none"
        BY <1>1, <3>2 DEF Emulated
      <3>4. WalkByte(b + k).k = e.k
        <4>1. PICK y : WalkByte(b + k) = Plus(e, y)
          BY <2>2 DEF MappedWith
        <4> QED BY <1>2, <4>1 DEF Plus, Leaf
      <3> QED BY <3>3, <3>4
    <2>4. {Unmapped, e} \subseteq H
      BY <1>3
    <2>5. PICK g \in Int : g = f - Len(s.done)
      <3>1. PICK z \in Int : z = Len(s.done)
        BY <1>8
      <3>2. f - z \in Int
        OBVIOUS
      <3> QED BY <3>1, <3>2, Zenon
    <2>6. \E q : Did(EmulateRw(e, write, b, m, g), B, H, low, m, q)
      <3>1. low \in Nat
        OBVIOUS
      <3> QED BY <1>2, <2>2, <2>3, <2>4, <3>1, RunDoes, Zenon
    <2>7. PICK q : Did(t, B, H, low, m, q)
      BY <1>4, <2>1, <2>5, <2>6
    <2>8. /\ q \in low .. low + m /\ (t.ok <=> q = low + m) /\ t.ok \in BOOLEAN
          /\ t.done \in Seq(Ops(H)) /\ Traced(t.done, B, low, q)
      BY <2>7 DEF Did
    <2>9. Traced(s.done, B, 0, low)
      BY <1>8, <1>10
    <2>10. s.done \o t.done \in Seq(Ops(H)) /\ Traced(s.done \o t.done, B, 0, q)
      BY <1>8, <2>8, <2>9, JoinTraces
    <2>11. PICK r : r = [done |-> s.done \o t.done, ok |-> t.ok]
      OBVIOUS
    <2>12. r.done = s.done \o t.done /\ r.ok = t.ok
      BY <2>11
    <2>13. q \in 0 .. 0 + n /\ (r.ok <=> q = 0 + n)
      <3>1. q \in 0 .. 0 + n /\ low + m = 0 + n
        BY <1>1, <2>1, <2>8, SMTT(60)
      <3> QED BY <2>8, <2>12, <3>1, Zenon
    <2>14. Did(r, B, H, 0, n, q)
      BY <2>8, <2>10, <2>12, <2>13 DEF Did
    <2> QED BY <1>1, <1>5, <1>10, <2>11, <2>14
  <1> QED BY <1>9, <1>10

LEMMA TreeEmulates == Tree(l2) => EmulationExact
  <1> SUFFICES ASSUME Tree(l2), NEW x \in Accesses, Emulated(x),
                      Uniform(x, 0, Lower(x) - 1), Uniform(x, Lower(x), x[2] - 1),
                      NEW write \in BOOLEAN, NEW f \in 0 .. x[2],
                      NEW r, r = HandleDabort(x, write, f)
               PROVE  Served(r, x, write)
    BY DEF EmulationExact
  <1>1. PICK n \in Nat : n = x[2]
    BY LowerIs
  <1> DEFINE B == [j \in 0 .. n - 1 |-> Target(ByteAt(x, j), write)]
  <1>2. \A j \in 0 .. n - 1 : B[j] = Target(ByteAt(x, j), write)
    OBVIOUS
  <1> HIDE DEF B
  <1>3. PICK H, c : Did(r, B, H, 0, n, c)
    <2>1. f \in Int
      BY <1>1
    <2>2. \E H, c : Did(HandleDabort(x, write, f), B, H, 0, x[2], c)
      BY <1>1, <1>2, <2>1, AccessTraces, ZenonT(30)
    <2> QED BY <1>1, <2>2
  <1>4. r.done \in Seq(Ops(H)) /\ Traced(r.done, B, 0, c) /\ c \in 0 .. n /\ (r.ok <=> c = n)
    BY <1>3 DEF Did
  <1>5. /\ Transferred(r.done) = First(B, c)
        /\ \A i \in 1 .. Len(r.done) :
              r.done[i].hook # Unmapped => r.done[i].at % r.done[i].w = 0
    <2>1. PICK s, m : s = r.done /\ m = c /\ m \in Nat
      <3>1. c \in Nat
        BY <1>1, <1>4
      <3> QED BY <3>1, Zenon
    <2>2. s \in Seq(Ops(H)) /\ Traced(s, B, 0, m)
      BY <1>4, <2>1
    <2>3. /\ Transferred(s) = First(B, m)
          /\ \A i \in 1 .. Len(s) : s[i].hook # Unmapped => s[i].at % s[i].w = 0
      BY <2>1, <2>2, TraceIsExact, Zenon DEF Transferred
    <2> QED BY <2>1, <2>3, Zenon
  <1>6. First(B, c) = [j \in 1 .. c |-> Target(ByteAt(x, j - 1), write)]
    <2>1. \A j \in 1 .. c : B[j - 1] = Target(ByteAt(x, j - 1), write)
      BY <1>2, <1>4
    <2> QED BY <2>1 DEF First
  <1>7. Len(Transferred(r.done)) = c /\ c <= x[2]
    BY <1>1, <1>4, <1>5 DEF First
  <1>8. r.ok <=> Len(Transferred(r.done)) = x[2]
    BY <1>1, <1>4, <1>7, Zenon
  <1> QED BY <1>5, <1>6, <1>7, <1>8, Zenon DEF Served

\* Whatever was mapped, split and remapped before, and whichever aligned access
\* fails: the bytes of a load or a store that hv_handle_dabort() transfers are
\* its first ones, each once and in order, at the place or the hook that its own
\* address maps to; it reports success exactly when they are all of them; and a
\* hook is only ever called with an aligned access.
THEOREM EmulationAlwaysExact == StageSpec => []EmulationExact
  <1>1. StageInit => StageInv
    BY StageInvInit
  <1>2. StageInv /\ [StageNext]_stageVars => StageInv'
    BY StageInvNext
  <1>3. StageInv => EmulationExact
    BY TreeEmulates DEF StageInv
  <1> QED BY <1>1, <1>2, <1>3, PTL DEF StageSpec
=============================================================================
