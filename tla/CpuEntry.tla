------------------------------ MODULE CpuEntry ------------------------------
(***************************************************************************)
(* Several CPUs enter and leave the hypervisor (nvme-s208/hv_exc-s208.c):  *)
(* the big lock bhl, the mask hv_cpus_in_guest, the rendezvous before the  *)
(* host is asked, pinning and switching of CPUs, the time offset that each *)
(* CPU loads when it leaves, and the parking of a CPU that aborts in a     *)
(* storm (hv_handle_dabort in nvme-s208/hv_vm-s208.c).                     *)
(*                                                                         *)
(* A handler is cut where it takes or gives up the lock, changes the mask, *)
(* or reads a variable that another CPU may change meanwhile.  Traps that  *)
(* are served before hv_exc_entry (WFI, most MSRs, the tick of a secondary *)
(* CPU) touch none of this state and are no steps; what they and           *)
(* hv_update_fiq do to interrupts is in VgicDelivery.                      *)
(*                                                                         *)
(* hv_pin_cpu, hv_switch_cpu, hv_exit_cpu, hv_maybe_exit and the host are  *)
(* external, and hv_rendezvous is known from a companion patch.            *)
(***************************************************************************)
EXTENDS Naturals

CONSTANTS Cpus,        \* the CPUs that have been started
          Boot,        \* boot_cpu_idx
          None,        \* no CPU: -1
          Threshold,   \* NWOAS_UNMAPPED_PARK_THRESHOLD (16)
          Pins, Switches  \* CPUs the host may pin, CPUs it may switch to

ASSUME CpuAssumption ==
    /\ Boot \in Cpus /\ None \notin Cpus
    /\ Threshold \in Nat /\ Threshold >= 2
    /\ Pins \subseteq Cpus /\ Switches \subseteq Cpus

VARIABLES
    pc,        \* where each CPU is
    lock,      \* the holder of bhl
    inGuest,   \* hv_cpus_in_guest
    ipi,       \* CPUs with a pending IPI
    pinned,    \* hv_pinned_cpu
    want,      \* hv_want_cpu
    caller,    \* where _hv_exc_proxy returns to, on each CPU
    rest,      \* what the handler still has to do after the host call
    late,      \* CPUs that left with a CNTVOFF_EL2 that is no longer stolen_time
    streak,    \* nwoas_unmapped_streak
    exiting    \* hv_should_exit

vars == <<pc, lock, inGuest, ipi, pinned, want, caller, rest, late, streak, exiting>>

Goto(c, place) == pc' = [pc EXCEPT ![c] = place]

\* The CPU that serves the host's ticks.
Interruptible == IF pinned = None THEN Boot ELSE pinned

Init ==
    /\ pc = [c \in Cpus |-> "guest"]
    /\ lock = None /\ inGuest = Cpus /\ ipi = {}
    /\ pinned = None /\ want = None
    /\ caller = [c \in Cpus |-> "after"]
    /\ rest = [c \in Cpus |-> "leave"]
    /\ late = {}
    /\ streak = [c \in Cpus |-> 0]
    /\ exiting = {}

(***************************************************************************)
(* hv_exc_entry and hv_exc_exit.                                           *)
(***************************************************************************)
\* The bit in the mask is cleared before the lock is taken.
Trap(c, cause) ==
    /\ pc[c] = "guest"
    /\ inGuest' = inGuest \ {c}
    /\ Goto(c, "entry")
    /\ rest' = [rest EXCEPT ![c] = cause]
    /\ late' = late \ {c}
    /\ UNCHANGED <<lock, ipi, pinned, want, caller, streak, exiting>>

\* A data abort, a trapped register, a hook of the host, an SError.
Sync(c) == \E cause \in {"emulate", "proxy", "abort"} : Trap(c, cause)

\* Bug: a switch alone does not take a CPU off the fast path.
FiqIgnoresSwitch(c) ==
    /\ c \notin exiting
    /\ c = Interruptible \/ c \in ipi
    /\ Trap(c, "fiq")

\* The slow path of hv_exc_fiq, after its hv_maybe_exit.
Fiq(c) ==
    /\ c \notin exiting
    /\ c = Interruptible \/ c \in ipi \/ want # None
    /\ Trap(c, "fiq")

\* PSCI CPU_OFF, a lock-free SMC: hv_exit_cpu only marks the CPU.
CpuOff(c) ==
    /\ pc[c] = "guest" /\ c # Boot /\ c \notin exiting
    /\ exiting' = exiting \cup {c}
    /\ UNCHANGED <<pc, lock, inGuest, ipi, pinned, want, caller, rest, late, streak>>

\* hv_maybe_exit at the head of hv_exc_fiq: the CPU goes back to m1n1's loop.
FiqExits(c) ==
    /\ pc[c] = "guest" /\ c \in exiting
    /\ inGuest' = inGuest \ {c}
    /\ Goto(c, "off")
    /\ late' = late \ {c}
    /\ UNCHANGED <<lock, ipi, pinned, want, caller, rest, streak, exiting>>

Acquire(c) ==
    /\ pc[c] \in {"entry", "recall", "reswitch"} /\ lock = None
    /\ lock' = c
    /\ Goto(c, CASE pc[c] = "entry" -> "handle"
                 [] pc[c] = "recall" -> "call"
                 [] OTHER -> "after")
    /\ UNCHANGED <<inGuest, ipi, pinned, want, caller, rest, late, streak, exiting>>

Exit(c) ==
    /\ pc[c] = "leave"
    /\ lock' = None
    /\ Goto(c, "out")
    /\ UNCHANGED <<inGuest, ipi, pinned, want, caller, rest, late, streak, exiting>>

\* hv_maybe_exit, then the bit in the mask: no longer under the lock.
Enter(c) ==
    /\ pc[c] = "out"
    /\ \/ c \in exiting /\ Goto(c, "off") /\ UNCHANGED inGuest /\ late' = late \ {c}
       \/ c \notin exiting /\ Goto(c, "guest") /\ inGuest' = inGuest \cup {c}
          /\ UNCHANGED late
    /\ UNCHANGED <<lock, ipi, pinned, want, caller, rest, streak, exiting>>

(***************************************************************************)
(* What the handlers do under the lock.                                    *)
(***************************************************************************)
Emulate(c) ==
    /\ pc[c] = "handle" /\ rest[c] = "emulate"
    /\ Goto(c, "leave")
    /\ rest' = [rest EXCEPT ![c] = "leave"]
    /\ UNCHANGED <<lock, inGuest, ipi, pinned, want, caller, late, streak, exiting>>

AskHost(c) ==
    /\ pc[c] = "handle" /\ rest[c] = "proxy"
    /\ Goto(c, "call")
    /\ rest' = [rest EXCEPT ![c] = "leave"]
    /\ UNCHANGED <<lock, inGuest, ipi, pinned, want, caller, late, streak, exiting>>

\* Bug: one abort too late.
ParksAbove(c, n) == c # Boot /\ c # pinned /\ n > Threshold

\* Bug: the pinned CPU is the one that is parked.
ParksPinned(c, n) == c # Boot /\ c = pinned /\ n = Threshold

\* A storm is detected when the count of aborts at one ELR is the threshold.
Parks(c, n) == c # Boot /\ c # pinned /\ n = Threshold

\* The count of an abort at the ELR of the last one, and at another.  The
\* model's count stops one past the threshold, where the code goes on counting.
Counts(c) == {1, IF streak[c] > Threshold THEN streak[c] ELSE streak[c] + 1}

\* An abort on an unmapped address.
Abort(c) ==
    /\ pc[c] = "handle" /\ rest[c] = "abort"
    /\ rest' = [rest EXCEPT ![c] = "leave"]
    /\ \E n \in Counts(c) :
          IF Parks(c, n)
          THEN /\ exiting' = exiting \cup {c}
               /\ streak' = [streak EXCEPT ![c] = 0]
               /\ Goto(c, "leave")
          ELSE /\ streak' = [streak EXCEPT ![c] = n]
               /\ Goto(c, "call") /\ UNCHANGED exiting
    /\ UNCHANGED <<lock, inGuest, ipi, pinned, want, caller, late>>

\* hv_tick finds the host waiting, or the hypervisor's own timer or the counters
\* of the cluster have expired, or neither.
Tick(c) ==
    /\ pc[c] = "handle" /\ rest[c] = "fiq"
    /\ rest' = [rest EXCEPT ![c] = "ipi"]
    /\ Goto(c, "call") \/ UNCHANGED pc
    /\ UNCHANGED <<lock, inGuest, ipi, pinned, want, caller, late, streak, exiting>>

TakeIpi(c) ==
    /\ pc[c] = "handle" /\ rest[c] = "ipi"
    /\ ipi' = ipi \ {c}
    /\ rest' = [rest EXCEPT ![c] = "leave"]
    /\ Goto(c, "after")
    /\ UNCHANGED <<lock, inGuest, pinned, want, caller, late, streak, exiting>>

(***************************************************************************)
(* hv_exc_proxy, _hv_exc_proxy and hv_maybe_switch_cpu.                    *)
(***************************************************************************)
\* hv_exc_proxy waits while another CPU is pinned or being switched to.
Blocked(c) == (pinned # None /\ pinned # c) \/ want # None

\* One test of the loop in hv_exc_proxy: a switch to this CPU is served first.
Call(c) ==
    /\ pc[c] = "call"
    /\ \/ /\ want = c
          /\ want' = None /\ Goto(c, "proxy")
          /\ caller' = [caller EXCEPT ![c] = "call"]
          /\ UNCHANGED lock
       \/ /\ want # c /\ Blocked(c)
          /\ lock' = None /\ Goto(c, "wait")
          /\ UNCHANGED <<want, caller>>
       \/ /\ ~Blocked(c)
          /\ Goto(c, "proxy")
          /\ caller' = [caller EXCEPT ![c] = "after"]
          /\ UNCHANGED <<want, lock>>
    /\ UNCHANGED <<inGuest, ipi, pinned, rest, late, streak, exiting>>

\* Bug: the loop goes on without the lock.
WaitEndsUnlocked(c) ==
    /\ pc[c] = "wait" /\ ~Blocked(c)
    /\ Goto(c, "call")
    /\ UNCHANGED <<lock, inGuest, ipi, pinned, want, caller, rest, late, streak, exiting>>

\* The inner loop ends on what it reads without the lock.
WaitEnds(c) ==
    /\ pc[c] = "wait" /\ ~Blocked(c)
    /\ Goto(c, "recall")
    /\ UNCHANGED <<lock, inGuest, ipi, pinned, want, caller, rest, late, streak, exiting>>

\* One test of the loop in hv_maybe_switch_cpu.
MaybeSwitch(c) ==
    /\ pc[c] = "after"
    /\ \/ /\ want = c
          /\ want' = None /\ Goto(c, "proxy")
          /\ caller' = [caller EXCEPT ![c] = "after"]
          /\ UNCHANGED lock
       \/ /\ want \notin {None, c}
          /\ lock' = None /\ Goto(c, "yield")
          /\ UNCHANGED <<want, caller>>
       \/ /\ want = None
          /\ Goto(c, IF rest[c] = "leave" THEN "leave" ELSE "handle")
          /\ UNCHANGED <<want, caller, lock>>
    /\ UNCHANGED <<inGuest, ipi, pinned, rest, late, streak, exiting>>

YieldEnds(c) ==
    /\ pc[c] = "yield" /\ want = None
    /\ Goto(c, "reswitch")
    /\ UNCHANGED <<lock, inGuest, ipi, pinned, want, caller, rest, late, streak, exiting>>

Started == {c \in Cpus : pc[c] # "off"}

\* hv_rendezvous: nothing to do with an empty mask, else an IPI to every CPU.
Rendezvous(c) ==
    /\ pc[c] = "proxy"
    /\ \/ inGuest = {} /\ Goto(c, "host") /\ UNCHANGED ipi
       \/ inGuest # {} /\ Goto(c, "gather") /\ ipi' = ipi \cup (Started \ {c})
    /\ UNCHANGED <<lock, inGuest, pinned, want, caller, rest, late, streak, exiting>>

Gathered(c) ==
    /\ pc[c] = "gather" /\ inGuest = {}
    /\ Goto(c, "host")
    /\ UNCHANGED <<lock, inGuest, ipi, pinned, want, caller, rest, late, streak, exiting>>

\* The host takes milliseconds over its link: by then the CPUs that spin without
\* the lock have read the values that were there when it was asked.
Noticed == \A c \in Cpus : /\ pc[c] = "wait" => Blocked(c)
                           /\ pc[c] = "yield" => want # None

\* uartproxy_run returns EXC_RET_HANDLED and the time it took is stolen from
\* every CPU.  Before that the host may have pinned a CPU, or switched to one.
\* Its other two answers end the guest, and what is modelled here with it.
HostReturns(c, pin, switch) ==
    /\ pc[c] = "host" /\ Noticed
    /\ pinned' = pin /\ want' = switch
    /\ ipi' = IF switch = None \/ inGuest = {} THEN ipi ELSE ipi \cup (Started \ {c})
    /\ late' = {d \in Cpus : pc[d] \in {"out", "guest"}}
    /\ Goto(c, caller[c])
    /\ caller' = [caller EXCEPT ![c] = "after"]
    /\ UNCHANGED <<lock, inGuest, rest, streak, exiting>>

Step(c) ==
    \/ Acquire(c) \/ Exit(c) \/ Enter(c)
    \/ Emulate(c) \/ AskHost(c) \/ Abort(c) \/ Tick(c) \/ TakeIpi(c)
    \/ Call(c) \/ WaitEnds(c) \/ MaybeSwitch(c) \/ YieldEnds(c)
    \/ Rendezvous(c) \/ Gathered(c)
    \/ \E pin \in Pins \cup {None}, switch \in (Switches \cap Started) \cup {None} :
          HostReturns(c, pin, switch)

Next ==
    \E c \in Cpus :
       \/ Sync(c) \/ Fiq(c) \/ CpuOff(c) \/ FiqExits(c)
       \/ Step(c)

Spec == Init /\ [][Next]_vars

\* A CPU in the hypervisor goes on, and a CPU that returns to the guest again and
\* again is in the end interrupted by its pending tick.  bhl is a spin lock: of
\* the CPUs that spin for it nobody is promised it, unless it stays free.
Fairness ==
    \A c \in Cpus : WF_vars(Step(c)) /\ SF_vars(Fiq(c) \/ FiqExits(c))

FairSpec == Spec /\ Fairness

(***************************************************************************)
(* Properties.                                                             *)
(***************************************************************************)
Locked == {"handle", "call", "proxy", "gather", "host", "after", "leave"}

\* At most one CPU is in the serialised part of a handler, although the two
\* loops give the lock up in the middle of it and take it again: whoever is
\* there holds bhl, and nobody else does.
OneOwner == \A c \in Cpus : pc[c] \in Locked <=> lock = c

\* A CPU that traps again and again and not in a storm: for something else than
\* an abort, or for an abort at a new ELR.
Busy(d) ==
    \/ []<>(pc[d] = "handle" /\ rest[d] # "abort")
    \/ []<>(pc[d] = "call" /\ streak[d] = 1)

\* Although the lock is not fair, a CPU that aborts forever at one ELR cannot keep
\* the others from it (the wedge that hv_handle_dabort parks the CPU for), and
\* rendezvous, the two waits and the lock do not hold each other up: once the host
\* leaves the CPUs alone, a trap ends in the guest or in the parking loop, unless
\* another CPU traps forever for good reasons and keeps winning the lock.
TrapReturns ==
    <>[](want = None /\ pinned = None) =>
        \A c \in Cpus :
           \/ pc[c] = "entry" ~> pc[c] \in {"guest", "off"}
           \/ \E d \in Cpus \ {c} : Busy(d)

\* A switch the host asks for is served by the wanted CPU, whatever it is doing:
\* in the guest without an IPI, at the lock, in either loop, behind a pinned CPU.
\* The exceptions are a CPU that has been told to leave the guest, and one that
\* already spins in hv_exc_proxy, whose inner loop does not look for itself.
SwitchServed ==
    \A c \in Switches : want = c /\ pc[c] # "wait" ~> want # c \/ c \in exiting

\* A CPU that aborts at one ELR again and again asks the host less than Threshold
\* times and is then told to leave, whatever other traps come between its aborts,
\* if it is neither the boot CPU nor ever pinned.
StormBounded == \A c \in Cpus \ (Pins \cup {Boot}) : streak[c] < Threshold

\* "Get all the CPUs into the HV before running the proxy, to make sure they
\* all exit to the guest with a consistent time offset" (_hv_exc_proxy): a CPU
\* runs the guest only with the current offset, unless an IPI is about to fetch
\* it.
SameTime == \A c \in Cpus : pc[c] = "guest" /\ c \notin ipi => c \notin late
=============================================================================
