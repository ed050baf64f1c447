# TLA+ models of NWOAS

NWOAS boots Windows 11 ARM64 on a Mac mini M1 as a guest of the m1n1 hypervisor
(EL2). Most of the repository is a record of that bring-up: launch scripts,
evidence, patches to third-party code. The logic that is its own, and that has
to be right for Windows to keep running, is small: a synthetic NVMe controller
and its interrupt delivery inside the hypervisor, the page tables through
which the guest's memory and registers are mapped, the way CPUs enter and leave
the hypervisor, the bring-up of the display before the guest is entered, what was
added to the UEFI firmware that starts Windows, and three protocols through which
a second Mac serves the guest over a RAM disk. This directory models that logic,
checks it with TLC and proves its safety properties with TLAPS.

All paths below are relative to `src/NWOAS/nwoas_scripts/`.

## 1. The system

    Windows (8 CPUs)                      second Mac (Python)
      NVMe driver   worker, clients         mailbox, upload, delivery
         |  MMIO         |  files on NS2            ^
    -----v---------------v-----------------------   |  HV_NWOAS_NVME_LINK
      control registers -> frontend -> admin ring   |  (rendezvous, one
             |                |           |         |   request at a time)
             |             adapter --- data path ---+--> internal SSD (ANS)
             |                            |
             +--------> interrupt level --+--> vGIC List Registers -> guest

Everything in the hypervisor runs under one big lock (`bhl`), on whichever CPU
trapped. What is not serialised by it: the guest's other CPUs, which go on
reading and writing queue memory; the host, to which a request is handed while
the lock may be given up; the senders of SGIs; and of course every failure.

| Component | State | Operations | Talks to |
|---|---|---|---|
| Admin interpreter, `native-s226/admin_state.c`, `native-s225/admin_payload.c` | I/O queue descriptors with 64-bit generations, held AER, features | execute one 64-byte command, reset | cache policy callbacks |
| Admin ring, `native-s227/admin_ring.c` | depths, four cursors, pending, phase, active, fatal | init, reset, configure, tail, ack, poll | guest memory; reconcile/pending/fault callbacks |
| Control registers, `native-s209/model.c` | CC, CSTS, AQA/ASQ/ACQ, mask, PCI command, pending | register and PCI reads and writes | setup/reset/flush/irq callbacks |
| Frontend, `native-s228/frontend.c` | io_pending, backend_fault, control_busy | write, read, poll, io_pending, fault, reset | composes the three above |
| Adapter, `native-s230/adapter.inc` | reconciled generations, cache policy | MMIO dispatch, reconcile, reset_io, flush, irq, tick | frontend above, data path below |
| Data path, `nvme-s208/hv_vm-s208.c` | armed, faulted, deferred, cursors, truncated generations, lifecycle epoch, link_busy | arm/disarm, SQ and CQ doorbells, process, tick, NS2 rendezvous | SSD, host |
| Stage-2 tables and emulation, `nvme-s208/hv_vm-s208.c` | the tree of blocks, pages and 4-byte words | map hardware, software or a hook, unmap; walk; emulate an access that aborts | all CPUs' table walkers; memory and hooks |
| Interrupt delivery, `nvme-s208/hv_exc-s208.c` | 8 List Registers, three 32-deep queues per CPU, AIC masks | return to guest, IRQ (device, maintenance), FIQ (tick, IPI), SGI write | guest, AIC, other CPUs |
| CPU entry, `nvme-s208/hv_exc-s208.c`, abort storms in `nvme-s208/hv_vm-s208.c` | big lock, mask of CPUs in the guest, pinned and wanted CPU, stolen time, abort counts | trap, FIQ, leave, ask the host, wait, switch, park | all CPUs, host |
| Display hook, `display-s190/`, `tahoe_afk_link.py` | rings and mailbox of the display coprocessor (DCP), chosen mode, geometry in the boot arguments | wait for a display, choose, commit a surface, settle, commit again, enter the guest | DCP, display |
| UEFI additions, `firmware-s216/`, `loader-s215/` | copies of boot arguments and device tree; clock seed; wrapper over GetMemoryMap and kept extent | place, copy, reserve; read the PMU; select the P-state; answer GetMemoryMap | loader, PMU bus, clock controller, boot loader |
| Job mailbox, `transport-s123/`, `memory-s180/link_module.py`, `worker-s177/nwos.c` | token, ack, last frame, job, completed set, log files; the worker's token and sequence | queue a job, read and write one sector, run | files of the session, NS2 |
| File upload, `file-upload-s169/` | partial file, hash, sequence, done/failed; the client's position | BEGIN, DATA, END, acknowledgement | files of the host, NS2 |
| File delivery, `file-delivery-s168/` | latched request, response window; partial and final file | request, read window, write, verify, rename | files of Windows, NS2 |

### What is hard in it

* **Shared memory without a lock.** The driver reads completion entries while
  the ring is writing them, on another CPU.
* **The same fact in several places.** The interrupt level is recomputed by
  callbacks from cached bits; "faulted" exists three times; a queue's identity
  exists as full and as truncated generation.
* **State kept across a wait.** An NS2 request leaves the controller for as long
  as the host takes; the queues it came from may be gone when it returns.
* **Work that nobody starts.** Acknowledging completions frees room but runs
  nothing; an IPI may be cleared unseen; an interrupt put in a queue needs an
  EOI of another one.
* **Tables in use while they change.** `hv_map` splits blocks and pages and frees
  tables in a tree that every CPU is walking.
* **Everyone waits on everyone.** The holder of the big lock waits for all CPUs
  to leave the guest while they wait for the lock; two loops give it up in the
  middle of a handler for a pinned or wanted CPU.
* **Devices that answer late, or somebody else.** The firmware reads a clock over
  a bus it does not own and requests an operating point from a controller that
  may still be in transition.
* **Repetition and restart.** Windows repeats writes, worker and host restart
  independently, files fail to be written, and people queue jobs by hand.

`PROJECT.json` lists these as hazards, line by line, with the properties that
watch over them.

## 2. Modules

| Module | Models |
|---|---|
| `AdminState` | the admin interpreter, as constant operators on its state |
| `AdminRing` | the ring engine, one step per access to guest memory, a driver on another CPU, and the refinement mapping to `AdminQueue` |
| `AdminQueue` | what a queue pair promises: an abstract specification without rings |
| `NvmeFrontend` | control registers, frontend, adapter and data path composed; extends `AdminState` |
| `VgicDelivery` | interrupt delivery on one CPU |
| `StageTwo` | the stage-2 page tables, one step per store |
| `MmioEmulation` | how an aborted access is cut into aligned ones; extends `StageTwo` |
| `CpuEntry` | CPUs entering and leaving the hypervisor, the lock, the rendezvous with the host |
| `DisplayHook` | the hook that brings up the display, its link to the DCP, and the display |
| `Handoff` | placement, copies and reservation of boot arguments and device tree |
| `SeraRtc` | the UEFI clock: PMU, bus, seed, GetTime |
| `CpuPstate` | the P-state routine and the clock controller |
| `HideHighRam` | the wrapper over GetMemoryMap and the boot loader |
| `FirmwareBoot` | the five above in the order of a boot; extends them |
| `JobMailbox` | host, storage stack and worker of the job mailbox |
| `FileUpload` | receiver and clients of the upload channel |
| `FileDelivery` | channel and clients of the download channel |
| `AdminStateProofs`, `AdminRingProofs`, `NvmeFrontendProofs` | TLAPS proofs about the NVMe modules |
| `HypervisorProofs` | TLAPS proofs about `CpuEntry`, `VgicDelivery`, `StageTwo` and `MmioEmulation` |
| `JobMailboxProofs`, `FileUploadProofs`, `FileDeliveryProofs` | TLAPS proofs about the host protocols |
| `FirmwareBootProofs` | TLAPS proofs about `FirmwareBoot` and its five parts |
| `MC...` | instances for TLC: command sets, sources, machines, offers |

Operators with a comment "Bug:" and those whose names extend the name of their
neighbour (`HasWorkStingy`, `ClearCursorsKeepPhase`, ...) are not part of any
specification. They are wrong variants of the definition they stand before, and
record for each property a change of the code that it notices
(`PROJECT.json`, "mutants").

### AdminState, AdminRing

A command is the record of the distinctions `nwoas_admin_execute` makes: opcode
class, identifier, whether its operand checks pass, operand. `Status`,
`Changed`, `Execute`, `Deferred` and `Result` are the five outputs of the
function. The ring's variables are the fields of `struct nwoas_admin_ring`;
`cache` and `owner` stand for what is behind the callbacks. `owner` holds the
generations of the last reconciliation that was accepted. `RingReset` moves the
generations on and leaves it alone, as `nwoas_ring_reset` and `s229_reset_io` do,
so `OwnerAgrees` is about the queues that exist. `Configure` finds completion
memory that the driver has zeroed, which NVMe asks of it.

`nwoas_ring_poll` is cut at each access to guest memory: `Fetch` reads the
entry, executes it, moves the head and reconciles; `WritePayload`, `WriteBody`
and `WriteStatus` are the stores; `EndServe` is the loop's exit. Each store and
each callback may fail, and `Fail` ends the handler where it is. `DriverSubmit`
and `DriverConsume` need no lock and interleave with these steps. With
`DriverCorrect` the doorbells carry the driver's own cursors; without it, any
number up to `MaxDepth`, one more than any valid one.

The status word in memory carries two fields the code does not have: `for`, the
command it completes, and `data`, that it promises a payload. They are written
with the word and only the properties read them.

### NvmeFrontend

One action per register write, doorbell, tick and return of the host, each the
whole handler with everything it calls. What a device or a memory access answers
is a parameter (`flushed`, `mapped`, `stored`, `valid`, `outcome`). The admin
ring is reduced to active, fatal and pending, and takes one command per action,
because between two commands of one poll nothing of the frontend can run.

`ProxyMayYield` lets other handlers run while `link.busy`. native-s230/README.md
asks for "no CPU pin/switch during NS2 calls", and `hv_exc_proxy` gives up the
lock for a pinned CPU; the staleness test after the rendezvous is in the code
for that case, and `NoStaleCompletion` checks that it is sufficient. The guest
may write CC with any width, clear SHN and move the tail backwards. `kept` is a
ghost: since the last reset the guest has done none of this. The four properties
that a guest can only claim for itself if it keeps these rules say so with it;
all others hold for every guest.

`link.fresh` is not in the code: it is what the staleness test has to decide.
The full 64-bit generations wrap in the model after four changes, and are
truncated to one bit instead of twelve, so that truncated generations agree
again after two changes, as in the code after 4096.

### VgicDelivery

One action per handler: `ReturnToGuest` is `hv_update_fiq` on the way out of any
trap, `Maintenance` and `DeviceIrq` are the two halves of `hv_exc_irq`, `FiqIpi`
and `FiqExit` the two of `hv_exc_fiq`, split where another CPU's IPI can arrive.
`SgiPush` and `SgiSend` are that CPU. A level is `line`; `open` is the set of
levels that no throttle holds back in this pass (the rate limit of the timers,
the 50 us gap after an NVMe EOI, the polling period of the USB bridges). List
Registers and queues are accessed through functions of m1n1 that are not in this
repository and modelled by their use: inject into the lowest free register,
refuse a push to a full queue. An ended register is neither outstanding nor free
until the maintenance handler clears it. `refused` records lines whose push was
refused; it only weakens `MaskMatchesCopy` by what the code itself prints as
`DROPPED`. The seeded path of the FL1100 bridge is left out because
`NWOAS_LOW_EVENT_SEED` is 0.

### CpuEntry

`pc` is where a CPU is; a handler is cut where it takes or gives up the lock,
where it changes `hv_cpus_in_guest`, and where it reads a variable that another
CPU may change without the lock. `Trap` is the head of `hv_exc_entry` and
`Acquire` its `spin_lock`; `Exit` releases the lock, and `Enter` is the later
`hv_maybe_exit` and the bit in the mask. `rest` is what the handler has still to
do when a host call in the middle of it returns, and `caller` tells the three
calls of `_hv_exc_proxy` apart. `Call`, `WaitEnds`, `MaybeSwitch` and `YieldEnds`
are the two loops that give up the lock. Traps that are served without
`hv_exc_entry` change nothing here. `hv_rendezvous` is known from
`companion-patches/2026-09-07/m1n1_windows/changes.patch`; the panic after its
deadline, and the answers of the host that end the guest, end the model.

The lock is a spin lock: whoever finds it free takes it, and nothing promises a
spinning CPU that it ever does. `TrapReturns` says what can be said without such
a promise: a trap ends, unless another CPU (`Busy`) traps for ever for something
else than an abort at one address. It is the parking of a CPU in a storm that
makes this true; without it the two take turns at nothing, the wedge that the
comment at `hv_vm-s208.c:4225` reports.

`late` is a ghost: the CPUs that loaded `stolen_time` before it changed.
`Noticed` is a timing assumption: the host, over a serial link, is slower than a
CPU that spins on a variable, so a spinning CPU has seen the value before the
host changes it once more.

### FirmwareBoot and its parts

The host runs the hook, then one CPU runs the firmware; what interleaves with
them is the machine: hot-plug edges, answers of the DCP and ticks of the host's
clock between any two steps of the hook; bus words,
replies to others, ticks of the counter between any two steps, transitions of the
clock controller, changes of the memory map between two calls of the boot loader.
The parts follow each other, and each forgets its locals when it is done, so
that a boot is the sum of its phases and not their product.

* `DisplayHook`: `hook.pc` names the command the hook is about to send or waits
  for. `Send`, `Receive` and `GivesUp` are `TahoeLink.command`, with what `work()`
  does to mailbox and ring; `Sampled` and `Wakes` are `wait_for_mode_counts`;
  `Settled`, `Reapply` and `Hold` the rest of `configure_tahoe_display`. Every
  exception is `Abort`: the run ends before the guest began. The DCP is external:
  it takes a request at any time or never, refuses any, and loses power, mode and
  surface with every edge. `calm` is a history variable.
* `Handoff`: `LayoutAccepts` and `RangeAccepts` are the two range policies, with
  sums that wrap at `Wrap`; `Copies` is the order of the two copies. A byte is
  identified by its original address, so a copy that was overwritten shows.
* `SeraRtc`: `Command`, `Poll` and `Check` are `nwoas_sera_read_reg`; `Seed` the
  checks after it. `clock` fixes the truth that `TimeHonest` compares with. The
  echo in a reply names opcode and slave and not the register; a foreign reply
  with the same two is assumed away (remark below).
* `CpuPstate`: `WaitIdle`, `Write` and `Verify` are one access each. The
  controller may refuse, put the old request back, or lose a protected bit.
* `HideHighRam`: `WrappedGetMemoryMap` on sets of descriptors of a small memory.
  `Change` allocates or frees a page at any time, `NextOption` is a boot option
  that fails, after which ReadyToBoot comes again.

### StageTwo, MmioEmulation

The tree is a function from L2 entries to entries, and a table is part of the
entry that points to it. An entry is empty, a hardware mapping, a software
mapping, a hook of the hypervisor, a hook of the host for reads, writes or both
(`ProxyKinds`) or a table. `hv_map` runs as the code lays it out: words to the
next page, pages to the next block, blocks, pages, words (`Part`, with `Chunk`
for the sizes), and each store into a live table is a step: `GetL3` and `GetL4`
publish a filled table, `MapL2`, `MapL3` and `MapL4` write an entry. The tables
below an entry are freed by a step of their own before it (`FreeBlock`,
`FreePage`), as in the code; in between (`freed`) they are still linked, and what
a walk through them finds (`Dangling`) is anything. `MapExact` says which
addresses that can be. `live` counts the tables on the heap. `old` and `wanted` are ghosts:
what every word mapped to before the running call, and what the calls so far
asked for. A hardware block replaces the low bits of an address while all other
entries are added to, which is why `hv_map` writes no block for a target that is
not 32 MB aligned; `InBlock` keeps the difference so that the property notices.
Addresses count words of four bytes. A call that `hv_map` refuses with -1
changes nothing and is not a step. Ranges do not cross `ram_base`, targets are
not 0 (such a software entry would be the empty one), as for all callers. The
host maps its own hooks through the proxy, one id for the whole range; that
caller is not in the repository.

`MmioEmulation` has no state of its own. `HandleDabort` is the sequence of
accesses that an aborted load or store becomes, on each tree that `StageTwo`
reaches, up to the one of number `n`, which fails if it can: memory may abort and
a hook of the hypervisor refuse (`MayFail`), a hook of the host cannot. A failure
in the first half of an access that straddles two pages leaves out the second
half. What a hook did before it refused is its own affair and is not told.
`hv_emulate_rw` walks once per page and uses the entry of the first
word for the whole access; the property is therefore about accesses whose bytes
on one page are mapped alike (`Uniform`), and an access across two hooks of one
page is served by the first.

### JobMailbox, FileUpload, FileDelivery

These model both ends of a protocol, and nothing is shared between the ends
except the sectors they read and write. A frame is the record of the fields the
receiving side compares; magic numbers, CRCs and zero tails hold for every frame
the sending side can build and are left out. A hash is the sequence of what was
hashed. A write of Windows is executed or not, reported or not, and in the
mailbox repeated by the storage stack. File operations of the host fail before,
in the middle of, and after their effect where the code can tell the difference.
A restart of the host gives a new token and a new session directory (every
launcher derives `NWOAS_LINK_DIR` from a new log name), and keeps the files of
the two file channels.

The mailbox has any number of worker processes: nothing keeps Windows from
starting `nwos.c` twice (share mode 3, no mutex). `joined`, `ran` and `sent` are
history variables. `Alone` says that the session has answered the hello of one
worker; `RunsOnce` and `LogIsFaithful` hold under it, and remark (i) of section 5
tells what happens otherwise. An append to the log that writes everything and
raises when the file is closed is not modelled.

In the handoff, the image that the loader copies to `fd` stands for its own
bytes: `Load` writes nothing else, since the sources of the copies lie below the
loader's heap and the image above it.

## 3. Runs

| Run | Instance | States | Shows |
|---|---|---|---|
| `admin_ring` | depths 2 and 3, three identifiers, a data and a queue command, two AERs, correct driver, every failure | 704,222 | completions are whole, unique, in order; owner, counts and phase bits stay exact; the engine implements `AdminQueue`; fatal is silent; every command completes |
| `frontend` | I/O depth 3, admin depth 2, any guest, handlers run during NS2 requests | 669,264 | the four layers agree on interrupt, arming, cursors, wakeups and shutdown; no answer reaches queues it does not belong to; backlogs drain |
| `frontend_fault` | violation | | finding 1 |
| `vgic` | 2 registers, queues of 2, one timer, NVMe, one line, one SGI | 56,880 | nothing is duplicated, stranded or left masked; timers and SGIs arrive |
| `vgic_dedup` | violation; the USB levels | | finding 2 |
| `cpu_entry` | 2 CPUs, threshold 2, the host pins the boot CPU and switches to both | 81,168 | one owner of the lock, a trap returns unless others trap for ever, switches are served, storms are bounded |
| `cpu_time` | violation; 3 CPUs | | finding 3 |
| `mailbox` | 2 workers, 2 jobs, 1 chunk, 2 sessions, 1 repetition, one operator | 580,219 | with one worker let in a job runs once and its log is exact and complete; a job reports |
| `upload` | 2 clients, 2 chunks, 2 sources, 2 sessions, 3 attempts | 91,482 | only the registered file is published, nothing is replaced or lost |
| `delivery` | 2 clients, 5 bytes in responses of 2, 2 sessions, 3 attempts | 10,418 | the partial file is a prefix at every step, and every client comes to an end |
| `stage_two` | 4 blocks of 2 pages of 2 words, 7 ranges, 3 calls, 16 accesses, each failing at every part | 542,684 | no store shows a walker a wrong translation outside a freed table, no table leaks, emulated accesses reach what is mapped and stop where they fail |
| `firmware` | 3 edges of a display, waits of 2 ticks and commands of 3; 5-bit addresses, 6-bit counter, 4 ticks a second, 12 pages, 1 change, 1 failing option | 510,152 | a scanned-out surface that the guest knows, copies intact, time and P-state honest, map exact, Windows starts |

The mutants in `PROJECT.json` show for each property one change of the code that
breaks it in the same run.

### Bounds

Rings of depth 2 and 3 include the smallest legal ring (one usable slot), laps
of both parities, unequal submission and completion depths, and a backlog behind
a full completion queue; a ring of another depth adds slots in the same states,
and the proofs cover all depths. Three identifiers let two commands and a held
AER be in flight together and a second AER be refused. Two List Registers with
one timer keep the relation that matters (timers alone do not fill the
registers), with three competing sources so that both registers and a queue of
two fill up. Two sessions let an old worker or client meet a new host; two
workers can join at the same time or one after the other, and each may die and
start again; two jobs let a job follow a completed one. One chunk of output a job
does not tell orders apart within a job, but between two; the proofs cover every
number of workers, jobs and chunks. A response of 2 bytes and a file of 5 give two full responses and a short
one. Two clients are enough for one to disturb the other. Two entries per table
are a first and a last one, and three calls build a table, split it further and
replace it; the ranges begin and end at every alignment, and the proofs cover
every size and every range. Accesses of 4 and 8 bytes are aligned, inside a word,
across words and across pages; the wider ones need more than the 8 bytes of a
page, and are left to the proof. Two CPUs are enough for
each wait of `CpuEntry` (one holds, pins or is wanted, the other waits), and the
proofs cover every number; a threshold of 2 is the least that counts. For
the display, three edges are a cycle that nobody sees and a change of the lists;
a wait of 2 ticks and a command of 3 keep the order of 8 s and 10 s, with a poll
before, at and after the deadline. In the
firmware the machines of `MCFirmwareBoot` put sources before, across and behind
the place of the copies and let sums wrap; a counter of 6 bits with four ticks to
a second wraps, goes negative and reaches the last year within the clocks given;
two polls and two waits are one that is repeated and one that is the last; six
or eight pages of RAM with four kept have the boundary inside, at the end of and
outside free memory. All bounds are CONSTANTS of the modules; none is written
into an action.

`CHECK_DEADLOCK FALSE` is used by the three host protocols, which end (all
clients have stopped, or the worker is dead and no session is left), by
`stage_two`, which ends after its last call, by `firmware`, which ends with the
operating system, in `CpuDeadLoop` or with an exception of the hook, and by `cpu_entry`, because the wait of
remark (a) below really stops the machine.

### Fairness

* Handlers of the hypervisor run to their end: they hold the lock and do not
  wait (`WF` on `HandlerStep`, on the return from an NS2 request, which the
  host's `finally` path always answers).
* The 5 kHz tick recurs: `WF` on `Poll`, `Tick` and on the return to the guest
  with every throttle expired, each being a comparison with a clock.
* A pending interrupt is taken: `WF` on `FiqIpi`, `SF` on `Maintenance`, which
  is repeatedly disabled while an IPI is being handled.
* The driver rings the doorbell for what it queued, reads what it sees and
  acknowledges it; the guest takes and ends interrupts. These are assumptions on
  Windows without which nothing can be said.
* Windows completes reads and writes of the clients, one way or the other. The
  worker's reads of the mailbox are made and succeed unless the host raises or
  has another token; a read that could succeed may fail, and nothing makes it.
* A CPU in the hypervisor goes on (`WF` on `Step`), and takes a lock that stays
  free; of a lock that is taken and released again and again it is promised
  nothing. A CPU that runs the guest is in the end interrupted by its own tick
  (`SF` on the FIQ: the timer stays pending while the CPU goes in and out of the
  guest).
* The hook, the firmware and the boot loader take their next step, and the host's
  monotonic clock advances. Nothing is assumed of the display, the DCP, the bus, the counter and the clock controller: `BootCompletes` must hold when they
  are silent.
* No fairness is assumed of operators, restarts, repetitions, failures, resets
  or of the submission of new work.

## 4. Proofs

TLAPS checks the following for every value of the constants that the named
assumptions of the modules allow; TLC evaluates the same assumptions in the runs.
Each proof has an invariant that is inductive, a lemma per action (or per group
of actions that touch the same state), and lemmas about the operators below
them. The invariants were first checked with TLC on the instances of section 3.

### AdminRingProofs

For every `MaxDepth >= 2`, set of identifiers and commands, and `GenModulus >= 2`,
with a driver that keeps no rule:

* `TypeCorrect`, `SlotAlwaysReserved`: `TypeOK` is not inductive. `pending` keeps
  its range when `WriteStatus` increments it only because the slot that `CanTake`
  saw free is still free, several steps after the test.
  `RingType == TypeOK /\ SlotReserved` is inductive: between the fetch and the
  publication no acknowledgement can *raise* `pending`, and no reset can
  deactivate the ring, since both wait for `pc = "idle"`. `AdvanceIs` and
  `DistanceIs` replace the remainder by a case distinction once, so that no later
  step reasons about `%`.
* `PendingAlwaysExact`, `PhaseAlwaysDisciplined`: inductive relative to
  `RingType`. The interesting step is `WriteStatus` at the last slot, where every
  entry changes from "below the tail" to "not yet written in this lap" at the
  moment the phase flips.
* `OwnerAlwaysAgrees`: a reset leaves the owner behind but no queue for it to be
  behind of; a command that makes a queue is reconciled in the same step, and a
  reconciliation that is refused makes the ring fatal in it.
* `FatalAlwaysSilent`: an action property; `FatalIsLow` adds that a fatal ring has
  withdrawn its interrupt, and `FatalCases` that it runs no handler.

With a driver that rings doorbells with its own cursors (`DriverCorrect`, the
hypothesis of the two theorems, which the run `admin_ring` satisfies):

* `CompletionsAlwaysTrue`. The driver and the engine know each other's cursors
  only from an earlier moment. `DriverInv` says in which order the six cursors
  lie around the two rings (`CursorOrder`), that the submission heads reported in
  unread completions are in order and not ahead of the engine (`HeadsReported`),
  that what is unread is whole (`Whole`), and that an identifier is in one place
  only: queued, in execution, unread, or held (`OnePlace`).
* `RingImplementsQueue`: `Spec => ImplementsQueue`, the safety part of
  `AdminQueue` under the mapping in `AdminRing` (`QueueNow`, `WorkNow`,
  `DoneNow`). The abstract queues are stretches of the rings between two cursors.
  `StretchTail` and `StretchAppend` say what moving a cursor does to a stretch;
  `StepSimulates` goes through the actions: a fetch takes the head of the abstract
  queue, the store of the status word appends to the abstract completions, the
  stores before it and the doorbells are stutters.

Assumptions: `CidsAssumption`, `GenAssumption`, `CommandsAssumption`,
`DepthAssumption`, `DriverAssumption`. `AdminStateProofs` holds the lemmas about
the admin interpreter that this module and the next one share.

### NvmeFrontendProofs

For every depth, command set, modulus of the truncated generations, guest, and
with or without handlers running during a request (`FrontendAssumption`):
`TypeCorrect`, `InterruptIsTrue`, `ArmedIsExact`, `IoRingIsExact`,
`WakeupsAreKept`, and the action properties `NoStaleCompletionHolds` and
`ShutdownQuiescesHolds`. No one of these is inductive without the others. `Inv`
is their conjunction with

* `Cached`: each cached copy (`io`, `pend`, `irq`) is the formula it caches;
* `Failures`: a failed ring or backend shows in CSTS.CFS, so that a level that is
  low for a failure is low for a reason the guest sees;
* `Descriptors`: a disabled controller has no queues, the owner holds the
  generations of the queues that exist, a queue that does not exist is empty;
* `Shutdown`: an armed path has CC.SHN clear, and a finished shutdown has no
  request out;
* `Request`: a request that is out has its completion slot reserved, and a path
  that stayed armed in the same epoch is still the path of its queues. This is
  why truncated generations suffice for the staleness test.

### HypervisorProofs

About `CpuEntry`, for every set of CPUs, threshold of at least 2 and choice of
CPUs the host pins and switches to (`CpuAssumption`):

* `AlwaysOneOwner`: `Owner` adds the ranges of `pc`, `lock` and `caller`; without
  the last, `HostReturns` could go on anywhere.
* `StormAlwaysBounded`, with `pinned` in `Pins` or none: the equality with the
  threshold is never jumped over because the count of an unpinned CPU rises by
  one at a time and is below it.

About `VgicDelivery`, for every number of List Registers, queue size and finite
set of sources (`VgicAssumption`: the timers alone do not fill the registers):
`VgicTypeCorrect`, `OneAlwaysOutstanding`, `QueueNeverStranded`,
`MaskAlwaysMatches`. `VgicInv` says which interrupts each queue can hold (`Well`),
that a timer and the NVMe level have at most one place (`Single`), that a device
line is masked exactly while its interrupt has one (`DeviceOk`), and that a free
register and a waiting interrupt do not meet (`NoneWaits`). Counting copies is
replaced by "any two places are equal". The drain of a queue moves several
interrupts at once: `RankIs` shows that free registers are numbered once each,
and `DrainIs` gives for every place after the drain the one it comes from (`Was`),
injectively.

About `StageTwo`, for every number of blocks, pages and words, every place of
guest RAM and hypervisor, every set of ranges and targets that callers can give
(`StageTwoAssumption`), and any number of calls:

* `MapAlwaysExact`: after each single store and free a walker that does not meet a
  freed table finds for every word that the
  running call has not come to what it mapped to before, and for every other word
  what the newest request asked for. `StageInv` says
  that the tree has its shape (`Tree`; a hardware block has an aligned target),
  that what is left of the running call is a legal request, that the part of
  `hv_map` that runs has the alignment it relies on (`Alignment`), that tables are
  freed only when the next step overwrites the entry above them (`FreedNext`), and
  the property itself (`Exact`). The alignment is what bounds the window: the
  words below a freed table are a whole page or block of what is left of the call
  (`DanglingLeft`). A new
  table maps what the entry it replaces mapped (`GetL3`, `GetL4`), also when that
  was a block, whose low bits are replaced and not added to. An earlier version,
  which TLC had accepted, claimed that the last words of a call begin a page;
  with more than two words to a page this is false after the first store, and
  the conjunct is gone.
* `TablesAlwaysAccounted`: `live` is the number of L3 and L4 tables of the tree
  less, while they are freed and linked, those below the entry that comes next
  (`Accounted`, `Unlinking`), given `StageInv`: a table that is published is
  counted once, `FreeL3` is the number of tables below the entry, and the store
  that follows removes just these.

About `MmioEmulation`, for every set of loads and stores of 1 to 64 bytes that
begin at an address the tables have an entry for (`MmioAssumption`):

* `EmulationAlwaysExact`: on every tree that is reached, in both directions and
  for every number of the access that fails. Operations are `Traced`
  when they serve the bytes from an offset to an offset one after the other, each
  byte at the place its own address maps to, and those to a hook aligned. Traces join (`JoinTraces`), and the
  two pages of an access that crosses a boundary give two traces; what is done
  before a failure is the front of a trace, and shorter than the access
  (`PrefixTraces`). `Split` and
  `FlattenSeq` are recursive functions. That a function with the equation of
  `Split` exists is shown by extending one by a byte at a time (`RunsExist`),
  and what it computes by a least counterexample. As in the property, the bytes of an
  access on one page are mapped alike (`Uniform`).

### JobMailboxProofs

For every set of workers and number of jobs, sessions, chunks and repetitions
(`MailboxAssumption`):
`TypeCorrect`, `JobsRunOnce`, `LogAlwaysFaithful`. `Inv` adds what ties workers
and host together although each may restart: the frame on the wire carries the
worker's token, sequence number and job (`FrameOk`); nobody gets past a greeting
that was not answered (`Member`); until one is let in the session is empty
(`Admission`). Of a session that has let in one worker, it adds that its hello,
once acknowledged, was the first frame (`Greeted`), that it has started every job
the host knows of, and that all its output but the chunk on the wire is in the
log (`Serving`). What a second worker that was let in makes of these is not
restricted, but no step of any worker turns a session that let in two back into
one that let in one.

### FileUploadProofs, FileDeliveryProofs

For any number of clients and every file (`UploadAssumption`,
`DeliveryAssumption`):

* `PublishedIsExactHolds`, `FilesKeptHolds`: while the receiver is open its
  partial file is what it hashed, so a hash that is right means a file that is
  right; a failed write closes it. A client's sequence number follows from its
  kind and offset, which bounds it. The hash is taken to be injective.
* `PartIsPrefixHolds`: at most one run of the client is a writer, and the partial
  file is the first `offset` bytes of its artifact. A response of another offset
  or another client is refused by `ValidWindow`, so that a payload in hand
  is a run of bytes from that offset on (`RunOk`).

### FirmwareBootProofs

* `PstateAlwaysHonest` (`PstateAssumption`): what the routine has read is still
  true when it acts on it (`ReadStillTrue`), although the controller moves on its
  own, because one that is not busy changes only `current`, which is read last.
* `HandoffAlwaysIntact` (`HandoffAssumption`), for every address width, granule
  and machine: from the checks of loader and firmware, whose sums wrap, follow
  unwrapped inequalities (`PlaceIsClear`), and from them that neither copy runs
  over the source of the other.
* `ScanoutAlwaysMatches` (`DisplayAssumption`), for every set of offers: one
  command is out at a time (`OneCommand`); a chosen size fits (`Geometry`); while
  no edge comes, what the DCP has answered well is still so (`Steady`). That a
  best mode exists among the candidates is a well-founded minimum, in the
  lexicographic order of their ranks.
* `TimeAlwaysHonest` (`RtcAssumption`), for every width of the counter: in a transaction only the first words
  still to come can echo its command, and carry an answer of it, since it starts
  and ends on an empty FIFO (`Transaction`); each reading was true at a tick
  between the first command and now (`Readings`); what the conversion accepts is
  the true time less the dropped bit, and a counter that wrapped since the clock was
  set gives a negative sum, which is refused (`ConvertExact`). The
  assumption that the true time stays below 2^48 units of 1/65536 s holds seven
  years beyond the last year the code accepts.
* `SnapshotAlwaysExact` (`MapAssumption`: devices lie between the low window and
  guest RAM, and there is a largest memory), for every memory map and number of
  kept pages. A map `IsMap` of a memory when its descriptors are disjoint, of one
  type each, and cover every page that is not a hole; splitting a descriptor at a
  boundary and hiding one keep this. The free pages below the boundary, on which
  the wrapper decides whether to hide at all, and the pages of the result are
  counted with `PageSum`, a recursive function: the number of pages that the descriptors cover satisfies its
  equation, and two functions that do are equal by a least counterexample. The
  loader asks the wrapper only (`WrapperCalled`), and when it does the extent that
  is kept has been settled (`KeepIs`); what it was given is the image of the live
  map whose key it got, although the live map has changed since.

The proof of `ScanoutAlwaysMatches` found that an earlier `Send` was enabled
after the settle loop had ended; `Commanding` is its guard now.

### What stays with TLC

Every invariant and every action property of a passing run is stated by a
theorem. What no theorem states is liveness: `CommandsComplete`, `BacklogDrains`,
`SgiDelivered`, `TimerDelivered`, `TrapReturns`, `SwitchServed`, `JobReports`,
`ClientEnds` and `BootCompletes`. Fairness and ENABLED are out of the prover's
reach.

The provers cannot use the library's induction theorems, which take an operator
as a parameter. Where a proof needs induction it takes a least counterexample with `WFMin` and
contradicts it.

## 5. Findings

1. **A failed flush is forgotten by the next enable** (`frontend_fault`).
   Writing CC with EN = 0 and SHN set resets and then flushes. If the flush
   fails, `s229_flush` marks the data path faulted and CSTS.CFS is set, but
   `backend_fault` is not; the next EN = 1 reports ready without CFS.
   native-s230/README.md: "Physical backend faults remain terminal until a fresh
   runtime boot."
2. **The USB bridges are not deduplicated while List Registers are full**
   (`vgic_dedup`). The scan behind "dedup: at most one in flight" leaves out
   `irq_queue`, where the bridges put the interrupt in that case.
3. **A CPU on its way into the guest is missed by the rendezvous** (`cpu_time`).
   `hv_exc_exit` loads the time offset, releases the lock, and only then sets its
   bit in `hv_cpus_in_guest`. A host call in between finds the mask empty, and
   the CPU enters the guest with the offset of before it. `hv_exc-s208.c:88`:
   "Get all the CPUs into the HV before running the proxy, to make sure they all
   exit to the guest with a consistent time offset."

Met while modelling, without a run:

* (a) A CPU that spins in the inner loop of `hv_exc_proxy` (`hv_exc-s208.c:162`)
  does not look for `hv_want_cpu` being itself, although the comment at :150 says
  that a switch is handled before the exception. If the host switches to it, all
  CPUs wait. `SwitchServed` leaves this case out. A switch to a CPU that has been
  told to exit is not served either.
* (b) The test for a storm is an equality (`hv_vm-s208.c:4247`); a CPU that is
  pinned while its count passes the threshold is not parked when it is unpinned.
  `StormBounded` is about CPUs that are never pinned.
* (c) The comment at `hv_vm-s208.c:4251` says that `hv_start_secondary` never
  clears the exit flag; `smp-s133/test_source.py:14` expects that it does.
* (d) `queue_job.py:9` asserts "previous task is unfinished; no replacement" on
  what it read, and replaces `job.json` four lines later; two operators that
  both pass the assertion replace each other's job. The model has one.
* (e) A CC write of a width that the control model rejects has by then disarmed
  the data path in the adapter. The controller stays ready and the next SQ1
  doorbell goes to a host hook that raises. `kept` is false from then on.
* (f) The reply check of `nwoas_sera_rtc.c:173` compares opcode and slave. A reply
  to another user's read of another register of the same PMU would pass.
* (g) The loader (`handoff_layout.h`) places a device tree of more than 1 MiB
  that the firmware (`NwoasHandoffRanges.h:13`) then refuses, and halts.
* (h) The second commit programs the timing that was chosen before the hot-plug
  cycle (`tahoe_dcp_guest_hook.py:207`), although the comment at :220 speaks of
  the newly published interface; a display that publishes other modes after the
  cycle is programmed with one it may not have. `ScanoutMatches` is about sizes,
  which stay right.
* (i) `transport.py:91` has "one worker per boot, no implicit task replay", and
  refuses a hello once a worker is connected. Two lines before, a frame equal to
  the last one is answered as its repetition. Two workers that read the sector
  before either is let in send the same bytes, so both are let in, poll the same
  offer and run the job. `nwos.c` opens the disk shared (:122-126) and has no mutex;
  it takes a second start that falls between the first one's read and its hello.
  `RunsOnce` without `Alone` is violated by this.
* (j) `hv_pt_map_l2` and `hv_pt_map_l3` free tables before the store that unlinks
  them (`hv_vm-s208.c:293-296`, `:358-361`). L4 tables are read by software only.
  An L3 table is read by the hardware walkers of the other CPUs too, and if the
  allocator writes into it before the store they translate through what it wrote.
  `hv_map` allocates nothing in between. The comment at `:328` shows that live
  walkers are a concern here. Storing first and freeing afterwards closes the
  window.

## 6. Not modelled

`PROJECT.json` lists every component with the reason. In short: the bytes of
identify pages and PRP lists and the calendar (pure functions of values), the
decoding of emulated instructions, the physical ANS driver (third-party m1n1 code
that is not in the repository), the implementation of the interrupt queues
(likewise; a race of two senders on `sgi_queue` is therefore a hazard without a
property), the Python controller that S230 replaced, helpers that are not part of
the newest hypervisor (`usb-s175`, `usb-s182`), the sleep sequences of the DCP
link, which the hook does not call, and all launch and evidence scripts.

The definitions map a small part of the repository's lines. Most of those lines
are earlier copies: every step of the bring-up keeps its own `hv_vm-*.c` and
`hv_exc-*.c` of four and two thousand lines, with those of `nvme-s208` as the
newest, and its own copy of the firmware sources. Mapping one definition to each
copy would count the same code many times and say nothing new. Of the newest
copies, the large part that is left out is logging, probes and captures of past
experiments, and register emulation without state of its own.

## 7. Plan

Done, in this order: `AdminState` and `AdminRing` with their driver, `AdminQueue`
and the refinement, the first proofs, `NvmeFrontend`, `JobMailbox`,
`FileUpload`, `FileDelivery`, `VgicDelivery`, `StageTwo` and `MmioEmulation`,
`CpuEntry`, `FirmwareBoot` and its five parts; then the proofs of section 4.

What could still be modelled: the restore of `usb-s175` after a readback that
differs, should it be linked in, and the I/O queue memory of the data path, so
that completions are shown whole for it as well.

Of the proofs nothing is left that TLAPS 1.4.5 can express; a version that
reasons about ENABLED could take up the liveness properties, `BacklogDrains` and
`TrapReturns` first.
