------------------------------- MODULE SeraRtc -------------------------------
(* The real-time clock of the UEFI firmware: LibRtcInitialize reads the PMU  *)
(* of the machine once, over a serial bus it does not own, and LibGetTime    *)
(* then advances that snapshot with the physical counter alone.              *)
(*                                                                           *)
(* One tick is both a tick of the physical counter and the unit of the PMU   *)
(* clock; a second is Second ticks, so the part of a time below a second     *)
(* (the 16-bit fraction, the nanoseconds) is a number of ticks.  A status    *)
(* read and what follows it without a loop are one step: a word that arrives *)
(* between the two is as good as one that arrives after them, and a pause of *)
(* the CPU can be at any step.  All three words of a reply carry the value   *)
(* of the whole reply.                                                       *)
EXTENDS Integers, Sequences

CONSTANTS
    Modulus,   \* Where the PMU counter and its offset cell wrap (2^48).
    Second,    \* Ticks of a second: CNTFRQ.
    Deadline,  \* Ticks a transaction may take (a tenth of a second).
    MaxPolls,  \* NWOAS_SERA_MAX_POLLS.
    MaxSpan,   \* NWOAS_SERA_MAX_COUNTER_SPAN.
    UtcMin,    \* First and last second of the years 2000 to 2099.
    UtcMax,
    Clocks,    \* PMU clocks: [counter |-> at tick 0, time |-> true at tick 0].
    MaxTime,   \* Bound: the last tick of the model.
    None

ASSUME RtcAssumption ==
    /\ {Modulus, Second, Deadline, MaxPolls, MaxTime} \subseteq Nat \ {0}
    /\ {UtcMin, UtcMax, MaxSpan} \subseteq Nat
    \* The true time stays below 2^48 units of 1/65536 s: seven years beyond UtcMax.
    /\ \A c \in Clocks : /\ c.counter \in 0 .. Modulus - 1
                         /\ c.time \in Nat /\ c.time + MaxTime < Modulus
    /\ None \notin {"time", "offset", "other"}

VARIABLES
    now,    \* The physical counter, while LibRtcInitialize runs.
    clock,  \* The PMU's clock, a member of Clocks, while it matters.
    spmi,   \* The controller: TX FIFO, words of replies under way, RX FIFO,
            \* and whether the reply of another user of the bus may come.
    rtc,    \* Locals of LibRtcInitialize and of the calls it makes.
    seed    \* mSeed, mSeedNs, mSeedValid.

rtcVars == <<now, clock, spmi, rtc, seed>>

Quiet == [tx |-> None, out |-> <<>>, rx |-> <<>>, stranger |-> FALSE]

Locals(pc) == [pc |-> pc, i |-> 1, words |-> 0, reply |-> None, start |-> 0,
               polls |-> 0, before |-> 0, cntpct |-> 0,
               counter |-> <<None, None, None>>]

Reply(echo, value) == [echo |-> echo, value |-> value]

ThreeWords(r) == <<r, r, r>>

\* Of the bus and the PMU nothing is known before the firmware uses them.
RtcInit ==
    /\ now = 0
    /\ clock = None
    /\ spmi = Quiet
    /\ rtc = Locals("off")
    /\ seed = None

\* The FIFOs may hold what another user of the bus has left there.
Found == {[Quiet EXCEPT !.stranger = TRUE],
          [Quiet EXCEPT !.rx = ThreeWords(Reply(TRUE, 0))],
          [Quiet EXCEPT !.tx = "other"]}

(***************************************************************************)
(* The PMU and the bus.                                                    *)
(***************************************************************************)

\* The raw counter, and the wall clock it stands for.
Counter(t) == (clock.counter + t) % Modulus
TrueTime(t) == clock.time + t

\* The cell the last settime left: half the difference, truncated.
OffsetCell == ((clock.time - clock.counter) \div 2) % Modulus

Busy == rtc.pc \notin {"off", "done"}

\* The CPU may be kept from running for any time, between any two steps.
Tick ==
    /\ Busy
    /\ now < MaxTime
    /\ now' = now + 1
    /\ UNCHANGED <<clock, spmi, rtc, seed>>

\* The PMU executes the command: the value is of this moment.
PmuReads ==
    /\ Busy
    /\ spmi.tx \in {"time", "offset"}
    /\ spmi' = [spmi EXCEPT !.tx = None,
                            !.out = @ \o ThreeWords(Reply(TRUE,
                                IF spmi.tx = "time" THEN Counter(now)
                                                    ELSE OffsetCell))]
    /\ UNCHANGED <<now, clock, rtc, seed>>

\* A reply to somebody else, of another opcode or slave.
StrangerReads ==
    /\ Busy
    /\ spmi.stranger
    /\ spmi' = [spmi EXCEPT !.stranger = FALSE,
                            !.out = @ \o ThreeWords(Reply(FALSE, 0))]
    /\ UNCHANGED <<now, clock, rtc, seed>>

Deliver ==
    /\ Busy
    /\ spmi.out # <<>>
    /\ spmi' = [spmi EXCEPT !.rx = Append(@, Head(spmi.out)),
                            !.out = Tail(@)]
    /\ UNCHANGED <<now, clock, rtc, seed>>

(***************************************************************************)
(* The conversion.                                                         *)
(***************************************************************************)

\* One bit more than the counter, as a signed number.
Signed(x) == IF x >= Modulus THEN x - 2 * Modulus ELSE x

\* nwoas_sera_rtc_convert up to its range checks: a time in ticks.
Convert(counter, offset) ==
    Signed((counter + 2 * offset) % (2 * Modulus))

InRange(time) == time >= 0 /\ time \div Second \in UtcMin .. UtcMax

\* nwoas_rtc_advance at tick t, or None for its errors: the seconds and the rest
\* are advanced apart.
Advance(t) ==
    LET delta == t - seed.cntpct
        epoch == seed.epoch + (delta \div Second)
    IN  IF t < seed.cntpct \/ epoch > UtcMax THEN None
        ELSE [epoch |-> epoch, rest |-> delta % Second]

\* LibGetTime at tick t: a time in ticks, or None for EFI_DEVICE_ERROR.  The
\* rest may carry.
LibGetTime(t) ==
    LET advanced == Advance(t)
        rest     == advanced.rest + seed.ns
        carry    == rest \div Second
    IN  IF seed = None THEN None
        ELSE IF advanced = None THEN None
        ELSE IF carry = 1 /\ advanced.epoch >= UtcMax THEN None
        ELSE (advanced.epoch + carry) * Second + (rest % Second)

(***************************************************************************)
(* LibRtcInitialize.                                                       *)
(***************************************************************************)

\* Any error is final: no retry, and GetTime reports a device error.  Neither
\* bus nor clock are looked at again.
Unseeded ==
    /\ rtc' = Locals("done")
    /\ seed' = None
    /\ spmi' = Quiet
    /\ clock' = None
    /\ now' = 0

LibRtcInitialize(topology) ==
    /\ rtc.pc = "off"
    /\ IF topology
       THEN /\ rtc' = [Locals("command") EXCEPT !.before = now]
            /\ seed' = None
            /\ clock' \in Clocks
            /\ spmi' \in Found
            /\ UNCHANGED now
       ELSE Unseeded

Register == <<"time", "offset", "time">>

\* The head of nwoas_sera_read_reg: idle check, start of the clock, command.
Command ==
    /\ rtc.pc = "command"
    /\ IF spmi.rx = <<>> /\ spmi.tx = None
       THEN /\ rtc' = [rtc EXCEPT !.pc = "words", !.words = 0, !.polls = 0,
                                  !.start = now]
            /\ spmi' = [spmi EXCEPT !.tx = Register[rtc.i]]
            /\ UNCHANGED <<now, clock, seed>>
       ELSE Unseeded

Late == now - rtc.start >= Deadline

\* One turn of nwoas_sera_wait_rx, with the read of the word it has met.
Poll ==
    /\ rtc.pc = "words"
    /\ \/ Late /\ Unseeded
       \/ /\ ~Late
          /\ spmi.rx # <<>>
          /\ spmi' = [spmi EXCEPT !.rx = Tail(@)]
          /\ rtc' = [rtc EXCEPT
                !.words = @ + 1, !.polls = 0,
                !.reply = IF rtc.words = 0 THEN Head(spmi.rx) ELSE @,
                !.pc = IF rtc.words = 2 THEN "check" ELSE @]
          /\ UNCHANGED <<now, clock, seed>>
       \/ /\ ~Late
          /\ spmi.rx = <<>>
          /\ IF rtc.polls + 1 = MaxPolls
             THEN Unseeded
             ELSE /\ rtc' = [rtc EXCEPT !.polls = @ + 1]
                  /\ UNCHANGED <<now, clock, spmi, seed>>

\* The tail of nwoas_sera_read_reg: echo, empty FIFO, deadline.
Check ==
    /\ rtc.pc = "check"
    /\ IF ~rtc.reply.echo \/ spmi.rx # <<>> \/ Late
       THEN Unseeded
       ELSE /\ rtc' = [rtc EXCEPT
                  !.counter[rtc.i] = rtc.reply.value,
                  !.reply = None, !.words = 0,
                  !.i = IF rtc.i = 3 THEN 3 ELSE @ + 1,
                  !.pc = IF rtc.i = 3 THEN "sample" ELSE "command"]
            /\ UNCHANGED <<now, clock, spmi, seed>>

Sample ==
    /\ rtc.pc = "sample"
    /\ rtc' = [rtc EXCEPT !.cntpct = now, !.pc = "seed"]
    /\ UNCHANGED <<now, clock, spmi, seed>>

\* Bug: the time the three reads took as a whole is not looked at.
QuickAlways == TRUE

Quick == now - rtc.before <= Second

\* The end of nwoas_sera_rtc_read and the checks of its caller, but for the
\* ones that only a counter running backwards could fail.  From here on the
\* physical counter is an argument of LibGetTime.
Seed ==
    LET time == Convert(rtc.counter[3], rtc.counter[2])
    IN  /\ rtc.pc = "seed"
        /\ IF /\ rtc.counter[3] - rtc.counter[1] \in 0 .. MaxSpan
              /\ InRange(time)
              /\ Quick
           THEN /\ seed' = [epoch |-> time \div Second, ns |-> time % Second,
                            cntpct |-> rtc.cntpct]
                /\ rtc' = Locals("done")
                /\ spmi' = Quiet
                /\ now' = 0
                /\ UNCHANGED clock
           ELSE Unseeded

RtcStep ==
    \/ \E topology \in BOOLEAN : LibRtcInitialize(topology)
    \/ Command \/ Poll \/ Check \/ Sample \/ Seed

RtcBus == Tick \/ PmuReads \/ StrangerReads \/ Deliver

(***************************************************************************)
(* What a seeded clock promises.                                           *)
(***************************************************************************)

\* A time LibGetTime reports, at any tick from the snapshot on, is never ahead
\* of the wall clock and at most a second (and the bit the offset cell drops)
\* behind it, however long the CPU was stopped between two reads and whatever
\* else was on the bus; it is within the years the firmware can represent.
TimeHonest ==
    seed # None =>
        \A t \in seed.cntpct .. MaxTime + 2 * Second :
            LET time == LibGetTime(t)
            IN  time # None => /\ TrueTime(t) - time \in 0 .. Second + 1
                               /\ InRange(time)
=============================================================================
