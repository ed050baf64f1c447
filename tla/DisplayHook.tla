----------------------------- MODULE DisplayHook -----------------------------
(* The display before the guest is entered (display-s190): a hook on the     *)
(* host waits for a display, chooses a mode, puts its geometry into the boot *)
(* arguments, programs the display coprocessor (DCP), waits for the hot-plug *)
(* cycle that follows, and programs it again.  It speaks to the DCP with one *)
(* command at a time over two rings and a mailbox (tahoe_afk_link.py).       *)
(*                                                                           *)
(* The display comes and goes at any time.  A mode is its size and the error *)
(* of its refresh rate; sizes are numbered by their area.  Clocks are counted *)
(* in ticks, up to one more than their limits.                               *)
EXTENDS Naturals, Sequences, FiniteSetsExt

CONSTANTS
    Offers,      \* [timings : Seq([size, err]), colors : Seq(BOOLEAN)]: what a
                 \* display publishes; TRUE is the colour mode that is wanted.
    NoOffer,     \* Nothing published (a member of Offers, with two empty lists).
    VramSize,    \* Largest size whose framebuffer fits.
    MaxErr,      \* Largest usable error of the refresh rate.
    WaitTicks,   \* timeout_s of the wait, and the settle window (8 s).
    RpcTicks,    \* Time a command is waited for (10 s).
    HoldTicks,   \* Time the colour bars are shown (5 s).
    MaxAttempts, \* max_attempts.
    MaxEdges,    \* Bound on the hot-plug edges of a behaviour.
    MaxNoise     \* Bound on the messages nobody asked for.

ASSUME DisplayAssumption ==
    /\ NoOffer \in Offers
    /\ \A o \in Offers : o.timings \in Seq([size : Nat \ {0}, err : Nat])
    /\ {VramSize, MaxEdges, MaxNoise} \subseteq Nat

VARIABLES
    sink, \* [up, offer, edges]: the display, and the edges that may still come.
    calm, \* History: the settle loop has ended, and no edge came since.
    dcp,  \* [on, size, layer, lit]: what the DCP was told since the last edge.
    link, \* [req, rx, mail, noise]: request ring, reply ring, mailbox.
    hook  \* Locals of the hook.

displayVars == <<sink, calm, dcp, link, hook>>

Dark == [on |-> FALSE, size |-> 0, layer |-> 0, lit |-> FALSE]

HookLocals(pc) ==
    [pc |-> pc,        \* Where the hook is: see Op.
     rpc |-> "idle",   \* "idle", "sent", or "sleep" up to the top of a loop.
     spent |-> 0,      \* Ticks since the command was sent.
     elapsed |-> 0,    \* Ticks since the wait, window or hold began.
     attempts |-> 0,
     counts |-> <<FALSE, 0, 0>>, \* HPD, timings, colour modes.
     fb |-> 0,         \* Size in the guest's boot arguments.
     down |-> FALSE,   \* saw_hpd_down.
     round |-> 1]      \* First or second commit.

Silent == [req |-> <<>>, rx |-> <<>>, mail |-> "none", noise |-> MaxNoise]

NoSink == [up |-> FALSE, offer |-> NoOffer, edges |-> 0]

DisplayInit ==
    /\ sink = NoSink
    /\ calm = FALSE
    /\ dcp = Dark
    /\ link = Silent
    /\ hook = HookLocals("start")

DisplayRuns == hook.pc \notin {"start", "entered", "guest", "aborted"}

\* An exception ends the run of the guest before it began.
Ends(pc) ==
    /\ sink' = NoSink
    /\ calm' = FALSE
    /\ dcp' = Dark
    /\ link' = Silent
    /\ hook' = HookLocals(pc)

Abort == Ends("aborted")

(***************************************************************************)
(* The display, the DCP and the clock.                                     *)
(***************************************************************************)

\* An edge takes power, mode and surface with it.
HotPlug ==
    /\ DisplayRuns
    /\ sink.edges > 0
    /\ \E offer \in IF sink.up THEN {NoOffer} ELSE Offers :
          sink' = [up |-> ~sink.up, offer |-> offer, edges |-> sink.edges - 1]
    /\ calm' = FALSE
    /\ dcp' = Dark
    /\ UNCHANGED <<link, hook>>

\* Hot-plug is seen before the lists are published, and lists may be published
\* again, longer or shorter.
Publish ==
    /\ DisplayRuns
    /\ sink.up
    /\ sink.edges > 0
    /\ \E offer \in Offers \ {sink.offer} :
          sink' = [sink EXCEPT !.offer = offer, !.edges = @ - 1]
    /\ UNCHANGED <<calm, dcp, link, hook>>

DcpReply(good, body) == [kind |-> "reply", good |-> good, body |-> body]

Told(op, size) ==
    CASE op = "power" -> [dcp EXCEPT !.on = TRUE]
      [] op = "mode"  -> [dcp EXCEPT !.size = size]
      [] op = "layer" -> [dcp EXCEPT !.layer = size]
      [] op = "end"   -> [dcp EXCEPT !.lit = dcp.on /\ dcp.size # 0 /\ dcp.layer # 0]
      [] OTHER        -> dcp

Body(op) ==
    CASE op = "counts"  -> <<sink.up, Len(sink.offer.timings), Len(sink.offer.colors)>>
      [] op = "timings" -> sink.offer.timings
      [] op = "colors"  -> sink.offer.colors
      [] OTHER          -> <<>>

\* The DCP takes a request when it likes, and may refuse it or answer with
\* something that fails a check of the receiver.
DcpAnswers ==
    /\ DisplayRuns
    /\ link.req # <<>>
    /\ \E good \in BOOLEAN :
          /\ link' = [link EXCEPT !.req = <<>>,
                                  !.rx = Append(@, DcpReply(good, Body(link.req[1])))]
          /\ dcp' = IF good THEN Told(link.req[1], link.req[2]) ELSE dcp
    /\ UNCHANGED <<sink, calm, hook>>

\* A report in the reply ring; a message the link knows, of which a syslog line
\* wants an answer; a message it does not know.
DcpNoise ==
    /\ DisplayRuns
    /\ link.noise > 0
    /\ \/ link' = [link EXCEPT !.noise = @ - 1,
                     !.rx = Append(@, [kind |-> "report", good |-> TRUE, body |-> <<>>])]
       \/ /\ link.mail = "none"
          /\ \E mail \in {"known", "unknown"} :
                link' = [link EXCEPT !.noise = @ - 1, !.mail = mail]
    /\ UNCHANGED <<sink, calm, dcp, hook>>

Windows == {"counts1", "counts2", "settle", "hold"}

ClockTicks ==
    /\ hook' = [hook EXCEPT
                  !.spent = IF hook.rpc = "sent" /\ @ < RpcTicks THEN @ + 1 ELSE @,
                  !.elapsed = IF hook.pc \in Windows /\ @ <= WaitTicks THEN @ + 1 ELSE @]
    /\ UNCHANGED <<sink, calm, dcp, link>>

(***************************************************************************)
(* TahoeLink.                                                              *)
(***************************************************************************)

\* work() gives its caller the replies and keeps the reports to itself.
Replies == {k \in DOMAIN link.rx : link.rx[k].kind = "reply"}

FirstReply == link.rx[Min(Replies)]

Drained == [link EXCEPT !.rx = <<>>, !.mail = "none"]

\* work() fails: on a message it does not know, or when the mailbox is full
\* when a syslog line wants its answer.
WorkFails == link.mail # "none"

WorkSucceeds == link.mail # "unknown"

Op == CASE hook.pc \in {"counts1", "counts2", "settle"} -> "counts"
        [] hook.pc \in {"timings1", "timings2"} -> "timings"
        [] OTHER -> hook.pc

\* Where the hook is about to send a command, or has sent one.
Commanding == {"counts1", "timings1", "counts2", "timings2", "colors",
               "power", "mode", "begin", "layer", "end", "settle"}

\* command() up to the doorbell.  What work() returns here is dropped.
Send ==
    /\ hook.pc \in Commanding
    /\ hook.rpc = "idle"
    /\ \/ /\ WorkSucceeds
          /\ link' = [Drained EXCEPT !.req = <<Op, hook.fb>>]
          /\ hook' = [hook EXCEPT !.rpc = "sent", !.spent = 0]
          /\ UNCHANGED <<sink, calm, dcp>>
       \/ Abort   \* The mailbox is full, or work() fails.

\* The command has waited long enough.
GivesUp ==
    /\ hook.rpc = "sent"
    /\ hook.spent >= RpcTicks
    /\ Abort

(***************************************************************************)
(* The hook.                                                               *)
(***************************************************************************)

Goes(pc) == [hook EXCEPT !.pc = pc, !.rpc = "idle", !.spent = 0, !.elapsed = 0,
                         !.attempts = 0]

\* start_tahoe_dcp: every check of it ends the run when it fails, as do those
\* of the machine in prepare_guest_framebuffer_bootargs.
StartDcp ==
    /\ hook.pc = "start"
    /\ \/ /\ hook' = HookLocals("counts1")
          /\ \E up \in BOOLEAN, offer \in Offers :
                /\ ~up => offer = NoOffer
                /\ sink' = [up |-> up, offer |-> offer, edges |-> MaxEdges]
          /\ UNCHANGED <<calm, dcp, link>>
       \/ Abort

Ready(sample) == sample[1] /\ sample[2] > 0 /\ sample[3] > 0

\* wait_for_mode_counts, from the return of the callback to the sleep.
Sampled(sample) ==
    LET attempts == hook.attempts + 1
    IN  CASE hook.elapsed > WaitTicks -> Abort
          [] hook.elapsed <= WaitTicks /\ Ready(sample) ->
                /\ hook' = [Goes(IF hook.pc = "counts1" THEN "timings1" ELSE "timings2")
                              EXCEPT !.counts = sample]
                /\ link' = Drained
                /\ UNCHANGED <<sink, calm, dcp>>
          [] OTHER ->
                IF attempts >= MaxAttempts \/ hook.elapsed = WaitTicks
                THEN Abort
                ELSE /\ hook' = [hook EXCEPT !.rpc = "sleep", !.spent = 0,
                                             !.attempts = attempts]
                     /\ link' = Drained
                     /\ UNCHANGED <<sink, calm, dcp>>

\* The settle loop: down and up again ends it.
Settled(sample) ==
    /\ link' = Drained
    /\ hook' = IF sample[1] /\ hook.down
               THEN [hook EXCEPT !.pc = "settled", !.rpc = "idle", !.counts = sample]
               ELSE [hook EXCEPT !.rpc = "sleep", !.spent = 0, !.counts = sample,
                                 !.down = @ \/ ~sample[1]]
    /\ UNCHANGED <<sink, calm, dcp>>

Usable(m) == m.size <= VramSize /\ m.err <= MaxErr

\* 1 and 2 are the two standard sizes.
Rank(m, preferred) ==
    <<IF m.size = preferred THEN 0 ELSE 1, IF m.size <= 2 THEN m.size ELSE 3,
      m.err, m.size>>

\* The order of tuples.
Before(a, b) ==
    \/ a = b
    \/ \E k \in DOMAIN a : a[k] < b[k] /\ \A j \in 1 .. k - 1 : a[j] = b[j]

\* choose_timing looks at the first count entries of the list.
Candidates(timings, count) == {m \in {timings[k] : k \in 1 .. count} : Usable(m)}

Chosen(timings, count, preferred) ==
    CHOOSE m \in Candidates(timings, count) :
        \A n \in Candidates(timings, count) :
            Before(Rank(m, preferred), Rank(n, preferred))

\* The list may be shorter than the count that was read before it.
Choosable(timings, count) ==
    count <= Len(timings) /\ Candidates(timings, count) # {}

Selected(timings) ==
    LET count  == hook.counts[2]
        chosen == Chosen(timings, count, hook.fb)
    IN  IF Choosable(timings, count) /\ (hook.pc = "timings2" => chosen.size = hook.fb)
        THEN /\ link' = Drained
             /\ hook' = IF hook.pc = "timings1"
                        THEN [Goes("counts2") EXCEPT !.fb = chosen.size]
                        ELSE Goes("colors")
             /\ UNCHANGED <<sink, calm, dcp>>
        ELSE Abort

\* The wanted colour mode is looked for, and the two DARTs must map the surface.
Coloured(colors) ==
    \/ /\ \E k \in 1 .. hook.counts[3] : k <= Len(colors) /\ colors[k]
       /\ link' = Drained
       /\ hook' = Goes("power")
       /\ UNCHANGED <<sink, calm, dcp>>
    \/ Abort

AfterOp(op) ==
    CASE op = "power" -> "mode" [] op = "mode"  -> "begin"
      [] op = "begin" -> "layer" [] op = "layer" -> "end"
      [] OTHER -> "hold"

\* commit_surface: the answer to one of its five commands.  The first commit is
\* followed by the settle loop, which has no sample yet.
Committed ==
    /\ link' = Drained
    /\ hook' = IF hook.pc = "end" /\ hook.round = 1
               THEN [Goes("settle") EXCEPT !.rpc = "sleep", !.counts = <<FALSE, 0, 0>>]
               ELSE Goes(AfterOp(hook.pc))
    /\ UNCHANGED <<sink, calm, dcp>>

Answered(body) ==
    \/ hook.pc \in {"counts1", "counts2"} /\ Sampled(body)
    \/ hook.pc = "settle" /\ Settled(body)
    \/ hook.pc \in {"timings1", "timings2"} /\ Selected(body)
    \/ hook.pc = "colors" /\ Coloured(body)
    \/ hook.pc \in {"power", "mode", "begin", "layer", "end"} /\ Committed

\* One turn of the loop of command().
Receive ==
    /\ hook.rpc = "sent"
    /\ hook.spent < RpcTicks
    /\ \/ WorkFails /\ Abort
       \/ /\ WorkSucceeds
          /\ IF Replies = {}
             THEN link' = Drained /\ UNCHANGED <<sink, calm, dcp, hook>>
             ELSE IF FirstReply.good THEN Answered(FirstReply.body) ELSE Abort

\* The end of a sleep, and the test at the top of the two loops.
Wakes ==
    /\ hook.rpc = "sleep"
    /\ IF hook.pc = "settle" /\ hook.elapsed >= WaitTicks
       THEN hook' = [hook EXCEPT !.pc = "settled", !.rpc = "idle"]
                /\ UNCHANGED <<sink, calm, dcp, link>>
       ELSE IF hook.elapsed > WaitTicks THEN Abort
       ELSE hook' = [hook EXCEPT !.rpc = "idle"] /\ UNCHANGED <<sink, calm, dcp, link>>

\* Bug: a display that seemed stable is left as it is.
ReapplyIfSeen ==
    /\ hook.pc = "settled"
    /\ IF Ready(hook.counts)
       THEN /\ hook' = IF hook.down THEN [Goes("power") EXCEPT !.round = 2] ELSE Goes("hold")
            /\ calm' = TRUE
            /\ UNCHANGED <<sink, dcp, link>>
       ELSE Abort

\* After the settle loop: the second commit, whether a cycle was seen or not.
Reapply ==
    /\ hook.pc = "settled"
    /\ IF Ready(hook.counts)
       THEN /\ hook' = [Goes("power") EXCEPT !.round = 2]
            /\ calm' = TRUE
            /\ UNCHANGED <<sink, dcp, link>>
       ELSE Abort

\* The colour bars: nothing may come back, and the guest is entered at the end.
Hold ==
    /\ hook.pc = "hold"
    /\ IF hook.elapsed >= HoldTicks
       THEN hook' = [HookLocals("entered") EXCEPT !.fb = hook.fb]
                /\ UNCHANGED <<sink, calm, dcp, link>>
       ELSE \/ (WorkFails \/ Replies # {}) /\ Abort
            \/ /\ WorkSucceeds /\ Replies = {}
               /\ link' = Drained
               /\ UNCHANGED <<sink, calm, dcp, hook>>

\* hv.start(): from here on nothing of this is looked at.
GuestStarts == hook.pc = "entered" /\ Ends("guest")

HookStep ==
    \/ StartDcp \/ Send \/ Receive \/ GivesUp \/ Wakes \/ Reapply \/ Hold
    \/ GuestStarts

DisplayWorld == HotPlug \/ Publish \/ DcpAnswers \/ DcpNoise

(***************************************************************************)
(* What the hook promises.                                                 *)
(***************************************************************************)

\* When the guest is entered, the DCP scans out a surface of the size that the
\* guest's boot arguments name, in a mode of the same size, and it fits the
\* memory it has: whatever edges came before the end of the settle loop, those between two
\* polls and those between the commands of the first commit included.  (An edge
\* after that is not looked for, and not excluded.)
ScanoutMatches ==
    hook.pc = "entered" /\ calm =>
        /\ dcp.lit
        /\ dcp.size = hook.fb /\ dcp.layer = hook.fb
        /\ hook.fb \in 1 .. VramSize
=============================================================================
