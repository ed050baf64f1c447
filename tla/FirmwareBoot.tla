---------------------------- MODULE FirmwareBoot ----------------------------
(* One boot, in its order.  The host's hook brings up the display and enters *)
(* the guest.  Then the parts of the UEFI firmware that this project adds,   *)
(* on the one CPU that runs it: boot arguments and device tree are put in    *)
(* their place; the clock is seeded while drivers start; every        *)
(* ReadyToBoot event runs the handler that selects the P-state and puts the  *)
(* wrapper over GetMemoryMap; the boot loader then asks for the map until    *)
(* ExitBootServices accepts its key, or gives the turn to the next option.   *)
EXTENDS DisplayHook, Handoff, SeraRtc, CpuPstate, HideHighRam

vars == <<displayVars, handoffVars, rtcVars, pstateVars, mapVars>>

Init == DisplayInit /\ HandoffInit /\ RtcInit /\ PstateInit /\ MapInit

Display ==
    /\ HookStep
    /\ UNCHANGED <<handoffVars, rtcVars, pstateVars, mapVars>>

World ==
    /\ DisplayWorld
    /\ UNCHANGED <<handoffVars, rtcVars, pstateVars, mapVars>>

Time ==
    /\ ClockTicks
    /\ UNCHANGED <<handoffVars, rtcVars, pstateVars, mapVars>>

Prefix ==
    /\ hook.pc = "guest"
    /\ HandoffStep
    /\ UNCHANGED <<displayVars, rtcVars, pstateVars, mapVars>>

\* LibRtcInitialize is called once, when the runtime driver starts.
Drivers ==
    /\ step = "done"
    /\ RtcStep
    /\ Forget
    /\ UNCHANGED <<displayVars, pstateVars, mapVars>>

Bus ==
    /\ RtcBus
    /\ UNCHANGED <<displayVars, handoffVars, pstateVars, mapVars>>

\* The event, and the call of NwoasPstateReadyToBoot in its handler.
Event ==
    /\ rtc.pc = "done"
    /\ ReadyToBoot
    /\ IF Already THEN UNCHANGED pstateVars ELSE Enter
    /\ UNCHANGED <<displayVars, handoffVars, rtcVars>>

Pstate ==
    /\ PstateStep
    /\ UNCHANGED <<displayVars, handoffVars, rtcVars, mapVars>>

Controller ==
    /\ PstateDevice
    /\ UNCHANGED <<displayVars, handoffVars, rtcVars, mapVars>>

HandlerEnds ==
    /\ Leave
    /\ Install
    /\ UNCHANGED <<displayVars, handoffVars, rtcVars>>

Loader ==
    /\ LoaderStep
    /\ UNCHANGED <<displayVars, handoffVars, rtcVars, pstateVars>>

Others ==
    /\ Change \/ NextOption
    /\ UNCHANGED <<displayVars, handoffVars, rtcVars, pstateVars>>

Next ==
    \/ Display \/ World \/ Time
    \/ Prefix \/ Drivers \/ Bus
    \/ Event \/ Pstate \/ Controller \/ HandlerEnds
    \/ Loader \/ Others

\* Host and CPU run on: the hook, the firmware and the loader take their next
\* step, and the host's clock goes on; what the display, the DCP, the bus, the
\* controller and the counter do is up to them.
Spec ==
    /\ Init
    /\ [][Next]_vars
    /\ WF_vars(Display) /\ WF_vars(Time)
    /\ WF_vars(Prefix) /\ WF_vars(Drivers) /\ WF_vars(Event) /\ WF_vars(Pstate)
    /\ WF_vars(HandlerEnds) /\ WF_vars(Loader)

\* The operating system is started unless the hook gave up or the handoff was
\* refused: a display that comes and goes, a DCP that does not answer, a silent
\* bus, a counter that stands still, a controller that stays busy, a map that needs a
\* slot more than was asked for, and a second ReadyToBoot each cost a bounded
\* number of steps.
BootCompletes == <>(loader.pc = "os" \/ step = "halt" \/ hook.pc = "aborted")
=============================================================================
