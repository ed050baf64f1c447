----------------------------- MODULE HideHighRam -----------------------------
(* At ReadyToBoot the firmware puts a wrapper over GetMemoryMap that shows   *)
(* the operating system the free memory above 4 GiB as reserved, but for an  *)
(* extent at the start of guest RAM.  The wrapper edits the copy of the map  *)
(* that its caller gets; the live map and its key stay as they are.          *)
(*                                                                           *)
(* Memory is a function from pages to types.  The descriptors of a map are a *)
(* set, of disjoint ranges: the order of the array is not modelled, the      *)
(* number of its slots is.                                                   *)
EXTENDS Integers, FiniteSets, FiniteSetsExt

CONSTANTS
    HideBase,    \* First page that is hidden: the end of the low window.
    PhysBase,    \* boot_args.phys_base, in pages.
    MemSizes,    \* Values of boot_args.mem_size, in pages.
    PaLimit,     \* NWOAS_GUEST_PA_LIMIT, in pages.
    DartPage,    \* Pages of NWOAS_DART_PAGE_SIZE.
    KeepPages,   \* NWOAS_HIDE_KEEP_HIGH_BYTES, in pages.
    MinLowFree,  \* NWOAS_MIN_LOW_FREE_PAGES.
    UsedSets,    \* Sets of pages the firmware has allocated by then.
    MaxChanges,  \* Bound: changes of the live map while the loader runs.
    MaxOptions   \* Bound: boot options that fail.

\* Devices are between the low window and guest RAM.
ASSUME MapAssumption ==
    /\ HideBase \in Nat /\ PhysBase \in Nat /\ HideBase < PhysBase
    /\ MemSizes \subseteq Nat /\ \E m \in MemSizes : \A n \in MemSizes : n <= m
    /\ KeepPages \in Nat

VARIABLES
    live,      \* The live map: page -> "free", "used", or "hole"; what there
               \* is of it is looked at from ReadyToBoot on.
    hideDone,  \* mHideDone.
    vector,    \* gBS->GetMemoryMap: "core" or "wrapper".
    orig,      \* mOrigGetMemoryMap.
    keep,      \* mKeepHighStart and mKeepHighEnd, or <<0, 0>>.
    loader     \* The boot loader: pc, capacity of its buffer in descriptors,
               \* the size it was told, the map it got, the live map of that
               \* key, and the changes and boot options left.

mapVars == <<live, hideDone, vector, orig, keep, loader>>

Pages == 0 .. PhysBase + Max(MemSizes) - 1

\* The low window and guest RAM, with a hole of devices between them.
Memory(size, used) ==
    [p \in Pages |-> IF p \in HideBase .. PhysBase - 1 \/ p >= PhysBase + size
                     THEN "hole"
                     ELSE IF p \in used THEN "used" ELSE "free"]

MapInit ==
    /\ live = Memory(0, {})
    /\ hideDone = FALSE
    /\ vector = "core"
    /\ orig = "none"
    /\ keep = <<0, 0>>
    /\ loader = [pc |-> "off", cap |-> 0, ask |-> 0, snap |-> {}, key |-> <<>>,
                 left |-> MaxChanges, options |-> MaxOptions]

(***************************************************************************)
(* Descriptors.                                                            *)
(***************************************************************************)

Desc(start, pages, type) == [start |-> start, pages |-> pages, type |-> type]

PagesOf(d) == d.start .. d.start + d.pages - 1

\* CoreGetMemoryMap: one descriptor for each run of pages of a type.
Descriptors(mem) ==
    LET Starts == {p \in Pages : mem[p] # "hole"
                                 /\ (p = 0 \/ mem[p - 1] # mem[p])}
        Length(p) == Max({n \in 1 .. Cardinality(Pages) :
                            /\ p + n - 1 \in Pages
                            /\ \A q \in p .. p + n - 1 : mem[q] = mem[p]})
    IN  {Desc(p, Length(p), mem[p]) : p \in Starts}

\* What a set of descriptors says of the memory.
TypeIn(map, p) ==
    IF \E d \in map : p \in PagesOf(d)
    THEN (CHOOSE d \in map : p \in PagesOf(d)).type ELSE "hole"

(***************************************************************************)
(* ReadyToBoot.                                                            *)
(***************************************************************************)

\* NwoasGuestRamBackingPa: where the backing of the low window begins, or 0.
BackingPa(size) ==
    LET end == PhysBase + size
    IN  IF \/ PhysBase % DartPage # 0 \/ size % DartPage # 0
           \/ size = 0
           \/ end + HideBase > PaLimit
        THEN 0 ELSE end

KeepExtent(size) ==
    IF BackingPa(size) > PhysBase /\ KeepPages <= BackingPa(size) - PhysBase
    THEN <<PhysBase, PhysBase + KeepPages>> ELSE <<0, 0>>

\* Bug: every ReadyToBoot puts the wrapper over what it finds.
AlreadyNever == FALSE

Already == hideDone

\* NwoasHideHighRamOnReadyToBoot up to the call of the P-state routine: the
\* second time it does nothing, and the boot option is started.
ReadyToBoot ==
    /\ loader.pc = "off"
    /\ hideDone' = TRUE
    /\ loader' = [loader EXCEPT !.pc = IF Already THEN "call" ELSE "ready"]
    /\ UNCHANGED <<live, vector, orig, keep>>

\* The rest of it: the extent that is kept, and the wrapper, on a machine of
\* this much memory of which the firmware has used some.
Install ==
    /\ loader.pc = "ready"
    /\ \E size \in MemSizes, used \in UsedSets :
          /\ live' = Memory(size, used)
          /\ keep' = KeepExtent(size)
    /\ orig' = vector
    /\ vector' = "wrapper"
    /\ loader' = [loader EXCEPT !.pc = "call"]
    /\ UNCHANGED hideDone

(***************************************************************************)
(* NwoasWrappedGetMemoryMap.                                               *)
(***************************************************************************)

KeepStart == keep[1]
KeepEnd == keep[2]
Keeps == KeepEnd > KeepStart

Hideable(d) == d.start >= HideBase /\ d.type = "free"

PageSum(map) == MapThenSumSet(LAMBDA d : d.pages, map)

AbortGuard(map) ==
    PageSum({d \in map : d.start < HideBase /\ d.type = "free"}) < MinLowFree

Straddles(d) ==
    /\ d.type = "free"
    /\ d.start \in KeepStart .. KeepEnd - 1
    /\ d.start + d.pages > KeepEnd

\* Bug: the descriptor across the end of the extent is left whole.
SplitNever(map) == map

\* NwoasSplitMemoryMap when there is room.
Split(map) ==
    {d \in map : ~Straddles(d)} \cup
    UNION {{Desc(d.start, KeepEnd - d.start, d.type),
            Desc(KeepEnd, d.start + d.pages - KeepEnd, d.type)} :
             d \in {e \in map : Straddles(e)}}

WhollyKept(d) == d.start \in KeepStart .. KeepEnd - 1
                 /\ d.pages <= KeepEnd - d.start

Hidden(map) ==
    {IF Hideable(d) /\ ~(Keeps /\ WhollyKept(d))
     THEN [d EXCEPT !.type = "reserved"] ELSE d : d \in map}

Success(map) == [ok |-> TRUE, map |-> map]
TooSmall(n) == [ok |-> FALSE, size |-> n]

CoreGetMemoryMap(cap) ==
    LET map == Descriptors(live)
    IN  IF Cardinality(map) <= cap THEN Success(map)
                                   ELSE TooSmall(Cardinality(map))

\* One slot more than the live map needs is asked for, and again when the map
\* has come to need it since.
WrappedGetMemoryMap(cap) ==
    LET real  == CoreGetMemoryMap(cap)
        map   == real.map
        split == Split(map)
    IN  IF ~real.ok THEN TooSmall(real.size + (IF Keeps THEN 1 ELSE 0))
        ELSE IF AbortGuard(map) THEN real
        ELSE IF ~Keeps THEN Success(Hidden(map))
        ELSE IF Cardinality(split) > cap THEN TooSmall(Cardinality(map) + 1)
        ELSE Success(Hidden(split))

(***************************************************************************)
(* The boot loader (external).                                             *)
(***************************************************************************)

Call ==
    LET answer == IF vector = "core" THEN CoreGetMemoryMap(loader.cap)
                                     ELSE WrappedGetMemoryMap(loader.cap)
    IN  /\ loader.pc = "call"
        \* A wrapper over the wrapper never returns.
        /\ vector = "wrapper" => orig = "core"
        /\ loader' = IF answer.ok
                     THEN [loader EXCEPT !.pc = "exit", !.snap = answer.map,
                                         !.key = live]
                     ELSE [loader EXCEPT !.pc = "grow", !.ask = answer.size]
        /\ UNCHANGED <<live, hideDone, vector, orig, keep>>

\* A buffer of the size it was told; allocating it may change the map.
Grow ==
    /\ loader.pc = "grow"
    /\ loader' = [loader EXCEPT !.pc = "call", !.cap = loader.ask, !.ask = 0]
    /\ UNCHANGED <<live, hideDone, vector, orig, keep>>

\* The firmware or the loader allocates or frees a page.
Change ==
    /\ loader.pc \in {"call", "grow", "exit"}
    /\ loader.left > 0
    /\ \E p \in Pages :
          /\ live[p] # "hole"
          /\ live' = [live EXCEPT ![p] = IF @ = "free" THEN "used" ELSE "free"]
    /\ loader' = [loader EXCEPT !.left = @ - 1]
    /\ UNCHANGED <<hideDone, vector, orig, keep>>

\* ExitBootServices accepts the key of the live map only.
ExitBootServices ==
    /\ loader.pc = "exit"
    /\ loader' = IF loader.key = live
                 THEN [loader EXCEPT !.pc = "os"]
                 ELSE [loader EXCEPT !.pc = "call", !.snap = {}, !.key = <<>>]
    /\ UNCHANGED <<live, hideDone, vector, orig, keep>>

\* The boot option fails, and the firmware goes on to the next one.
NextOption ==
    /\ loader.pc \in {"call", "grow", "exit"}
    /\ loader.options > 0
    /\ loader' = [loader EXCEPT !.pc = "off", !.cap = 0, !.ask = 0,
                                !.snap = {}, !.key = <<>>, !.options = @ - 1]
    /\ UNCHANGED <<live, hideDone, vector, orig, keep>>

LoaderStep == Call \/ Grow \/ ExitBootServices

(***************************************************************************)
(* What the wrapper promises.                                              *)
(***************************************************************************)

\* Page by page, the map a caller gets shows the live map at the time of the
\* key it got, with exactly the free pages from HideBase on hidden that lie
\* outside the extent that is kept, or, when the low window has too little
\* free memory, with none hidden; no page is in two descriptors.
SnapshotExact ==
    loader.snap # {} =>
        LET mem   == loader.key
            few   == Cardinality({p \in Pages : p < HideBase /\ mem[p] = "free"})
                     < MinLowFree
            Kept(p) == p \in KeepStart .. KeepEnd - 1
        IN  /\ \A p \in Pages : TypeIn(loader.snap, p) =
                  IF ~few /\ p >= HideBase /\ mem[p] = "free" /\ ~Kept(p)
                  THEN "reserved" ELSE mem[p]
            /\ PageSum(loader.snap) = Cardinality({p \in Pages : mem[p] # "hole"})
=============================================================================
