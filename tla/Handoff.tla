------------------------------- MODULE Handoff -------------------------------
(* How the boot arguments and the device tree (ADT) get to the UEFI firmware *)
(* (loader-s215, firmware-s216).  The loader puts the firmware image (the    *)
(* FD) behind the place the firmware has fixed for the two copies; the first *)
(* code of the firmware checks the place again, copies the two from wherever *)
(* they are, and then reserves the place.                                    *)
(*                                                                           *)
(* Addresses have the width of the machine's: sums wrap at Wrap.  A byte of  *)
(* memory is known by where it was when the loader began.                    *)
EXTENDS Naturals

CONSTANTS
    Wrap,        \* 2^64.
    Granule,     \* 0x4000.
    ImageAlign,  \* NWOAS_IMAGE_ALIGN.
    BootArgs,    \* NWOAS_BOOTARGS_COPY, PcdBootArgsPointer.
    MaxAdt,      \* Largest device tree the firmware takes (0x100000).
    BootArgsLen, \* sizeof (struct boot_args), at most Granule.
    Machines,    \* [ram, size, adtSize, adtFrom, argsFrom, prefix, prefixEnd,
                 \*  heap, image]: what the loader finds.  Its heap only grows,
                 \*  so the sources of the copies are below it.
    NoMachine    \* Not a member of Machines.

VARIABLES
    machine,  \* A member of Machines, while the handoff is under way.
    mem,      \* Address -> the address its byte had at first.
    fd,       \* The base of the image, or none.
    reserved, \* The end of the place that is reserved, or 0.
    step      \* "load", "copy", "reserve", "done"; "halt" is for good.

handoffVars == <<machine, mem, fd, reserved, step>>

Addresses == 0 .. Wrap - 1

ASSUME HandoffAssumption ==
    /\ {Wrap, Granule, ImageAlign} \subseteq Nat \ {0}
    /\ BootArgs \in Nat /\ BootArgs + Granule < Wrap
    /\ BootArgsLen \in 0 .. Granule
    /\ MaxAdt \in Nat
    /\ Machines \subseteq [ram : Addresses, size : Addresses, adtSize : Addresses,
                           adtFrom : Addresses, argsFrom : Addresses, prefix : Addresses,
                           prefixEnd : Addresses, heap : Addresses, image : Addresses]
    /\ NoMachine \notin Machines

Plus(a, b) == (a + b) % Wrap

\* x > max - y, the guard of every sum.
Overflows(a, b) == a > Wrap - 1 - b

AlignedUp(a, align) == (Plus(a, align - 1) \div align) * align

Adt == BootArgs + Granule

HandoffInit ==
    /\ machine = NoMachine
    /\ mem = [a \in {} |-> a]
    /\ fd = 0
    /\ reserved = 0
    /\ step = "load"

(***************************************************************************)
(* nwoas_handoff_layout.                                                   *)
(***************************************************************************)

HandoffEnd(m) == AlignedUp(Plus(Adt, m.adtSize), Granule)

ImageBase(m) ==
    AlignedUp(IF m.heap > HandoffEnd(m) THEN m.heap ELSE HandoffEnd(m), ImageAlign)

LayoutAccepts(m) ==
    LET ramEnd == m.ram + m.size
        base   == ImageBase(m)
    IN  /\ m.adtSize # 0 /\ m.image # 0
        /\ ~Overflows(m.ram, m.size) /\ ~Overflows(Adt, m.adtSize)
        /\ ~Overflows(Adt + m.adtSize, Granule - 1)
        /\ BootArgs >= m.ram /\ HandoffEnd(m) <= ramEnd
        /\ m.prefixEnd >= m.prefix
        /\ ~(m.prefix < HandoffEnd(m) /\ m.prefixEnd > BootArgs)
        /\ m.heap \in m.ram .. ramEnd
        /\ ~Overflows(IF m.heap > HandoffEnd(m) THEN m.heap ELSE HandoffEnd(m),
                      ImageAlign - 1)
        /\ base <= ramEnd /\ m.image <= ramEnd - base

\* The loader of one machine: placed, or stopped by the assertion.  The image it
\* copies to fd, beyond its heap, stands for its own bytes: the sources of the
\* handoff lie below the heap and lose nothing to it.
Load(m) ==
    /\ machine' = m
    /\ mem' = [a \in Addresses |-> a]
    /\ IF LayoutAccepts(m) THEN fd' = ImageBase(m) /\ step' = "copy"
                           ELSE fd' = 0 /\ step' = "halt"
    /\ UNCHANGED reserved

(***************************************************************************)
(* The firmware: NwoasHandoffRange, NwoasHandoffAdtSource and their callers.*)
(***************************************************************************)

RangeAccepts(m) ==
    LET end == HandoffEnd(m)
    IN  /\ m.size # 0 /\ ~Overflows(m.ram, m.size)
        /\ m.image # 0 /\ ~Overflows(fd, m.image)
        /\ BootArgs % Granule = 0
        /\ m.adtSize \in 1 .. MaxAdt /\ ~Overflows(Adt, m.adtSize)
        /\ ~Overflows(Adt + m.adtSize, Granule - 1)
        /\ BootArgs >= m.ram /\ end <= m.ram + m.size
        /\ ~(BootArgs < fd + m.image /\ end > fd)

\* adtFrom is devtree - virt_base, which is an offset in RAM.
SourceAccepts(m) == m.adtFrom <= m.size /\ m.adtSize <= m.size - m.adtFrom

Stops == step' = "halt" /\ UNCHANGED <<machine, mem, fd, reserved>>

Copied(bytes, to, from, n) ==
    [a \in DOMAIN bytes |->
        IF a \in to .. to + n - 1 THEN bytes[from + (a - to)] ELSE bytes[a]]

WithAdt(bytes, m) == Copied(bytes, Adt, m.ram + m.adtFrom, m.adtSize)

\* From a copy on the stack: what is at their source by now does not matter.
WithBootArgs(bytes, m) ==
    [a \in DOMAIN bytes |->
        IF a \in BootArgs .. BootArgs + BootArgsLen - 1
        THEN m.argsFrom + (a - BootArgs) ELSE bytes[a]]

\* Bug: the boot arguments are copied first, as before S216.
CopiesArgsFirst(m) == WithAdt(WithBootArgs(mem, m), m)

\* The ADT goes first, because its source may be where the copy of the boot
\* arguments goes.
Copies(m) == WithBootArgs(WithAdt(mem, m), m)

Copy ==
    /\ step = "copy"
    /\ IF RangeAccepts(machine) /\ SourceAccepts(machine)
       THEN /\ mem' = Copies(machine)
            /\ step' = "reserve"
            /\ UNCHANGED <<machine, fd, reserved>>
       ELSE Stops

\* MemoryPeim: the same computation on the copy, and the reservation, if there
\* is a resource that holds the whole place.
Reserve(found) ==
    /\ step = "reserve"
    /\ IF RangeAccepts(machine) /\ found
       THEN /\ reserved' = HandoffEnd(machine)
            /\ step' = "done"
            /\ UNCHANGED <<machine, mem, fd>>
       ELSE Stops

HandoffStep ==
    \/ step = "load" /\ \E m \in Machines : Load(m)
    \/ Copy
    \/ \E found \in BOOLEAN : Reserve(found)

\* From the reservation on nothing of this changes.
Forget ==
    /\ machine' = NoMachine
    /\ mem' = [a \in {} |-> a]
    /\ fd' = 0
    /\ reserved' = 0
    /\ UNCHANGED step

(***************************************************************************)
(* What the handoff promises.                                              *)
(***************************************************************************)

\* A firmware that goes on has both copies as the loader left their sources,
\* however these overlapped each other and the place of the copies; neither
\* the image it runs from nor the loader's own was written over; and the place
\* it reserves holds both copies, in RAM.
HandoffIntact ==
    step = "done" /\ machine # NoMachine =>
        /\ \A k \in 0 .. BootArgsLen - 1 : mem[BootArgs + k] = machine.argsFrom + k
        /\ \A k \in 0 .. machine.adtSize - 1 :
              mem[Adt + k] = machine.ram + machine.adtFrom + k
        /\ \A a \in (fd .. fd + machine.image - 1)
                  \cup (machine.prefix .. machine.prefixEnd - 1) : mem[a] = a
        /\ Adt + machine.adtSize <= reserved
        /\ reserved <= machine.ram + machine.size
=============================================================================
