---------------------------- MODULE MmioEmulation ----------------------------
(***************************************************************************)
(* The emulation of a guest access that faults on a software mapping       *)
(* (hv_handle_dabort(), hv_emulate_rw()): one load or store of the guest   *)
(* becomes naturally aligned accesses, each to memory or to a hook.  One   *)
(* that fails ends the emulation: what was done before it stays done.      *)
(*                                                                         *)
(* Guest addresses are bytes here, WordBytes to an entry of StageTwo.  The *)
(* decoding of instructions and the values are left out: only where each   *)
(* byte of the access goes is told.                                        *)
(***************************************************************************)
EXTENDS StageTwo, Sequences, SequencesExt

CONSTANT Accesses    \* <<address, bytes, page of the bytes past the boundary>>

WordBytes == 4
PageBytes == Page * WordBytes

Widths == {1, 2, 4, 8, 16, 32, 64}

\* Both pages are ones that the tables have an entry for.
ASSUME MmioAssumption ==
    \A x \in Accesses : /\ x[1] \in Nat /\ x[2] \in Widths /\ x[3] \in Nat
                        /\ x[2] <= PageBytes
                        /\ x[1] \div WordBytes \in Addr /\ x[3] * Page \in Addr

\* The width of the next access: it is aligned and no longer than what is left.
Width(left, at) == Max({w \in Widths : left >= w /\ at % w = 0})

\* The hook of an entry is called: those of the host for their direction only.
Calls(e, write) ==
    \/ e.k \in {"hook", "proxyRW"}
    \/ e.k = "proxyW" /\ write
    \/ e.k = "proxyR" /\ ~write

\* hv_emulate_rw_aligned(): one access, to a hook or to memory; the direction
\* that the host does not hook goes to the memory at the guest's address.
Op(e, write, target, at, w) ==
    IF Calls(e, write) THEN [hook |-> e, at |-> at, w |-> w]
    ELSE [hook |-> Unmapped, at |-> IF e.k \in ProxyKinds THEN at ELSE target, w |-> w]

\* Memory may abort and a hook of the hypervisor refuse; the host may not.
MayFail(op) == op.hook.k \notin ProxyKinds

\* The accesses that the bytes of one page are split into, through the entry
\* of the first.
Split(e, write, at, bytes) ==
    LET run[left \in 0 .. bytes] ==
            IF left = 0 THEN <<>>
            ELSE LET done == bytes - left
                     w == Width(left, at + done)
                 IN <<Op(e, write, e.t * WordBytes + (at % WordBytes) + done, at + done, w)>>
                    \o run[left - w]
    IN run[bytes]

\* hv_emulate_rw(): they are done in order; the one of number n fails if it can,
\* and ends the loop.
EmulateRw(e, write, at, bytes, n) ==
    LET ops == Split(e, write, at, bytes)
    IN IF n \in 1 .. Len(ops) /\ MayFail(ops[n])
       THEN [done |-> SubSeq(ops, 1, n - 1), ok |-> FALSE]
       ELSE [done |-> ops, ok |-> TRUE]

WalkByte(at) == Walk(at \div WordBytes)

\* The bytes of an access on its first page.
Lower(x) == Min2(x[2], PageBytes - (x[1] % PageBytes))
Straddles(x) == Lower(x) < x[2]
ByteAt(x, j) == IF j < Lower(x) THEN x[1] + j ELSE x[3] * PageBytes + j - Lower(x)

\* Bug: the upper half is emulated although the lower one failed.
HandleDabortBoth(x, write, n) ==
    LET first == EmulateRw(WalkByte(x[1]), write, x[1], Lower(x), n)
        second == EmulateRw(WalkByte(x[3] * PageBytes), write, x[3] * PageBytes,
                            x[2] - Lower(x), n - Len(first.done))
    IN IF Straddles(x) THEN [done |-> first.done \o second.done, ok |-> second.ok] ELSE first
\* hv_handle_dabort(): both halves of an access that straddles two pages are
\* emulated, whichever faulted, the upper one unless the lower one failed; the
\* other half may be mapped by hardware.
HandleDabort(x, write, n) ==
    LET first == EmulateRw(WalkByte(x[1]), write, x[1], Lower(x), n)
        second == EmulateRw(WalkByte(x[3] * PageBytes), write, x[3] * PageBytes,
                            x[2] - Lower(x), n - Len(first.done))
    IN IF Straddles(x) /\ first.ok
       THEN [done |-> first.done \o second.done, ok |-> second.ok]
       ELSE first

\* The abort is one that is emulated: everything is mapped, not all of it by
\* hardware.
Emulated(x) ==
    LET first == WalkByte(x[1]).k
        last == WalkByte(ByteAt(x, x[2] - 1)).k
    IN "none" \notin {first, last} /\ {first, last} # {"hw"}
       /\ (~Straddles(x) => first # "hw")

(***************************************************************************)
(* Property.                                                               *)
(***************************************************************************)
\* The bytes on one page are mapped as a whole: the entry of the first one
\* stands for them all.
Uniform(x, from, to) ==
    \A j \in from .. to :
        WalkByte(ByteAt(x, j)) = Plus(WalkByte(ByteAt(x, from)),
                                      (ByteAt(x, j) \div WordBytes) - (ByteAt(x, from) \div WordBytes))
Target(at, write) == LET e == WalkByte(at)
                     IN Op(e, write, e.t * WordBytes + (at % WordBytes), at, 1)

OpBytes(op) == [i \in 1 .. op.w |-> [op EXCEPT !.at = @ + i - 1, !.w = 1]]
Transferred(ops) == FlattenSeq([i \in 1 .. Len(ops) |-> OpBytes(ops[i])])

\* Of the bytes of x the first ones are transferred, in order and each to its
\* place or hook, and all of them if the access is reported as handled.
Served(r, x, write) ==
    LET bytes == Transferred(r.done)
    IN /\ Len(bytes) <= x[2]
       /\ bytes = [j \in 1 .. Len(bytes) |-> Target(ByteAt(x, j - 1), write)]
       /\ r.ok <=> Len(bytes) = x[2]
       /\ \A i \in 1 .. Len(r.done) :
             r.done[i].hook # Unmapped => r.done[i].at % r.done[i].w = 0

\* Whichever aligned access of an emulated load or store fails, the bytes that
\* were transferred are its first ones, each once and in order, at the place or
\* hook that its own address maps to in this direction, and hv_handle_dabort()
\* reports success exactly when they are all of them: whatever the alignment of
\* the access, wherever its page boundary falls and however its pages were
\* mapped, split and remapped before.  Every access to a hook is aligned.
EmulationExact ==
    call = NoCall =>
    \A x \in Accesses :
        /\ Emulated(x)
        /\ Uniform(x, 0, Lower(x) - 1) /\ Uniform(x, Lower(x), x[2] - 1)
        => \A write \in BOOLEAN, n \in 0 .. x[2] : Served(HandleDabort(x, write, n), x, write)
=============================================================================
