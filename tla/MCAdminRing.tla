----------------------------- MODULE MCAdminRing -----------------------------
(* AdminRing for TLC: the commands the driver submits.                       *)
EXTENDS AdminRing

Cmd(op, cid, ok, arg) == [op |-> op, cid |-> cid, ok |-> ok, arg |-> arg]

\* A data command, one that changes a descriptor, and two Asynchronous Event
\* Requests, of which one shares its identifier with the queue command.
RingCommands ==
    {Cmd("Data", 0, TRUE, 1), Cmd("CreateCQ", 1, TRUE, 1)}
    \cup {Cmd("AER", k, TRUE, 0) : k \in {1, 2}}
=============================================================================
