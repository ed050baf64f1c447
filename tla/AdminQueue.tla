----------------------------- MODULE AdminQueue -----------------------------
(***************************************************************************)
(* What the admin queue pair promises its driver, without rings, cursors   *)
(* or phases: commands are taken in the order they were queued, each one   *)
(* yields one completion or is held, completions are delivered in the      *)
(* order they were made, and a fault or a restart drops what is left.      *)
(***************************************************************************)
EXTENDS Sequences

CONSTANT Entries   \* the commands

VARIABLES open,    \* the queue pair exists
          halted,  \* a fault stopped the controller
          queue,   \* commands queued and not taken
          work,    \* the command being executed, or none
          done     \* completions made and not delivered: the commands' identifiers

vars == <<open, halted, queue, work, done>>

Init == open = FALSE /\ halted = FALSE /\ queue = <<>> /\ work = <<>> /\ done = <<>>

Open ==
    /\ ~open /\ open' = TRUE /\ halted' = FALSE
    /\ queue' = <<>> /\ work' = <<>> /\ done' = <<>>

Close ==
    /\ open' = FALSE /\ halted' = FALSE
    /\ queue' = <<>> /\ work' = <<>> /\ done' = <<>>

Submit(c) ==
    /\ open /\ queue' = Append(queue, c)
    /\ UNCHANGED <<open, halted, work, done>>

\* Taking a command leaves it in execution or holds it without a completion.
Take ==
    /\ open /\ ~halted /\ queue # <<>> /\ work = <<>>
    /\ queue' = Tail(queue)
    /\ \/ work' = <<Head(queue).cid>>
       \/ Head(queue).op = "AER" /\ work' = <<>>
    /\ UNCHANGED <<open, halted, done>>

Complete ==
    /\ open /\ ~halted /\ work # <<>>
    /\ done' = done \o work /\ work' = <<>>
    /\ UNCHANGED <<open, halted, queue>>

Deliver ==
    /\ open /\ done # <<>> /\ done' = Tail(done)
    /\ UNCHANGED <<open, halted, queue, work>>

\* A fault loses the command in execution, or the one just taken.
Halt ==
    /\ open /\ ~halted /\ halted' = TRUE /\ work' = <<>>
    /\ queue' = queue \/ (queue # <<>> /\ work = <<>> /\ queue' = Tail(queue))
    /\ UNCHANGED <<open, done>>

Next ==
    \/ Open \/ Close \/ Take \/ Complete \/ Deliver \/ Halt
    \/ \E c \in Entries : Submit(c)

Spec == Init /\ [][Next]_vars
=============================================================================
