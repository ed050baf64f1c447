--------------------------- MODULE MCNvmeFrontend ---------------------------
(***************************************************************************)
(* Small instances of NvmeFrontend for TLC: queues of depth 2, generation  *)
(* counters that wrap after 4 changes and are truncated to one bit, and    *)
(* the admin commands that change queue descriptors or the cache policy.   *)
(***************************************************************************)
EXTENDS NvmeFrontend

Command(op, arg) == [op |-> op, cid |-> 0, ok |-> TRUE, arg |-> arg]

MCCommands ==
    {Command(op, 0) : op \in {"CreateSQ", "DeleteSQ", "DeleteCQ", "Reserved"}}
      \cup {Command("CreateCQ", ien) : ien \in 0..1}
      \cup {Command("SetCache", v) : v \in 0..1}
=============================================================================
