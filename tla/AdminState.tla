----------------------------- MODULE AdminState -----------------------------
(***************************************************************************)
(* The admin command interpreter of the synthetic NVMe controller          *)
(* (native-s226/admin_state.c on top of native-s225/admin_payload.c): one  *)
(* I/O queue pair, one held Asynchronous Event Request, the volatile-cache *)
(* policy and the stored features.  It has no memory, ring or interrupt of *)
(* its own, so it is a set of constant operators that the ring engine      *)
(* (AdminRing) applies to its state.                                       *)
(*                                                                         *)
(* A 64-byte command is abstracted to the distinctions the code makes:     *)
(*   op   the opcode, split where the feature id changes the behaviour     *)
(*   cid  the command identifier                                           *)
(*   ok   whether the header and the operand checks of that opcode pass    *)
(*        (fuse byte and metadata pointer zero, queue id 1, contiguous     *)
(*        mapped queue, known feature id, ...)                             *)
(*   arg  the operand: IEN of Create CQ, the value of a Set, the number of *)
(*        memory spans the PRP pair of a data command resolves to (0: not  *)
(*        resolvable)                                                      *)
(***************************************************************************)
EXTENDS Naturals

CONSTANTS Cids,        \* command identifiers the driver uses
          GenModulus   \* size of the descriptor generation counters (2^64)

ASSUME CidsAssumption == Cids \subseteq Nat /\ 0 \in Cids

ASSUME GenAssumption == GenModulus \in Nat /\ GenModulus >= 2

\* Opcodes 1/5/0/4 (queues), 9/10 (features, feature 6 apart), 12, 8, 2/6, other.
Ops == {"CreateSQ", "CreateCQ", "DeleteSQ", "DeleteCQ", "SetCache", "GetCache",
        "SetFeature", "GetFeature", "AER", "Abort", "Data", "Reserved"}

\* An accepted Set of the cache policy has operand 0 or 1 (dw[1]&~1u is refused).
AllCommands ==
    {c \in [op : Ops, cid : Cids, ok : BOOLEAN, arg : 0..2] :
        c.op = "SetCache" /\ c.ok => c.arg \in 0..1}

\* What a zeroed submission slot decodes to: Delete I/O SQ with queue id 0.
ZeroCommand == [op |-> "DeleteSQ", cid |-> 0, ok |-> FALSE, arg |-> 0]

Success == 0
InvalidOpcode == 1
InvalidField == 2
InternalError == 6
AerLimitExceeded == 261      \* 0x105
InvalidQueueDeletion == 268  \* 0x10c

Statuses == {Success, InvalidOpcode, InvalidField, InternalError,
             AerLimitExceeded, InvalidQueueDeletion}

\* struct nwoas_admin_state.  feature stands for any one element of features[].
AdminStates ==
    [sq : BOOLEAN, cq : BOOLEAN, ien : BOOLEAN,
     sqGen : 0..GenModulus-1, cqGen : 0..GenModulus-1,
     aer : BOOLEAN, aerCid : Cids, feature : 0..2]

NextGen(g) == (g + 1) % GenModulus

\* nwoas_admin_init: empty queues, generation 0, then a full reset.
AdminInit ==
    [sq |-> FALSE, cq |-> FALSE, ien |-> FALSE, sqGen |-> 0, cqGen |-> 0,
     aer |-> FALSE, aerCid |-> 0, feature |-> 0]

\* nwoas_admin_reset: a queue that existed counts as one more descriptor change.
AdminReset(s, full) ==
    [sq |-> FALSE, cq |-> FALSE, ien |-> FALSE,
     sqGen |-> IF s.sq THEN NextGen(s.sqGen) ELSE s.sqGen,
     cqGen |-> IF s.cq THEN NextGen(s.cqGen) ELSE s.cqGen,
     aer |-> FALSE, aerCid |-> 0,
     feature |-> IF full THEN 0 ELSE s.feature]

CreateQueue(s, c) ==
    IF c.op = "CreateCQ"
    THEN [s EXCEPT !.cq = TRUE, !.ien = (c.arg = 1), !.cqGen = NextGen(s.cqGen)]
    ELSE [s EXCEPT !.sq = TRUE, !.sqGen = NextGen(s.sqGen)]

DeleteQueue(s, c) ==
    IF c.op = "DeleteCQ"
    THEN [s EXCEPT !.cq = FALSE, !.ien = FALSE, !.cqGen = NextGen(s.cqGen)]
    ELSE [s EXCEPT !.sq = FALSE, !.sqGen = NextGen(s.sqGen)]

\* A completion queue outlives the submission queue that completes into it.
DeleteCqStatus(s) ==
    IF ~s.cq THEN InvalidField ELSE IF s.sq THEN InvalidQueueDeletion ELSE Success

\* The checks of each opcode against the state, in the code's order.
Status(s, c, setCacheOk) ==
    IF ~c.ok THEN InvalidField
    ELSE CASE c.op = "CreateCQ" -> IF s.cq THEN InvalidField ELSE Success
           [] c.op = "CreateSQ" -> IF s.sq \/ ~s.cq THEN InvalidField ELSE Success
           [] c.op = "DeleteSQ" -> IF ~s.sq THEN InvalidField ELSE Success
           [] c.op = "DeleteCQ" -> DeleteCqStatus(s)
           [] c.op = "SetCache" -> IF setCacheOk THEN Success ELSE InternalError
           [] c.op = "AER" -> IF s.aer THEN AerLimitExceeded ELSE Success
           [] c.op = "Reserved" -> InvalidOpcode
           [] OTHER -> Success

ChangedOnDelete(c, status) ==
    IF status = Success /\ c.op \in {"DeleteCQ", "DeleteSQ"} THEN {"cq", "sq"} ELSE {}

\* The descriptors and policies a successful command changes: result.changed.
Changed(c, status) ==
    IF status # Success THEN {}
    ELSE CASE c.op \in {"CreateCQ", "DeleteCQ"} -> {"cq"}
           [] c.op \in {"CreateSQ", "DeleteSQ"} -> {"sq"}
           [] c.op = "SetCache" -> {"cache"}
           [] OTHER -> {}

\* The admin state after nwoas_admin_execute returned the given status.
Execute(s, c, status) ==
    IF status # Success THEN s
    ELSE CASE c.op \in {"CreateCQ", "CreateSQ"} -> CreateQueue(s, c)
           [] c.op \in {"DeleteCQ", "DeleteSQ"} -> DeleteQueue(s, c)
           [] c.op = "SetFeature" -> [s EXCEPT !.feature = c.arg]
           [] c.op = "AER" -> [s EXCEPT !.aer = TRUE, !.aerCid = c.cid]
           [] OTHER -> s

\* result.deferred: the first AER is held and gets no completion.
Deferred(c, status) == c.op = "AER" /\ status = Success

\* Completion dword 0: the policy or feature value a Get or a Set reports.
Result(s, c, status, cacheAfter) ==
    IF status # Success THEN 0
    ELSE CASE c.op \in {"SetCache", "GetCache"} -> cacheAfter
           [] c.op \in {"SetFeature", "GetFeature"} -> Execute(s, c, status).feature
           [] c.op = "Abort" -> 1
           [] OTHER -> 0
=============================================================================
