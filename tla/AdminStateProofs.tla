-------------------------- MODULE AdminStateProofs --------------------------
(***************************************************************************)
(* Facts about the admin command interpreter and about cursors that wrap,  *)
(* for the proofs of the ring engine and of the frontend.                  *)
(***************************************************************************)
EXTENDS AdminState, TLAPS

(***************************************************************************)
(* Ring arithmetic.                                                        *)
(***************************************************************************)
\* A number below the modulus is its own remainder.
LEMMA ModSmall == \A d \in Nat : \A n \in Nat : n < d => n % d = n
  OBVIOUS

\* A number in the second period loses the modulus once.
LEMMA ModBig == \A d \in Nat : \A n \in Nat : n >= d /\ n < 2 * d => n % d = n - d
  OBVIOUS

\* The next slot of a ring of d slots.
LEMMA RingNext ==
    ASSUME NEW d \in Nat, d >= 1, NEW i \in 0..d-1
    PROVE  /\ (i + 1) % d = IF i + 1 = d THEN 0 ELSE i + 1
           /\ (i + 1) % d \in 0..d-1
  <1>1. CASE i + 1 = d
    BY <1>1
  <1>2. CASE i + 1 < d
    <2>1. (i + 1) % d = i + 1
      BY <1>2, ModSmall
    <2> QED BY <2>1, <1>2
  <1> QED BY <1>1, <1>2

\* The slots from one cursor to another around a ring of d slots.
LEMMA RingDistance ==
    ASSUME NEW d \in Nat, d >= 1, NEW a \in 0..d-1, NEW b \in 0..d-1
    PROVE  /\ (b + d - a) % d = IF b >= a THEN b - a ELSE b + d - a
           /\ (b + d - a) % d \in 0..d-1
  <1>1. CASE b < a
    <2>1. (b + d - a) % d = b + d - a
      BY <1>1, Z3
    <2> QED BY <2>1, <1>1
  <1>2. CASE b >= a
    <2>1. PICK n \in Nat : n = b + d - a
      BY <1>2
    <2>2. n >= d /\ n < 2 * d
      BY <2>1, <1>2
    <2>3. n % d = n - d
      BY <2>2, ModBig
    <2> QED BY <2>1, <2>3, <1>2
  <1> QED BY <1>1, <1>2

(***************************************************************************)
(* The admin command interpreter keeps its state in range.                 *)
(***************************************************************************)
\* Generations wrap inside their range.
LEMMA NextGenType ==
    ASSUME NEW g \in 0..GenModulus-1
    PROVE  NextGen(g) \in 0..GenModulus-1
  BY GenAssumption DEF NextGen

\* The initial admin state is well formed.
LEMMA AdminInitType == AdminInit \in AdminStates
  BY GenAssumption, CidsAssumption DEF AdminInit, AdminStates

\* A reset keeps the admin state well formed.
LEMMA AdminResetType ==
    ASSUME NEW s \in AdminStates, NEW full \in BOOLEAN
    PROVE  AdminReset(s, full) \in AdminStates
  <1>1. NextGen(s.sqGen) \in 0..GenModulus-1 /\ NextGen(s.cqGen) \in 0..GenModulus-1
    BY NextGenType DEF AdminStates
  <1> QED BY <1>1, CidsAssumption DEF AdminReset, AdminStates

\* The status of a command is one of those the controller reports.
LEMMA StatusType ==
    ASSUME NEW s, NEW c, NEW ok
    PROVE  Status(s, c, ok) \in Statuses
  BY DEF Status, DeleteCqStatus, Statuses

\* Executing a command keeps the admin state well formed.
LEMMA ExecuteType ==
    ASSUME NEW s \in AdminStates, NEW c \in AllCommands, NEW status
    PROVE  Execute(s, c, status) \in AdminStates
  <1>1. NextGen(s.sqGen) \in 0..GenModulus-1 /\ NextGen(s.cqGen) \in 0..GenModulus-1
    BY NextGenType DEF AdminStates
  <1>2. CreateQueue(s, c) \in AdminStates
    BY <1>1 DEF CreateQueue, AdminStates
  <1>3. DeleteQueue(s, c) \in AdminStates
    BY <1>1 DEF DeleteQueue, AdminStates
  <1>4. [s EXCEPT !.feature = c.arg] \in AdminStates
    BY DEF AdminStates, AllCommands
  <1>5. [s EXCEPT !.aer = TRUE, !.aerCid = c.cid] \in AdminStates
    BY DEF AdminStates, AllCommands
  <1> QED BY <1>2, <1>3, <1>4, <1>5 DEF Execute

\* Completion dword 0 is a policy or feature value.
LEMMA ResultType ==
    ASSUME NEW s \in AdminStates, NEW c \in AllCommands, NEW status, NEW k \in 0..1
    PROVE  Result(s, c, status, k) \in 0..2
  <1>1. Execute(s, c, status).feature \in 0..2
    BY ExecuteType DEF AdminStates
  <1> QED BY <1>1 DEF Result

(***************************************************************************)
(* What a command changes.                                                 *)
(***************************************************************************)
\* A generation differs from the one before it.
LEMMA NextGenDiffers ==
    ASSUME NEW g \in 0..GenModulus-1
    PROVE  NextGen(g) # g
  <1>1. NextGen(g) = IF g + 1 = GenModulus THEN 0 ELSE g + 1
    BY RingNext, GenAssumption DEF NextGen
  <1> QED BY <1>1, GenAssumption

\* result.changed tells the adapter the truth: a descriptor it does not name is
\* as before, and the one that it names has a new generation.
LEMMA ChangedIsTrue ==
    ASSUME NEW s \in AdminStates, NEW c \in AllCommands, NEW status
    PROVE  LET t == Execute(s, c, status)
               ch == Changed(c, status)
           IN  /\ "sq" \notin ch => t.sq = s.sq /\ t.sqGen = s.sqGen
               /\ "cq" \notin ch => t.cq = s.cq /\ t.ien = s.ien /\ t.cqGen = s.cqGen
               /\ "sq" \in ch => t.sqGen = NextGen(s.sqGen) /\ "cq" \notin ch
               /\ "cq" \in ch => t.cqGen = NextGen(s.cqGen) /\ "sq" \notin ch
  <1> USE DEF AdminStates, AllCommands, Ops, Execute, Changed
  <1>1. CASE status # Success
    BY <1>1
  <1>2. CASE status = Success /\ c.op \in {"CreateSQ", "CreateCQ"}
    BY <1>2 DEF CreateQueue
  <1>3. CASE status = Success /\ c.op \in {"DeleteSQ", "DeleteCQ"}
    BY <1>3 DEF DeleteQueue
  <1>4. CASE status = Success /\ c.op \in {"SetFeature", "AER"}
    BY <1>4
  <1>5. CASE status = Success /\ c.op \in Ops \ {"CreateSQ", "CreateCQ", "DeleteSQ", "DeleteCQ",
                                               "SetFeature", "AER"}
    BY <1>5
  <1> QED BY <1>1, <1>2, <1>3, <1>4, <1>5

\* With the checks of Status, a submission queue always has its completion queue,
\* and a completion queue comes and goes only while there is no submission queue.
LEMMA PairKept ==
    ASSUME NEW s \in AdminStates, s.sq => s.cq, NEW c \in AllCommands, NEW ok \in BOOLEAN
    PROVE  LET t == Execute(s, c, Status(s, c, ok))
           IN  (t.sq => t.cq) /\ ("cq" \in Changed(c, Status(s, c, ok)) => ~t.sq)
  <1> DEFINE st == Status(s, c, ok)
  <1> USE DEF AdminStates, AllCommands, Execute, Changed
  <1>1. CASE st # Success
    BY <1>1
  <1>2. CASE st = Success /\ c.op = "CreateSQ"
    <2>1. s.cq
      BY <1>2 DEF Status, Success, InvalidField
    <2> QED BY <1>2, <2>1 DEF CreateQueue
  <1>3. CASE st = Success /\ c.op = "DeleteCQ"
    <2>1. ~s.sq
      BY <1>3 DEF Status, DeleteCqStatus, Success, InvalidField, InvalidQueueDeletion
    <2> QED BY <1>3, <2>1 DEF DeleteQueue
  <1>4. CASE st = Success /\ c.op = "CreateCQ"
    <2>1. ~s.cq
      BY <1>4 DEF Status, Success, InvalidField
    <2> QED BY <1>4, <2>1 DEF CreateQueue
  <1>5. CASE st = Success /\ c.op = "DeleteSQ"
    BY <1>5 DEF DeleteQueue
  <1>6. CASE st = Success /\ c.op \notin {"CreateSQ", "CreateCQ", "DeleteSQ", "DeleteCQ"}
    <2> HIDE DEF st
    <2> QED BY <1>6
  <1> QED BY <1>1, <1>2, <1>3, <1>4, <1>5, <1>6
=============================================================================
