-------------------------- MODULE JobMailboxProofs --------------------------
(***************************************************************************)
(* Proofs about JobMailbox for every set of operators and of workers and   *)
(* every number of jobs, chunks, sessions and repetitions: in a session    *)
(* that has let in one worker no job is started twice and the log is       *)
(* exactly what that worker produced, whatever other workers try.          *)
(***************************************************************************)
EXTENDS JobMailbox, FiniteSetTheorems, SequenceTheorems, TLAPS

(***************************************************************************)
(* A worker holds the token of the host session it was started in.  While  *)
(* it writes, the frame carries its token and sequence number.             *)
(***************************************************************************)
Busy(x) == w[x].pc \in {"writing", "confirm"}
Mine(x) == w[x].token = session /\ w[x].pc \notin {"off", "stopped"}
Greeting(x) == Mine(x) /\ Busy(x) /\ w[x].msg.kind = "hello"
Reporting(x, kind) == Mine(x) /\ Busy(x) /\ w[x].msg.kind = kind
Started(k) == \E i \in 1..Len(ran) : ran[i].id = k

FrameOk(x) ==
    /\ w[x].token <= session
    /\ wire[x].phase # "none" => w[x].pc = "writing"
    /\ Busy(x) => /\ w[x].msg.token = w[x].token /\ w[x].msg.seq = w[x].seq
                  /\ w[x].msg.job = w[x].job
                  /\ w[x].msg.kind \in {"hello", "output", "done"}
    /\ w[x].msg.kind = "output" => w[x].msg.body # Torn
    /\ w[x].pc = "run" => w[x].job # 0
    /\ Busy(x) /\ w[x].msg.kind = "output" => w[x].job # 0

\* A worker with the session's token gets past its greeting only when its hello
\* has been answered.
Member(x) ==
    /\ Mine(x) /\ ~Greeting(x) => x \in joined
    /\ Greeting(x) /\ (w[x].pc = "confirm" \/ wire[x].ok) => x \in joined

\* Before a worker was let in nothing has run and no frame was accepted.
Virgin == ran = <<>> /\ sent = <<>> /\ log = <<>>
Admission ==
    /\ connected <=> joined # {}
    /\ ~connected => Virgin /\ last.token = 0

\* A hello that is acknowledged is the first one.
Greeted(x) == x \in joined /\ Greeting(x) /\ ack = w[x].seq => Virgin

\* The worker that serves this session has started every job of it, the one it
\* is running is not completed, and its output is in the log except for the
\* chunk on the wire.
Quiet == Len(sent) = Rank(Len(log))
Flying(x) ==
    /\ Len(sent) = Rank(Len(log)) + 1
    /\ sent[Len(sent)] = <<w[x].msg.job, w[x].msg.body>>
    /\ ack # w[x].seq
Serving(x) ==
    /\ Mine(x) /\ ~Greeting(x) => \A i \in 1..Len(ran) : ran[i].id <= w[x].last
    /\ Mine(x) /\ w[x].pc = "poll" => Quiet /\ ack = w[x].seq
    /\ Mine(x) /\ w[x].pc = "run" =>
          Quiet /\ Started(w[x].job) /\ w[x].job \notin completed /\ ack = w[x].seq
    /\ Reporting(x, "output") =>
          /\ Started(w[x].job) /\ w[x].job \notin completed
          /\ (Quiet /\ ack = w[x].seq) \/ Flying(x)
    /\ Reporting(x, "done") => Quiet /\ Started(w[x].job)

Frames == \A x \in Workers : FrameOk(x) /\ Member(x)
Service == (\A x \in Workers : Serving(x) /\ Greeted(x)) /\ Once /\ Faithful

\* The inductive invariant.
Inv == TypeOK /\ Frames /\ Admission /\ (Alone => Service)

(***************************************************************************)
(* Counting the whole chunks of the log.                                   *)
(***************************************************************************)
LEMMA RankIs ==
    ASSUME NEW i \in Nat
    PROVE  Rank(i) \in Nat /\ IsFiniteSet({j \in 1..i : Whole(j)}) /\ (i = 0 => Rank(i) = 0)
<1>1. IsFiniteSet(1..i)
  BY FS_Interval
<1>2. {j \in 1..i : Whole(j)} \in SUBSET (1..i)
  OBVIOUS
<1>3. IsFiniteSet({j \in 1..i : Whole(j)})
  BY <1>1, <1>2, FS_Subset
<1>4. Rank(i) \in Nat
  BY <1>3, FS_CardinalityType DEF Rank
<1>5. i = 0 => {j \in 1..i : Whole(j)} = {}
  OBVIOUS
<1> QED BY <1>3, <1>4, <1>5, FS_EmptySet DEF Rank

\* An entry appended to the log leaves the ranks of the earlier ones alone and
\* counts if it is whole.
LEMMA RankAppend ==
    ASSUME NEW S, NEW c \in S, log \in Seq(S), log' = Append(log, c),
           NEW n, n = Len(log)
    PROVE  /\ Len(log') = n + 1 /\ log'[n + 1] = c
           /\ \A i \in 1..n : Whole(i)' = Whole(i) /\ log'[i] = log[i]
           /\ \A i \in 0..n : Rank(i)' = Rank(i)
           /\ Rank(n + 1)' = Rank(n) + (IF c[2] # Torn THEN 1 ELSE 0)
<1>n. n \in Nat
  BY LenProperties
<1>1. Len(log') = n + 1 /\ log'[n + 1] = c /\ \A i \in 1..n : log'[i] = log[i]
  OBVIOUS
<1>2. \A i \in 1..n : Whole(i)' = Whole(i)
  BY <1>1 DEF Whole
<1>3. \A i \in 0..n : Rank(i)' = Rank(i)
  <2> SUFFICES ASSUME NEW i \in 0..n PROVE Rank(i)' = Rank(i)
    OBVIOUS
  <2>1. \A j \in 1..i : Whole(j)' = Whole(j)
    BY <1>2, <1>n
  <2>2. {j \in 1..i : Whole(j)'} = {j \in 1..i : Whole(j)}
    BY <2>1
  <2> QED BY <2>2 DEF Rank
<1>4. Whole(n + 1)' = (c[2] # Torn)
  BY <1>1 DEF Whole
<1>5. IsFiniteSet({j \in 1..n : Whole(j)})
  BY <1>n, RankIs
<1>6. {j \in 1..(n + 1) : Whole(j)'} =
        IF c[2] # Torn THEN {j \in 1..n : Whole(j)} \cup {n + 1} ELSE {j \in 1..n : Whole(j)}
  <2>1. 1..(n + 1) = (1..n) \cup {n + 1}
    BY <1>n
  <2> QED BY <2>1, <1>2, <1>4, <1>n
<1>7. n + 1 \notin {j \in 1..n : Whole(j)}
  BY <1>n
<1>8. Rank(n + 1)' = Rank(n) + (IF c[2] # Torn THEN 1 ELSE 0)
  <2>1. CASE c[2] # Torn
    <3>1. Cardinality({j \in 1..n : Whole(j)} \cup {n + 1}) = Cardinality({j \in 1..n : Whole(j)}) + 1
      BY <1>5, <1>7, FS_AddElement
    <3> QED BY <2>1, <3>1, <1>6 DEF Rank
  <2>2. CASE ~(c[2] # Torn)
    <3>1. Rank(n) \in Nat
      BY <1>n, RankIs
    <3>2. Rank(n + 1)' = Rank(n)
      BY <2>2, <1>6 DEF Rank
    <3> QED BY <2>2, <3>1, <3>2
  <2> QED BY <2>1, <2>2
<1> QED BY <1>1, <1>2, <1>3, <1>8, <1>n

(***************************************************************************)
(* How the invariant is taken from one state to the next.                  *)
(***************************************************************************)
Books == <<session, ack, connected, completed, log, ran, sent>>

LEMMA BooksKept ==
    ASSUME UNCHANGED Books
    PROVE  /\ Once' = Once /\ Faithful' = Faithful
           /\ Virgin' = Virgin /\ Quiet' = Quiet
           /\ \A k : Started(k)' = Started(k)
           /\ Rank(Len(log))' = Rank(Len(log))
<1>1. \A i : Rank(i)' = Rank(i) /\ Whole(i)' = Whole(i)
  BY DEF Books, Rank, Whole
<1>2. Once' = Once
  BY DEF Once, Books
<1>4. Rank(Len(log))' = Rank(Len(log))
  BY DEF Books, Rank, Whole
<1>5. Faithful' = Faithful
  BY <1>1, <1>4 DEF Faithful, Books
<1>6. Virgin' = Virgin
  BY DEF Virgin, Books
<1>7. Quiet' = Quiet
  BY <1>4 DEF Quiet, Books
<1>8. \A k : Started(k)' = Started(k)
  BY DEF Started, Books
<1> QED BY <1>2, <1>4, <1>5, <1>6, <1>7, <1>8

\* With the books untouched a worker that does not move serves as before.
LEMMA ServiceKept ==
    ASSUME Inv, Alone, NEW y \in Workers, w'[y] = w[y], UNCHANGED Books,
           y \in joined' => y \in joined
    PROVE  Serving(y)' /\ Greeted(y)'
<1>1. Serving(y) /\ Greeted(y)
  BY DEF Inv, Service
<1>2. /\ Virgin' = Virgin /\ Quiet' = Quiet /\ Rank(Len(log))' = Rank(Len(log))
      /\ \A k : Started(k)' = Started(k)
  BY BooksKept
<1>3. Busy(y)' = Busy(y) /\ Mine(y)' = Mine(y)
  BY DEF Busy, Mine, Books
<1>4. Greeting(y)' = Greeting(y) /\ \A k : Reporting(y, k)' = Reporting(y, k)
  BY <1>3 DEF Greeting, Reporting
<1>5. Flying(y)' = Flying(y)
  BY <1>2 DEF Flying, Books
<1>6. Greeted(y)'
  BY <1>1, <1>2, <1>4 DEF Greeted, Books
<1>7. Serving(y)'
  BY <1>1, <1>2, <1>3, <1>4, <1>5 DEF Serving, Books
<1> QED BY <1>6, <1>7

\* A worker whose own state a step leaves alone keeps what is known of it, if
\* the step leaves the books alone or is a step of a worker that is let in.
LEMMA BystanderKept ==
    ASSUME Inv, NEW y \in Workers, w'[y] = w[y], wire'[y] = wire[y], session' = session,
           joined \subseteq joined', y \in joined' => y \in joined,
           \/ UNCHANGED Books
           \/ \E x \in joined' : x # y
    PROVE  /\ FrameOk(y)' /\ Member(y)'
           /\ Alone' => Serving(y)' /\ Greeted(y)'
<1>1. Busy(y)' = Busy(y) /\ Mine(y)' = Mine(y)
  BY DEF Busy, Mine
<1>2. Greeting(y)' = Greeting(y) /\ \A k : Reporting(y, k)' = Reporting(y, k)
  BY <1>1 DEF Greeting, Reporting
<1>3. FrameOk(y) /\ Member(y)
  BY DEF Inv, Frames
<1>4. FrameOk(y)'
  BY <1>1, <1>3 DEF FrameOk
<1>5. Member(y)'
  BY <1>1, <1>2, <1>3 DEF Member
<1>6. ASSUME Alone' PROVE Serving(y)' /\ Greeted(y)'
  <2>1. CASE UNCHANGED Books
    <3>1. Alone
      BY <1>6 DEF Alone
    <3> QED BY <2>1, <3>1, ServiceKept
  <2>2. CASE \E x \in joined' : x # y
    <3>1. y \notin joined'
      BY <2>2, <1>6 DEF Alone
    <3>2. ~(Mine(y)' /\ ~Greeting(y)')
      BY <3>1, <1>5 DEF Member
    <3>3. Greeted(y)'
      BY <3>1 DEF Greeted
    <3>4. Serving(y)'
      BY <3>2 DEF Serving, Reporting, Greeting, Busy
    <3> QED BY <3>3, <3>4
  <2> QED BY <2>1, <2>2
<1> QED BY <1>4, <1>5, <1>6

\* A step of worker x.
LEMMA OneWorkerStep ==
    ASSUME Inv, NEW x \in Workers, session' = session,
           \A y \in Workers \ {x} : w'[y] = w[y] /\ wire'[y] = wire[y],
           joined \subseteq joined', joined' \subseteq joined \cup {x},
           UNCHANGED Books \/ x \in joined',
           TypeOK', Admission', FrameOk(x)', Member(x)',
           Alone' => Serving(x)' /\ Greeted(x)' /\ Once' /\ Faithful'
    PROVE  Inv'
<1>1. ASSUME NEW y \in Workers, y # x
      PROVE  FrameOk(y)' /\ Member(y)' /\ (Alone' => Serving(y)' /\ Greeted(y)')
  <2>1. w'[y] = w[y] /\ wire'[y] = wire[y] /\ (y \in joined' => y \in joined)
    BY <1>1
  <2>2. UNCHANGED Books \/ \E z \in joined' : z # y
    BY <1>1
  <2> QED BY <2>1, <2>2, BystanderKept
<1>2. Frames'
  BY <1>1 DEF Frames
<1>3. Alone' => Service'
  BY <1>1 DEF Service
<1> QED BY <1>2, <1>3 DEF Inv

\* A step of worker x that leaves the books alone.
LEMMA QuietStep ==
    ASSUME Inv, NEW x \in Workers, UNCHANGED <<Books, last, jobFile, op, joined>>, job' \in Jobs,
           NEW u \in WorkerStates, w' = [w EXCEPT ![x] = u],
           NEW v \in Writes, wire' = [wire EXCEPT ![x] = v],
           FrameOk(x)', Member(x)', Alone => Serving(x)' /\ Greeted(x)'
    PROVE  Inv'
<1>1. w \in [Workers -> WorkerStates] /\ wire \in [Workers -> Writes]
  BY DEF Inv, TypeOK
<1>2. \A y \in Workers \ {x} : w'[y] = w[y] /\ wire'[y] = wire[y]
  BY <1>1
<1>3. w' \in [Workers -> WorkerStates] /\ wire' \in [Workers -> Writes]
  BY <1>1
<1>4. UNCHANGED Books /\ session' = session /\ joined' = joined
  BY DEF Books
<1>5. TypeOK'
  BY <1>3 DEF Inv, TypeOK, Books
<1>6. /\ Once' = Once /\ Faithful' = Faithful /\ Virgin' = Virgin
  BY <1>4, BooksKept
<1>7. Admission'
  BY <1>6 DEF Inv, Admission, Books
<1>8. Alone' = Alone
  BY <1>4 DEF Alone
<1>9. Alone' => Serving(x)' /\ Greeted(x)' /\ Once' /\ Faithful'
  BY <1>6, <1>8 DEF Inv, Service
<1> QED BY <1>2, <1>4, <1>5, <1>7, <1>9, OneWorkerStep

\* A step of the host or of another reader.
LEMMA HostStep ==
    ASSUME Inv, UNCHANGED <<Books, w, wire, joined, last>>, job' \in Jobs, jobFile' \in Jobs,
           op' \in [Operators -> 0..MaxJobs]
    PROVE  Inv'
<1>1. TypeOK'
  BY DEF Inv, TypeOK, Books
<1>2. UNCHANGED Books /\ session' = session /\ joined' = joined /\ w' = w /\ wire' = wire
  BY DEF Books
<1>3. /\ Once' = Once /\ Faithful' = Faithful /\ Virgin' = Virgin
  BY <1>2, BooksKept
<1>4. Admission'
  BY <1>3 DEF Inv, Admission, Books
<1>5. Alone' = Alone
  BY <1>2 DEF Alone
<1>6. \A y \in Workers : FrameOk(y)' /\ Member(y)' /\ (Alone' => Serving(y)' /\ Greeted(y)')
  BY <1>2, BystanderKept
<1>7. Frames' /\ (Alone' => Service')
  BY <1>3, <1>5, <1>6 DEF Inv, Frames, Service
<1> QED BY <1>1, <1>4, <1>7 DEF Inv

\* Looking at the job file gives a job.
LEMMA LatchedIs ==
    ASSUME TypeOK
    PROVE  /\ Latched \in Jobs /\ Offered \in Jobs
           /\ Offered.id # 0 => Offered.id \notin completed
<1>1. NoJob \in Jobs
  BY MailboxAssumption DEF NoJob, Jobs
<1>2. Latched \in Jobs
  BY DEF TypeOK, Latched
<1> QED BY <1>1, <1>2 DEF Offered, NoJob

LEMMA QueueStep ==
    ASSUME Inv, NEW o \in Operators, QueueRead(o) \/ QueueWrite(o)
    PROVE  Inv'
<1>1. CASE QueueRead(o)
  <2>1. op' \in [Operators -> 0..MaxJobs] /\ UNCHANGED <<Books, w, wire, joined, last>>
    BY <1>1, MailboxAssumption, SMTT(60) DEF QueueRead, Inv, TypeOK, Jobs, Books, hostVars
  <2>2. job' \in Jobs /\ jobFile' \in Jobs
    BY <1>1 DEF QueueRead, Inv, TypeOK, hostVars
  <2> QED BY <2>1, <2>2, HostStep
<1>2. CASE QueueWrite(o)
  <2>1. UNCHANGED <<Books, w, wire, joined, last>> /\ job' \in Jobs
    BY <1>2 DEF QueueWrite, Inv, TypeOK, Books
  <2>2. op' \in [Operators -> 0..MaxJobs]
    BY <1>2, MailboxAssumption DEF QueueWrite, Inv, TypeOK
  <2>3. op[o] \in 0..MaxJobs
    BY DEF Inv, TypeOK
  <2>4. jobFile' \in Jobs
    BY <1>2, <2>3 DEF QueueWrite, Jobs
  <2> QED BY <2>1, <2>2, <2>4, HostStep
<1> QED BY <1>1, <1>2

LEMMA OtherReadStep ==
    ASSUME Inv, OtherRead
    PROVE  Inv'
<1>1. UNCHANGED <<Books, w, wire, joined, last>> /\ jobFile' \in Jobs
      /\ op' \in [Operators -> 0..MaxJobs]
  BY DEF OtherRead, Inv, TypeOK, Books
<1>2. job' \in Jobs
  BY LatchedIs DEF OtherRead, Inv
<1> QED BY <1>1, <1>2, HostStep

LEMMA RestartStep ==
    ASSUME Inv, HostRestart
    PROVE  Inv'
<1>1. NoJob \in Jobs /\ NoMessage \in Messages
  BY MailboxAssumption DEF NoJob, Jobs, NoMessage, Messages
<1>2. TypeOK'
  <2>1. session' \in 1..MaxSessions /\ ack' \in Nat /\ last' \in Messages /\ job' \in Jobs
        /\ jobFile' \in Jobs
    BY <1>1, MailboxAssumption DEF HostRestart, Inv, TypeOK
  <2>2. connected' \in BOOLEAN /\ completed' \subseteq 1..MaxJobs
        /\ op' \in [Operators -> 0..MaxJobs] /\ joined' \subseteq Workers
    <3>1. 0 \in 0..MaxJobs
      BY MailboxAssumption
    <3> QED BY <3>1, Zenon DEF HostRestart
  <2>3. log' \in Seq((1..MaxJobs) \X (0..MaxChunks)) /\ ran' \in Seq(Jobs)
        /\ sent' \in Seq((1..MaxJobs) \X (1..MaxChunks))
    BY DEF HostRestart
  <2> QED BY <2>1, <2>2, <2>3 DEF HostRestart, Inv, TypeOK
<1>3. session' = session + 1 /\ w' = w /\ wire' = wire /\ session \in Nat
  BY MailboxAssumption DEF HostRestart, Inv, TypeOK
<1>4. ASSUME NEW x \in Workers
      PROVE  FrameOk(x)' /\ Member(x)' /\ Serving(x)' /\ Greeted(x)'
  <2>1. FrameOk(x) /\ w[x].token \in Nat
    BY MailboxAssumption DEF Inv, Frames, TypeOK, WorkerStates
  <2>2. ~Mine(x)' /\ ~Greeting(x)' /\ \A k : ~Reporting(x, k)'
    BY <1>3, <2>1 DEF FrameOk, Mine, Greeting, Reporting
  <2>3. FrameOk(x)'
    BY <1>3, <2>1 DEF FrameOk, Busy
  <2> QED BY <2>2, <2>3 DEF Member, Serving, Greeted
<1>5. Admission'
  BY DEF Admission, Virgin, HostRestart, NoMessage
<1>6. Once' /\ Faithful'
  <2>1. Rank(Len(log))' \in Nat
    <3>1. Len(log)' = 0
      BY DEF HostRestart
    <3>2. {j \in 1..Len(log)' : Whole(j)'} = {}
      BY <3>1
    <3> QED BY <3>2, FS_EmptySet DEF Rank
  <2> QED BY <2>1 DEF Once, Faithful, HostRestart
<1> QED BY <1>2, <1>4, <1>5, <1>6 DEF Inv, Frames, Service

(***************************************************************************)
(* The write reaches the host.                                             *)
(***************************************************************************)
LEMMA ReissueStep ==
    ASSUME Inv, NEW x \in Workers, Reissue(x)
    PROVE  Inv'
<1> DEFINE v == [wire[x] EXCEPT !.phase = "issued", !.repeats = @ + 1]
<1>1. wire[x] \in Writes /\ wire[x].phase = "answered" /\ wire[x].repeats < MaxRepeats
      /\ w \in [Workers -> WorkerStates] /\ wire \in [Workers -> Writes]
  BY DEF Reissue, Inv, TypeOK
<1>2. wire[x].repeats + 1 \in 0..MaxRepeats
  BY <1>1, MailboxAssumption DEF Writes
<1>3. v \in Writes /\ v.ok = wire[x].ok
  BY <1>1, <1>2 DEF Writes
<1>4. wire' = [wire EXCEPT ![x] = v]
  BY <1>1 DEF Reissue
<1> HIDE DEF v
<1>5. w' = [w EXCEPT ![x] = w[x]] /\ w[x] \in WorkerStates /\ w' = w
  BY <1>1 DEF Reissue
<1>6. UNCHANGED <<Books, last, jobFile, op, joined>> /\ job' \in Jobs
  BY DEF Reissue, Inv, TypeOK, Books, hostVars
<1>7. FrameOk(x) /\ Member(x) /\ wire'[x] = v
  BY <1>1, <1>4 DEF Inv, Frames
<1>8. FrameOk(x)' /\ Member(x)'
  BY <1>1, <1>3, <1>5, <1>6, <1>7 DEF FrameOk, Member, Busy, Mine, Greeting, Books
<1>9. Alone => Serving(x)' /\ Greeted(x)'
  BY <1>5, <1>6, ServiceKept
<1> QED BY <1>3, <1>4, <1>5, <1>6, <1>8, <1>9, QuietStep

\* What a worker whose frame is accepted is known to be.
LEMMA AcceptedIs ==
    ASSUME Inv, NEW x \in Workers, wire[x].phase = "issued", Accepts(w[x].msg)
    PROVE  /\ w[x].pc = "writing" /\ Busy(x) /\ Mine(x)
           /\ w[x].msg.seq = w[x].seq /\ w[x].seq = ack + 1
           /\ w[x].msg.job = w[x].job /\ ack # w[x].seq
           /\ w[x].msg.kind \in {"hello", "output", "done"}
           /\ w[x].msg.kind = "hello" => joined = {} /\ Virgin
           /\ w[x].msg.kind # "hello" => /\ x \in joined /\ connected
                                         /\ w[x].job \in 1..MaxJobs /\ w[x].job \notin completed
           /\ w[x].msg.kind = "output" => w[x].msg.body \in 1..MaxChunks
           /\ Alone /\ w[x].msg.kind = "output" => Flying(x) /\ Started(w[x].job)
           /\ Alone /\ w[x].msg.kind = "done" => Quiet /\ Started(w[x].job)
<1>0. FrameOk(x) /\ Member(x) /\ w[x] \in WorkerStates
  BY DEF Inv, Frames, TypeOK
<1>1. w[x].pc = "writing" /\ Busy(x)
  BY <1>0 DEF FrameOk, Busy
<1>2. /\ w[x].msg.token = w[x].token /\ w[x].msg.seq = w[x].seq /\ w[x].msg.job = w[x].job
      /\ w[x].msg.kind \in {"hello", "output", "done"}
  BY <1>0, <1>1 DEF FrameOk
<1>3. w[x].msg.token = session /\ w[x].msg.seq = ack + 1
  BY DEF Accepts, Addressed
<1>4. Mine(x)
  BY <1>1, <1>2, <1>3 DEF Mine
<1>5. ack # w[x].seq
  BY <1>2, <1>3 DEF Inv, TypeOK
<1>6. w[x].msg.kind = "hello" => joined = {} /\ Virgin
  BY DEF Accepts, Inv, Admission
<1>7. w[x].msg.kind # "hello" => connected /\ w[x].job \notin completed /\ x \in joined
  BY <1>0, <1>2, <1>4 DEF Accepts, Member, Greeting
<1>8. w[x].msg.kind # "hello" => w[x].job \in 1..MaxJobs
  <2>1. w[x].msg.kind # "hello" => job.id # 0 /\ w[x].job = job.id
    BY <1>2 DEF Accepts, Addressed
  <2>2. w[x].job \in 0..MaxJobs
    BY <1>0 DEF WorkerStates
  <2> QED BY <2>1, <2>2
<1>9. Alone => Serving(x)
  BY DEF Inv, Service
<1>10. Alone /\ w[x].msg.kind = "output" => Flying(x) /\ Started(w[x].job)
  BY <1>1, <1>4, <1>5, <1>9 DEF Serving, Reporting
<1>11. w[x].msg.kind = "output" => w[x].msg.body \in 1..MaxChunks
  <2>1. w[x].msg.body \in 0..MaxChunks
    BY <1>0 DEF WorkerStates, Messages
  <2> QED BY <2>1, <1>0 DEF FrameOk, Torn
<1>12. Alone /\ w[x].msg.kind = "done" => Quiet /\ Started(w[x].job)
  BY <1>1, <1>4, <1>9 DEF Serving, Reporting
<1> QED BY <1>1, <1>2, <1>3, <1>4, <1>5, <1>6, <1>7, <1>8, <1>10, <1>11, <1>12

\* A frame that is not accepted.
LEMMA RefusedStep ==
    ASSUME Inv, NEW x \in Workers, wire[x].phase = "issued", NEW b \in BOOLEAN,
           wire' = [wire EXCEPT ![x].phase = "answered", ![x].ok = b],
           b /\ w[x].msg.kind = "hello" => x \in joined,
           UNCHANGED <<hostVars, op, w, joined, ran, sent>>
    PROVE  Inv'
<1> DEFINE v == [wire[x] EXCEPT !.phase = "answered", !.ok = b]
<1>1. w \in [Workers -> WorkerStates] /\ wire \in [Workers -> Writes]
  BY DEF Inv, TypeOK
<1>2. v \in Writes /\ wire' = [wire EXCEPT ![x] = v] /\ v.ok = b
  BY <1>1 DEF Writes
<1> HIDE DEF v
<1>3. w' = [w EXCEPT ![x] = w[x]] /\ w[x] \in WorkerStates /\ w' = w /\ wire'[x] = v
  BY <1>1, <1>2
<1>4. UNCHANGED <<Books, last, jobFile, op, joined>> /\ job' \in Jobs
  BY DEF Inv, TypeOK, Books, hostVars
<1>5. FrameOk(x) /\ Member(x)
  BY DEF Inv, Frames
<1>6. FrameOk(x)' /\ Member(x)'
  BY <1>2, <1>3, <1>4, <1>5 DEF FrameOk, Member, Busy, Mine, Greeting, Books
<1>7. Alone => Serving(x)' /\ Greeted(x)'
  BY <1>3, <1>4, ServiceKept
<1> QED BY <1>2, <1>3, <1>4, <1>6, <1>7, QuietStep

\* A second worker's hello is answered as a repetition of the first one's: from
\* then on the session is shared.
LEMMA TwinStep ==
    ASSUME Inv, NEW x \in Workers, wire[x].phase = "issued",
           wire' = [wire EXCEPT ![x].phase = "answered", ![x].ok = TRUE],
           Repeated(w[x].msg), x \notin joined, joined' = joined \cup {x},
           UNCHANGED <<hostVars, op, w, ran, sent>>
    PROVE  Inv'
<1>1. w \in [Workers -> WorkerStates] /\ wire \in [Workers -> Writes] /\ session \in 1..MaxSessions
  BY DEF Inv, TypeOK
<1>2. last.token = session
  BY DEF Repeated, Addressed
<1>3. connected /\ joined # {}
  BY <1>1, <1>2 DEF Inv, Admission
<1>4. ~Alone'
  BY <1>3 DEF Alone
<1>5. wire' \in [Workers -> Writes] /\ \A y \in Workers \ {x} : wire'[y] = wire[y]
  BY <1>1 DEF Writes
<1>6. UNCHANGED Books /\ session' = session /\ w' = w
  BY DEF hostVars, Books
<1>7. TypeOK'
  BY <1>5 DEF Inv, TypeOK, hostVars
<1>8. Admission'
  BY <1>3 DEF Admission, hostVars
<1>9. FrameOk(x)' /\ Member(x)'
  <2>1. FrameOk(x)
    BY DEF Inv, Frames
  <2> QED BY <1>1, <1>6, <2>1 DEF FrameOk, Member, Busy
<1> QED BY <1>4, <1>5, <1>6, <1>7, <1>8, <1>9, OneWorkerStep

LEMMA ReceiveStep ==
    ASSUME Inv, NEW x \in Workers, Receive(x)
    PROVE  Inv'
<1> DEFINE m == w[x].msg
<1> DEFINE b == Accepts(m) \/ Repeated(m)
<1>1. /\ wire[x].phase = "issued"
      /\ wire' = [wire EXCEPT ![x].phase = "answered", ![x].ok = b]
      /\ joined' = IF b /\ m.kind = "hello" THEN joined \cup {x} ELSE joined
  BY DEF Receive
<1>2. b \in BOOLEAN
  BY DEF Accepts, Addressed, Repeated
<1>3. CASE ~Accepts(m)
  <2>1. UNCHANGED <<hostVars, op, w, ran, sent>>
    BY <1>3 DEF Receive, hostVars
  <2>2. CASE Repeated(m) /\ m.kind = "hello" /\ x \notin joined
    <3>1. b = TRUE
      BY <1>2, <2>2
    <3> HIDE DEF b
    <3> QED BY <1>1, <2>1, <2>2, <3>1, TwinStep
  <2>3. CASE ~(Repeated(m) /\ m.kind = "hello" /\ x \notin joined)
    <3>1. joined' = joined /\ (b /\ m.kind = "hello" => x \in joined)
      BY <1>1, <1>3, <2>3
    <3> HIDE DEF b
    <3> QED BY <1>1, <1>2, <2>1, <3>1, RefusedStep
  <2> QED BY <2>2, <2>3
<1>4. CASE Accepts(m)
  <2>1. /\ ack' = m.seq /\ last' = m
        /\ connected' = (connected \/ m.kind = "hello")
        /\ completed' = IF m.kind = "done" THEN completed \cup {m.job} ELSE completed
        /\ log' = Logged(m)
        /\ UNCHANGED <<session, job, jobFile, op, w, ran, sent>>
    BY <1>4 DEF Receive
  <2>0. wire \in [Workers -> Writes] /\ w[x] \in WorkerStates
    BY DEF Inv, TypeOK
  <2>2. wire' \in [Workers -> Writes] /\ \A y \in Workers \ {x} : w'[y] = w[y] /\ wire'[y] = wire[y]
    <3> HIDE DEF b
    <3> QED BY <1>1, <1>2, <2>0, <2>1 DEF Writes
  <2>3. /\ w[x].pc = "writing" /\ Busy(x) /\ Mine(x) /\ m.seq = w[x].seq /\ w[x].seq = ack + 1
        /\ m.job = w[x].job /\ ack # w[x].seq
        /\ m.kind \in {"hello", "output", "done"}
    BY <1>1, <1>4, AcceptedIs
  <2>4. Busy(x)' /\ Mine(x)' /\ w' = w /\ ack' = w[x].seq
    BY <2>1, <2>3 DEF Busy, Mine
  <2>5. FrameOk(x)'
    <3>1. FrameOk(x)
      BY DEF Inv, Frames
    <3> QED BY <2>1, <2>3, <3>1 DEF FrameOk, Busy
  <2>6. m \in Messages /\ connected \in BOOLEAN /\ m.seq \in Nat
    BY <2>0 DEF Inv, TypeOK, WorkerStates, Messages
  <2>7. connected' \in BOOLEAN
    BY <2>1
  <2>8. CASE m.kind = "hello"
    <3>1. joined = {} /\ Virgin
      BY <1>1, <1>4, <2>8, AcceptedIs
    <3>2. completed' = completed /\ log' = log /\ connected' = TRUE /\ joined' = {x}
      BY <1>1, <1>4, <2>1, <2>8, <3>1 DEF Logged
    <3>3. TypeOK'
      BY <2>1, <2>2, <2>6, <3>2 DEF Inv, TypeOK
    <3>4. Once' /\ Faithful' /\ Virgin'
      <4>0. Once /\ Faithful
        BY <3>1 DEF Inv, Service, Alone
      <4>1. \A i : Rank(i)' = Rank(i) /\ Whole(i)' = Whole(i)
        BY <3>2 DEF Rank, Whole
      <4>2. Rank(Len(log))' = Rank(Len(log))
        BY <3>2 DEF Rank, Whole
      <4> QED BY <2>1, <3>1, <3>2, <4>0, <4>1, <4>2 DEF Once, Faithful, Virgin
    <3>5. Admission' /\ Member(x)' /\ Greeted(x)' /\ Serving(x)'
      BY <2>4, <2>8, <2>3, <3>2, <3>4
      DEF Admission, Member, Greeted, Serving, Greeting, Reporting
    <3>6. joined \subseteq joined' /\ joined' \subseteq joined \cup {x} /\ x \in joined'
      BY <3>1, <3>2
    <3> QED BY <2>1, <2>2, <2>5, <3>3, <3>4, <3>5, <3>6, OneWorkerStep
  <2>9. CASE m.kind # "hello"
    <3>1. x \in joined /\ connected = TRUE /\ w[x].job \in 1..MaxJobs /\ w[x].job \notin completed
      BY <1>1, <1>4, <2>6, <2>9, AcceptedIs
    <3>2. joined' = joined /\ connected' = TRUE
      BY <1>1, <2>1, <2>9, <3>1
    <3>3. Admission' /\ Member(x)' /\ Greeted(x)'
      BY <2>1, <2>9, <3>1, <3>2 DEF Admission, Member, Greeted, Greeting
    <3>4. Alone' = Alone
      BY <3>2 DEF Alone
    <3>5. Alone => \A i \in 1..Len(ran') : ran'[i].id <= w'[x].last
      BY <2>1, <2>3, <2>9 DEF Inv, Service, Serving, Greeting
    <3>6. CASE m.kind = "done"
      <4>1. completed' = completed \cup {w[x].job} /\ log' = log
        BY <2>1, <2>3, <3>6 DEF Logged
      <4>2. TypeOK'
        <5>1. completed' \subseteq 1..MaxJobs
          BY <3>1, <4>1 DEF Inv, TypeOK
        <5> QED BY <2>1, <2>2, <2>6, <2>7, <3>2, <4>1, <5>1 DEF Inv, TypeOK
      <4>3. ASSUME Alone PROVE Serving(x)' /\ Once' /\ Faithful'
        <5>0. Once /\ Faithful
          BY <4>3 DEF Inv, Service
        <5>1. Quiet /\ Started(w[x].job)
          BY <1>1, <1>4, <3>6, <4>3, AcceptedIs
        <5>2. Rank(Len(log))' = Rank(Len(log)) /\ \A i : Rank(i)' = Rank(i) /\ Whole(i)' = Whole(i)
          BY <4>1 DEF Rank, Whole
        <5>3. Once'
          BY <2>1, <5>0 DEF Once
        <5>4. Quiet' /\ Started(w[x].job)'
          BY <2>1, <4>1, <5>1, <5>2 DEF Quiet, Started
        <5>5. \A i \in 1..Len(log') : Whole(i)' => Rank(i)' <= Len(sent') /\ log'[i] = sent'[Rank(i)']
          BY <2>1, <4>1, <5>0, <5>2 DEF Faithful
        <5>6. Len(sent)' <= Rank(Len(log))' + 1
          BY <2>1, <5>0, <5>2 DEF Faithful
        <5>7. ASSUME NEW k \in completed'
              PROVE  /\ \E i \in 1..Len(ran') : ran'[i].id = k
                     /\ \A i \in 1..Len(sent') : sent'[i][1] = k => i <= Rank(Len(log))'
          <6>1. CASE k \in completed
            BY <6>1, <2>1, <5>0, <5>2 DEF Faithful
          <6>2. CASE k = w[x].job
            BY <6>2, <5>4, <2>1, <5>1, <5>2 DEF Started, Quiet
          <6> QED BY <4>1, <6>1, <6>2
        <5>8. Faithful'
          BY <5>5, <5>6, <5>7 DEF Faithful
        <5>9. Serving(x)'
          BY <2>1, <2>3, <3>5, <3>6, <4>3, <5>4 DEF Serving, Reporting
        <5> QED BY <5>3, <5>8, <5>9
      <4> QED BY <2>1, <2>2, <2>5, <3>1, <3>2, <3>3, <3>4, <4>2, <4>3, OneWorkerStep
    <3>7. CASE m.kind = "output"
      <4>1. completed' = completed /\ log' = Append(log, <<w[x].job, m.body>>)
            /\ m.body \in 1..MaxChunks
        BY <1>1, <1>4, <2>1, <2>3, <3>7, AcceptedIs DEF Logged
      <4> DEFINE S == (1..MaxJobs) \X (0..MaxChunks)
      <4>2. <<w[x].job, m.body>> \in S /\ log \in Seq(S)
        BY <3>1, <4>1 DEF Inv, TypeOK
      <4>3. PICK n : n = Len(log)
        OBVIOUS
      <4>4. n \in Nat
        BY <4>2, <4>3, LenProperties
      <4>5. <<w[x].job, m.body>>[2] # Torn
        BY <4>1 DEF Torn
      <4>6. /\ Len(log') = n + 1 /\ log'[n + 1] = <<w[x].job, m.body>>
            /\ \A i \in 1..n : Whole(i)' = Whole(i) /\ log'[i] = log[i]
            /\ \A i \in 0..n : Rank(i)' = Rank(i)
            /\ Rank(n + 1)' = Rank(n) + 1
        <5> HIDE DEF S, m
        <5> QED BY <4>1, <4>2, <4>3, <4>5, RankAppend
      <4>7. Rank(Len(log))' = Rank(n) + 1 /\ Rank(n) \in Nat
        <5>1. Rank(Len(log))' = Rank(n + 1)'
          BY <4>6 DEF Rank
        <5> QED BY <5>1, <4>6, <4>4, RankIs
      <4>8. log' \in Seq(S)
        BY <4>1, <4>2
      <4>9. TypeOK'
        BY <2>1, <2>2, <2>6, <2>7, <3>2, <4>1, <4>8 DEF Inv, TypeOK
      <4>10. ASSUME Alone PROVE Serving(x)' /\ Once' /\ Faithful'
        <5>0. Once /\ Faithful
          BY <4>10 DEF Inv, Service
        <5>1. Flying(x) /\ Started(w[x].job)
          BY <1>1, <1>4, <3>7, <4>10, AcceptedIs
        <5>2. Len(sent) = Rank(n) + 1 /\ sent[Rank(n) + 1] = <<w[x].job, m.body>>
          BY <5>1, <4>3, <2>3 DEF Flying
        <5>3. Once'
          BY <2>1, <5>0 DEF Once
        <5>4. Quiet' /\ Started(w[x].job)'
          BY <2>1, <5>1, <4>7, <5>2 DEF Quiet, Started
        <5>5. ASSUME NEW i \in 1..Len(log'), Whole(i)'
              PROVE  Rank(i)' <= Len(sent') /\ log'[i] = sent'[Rank(i)']
          <6>1. CASE i \in 1..n
            <7>0. i \in 0..n
              BY <6>1, <4>4
            <7>1. Whole(i)' = Whole(i) /\ log'[i] = log[i] /\ Rank(i)' = Rank(i)
              BY <6>1, <7>0, <4>6
            <7>2. Rank(i) <= Len(sent) /\ log[i] = sent[Rank(i)]
              BY <6>1, <7>1, <4>3, <5>0, <5>5 DEF Faithful
            <7> QED BY <7>1, <7>2, <2>1
          <6>2. CASE i = n + 1
            BY <6>2, <4>6, <4>7, <5>2, <2>1
          <6> QED BY <6>1, <6>2, <4>4, <4>6
        <5>6. Len(sent)' <= Rank(Len(log))' + 1
          BY <2>1, <4>7, <5>2
        <5>7. ASSUME NEW k \in completed'
              PROVE  /\ \E i \in 1..Len(ran') : ran'[i].id = k
                     /\ \A i \in 1..Len(sent') : sent'[i][1] = k => i <= Rank(Len(log))'
          <6>1. \E i \in 1..Len(ran) : ran[i].id = k
            BY <4>1, <5>0 DEF Faithful
          <6> QED BY <6>1, <2>1, <4>7, <5>2
        <5>8. Faithful'
          BY <5>5, <5>6, <5>7 DEF Faithful
        <5>9. Serving(x)'
          BY <2>1, <2>3, <2>4, <3>1, <3>5, <3>7, <4>1, <4>10, <5>4 DEF Serving, Reporting
        <5> QED BY <5>3, <5>8, <5>9
      <4> QED BY <2>1, <2>2, <2>5, <3>1, <3>2, <3>3, <3>4, <4>9, <4>10, OneWorkerStep
    <3> QED BY <2>3, <2>9, <3>6, <3>7
  <2> QED BY <2>8, <2>9
<1> QED BY <1>3, <1>4

\* receive() raises: the log is as before, or ends in a fragment.
LEMMA RaisesStep ==
    ASSUME Inv, NEW x \in Workers, ReceiveRaises(x)
    PROVE  Inv'
<1>1. /\ wire[x].phase = "issued"
      /\ wire' = [wire EXCEPT ![x].phase = "answered", ![x].ok = FALSE]
      /\ Accepts(w[x].msg)
      /\ UNCHANGED <<session, ack, last, job, jobFile, connected, completed, op, w, joined, ran,
                     sent>>
  BY DEF ReceiveRaises
<1>2. CASE UNCHANGED log
  <2>1. UNCHANGED <<hostVars, op, w, joined, ran, sent>>
    BY <1>1, <1>2 DEF hostVars
  <2> QED BY <1>1, <2>1, RefusedStep
<1>3. CASE w[x].msg.kind = "output" /\ log' = Append(log, <<w[x].msg.job, Torn>>)
  <2>1. /\ w[x].pc = "writing" /\ Busy(x) /\ Mine(x) /\ w[x].msg.seq = w[x].seq
        /\ w[x].seq = ack + 1 /\ w[x].msg.job = w[x].job /\ ack # w[x].seq
    BY <1>1, AcceptedIs
  <2>2. x \in joined /\ w[x].job \in 1..MaxJobs /\ w[x].job \notin completed /\ connected
    BY <1>1, <1>3, AcceptedIs
  <2>3. wire' \in [Workers -> Writes] /\ \A y \in Workers \ {x} : w'[y] = w[y] /\ wire'[y] = wire[y]
    BY <1>1 DEF Inv, TypeOK, Writes
  <2> DEFINE S == (1..MaxJobs) \X (0..MaxChunks)
  <2>4. <<w[x].job, Torn>> \in S /\ log \in Seq(S)
    BY <2>2, MailboxAssumption DEF Inv, TypeOK, Torn
  <2>5. PICK n : n = Len(log)
    OBVIOUS
  <2>6. n \in Nat /\ log' = Append(log, <<w[x].job, Torn>>)
    BY <2>4, <2>5, <1>3, <2>1, LenProperties
  <2>7. /\ Len(log') = n + 1 /\ log'[n + 1] = <<w[x].job, Torn>>
        /\ \A i \in 1..n : Whole(i)' = Whole(i) /\ log'[i] = log[i]
        /\ \A i \in 0..n : Rank(i)' = Rank(i)
        /\ Rank(n + 1)' = Rank(n) + 0
    <3> HIDE DEF S
    <3>1. ~(<<w[x].job, Torn>>[2] # Torn)
      OBVIOUS
    <3> QED BY <2>4, <2>5, <2>6, <3>1, RankAppend
  <2>8. Rank(Len(log))' = Rank(n) /\ Rank(n) \in Nat
    <3>1. Rank(Len(log))' = Rank(n + 1)'
      BY <2>7 DEF Rank
    <3>2. Rank(n) \in Nat
      BY <2>6, RankIs
    <3> QED BY <3>1, <3>2, <2>7
  <2>9. log' \in Seq(S)
    BY <2>4, <2>6
  <2>10. TypeOK'
    BY <1>1, <2>3, <2>9 DEF Inv, TypeOK
  <2>11. FrameOk(x)' /\ Member(x)'
    <3>1. FrameOk(x)
      BY DEF Inv, Frames
    <3> QED BY <1>1, <2>1, <2>2, <3>1 DEF FrameOk, Busy, Member
  <2>12. Admission' /\ Greeted(x)'
    BY <1>1, <1>3, <2>2 DEF Inv, Admission, Greeted, Greeting
  <2>13. Alone' = Alone
    BY <1>1 DEF Alone
  <2>14. ASSUME Alone PROVE Serving(x)' /\ Once' /\ Faithful'
    <3>0. Once /\ Faithful /\ Serving(x)
      BY <2>14 DEF Inv, Service
    <3>1. Flying(x) /\ Started(w[x].job)
      BY <1>1, <1>3, <2>14, AcceptedIs
    <3>2. Once'
      BY <1>1, <3>0 DEF Once
    <3>3. Flying(x)' /\ Started(w[x].job)'
      BY <1>1, <3>1, <2>5, <2>8 DEF Flying, Started
    <3>4. ASSUME NEW i \in 1..Len(log'), Whole(i)'
          PROVE  Rank(i)' <= Len(sent') /\ log'[i] = sent'[Rank(i)']
      <4>1. i # n + 1
        BY <2>7, <3>4 DEF Whole
      <4>2. i \in 1..n /\ i \in 0..n
        BY <4>1, <2>6, <2>7
      <4>3. Whole(i)' = Whole(i) /\ log'[i] = log[i] /\ Rank(i)' = Rank(i)
        BY <4>2, <2>7
      <4>4. Rank(i) <= Len(sent) /\ log[i] = sent[Rank(i)]
        BY <4>2, <4>3, <2>5, <3>0, <3>4 DEF Faithful
      <4> QED BY <4>3, <4>4, <1>1
    <3>5. Len(sent)' <= Rank(Len(log))' + 1
      BY <1>1, <2>5, <2>8, <3>0 DEF Faithful
    <3>6. ASSUME NEW k \in completed'
          PROVE  /\ \E i \in 1..Len(ran') : ran'[i].id = k
                 /\ \A i \in 1..Len(sent') : sent'[i][1] = k => i <= Rank(Len(log))'
      BY <1>1, <2>5, <2>8, <3>0 DEF Faithful
    <3>7. Faithful'
      BY <3>4, <3>5, <3>6 DEF Faithful
    <3>8. \A i \in 1..Len(ran') : ran'[i].id <= w'[x].last
      BY <1>1, <2>1, <1>3, <3>0 DEF Serving, Greeting
    <3>9. Serving(x)'
      BY <3>8, <1>1, <1>3, <2>1, <2>2, <3>3 DEF Serving, Reporting
    <3> QED BY <3>2, <3>7, <3>9
  <2> QED BY <1>1, <2>2, <2>3, <2>10, <2>11, <2>12, <2>13, <2>14, OneWorkerStep
<1> QED BY <1>2, <1>3 DEF ReceiveRaises

(***************************************************************************)
(* A worker.                                                               *)
(***************************************************************************)
\* A worker that stops or dies leaves the session to nobody.
LEMMA WorkerGone ==
    ASSUME Inv, NEW x \in Workers, UNCHANGED <<Books, last, jobFile, op, joined>>, job' \in Jobs,
           NEW u \in WorkerStates, w' = [w EXCEPT ![x] = u],
           u.pc \in {"off", "stopped"}, u.token <= session,
           u.msg.kind = "output" => u.msg.body # Torn, wire' = [wire EXCEPT ![x] = NoWrite]
    PROVE  Inv'
<1>1. NoWrite \in Writes /\ NoWrite.phase = "none"
  BY MailboxAssumption DEF NoWrite, Writes
<1>2. w'[x] = u /\ wire'[x] = NoWrite
  BY DEF Inv, TypeOK
<1>3. ~Busy(x)' /\ ~Mine(x)'
  BY <1>2 DEF Busy, Mine
<1>4. FrameOk(x)'
  BY <1>1, <1>2, <1>3 DEF FrameOk, Books
<1>5. Member(x)' /\ Serving(x)' /\ Greeted(x)'
  BY <1>3 DEF Member, Serving, Greeted, Greeting, Reporting
<1> QED BY <1>1, <1>4, <1>5, QuietStep

LEMMA StopStep ==
    ASSUME Inv, NEW x \in Workers, Stop(x), UNCHANGED <<Books, last, jobFile, op, joined>>,
           job' \in Jobs
    PROVE  Inv'
<1> DEFINE u == [w[x] EXCEPT !.pc = "stopped"]
<1>1. w \in [Workers -> WorkerStates] /\ w[x] \in WorkerStates
  BY DEF Inv, TypeOK
<1>2. w' = [w EXCEPT ![x] = u] /\ wire' = [wire EXCEPT ![x] = NoWrite]
  BY <1>1 DEF Stop
<1>3. u \in WorkerStates /\ u.pc = "stopped" /\ u.token = w[x].token /\ u.msg = w[x].msg
  BY <1>1 DEF WorkerStates
<1>4. w[x].token <= session /\ (w[x].msg.kind = "output" => w[x].msg.body # Torn)
  BY DEF Inv, Frames, FrameOk
<1> HIDE DEF u
<1> QED BY <1>2, <1>3, <1>4, WorkerGone

LEMMA AsleepIs == Asleep \in WorkerStates /\ Asleep.pc = "off" /\ Asleep.token = 0
                  /\ Asleep.msg.kind = "none"
BY MailboxAssumption DEF Asleep, NoMessage, WorkerStates, Messages

LEMMA DiesStep ==
    ASSUME Inv, NEW x \in Workers, WorkerDies(x)
    PROVE  Inv'
<1>1. /\ w' = [w EXCEPT ![x] = Asleep] /\ wire' = [wire EXCEPT ![x] = NoWrite]
      /\ UNCHANGED <<Books, last, jobFile, op, joined>> /\ job' \in Jobs
  BY DEF WorkerDies, Books, hostVars, Inv, TypeOK
<1>2. Asleep.token <= session
  BY AsleepIs DEF Inv, TypeOK
<1> QED BY <1>1, <1>2, AsleepIs, WorkerGone

\* The state that send() leaves a worker in.
Sending(v, kind, body) ==
    [v EXCEPT !.pc = "writing", !.seq = @ + 1,
              !.msg = Message(kind, v.job, body, v.seq + 1, v.token)]
NewWrite == [phase |-> "issued", ok |-> FALSE, repeats |-> 0]

LEMMA SendIs ==
    ASSUME Inv, NEW x \in Workers, NEW v \in WorkerStates, NEW kind \in {"hello", "output", "done"},
           NEW body \in 0..MaxChunks, Send(x, v, kind, body), v.token <= session,
           session' = session, kind = "output" => body # Torn /\ v.job # 0,
           NEW u, u = Sending(v, kind, body)
    PROVE  /\ u \in WorkerStates /\ NewWrite \in Writes
           /\ w' = [w EXCEPT ![x] = u] /\ wire' = [wire EXCEPT ![x] = NewWrite]
           /\ w'[x] = u /\ wire'[x] = NewWrite /\ ~wire'[x].ok
           /\ u.pc = "writing" /\ u.seq = v.seq + 1 /\ u.token = v.token
           /\ u.last = v.last /\ u.job = v.job
           /\ u.msg.kind = kind /\ u.msg.job = v.job /\ u.msg.body = body
           /\ Busy(x)' /\ FrameOk(x)'
<1> DEFINE m == Message(kind, v.job, body, v.seq + 1, v.token)
<1>1. w' = [w EXCEPT ![x] = u] /\ wire' = [wire EXCEPT ![x] = NewWrite]
      /\ u = [v EXCEPT !.pc = "writing", !.seq = @ + 1, !.msg = m]
  BY DEF Send, Sending, NewWrite
<1>2. v.seq + 1 \in Nat
  BY DEF WorkerStates
<1>3. m \in Messages /\ m.kind = kind /\ m.job = v.job /\ m.body = body /\ m.token = v.token
      /\ m.seq = v.seq + 1
  BY <1>2 DEF Message, Messages, WorkerStates
<1> HIDE DEF m
<1>4. u \in WorkerStates
  BY <1>1, <1>2, <1>3 DEF WorkerStates
<1>5. /\ u.pc = "writing" /\ u.seq = v.seq + 1 /\ u.token = v.token
      /\ u.last = v.last /\ u.job = v.job /\ u.msg = m
  BY <1>1 DEF WorkerStates
<1>6. NewWrite \in Writes /\ NewWrite.ok = FALSE
  BY MailboxAssumption DEF Writes, NewWrite
<1>7. w'[x] = u /\ wire'[x] = NewWrite
  BY <1>1 DEF Inv, TypeOK
<1>8. Busy(x)'
  BY <1>5, <1>7 DEF Busy
<1>9. FrameOk(x)'
  BY <1>3, <1>5, <1>7, <1>8 DEF FrameOk
<1> QED BY <1>1, <1>3, <1>4, <1>5, <1>6, <1>7, <1>8, <1>9

LEMMA StartStep ==
    ASSUME Inv, NEW x \in Workers, Start(x)
    PROVE  Inv'
<1> DEFINE v == [Asleep EXCEPT !.token = session, !.seq = ack]
<1>1. Send(x, v, "hello", 0) /\ UNCHANGED <<Books, last, jobFile, op, joined>>
  BY DEF Start, Books
<1>2. job' \in Jobs
  BY LatchedIs DEF Start, Inv
<1>3. session \in 0..MaxSessions /\ session \in Nat /\ ack \in Nat /\ 0 \in 0..MaxChunks
  BY MailboxAssumption DEF Inv, TypeOK
<1>4. v \in WorkerStates /\ v.token = session /\ v.seq = ack
  BY <1>3, AsleepIs DEF WorkerStates
<1> HIDE DEF v
<1>5. v.token <= session /\ session' = session
  BY <1>1, <1>3, <1>4 DEF Books
<1>6. PICK u : u = Sending(v, "hello", 0)
  OBVIOUS
<1>7. /\ u \in WorkerStates /\ NewWrite \in Writes
      /\ w' = [w EXCEPT ![x] = u] /\ wire' = [wire EXCEPT ![x] = NewWrite]
      /\ w'[x] = u /\ ~wire'[x].ok
      /\ u.pc = "writing" /\ u.seq = v.seq + 1 /\ u.msg.kind = "hello" /\ Busy(x)' /\ FrameOk(x)'
  BY <1>1, <1>3, <1>4, <1>5, <1>6, SendIs
<1>8. ack' # w'[x].seq
  BY <1>1, <1>3, <1>4, <1>7 DEF Books
<1>9. Member(x)' /\ Greeted(x)' /\ Serving(x)'
  BY <1>7, <1>8 DEF Member, Greeted, Serving, Greeting, Reporting
<1> QED BY <1>1, <1>2, <1>7, <1>9, QuietStep

LEMMA WrittenStep ==
    ASSUME Inv, NEW x \in Workers, Written(x)
    PROVE  Inv'
<1>1. UNCHANGED <<Books, last, jobFile, op, joined>> /\ job' \in Jobs /\ w[x].pc = "writing"
  BY DEF Written, Books, hostVars, Inv, TypeOK
<1>2. CASE Stop(x)
  BY <1>1, <1>2, StopStep
<1>3. CASE /\ wire[x].ok
           /\ w' = [w EXCEPT ![x].pc = "confirm"] /\ wire' = [wire EXCEPT ![x] = NoWrite]
  <2> DEFINE u == [w[x] EXCEPT !.pc = "confirm"]
  <2>0. w \in [Workers -> WorkerStates] /\ w[x] \in WorkerStates
    BY DEF Inv, TypeOK
  <2>1. u \in WorkerStates /\ w' = [w EXCEPT ![x] = u]
    BY <1>3, <2>0 DEF WorkerStates
  <2>2. /\ w'[x].pc = "confirm" /\ w'[x].seq = w[x].seq /\ w'[x].token = w[x].token
        /\ w'[x].last = w[x].last /\ w'[x].job = w[x].job /\ w'[x].msg = w[x].msg
    BY <2>0, <2>1 DEF WorkerStates
  <2> HIDE DEF u
  <2>3. NoWrite \in Writes /\ wire'[x].phase = "none"
    BY <1>3, MailboxAssumption DEF NoWrite, Writes, Inv, TypeOK
  <2>4. Busy(x) /\ Busy(x)' /\ Mine(x)' = Mine(x) /\ Greeting(x)' = Greeting(x)
        /\ \A k : Reporting(x, k)' = Reporting(x, k)
    BY <1>1, <2>2 DEF Busy, Mine, Greeting, Reporting, Books
  <2>5. FrameOk(x) /\ Member(x)
    BY DEF Inv, Frames
  <2>6. FrameOk(x)' /\ Member(x)'
    BY <1>1, <1>3, <2>2, <2>3, <2>4, <2>5 DEF FrameOk, Member, Books
  <2>7. ASSUME Alone PROVE Serving(x)' /\ Greeted(x)'
    <3>0. Serving(x) /\ Greeted(x)
      BY <2>7 DEF Inv, Service
    <3>1. Virgin' = Virgin /\ Quiet' = Quiet /\ (\A k : Started(k)' = Started(k))
          /\ Rank(Len(log))' = Rank(Len(log))
      BY <1>1, BooksKept
    <3>2. Flying(x)' = Flying(x)
      BY <1>1, <2>2, <3>1 DEF Flying, Books
    <3>3. Greeted(x)'
      BY <1>1, <2>2, <2>4, <3>0, <3>1 DEF Greeted, Books
    <3>4. Serving(x)'
      BY <1>1, <2>2, <2>4, <3>0, <3>1, <3>2 DEF Serving, Books
    <3> QED BY <3>3, <3>4
  <2> QED BY <1>1, <1>3, <2>1, <2>3, <2>6, <2>7, QuietStep
<1> QED BY <1>2, <1>3 DEF Written

LEMMA ReadFailsStep ==
    ASSUME Inv, NEW x \in Workers, ReadFails(x)
    PROVE  Inv'
<1>1. UNCHANGED <<Books, last, jobFile, op, joined>> /\ Stop(x)
  BY DEF ReadFails, Books
<1>2. job' \in Jobs
  BY LatchedIs DEF ReadFails, Inv
<1> QED BY <1>1, <1>2, StopStep

LEMMA ConfirmStep ==
    ASSUME Inv, NEW x \in Workers, Confirm(x)
    PROVE  Inv'
<1>1. /\ UNCHANGED <<Books, last, jobFile, op, joined>>
      /\ w[x].pc = "confirm" /\ w[x].token = session
  BY DEF Confirm, Unreadable, Books
<1>2. job' \in Jobs
  BY LatchedIs DEF Confirm, Inv
<1>3. CASE Stop(x)
  BY <1>1, <1>2, <1>3, StopStep
<1> DEFINE next == IF w[x].msg.kind = "output" THEN "run" ELSE "poll"
<1>4. CASE ack = w[x].seq /\ w' = [w EXCEPT ![x].pc = next] /\ UNCHANGED wire
  <2>1. next \in {"run", "poll"}
    OBVIOUS
  <2>2. next = "run" => w[x].msg.kind = "output"
    OBVIOUS
  <2>3. next = "poll" => w[x].msg.kind # "output"
    OBVIOUS
  <2> HIDE DEF next
  <2> DEFINE u == [w[x] EXCEPT !.pc = next]
  <2>4. w \in [Workers -> WorkerStates] /\ w[x] \in WorkerStates
        /\ wire \in [Workers -> Writes] /\ wire[x] \in Writes
    BY DEF Inv, TypeOK
  <2>5. u \in WorkerStates /\ w' = [w EXCEPT ![x] = u]
    BY <1>4, <2>1, <2>4 DEF WorkerStates
  <2>6. /\ w'[x].pc = next /\ w'[x].seq = w[x].seq /\ w'[x].token = w[x].token
        /\ w'[x].last = w[x].last /\ w'[x].job = w[x].job /\ w'[x].msg = w[x].msg
    BY <2>4, <2>5 DEF WorkerStates
  <2> HIDE DEF u
  <2>7. wire' = [wire EXCEPT ![x] = wire[x]] /\ wire'[x] = wire[x]
    BY <1>4, <2>4
  <2>8. Busy(x) /\ ~Busy(x)' /\ Mine(x)
    BY <1>1, <2>1, <2>6 DEF Busy, Mine
  <2>9. FrameOk(x) /\ Member(x)
    BY DEF Inv, Frames
  <2>10. x \in joined
    BY <1>1, <2>8, <2>9 DEF Member
  <2>11. FrameOk(x)'
    BY <1>1, <2>1, <2>2, <2>6, <2>7, <2>8, <2>9 DEF FrameOk, Books
  <2>12. Member(x)' /\ Greeted(x)'
    BY <1>1, <2>8, <2>10 DEF Member, Greeted, Greeting
  <2>13. w[x].msg.kind \in {"hello", "output", "done"}
    BY <2>8, <2>9 DEF FrameOk
  <2>14. ASSUME Alone PROVE Serving(x)'
    <3>0. Serving(x) /\ Greeted(x)
      BY <2>14 DEF Inv, Service
    <3>1. Virgin' = Virgin /\ Quiet' = Quiet /\ \A k : Started(k)' = Started(k)
      BY <1>1, BooksKept
    <3>2. Greeting(x) => Virgin
      BY <1>4, <2>10, <3>0 DEF Greeted
    <3>3. Virgin => Quiet
      BY RankIs DEF Virgin, Quiet
    <3>4. \A i \in 1..Len(ran) : ran[i].id <= w[x].last
      <4>1. CASE Greeting(x)
        BY <4>1, <3>2 DEF Virgin
      <4>2. CASE ~Greeting(x)
        BY <4>2, <2>8, <3>0 DEF Serving
      <4> QED BY <4>1, <4>2
    <3>5. next = "poll" => Quiet
      BY <2>3, <2>8, <2>13, <3>0, <3>2, <3>3 DEF Serving, Greeting, Reporting
    <3>6. next = "run" => Quiet /\ Started(w[x].job) /\ w[x].job \notin completed
      BY <1>4, <2>2, <2>8, <3>0 DEF Serving, Reporting, Flying
    <3> QED BY <1>1, <1>4, <2>6, <2>8, <3>1, <3>4, <3>5, <3>6 DEF Serving, Reporting, Books
  <2> QED BY <1>1, <1>2, <2>4, <2>5, <2>7, <2>11, <2>12, <2>14, QuietStep
<1> QED BY <1>3, <1>4 DEF Confirm

LEMMA FinishStep ==
    ASSUME Inv, NEW x \in Workers, Finish(x)
    PROVE  Inv'
<1>1. /\ Send(x, w[x], "done", 0) /\ UNCHANGED <<Books, last, jobFile, op, joined>>
      /\ job' \in Jobs /\ w[x].pc = "run"
  BY DEF Finish, Books, hostVars, Inv, TypeOK
<1>2. w[x] \in WorkerStates /\ session' = session /\ 0 \in 0..MaxChunks
  BY <1>1, MailboxAssumption DEF Inv, TypeOK, Books
<1>3. FrameOk(x) /\ Member(x) /\ w[x].token <= session
  BY DEF Inv, Frames, FrameOk
<1>4. PICK u : u = Sending(w[x], "done", 0)
  OBVIOUS
<1>5. /\ u \in WorkerStates /\ NewWrite \in Writes
      /\ w' = [w EXCEPT ![x] = u] /\ wire' = [wire EXCEPT ![x] = NewWrite]
      /\ w'[x] = u /\ u.pc = "writing" /\ u.token = w[x].token
      /\ u.last = w[x].last /\ u.job = w[x].job /\ u.msg.kind = "done" /\ Busy(x)' /\ FrameOk(x)'
  BY <1>1, <1>2, <1>3, <1>4, SendIs
<1>6. Mine(x)' = Mine(x) /\ ~Greeting(x) /\ ~Greeting(x)'
  BY <1>1, <1>2, <1>5 DEF Mine, Greeting, Busy
<1>7. Member(x)' /\ Greeted(x)'
  BY <1>1, <1>3, <1>6 DEF Member, Greeted
<1>8. ASSUME Alone PROVE Serving(x)'
  <2>1. Serving(x)
    BY <1>8 DEF Inv, Service
  <2>2. Quiet' = Quiet /\ \A k : Started(k)' = Started(k)
    BY <1>1, BooksKept
  <2> QED BY <1>1, <1>5, <1>6, <2>1, <2>2 DEF Serving, Reporting, Books
<1> QED BY <1>1, <1>5, <1>7, <1>8, QuietStep

LEMMA RunFailsStep ==
    ASSUME Inv, NEW x \in Workers, RunFails(x)
    PROVE  Inv'
<1>1. UNCHANGED <<Books, last, jobFile, op, joined>> /\ Stop(x) /\ job' \in Jobs
  BY DEF RunFails, Books, hostVars, Inv, TypeOK
<1> QED BY <1>1, StopStep

\* A job is started: it is newer than all the worker has started, and a worker
\* that is alone has started all of this session.
LEMMA PollStep ==
    ASSUME Inv, NEW x \in Workers, Poll(x)
    PROVE  Inv'
<1>1. /\ w[x].pc = "poll" /\ w[x].token = session /\ Offered.id > w[x].last
      /\ w' = [w EXCEPT ![x].pc = "run", ![x].last = Offered.id, ![x].job = Offered.id,
                        ![x].chunk = 0]
      /\ ran' = Append(ran, Offered)
      /\ UNCHANGED <<session, ack, last, jobFile, connected, completed, log, op, wire, joined,
                     sent>>
  BY DEF Poll, Unreadable
<1>2. job' \in Jobs /\ Offered \in Jobs
  BY LatchedIs DEF Poll, Inv
<1>3. Offered.id # 0 => Offered.id \notin completed
  BY LatchedIs DEF Inv
<1>4. PICK a : a = Offered
  OBVIOUS
<1>0. w \in [Workers -> WorkerStates] /\ w[x] \in WorkerStates /\ FrameOk(x) /\ Member(x)
  BY DEF Inv, TypeOK, Frames
<1>5. a.id \in 0..MaxJobs /\ w[x].last \in 0..MaxJobs /\ a.id > w[x].last
  BY <1>0, <1>1, <1>2, <1>4 DEF Jobs, WorkerStates
<1>6. a.id # 0 /\ a.id \notin completed /\ w[x].last \in Nat /\ a.id \in Nat
  BY <1>3, <1>4, <1>5, MailboxAssumption
<1>7. ran \in Seq(Jobs) /\ ran' = Append(ran, a) /\ a \in Jobs
  BY <1>1, <1>2, <1>4 DEF Inv, TypeOK
<1>8. Len(ran) \in Nat /\ Len(ran') = Len(ran) + 1 /\ ran'[Len(ran) + 1] = a
      /\ \A i \in 1..Len(ran) : ran'[i] = ran[i]
  BY <1>7
<1>9. ran' \in Seq(Jobs)
  BY <1>7
<1>10. 0 \in 0..MaxChunks
  BY MailboxAssumption
<1> DEFINE u == [w[x] EXCEPT !.pc = "run", !.last = a.id, !.job = a.id, !.chunk = 0]
<1>11. u \in WorkerStates /\ w' = [w EXCEPT ![x] = u]
  BY <1>0, <1>1, <1>4, <1>5, <1>10 DEF WorkerStates
<1>12. /\ w'[x].pc = "run" /\ w'[x].last = a.id /\ w'[x].job = a.id
       /\ w'[x].seq = w[x].seq /\ w'[x].token = w[x].token /\ w'[x].msg = w[x].msg
  BY <1>0, <1>11 DEF WorkerStates
<1> HIDE DEF u
<1>13. w' \in [Workers -> WorkerStates] /\ \A y \in Workers \ {x} : w'[y] = w[y] /\ wire'[y] = wire[y]
  BY <1>0, <1>1, <1>11, ZenonT(60)
<1>14. TypeOK'
  BY <1>1, <1>2, <1>9, <1>13 DEF Inv, TypeOK
<1>15. ~Busy(x) /\ ~Busy(x)' /\ Mine(x)
  BY <1>1, <1>12 DEF Busy, Mine
<1>16. x \in joined
  BY <1>0, <1>15 DEF Member, Greeting
<1>17. FrameOk(x)'
  BY <1>0, <1>1, <1>6, <1>12, <1>15 DEF FrameOk
<1>18. Member(x)' /\ Greeted(x)'
  BY <1>1, <1>15, <1>16 DEF Member, Greeted, Greeting
<1>19. Admission'
  BY <1>1, <1>16 DEF Inv, Admission
<1>20. Alone' = Alone
  BY <1>1 DEF Alone
<1>21. ASSUME Alone PROVE Serving(x)' /\ Once' /\ Faithful'
  <2>0. Serving(x) /\ Once /\ Faithful
    BY <1>21 DEF Inv, Service
  <2>1. \A i \in 1..Len(ran) : ran[i].id <= w[x].last
    BY <2>0, <1>15 DEF Serving, Greeting
  <2>2. \A i \in 1..Len(ran) : ran[i].id \in Nat
    <3>1. \A i \in 1..Len(ran) : ran[i] \in Jobs
      BY <1>7, ElementOfSeq
    <3> QED BY <3>1, MailboxAssumption DEF Jobs
  <2>3. \A i \in 1..Len(ran) : ran'[i].id < a.id
    BY <1>5, <1>6, <1>8, <2>1, <2>2
  <2>4. Once'
    <3> SUFFICES ASSUME NEW i \in 1..Len(ran'), NEW j \in 1..Len(ran'), ran'[i].id = ran'[j].id
                 PROVE  i = j
      BY DEF Once
    <3>1. i \in 1..Len(ran) \/ i = Len(ran) + 1
      BY <1>8
    <3>2. j \in 1..Len(ran) \/ j = Len(ran) + 1
      BY <1>8
    <3>3. ASSUME i \in 1..Len(ran), j \in 1..Len(ran) PROVE i = j
      BY <3>3, <1>8, <2>0 DEF Once
    <3>4. ASSUME NEW k \in 1..Len(ran) PROVE ran'[k].id # a.id
      BY <1>6, <1>8, <2>2, <2>3
    <3> QED BY <3>1, <3>2, <3>3, <3>4, <1>8
  <2>5. Started(a.id)' /\ \A k : Started(k) => Started(k)'
    BY <1>8 DEF Started
  <2>6. Rank(Len(log))' = Rank(Len(log)) /\ \A i : Rank(i)' = Rank(i) /\ Whole(i)' = Whole(i)
    BY <1>1 DEF Rank, Whole
  <2>7. \A i \in 1..Len(log') : Whole(i)' => Rank(i)' <= Len(sent') /\ log'[i] = sent'[Rank(i)']
    BY <1>1, <2>0, <2>6 DEF Faithful
  <2>8. Len(sent)' <= Rank(Len(log))' + 1
    BY <1>1, <2>0, <2>6 DEF Faithful
  <2>9. ASSUME NEW k \in completed'
        PROVE  /\ \E i \in 1..Len(ran') : ran'[i].id = k
               /\ \A i \in 1..Len(sent') : sent'[i][1] = k => i <= Rank(Len(log))'
    <3>1. Started(k)
      BY <1>1, <2>0 DEF Faithful, Started
    <3>2. Started(k)'
      BY <3>1, <2>5
    <3> QED BY <3>2, <1>1, <2>0, <2>6 DEF Faithful, Started
  <2>10. Faithful'
    BY <2>7, <2>8, <2>9 DEF Faithful
  <2>11. \A i \in 1..Len(ran') : ran'[i].id <= a.id
    BY <1>6, <1>8, <2>2, <2>3
  <2>12. Quiet' /\ ack' = w'[x].seq
    BY <1>1, <1>12, <1>15, <2>0, <2>6 DEF Serving, Quiet
  <2>13. Serving(x)'
    BY <1>1, <1>6, <1>12, <1>15, <2>5, <2>11, <2>12 DEF Serving, Reporting
  <2> QED BY <2>4, <2>10, <2>13
<1> QED BY <1>1, <1>13, <1>14, <1>16, <1>17, <1>18, <1>19, <1>20, <1>21, OneWorkerStep

\* A chunk of output is sent.
LEMMA OutputStep ==
    ASSUME Inv, NEW x \in Workers, Output(x)
    PROVE  Inv'
<1> DEFINE v == [w[x] EXCEPT !.chunk = @ + 1]
<1> DEFINE c == w[x].chunk + 1
<1>1. /\ w[x].pc = "run" /\ w[x].chunk < MaxChunks /\ Send(x, v, "output", c)
      /\ sent' = IF w[x].token = session THEN Append(sent, <<w[x].job, c>>) ELSE sent
      /\ UNCHANGED <<hostVars, op, joined, ran>>
  BY DEF Output
<1>0. w \in [Workers -> WorkerStates] /\ w[x] \in WorkerStates /\ wire \in [Workers -> Writes]
      /\ FrameOk(x) /\ Member(x)
  BY DEF Inv, TypeOK, Frames
<1>2. c \in 1..MaxChunks /\ c \in 0..MaxChunks /\ c # Torn
  BY <1>0, <1>1, MailboxAssumption, SMTT(60) DEF WorkerStates, Torn
<1>3. w[x].job # 0 /\ w[x].token <= session /\ session' = session
  BY <1>0, <1>1 DEF FrameOk, hostVars
<1>4. v \in WorkerStates /\ v.token = w[x].token /\ v.seq = w[x].seq /\ v.last = w[x].last
      /\ v.job = w[x].job
  BY <1>0, <1>2 DEF WorkerStates
<1> HIDE DEF v, c
<1>5. PICK u : u = Sending(v, "output", c)
  OBVIOUS
<1>6. /\ u \in WorkerStates /\ NewWrite \in Writes
      /\ w' = [w EXCEPT ![x] = u] /\ wire' = [wire EXCEPT ![x] = NewWrite] /\ w'[x] = u
      /\ u.pc = "writing" /\ u.seq = w[x].seq + 1 /\ u.token = w[x].token
      /\ u.last = w[x].last /\ u.job = w[x].job /\ Busy(x)' /\ FrameOk(x)'
      /\ u.msg.kind = "output" /\ u.msg.job = w[x].job /\ u.msg.body = c
  BY <1>1, <1>2, <1>3, <1>4, <1>5, SendIs
<1>7. Mine(x)' = Mine(x) /\ ~Greeting(x) /\ ~Greeting(x)'
  BY <1>1, <1>3, <1>6 DEF Mine, Greeting, Busy
<1>8. Member(x)' /\ Greeted(x)'
  BY <1>0, <1>1, <1>7 DEF Member, Greeted
<1>9. CASE w[x].token # session
  <2>1. UNCHANGED <<Books, last, jobFile, op, joined>> /\ job' \in Jobs
    BY <1>1, <1>9 DEF Books, hostVars, Inv, TypeOK
  <2>2. ~Mine(x)'
    BY <1>7, <1>9 DEF Mine
  <2>3. Serving(x)'
    BY <2>2 DEF Serving, Reporting
  <2> QED BY <1>6, <1>8, <2>1, <2>3, QuietStep
<1>10. CASE w[x].token = session
  <2>1. Mine(x) /\ sent' = Append(sent, <<w[x].job, c>>)
    BY <1>1, <1>10 DEF Mine
  <2>2. x \in joined
    BY <1>0, <1>7, <2>1 DEF Member
  <2> DEFINE S == (1..MaxJobs) \X (1..MaxChunks)
  <2>3. <<w[x].job, c>> \in S /\ sent \in Seq(S)
    <3>1. w[x].job \in 1..MaxJobs
      BY <1>0, <1>3, MailboxAssumption DEF WorkerStates
    <3> QED BY <1>2, <3>1 DEF Inv, TypeOK
  <2>4. /\ sent' \in Seq(S) /\ Len(sent) \in Nat /\ Len(sent') = Len(sent) + 1
        /\ sent'[Len(sent) + 1] = <<w[x].job, c>>
        /\ \A i \in 1..Len(sent) : sent'[i] = sent[i]
    BY <2>1, <2>3
  <2>5. w' \in [Workers -> WorkerStates] /\ wire' \in [Workers -> Writes]
        /\ \A y \in Workers \ {x} : w'[y] = w[y] /\ wire'[y] = wire[y]
    BY <1>0, <1>6
  <2>6. TypeOK'
    BY <1>1, <2>4, <2>5 DEF Inv, TypeOK, hostVars
  <2>7. Rank(Len(log))' = Rank(Len(log)) /\ (\A i : Rank(i)' = Rank(i) /\ Whole(i)' = Whole(i))
        /\ log' = log /\ completed' = completed /\ ran' = ran /\ connected' = connected
        /\ ack' = ack /\ joined' = joined
    BY <1>1 DEF Rank, Whole, hostVars
  <2>8. Admission'
    BY <1>1, <2>2 DEF Inv, Admission, hostVars
  <2>9. Alone' = Alone
    BY <2>7 DEF Alone
  <2>10. ASSUME Alone PROVE Serving(x)' /\ Once' /\ Faithful'
    <3>0. Serving(x) /\ Once /\ Faithful
      BY <2>10 DEF Inv, Service
    <3>1. Quiet /\ Started(w[x].job) /\ w[x].job \notin completed /\ ack = w[x].seq
          /\ \A i \in 1..Len(ran) : ran[i].id <= w[x].last
      BY <1>1, <1>7, <2>1, <3>0 DEF Serving
    <3>2. Len(sent) = Rank(Len(log)) /\ Rank(Len(log)) \in Nat
      BY <3>1, <2>4 DEF Quiet
    <3>3. Once'
      BY <2>7, <3>0 DEF Once
    <3>4. ASSUME NEW i \in 1..Len(log'), Whole(i)'
          PROVE  Rank(i)' <= Len(sent') /\ log'[i] = sent'[Rank(i)']
      <4>1. Len(log) \in Nat /\ i \in 1..Len(log) /\ i \in Nat
        BY <2>7, LenProperties DEF Inv, TypeOK
      <4>2. Whole(i) /\ Rank(i)' = Rank(i)
        BY <3>4, <2>7
      <4>3. Rank(i) <= Len(sent) /\ log[i] = sent[Rank(i)]
        BY <4>1, <4>2, <3>0 DEF Faithful
      <4>4. Rank(i) # 0
        <5>1. i \in {j \in 1..i : Whole(j)}
          BY <4>1, <4>2
        <5>2. IsFiniteSet({j \in 1..i : Whole(j)})
          BY <4>1, RankIs
        <5> QED BY <5>1, <5>2, FS_EmptySet DEF Rank
      <4>5. Rank(i) \in Nat
        BY <4>1, RankIs
      <4>6. Rank(i) \in 1..Len(sent)
        BY <4>3, <4>4, <4>5, <2>4
      <4>7. sent'[Rank(i)] = sent[Rank(i)]
        BY <4>6, <2>4
      <4> QED BY <4>2, <4>3, <4>5, <4>7, <2>4, <2>7
    <3>5. Len(sent)' <= Rank(Len(log))' + 1
      BY <2>4, <2>7, <3>2
    <3>6. ASSUME NEW k \in completed'
          PROVE  /\ \E i \in 1..Len(ran') : ran'[i].id = k
                 /\ \A i \in 1..Len(sent') : sent'[i][1] = k => i <= Rank(Len(log))'
      <4>1. k \in completed /\ k # w[x].job
        BY <3>1, <2>7
      <4>2. \E i \in 1..Len(ran') : ran'[i].id = k
        BY <4>1, <2>7, <3>0 DEF Faithful
      <4>3. ASSUME NEW i \in 1..Len(sent'), sent'[i][1] = k PROVE i <= Rank(Len(log))'
        <5>1. i # Len(sent) + 1
          BY <4>1, <4>3, <2>4
        <5> QED BY <5>1, <2>4, <2>7, <3>2
      <4> QED BY <4>2, <4>3
    <3>7. Faithful'
      BY <3>4, <3>5, <3>6 DEF Faithful
    <3>8. Started(w[x].job)'
      BY <1>6, <3>1, <2>7 DEF Started
    <3>9. ack' # w'[x].seq
      BY <1>6, <3>1, <2>7 DEF Inv, TypeOK
    <3>10. Flying(x)'
      BY <1>6, <2>4, <2>7, <3>2, <3>9 DEF Flying
    <3>11. Serving(x)'
      BY <1>6, <1>7, <3>1, <2>7, <3>8, <3>10 DEF Serving, Reporting
    <3> QED BY <3>3, <3>7, <3>11
  <2> QED BY <1>3, <1>6, <1>8, <2>2, <2>5, <2>6, <2>7, <2>8, <2>9, <2>10, OneWorkerStep
<1> QED BY <1>9, <1>10

(***************************************************************************)
(* The theorems.                                                           *)
(***************************************************************************)
LEMMA InitInv == Init => Inv
<1> SUFFICES ASSUME Init PROVE Inv
  OBVIOUS
<1>1. NoJob \in Jobs /\ NoMessage \in Messages /\ NoWrite \in Writes
  BY MailboxAssumption DEF NoJob, Jobs, NoMessage, Messages, NoWrite, Writes
<1>2. TypeOK
  <2>1. session \in 1..MaxSessions /\ ack \in Nat /\ last \in Messages /\ job \in Jobs
        /\ jobFile \in Jobs
    BY <1>1, MailboxAssumption DEF Init
  <2>2. connected \in BOOLEAN /\ completed \subseteq 1..MaxJobs
        /\ op \in [Operators -> 0..MaxJobs] /\ joined \subseteq Workers
    <3>1. 0 \in 0..MaxJobs
      BY MailboxAssumption
    <3> QED BY <3>1, Zenon DEF Init
  <2>3. log \in Seq((1..MaxJobs) \X (0..MaxChunks)) /\ ran \in Seq(Jobs)
        /\ sent \in Seq((1..MaxJobs) \X (1..MaxChunks))
    BY DEF Init
  <2>4. w \in [Workers -> WorkerStates] /\ wire \in [Workers -> Writes]
    BY <1>1, AsleepIs DEF Init
  <2> QED BY <2>1, <2>2, <2>3, <2>4 DEF TypeOK
<1>3. ASSUME NEW x \in Workers
      PROVE  FrameOk(x) /\ Member(x) /\ Serving(x) /\ Greeted(x)
  <2>1. w[x] = Asleep /\ wire[x] = NoWrite /\ session = 1
    BY DEF Init
  <2>2. ~Mine(x) /\ ~Busy(x)
    BY <2>1, AsleepIs DEF Mine, Busy
  <2>3. FrameOk(x)
    BY <2>1, <2>2, AsleepIs DEF FrameOk, NoWrite
  <2> QED BY <2>2, <2>3 DEF Member, Serving, Greeted, Greeting, Reporting
<1>4. Admission
  BY DEF Admission, Virgin, Init, NoMessage
<1>5. Rank(Len(log)) \in Nat
  BY RankIs DEF Init
<1>6. Once /\ Faithful
  BY <1>5 DEF Once, Faithful, Init
<1> QED BY <1>2, <1>3, <1>4, <1>6 DEF Inv, Frames, Service

LEMMA StepInv == Inv /\ [Next]_vars => Inv'
<1> SUFFICES ASSUME Inv, [Next]_vars PROVE Inv'
  OBVIOUS
<1>1. CASE UNCHANGED vars
  <2>1. UNCHANGED <<Books, w, wire, joined, last>> /\ job' \in Jobs /\ jobFile' \in Jobs
        /\ op' \in [Operators -> 0..MaxJobs]
    BY <1>1 DEF vars, hostVars, Books, Inv, TypeOK
  <2> QED BY <2>1, HostStep
<1>2. CASE \E o \in Operators : QueueRead(o) \/ QueueWrite(o)
  BY <1>2, QueueStep
<1>3. ASSUME NEW x \in Workers, WorkerStep(x) PROVE Inv'
  BY <1>3, ReceiveStep, RaisesStep, ReissueStep, StartStep, WrittenStep, ReadFailsStep,
     ConfirmStep, PollStep, OutputStep, RunFailsStep, FinishStep, DiesStep DEF WorkerStep
<1> QED BY <1>1, <1>2, <1>3, OtherReadStep, RestartStep DEF Next

LEMMA AlwaysInv == Spec => []Inv
BY InitInv, StepInv, PTL DEF Spec

\* Every variable of host, storage stack and workers keeps its range.
THEOREM TypeCorrect == Spec => []TypeOK
<1>1. Inv => TypeOK
  BY DEF Inv
<1> QED BY <1>1, AlwaysInv, PTL

\* "One worker per boot, no implicit task replay" (receive(), transport.py): for
\* every set of workers and every number of jobs, sessions and repeated writes,
\* no job is started twice in a session, as long as the hello of one worker only
\* has been answered in it.
THEOREM JobsRunOnce == Spec => []RunsOnce
<1>1. Inv => RunsOnce
  BY DEF Inv, Service, RunsOnce
<1> QED BY <1>1, AlwaysInv, PTL

\* For every set of workers, every amount of output and whatever is repeated,
\* torn, refused or restarted, the whole chunks in the job-N.log files of a
\* session that has let in one worker are the ones it produced, in order and once
\* each, up to the one on the wire; and a job counts as completed only when all
\* of its output is in the log.
THEOREM LogAlwaysFaithful == Spec => []LogIsFaithful
<1>1. Inv => LogIsFaithful
  BY DEF Inv, Service, LogIsFaithful
<1> QED BY <1>1, AlwaysInv, PTL
=============================================================================
