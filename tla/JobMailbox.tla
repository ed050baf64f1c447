----------------------------- MODULE JobMailbox -----------------------------
(***************************************************************************)
(* The job mailbox of namespace 2: one sector (LBA 128) through which the  *)
(* host hands scripts to a worker in Windows and gets output and exit      *)
(* codes back.  Host side: LinkNamespace (transport-s123/transport.py)     *)
(* behind _fast_link_handle (memory-s180/link_module.py) and the operator's*)
(* queue_job.py.  Guest side: worker-s177/nwos.c.                          *)
(*                                                                         *)
(* The two sides share nothing but reads and writes of the sector.  A write*)
(* is a synchronous NVMe command of the guest's storage stack, which       *)
(* issues the command again when its answer is lost (a reset of the        *)
(* controller, a cancelled rendezvous): the host may execute it twice.     *)
(*                                                                         *)
(* A frame is reduced to the fields receive() compares; its CRC, its zero  *)
(* tail and the length limits hold for every frame the worker builds.      *)
(*                                                                         *)
(* Nothing in nwos.c keeps two workers from running at once: the disk is   *)
(* opened for sharing and there is no mutex.                               *)
(***************************************************************************)
EXTENDS Naturals, Sequences, FiniteSets

CONSTANTS Operators,     \* people running queue_job.py
          Workers,       \* worker processes, each of which may run, die and start again
          MaxJobs,       \* jobs queued in one session
          MaxChunks,     \* chunks of output of one job
          MaxSessions,   \* times the host side is started
          MaxRepeats     \* times the storage stack repeats a write

ASSUME MailboxAssumption ==
    /\ MaxJobs \in Nat \ {0} /\ MaxSessions \in Nat \ {0}
    /\ MaxChunks \in Nat /\ MaxRepeats \in Nat

VARIABLES
    session,     \* the number of the host session: LinkNamespace.token
    ack, last,   \* LinkNamespace.ack and .last
    job,         \* LinkNamespace.job, the job it has seen; id 0: none
    jobFile,     \* job.json in the session directory; id 0: absent
    connected,   \* LinkNamespace.connected
    completed,   \* LinkNamespace.completed
    log,         \* the job-N.log files: chunks in the order they were appended
    op,          \* what each operator's queue_job.py has read; 0: not running
    w,           \* the worker processes
    wire,        \* the NVMe write each has in progress
    joined,      \* not in the code: workers whose hello this session has answered
    ran, sent    \* not in the code: jobs started and chunks produced, per session

hostVars == <<session, ack, last, job, jobFile, connected, completed, log>>
vars == <<hostVars, op, w, wire, joined, ran, sent>>

NoJob == [id |-> 0, script |-> "none"]
NoMessage == [token |-> 0, job |-> 0, kind |-> "none", body |-> 0, seq |-> 0]
NoWrite == [phase |-> "none", ok |-> FALSE, repeats |-> 0]
Torn == 0      \* a chunk of which only a part is in the log
Asleep == [pc |-> "off", token |-> 0, seq |-> 0, last |-> 0, job |-> 0, chunk |-> 0,
           msg |-> NoMessage]

Init ==
    /\ session = 1 /\ ack = 0 /\ last = NoMessage /\ job = NoJob /\ jobFile = NoJob
    /\ connected = FALSE /\ completed = {} /\ log = <<>>
    /\ op = [o \in Operators |-> 0]
    /\ w = [x \in Workers |-> Asleep] /\ wire = [x \in Workers |-> NoWrite]
    /\ joined = {} /\ ran = <<>> /\ sent = <<>>

(***************************************************************************)
(* The host.                                                               *)
(***************************************************************************)
\* queue_job.py reads the session, asserts, and later replaces job.json.
QueueRead(o) ==
    /\ op[o] = 0
    /\ connected
    /\ jobFile.id = 0 \/ jobFile.id \in completed
    /\ jobFile.id < MaxJobs
    /\ op' = [op EXCEPT ![o] = jobFile.id + 1]
    /\ UNCHANGED <<hostVars, w, wire, joined, ran, sent>>

QueueWrite(o) ==
    /\ op[o] # 0
    /\ jobFile' = [id |-> op[o], script |-> o]
    /\ op' = [op EXCEPT ![o] = 0]
    /\ UNCHANGED <<session, ack, last, job, connected, completed, log, w, wire, joined, ran,
                   sent>>

\* frame(): the job file is looked at on every read of the sector.
FrameRaises ==
    jobFile.id # 0 /\ (jobFile.id < job.id \/ (jobFile.id = job.id /\ jobFile # job))
Latched == IF jobFile.id # 0 /\ ~FrameRaises THEN jobFile ELSE job
Offered == IF Latched.id # 0 /\ Latched.id \notin completed THEN Latched ELSE NoJob

\* Windows reads the sector on its own account (FAT driver, partition manager).
OtherRead ==
    /\ job' = Latched
    /\ UNCHANGED <<session, ack, last, jobFile, connected, completed, log, op, w, wire, joined,
                   ran, sent>>

\* The checks of receive() that a repetition has to pass too.
Addressed(m) ==
    /\ m.token = session
    /\ IF m.kind = "hello" THEN m.job = 0 ELSE job.id # 0 /\ m.job = job.id
\* Bug: a second worker is let in.
AcceptsEveryHello(m) ==
    Addressed(m) /\ m.seq = ack + 1 /\ (m.kind = "hello" \/ (connected /\ m.job \notin completed))
\* Bug: a repetition is taken for a new frame.
AcceptsRepetition(m) ==
    /\ Addressed(m) /\ m.seq \in {ack, ack + 1}
    /\ IF m.kind = "hello" THEN ~connected ELSE connected /\ m.job \notin completed
\* The checks of receive() on a new frame.
Accepts(m) ==
    /\ Addressed(m) /\ m.seq = ack + 1
    /\ IF m.kind = "hello" THEN ~connected ELSE connected /\ m.job \notin completed

\* receive() answers a repetition of the last frame without acting on it.
Repeated(m) == Addressed(m) /\ m.seq = ack /\ m = last

Logged(m) == IF m.kind = "output" THEN Append(log, <<m.job, m.body>>) ELSE log

\* receive() executes the write of worker x.
Receive(x) ==
    LET m == w[x].msg
        ok == Accepts(m) \/ Repeated(m)
    IN  /\ wire[x].phase = "issued"
        /\ wire' = [wire EXCEPT ![x].phase = "answered", ![x].ok = ok]
        /\ joined' = IF ok /\ m.kind = "hello" THEN joined \cup {x} ELSE joined
        /\ IF Accepts(m)
           THEN /\ ack' = m.seq /\ last' = m
                /\ connected' = (connected \/ m.kind = "hello")
                /\ completed' = IF m.kind = "done" THEN completed \cup {m.job} ELSE completed
                /\ log' = Logged(m)
           ELSE UNCHANGED <<ack, last, connected, completed, log>>
        /\ UNCHANGED <<session, job, jobFile, op, w, ran, sent>>

\* The log or events.jsonl cannot be opened or takes a part of the body only:
\* receive() raises before it changes its state, and the handler answers Write
\* Fault.
ReceiveRaises(x) ==
    /\ wire[x].phase = "issued" /\ Accepts(w[x].msg)
    /\ wire' = [wire EXCEPT ![x].phase = "answered", ![x].ok = FALSE]
    /\ \/ UNCHANGED log
       \/ w[x].msg.kind = "output" /\ log' = Append(log, <<w[x].msg.job, Torn>>)
    /\ UNCHANGED <<session, ack, last, job, jobFile, connected, completed, op, w, joined, ran,
                   sent>>

\* The launcher starts again: a new token and an empty session directory.  A
\* worker that is still there holds the old token.
HostRestart ==
    /\ session < MaxSessions
    /\ session' = session + 1 /\ ack' = 0 /\ last' = NoMessage
    /\ job' = NoJob /\ jobFile' = NoJob
    /\ connected' = FALSE /\ completed' = {} /\ log' = <<>>
    /\ op' = [o \in Operators |-> 0]
    /\ joined' = {} /\ ran' = <<>> /\ sent' = <<>>
    /\ UNCHANGED <<w, wire>>

(***************************************************************************)
(* The storage stack between them.                                         *)
(***************************************************************************)
\* The answer is lost and the command is issued again.
Reissue(x) ==
    /\ wire[x].phase = "answered" /\ wire[x].repeats < MaxRepeats
    /\ wire' = [wire EXCEPT ![x].phase = "issued", ![x].repeats = @ + 1]
    /\ UNCHANGED <<hostVars, op, w, joined, ran, sent>>

(***************************************************************************)
(* A worker.                                                               *)
(***************************************************************************)
Message(kind, j, body, seq, token) ==
    [token |-> token, job |-> j, kind |-> kind, body |-> body, seq |-> seq]

\* send() up to WriteFile, by worker x with the state v.
Send(x, v, kind, body) ==
    /\ w' = [w EXCEPT ![x] =
                [v EXCEPT !.pc = "writing", !.seq = @ + 1,
                          !.msg = Message(kind, v.job, body, v.seq + 1, v.token)]]
    /\ wire' = [wire EXCEPT ![x] = [phase |-> "issued", ok |-> FALSE, repeats |-> 0]]

Stop(x) == w' = [w EXCEPT ![x].pc = "stopped"] /\ wire' = [wire EXCEPT ![x] = NoWrite]

\* Identify the disk, take over token and sequence, announce the worker.
Start(x) ==
    /\ w[x].pc = "off" /\ ~FrameRaises
    /\ Send(x, [Asleep EXCEPT !.token = session, !.seq = ack], "hello", 0)
    /\ job' = Latched
    /\ UNCHANGED <<session, ack, last, jobFile, connected, completed, log, op, joined, ran, sent>>

\* WriteFile fails (refused, or its answer is lost for good), or the sector is
\* read back.
Written(x) ==
    /\ w[x].pc = "writing" /\ wire[x].phase = "answered"
    /\ \/ Stop(x)
       \/ /\ wire[x].ok
          /\ w' = [w EXCEPT ![x].pc = "confirm"] /\ wire' = [wire EXCEPT ![x] = NoWrite]
    /\ UNCHANGED <<hostVars, op, joined, ran, sent>>

\* A read that cannot succeed: frame() raises, or the token is another one.
Unreadable(x) == FrameRaises \/ w[x].token # session

\* A read of the sector fails: it is unreadable, or the answer does not arrive.
ReadFails(x) ==
    /\ w[x].pc \in {"confirm", "poll"}
    /\ Stop(x)
    /\ job' = Latched
    /\ UNCHANGED <<session, ack, last, jobFile, connected, completed, log, op, joined, ran, sent>>

\* The read that ends send(): the acknowledged sequence must be this one.
Confirm(x) ==
    /\ w[x].pc = "confirm" /\ ~Unreadable(x)
    /\ job' = Latched
    /\ \/ /\ ack # w[x].seq /\ Stop(x)
       \/ /\ ack = w[x].seq
          /\ w' = [w EXCEPT ![x].pc = IF w[x].msg.kind = "output" THEN "run" ELSE "poll"]
          /\ UNCHANGED wire
    /\ UNCHANGED <<session, ack, last, jobFile, connected, completed, log, op, joined, ran, sent>>

\* The main loop finds a job newer than the last one and starts it.
Poll(x) ==
    /\ w[x].pc = "poll" /\ ~Unreadable(x)
    /\ job' = Latched
    /\ Offered.id > w[x].last
    /\ w' = [w EXCEPT ![x].pc = "run", ![x].last = Offered.id, ![x].job = Offered.id,
                      ![x].chunk = 0]
    /\ ran' = Append(ran, Offered)
    /\ UNCHANGED <<session, ack, last, jobFile, connected, completed, log, op, wire, joined,
                   sent>>

Output(x) ==
    /\ w[x].pc = "run" /\ w[x].chunk < MaxChunks
    /\ Send(x, [w[x] EXCEPT !.chunk = @ + 1], "output", w[x].chunk + 1)
    /\ sent' = IF w[x].token = session THEN Append(sent, <<w[x].job, w[x].chunk + 1>>) ELSE sent
    /\ UNCHANGED <<hostVars, op, joined, ran>>

\* run() returns without a report: no pipe, or the pipe cannot be read.
RunFails(x) ==
    /\ w[x].pc = "run"
    /\ Stop(x)
    /\ UNCHANGED <<hostVars, op, joined, ran, sent>>

\* Bug: the end of the script is noticed at the end of its output only.
FinishAfterOutput(x) ==
    /\ w[x].pc = "run" /\ w[x].chunk > 0
    /\ Send(x, w[x], "done", 0)
    /\ UNCHANGED <<hostVars, op, joined, ran, sent>>
\* The script ends, or could not be started.
Finish(x) ==
    /\ w[x].pc = "run"
    /\ Send(x, w[x], "done", 0)
    /\ UNCHANGED <<hostVars, op, joined, ran, sent>>

\* Windows restarts, or the worker is killed: what the write did is unknown.
WorkerDies(x) ==
    /\ w[x].pc # "off"
    /\ w' = [w EXCEPT ![x] = Asleep] /\ wire' = [wire EXCEPT ![x] = NoWrite]
    /\ UNCHANGED <<hostVars, op, joined, ran, sent>>

WorkerStep(x) ==
    \/ Receive(x) \/ ReceiveRaises(x) \/ Reissue(x)
    \/ Start(x) \/ Written(x) \/ ReadFails(x) \/ Confirm(x) \/ Poll(x)
    \/ Output(x) \/ RunFails(x) \/ Finish(x) \/ WorkerDies(x)

Next ==
    \/ \E o \in Operators : QueueRead(o) \/ QueueWrite(o)
    \/ OtherRead \/ HostRestart
    \/ \E x \in Workers : WorkerStep(x)

Spec == Init /\ [][Next]_vars

\* Commands are executed and answered, the worker's loop goes on and the
\* scripts end.  A read that can succeed need not fail.
Fairness ==
    \A x \in Workers :
       /\ WF_vars(Receive(x)) /\ WF_vars(Written(x))
       /\ WF_vars(Confirm(x)) /\ WF_vars(Poll(x)) /\ WF_vars(Unreadable(x) /\ ReadFails(x))
       /\ WF_vars(Finish(x))

FairSpec == Spec /\ Fairness

(***************************************************************************)
(* Properties.                                                             *)
(***************************************************************************)
Jobs == [id : 0..MaxJobs, script : Operators \cup {"none"}]
Messages == [token : 0..MaxSessions, job : 0..MaxJobs,
             kind : {"none", "hello", "output", "done"}, body : 0..MaxChunks, seq : Nat]
WorkerStates == [pc : {"off", "writing", "confirm", "poll", "run", "stopped"},
                 token : 0..MaxSessions, seq : Nat, last : 0..MaxJobs, job : 0..MaxJobs,
                 chunk : 0..MaxChunks, msg : Messages]
Writes == [phase : {"none", "issued", "answered"}, ok : BOOLEAN, repeats : 0..MaxRepeats]

\* Types of all variables.
TypeOK ==
    /\ session \in 1..MaxSessions /\ ack \in Nat /\ last \in Messages
    /\ job \in Jobs /\ jobFile \in Jobs /\ connected \in BOOLEAN
    /\ completed \subseteq 1..MaxJobs
    /\ log \in Seq((1..MaxJobs) \X (0..MaxChunks)) /\ sent \in Seq((1..MaxJobs) \X (1..MaxChunks))
    /\ op \in [Operators -> 0..MaxJobs]
    /\ w \in [Workers -> WorkerStates] /\ wire \in [Workers -> Writes]
    /\ joined \subseteq Workers /\ ran \in Seq(Jobs)

\* The session has let in one worker.  Two that read the sector before either is
\* let in build the same hello, and receive() answers the second as a repetition
\* of the first.
Alone == \A x, y \in joined : x = y

Once == \A i, j \in 1..Len(ran) : ran[i].id = ran[j].id => i = j

\* "One worker per boot, no implicit task replay" (receive()): within one host
\* session that has let in one worker no job is started twice, whatever dies,
\* restarts or is repeated and whoever else tries to join.
RunsOnce == Alone => Once

\* The log's entries that are whole chunks, and how many of them the first i
\* entries hold.
Whole(i) == log[i][2] # Torn
Rank(i) == Cardinality({j \in 1..i : Whole(j)})

Faithful ==
    /\ \A i \in 1..Len(log) : Whole(i) => Rank(i) <= Len(sent) /\ log[i] = sent[Rank(i)]
    /\ Len(sent) <= Rank(Len(log)) + 1
    /\ \A k \in completed :
          /\ \E i \in 1..Len(ran) : ran[i].id = k
          /\ \A i \in 1..Len(sent) : sent[i][1] = k => i <= Rank(Len(log))

\* In a session that has let in one worker, the whole chunks of the log are
\* exactly the output that worker produced, in order and without repetition,
\* except for the last chunk, whose write may still be under way or have failed;
\* and a job counts as completed only when the worker has started it and every
\* chunk of its output is in the log.
LogIsFaithful == Alone => Faithful

\* A job in the session directory of a worker that polls is started and reports
\* its exit to the host, unless the worker stops or dies or the host starts a
\* new session.
JobReports ==
    \A k \in 1..MaxJobs, x \in Workers :
        (jobFile.id = k /\ w[x].pc = "poll" /\ w[x].token = session)
            ~> (k \in completed \/ w[x].pc \in {"off", "stopped"} \/ w[x].token # session)
=============================================================================
