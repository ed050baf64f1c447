-------------------------- MODULE FileUploadProofs --------------------------
(***************************************************************************)
(* Proofs about FileUpload for every set of client programs, every         *)
(* registered file, every content of the source file, and every number of  *)
(* attempts and launcher sessions.                                         *)
(***************************************************************************)
EXTENDS FileUpload, SequenceTheorems, TLAPS

Blocks == Values \cup {"torn", "foreign"}
Files == [there : BOOLEAN, data : Seq(Blocks)]
Kinds == {"begin", "data", "end"}
Frames == [token : Nat, seq : 0..(Chunks + 2), kind : Kinds \cup {"none"},
           offset : 0..Chunks, body : Values \cup {"none"}]
Receivers == [up : BOOLEAN, open : BOOLEAN, hashed : Seq(Values), seq : 0..(Chunks + 2),
              last : Frames, done : BOOLEAN, failed : BOOLEAN]
Programs == [pc : {"off", "put", "get", "stopped", "pass"}, token : Nat,
             source : Sources \cup {Expected}, seq : 0..(Chunks + 2), kind : Kinds,
             offset : 0..Chunks, attempt : 0..(Tries - 1)]

(***************************************************************************)
(* What the receiver's state g says about the files p and d: while a       *)
(* transfer is open the partial file is what was hashed, so the comparison *)
(* of the digest at END is a comparison of the file; and a transfer that   *)
(* is done left the registered file under the final name.                  *)
(***************************************************************************)
HostOk(g, p, d) ==
    /\ g \in Receivers /\ Len(g.hashed) <= Chunks
    /\ p \in Files /\ d \in Files
    /\ g.open => p = File(g.hashed)
    /\ g.done => d = File(Expected)
    /\ d.there => d.data = Expected \/ d = Foreign

\* The sequence number of a program's frame follows from its kind and offset.
ProgramOk(v) ==
    /\ v \in Programs
    /\ v.kind = "begin" => v.offset = 0 /\ v.seq = IF v.pc = "off" THEN 0 ELSE 1
    /\ v.kind = "data" => v.offset < Chunks /\ v.seq = v.offset + 2
    /\ v.kind = "end" => v.offset = Chunks /\ v.seq = Chunks + 2
    /\ v.pc = "off" => v.kind = "begin"

Inv ==
    /\ session \in 1..MaxSessions
    /\ HostOk(h, part, dest)
    /\ client \in [Clients -> Programs]
    /\ \A c \in Clients : ProgramOk(client[c])
    /\ \A c \in Clients : client[c].pc = "pass" => dest = File(Expected)

\* What one frame may do to the two files, FilesKept without the restart.
Kept(p, d, p2, d2) ==
    /\ d.there => d2 = d
    /\ p.there => \/ p2.there /\ IsPrefix(p.data, p2.data)
                  \/ ~p2.there /\ d2 = p

(***************************************************************************)
(* Facts about files as sequences of chunks.                               *)
(***************************************************************************)
\* The chunks of a source file, and of the registered one, are Values.
LEMMA SourceTypes ==
    ASSUME NEW s \in Sources \cup {Expected}
    PROVE  /\ s \in Seq(Values)
           /\ \A i \in 1..Chunks : s[i] \in Values
  <1>1. \A i \in 1..Chunks : s[i] \in Values
    BY DEF Values
  <1>2. s \in [1..Chunks -> Values]
    BY <1>1, UploadAssumption
  <1> QED BY <1>1, <1>2, UploadAssumption, SeqDef

\* A sequence is a prefix of itself and of what Append makes of it.
LEMMA PrefixAppend ==
    ASSUME NEW S, NEW s \in Seq(S), NEW e \in S
    PROVE  IsPrefix(s, s) /\ IsPrefix(s, Append(s, e))
  <1>1. IsPrefix(s, s)
    BY LenProperties DEF IsPrefix
  <1>2. /\ Len(s) \in Nat /\ Len(Append(s, e)) = Len(s) + 1
        /\ \A i \in 1..Len(s) : Append(s, e)[i] = s[i]
    BY LenProperties, AppendProperties
  <1>3. SubSeq(s, 1, Len(s)) = SubSeq(Append(s, e), 1, Len(s))
    BY <1>2
  <1> QED BY <1>1, <1>2, <1>3 DEF IsPrefix

(***************************************************************************)
(* The receiver.                                                           *)
(***************************************************************************)
\* The frame a program sends is well formed.
LEMMA FrameOfProgram ==
    ASSUME NEW v, ProgramOk(v)
    PROVE  /\ Frame(v) \in Frames
           /\ Frame(v).kind = "begin" => Frame(v).offset = 0
           /\ Frame(v).kind = "data" => Frame(v).body \in Values
  <1>1. CASE v.kind = "data"
    <2>1. v.source \in Sources \cup {Expected} /\ v.offset + 1 \in 1..Chunks
      BY <1>1, UploadAssumption DEF ProgramOk, Programs
    <2>2. v.source[v.offset + 1] \in Values
      BY <2>1, SourceTypes
    <2> QED BY <1>1, <2>2, UploadAssumption DEF Frame, Frames, ProgramOk, Programs
  <1>2. CASE v.kind # "data"
    BY <1>2, UploadAssumption DEF Frame, Frames, ProgramOk, Programs
  <1> QED BY <1>1, <1>2

\* A file that is there is a file.
LEMMA FileTypes ==
    ASSUME NEW d \in Seq(Blocks)
    PROVE  File(d) \in Files /\ File(d).data = d /\ File(d).there
  BY DEF File, Files

\* The receivers that a frame may leave behind.
LEMMA ReceiverTypes ==
    ASSUME NEW f \in Frames, NEW g \in Receivers
    PROVE  /\ Took(f, g) \in Receivers /\ Took(f, g).hashed = g.hashed
           /\ Took(f, g).open = g.open /\ Took(f, g).done = g.done
  BY DEF Took, Receivers, Frames

\* A transfer that failed is closed, and done only if it was.
LEMMA FailedKeeps ==
    ASSUME h \in Receivers
    PROVE  /\ Failed \in Receivers /\ Failed.hashed = h.hashed
           /\ ~Failed.open /\ Failed.done = h.done
  BY DEF Failed, Receivers

\* BEGIN makes the partial file, and only where there was none.
LEMMA BeginKeeps ==
    ASSUME HostOk(h, part, dest), NEW f \in Frames, f.offset = Len(h.hashed),
           f.kind = "begin", f.offset = 0, ~h.done, NEW o \in BeginOutcomes(f)
    PROVE  HostOk(o.h, o.part, o.dest) /\ Kept(part, dest, o.part, o.dest)
  <1> USE DEF HostOk, Receivers, Files
  <1>1. h.hashed = <<>> /\ <<>> \in Seq(Blocks)
    BY EmptySeq
  <1>2. part.there => IsPrefix(part.data, part.data)
    BY LenProperties DEF IsPrefix
  <1>3. PICK g, p : /\ o = Outcome(g, p, dest, o.ok)
                    /\ \/ g = h /\ p = part
                       \/ g = Failed /\ p = part
                       \/ g = Failed /\ p = File(<<>>) /\ ~part.there
                       \/ /\ g = Took(f, [h EXCEPT !.open = TRUE])
                          /\ p = File(<<>>) /\ ~part.there
    BY DEF BeginOutcomes, Outcome, Nothing
  <1>4. HostOk(g, p, dest)
    <2>1. [h EXCEPT !.open = TRUE] \in Receivers
      OBVIOUS
    <2>2. g \in Receivers /\ g.hashed = h.hashed /\ ~g.done
      BY <1>3, <2>1, ReceiverTypes, FailedKeeps
    <2>3. g.open => p = File(<<>>) \/ (g = h /\ p = part)
      BY <1>3, FailedKeeps
    <2>4. p \in Files
      BY <1>1, <1>3, FileTypes
    <2> QED BY <1>1, <2>2, <2>3, <2>4
  <1> QED BY <1>2, <1>3, <1>4 DEF Kept, Outcome

\* DATA extends the partial file; when the write is torn the transfer ends.
LEMMA DataKeeps ==
    ASSUME HostOk(h, part, dest), NEW f \in Frames, f.offset = Len(h.hashed),
           f.body \in Values, f.offset < Chunks, h.open, ~h.done,
           NEW o \in DataOutcomes(f)
    PROVE  HostOk(o.h, o.part, o.dest) /\ Kept(part, dest, o.part, o.dest)
  <1>1. /\ h \in Receivers /\ part \in Files /\ dest \in Files
        /\ part = File(h.hashed)
    BY DEF HostOk
  <1>2. /\ Append(h.hashed, f.body) \in Seq(Values)
        /\ Len(Append(h.hashed, f.body)) = Len(h.hashed) + 1
    BY <1>1, AppendProperties DEF Receivers
  <1>3. \A e \in Blocks : /\ Append(part.data, e) \in Seq(Blocks)
                          /\ IsPrefix(part.data, Append(part.data, e))
                          /\ IsPrefix(part.data, part.data)
    BY <1>1, AppendProperties, PrefixAppend DEF Files
  <1>4. f.body \in Blocks /\ "torn" \in Blocks
    BY DEF Blocks
  <1>5. PICK g, p : /\ o = Outcome(g, p, dest, o.ok)
                    /\ \/ g = Failed /\ p = part
                       \/ g = Failed /\ p = File(Append(part.data, "torn"))
                       \/ /\ g = Took(f, [h EXCEPT !.hashed = Append(@, f.body)])
                          /\ p = WithBody(f)
    BY DEF DataOutcomes, Outcome
  <1>6. HostOk(g, p, dest)
    <2> DEFINE k == [h EXCEPT !.hashed = Append(@, f.body)]
    <2>1. /\ k \in Receivers /\ k.hashed = Append(h.hashed, f.body) /\ k.done = h.done
      BY <1>1, <1>2 DEF Receivers
    <2>2. p \in Files
      BY <1>1, <1>3, <1>4, <1>5, FileTypes DEF WithBody
    <2>3. CASE g = Failed
      BY <1>1, <2>2, <2>3, FailedKeeps DEF HostOk
    <2>4. CASE g = Took(f, k) /\ p = WithBody(f)
      <3>1. p = File(k.hashed)
        BY <1>1, <2>1, <2>4 DEF WithBody, File
      <3>2. Len(k.hashed) <= Chunks
        BY <1>1, <1>2, <2>1, UploadAssumption DEF Frames
      <3>3. /\ g \in Receivers /\ g.hashed = k.hashed /\ g.done = k.done
        BY <2>1, <2>4, ReceiverTypes
      <3> HIDE DEF k
      <3> QED BY <2>1, <2>2, <3>1, <3>2, <3>3 DEF HostOk
    <2> QED BY <1>5, <2>3, <2>4
  <1>7. Kept(part, dest, p, dest)
    <2>1. p.there /\ \E e \in Blocks : p.data \in {part.data, Append(part.data, e)}
      BY <1>1, <1>4, <1>5 DEF File, WithBody
    <2> QED BY <1>3, <2>1 DEF Kept
  <1> QED BY <1>5, <1>6, <1>7 DEF Outcome

\* END publishes the partial file when what was hashed is the registered file.
LEMMA EndKeeps ==
    ASSUME HostOk(h, part, dest), NEW f \in Frames, h.open, ~h.done,
           NEW o \in EndOutcomes(f)
    PROVE  HostOk(o.h, o.part, o.dest) /\ Kept(part, dest, o.part, o.dest)
  <1>1. /\ h \in Receivers /\ part \in Files /\ dest \in Files
        /\ part = File(h.hashed) /\ <<>> \in Seq(Blocks)
    BY EmptySeq DEF HostOk
  <1>2. IsPrefix(part.data, part.data)
    BY <1>1, LenProperties DEF IsPrefix, Files
  <1>3. PICK g, p, d :
          /\ o = Outcome(g, p, d, o.ok)
          /\ \/ g = Failed /\ p = part /\ d = dest
             \/ /\ h.hashed = Expected /\ ~dest.there /\ d = part
                /\ \/ g = Failed /\ p = part
                   \/ g = Ended(f) /\ p = NoFile
    BY DEF EndOutcomes, Outcome
  <1>4. HostOk(g, p, d)
    <2>1. Failed \in Receivers /\ Len(Failed.hashed) <= Chunks /\ ~Failed.open /\ ~Failed.done
      BY <1>1 DEF HostOk, Receivers, Failed
    <2>2. /\ Ended(f) \in Receivers /\ Len(Ended(f).hashed) <= Chunks
          /\ ~Ended(f).open
      BY <1>1 DEF HostOk, Receivers, Frames, Took, Ended
    <2>3. NoFile \in Files
      BY <1>1 DEF NoFile, Files
    <2>4. CASE d = part /\ h.hashed = Expected
      BY <1>1, <1>3, <2>1, <2>2, <2>3, <2>4 DEF HostOk, File
    <2>5. CASE g = Failed /\ p = part /\ d = dest
      BY <1>1, <2>1, <2>5 DEF HostOk
    <2> QED BY <1>3, <2>4, <2>5
  <1>5. Kept(part, dest, p, d)
    BY <1>1, <1>2, <1>3 DEF Kept, File, NoFile
  <1> QED BY <1>3, <1>4, <1>5 DEF Outcome

\* Every frame: the receiver and the two files stay in agreement.
LEMMA AcceptKeeps ==
    ASSUME HostOk(h, part, dest), NEW f \in Frames,
           f.kind = "begin" => f.offset = 0, f.kind = "data" => f.body \in Values,
           NEW o \in Accept(f) \cup {Nothing(FALSE)}
    PROVE  HostOk(o.h, o.part, o.dest) /\ Kept(part, dest, o.part, o.dest)
  <1>1. CASE o \in {Nothing(TRUE), Nothing(FALSE)}
    <2>1. part.there => IsPrefix(part.data, part.data)
      BY LenProperties DEF IsPrefix, HostOk, Files
    <2> QED BY <1>1, <2>1 DEF Nothing, Outcome, Kept
  <1>2. CASE o \notin {Nothing(TRUE), Nothing(FALSE)}
    <2>1. /\ ~h.done /\ f.offset = Len(h.hashed)
          /\ \/ f.kind = "begin" /\ o \in BeginOutcomes(f)
             \/ f.kind = "data" /\ h.open /\ f.offset < Chunks /\ o \in DataOutcomes(f)
             \/ f.kind = "end" /\ h.open /\ o \in EndOutcomes(f)
      BY <1>2 DEF Accept
    <2> QED BY <2>1, BeginKeeps, DataKeeps, EndKeeps
  <1> QED BY <1>1, <1>2

(***************************************************************************)
(* The steps.                                                              *)
(***************************************************************************)
LEMMA InvInit == Init => Inv
  <1> SUFFICES ASSUME Init PROVE Inv
    OBVIOUS
  <1>1. <<>> \in Seq(Values) /\ <<>> \in Seq(Blocks) /\ Len(<<>>) = 0
    BY EmptySeq
  <1>2. Fresh \in Receivers /\ NoFile \in Files
    BY <1>1, UploadAssumption DEF Fresh, NoFrame, NoFile, Receivers, Frames, Files
  <1>3. ProgramOk(Idle) /\ Idle.pc = "off"
    BY UploadAssumption DEF ProgramOk, Idle, Programs, Kinds
  <1>4. HostOk(Fresh, NoFile, NoFile)
    BY <1>1, <1>2, UploadAssumption DEF HostOk, Fresh, NoFile
  <1> QED BY <1>3, <1>4, UploadAssumption DEF Inv, Init, ProgramOk

\* A program begins with frame 1 of its source.
LEMMA ProgramStarts ==
    ASSUME NEW s \in Sources, NEW t \in Nat
    PROVE  ProgramOk([Idle EXCEPT !.pc = "put", !.token = t, !.source = s, !.seq = 1])
  <1>1. 1 \in 0..(Chunks + 2) /\ 0 \in 0..(Chunks + 2) /\ 0 \in 0..Chunks
        /\ 0 \in 0..(Tries - 1)
    BY UploadAssumption
  <1>2. Idle \in Programs /\ Idle.kind = "begin" /\ Idle.offset = 0
    BY <1>1 DEF Idle, Programs, Kinds
  <1> QED BY <1>1, <1>2 DEF ProgramOk, Programs

\* What a program becomes when it tries again, goes on or stops.
LEMMA ProgramSteps ==
    ASSUME NEW v, ProgramOk(v), v.pc # "off"
    PROVE  /\ ProgramOk(Retry(v)) /\ Retry(v).pc \in {"put", "stopped"}
           /\ ProgramOk(Acked(v)) /\ (Acked(v).pc = "pass" => v.kind = "end")
           /\ \A x \in {"get", "stopped"} : ProgramOk([v EXCEPT !.pc = x])
  <1> USE UploadAssumption DEF ProgramOk, Programs
  <1>1. ProgramOk(Retry(v)) /\ Retry(v).pc \in {"put", "stopped"}
    <2>1. CASE v.attempt + 1 < Tries
      <3>1. v.attempt + 1 \in 0..(Tries - 1)
        BY <2>1
      <3> QED BY <2>1, <3>1 DEF Retry
    <2>2. CASE ~(v.attempt + 1 < Tries)
      BY <2>2 DEF Retry
    <2> QED BY <2>1, <2>2
  <1>2. ProgramOk(Acked(v)) /\ (Acked(v).pc = "pass" => v.kind = "end")
    <2>1. CASE v.kind = "end"
      BY <2>1 DEF Acked
    <2>2. CASE v.kind # "end"
      <3>1. /\ After(v) \in 0..Chunks /\ v.seq + 1 = After(v) + 2
            /\ v.seq + 1 \in 0..(Chunks + 2) /\ 0 \in 0..(Tries - 1)
        BY <2>2, SMTT(30) DEF After, Kinds
      <3>2. PICK k \in {"data", "end"} : k = IF After(v) < Chunks THEN "data" ELSE "end"
        OBVIOUS
      <3>3. Acked(v) = [v EXCEPT !.pc = "put", !.seq = v.seq + 1, !.offset = After(v),
                                 !.attempt = 0, !.kind = k]
        BY <2>2, <3>2 DEF Acked
      <3>4. Acked(v) = [pc |-> "put", token |-> v.token, source |-> v.source,
                        seq |-> v.seq + 1, kind |-> k, offset |-> After(v), attempt |-> 0]
        BY <3>3
      <3> QED BY <3>1, <3>2, <3>4 DEF Kinds
    <2> QED BY <2>1, <2>2
  <1>3. \A x \in {"get", "stopped"} : ProgramOk([v EXCEPT !.pc = x])
    OBVIOUS
  <1> QED BY <1>1, <1>2, <1>3

\* The steps of a program that change nothing on the host.
LEMMA InvProgram ==
    ASSUME Inv, NEW c \in Clients, Start(c) \/ Get(c) \/ SourceFails(c)
    PROVE  Inv'
  <1> DEFINE v == client[c]
  <1>1. ProgramOk(v) /\ v \in Programs
    BY DEF Inv, ProgramOk
  <1>2. /\ UNCHANGED <<session, h, part, dest>>
        /\ \E w : /\ client' = [client EXCEPT ![c] = w]
                  /\ ProgramOk(w) /\ (w.pc = "pass" => dest = File(Expected))
    <2>1. CASE Start(c)
      <3>1. PICK s \in Sources :
              client' = [client EXCEPT ![c] = [Idle EXCEPT !.pc = "put", !.token = session,
                                                           !.source = s, !.seq = 1]]
        BY <2>1 DEF Start
      <3>2. session \in Nat /\ 1 \in 0..(Chunks + 2)
        BY UploadAssumption DEF Inv
      <3>3. ProgramOk([Idle EXCEPT !.pc = "put", !.token = session, !.source = s, !.seq = 1])
        BY <3>2, ProgramStarts
      <3>4. [Idle EXCEPT !.pc = "put", !.token = session, !.source = s, !.seq = 1].pc = "put"
        BY DEF Idle
      <3> QED BY <2>1, <3>1, <3>3, <3>4 DEF Start
    <2>2. CASE Get(c)
      <3>1. v.pc = "get"
        BY <2>2 DEF Get
      <3>2. ASSUME AckOk(v), v.kind = "end" PROVE dest = File(Expected)
        BY <3>2 DEF AckOk, AckStatus, Inv, HostOk
      <3> QED BY <1>1, <2>2, <3>1, <3>2, ProgramSteps DEF Get
    <2>3. CASE SourceFails(c)
      <3>1. v.pc = "put" /\ client' = [client EXCEPT ![c] = [v EXCEPT !.pc = "stopped"]]
        BY <2>3 DEF SourceFails
      <3>2. [v EXCEPT !.pc = "stopped"].pc = "stopped"
        BY <1>1 DEF Programs
      <3> QED BY <1>1, <2>3, <3>1, <3>2, ProgramSteps DEF SourceFails
    <2> QED BY <2>1, <2>2, <2>3
  <1> QED BY <1>2 DEF Inv, ProgramOk

\* A frame is written: the host's side is AcceptKeeps, and only a program that
\* is still sending moves.
LEMMA InvPut ==
    ASSUME Inv, NEW c \in Clients, Put(c)
    PROVE  Inv' /\ UNCHANGED session /\ Kept(part, dest, part', dest')
  <1> DEFINE v == client[c]
  <1>1. ProgramOk(v) /\ v \in Programs /\ v.pc = "put" /\ UNCHANGED session
    BY DEF Inv, ProgramOk, Put
  <1>2. PICK o \in Accept(Frame(v)) \cup {Nothing(FALSE)} :
          /\ h' = o.h /\ part' = o.part /\ dest' = o.dest
          /\ \/ client' = [client EXCEPT ![c].pc = "get"]
             \/ client' = [client EXCEPT ![c] = Retry(v)]
    BY DEF Put
  <1>3. HostOk(h', part', dest') /\ Kept(part, dest, part', dest')
    BY <1>1, <1>2, FrameOfProgram, AcceptKeeps DEF Inv
  <1>4. \E w : /\ client' = [client EXCEPT ![c] = w]
               /\ ProgramOk(w) /\ w.pc # "pass"
    <2>1. [v EXCEPT !.pc = "get"].pc = "get"
      BY <1>1 DEF Programs
    <2>2. client' = [client EXCEPT ![c].pc = "get"]
            => client' = [client EXCEPT ![c] = [v EXCEPT !.pc = "get"]]
      OBVIOUS
    <2> HIDE DEF v
    <2> QED BY <1>1, <1>2, <2>1, <2>2, ProgramSteps
  <1>5. dest = File(Expected) => dest' = File(Expected)
    BY <1>3 DEF Kept, File
  <1>6. HostOk(h, part, dest)'
    BY <1>3 DEF HostOk
  <1> QED BY <1>1, <1>3, <1>4, <1>5, <1>6 DEF Inv, ProgramOk

\* The launcher starts again, or a file of one of the names appears.
LEMMA InvSurroundings ==
    ASSUME Inv, HostRestart \/ ForeignFile
    PROVE  Inv'
  <1>1. <<>> \in Seq(Values) /\ <<>> \in Seq(Blocks) /\ Len(<<>>) = 0
    BY EmptySeq
  <1>2. Foreign \in Files /\ Foreign.there /\ NoFile \in Files
    <2>1. <<"foreign">> \in Seq(Blocks)
      BY DEF Blocks
    <2> QED BY <1>1, <2>1, FileTypes DEF Foreign, NoFile, Files
  <1>3. CASE HostRestart
    <2>1. h' \in Receivers /\ h'.hashed = <<>> /\ ~h'.open /\ ~h'.done
      <3>1. Fresh \in Receivers
        BY <1>1, UploadAssumption DEF Fresh, NoFrame, Receivers, Frames
      <3>2. PICK b \in BOOLEAN : h' = [Fresh EXCEPT !.up = b]
        BY <1>3 DEF HostRestart
      <3> QED BY <3>1, <3>2 DEF Receivers, Fresh
    <2>2. session' \in 1..MaxSessions /\ part' \in Files /\ dest' = dest /\ client' = client
      BY <1>2, <1>3, UploadAssumption DEF HostRestart, Inv, HostOk
    <2>3. HostOk(h, part, dest)'
      BY <1>1, <2>1, <2>2, UploadAssumption DEF Inv, HostOk
    <2> QED BY <2>2, <2>3 DEF Inv, ProgramOk
  <1>4. CASE ForeignFile
    <2>1. /\ UNCHANGED <<session, h, client>>
          /\ \/ ~dest.there /\ dest' = Foreign /\ UNCHANGED part
             \/ ~part.there /\ part' = Foreign /\ UNCHANGED dest
      BY <1>4 DEF ForeignFile
    <2>2. HostOk(h, part, dest)'
      <3>1. ~dest.there => ~h.done
        BY DEF Inv, HostOk, File
      <3>2. ~part.there => ~h.open
        BY DEF Inv, HostOk, File
      <3> QED BY <1>2, <2>1, <3>1, <3>2 DEF Inv, HostOk
    <2>3. dest = File(Expected) => dest' = File(Expected)
      BY <2>1 DEF File
    <2> QED BY <2>1, <2>2, <2>3 DEF Inv, ProgramOk
  <1> QED BY <1>3, <1>4

LEMMA InvNext == Inv /\ [Next]_vars => Inv'
  <1> SUFFICES ASSUME Inv, [Next]_vars PROVE Inv'
    OBVIOUS
  <1>1. CASE UNCHANGED vars
    BY <1>1 DEF vars, Inv, HostOk, ProgramOk
  <1>2. CASE Next
    BY <1>2, InvProgram, InvPut, InvSurroundings DEF Next
  <1> QED BY <1>1, <1>2

(***************************************************************************)
(* Theorems.                                                               *)
(***************************************************************************)
\* Every variable of the upload keeps its type, and no sequence number, offset
\* or file in progress outgrows the registered file.
THEOREM TypeCorrect == Spec => []TypeOK
  <1>1. Inv => TypeOK
    <2> SUFFICES ASSUME Inv PROVE TypeOK
      OBVIOUS
    <2>1. \A c \in Clients : client[c] \in Programs
      BY DEF Inv
    <2> QED BY <2>1 DEF Inv, TypeOK, HostOk, Receivers, Programs, Files, Blocks
  <1> QED BY <1>1, InvInit, InvNext, PTL DEF Spec

\* What the receiver published is the registered file, and a program that
\* reported success left it there, for every interleaving of any number of
\* programs, every failure of a write, link or unlink, and every restart.
THEOREM PublishedIsExactHolds == Spec => []PublishedIsExact
  <1>1. Inv => PublishedIsExact
    BY DEF Inv, HostOk, PublishedIsExact
  <1> QED BY <1>1, InvInit, InvNext, PTL DEF Spec

\* No step replaces a published file, and within a session none loses or
\* rewrites what a partial file holds.
THEOREM FilesKeptHolds == Spec => FilesKept
  <1> DEFINE Step == /\ dest.there => dest' = dest
                     /\ session' = session /\ part.there =>
                           \/ part'.there /\ IsPrefix(part.data, part'.data)
                           \/ ~part'.there /\ dest' = part
  <1>1. Inv /\ [Next]_vars => [Step]_vars
    <2> SUFFICES ASSUME Inv, Next PROVE Step
      OBVIOUS
    <2>1. part.there => IsPrefix(part.data, part.data)
      BY LenProperties DEF IsPrefix, Inv, HostOk, Files
    <2>2. CASE \E c \in Clients : Put(c)
      BY <2>2, InvPut DEF Kept
    <2>3. CASE \E c \in Clients : Start(c) \/ Get(c) \/ SourceFails(c)
      BY <2>1, <2>3 DEF Start, Get, SourceFails
    <2>4. CASE HostRestart
      <3>1. session' # session /\ dest' = dest
        BY <2>4 DEF HostRestart, Inv
      <3> QED BY <3>1
    <2>5. CASE ForeignFile
      BY <2>1, <2>5 DEF ForeignFile
    <2> QED BY <2>2, <2>3, <2>4, <2>5 DEF Next
  <1> QED BY <1>1, InvInit, InvNext, PTL DEF Spec, FilesKept
=============================================================================
