------------------------- MODULE FileDeliveryProofs -------------------------
(***************************************************************************)
(* Proofs about FileDelivery for every number of runs of download.cmd,     *)
(* every size of the artifact and of a response, every number of attempts  *)
(* and of launcher sessions.                                               *)
(***************************************************************************)
EXTENDS FileDelivery, SequenceTheorems, TLAPS

\* The k bytes of the artifact that follow its first a bytes.
Run(a, k) == [i \in 1..k |-> a + i]

Files == [there : BOOLEAN, data : {Run(0, n) : n \in 0..Size}]
Payloads == {Run(a, k) : a \in 0..Size, k \in 0..Size}
Runs == [pc : {"off", "put", "get", "create", "write", "verify", "done", "stopped"},
         token : Nat, id : 1..(Size + 1), offset : 0..Size, attempt : 0..(Tries - 1),
         payload : Payloads]

(***************************************************************************)
(* The prefix alone is not inductive: WritePart appends at the end of the  *)
(* file what was asked for at v.offset.  They are the same place because   *)
(* the run that made the partial file is the only one that writes it.      *)
(***************************************************************************)
Writer(v) == v.pc \in {"put", "get", "write", "verify"} /\ v.id > 1

RunOk(v) ==
    /\ v \in Runs
    /\ v.pc = "create" => v.id = 1
    /\ v.pc \in {"write", "verify"} => v.id > 1
    /\ Writer(v) /\ v.pc # "verify" => v.offset < Size /\ v.id <= v.offset + 2
    /\ v.pc = "write" => \E k \in 1..(Size - v.offset) : v.payload = Run(v.offset, k)

Inv ==
    /\ session \in 1..MaxSessions /\ req \in Requests
    /\ part \in Files /\ final \in Files
    /\ client \in [Clients -> Runs]
    /\ \A c \in Clients : RunOk(client[c])
    /\ \A c \in Clients : Writer(client[c]) => part.there /\ part.data = Run(0, client[c].offset)
    /\ \A c, d \in Clients : Writer(client[c]) /\ Writer(client[d]) => c = d

(***************************************************************************)
(* Runs of bytes.                                                          *)
(***************************************************************************)
\* A run of bytes is a sequence of bytes of the artifact.
LEMMA RunTypes ==
    ASSUME NEW a \in Nat, NEW k \in Nat, a + k <= Size
    PROVE  Run(a, k) \in Seq(1..Size) /\ Len(Run(a, k)) = k
  <1>1. Run(a, k) \in [1..k -> 1..Size]
    BY DeliveryAssumption DEF Run
  <1>2. Run(a, k) \in Seq(1..Size)
    BY <1>1, SeqDef
  <1>3. DOMAIN Run(a, k) = 1..k
    BY DEF Run
  <1> QED BY <1>2, <1>3, LenProperties

\* What _build_window() cuts out of the artifact is the run asked for.
LEMMA RunOfArtifact ==
    ASSUME NEW a \in Nat, NEW k \in Nat, a + k <= Size
    PROVE  SubSeq(Artifact, a + 1, a + k) = Run(a, k)
  BY DeliveryAssumption DEF Run, Artifact

\* The first m bytes of a run are a run.
LEMMA RunOfRun ==
    ASSUME NEW a \in Nat, NEW k \in Nat, NEW m \in 0..k
    PROVE  SubSeq(Run(a, k), 1, m) = Run(a, m)
  BY DEF Run

\* Two runs that meet are one.
LEMMA RunsJoin ==
    ASSUME NEW n \in Nat, NEW k \in Nat, n + k <= Size
    PROVE  Run(0, n) \o Run(n, k) = Run(0, n + k)
  <1>1. /\ Run(0, n) \in Seq(1..Size) /\ Len(Run(0, n)) = n
        /\ Run(n, k) \in Seq(1..Size) /\ Len(Run(n, k)) = k
        /\ Run(0, n + k) \in Seq(1..Size) /\ Len(Run(0, n + k)) = n + k
    <2>1. 0 \in Nat /\ n + k \in Nat /\ 0 + n <= Size /\ 0 + (n + k) <= Size
      BY DeliveryAssumption
    <2> QED BY <2>1, RunTypes
  <1>2. /\ Run(0, n) \o Run(n, k) \in Seq(1..Size)
        /\ Len(Run(0, n) \o Run(n, k)) = n + k
        /\ \A i \in 1..(n + k) : (Run(0, n) \o Run(n, k))[i]
              = IF i <= n THEN Run(0, n)[i] ELSE Run(n, k)[i - n]
    <2> DEFINE s == Run(0, n)
               t == Run(n, k)
    <2>1. s \in Seq(1..Size) /\ t \in Seq(1..Size) /\ Len(s) = n /\ Len(t) = k
      BY <1>1
    <2> HIDE DEF s, t
    <2>2. /\ s \o t \in Seq(1..Size) /\ Len(s \o t) = n + k
          /\ \A i \in 1..(n + k) : (s \o t)[i] = IF i <= n THEN s[i] ELSE t[i - n]
      BY <2>1, ConcatProperties
    <2> QED BY <2>2 DEF s, t
  <1>3. \A i \in 1..(n + k) : (Run(0, n) \o Run(n, k))[i] = Run(0, n + k)[i]
    BY <1>2 DEF Run
  <1> QED BY <1>1, <1>2, <1>3, SeqEqual

\* A run from the first byte on is a prefix of the artifact.
LEMMA RunIsPrefix ==
    ASSUME NEW n \in 0..Size
    PROVE  IsPrefix(Run(0, n), Artifact)
  <1>1. Len(Run(0, n)) = n /\ Len(Artifact) = Size
    <2>1. Artifact = Run(0, Size)
      BY DeliveryAssumption DEF Run, Artifact
    <2> QED BY <2>1, RunTypes, DeliveryAssumption
  <1>2. SubSeq(Run(0, n), 1, n) = Run(0, n)
    BY RunOfRun, DeliveryAssumption
  <1>3. SubSeq(Artifact, 0 + 1, 0 + n) = Run(0, n)
    BY RunOfArtifact, DeliveryAssumption
  <1> QED BY <1>1, <1>2, <1>3, DeliveryAssumption DEF IsPrefix

(***************************************************************************)
(* The steps.                                                              *)
(***************************************************************************)
LEMMA InvInit == Init => Inv
  <1> SUFFICES ASSUME Init PROVE Inv
    OBVIOUS
  <1>1. <<>> = Run(0, 0)
    BY DEF Run
  <1>2. NoFile \in Files
    BY <1>1, DeliveryAssumption DEF NoFile, Files
  <1>3. RunOk(Idle) /\ ~Writer(Idle)
    BY <1>1, DeliveryAssumption DEF RunOk, Writer, Runs, Idle, Payloads
  <1>4. NoRequest \in Requests
    BY DeliveryAssumption DEF NoRequest, Requests
  <1> QED BY <1>2, <1>3, <1>4, DeliveryAssumption DEF Inv, Init, RunOk

\* A step of one run that leaves the files alone keeps the invariant when the
\* run stays well formed and does not become a writer at another place.
LEMMA InvOneRun ==
    ASSUME Inv, NEW c \in Clients, NEW w,
           session' = session, req' \in Requests, part' = part, final' = final,
           client' = [client EXCEPT ![c] = w],
           RunOk(w),
           Writer(w) => Writer(client[c]) /\ w.offset = client[c].offset
    PROVE  Inv'
  <1>1. /\ client' \in [Clients -> Runs]
        /\ \A d \in Clients : client'[d] = IF d = c THEN w ELSE client[d]
    BY DEF Inv, RunOk
  <1>2. \A d \in Clients : RunOk(client'[d])
    BY <1>1 DEF Inv
  <1>3. \A d \in Clients : Writer(client'[d]) =>
          /\ Writer(client[d]) /\ client'[d].offset = client[d].offset
    BY <1>1
  <1> QED BY <1>1, <1>2, <1>3 DEF Inv

\* What a run becomes when it tries again or stops.
LEMMA RetryOk ==
    ASSUME NEW v, RunOk(v), v.pc \in {"put", "get"}
    PROVE  /\ RunOk(Retry(v)) /\ (Writer(Retry(v)) => Writer(v))
           /\ Retry(v).offset = v.offset
  <1> USE DeliveryAssumption DEF RunOk, Runs, Writer
  <1>1. CASE v.attempt + 1 < Tries
    <2>1. v.attempt + 1 \in 0..(Tries - 1)
      BY <1>1
    <2>2. /\ Retry(v) \in Runs /\ Retry(v).pc = "put"
          /\ Retry(v).id = v.id /\ Retry(v).offset = v.offset
      BY <1>1, <2>1 DEF Retry
    <2> QED BY <2>2
  <1>2. CASE ~(v.attempt + 1 < Tries)
    BY <1>2 DEF Retry
  <1> QED BY <1>1, <1>2

LEMMA InvStart ==
    ASSUME Inv, NEW c \in Clients, Start(c)
    PROVE  Inv'
  <1> DEFINE w == [Idle EXCEPT !.pc = "put", !.token = session]
  <1>1. <<>> = Run(0, 0)
    BY DEF Run
  <1>2. RunOk(Idle) /\ Idle.id = 1 /\ Idle \in Runs /\ session \in Nat
    BY <1>1, DeliveryAssumption, SMTT(30) DEF RunOk, Writer, Runs, Idle, Inv, Payloads
  <1>3. RunOk(w) /\ ~Writer(w)
    <2>1. w \in Runs /\ w.pc = "put" /\ w.id = 1
      BY <1>2 DEF Runs
    <2> HIDE DEF w
    <2> QED BY <2>1 DEF RunOk, Writer
  <1>4. /\ session' = session /\ req' = req /\ part' = part /\ final' = final
        /\ client' = [client EXCEPT ![c] = w]
    BY DEF Start
  <1> HIDE DEF w
  <1>5. req' \in Requests
    BY <1>4 DEF Inv
  <1> QED BY <1>3, <1>4, <1>5, InvOneRun

LEMMA InvPut ==
    ASSUME Inv, NEW c \in Clients, Put(c)
    PROVE  Inv'
  <1> DEFINE v == client[c]
  <1>1. RunOk(v) /\ v \in Runs /\ v.pc = "put"
    BY DEF Inv, Put
  <1>2. Request(v) \in Requests
    BY <1>1, DeliveryAssumption DEF Request, Manifest, Data, Requests, Runs
  <1>3. /\ session' = session /\ req' \in Requests /\ part' = part /\ final' = final
        /\ \/ client' = [client EXCEPT ![c] = [v EXCEPT !.pc = "get"]]
           \/ client' = [client EXCEPT ![c] = Retry(v)]
    BY <1>2 DEF Put, Inv
  <1>4. /\ RunOk([v EXCEPT !.pc = "get"]) /\ [v EXCEPT !.pc = "get"].offset = v.offset
        /\ Writer([v EXCEPT !.pc = "get"]) => Writer(v)
    BY <1>1 DEF RunOk, Runs, Writer
  <1>5. /\ RunOk(Retry(v)) /\ Retry(v).offset = v.offset /\ (Writer(Retry(v)) => Writer(v))
    BY <1>1, RetryOk
  <1> QED BY <1>3, <1>4, <1>5, InvOneRun

\* The window answers the request in hand, so the payload is the run of the
\* artifact at the run's own offset.
LEMMA InvGet ==
    ASSUME Inv, NEW c \in Clients, Get(c)
    PROVE  Inv'
  <1> DEFINE v == client[c]
             w == [v EXCEPT !.pc = IF v.id = 1 THEN "create" ELSE "write",
                            !.payload = Payload(req)]
  <1>1. RunOk(v) /\ v \in Runs /\ v.pc = "get"
    BY DEF Inv, Get
  <1>2. /\ session' = session /\ req' = req /\ part' = part /\ final' = final
        /\ \/ ValidWindow(v) /\ client' = [client EXCEPT ![c] = w]
           \/ client' = [client EXCEPT ![c] = Retry(v)]
    BY DEF Get
  <1>3. ASSUME ValidWindow(v)
        PROVE  RunOk(w) /\ (Writer(w) => Writer(v)) /\ w.offset = v.offset
    <2>1. req = Request(v)
      BY <1>3 DEF ValidWindow
    <2>2. PICK a \in 0..Size, k \in 0..Size :
            /\ Payload(req) = Run(a, k)
            /\ v.id > 1 => a = v.offset /\ k \in 1..(Size - v.offset)
      <3>1. CASE v.id = 1
        <4>1. Payload(req) = SubSeq(Artifact, 0 + 1, 0 + 0)
          BY <2>1, <3>1 DEF Payload, Served, Request, Manifest
        <4>2. Payload(req) = Run(0, 0)
          BY <4>1, RunOfArtifact, DeliveryAssumption
        <4> QED BY <3>1, <4>2, DeliveryAssumption
      <3>2. CASE v.id # 1
        <4>1. v.id > 1 /\ Writer(v) /\ v.offset \in Nat /\ v.offset < Size
          BY <1>1, <3>2 DEF Runs, Writer, RunOk
        <4>2. /\ req.offset = v.offset /\ req.kind = "data"
          BY <2>1, <3>2 DEF Request, Data
        <4>3. Served(req) \in 1..(Size - v.offset)
          BY <4>1, <4>2, DeliveryAssumption DEF Served, Min2
        <4>4. v.offset + Served(req) <= Size /\ Served(req) \in 0..Size
          BY <4>1, <4>3, DeliveryAssumption
        <4>5. Payload(req) = Run(v.offset, Served(req))
          <5>1. Payload(req) = SubSeq(Artifact, v.offset + 1, v.offset + Served(req))
            BY <4>2 DEF Payload
          <5>2. Served(req) \in Nat
            BY <4>4
          <5> QED BY <4>1, <4>4, <5>1, <5>2, RunOfArtifact
        <4> QED BY <4>1, <4>3, <4>4, <4>5, DeliveryAssumption
      <3> QED BY <3>1, <3>2
    <2>3. w \in Runs
      <3>1. Payload(req) \in Payloads
        BY <2>2 DEF Payloads
      <3> QED BY <1>1, <3>1 DEF Runs
    <2> QED BY <1>1, <2>2, <2>3 DEF RunOk, Runs, Writer
  <1>4. /\ RunOk(Retry(v)) /\ Retry(v).offset = v.offset /\ (Writer(Retry(v)) => Writer(v))
    BY <1>1, RetryOk
  <1>5. req' \in Requests
    BY <1>2 DEF Inv
  <1> HIDE DEF w
  <1> QED BY <1>2, <1>3, <1>4, <1>5, InvOneRun

\* The first writer: the partial file was not there, so no run was writing it.
LEMMA InvCreate ==
    ASSUME Inv, NEW c \in Clients, CreatePart(c)
    PROVE  Inv'
  <1> DEFINE v == client[c]
  <1>1. RunOk(v) /\ v \in Runs /\ v.pc = "create" /\ v.id = 1
    BY DEF Inv, CreatePart, RunOk
  <1>2. CASE /\ client' = [client EXCEPT ![c].pc = "stopped"]
             /\ UNCHANGED <<session, req, part, final>>
    <2>1. client' = [client EXCEPT ![c] = [v EXCEPT !.pc = "stopped"]]
      BY <1>2
    <2>2. RunOk([v EXCEPT !.pc = "stopped"]) /\ ~Writer([v EXCEPT !.pc = "stopped"])
      BY <1>1 DEF RunOk, Runs, Writer
    <2>3. req' \in Requests
      BY <1>2 DEF Inv
    <2> QED BY <1>2, <2>1, <2>2, <2>3, InvOneRun
  <1>3. CASE /\ ~part.there /\ part' = [there |-> TRUE, data |-> <<>>]
             /\ client' = [client EXCEPT ![c] = Ask(v, 0)]
             /\ UNCHANGED <<session, req, final>>
    <2>1. /\ Ask(v, 0) \in Runs /\ Ask(v, 0).pc = "put"
          /\ Ask(v, 0).id = 2 /\ Ask(v, 0).offset = 0
      <3>1. 2 \in 1..(Size + 1) /\ 0 \in 0..Size /\ 0 \in 0..(Tries - 1) /\ v.id + 1 = 2
        BY <1>1, DeliveryAssumption
      <3> QED BY <1>1, <3>1 DEF Ask, Runs
    <2>2. RunOk(Ask(v, 0))
      BY <2>1, DeliveryAssumption DEF RunOk, Writer
    <2>3. part' \in Files /\ part'.there /\ part'.data = Run(0, 0)
      <3>1. <<>> = Run(0, 0) /\ 0 \in 0..Size
        BY DeliveryAssumption DEF Run
      <3> QED BY <1>3, <3>1 DEF Files
    <2>4. \A d \in Clients : ~Writer(client[d])
      BY <1>3 DEF Inv
    <2>5. /\ client' \in [Clients -> Runs]
          /\ \A d \in Clients : client'[d] = IF d = c THEN Ask(v, 0) ELSE client[d]
      BY <1>3, <2>1 DEF Inv
    <2>6. \A d \in Clients : Writer(client'[d]) => d = c /\ client'[d].offset = 0
      BY <2>1, <2>4, <2>5
    <2>7. \A d \in Clients : RunOk(client'[d])
      BY <2>2, <2>5 DEF Inv
    <2> QED BY <1>3, <2>3, <2>5, <2>6, <2>7 DEF Inv
  <1> QED BY <1>2, <1>3 DEF CreatePart, Creates

\* A response, or a part of it, goes to the end of the file.
LEMMA InvWrite ==
    ASSUME Inv, NEW c \in Clients, WritePart(c)
    PROVE  Inv'
  <1> DEFINE v == client[c]
             end == v.offset + Len(v.payload)
             w == IF More(end) THEN Ask(v, end) ELSE [v EXCEPT !.pc = "verify", !.offset = end]
  <1>1. /\ RunOk(v) /\ v \in Runs /\ v.pc = "write" /\ Writer(v) /\ v.id > 1
        /\ v.offset \in Nat /\ v.offset < Size /\ v.id <= v.offset + 2 /\ v.id \in Nat
    BY DEF Inv, WritePart, RunOk, Writer, Runs
  <1>2. part.there /\ part \in Files /\ part.data = Run(0, v.offset)
    BY <1>1 DEF Inv
  <1>3. PICK k \in 1..(Size - v.offset) : v.payload = Run(v.offset, k)
    BY <1>1 DEF RunOk
  <1>4. Len(v.payload) = k /\ k \in Nat /\ v.offset + k <= Size /\ end = v.offset + k
    <2>1. k \in Nat /\ v.offset + k <= Size
      BY <1>1, DeliveryAssumption
    <2> QED BY <1>1, <1>3, <2>1, RunTypes, SMTT(30)
  <1>5. \A d \in Clients : Writer(client[d]) => d = c
    BY <1>1 DEF Inv
  <1>6. PICK n, u :
          /\ n \in 0..k
          /\ UNCHANGED <<session, req, final>>
          /\ part' = [part EXCEPT !.data = @ \o Run(v.offset, n)]
          /\ client' = [client EXCEPT ![c] = u]
          /\ u = [v EXCEPT !.pc = "stopped"] \/ (n = k /\ u = w)
    <2>1. CASE /\ part' = [part EXCEPT !.data = @ \o v.payload]
               /\ client' = [client EXCEPT ![c] = w]
      <3>1. UNCHANGED <<session, req, final>>
        BY DEF WritePart
      <3>2. k \in 0..k /\ part' = [part EXCEPT !.data = @ \o Run(v.offset, k)]
        BY <1>3, <1>4, <2>1
      <3> HIDE DEF v, w
      <3> QED BY <2>1, <3>1, <3>2
    <2>2. CASE /\ \E n \in 0..Len(v.payload) :
                     part' = [part EXCEPT !.data = @ \o SubSeq(v.payload, 1, n)]
               /\ client' = [client EXCEPT ![c].pc = "stopped"]
      <3>1. PICK n \in 0..k : part' = [part EXCEPT !.data = @ \o SubSeq(v.payload, 1, n)]
        BY <1>4, <2>2
      <3>2. SubSeq(v.payload, 1, n) = Run(v.offset, n)
        <4>1. PICK o, q : o \in Nat /\ o = v.offset /\ q = v.payload
          BY <1>1
        <4>2. q = Run(o, k) /\ k \in Nat /\ n \in 0..k
          BY <1>3, <1>4, <3>1, <4>1
        <4>3. SubSeq(q, 1, n) = Run(o, n)
          <5>1. SubSeq(Run(o, k), 1, n) = Run(o, n)
            BY <4>1, <4>2, RunOfRun
          <5> QED BY <4>2, <5>1, Zenon
        <4> QED BY <4>1, <4>3
      <3>3. client' = [client EXCEPT ![c] = [v EXCEPT !.pc = "stopped"]]
        BY <2>2
      <3> QED BY <3>1, <3>2, <3>3 DEF WritePart
    <2> QED BY <2>1, <2>2 DEF WritePart
  <1>7. part' \in Files /\ part'.there /\ part'.data = Run(0, v.offset + n)
    <2>1. n \in Nat /\ v.offset + n <= Size /\ v.offset + n \in 0..Size
      <3>1. n \in 0..k
        BY <1>6
      <3>2. PICK o \in Nat : o = v.offset /\ o + k <= Size
        BY <1>1, <1>4
      <3>3. n \in Nat /\ o + n <= Size /\ o + n \in 0..Size
        BY <1>4, <3>1, <3>2, DeliveryAssumption
      <3> QED BY <3>2, <3>3
    <2>2. Run(0, v.offset) \o Run(v.offset, n) = Run(0, v.offset + n)
      BY <1>1, <2>1, RunsJoin
    <2> QED BY <1>2, <1>6, <2>1, <2>2 DEF Files
  <1>8. RunOk(u) /\ (Writer(u) => u.offset = v.offset + n)
    <2>1. CASE u = [v EXCEPT !.pc = "stopped"]
      BY <1>1, <2>1 DEF RunOk, Runs, Writer
    <2>2. CASE n = k /\ u = w
      <3>1. end \in 0..Size /\ 0 \in 0..(Tries - 1)
        BY <1>1, <1>4, DeliveryAssumption
      <3>2. CASE More(end)
        <4>0. v.id + 1 \in 1..(Size + 1)
          BY <1>1, <1>4, <3>2, DeliveryAssumption, SMTT(30) DEF More
        <4>1. /\ u \in Runs /\ u.pc = "put" /\ u.id = v.id + 1 /\ u.offset = end
          BY <1>1, <2>2, <3>1, <3>2, <4>0 DEF Ask, Runs
        <4>2. u.id <= u.offset + 2 /\ u.offset < Size
          BY <1>1, <1>4, <3>2, <4>1 DEF More
        <4> QED BY <1>4, <2>2, <4>1, <4>2 DEF RunOk, Writer
      <3>3. CASE ~More(end)
        <4>1. /\ u \in Runs /\ u.pc = "verify" /\ u.id = v.id /\ u.offset = end
          BY <1>1, <2>2, <3>1, <3>3 DEF Runs
        <4> QED BY <1>1, <1>4, <2>2, <4>1 DEF RunOk, Writer
      <3> QED BY <3>2, <3>3
    <2> QED BY <1>6, <2>1, <2>2
  <1>9. /\ client' \in [Clients -> Runs]
        /\ \A d \in Clients : client'[d] = IF d = c THEN u ELSE client[d]
    BY <1>6, <1>8 DEF Inv, RunOk
  <1>10. \A d \in Clients : Writer(client'[d]) => d = c /\ client'[d].offset = v.offset + n
    BY <1>5, <1>8, <1>9
  <1>11. \A d \in Clients : RunOk(client'[d])
    BY <1>8, <1>9 DEF Inv
  <1> HIDE DEF v, w
  <1> QED BY <1>6, <1>7, <1>9, <1>10, <1>11 DEF Inv

\* The rename: the writer is done, and no other run was one.
LEMMA InvVerify ==
    ASSUME Inv, NEW c \in Clients, Verify(c)
    PROVE  Inv'
  <1> DEFINE v == client[c]
  <1>1. /\ RunOk(v) /\ v \in Runs /\ v.pc = "verify" /\ Writer(v)
    BY DEF Inv, Verify, RunOk, Writer
  <1>2. PICK x \in {"done", "stopped"} :
          /\ UNCHANGED <<session, req>>
          /\ client' = [client EXCEPT ![c] = [v EXCEPT !.pc = x]]
          /\ \/ final' = part /\ part' = NoFile
             \/ UNCHANGED <<part, final>>
    BY DEF Verify
  <1>3. RunOk([v EXCEPT !.pc = x]) /\ ~Writer([v EXCEPT !.pc = x])
    BY <1>1 DEF RunOk, Runs, Writer
  <1>4. /\ client' \in [Clients -> Runs]
        /\ \A d \in Clients : client'[d] = IF d = c THEN [v EXCEPT !.pc = x] ELSE client[d]
    BY <1>2, <1>3 DEF Inv, RunOk
  <1>5. \A d \in Clients : ~Writer(client'[d])
    BY <1>1, <1>3, <1>4 DEF Inv
  <1>6. part' \in Files /\ final' \in Files
    <2>1. <<>> = Run(0, 0) /\ 0 \in 0..Size
      BY DeliveryAssumption DEF Run
    <2>2. NoFile \in Files
      BY <2>1 DEF NoFile, Files
    <2> QED BY <1>2, <2>2 DEF Inv
  <1>7. \A d \in Clients : RunOk(client'[d])
    BY <1>3, <1>4 DEF Inv
  <1> QED BY <1>2, <1>4, <1>5, <1>6, <1>7 DEF Inv

LEMMA InvNext == Inv /\ [Next]_vars => Inv'
  <1> SUFFICES ASSUME Inv, [Next]_vars PROVE Inv'
    OBVIOUS
  <1>1. CASE UNCHANGED vars
    BY <1>1 DEF vars, Inv, RunOk, Writer
  <1>2. CASE HostRestart
    <2>1. NoRequest \in Requests
      BY DeliveryAssumption DEF NoRequest, Requests
    <2>2. session' \in 1..MaxSessions /\ req' \in Requests /\ UNCHANGED <<part, final, client>>
      BY <1>2, <2>1, DeliveryAssumption DEF HostRestart, Inv
    <2> QED BY <2>2 DEF Inv, RunOk, Writer
  <1>3. CASE Next /\ ~HostRestart
    BY <1>3, InvStart, InvPut, InvGet, InvCreate, InvWrite, InvVerify DEF Next
  <1> QED BY <1>1, <1>2, <1>3

(***************************************************************************)
(* Theorems.                                                               *)
(***************************************************************************)
\* Every variable of the delivery keeps its type: no run asks beyond the
\* artifact and none uses more request ids than the artifact has bytes.
THEOREM TypeCorrect == Spec => []TypeOK
  <1>1. Inv => TypeOK
    <2> SUFFICES ASSUME Inv PROVE TypeOK
      OBVIOUS
    <2>1. \A c \in Clients : client[c] \in Runs
      BY DEF Inv
    <2>2. \A f \in Files : f.there \in BOOLEAN /\ f.data \in Seq(1..Size)
      <3>1. \A n \in 0..Size : Run(0, n) \in Seq(1..Size)
        BY RunTypes, DeliveryAssumption
      <3> QED BY <3>1 DEF Files
    <2> QED BY <2>1, <2>2 DEF Inv, TypeOK, Runs
  <1> QED BY <1>1, InvInit, InvNext, PTL DEF Spec

\* The partial file is a prefix of the artifact in every reachable state, for
\* any number of runs of download.cmd that share the channel and the file.
THEOREM PartIsPrefixHolds == Spec => []PartIsPrefix
  <1>1. Inv => PartIsPrefix
    BY RunIsPrefix DEF Inv, Files, PartIsPrefix
  <1> QED BY <1>1, InvInit, InvNext, PTL DEF Spec
=============================================================================
