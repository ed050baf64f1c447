---------------------------- MODULE FileDelivery ----------------------------
(***************************************************************************)
(* The download channel of namespace 2 (file-delivery-s168): a client in   *)
(* Windows writes a request to LBA 127 and reads the response window at    *)
(* LBA 129..144; the host's HostArtifactChannel answers from one frozen    *)
(* artifact.  download.cmd runs the client, verifies the SHA-256 of the    *)
(* partial file and renames it.                                            *)
(*                                                                         *)
(* Byte i of the artifact is the number i, so bytes of the wrong place     *)
(* are told apart.  Magics, CRCs and zero tails hold for every block the   *)
(* two sides build.                                                        *)
(***************************************************************************)
EXTENDS Naturals, Sequences, SequencesExt

CONSTANTS Clients,      \* runs of download.cmd
          Size,         \* bytes of the artifact
          Cap,          \* PAYLOAD_CAP: bytes of one response
          Tries,        \* MAX_TRIES
          MaxSessions   \* times the launcher is started

ASSUME DeliveryAssumption ==
    /\ Size \in Nat \ {0} /\ Cap \in Nat \ {0}
    /\ Tries \in Nat \ {0} /\ MaxSessions \in Nat \ {0}

VARIABLES session,     \* the session token
          req,         \* the latched request
          part, final, \* CINEBEN.ZIP.part and CINEBEN.ZIP
          client       \* the runs of download.cmd
vars == <<session, req, part, final, client>>

Artifact == [i \in 1..Size |-> i]
NoFile == [there |-> FALSE, data |-> <<>>]
NoRequest == [id |-> 0, kind |-> "none", offset |-> 0]
Manifest(id) == [id |-> id, kind |-> "manifest", offset |-> 0]
Data(id, offset) == [id |-> id, kind |-> "data", offset |-> offset]
Idle == [pc |-> "off", token |-> 0, id |-> 1, offset |-> 0, attempt |-> 0,
         payload |-> <<>>]

Init ==
    /\ session = 1 /\ req = NoRequest /\ part = NoFile /\ final = NoFile
    /\ client = [c \in Clients |-> Idle]

(***************************************************************************)
(* The channel.                                                            *)
(***************************************************************************)
\* handle_request() latches a new request only under a greater id.
Latches(token, r) == token = session /\ r # req /\ r.offset <= Size /\ r.id > req.id
Answers(token, r) == token = session /\ (r = req \/ Latches(token, r))

Min2(a, b) == IF a < b THEN a ELSE b
\* _build_window(): what of the artifact answers a request.
Served(r) == IF r.kind = "data" THEN Min2(Cap, Size - r.offset) ELSE 0
Payload(r) == SubSeq(Artifact, r.offset + 1, r.offset + Served(r))

(***************************************************************************)
(* The client.                                                             *)
(***************************************************************************)
Request(v) == IF v.id = 1 THEN Manifest(1) ELSE Data(v.id, v.offset)

\* download.cmd refuses to start when the archive is there.
Start(c) ==
    /\ client[c].pc = "off" /\ ~final.there
    /\ client' = [client EXCEPT ![c] = [Idle EXCEPT !.pc = "put", !.token = session]]
    /\ UNCHANGED <<session, req, part, final>>

\* Bug: the attempts are not counted.
RetryUncounted(v) == [v EXCEPT !.pc = "put"]
\* The next attempt of exchange(), or the end of the program.
Retry(v) ==
    IF v.attempt + 1 < Tries THEN [v EXCEPT !.pc = "put", !.attempt = @ + 1]
    ELSE [v EXCEPT !.pc = "stopped"]

\* put_request(): the write may be executed or not, and reported or not.
Put(c) ==
    LET v == client[c] IN
    /\ v.pc = "put"
    /\ \/ req' = (IF Latches(v.token, Request(v)) THEN Request(v) ELSE req)
       \/ UNCHANGED req
    /\ \/ Answers(v.token, Request(v)) /\ req' = Request(v)
          /\ client' = [client EXCEPT ![c].pc = "get"]
       \/ client' = [client EXCEPT ![c] = Retry(v)]
    /\ UNCHANGED <<session, part, final>>

\* wire_check_manifest(), wire_check_data(): the window answers this request.
\* A response shorter than asked for must end the file.
ValidWindow(v) ==
    /\ v.token = session /\ req = Request(v)
    /\ v.id = 1 \/ Served(req) = Cap \/ v.offset + Served(req) = Size

\* get_window() and the checks on it.
Get(c) ==
    LET v == client[c] IN
    /\ v.pc = "get"
    /\ \/ /\ ValidWindow(v)
          /\ client' = [client EXCEPT ![c].pc = IF v.id = 1 THEN "create" ELSE "write",
                                      ![c].payload = Payload(req)]
       \/ client' = [client EXCEPT ![c] = Retry(v)]
    /\ UNCHANGED <<session, req, part, final>>

Ask(v, offset) == [v EXCEPT !.pc = "put", !.id = @ + 1, !.offset = offset, !.attempt = 0]

\* Bug: an existing partial file is taken over.
CreatesOver(v) == TRUE
Creates(v) == ~part.there
\* CREATE_NEW: never overwrite or resume.
CreatePart(c) ==
    LET v == client[c] IN
    /\ v.pc = "create"
    /\ \/ /\ Creates(v)
          /\ part' = [there |-> TRUE, data |-> <<>>]
          /\ client' = [client EXCEPT ![c] = Ask(v, 0)]
       \/ client' = [client EXCEPT ![c].pc = "stopped"] /\ UNCHANGED part
    /\ UNCHANGED <<session, req, final>>

More(end) == end < Size

\* write_all() of a response, whole or in part.
WritePart(c) ==
    LET v == client[c]
        end == v.offset + Len(v.payload) IN
    /\ v.pc = "write"
    /\ \/ /\ part' = [part EXCEPT !.data = @ \o v.payload]
          /\ client' = [client EXCEPT ![c] = IF More(end) THEN Ask(v, end)
                                             ELSE [v EXCEPT !.pc = "verify", !.offset = end]]
       \/ /\ \E n \in 0..Len(v.payload) :
                part' = [part EXCEPT !.data = @ \o SubSeq(v.payload, 1, n)]
          /\ client' = [client EXCEPT ![c].pc = "stopped"]
    /\ UNCHANGED <<session, req, final>>

\* The flush, then download.cmd's length and SHA-256 of the file and the rename.
Verify(c) ==
    LET v == client[c] IN
    /\ v.pc = "verify"
    /\ \/ /\ part.data = Artifact /\ ~final.there
          /\ final' = part /\ part' = NoFile
          /\ client' = [client EXCEPT ![c].pc = "done"]
       \/ client' = [client EXCEPT ![c].pc = "stopped"] /\ UNCHANGED <<part, final>>
    /\ UNCHANGED <<session, req>>

(***************************************************************************)
(* The launcher starts again: a new token, no request latched.             *)
(***************************************************************************)
HostRestart ==
    /\ session < MaxSessions
    /\ session' = session + 1 /\ req' = NoRequest
    /\ UNCHANGED <<part, final, client>>

Next ==
    \/ \E c \in Clients :
          \/ Start(c) \/ Put(c) \/ Get(c)
          \/ CreatePart(c) \/ WritePart(c) \/ Verify(c)
    \/ HostRestart

Spec == Init /\ [][Next]_vars

\* Windows answers the client's reads and writes.
FairSpec ==
    Spec /\ \A c \in Clients :
        WF_vars(Put(c) \/ Get(c) \/ CreatePart(c) \/ WritePart(c) \/ Verify(c))

(***************************************************************************)
(* Properties.                                                             *)
(***************************************************************************)
Requests == [id : 0..(Size + 1), kind : {"none", "manifest", "data"}, offset : 0..Size]
\* Types of all variables.
TypeOK ==
    /\ session \in 1..MaxSessions /\ req \in Requests
    /\ \A f \in {part, final} : f.there \in BOOLEAN /\ f.data \in Seq(1..Size)
    /\ \A c \in Clients :
          /\ client[c].pc \in {"off", "put", "get", "create", "write", "verify", "done", "stopped"}
          /\ client[c].id \in 1..(Size + 1) /\ client[c].offset \in 0..Size
          /\ client[c].attempt \in 0..(Tries - 1)

\* The partial file is a prefix of the artifact at all times, although requests
\* are retried and a second run of download.cmd uses the same channel: a
\* response that was not made for the request in hand never reaches the file.
PartIsPrefix == IsPrefix(part.data, Artifact)

\* A client that runs ends, whatever the channel answers.
ClientEnds ==
    \A c \in Clients :
        client[c].pc \notin {"off", "done", "stopped"} ~> client[c].pc \in {"done", "stopped"}
=============================================================================
