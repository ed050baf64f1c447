----------------------------- MODULE FileUpload -----------------------------
(***************************************************************************)
(* The upload channel of namespace 2 (file-upload-s169): a client in       *)
(* Windows writes frames BEGIN, DATA..., END to one window of the RAM disk *)
(* and reads an acknowledgement sector; the host's Receiver collects the   *)
(* file in <dest>.part and publishes it as <dest> when size and SHA-256    *)
(* are the registered ones.                                                *)
(*                                                                         *)
(* A file is a sequence of chunks and its SHA-256 the sequence itself.     *)
(* The frame's magics, CRCs and zero tails hold for every frame the client *)
(* builds.  A host restart is a restart of the launcher's process: what    *)
(* was written to files stays.                                             *)
(***************************************************************************)
EXTENDS Naturals, Sequences, SequencesExt

CONSTANTS Clients,      \* runs of the client program
          Expected,     \* the registered file
          Sources,      \* what C:\S117SRC\install.swm may hold
          Tries,        \* attempts of send()
          MaxSessions   \* times the launcher is started

Chunks == Len(Expected)

ASSUME UploadAssumption ==
    /\ Chunks \in Nat \ {0}
    /\ \A s \in Sources \cup {Expected} : s = [i \in 1..Chunks |-> s[i]]
    /\ Tries \in Nat \ {0} /\ MaxSessions \in Nat \ {0}

VARIABLES session,   \* the session token
          h,         \* the Receiver; up: registered by module.py
          part, dest,\* the two files on the host
          client     \* the client programs
vars == <<session, h, part, dest, client>>

NoFile == [there |-> FALSE, data |-> <<>>]
File(d) == [there |-> TRUE, data |-> d]
Foreign == File(<<"foreign">>)
NoFrame == [token |-> 0, seq |-> 0, kind |-> "none", offset |-> 0, body |-> "none"]
Fresh == [up |-> TRUE, open |-> FALSE, hashed |-> <<>>, seq |-> 0, last |-> NoFrame,
          done |-> FALSE, failed |-> FALSE]
Idle == [pc |-> "off", token |-> 0, source |-> Expected, seq |-> 0, kind |-> "begin",
         offset |-> 0, attempt |-> 0]

Init ==
    /\ session = 1 /\ h = Fresh /\ part = NoFile /\ dest = NoFile
    /\ client = [c \in Clients |-> Idle]

(***************************************************************************)
(* The Receiver: what accept() may do with a frame.                        *)
(***************************************************************************)
Outcome(g, p, d, ok) == [h |-> g, part |-> p, dest |-> d, ok |-> ok]
Nothing(ok) == Outcome(h, part, dest, ok)
Failed == [h EXCEPT !.failed = TRUE, !.open = FALSE]
Took(f, g) == [g EXCEPT !.seq = f.seq, !.last = f]

BeginOutcomes(f) ==
    IF dest.there THEN {Nothing(FALSE)}
    ELSE {Outcome(Failed, part, dest, FALSE)}
         \cup (IF part.there THEN {}
               ELSE {Outcome(Failed, File(<<>>), dest, FALSE),
                     Outcome(Took(f, [h EXCEPT !.open = TRUE]), File(<<>>), dest, TRUE)})

WithBody(f) == File(Append(part.data, f.body))
\* Bug: a write that fails does not end the transfer.
DataForgiving(f) ==
    {Outcome(h, File(Append(part.data, "torn")), dest, FALSE),
     Outcome(Took(f, [h EXCEPT !.hashed = Append(@, f.body)]), WithBody(f), dest, TRUE)}
DataOutcomes(f) ==
    {Outcome(Failed, part, dest, FALSE),
     Outcome(Failed, File(Append(part.data, "torn")), dest, FALSE),
     Outcome(Took(f, [h EXCEPT !.hashed = Append(@, f.body)]), WithBody(f), dest, TRUE)}

Ended(f) == Took(f, [h EXCEPT !.done = TRUE, !.open = FALSE])
\* Bug: the file is renamed over whatever is there.
EndReplaces(f) ==
    {Outcome(Failed, part, dest, FALSE)}
    \cup (IF h.hashed = Expected THEN {Outcome(Ended(f), NoFile, part, TRUE)} ELSE {})
\* Digest, flush, link or unlink may fail; unlink fails after the publication.
EndOutcomes(f) ==
    {Outcome(Failed, part, dest, FALSE)}
    \cup (IF h.hashed = Expected /\ ~dest.there
          THEN {Outcome(Failed, part, part, FALSE), Outcome(Ended(f), NoFile, part, TRUE)}
          ELSE {})

Accept(f) ==
    IF ~h.up \/ f.token # session THEN {Nothing(FALSE)}
    ELSE IF f.seq = h.seq THEN {Nothing(f = h.last)}
    ELSE IF h.failed \/ h.done \/ f.seq # h.seq + 1 \/ f.offset # Len(h.hashed)
         THEN {Nothing(FALSE)}
    ELSE IF f.kind = "begin" /\ h.seq = 0 THEN BeginOutcomes(f)
    ELSE IF f.kind = "data" /\ h.open /\ f.offset < Chunks THEN DataOutcomes(f)
    ELSE IF f.kind = "end" /\ h.open /\ f.offset = Chunks THEN EndOutcomes(f)
    ELSE {Nothing(FALSE)}

AckStatus == IF h.failed THEN "failed" ELSE IF h.done THEN "done" ELSE "open"

(***************************************************************************)
(* The client.                                                             *)
(***************************************************************************)
Frame(v) ==
    [token |-> v.token, seq |-> v.seq, kind |-> v.kind, offset |-> v.offset,
     body |-> IF v.kind = "data" THEN v.source[v.offset + 1] ELSE "none"]
After(v) == IF v.kind = "data" THEN v.offset + 1 ELSE v.offset

Start(c) ==
    /\ client[c].pc = "off"
    /\ \E s \in Sources :
          client' = [client EXCEPT ![c] = [Idle EXCEPT !.pc = "put", !.token = session,
                                                       !.source = s, !.seq = 1]]
    /\ UNCHANGED <<session, h, part, dest>>

\* The next attempt of send(), or the end of the program.
Retry(v) ==
    IF v.attempt + 1 < Tries THEN [v EXCEPT !.pc = "put", !.attempt = @ + 1]
    ELSE [v EXCEPT !.pc = "stopped"]

\* WriteFile: the command may be executed or not, and reported or not.
Put(c) ==
    LET v == client[c] IN
    /\ v.pc = "put"
    /\ \E o \in Accept(Frame(v)) \cup {Nothing(FALSE)} :
          /\ h' = o.h /\ part' = o.part /\ dest' = o.dest
          /\ \/ o.ok /\ client' = [client EXCEPT ![c].pc = "get"]
             \/ client' = [client EXCEPT ![c] = Retry(v)]
    /\ UNCHANGED session

AckOk(v) ==
    /\ h.up /\ v.token = session
    /\ h.seq = v.seq
    /\ AckStatus = (IF v.kind = "end" THEN "done" ELSE "open")
    /\ Len(h.hashed) = After(v)

\* send() returned 1: the next frame, or the end of the program.
Acked(v) ==
    IF v.kind = "end" THEN [v EXCEPT !.pc = "pass"]
    ELSE [v EXCEPT !.pc = "put", !.seq = @ + 1, !.offset = After(v), !.attempt = 0,
                   !.kind = IF After(v) < Chunks THEN "data" ELSE "end"]

\* The acknowledgement is read and compared, or cannot be read.
Get(c) ==
    LET v == client[c] IN
    /\ v.pc = "get"
    /\ \/ AckOk(v) /\ client' = [client EXCEPT ![c] = Acked(v)]
       \/ client' = [client EXCEPT ![c] = Retry(v)]
    /\ UNCHANGED <<session, h, part, dest>>

SourceFails(c) ==
    /\ client[c].pc = "put" /\ client[c].kind = "data" /\ client[c].attempt = 0
    /\ client' = [client EXCEPT ![c].pc = "stopped"]
    /\ UNCHANGED <<session, h, part, dest>>

(***************************************************************************)
(* The surroundings.                                                       *)
(***************************************************************************)
\* The launcher starts again; the operator may have moved the partial away.
\* module.py refuses to register while either file is there.
HostRestart ==
    /\ session < MaxSessions
    /\ session' = session + 1
    /\ part' \in {part, NoFile}
    /\ h' = [Fresh EXCEPT !.up = ~dest.there /\ ~part'.there]
    /\ UNCHANGED <<dest, client>>

\* Another program on the host makes a file of one of the two names.
ForeignFile ==
    /\ \/ ~dest.there /\ dest' = Foreign /\ UNCHANGED part
       \/ ~part.there /\ part' = Foreign /\ UNCHANGED dest
    /\ UNCHANGED <<session, h, client>>

Next ==
    \/ \E c \in Clients : Start(c) \/ Put(c) \/ Get(c) \/ SourceFails(c)
    \/ HostRestart \/ ForeignFile

Spec == Init /\ [][Next]_vars

(***************************************************************************)
(* Properties.                                                             *)
(***************************************************************************)
Values == UNION {{s[i] : i \in 1..Chunks} : s \in Sources \cup {Expected}}
\* Types of all variables.
TypeOK ==
    /\ session \in 1..MaxSessions
    /\ h.up \in BOOLEAN /\ h.open \in BOOLEAN /\ h.done \in BOOLEAN /\ h.failed \in BOOLEAN
    /\ h.hashed \in Seq(Values) /\ Len(h.hashed) <= Chunks /\ h.seq \in 0..(Chunks + 2)
    /\ \A f \in {part, dest} :
          f.there \in BOOLEAN /\ f.data \in Seq(Values \cup {"torn", "foreign"})
    /\ \A c \in Clients :
          /\ client[c].pc \in {"off", "put", "get", "stopped", "pass"}
          /\ client[c].seq \in 0..(Chunks + 2) /\ client[c].offset \in 0..Chunks
          /\ client[c].attempt \in 0..(Tries - 1)

\* "Files remain private until exact size/SHA verification" (receiver.py): a
\* file that the receiver published is the registered one, whatever was
\* repeated, mixed by two clients, or failed on the way; and a client that
\* reports success left it published on the host.
PublishedIsExact ==
    /\ dest.there => dest.data = Expected \/ dest = Foreign
    /\ \A c \in Clients : client[c].pc = "pass" => dest = File(Expected)

\* No step loses a file ("never silently replaced", "partials are retained on
\* error"): a published file never changes, and within a session a partial file
\* only grows by a frame, or becomes the published file.
FilesKept ==
    [][/\ dest.there => dest' = dest
       /\ session' = session /\ part.there =>
             \/ part'.there /\ IsPrefix(part.data, part'.data)
             \/ ~part'.there /\ dest' = part]_vars
=============================================================================
