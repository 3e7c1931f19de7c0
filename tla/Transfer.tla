------------------------------ MODULE Transfer ------------------------------
(***************************************************************************)
(* One Edge uplinking its queued files to one Hub, protocol version 3: the *)
(* Edge's serve loop (Edge.run, Node.response), the Hub's drive loop       *)
(* (Node.listen_to_endpoint and the visit-end hooks of Hub) and the radio  *)
(* between them.                                                           *)
(*                                                                         *)
(* The two nodes run concurrently.  Each radio holds one received frame    *)
(* and drops it when its own node transmits (the driver clears what was    *)
(* heard before a transmission), so a slow Edge, a Hub whose receive       *)
(* window closes early and a frame overtaken by a retry all happen here.   *)
(* A chunk is named by the file it was cut from and its index: what a      *)
(* reassembly holds is the sequence of chunks that were really written.    *)
(***************************************************************************)
EXTENDS Naturals, Sequences, FiniteSets

CONSTANTS
    Files,           \* the artifacts the Edge's producer hands over, each once
    NoFile,          \* "no file installed", "no reassembly open"
    NChunks,         \* how many chunks each file is cut into
    TailLen,         \* bytes in the last chunk of each file
    FullLen,         \* bytes in every other chunk (the chunk size)
    QueueSize,       \* file_queue_size of the input boundary
    Durable,         \* Disk_DataSource (TRUE) or the RAM queue (FALSE)
    Secure,          \* security_mode = 'secure'
    RecoveryAfter,   \* session_recovery_after: silent visits before asking
    DiagnosisPolls,  \* _DIAGNOSIS_POLLS: polls that close a silent visit
    Lossy,           \* may the link lose a frame
    EarlyTimeout,    \* may a receive window close on an answer still coming
    MaxEdgeReboots, MaxHubReboots, MaxSinkFailures   \* bounds on failures

ASSUME FilesAssumption ==
    /\ NoFile \notin Files
    /\ FullLen \in Nat \ {0}
    /\ NChunks \in [Files -> Nat \ {0}]
    /\ TailLen \in [Files -> 1..FullLen]

ASSUME TuningAssumption ==
    /\ QueueSize \in Nat \ {0}
    /\ RecoveryAfter \in Nat \ {0}
    /\ DiagnosisPolls \in Nat \ {0}
    /\ Durable \in BOOLEAN
    /\ Secure \in BOOLEAN
    /\ Lossy \in BOOLEAN
    /\ EarlyTimeout \in BOOLEAN
    /\ MaxEdgeReboots \in Nat
    /\ MaxHubReboots \in Nat
    /\ MaxSinkFailures \in Nat

VARIABLES
    \* the Edge
    edgePc,           \* where its loop stands: "pump", "listen" or "reply"
    produced,         \* files its producer has handed over so far
    queue,            \* the input boundary, oldest first
    file,             \* Node.file: the file being served
    metadata_sent,    \* does this node remember announcing it
    last_chunk_sent,  \* number of the chunk last served, counted from 1; 0 is None
    reply,            \* the answer computed and not yet on the air
    edgeSession,      \* holds the session key (secure only)
    \* the radios
    edgeRx, hubRx,    \* the frame each one has received
    \* the Hub
    hubPc,            \* "between" visits, in a "visit", or "closing" one
    state,            \* Digital_Endpoint.state
    current_file,     \* the file announced for the open reassembly
    chunks,           \* the chunks written into it, in index order
    waiting,          \* the request whose reply window is open
    hubSession,       \* holds the session for this endpoint (secure only)
    asked,            \* this visit has made a round
    alive,            \* _peer_alive_this_visit
    completed,        \* probe_completed: a file reached the sink this visit
    polls,            \* closing polls asked so far
    silent,           \* silent visits in a row
    polled,           \* the connection poll was re-armed to settle it
    \* what left the pair, and how often each failure has struck
    sink,             \* the artifacts the Hub's sink consumed, in order
    retired,          \* the files the Edge credited as delivered
    edgeReboots, hubReboots, sinkFailures

edgeVars == <<edgePc, produced, queue, file, metadata_sent, last_chunk_sent,
              reply, edgeSession, retired>>
visitVars == <<asked, alive, completed, polls>>
recoveryVars == <<silent, polled, hubSession>>
collectVars == <<state, current_file, chunks>>
hubVars == <<hubPc, waiting, visitVars, recoveryVars, collectVars, sink>>
boundVars == <<edgeReboots, hubReboots, sinkFailures>>
vars == <<edgeVars, edgeRx, hubRx, hubVars, boundVars>>

-----------------------------------------------------------------------------
(* Files and frames.                                                       *)

OptFile == Files \cup {NoFile}
Chunk == [file : Files, idx : Nat]
Artifact == [file : Files, chunks : Seq(Chunk)]

\* Bytes get_chunk slices out of f at index i: nothing past the end.
ChunkLen(f, i) ==
    IF i + 1 < NChunks[f] THEN FullLen
    ELSE IF i + 1 = NChunks[f] THEN TailLen[f] ELSE 0

\* A Session frame as both codecs see it once opened.  OK is a connection
\* poll, a keepalive and the final-OK alike; METADATA and CHUNK are requests
\* when they come from the Hub, METADATA and DATA answers from the Edge.
Frame == [kind : {"NONE", "OK", "METADATA", "CHUNK", "DATA"},
          file : OptFile, idx : Nat]
Bare(k)        == [kind |-> k, file |-> NoFile, idx |-> 0]
NoFrame        == Bare("NONE")
OkFrame        == Bare("OK")
MetadataAsk    == Bare("METADATA")
ChunkAsk(i)    == [kind |-> "CHUNK", file |-> NoFile, idx |-> i]
Announcement(f) == [kind |-> "METADATA", file |-> f, idx |-> 0]
DataFrame(f, i) == [kind |-> "DATA", file |-> f, idx |-> i]

\* Putting frame p on the air from a node whose own receiver is `mine`: the
\* radio forgets what it had heard, and the far one hears p or, on a lossy
\* link, nothing (what it held stays).
Arrives(rx, p) == rx' = p
Lost(rx)       == Lossy /\ UNCHANGED rx

-----------------------------------------------------------------------------
(* The Edge: one turn of Edge.run is pump, listen, answer, retire.         *)

\* Mutant of MadeRoom: one entry too many is let in before evicting.
MadeRoom_OneTooLate == IF Len(queue) <= QueueSize THEN queue ELSE Tail(queue)

\* DataSource.add_to_queue pops its head, whatever is being served.
PopOldest == Tail(queue)

\* Disk_DataSource._make_room evicts oldest first and spares the file that is
\* out on the air, which it knows only while it has lent it (_head_name).
EvictAroundHead ==
    LET lent   == IF file = Head(queue) THEN 1 ELSE 0
        excess == Len(queue) - QueueSize + 1
    IN  SubSeq(queue, 1, lent) \o SubSeq(queue, lent + excess + 1, Len(queue))

MadeRoom ==
    IF Len(queue) < QueueSize THEN queue
    ELSE IF Durable THEN EvictAroundHead ELSE PopOldest

\* The boundary's check() (or enqueue) takes a new artifact in.
Enqueue(f) ==
    /\ edgePc = "pump"
    /\ f \notin produced
    /\ produced' = produced \cup {f}
    /\ queue' = Append(MadeRoom, f)
    /\ UNCHANGED <<edgePc, file, metadata_sent, last_chunk_sent, reply,
                   edgeSession, retired, edgeRx, hubRx, hubVars, boundVars>>

\* Mutant of Pump: every boundary is taken at its word, the RAM one too.
Pump_TrustsAnyQueue ==
    /\ edgePc = "pump"
    /\ edgePc' = "listen"
    /\ IF file = NoFile /\ queue # <<>>
       THEN file' = Head(queue) /\ metadata_sent' = TRUE /\ last_chunk_sent' = 0
       ELSE UNCHANGED <<file, metadata_sent, last_chunk_sent>>
    /\ UNCHANGED <<produced, queue, reply, edgeSession, retired, edgeRx,
                   hubRx, hubVars, boundVars>>

\* Mutant of Pump: no boundary is taken at its word.
Pump_TrustsNoQueue ==
    /\ edgePc = "pump"
    /\ edgePc' = "listen"
    /\ IF file = NoFile /\ queue # <<>>
       THEN file' = Head(queue) /\ metadata_sent' = FALSE /\ last_chunk_sent' = 0
       ELSE UNCHANGED <<file, metadata_sent, last_chunk_sent>>
    /\ UNCHANGED <<produced, queue, reply, edgeSession, retired, edgeRx,
                   hubRx, hubVars, boundVars>>

\* _pump_datasource: with no file installed, borrow the head of the queue.
\* A durable boundary vouches for it, so it is installed as announced.
Pump ==
    /\ edgePc = "pump"
    /\ edgePc' = "listen"
    /\ IF file = NoFile /\ queue # <<>>
       THEN /\ file' = Head(queue)
            /\ metadata_sent' = Durable
            /\ last_chunk_sent' = 0
       ELSE UNCHANGED <<file, metadata_sent, last_chunk_sent>>
    /\ UNCHANGED <<produced, queue, reply, edgeSession, retired, edgeRx,
                   hubRx, hubVars, boundVars>>

\* The receive window of listen_requester closed on nothing.
ListenTimeout ==
    /\ edgePc = "listen"
    /\ edgeRx = NoFrame
    /\ edgePc' = "pump"
    /\ UNCHANGED <<produced, queue, file, metadata_sent, last_chunk_sent,
                   reply, edgeSession, retired, edgeRx, hubRx, hubVars,
                   boundVars>>

\* A frame of this kind was heard and its seal opened.
Hears(k) ==
    /\ edgePc = "listen"
    /\ edgeRx.kind = k
    /\ Secure => edgeSession
    /\ edgeRx' = NoFrame

Answer(p) == reply' = p /\ edgePc' = "reply"
Silence   == UNCHANGED reply /\ edgePc' = "pump"

\* A sealed frame this Edge holds no session for does not parse.
CannotOpen ==
    /\ edgePc = "listen"
    /\ edgeRx # NoFrame
    /\ Secure /\ ~edgeSession
    /\ edgeRx' = NoFrame
    /\ Silence
    /\ UNCHANGED <<produced, queue, file, metadata_sent, last_chunk_sent,
                   edgeSession, retired, hubRx, hubVars, boundVars>>

\* response, CHUNK with nothing to serve: stay silent.  METADATA likewise.
NothingToServe ==
    /\ file = NoFile
    /\ Hears("CHUNK") \/ Hears("METADATA")
    /\ Silence
    /\ UNCHANGED <<produced, queue, file, metadata_sent, last_chunk_sent,
                   edgeSession, retired, hubRx, hubVars, boundVars>>

\* response, CHUNK for a file this node does not remember announcing: say
\* what is being served, and do not record that as an announcement.
ReAnnounce ==
    /\ file # NoFile /\ ~metadata_sent
    /\ Hears("CHUNK")
    /\ Answer(Announcement(file))
    /\ UNCHANGED <<produced, queue, file, metadata_sent, last_chunk_sent,
                   edgeSession, retired, hubRx, hubVars, boundVars>>

\* response, CHUNK: the bytes at that index of the installed file.
ServeChunk ==
    /\ file # NoFile /\ metadata_sent
    /\ Hears("CHUNK")
    /\ last_chunk_sent' = edgeRx.idx + 1
    /\ Answer(DataFrame(file, edgeRx.idx))
    /\ UNCHANGED <<produced, queue, file, metadata_sent, edgeSession, retired,
                   hubRx, hubVars, boundVars>>

\* response, METADATA: announce the installed file and remember doing so.
ServeMetadata ==
    /\ file # NoFile
    /\ Hears("METADATA")
    /\ metadata_sent' = TRUE
    /\ Answer(Announcement(file))
    /\ UNCHANGED <<produced, queue, file, last_chunk_sent, edgeSession,
                   retired, hubRx, hubVars, boundVars>>

\* An OK taken for the initiator's final-OK: the tail chunk was the last one
\* served (first_sent is set with the first chunk, last_sent with sent_ok).
IsFinalOk == file # NoFile /\ last_chunk_sent = NChunks[file]

\* response, OK as a connection poll: answered, and nothing is finished.
AnswerPoll ==
    /\ ~IsFinalOk
    /\ Hears("OK")
    /\ Answer(OkFrame)
    /\ UNCHANGED <<produced, queue, file, metadata_sent, last_chunk_sent,
                   edgeSession, retired, hubRx, hubVars, boundVars>>

\* response, OK as the final-OK, and the _retire_file the loop makes of it
\* in the same turn: confirm_file drops the borrowed file off the queue,
\* where it is still the head unless it was evicted.
FinalOk ==
    /\ IsFinalOk
    /\ Hears("OK")
    /\ retired' = retired \cup {file}
    /\ queue' = IF queue # <<>> /\ Head(queue) = file THEN Tail(queue) ELSE queue
    /\ file' = NoFile
    /\ metadata_sent' = FALSE
    /\ last_chunk_sent' = 0
    /\ Silence
    /\ UNCHANGED <<produced, edgeSession, hubRx, hubVars, boundVars>>

\* send_response: the answer goes out and the receiver starts empty.
SendReply(arrived) ==
    /\ edgePc = "reply"
    /\ IF arrived THEN Arrives(hubRx, reply) ELSE Lost(hubRx)
    /\ reply' = NoFrame
    /\ edgePc' = "pump"
    /\ edgeRx' = NoFrame
    /\ UNCHANGED <<produced, queue, file, metadata_sent, last_chunk_sent,
                   edgeSession, retired, hubVars, boundVars>>

\* Mutant of EdgeReboot: the queue on flash comes back empty.
EdgeReboot_LosesQueue ==
    /\ edgeReboots < MaxEdgeReboots
    /\ edgeReboots' = edgeReboots + 1
    /\ edgePc' = "pump" /\ queue' = <<>> /\ file' = NoFile
    /\ metadata_sent' = FALSE /\ last_chunk_sent' = 0
    /\ reply' = NoFrame /\ edgeSession' = FALSE /\ edgeRx' = NoFrame
    /\ UNCHANGED <<produced, retired, hubRx, hubVars, hubReboots, sinkFailures>>

\* The board resets.  Only a queue on flash is still there afterwards.
EdgeReboot ==
    /\ edgeReboots < MaxEdgeReboots
    /\ edgeReboots' = edgeReboots + 1
    /\ edgePc' = "pump"
    /\ queue' = IF Durable THEN queue ELSE <<>>
    /\ file' = NoFile
    /\ metadata_sent' = FALSE
    /\ last_chunk_sent' = 0
    /\ reply' = NoFrame
    /\ edgeSession' = FALSE
    /\ edgeRx' = NoFrame
    /\ UNCHANGED <<produced, retired, hubRx, hubVars, hubReboots, sinkFailures>>

Edge ==
    \/ \E f \in Files : Enqueue(f)
    \/ Pump \/ ListenTimeout \/ CannotOpen \/ NothingToServe
    \/ ReAnnounce \/ ServeChunk \/ ServeMetadata \/ AnswerPoll \/ FinalOk
    \/ \E arrived \in BOOLEAN : SendReply(arrived)

-----------------------------------------------------------------------------
(* The Hub: visits made of request/reply rounds, then the visit-end hooks. *)

\* One frame out: fire and forget, or the request of a round.
Transmit(p, arrived) ==
    /\ hubRx' = NoFrame
    /\ IF arrived THEN Arrives(edgeRx, p) ELSE Lost(edgeRx)

Ask(p, arrived) == Transmit(p, arrived) /\ waiting' = p

\* listen_to_endpoint opens a visit; in secure it needs a session first.
BeginVisit ==
    /\ hubPc = "between"
    /\ Secure => hubSession
    /\ hubPc' = "visit"
    /\ UNCHANGED <<edgeVars, edgeRx, hubRx, waiting, visitVars, recoveryVars,
                   collectVars, sink, boundVars>>

\* perform_handshake, both rounds.  The Edge stores the session when the
\* WELCOME reaches it and the Hub only on the ACK: an ACK that never lands
\* leaves the Edge with half a session and ends the visit before it began.
Handshake(acked) ==
    /\ hubPc = "between" /\ Secure /\ ~hubSession
    /\ edgePc = "listen"
    /\ acked \/ Lossy
    /\ hubSession' = acked
    /\ edgeSession' = TRUE
    /\ hubPc' = IF acked THEN "visit" ELSE "between"
    /\ edgeRx' = NoFrame /\ hubRx' = NoFrame
    /\ UNCHANGED <<edgePc, produced, queue, file, metadata_sent,
                   last_chunk_sent, reply, retired, waiting, visitVars, silent,
                   polled, collectVars, sink, boundVars>>

\* A round asks what the endpoint's state calls for.
AskRound(st, p, arrived) ==
    /\ hubPc = "visit" /\ waiting = NoFrame
    /\ state = st
    /\ Ask(p, arrived)
    /\ asked' = TRUE
    /\ UNCHANGED <<edgeVars, hubPc, alive, completed, polls, recoveryVars,
                   collectVars, sink, boundVars>>
AskOk(arrived)       == AskRound("OK", OkFrame, arrived)
AskMetadata(arrived) == AskRound("REQUEST_DATA_STATE", MetadataAsk, arrived)
\* get_next_chunk: the first missing index, which is as many as are in.
AskData(arrived) ==
    AskRound("PROCESS_CHUNK_STATE", ChunkAsk(Len(chunks)), arrived)

\* A reply came within the window of the request `k` of this visit.
Heard(k, r) ==
    /\ hubPc = "visit" /\ waiting.kind = k
    /\ hubRx.kind = r
    /\ waiting' = NoFrame
    /\ alive' = TRUE
    /\ UNCHANGED <<edgeVars, hubPc, asked, polls, recoveryVars>>

\* Digital_Endpoint.connected
Connected ==
    /\ Heard("OK", "OK")
    /\ state' = "REQUEST_DATA_STATE"
    /\ hubRx' = NoFrame
    /\ UNCHANGED <<edgeRx, completed, current_file, chunks, sink, boundVars>>

\* Digital_Endpoint.set_metadata: open a reassembly for what was announced.
SetMetadata ==
    /\ Heard("METADATA", "METADATA")
    /\ state' = "PROCESS_CHUNK_STATE"
    /\ current_file' = hubRx.file
    /\ chunks' = <<>>
    /\ hubRx' = NoFrame
    /\ UNCHANGED <<edgeRx, completed, sink, boundVars>>

\* _reopen_transfer: nothing collected can be trusted to belong together.
Reopen ==
    /\ state' = "REQUEST_DATA_STATE"
    /\ current_file' = NoFile
    /\ chunks' = <<>>
    /\ hubRx' = NoFrame
    /\ UNCHANGED <<edgeRx, completed, sink, boundVars>>

\* What set_data and add_chunk see: the bytes are placed at the index asked
\* for, and only their number can be held against what was announced.
Got         == [file |-> hubRx.file, idx |-> hubRx.idx]
GotLen      == ChunkLen(hubRx.file, hubRx.idx)

\* Mutant of ExpectedLen: whatever length came is the length expected.
ExpectedLen_Any == ChunkLen(hubRx.file, hubRx.idx)

ExpectedLen == ChunkLen(current_file, waiting.idx)
Placed      == Append(chunks, Got)

\* Mutant of IsLast: one chunk more than there are is waited for.
IsLast_OneMore == Len(chunks) = NChunks[current_file]

IsLast      == Len(chunks) + 1 = NChunks[current_file]

ReAnnounced == Heard("CHUNK", "METADATA") /\ Reopen

ChunkRefused ==
    /\ Heard("CHUNK", "DATA")
    /\ GotLen # 0 /\ GotLen # ExpectedLen
    /\ Reopen

\* An empty payload is falsy: set_data takes it for nothing.
EmptyChunk ==
    /\ Heard("CHUNK", "DATA")
    /\ GotLen = 0
    /\ hubRx' = NoFrame
    /\ UNCHANGED <<edgeRx, completed, collectVars, sink, boundVars>>

AddChunk ==
    /\ Heard("CHUNK", "DATA")
    /\ GotLen # 0 /\ GotLen = ExpectedLen /\ ~IsLast
    /\ chunks' = Placed
    /\ hubRx' = NoFrame
    /\ UNCHANGED <<edgeRx, completed, state, current_file, sink, boundVars>>

\* Mutant of Consume: the endpoint is sent back to METADATA, not to OK.
Consume_AsksMetadata(arrived) ==
    /\ Heard("CHUNK", "DATA")
    /\ GotLen # 0 /\ GotLen = ExpectedLen /\ IsLast
    /\ chunks' = Placed
    /\ state' = "REQUEST_DATA_STATE"
    /\ sink' = Append(sink, [file |-> current_file, chunks |-> Placed])
    /\ completed' = TRUE
    /\ Transmit(OkFrame, arrived)
    /\ UNCHANGED <<current_file, boundVars>>

\* The last chunk is in: the sink is fed before the final-OK goes out.
Consume(arrived) ==
    /\ Heard("CHUNK", "DATA")
    /\ GotLen # 0 /\ GotLen = ExpectedLen /\ IsLast
    /\ chunks' = Placed
    /\ state' = "OK"
    /\ sink' = Append(sink, [file |-> current_file, chunks |-> Placed])
    /\ completed' = TRUE
    /\ Transmit(OkFrame, arrived)
    /\ UNCHANGED <<current_file, boundVars>>

\* The sink raised: no final-OK, and the file is pulled again from METADATA.
ConsumeFails ==
    /\ sinkFailures < MaxSinkFailures
    /\ sinkFailures' = sinkFailures + 1
    /\ Heard("CHUNK", "DATA")
    /\ GotLen # 0 /\ GotLen = ExpectedLen /\ IsLast
    /\ chunks' = Placed
    /\ state' = "REQUEST_DATA_STATE"
    /\ hubRx' = NoFrame
    /\ UNCHANGED <<edgeRx, completed, current_file, sink, edgeReboots,
                   hubReboots>>

\* A well-formed answer to some other request: ask_* returns no usable one.
WrongAnswer ==
    /\ \/ hubRx.kind # "OK" /\ Heard("OK", hubRx.kind)
       \/ hubRx.kind # "METADATA" /\ Heard("METADATA", hubRx.kind)
       \/ hubRx.kind = "OK" /\ Heard("CHUNK", hubRx.kind)
    /\ hubRx # NoFrame
    /\ hubRx' = NoFrame
    /\ UNCHANGED <<edgeRx, completed, collectVars, sink, boundVars>>

\* The reply window closed.  EarlyTimeout lets it close on an answer that is
\* still to come, which a window that has not grown to the link's pace does.
WindowClosed ==
    /\ waiting # NoFrame /\ hubRx = NoFrame
    /\ EarlyTimeout \/ (edgeRx = NoFrame /\ reply = NoFrame)

Unanswered ==
    /\ hubPc = "visit" /\ WindowClosed
    /\ waiting' = NoFrame
    /\ UNCHANGED <<edgeVars, edgeRx, hubRx, hubPc, visitVars, recoveryVars,
                   collectVars, sink, boundVars>>

\* Mutant of SilentVisits: a silent visit is never counted.
SilentVisits_NeverCounted == silent

\* Visits in a row that heard nothing, this one included.
SilentVisits == silent + 1

\* _session_visit_end: is the session held for this endpoint still usable?
\* _rearm_connection_poll sends the endpoint back to its pre-contact state.
Rearm == state' = "OK" /\ current_file' = NoFile /\ chunks' = <<>>

SessionVisitEnd(heard, unanswered) ==
    \/ ~Secure /\ UNCHANGED <<recoveryVars, collectVars>>
    \/ /\ Secure /\ heard
       /\ silent' = 0 /\ polled' = FALSE
       /\ UNCHANGED <<hubSession, collectVars>>
    \/ /\ Secure /\ ~heard
       /\ polled \/ (SilentVisits >= RecoveryAfter /\ unanswered)
       /\ silent' = 0 /\ polled' = FALSE
       /\ hubSession' = FALSE
       /\ Rearm
    \/ /\ Secure /\ ~heard /\ ~polled
       /\ SilentVisits < RecoveryAfter
       /\ silent' = SilentVisits
       /\ UNCHANGED <<polled, hubSession, collectVars>>
    \/ /\ Secure /\ ~heard /\ ~polled
       /\ SilentVisits >= RecoveryAfter /\ ~unanswered
       /\ silent' = SilentVisits /\ polled' = TRUE
       /\ Rearm
       /\ UNCHANGED hubSession

VisitOver(heard, unanswered) ==
    /\ SessionVisitEnd(heard, unanswered)
    /\ hubPc' = "between"
    /\ asked' = FALSE /\ alive' = FALSE /\ completed' = FALSE /\ polls' = 0

\* Mutant of ClosesWithPoll: an endpoint mid-file is polled as well.
ClosesWithPoll_MidFile == ~completed /\ ~alive

\* _liveness_visit_end asks the connection poll after a visit that heard
\* nothing at all from an endpoint already in contact and not mid-file.
ClosesWithPoll == ~completed /\ state = "REQUEST_DATA_STATE" /\ ~alive

\* A deadline of the drive loop passed at a round boundary.
EndVisit ==
    /\ hubPc = "visit" /\ waiting = NoFrame /\ asked
    /\ IF ClosesWithPoll
       THEN hubPc' = "closing" /\ UNCHANGED <<visitVars, recoveryVars, collectVars>>
       ELSE VisitOver(alive, FALSE)
    /\ UNCHANGED <<edgeVars, edgeRx, hubRx, waiting, sink, boundVars>>

\* _answers_poll: up to _DIAGNOSIS_POLLS polls, stopped by the first answer.
ClosingPoll(arrived) ==
    /\ hubPc = "closing" /\ waiting = NoFrame
    /\ polls < DiagnosisPolls
    /\ Ask(OkFrame, arrived)
    /\ polls' = polls + 1
    /\ UNCHANGED <<edgeVars, hubPc, asked, alive, completed, recoveryVars,
                   collectVars, sink, boundVars>>

ClosingAnswered ==
    /\ hubPc = "closing" /\ waiting # NoFrame
    /\ hubRx = OkFrame
    /\ hubRx' = NoFrame /\ waiting' = NoFrame
    /\ VisitOver(TRUE, FALSE)
    /\ UNCHANGED <<edgeVars, edgeRx, sink, boundVars>>

ClosingUnanswered ==
    /\ hubPc = "closing"
    /\ WindowClosed \/ (waiting # NoFrame /\ hubRx \notin {OkFrame, NoFrame})
    /\ hubRx' = NoFrame /\ waiting' = NoFrame
    /\ IF polls = DiagnosisPolls
       THEN VisitOver(FALSE, TRUE)
       ELSE UNCHANGED <<hubPc, visitVars, recoveryVars, collectVars>>
    /\ UNCHANGED <<edgeVars, edgeRx, sink, boundVars>>

\* The Hub restarts: endpoints come back from their config, pre-contact.
HubReboot ==
    /\ hubReboots < MaxHubReboots
    /\ hubReboots' = hubReboots + 1
    /\ hubPc' = "between"
    /\ Rearm
    /\ waiting' = NoFrame /\ hubRx' = NoFrame
    /\ hubSession' = FALSE /\ silent' = 0 /\ polled' = FALSE
    /\ asked' = FALSE /\ alive' = FALSE /\ completed' = FALSE /\ polls' = 0
    /\ UNCHANGED <<edgeVars, edgeRx, sink, edgeReboots, sinkFailures>>

Hub ==
    \/ BeginVisit \/ EndVisit
    \/ \E acked \in BOOLEAN : Handshake(acked)
    \/ \E arrived \in BOOLEAN :
          AskOk(arrived) \/ AskMetadata(arrived) \/ AskData(arrived)
            \/ Consume(arrived) \/ ClosingPoll(arrived)
    \/ Connected \/ SetMetadata \/ ReAnnounced \/ ChunkRefused \/ EmptyChunk
    \/ AddChunk \/ ConsumeFails \/ WrongAnswer \/ Unanswered
    \/ ClosingAnswered \/ ClosingUnanswered

-----------------------------------------------------------------------------
Init ==
    /\ edgePc = "pump" /\ produced = {} /\ queue = <<>>
    /\ file = NoFile /\ metadata_sent = FALSE /\ last_chunk_sent = 0
    /\ reply = NoFrame /\ edgeSession = FALSE
    /\ edgeRx = NoFrame /\ hubRx = NoFrame
    /\ hubPc = "between" /\ waiting = NoFrame
    /\ state = "OK" /\ current_file = NoFile /\ chunks = <<>>
    /\ asked = FALSE /\ alive = FALSE /\ completed = FALSE /\ polls = 0
    /\ silent = 0 /\ polled = FALSE /\ hubSession = FALSE
    /\ sink = <<>> /\ retired = {}
    /\ edgeReboots = 0 /\ hubReboots = 0 /\ sinkFailures = 0

Next == Edge \/ Hub \/ EdgeReboot \/ HubReboot

Spec == Init /\ [][Next]_vars

\* Both loops keep turning, a visit's deadline always passes, and a link that
\* loses frames does not lose every one of a kind for ever.
Fairness ==
    /\ WF_vars(Pump) /\ WF_vars(ListenTimeout) /\ WF_vars(CannotOpen)
    /\ WF_vars(NothingToServe) /\ WF_vars(ReAnnounce) /\ WF_vars(ServeChunk)
    /\ WF_vars(ServeMetadata) /\ WF_vars(AnswerPoll) /\ WF_vars(FinalOk)
    /\ \A k \in {"OK", "METADATA", "DATA"} :
          SF_vars(reply.kind = k /\ SendReply(TRUE))
    /\ WF_vars(BeginVisit) /\ SF_vars(EndVisit) /\ SF_vars(Handshake(TRUE))
    /\ SF_vars(AskOk(TRUE)) /\ SF_vars(AskMetadata(TRUE)) /\ SF_vars(AskData(TRUE))
    /\ WF_vars(Connected) /\ WF_vars(SetMetadata) /\ WF_vars(ReAnnounced)
    /\ WF_vars(ChunkRefused) /\ WF_vars(EmptyChunk) /\ WF_vars(AddChunk)
    /\ WF_vars(\E arrived \in BOOLEAN : Consume(arrived))
    /\ WF_vars(WrongAnswer) /\ WF_vars(Unanswered)
    /\ WF_vars(\E arrived \in BOOLEAN : ClosingPoll(arrived))
    /\ WF_vars(ClosingAnswered) /\ WF_vars(ClosingUnanswered)

FairSpec == Spec /\ Fairness

-----------------------------------------------------------------------------
(* Properties.                                                             *)

\* file_queue_size, except that a durable boundary of size one keeps the file
\* on the air beside the new one.
QueueLimit == IF Durable /\ QueueSize = 1 THEN 2 ELSE QueueSize

EdgeTypeOK ==
    /\ edgePc \in {"pump", "listen", "reply"}
    /\ produced \subseteq Files
    /\ queue \in Seq(Files)
    /\ Len(queue) <= QueueLimit
    /\ file \in OptFile
    /\ metadata_sent \in BOOLEAN
    /\ last_chunk_sent \in Nat
    /\ edgeSession \in BOOLEAN
    /\ retired \subseteq Files

FrameTypeOK ==
    reply \in Frame /\ edgeRx \in Frame /\ hubRx \in Frame /\ waiting \in Frame

HubTypeOK ==
    /\ hubPc \in {"between", "visit", "closing"}
    /\ state \in {"OK", "REQUEST_DATA_STATE", "PROCESS_CHUNK_STATE"}
    /\ current_file \in OptFile
    /\ chunks \in Seq(Chunk)
    /\ asked \in BOOLEAN /\ alive \in BOOLEAN /\ completed \in BOOLEAN
    /\ polls \in 0..DiagnosisPolls
    /\ silent \in 0..RecoveryAfter
    /\ polled \in BOOLEAN
    /\ hubSession \in BOOLEAN
    /\ sink \in Seq(Artifact)

BoundTypeOK ==
    /\ edgeReboots \in 0..MaxEdgeReboots
    /\ hubReboots \in 0..MaxHubReboots
    /\ sinkFailures \in 0..MaxSinkFailures

\* The types, and the size of the queue.
TypeOK == EdgeTypeOK /\ FrameTypeOK /\ HubTypeOK /\ BoundTypeOK

Whole(f) == [file |-> f,
             chunks |-> [i \in 1..NChunks[f] |-> [file |-> f, idx |-> i - 1]]]
Delivered == {f \in Files : \E i \in DOMAIN sink : sink[i] = Whole(f)}

\* Every artifact the sink is handed is one file, byte for byte: chunks of
\* two files, or of the wrong index, never end up in one artifact although a
\* DATA frame says neither which file nor which index it carries.
NoSplice == \A i \in DOMAIN sink : sink[i] = Whole(sink[i].file)

\* A file leaves the Edge as delivered only once the Hub's sink has it.
AtLeastOnce == retired \subseteq Delivered

\* A file is consumed twice only if its Edge restarted: a final-OK that got
\* lost is made good by the next connection poll, not by a second transfer.
OnceUnlessEdgeReboots ==
    edgeReboots = 0 =>
        \A i, j \in DOMAIN sink : sink[i].file = sink[j].file => i = j

\* With a durable queue an interrupted transfer carries on from the next
\* missing index: chunks collected are never thrown away mid-file.
ProgressKept ==
    [][state = "PROCESS_CHUNK_STATE" =>
          /\ Len(chunks') >= Len(chunks)
          /\ SubSeq(chunks', 1, Len(chunks)) = chunks]_vars

\* The durable uplink keeps the promise of module Delivery.
Promise == INSTANCE Delivery WITH
    held      <- {queue[i] : i \in DOMAIN queue},
    delivered <- Delivered,
    credited  <- retired
KeepsPromise == Promise!Spec

\* Every file handed over reaches the sink whole and is then credited.
EventuallyDelivered ==
    \A f \in Files : (f \in produced) ~> (f \in Delivered /\ f \in retired)

\* A secure Hub does not stay on a session its Edge lost in a restart.
SessionHeals == (hubSession /\ ~edgeSession) ~> (hubSession /\ edgeSession)
=============================================================================
