----------------------------- MODULE Delegation -----------------------------
(***************************************************************************)
(* A Hub sends a file down to an Edge by delegation: at a safe boundary it *)
(* hands the collector role over with a GRANT, serves the head of the      *)
(* Edge's downlink queue, and takes the role back when the Edge's final-OK *)
(* comes or nothing has been heard for a while.  The Edge pulls, and comes *)
(* home when the file is in, when the pull stalls or when it hears the Hub *)
(* polling again.                                                          *)
(*                                                                         *)
(* One Hub, one Edge that has nothing of its own to send, open mode, the   *)
(* radios of module Transfer.  Every chunk has the same length, so the     *)
(* length check of a reassembly never helps.                               *)
(***************************************************************************)
EXTENDS Naturals, Sequences, FiniteSets

CONSTANTS
    Files,           \* the downlink files
    NoFile,
    NChunks,         \* how many chunks each file is cut into
    SwapIds,         \* size of the delegation counter (256 in the code)
    MaxSkip,         \* longest backoff, in boundaries (32 in the code)
    DiagnosisPolls,  \* polls that close a silent visit
    Lossy,           \* may the link lose a frame
    EarlyTimeout,    \* may a window close on something still coming
    MaxEdgeReboots, MaxHubReboots, MaxSinkFailures   \* bounds on failures

ASSUME FilesAssumption ==
    /\ NoFile \notin Files
    /\ NChunks \in [Files -> Nat \ {0}]

ASSUME TuningAssumption ==
    /\ SwapIds \in Nat \ {0}
    /\ MaxSkip \in Nat \ {0}
    /\ DiagnosisPolls \in Nat \ {0}
    /\ Lossy \in BOOLEAN
    /\ EarlyTimeout \in BOOLEAN
    /\ MaxEdgeReboots \in Nat
    /\ MaxHubReboots \in Nat
    /\ MaxSinkFailures \in Nat

VARIABLES
    \* the Hub
    hubPc,            \* "between" visits, in a "visit", "closing" one, "serving"
    state,            \* Digital_Endpoint.state: "OK" or "REQUEST_DATA_STATE"
    waiting,          \* the request whose reply window is open
    asked,            \* this visit has made a round
    alive,            \* _peer_alive_this_visit
    polls,            \* closing polls asked so far
    downlink,         \* the endpoint's downlink queue
    swap_id,          \* number of the last delegation
    failures, skip,   \* _delegation_backoff: failures in a row, boundaries to skip
    metadata_sent,    \* the head was announced in this delegation
    last_chunk_sent,  \* number of the chunk last served, from 1; 0 is None
    hubReply,         \* the answer computed and not yet on the air
    \* the radios
    hubRx, edgeRx,
    \* the Edge
    edgePc,           \* "home", about to "reply", on a "pull", or "crashed"
    last_swap_id,     \* the last delegation completed; SwapIds is None
    swap,             \* the delegation being honoured
    pull,             \* state of the endpoint captured for the pull
    edgeWaiting,      \* the pull's request whose reply window is open
    current_file, chunks,  \* the reassembly
    \* what left the pair, and how often each failure has struck
    sink,             \* the artifacts the Edge's sink consumed, once or more
    confirmed,        \* the files the Hub dropped off its queue as delivered
    lost,             \* dropped by a restart of the Hub, not queued again
    edgeReboots, hubReboots, sinkFailures

visitVars == <<state, waiting, asked, alive, polls>>
grantVars == <<swap_id, failures, skip>>
serveVars == <<metadata_sent, last_chunk_sent, hubReply>>
hubVars == <<hubPc, visitVars, downlink, grantVars, serveVars, confirmed, lost>>
pullVars == <<swap, pull, edgeWaiting, current_file, chunks>>
edgeVars == <<edgePc, last_swap_id, pullVars, sink>>
boundVars == <<edgeReboots, hubReboots, sinkFailures>>
vars == <<hubVars, edgeVars, hubRx, edgeRx, boundVars>>

-----------------------------------------------------------------------------
(* Frames.  A METADATA without a file is a request, one with a file is an  *)
(* announcement; a GRANT carries the delegation's number as its idx.       *)

OptFile == Files \cup {NoFile}
Chunk == [file : Files, idx : Nat]
Artifact == [file : Files, chunks : Seq(Chunk)]

Frame == [kind : {"NONE", "OK", "METADATA", "CHUNK", "DATA", "GRANT"},
          file : OptFile, idx : Nat]
Bare(k)         == [kind |-> k, file |-> NoFile, idx |-> 0]
NoFrame         == Bare("NONE")
OkFrame         == Bare("OK")
MetadataAsk     == Bare("METADATA")
ChunkAsk(i)     == [kind |-> "CHUNK", file |-> NoFile, idx |-> i]
GrantFrame(n)   == [kind |-> "GRANT", file |-> NoFile, idx |-> n]
Announcement(f) == [kind |-> "METADATA", file |-> f, idx |-> 0]
DataFrame(f, i) == [kind |-> "DATA", file |-> f, idx |-> i]

\* A node transmits: its own receiver starts empty, the far one hears p or,
\* on a lossy link, nothing.
FromHub(p, arrived) ==
    /\ hubRx' = NoFrame
    /\ IF arrived THEN edgeRx' = p ELSE Lossy /\ UNCHANGED edgeRx
FromEdge(p, arrived) ==
    /\ edgeRx' = NoFrame
    /\ IF arrived THEN hubRx' = p ELSE Lossy /\ UNCHANGED hubRx

-----------------------------------------------------------------------------
(* The Hub drives: visits, rounds, and the boundary where it may delegate. *)

\* Mutant of QueueDownlink: a command goes in front of those waiting.
QueueDownlink_Front(f) ==
    /\ f \notin confirmed /\ \A i \in DOMAIN downlink : downlink[i] # f
    /\ downlink' = <<f>> \o downlink
    /\ lost' = lost \ {f}
    /\ UNCHANGED <<hubPc, visitVars, grantVars, serveVars, confirmed, edgeVars,
                   hubRx, edgeRx, boundVars>>

\* queue_downlink.  A command is queued again only when a restart lost it.
QueueDownlink(f) ==
    /\ f \notin confirmed /\ \A i \in DOMAIN downlink : downlink[i] # f
    /\ downlink' = Append(downlink, f)
    /\ lost' = lost \ {f}
    /\ UNCHANGED <<hubPc, visitVars, grantVars, serveVars, confirmed, edgeVars,
                   hubRx, edgeRx, boundVars>>

BeginVisit ==
    /\ hubPc = "between"
    /\ hubPc' = "visit"
    /\ asked' = FALSE /\ alive' = FALSE /\ polls' = 0
    /\ UNCHANGED <<state, waiting, downlink, grantVars, serveVars, confirmed,
                   lost, edgeVars, hubRx, edgeRx, boundVars>>

\* The top of a round: the collector state of this endpoint is never
\* mid-chunk here, so each round is a safe boundary.
Boundary == hubPc = "visit" /\ waiting = NoFrame

MayDelegate == downlink # <<>> /\ skip = 0

\* Mutant of Grant: the file is installed as already announced.
Grant_KeepsAnnounced(arrived) ==
    /\ Boundary /\ MayDelegate
    /\ hubPc' = "serving" /\ asked' = TRUE
    /\ swap_id' = (swap_id + 1) % SwapIds
    /\ FromHub(GrantFrame(swap_id'), arrived)
    /\ metadata_sent' = TRUE /\ last_chunk_sent' = 0
    /\ UNCHANGED <<state, waiting, alive, polls, downlink, failures, skip,
                   hubReply, confirmed, lost, edgeVars, boundVars>>

\* _maybe_delegate up to its serve loop: a new number, a fire-and-forget
\* GRANT, and the head of the queue installed as a fresh delivery.
Grant(arrived) ==
    /\ Boundary /\ MayDelegate
    /\ hubPc' = "serving" /\ asked' = TRUE
    /\ swap_id' = (swap_id + 1) % SwapIds
    /\ FromHub(GrantFrame(swap_id'), arrived)
    /\ metadata_sent' = FALSE /\ last_chunk_sent' = 0
    /\ UNCHANGED <<state, waiting, alive, polls, downlink, failures, skip,
                   hubReply, confirmed, lost, edgeVars, boundVars>>

\* Mutant of SkipOne: a boundary passed over does not count.
SkipOne_Forgotten == skip

\* A boundary passed over counts only while something is queued.
SkipOne == IF downlink # <<>> THEN skip - 1 ELSE skip

\* A boundary that does not delegate polls: the connection poll before first
\* contact, the metadata poll after it.
PollRound(st, p, arrived) ==
    /\ Boundary /\ ~MayDelegate
    /\ state = st
    /\ skip' = SkipOne
    /\ FromHub(p, arrived)
    /\ waiting' = p
    /\ asked' = TRUE
    /\ UNCHANGED <<hubPc, state, alive, polls, downlink, swap_id, failures,
                   serveVars, confirmed, lost, edgeVars, boundVars>>
AskOk(arrived)       == PollRound("OK", OkFrame, arrived)
AskMetadata(arrived) == PollRound("REQUEST_DATA_STATE", MetadataAsk, arrived)

\* Something landed in the reply slot of a round.  Only an OK answers a poll;
\* an Edge with nothing to send answers no metadata poll, and a pull's empty
\* METADATA has no announcement to read.
PollHeard ==
    /\ hubPc = "visit" /\ waiting # NoFrame /\ hubRx # NoFrame
    /\ state' = IF waiting = OkFrame /\ hubRx = OkFrame
                THEN "REQUEST_DATA_STATE" ELSE state
    /\ alive' = TRUE
    /\ waiting' = NoFrame /\ hubRx' = NoFrame
    /\ UNCHANGED <<hubPc, asked, polls, downlink, grantVars, serveVars,
                   confirmed, lost, edgeVars, edgeRx, boundVars>>

\* The window closed.  Unless it closes early, on nothing that is coming.
HubWindowClosed ==
    /\ waiting # NoFrame /\ hubRx = NoFrame
    /\ EarlyTimeout \/ (edgeRx = NoFrame /\ edgePc # "reply")

PollUnheard ==
    /\ hubPc = "visit" /\ HubWindowClosed
    /\ waiting' = NoFrame
    /\ UNCHANGED <<hubPc, state, asked, alive, polls, downlink, grantVars,
                   serveVars, confirmed, lost, edgeVars, hubRx, edgeRx,
                   boundVars>>

\* The visit's deadline passed; a silent one after contact asks why.
EndVisit ==
    /\ Boundary /\ asked
    /\ hubPc' = IF state = "REQUEST_DATA_STATE" /\ ~alive
                THEN "closing" ELSE "between"
    /\ UNCHANGED <<visitVars, downlink, grantVars, serveVars, confirmed, lost,
                   edgeVars, hubRx, edgeRx, boundVars>>

ClosingPoll(arrived) ==
    /\ hubPc = "closing" /\ waiting = NoFrame
    /\ polls < DiagnosisPolls
    /\ FromHub(OkFrame, arrived)
    /\ waiting' = OkFrame
    /\ polls' = polls + 1
    /\ UNCHANGED <<hubPc, state, asked, alive, downlink, grantVars, serveVars,
                   confirmed, lost, edgeVars, boundVars>>

ClosingOver ==
    /\ hubPc = "closing"
    /\ HubWindowClosed \/ (waiting # NoFrame /\ hubRx # NoFrame)
    /\ hubPc' = IF hubRx = OkFrame \/ polls = DiagnosisPolls
                THEN "between" ELSE "closing"
    /\ alive' = (hubRx = OkFrame)
    /\ waiting' = NoFrame /\ hubRx' = NoFrame
    /\ UNCHANGED <<state, asked, polls, downlink, grantVars, serveVars,
                   confirmed, lost, edgeVars, edgeRx, boundVars>>

-----------------------------------------------------------------------------
(* The Hub serves: the turns of _serve_until_reclaimed.                    *)

Hears(k) ==
    /\ hubPc = "serving" /\ hubReply = NoFrame
    /\ hubRx.kind = k
    /\ hubRx' = NoFrame

\* What a turn that only answers leaves alone.
TurnFrame == UNCHANGED <<hubPc, visitVars, downlink, grantVars, confirmed,
                         lost, edgeVars, edgeRx, boundVars>>

Announce ==
    /\ Hears("METADATA")
    /\ hubReply' = Announcement(Head(downlink))
    /\ metadata_sent' = TRUE
    /\ UNCHANGED last_chunk_sent
    /\ TurnFrame

\* A chunk asked for before this delegation announced anything.
ReAnnounce ==
    /\ Hears("CHUNK") /\ ~metadata_sent
    /\ hubReply' = Announcement(Head(downlink))
    /\ UNCHANGED <<metadata_sent, last_chunk_sent>>
    /\ TurnFrame

ServeChunk ==
    /\ Hears("CHUNK") /\ metadata_sent
    /\ hubReply' = DataFrame(Head(downlink), hubRx.idx)
    /\ last_chunk_sent' = hubRx.idx + 1
    /\ UNCHANGED metadata_sent
    /\ TurnFrame

\* Mutant of IsFinalOk: any OK ends the delivery.
IsFinalOk_AnyOk == TRUE

\* Only an OK that follows the tail chunk is the final-OK.
IsFinalOk == last_chunk_sent = NChunks[Head(downlink)]

\* Any other OK is answered like a connection poll, also by a Hub.
EchoOk ==
    /\ Hears("OK")
    /\ ~IsFinalOk
    /\ hubReply' = OkFrame
    /\ UNCHANGED <<metadata_sent, last_chunk_sent>>
    /\ TurnFrame

ServeSend(arrived) ==
    /\ hubPc = "serving" /\ hubReply # NoFrame
    /\ FromHub(hubReply, arrived)
    /\ hubReply' = NoFrame
    /\ UNCHANGED <<hubPc, visitVars, downlink, grantVars, metadata_sent,
                   last_chunk_sent, confirmed, lost, edgeVars, boundVars>>

\* The final-OK ends the loop and _maybe_delegate confirms the file.
Delivered ==
    /\ Hears("OK")
    /\ IsFinalOk
    /\ confirmed' = confirmed \cup {Head(downlink)}
    /\ downlink' = Tail(downlink)
    /\ failures' = 0 /\ skip' = 0
    /\ alive' = TRUE
    /\ hubPc' = "visit"
    /\ metadata_sent' = FALSE /\ last_chunk_sent' = 0
    /\ UNCHANGED <<state, lost, waiting, asked, polls, swap_id, hubReply,
                   edgeVars, edgeRx, boundVars>>

\* min(2 ** failures, 32)
SkipAfter(n) == IF 2 ^ n < MaxSkip THEN 2 ^ n ELSE MaxSkip

\* Nothing was heard for reclaim_timeout: the poll resumes, the file stays
\* queued.  Failures are counted no further once the skip is at its longest.
Reclaim ==
    /\ hubPc = "serving" /\ hubReply = NoFrame /\ hubRx = NoFrame
    /\ EarlyTimeout \/ (edgePc \in {"home", "crashed"} /\ edgeRx = NoFrame)
    /\ hubPc' = "visit"
    /\ failures' = IF 2 ^ failures < MaxSkip THEN failures + 1 ELSE failures
    /\ skip' = SkipAfter(failures + 1)
    /\ metadata_sent' = FALSE /\ last_chunk_sent' = 0
    /\ UNCHANGED <<visitVars, downlink, swap_id, hubReply, confirmed, lost,
                   edgeVars, hubRx, edgeRx, boundVars>>

\* The Hub restarts: endpoints come back pre-contact, the downlink queues and
\* the delegation counter were in RAM.
HubReboot ==
    /\ hubReboots < MaxHubReboots
    /\ hubReboots' = hubReboots + 1
    /\ hubPc' = "between" /\ state' = "OK"
    /\ waiting' = NoFrame /\ hubReply' = NoFrame /\ hubRx' = NoFrame
    /\ asked' = FALSE /\ alive' = FALSE /\ polls' = 0
    /\ lost' = lost \cup {downlink[i] : i \in DOMAIN downlink}
    /\ downlink' = <<>> /\ swap_id' = 0 /\ failures' = 0 /\ skip' = 0
    /\ metadata_sent' = FALSE /\ last_chunk_sent' = 0
    /\ UNCHANGED <<confirmed, edgeVars, edgeRx, edgeReboots, sinkFailures>>

Hub ==
    \/ \E f \in Files : QueueDownlink(f)
    \/ BeginVisit \/ PollHeard \/ PollUnheard \/ EndVisit \/ ClosingOver
    \/ Announce \/ ReAnnounce \/ ServeChunk \/ EchoOk \/ Delivered \/ Reclaim
    \/ \E arrived \in BOOLEAN :
          Grant(arrived) \/ AskOk(arrived) \/ AskMetadata(arrived)
            \/ ClosingPoll(arrived) \/ ServeSend(arrived)

-----------------------------------------------------------------------------
(* The Edge at home: it answers.                                           *)

AtHome(k) == edgePc = "home" /\ edgeRx.kind = k

AnswerPoll ==
    /\ AtHome("OK")
    /\ edgePc' = "reply"
    /\ edgeRx' = NoFrame
    /\ UNCHANGED <<last_swap_id, pullVars, sink, hubVars, hubRx, boundVars>>

\* METADATA or CHUNK with no file installed.
NothingToServe ==
    /\ AtHome("METADATA") \/ AtHome("CHUNK")
    /\ edgeRx' = NoFrame
    /\ UNCHANGED <<edgeVars, hubVars, hubRx, boundVars>>

\* A DATA frame is no request, yet the responder sends the empty packet it
\* prepared: with no kind there is nothing to put on the air and the send
\* raises out of Edge.run.
AnswerData ==
    /\ AtHome("DATA")
    /\ edgePc' = "crashed"
    /\ edgeRx' = NoFrame
    /\ UNCHANGED <<last_swap_id, pullVars, sink, hubVars, hubRx, boundVars>>

SendPollAnswer(arrived) ==
    /\ edgePc = "reply"
    /\ edgePc' = "home"
    /\ FromEdge(OkFrame, arrived)
    /\ UNCHANGED <<last_swap_id, pullVars, sink, hubVars, boundVars>>

\* _on_grant and _pull_downlink: the pull starts with a fresh endpoint that
\* skips the connection poll.
HonourGrant ==
    /\ AtHome("GRANT") /\ edgeRx.idx # last_swap_id
    /\ edgePc' = "pull"
    /\ swap' = edgeRx.idx
    /\ pull' = "REQUEST_DATA_STATE"
    /\ edgeRx' = NoFrame
    /\ UNCHANGED <<last_swap_id, edgeWaiting, current_file, chunks, sink,
                   hubVars, hubRx, boundVars>>

\* A number equal to that of the delegation completed last is a duplicate.
IgnoreGrant ==
    /\ AtHome("GRANT") /\ edgeRx.idx = last_swap_id
    /\ edgeRx' = NoFrame
    /\ UNCHANGED <<edgeVars, hubVars, hubRx, boundVars>>

-----------------------------------------------------------------------------
(* The Edge drives: the rounds of the pull.                                *)

\* The pull ends and its endpoint with it.
GoHome ==
    /\ edgePc' = "home"
    /\ swap' = 0 /\ pull' = "OK" /\ edgeWaiting' = NoFrame
    /\ current_file' = NoFile /\ chunks' = <<>>

PullRound(st, p, arrived) ==
    /\ edgePc = "pull" /\ edgeWaiting = NoFrame
    /\ pull = st
    /\ FromEdge(p, arrived)
    /\ edgeWaiting' = p
    /\ UNCHANGED <<edgePc, last_swap_id, swap, pull, current_file, chunks,
                   sink, hubVars, boundVars>>
PullMetadata(arrived) == PullRound("REQUEST_DATA_STATE", MetadataAsk, arrived)
PullData(arrived) ==
    PullRound("PROCESS_CHUNK_STATE", ChunkAsk(Len(chunks)), arrived)

\* An answer landed for a request of this kind.
PullHeard(k) == edgePc = "pull" /\ edgeWaiting.kind = k /\ edgeRx # NoFrame

IsAnnouncement(p) == p.kind = "METADATA" /\ p.file # NoFile

\* An OK, or a METADATA with nothing in it, is the authority polling again.
AuthorityPoll(p) == p = OkFrame \/ p = MetadataAsk

PullAnnounced ==
    /\ PullHeard("METADATA") /\ IsAnnouncement(edgeRx)
    /\ pull' = "PROCESS_CHUNK_STATE"
    /\ current_file' = edgeRx.file /\ chunks' = <<>>
    /\ edgeWaiting' = NoFrame /\ edgeRx' = NoFrame
    /\ UNCHANGED <<edgePc, last_swap_id, swap, sink, hubVars, hubRx,
                   boundVars>>

PullReAnnounced ==
    /\ PullHeard("CHUNK") /\ IsAnnouncement(edgeRx)
    /\ pull' = "REQUEST_DATA_STATE"
    /\ current_file' = NoFile /\ chunks' = <<>>
    /\ edgeWaiting' = NoFrame /\ edgeRx' = NoFrame
    /\ UNCHANGED <<edgePc, last_swap_id, swap, sink, hubVars, hubRx,
                   boundVars>>

Yield ==
    /\ PullHeard("METADATA") \/ PullHeard("CHUNK")
    /\ AuthorityPoll(edgeRx)
    /\ GoHome
    /\ edgeRx' = NoFrame
    /\ UNCHANGED <<last_swap_id, sink, hubVars, hubRx, boundVars>>

\* The bytes go in at the index asked for, whatever they were cut from.
Placed == Append(chunks, [file |-> edgeRx.file, idx |-> edgeRx.idx])
IsLast == Len(chunks) + 1 = NChunks[current_file]
GotChunk == PullHeard("CHUNK") /\ edgeRx.kind = "DATA"

PullChunk ==
    /\ GotChunk /\ ~IsLast
    /\ chunks' = Placed
    /\ edgeWaiting' = NoFrame /\ edgeRx' = NoFrame
    /\ UNCHANGED <<edgePc, last_swap_id, swap, pull, current_file, sink,
                   hubVars, hubRx, boundVars>>

\* The file is in: the sink, the final-OK, home, and only now is the number
\* of the delegation remembered.
PullDone(arrived) ==
    /\ GotChunk /\ IsLast
    /\ sink' = sink \cup {[file |-> current_file, chunks |-> Placed]}
    /\ FromEdge(OkFrame, arrived)
    /\ GoHome
    /\ last_swap_id' = swap
    /\ UNCHANGED <<hubVars, boundVars>>

\* The sink raised: no final-OK, and the pull asks for METADATA again.
PullSinkFails ==
    /\ sinkFailures < MaxSinkFailures
    /\ sinkFailures' = sinkFailures + 1
    /\ GotChunk /\ IsLast
    /\ pull' = "REQUEST_DATA_STATE"
    /\ chunks' = Placed
    /\ edgeWaiting' = NoFrame /\ edgeRx' = NoFrame
    /\ UNCHANGED <<edgePc, last_swap_id, swap, current_file, sink, hubVars,
                   hubRx, edgeReboots, hubReboots>>

\* No usable answer: a frame of another exchange, or a window that closed.
PullUnanswered ==
    /\ \/ PullHeard("METADATA") /\ edgeRx.kind \notin {"OK", "METADATA"}
       \/ PullHeard("CHUNK") /\ edgeRx.kind \notin {"OK", "METADATA", "DATA"}
       \/ /\ edgePc = "pull" /\ edgeWaiting # NoFrame /\ edgeRx = NoFrame
          /\ EarlyTimeout \/ (hubRx = NoFrame /\ hubReply = NoFrame)
    /\ edgeWaiting' = NoFrame /\ edgeRx' = NoFrame
    /\ UNCHANGED <<edgePc, last_swap_id, swap, pull, current_file, chunks,
                   sink, hubVars, hubRx, boundVars>>

\* downlink_stall_timeout or downlink_window passed at a round boundary.
\* Unless they are too short for the link, only when nobody serves any more.
Stall ==
    /\ edgePc = "pull" /\ edgeWaiting = NoFrame
    /\ EarlyTimeout \/ hubPc # "serving"
    /\ GoHome
    /\ UNCHANGED <<last_swap_id, sink, hubVars, hubRx, edgeRx, boundVars>>

EdgeReboot ==
    /\ edgeReboots < MaxEdgeReboots
    /\ edgeReboots' = edgeReboots + 1
    /\ GoHome
    /\ last_swap_id' = SwapIds
    /\ edgeRx' = NoFrame
    /\ UNCHANGED <<sink, hubVars, hubRx, hubReboots, sinkFailures>>

Edge ==
    \/ AnswerPoll \/ NothingToServe \/ AnswerData \/ HonourGrant \/ IgnoreGrant
    \/ PullAnnounced \/ PullReAnnounced \/ Yield \/ PullChunk \/ PullSinkFails
    \/ PullUnanswered \/ Stall
    \/ \E arrived \in BOOLEAN :
          SendPollAnswer(arrived) \/ PullMetadata(arrived) \/ PullData(arrived)
            \/ PullDone(arrived)

-----------------------------------------------------------------------------
Init ==
    /\ hubPc = "between" /\ state = "OK" /\ waiting = NoFrame
    /\ asked = FALSE /\ alive = FALSE /\ polls = 0
    /\ downlink = <<>> /\ swap_id = 0 /\ failures = 0 /\ skip = 0
    /\ metadata_sent = FALSE /\ last_chunk_sent = 0 /\ hubReply = NoFrame
    /\ hubRx = NoFrame /\ edgeRx = NoFrame
    /\ edgePc = "home" /\ last_swap_id = SwapIds
    /\ swap = 0 /\ pull = "OK" /\ edgeWaiting = NoFrame
    /\ current_file = NoFile /\ chunks = <<>>
    /\ sink = {} /\ confirmed = {} /\ lost = {}
    /\ edgeReboots = 0 /\ hubReboots = 0 /\ sinkFailures = 0

Next == Hub \/ Edge \/ HubReboot \/ EdgeReboot

Spec == Init /\ [][Next]_vars

\* What a node does next of its own accord, whether or not a frame it sends
\* arrives; when to give a wait up is not part of it, Reclaim apart.
HubLoop ==
    \/ BeginVisit \/ PollHeard \/ PollUnheard \/ ClosingOver
    \/ Announce \/ ReAnnounce \/ ServeChunk \/ EchoOk \/ Delivered \/ Reclaim
    \/ \E arrived \in BOOLEAN : Grant(arrived) \/ AskOk(arrived)
          \/ AskMetadata(arrived) \/ ClosingPoll(arrived) \/ ServeSend(arrived)
EdgeLoop ==
    \/ AnswerPoll \/ NothingToServe \/ AnswerData \/ HonourGrant \/ IgnoreGrant
    \/ PullAnnounced \/ PullReAnnounced \/ Yield \/ PullChunk \/ PullUnanswered
    \/ \E arrived \in BOOLEAN : SendPollAnswer(arrived) \/ PullMetadata(arrived)
          \/ PullData(arrived) \/ PullDone(arrived)

\* Both nodes keep executing their loops, and a frame of the delegation that
\* is sent over and over is heard at last; of the GRANTs, one whose number is
\* not the single one the Edge ignores.
Fairness ==
    /\ WF_vars(HubLoop) /\ WF_vars(EdgeLoop)
    /\ SF_vars(Grant(TRUE) /\ swap_id' # last_swap_id)
    /\ SF_vars(hubReply.kind = "METADATA" /\ ServeSend(TRUE))
    /\ SF_vars(hubReply.kind = "DATA" /\ ServeSend(TRUE))
    /\ SF_vars(PullMetadata(TRUE)) /\ SF_vars(PullData(TRUE))
    /\ SF_vars(PullDone(TRUE))

FairSpec == Spec /\ Fairness

-----------------------------------------------------------------------------
(* Properties.                                                             *)

HubTypeOK ==
    /\ hubPc \in {"between", "visit", "closing", "serving"}
    /\ state \in {"OK", "REQUEST_DATA_STATE"}
    /\ asked \in BOOLEAN /\ alive \in BOOLEAN
    /\ polls \in 0..DiagnosisPolls
    /\ downlink \in Seq(Files)
    /\ swap_id \in 0..(SwapIds - 1)
    /\ failures \in Nat
    /\ skip \in 0..MaxSkip
    /\ metadata_sent \in BOOLEAN
    /\ last_chunk_sent \in Nat
    /\ confirmed \subseteq Files /\ lost \subseteq Files

EdgeTypeOK ==
    /\ edgePc \in {"home", "reply", "pull", "crashed"}
    /\ last_swap_id \in 0..SwapIds /\ swap \in 0..(SwapIds - 1)
    /\ pull \in {"OK", "REQUEST_DATA_STATE", "PROCESS_CHUNK_STATE"}
    /\ current_file \in OptFile
    /\ chunks \in Seq(Chunk)
    /\ sink \subseteq Artifact

FrameTypeOK ==
    /\ waiting \in Frame /\ hubReply \in Frame /\ edgeWaiting \in Frame
    /\ hubRx \in Frame /\ edgeRx \in Frame

BoundTypeOK ==
    /\ edgeReboots \in 0..MaxEdgeReboots
    /\ hubReboots \in 0..MaxHubReboots
    /\ sinkFailures \in 0..MaxSinkFailures

\* The types; the boundaries to skip stay within their cap, and a Hub only
\* serves while something is queued.
TypeOK ==
    /\ HubTypeOK /\ EdgeTypeOK /\ FrameTypeOK /\ BoundTypeOK
    /\ hubPc = "serving" => downlink # <<>>

Whole(f) == [file |-> f,
             chunks |-> [i \in 1..NChunks[f] |-> [file |-> f, idx |-> i - 1]]]
Consumed == {a.file : a \in sink}
Arrived == {f \in Files : Whole(f) \in sink}

\* What the Edge's sink is handed is one file, byte for byte, although a Hub
\* may restart in the middle of a pull and grant another file to an Edge
\* that still pulls the first.
WholeDownlinks == \A a \in sink : a = Whole(a.file)

\* While the Hub stays up commands reach the Edge in the order they were
\* queued: what its sink has is confirmed or heads the queue, so nothing
\* overtakes a file whose final-OK is still missing.
InOrder ==
    hubReboots = 0 =>
        \A f \in Consumed \ confirmed : downlink # <<>> /\ f = Head(downlink)

\* The downlink keeps the promise of module Delivery: a file is confirmed
\* only once the Edge's sink has it whole.  What a restart of the Hub drops
\* is its operator's to queue again.
Promise == INSTANCE Delivery WITH
    held      <- {downlink[i] : i \in DOMAIN downlink} \cup lost,
    delivered <- Arrived,
    credited  <- confirmed
KeepsPromise == Promise!Spec

\* Every file queued for the Edge is consumed by it and then confirmed.
EventuallyDelivered ==
    \A f \in Files : (\E i \in DOMAIN downlink : downlink[i] = f)
                        ~> (f \in Arrived /\ f \in confirmed)

\* The Hub takes the collector role back: it never serves for ever.
ServingEnds == hubPc = "serving" ~> hubPc # "serving"

\* The Edge's main loop runs for ever, whatever it hears.
EdgeRuns == edgePc # "crashed"
=============================================================================
