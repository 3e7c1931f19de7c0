------------------------------ MODULE MCLoops ---------------------------------
(***************************************************************************)
(* Small instances of the two transfers, whose ends must get somewhere: an *)
(* uplink (Transfer) and a delegated downlink (Delegation). Each is        *)
(* explored by itself; which one, `part` says from the first state on.     *)
(***************************************************************************)
EXTENDS Naturals

CONSTANTS None

VARIABLES
    part,
    \* Transfer
    edgePc, produced, queue, file, metadata_sent, last_chunk_sent, reply,
    edgeSession, edgeRx, hubRx, hubPc, state, current_file, chunks, waiting,
    hubSession, asked, alive, completed, polls, silent, polled, sink, retired,
    edgeReboots, hubReboots, sinkFailures,
    \* Delegation
    downlink_hubPc, downlink_state, downlink_waiting, downlink_asked,
    downlink_alive, downlink_polls, downlink, swap_id, failures, skip,
    downlink_metadata_sent, downlink_last_chunk_sent, hubReply,
    downlink_hubRx, downlink_edgeRx, downlink_edgePc, last_swap_id, swap,
    pull, edgeWaiting, downlink_current_file, downlink_chunks, downlink_sink,
    confirmed, lost, downlink_edgeReboots, downlink_hubReboots,
    downlink_sinkFailures

MCFiles == {"a", "b"}
TwoOfEach == [f \in MCFiles |-> 2]

\* A durable queue with room, a link that loses frames and an Edge reboot.
Up == INSTANCE Transfer WITH
    Files <- MCFiles, NoFile <- None, NChunks <- TwoOfEach, TailLen <-
    TwoOfEach, FullLen <- 2, QueueSize <- 2, Durable <- TRUE, Secure <- FALSE,
    RecoveryAfter <- 2, DiagnosisPolls <- 2, Lossy <- TRUE, EarlyTimeout <-
    FALSE, MaxEdgeReboots <- 1, MaxHubReboots <- 0, MaxSinkFailures <- 0

\* A link that loses frames and a sink that fails once.
Down == INSTANCE Delegation WITH
    Files <- MCFiles, NoFile <- None, NChunks <- TwoOfEach, SwapIds <- 2,
    MaxSkip <- 2, DiagnosisPolls <- 1, Lossy <- TRUE, EarlyTimeout <- FALSE,
    MaxEdgeReboots <- 0, MaxHubReboots <- 0, MaxSinkFailures <- 1, hubPc <-
    downlink_hubPc, state <- downlink_state, waiting <- downlink_waiting,
    asked <- downlink_asked, alive <- downlink_alive, polls <- downlink_polls,
    metadata_sent <- downlink_metadata_sent, last_chunk_sent <-
    downlink_last_chunk_sent, hubRx <- downlink_hubRx, edgeRx <-
    downlink_edgeRx, edgePc <- downlink_edgePc, current_file <-
    downlink_current_file, chunks <- downlink_chunks, sink <- downlink_sink,
    edgeReboots <- downlink_edgeReboots, hubReboots <- downlink_hubReboots,
    sinkFailures <- downlink_sinkFailures

uplinkVars == <<
    edgePc, produced, queue, file, metadata_sent, last_chunk_sent, reply,
    edgeSession, edgeRx, hubRx, hubPc, state, current_file, chunks, waiting,
    hubSession, asked, alive, completed, polls, silent, polled, sink, retired,
    edgeReboots, hubReboots, sinkFailures>>
downlinkVars == <<
    downlink_hubPc, downlink_state, downlink_waiting, downlink_asked,
    downlink_alive, downlink_polls, downlink, swap_id, failures, skip,
    downlink_metadata_sent, downlink_last_chunk_sent, hubReply,
    downlink_hubRx, downlink_edgeRx, downlink_edgePc, last_swap_id, swap,
    pull, edgeWaiting, downlink_current_file, downlink_chunks, downlink_sink,
    confirmed, lost, downlink_edgeReboots, downlink_hubReboots,
    downlink_sinkFailures>>
vars == <<part, uplinkVars, downlinkVars>>

Init ==
    /\ Up!Init /\ Down!Init
    /\ part \in {"uplink", "downlink"}

UpStep ==
    /\ part = "uplink" /\ Up!Next
    /\ UNCHANGED <<part, downlinkVars>>
DownStep ==
    /\ part = "downlink" /\ Down!Next
    /\ UNCHANGED <<part, uplinkVars>>

Next ==
    \/ UpStep
    \/ DownStep

\* Each under the fairness its own module states.
FairSpec ==
    /\ Init /\ [][Next]_vars
    /\ \/ part = "uplink" /\ Up!Fairness
       \/ part = "downlink" /\ Down!Fairness

-----------------------------------------------------------------------------
\* A file handed to a durable Edge is consumed by the Hub's sink and
\* credited.
UplinkDelivered == part = "uplink" => Up!EventuallyDelivered

\* A file queued for an Edge is consumed by it and confirmed.
DownlinkDelivered == part = "downlink" => Down!EventuallyDelivered
=============================================================================
