------------------------------ MODULE MCParts ---------------------------------
(***************************************************************************)
(* Small instances of the components a step of which may never do harm: a  *)
(* radio change with everything going wrong (RFTrial), a secure session    *)
(* down to its last counter (SecureSession), the replay window             *)
(* (FrameCounters), signed commands (ControlPlane), the queue on a card    *)
(* (DiskQueue, twice), files arriving over a UART (SerialArrival), the     *)
(* waits on each link (LinkPacing), two radios (Sx127x, Sx1262), relays    *)
(* (MeshRelay), files put together (Reassembly), two brokers bridged       *)
(* (MqttBridge), the status a node reports (Reporting) and the bench tool  *)
(* (Provisioning). Each is explored by itself; which one, `part` says from *)
(* the first state on.                                                     *)
(***************************************************************************)
EXTENDS Naturals

CONSTANTS
    None,
    \* RFTrial
    RfConfigs, Factory, Carries, RfChunks, TrialWindow, CeilingWindows,
    SwapAfter, GiveUpAfter, RecoverAfter, Attempts, RfSecure, RfLossy,
    MayIdle, MidFile, MaxChanges, MaxPlain, MaxEdgeReboots, RfHubRestarts,
    \* SecureSession
    Keys, MAX_COUNTER, SessionWindow, Tries, RecoveryAfter, Lossy,
    EarlyTimeout, MaxReboots,
    \* FrameCounters
    WINDOW, MaxCounter,
    \* ControlPlane
    Handles, Types, MaxCommands, MaxHubRestarts, MaxEdgeRestarts,
    MaxRotations, MaxDeadPulls, SaveMayFail,
    \* DiskQueue
    Part, Slots, Budget, HostQueueSize, CardQueueSize, MaxPayloads, HostCuts,
    CardCuts, CardDrops,
    \* SerialArrival
    SerialFiles, Wants, SerialChunks, SerialQueueSize, SerialLosses,
    SerialReboots, SerialImpatience,
    \* Sx127x
    Factors, Bandwidths, FirstFactor, FirstBandwidth, Symbol(_, _), Limit,
    RadioFrames, RadioSends, RadioTunes,
    \* Sx1262
    Settings, Valid, FirstSetting, Implicit,
    \* Reassembly
    Endpoints, FileNames, FileChunks, Replaces, MaxFiles, FileFaults,
    FileRestarts,
    \* MeshRelay
    Relays, MeshChunks, MAX_RETRANSMISSIONS_BEFORE_MESH, MAX_IDS_CACHED,
    MeshFrames, MeshMoves,
    \* Provisioning
    BenchEdges, BenchHub, BenchPorts, UsualPort, Deployments, BoardNames,
    Rates, Issued, BenchRuns, Settlements,
    \* MqttBridge
    Sides, Other(_), Messages, GuardCap, BridgeQueueSize, ArtifactWrap,
    MaxEchoes, MaxPublished, MaxAgain, BridgeRestarts

VARIABLES
    part,
    \* RFTrial
    view, roster, tuned, trial, status, downlink, mirror, pc, want, asks,
    state, next, asked, heard, alive, completed, session, silent, polled, cfg,
    last, conf, sf_trial, deadline, ceiling, rooted, keyed, file, announced,
    sent, proven, moved, astray, changes, plains, reboots, restarts,
    \* SecureSession
    hubPc, tries, hello, hubSession, session_state, waiting, session_asked,
    session_alive, session_silent, session_polled, edgePc, reply, hs_state,
    edgeSession, hubRx, edgeRx, sealed, reused, session_reboots,
    \* FrameCounters
    window, taken,
    \* ControlPlane
    hubRoot, counter, hubFile, control_hubPc, control_downlink, edgeRoot,
    mark, edgeFile, control_edgePc, pulled, pending, ran, confirmed,
    superseded, unsaved, commands, hubRestarts, edgeRestarts, rotations,
    deadPulls,
    \* DiskQueue (Host)
    disk, temp, index, indexTemp, archive, up, order, head, archived, books,
    op, name, load, made, half, accepted, done, host_astray, raised, cuts,
    drops,
    \* DiskQueue (Card)
    card_disk, card_temp, card_index, card_indexTemp, card_archive, card_up,
    card_order, card_head, card_archived, card_books, card_op, card_name,
    card_load, card_made, card_half, card_accepted, card_done, card_astray,
    card_raised, card_cuts, card_drops,
    \* SerialArrival
    offers, says, at, released, line, answers, _state, arriving, received,
    sums, chunk_crc, queue, losses, arrival_reboots, impatience,
    \* LinkPacing
    pacing_at, radio, frame, min_timeout, pacing, held, phase, pacing_tries,
    focus, moves, faults, learned,
    \* Sx127x
    chip, mode, dio0, flags, air, fifo, modem, ldro, sx127x_pc, sx127x_sent,
    frames, tunes, result,
    \* Sx1262
    sx1262_chip, dio1, irq, length, sx1262_air, buffer, setting, believed,
    sx1262_pc, sx1262_sent, sx1262_frames, sx1262_tunes, sx1262_faults,
    sx1262_result,
    \* MeshRelay
    apart, mesh_held, LAST_IDS, LAST_SEEN_IDS, mesh_made, mesh_moves,
    mesh_state, placed, mesh, retransmission_counter, mesh_waiting, serving,
    metadata_sent, first_sent, relayed,
    \* Provisioning
    path, bench_silent, files, key, rf, running, rows, registry, backups,
    plan, ports, bench_at, steps, port, expected, bench_roster, finished, ok,
    run, bench_made, settled, sound,
    \* Reassembly
    posts, files_serving, files_state, current_file, writers, files_temp,
    results, handed, files_made, files_faults, files_restarts,
    \* Reporting
    report_taken, report_pending, report_pc, inHand, lastSent, since,
    failures, named, owed, refusals,
    \* MqttBridge
    inbox, file_queue, _artifact_id, _borrowed, _order, publishing, consumed,
    published, again, mqtt_restarts

\* What the cfgs take for Carries.
OneWayOrAll == [c \in {"f", "r"} |-> IF c = "f" THEN "all" ELSE "requests"]

\* A link that loses frames, an Edge that may have nothing to send; "r" is a
\* configuration the Edge hears and is not heard on.
Retune == INSTANCE RFTrial WITH
    Configs <- RfConfigs, NChunks <- RfChunks, Window <- TrialWindow, Secure
    <- RfSecure, Lossy <- RfLossy, MaxHubRestarts <- RfHubRestarts

\* A link that may lose frames, answers that may come late and restarts of
\* either side.
Session == INSTANCE SecureSession WITH
    WINDOW <- SessionWindow, state <- session_state, asked <- session_asked,
    alive <- session_alive, silent <- session_silent, polled <-
    session_polled, reboots <- session_reboots

\* Every sequence of counters up to MaxCounter.
Counters == INSTANCE FrameCounters

\* Restarts of each side, a new root, pulls that die and a file that cannot
\* be written.
Control == INSTANCE ControlPlane WITH
    hubPc <- control_hubPc, downlink <- control_downlink, edgePc <-
    control_edgePc

\* A host that renames over a file, with room in the queue and an archive.
Host == INSTANCE DiskQueue WITH
    Names <- Slots, Replaces <- TRUE, SaveMayFail <- FALSE, Keeps <- TRUE,
    QueueSize <- HostQueueSize, MaxCuts <- HostCuts, MaxDrops <- 0,
    MayDropEmpty <- FALSE, astray <- host_astray

\* A FAT card that does not, may be full, and holds one file; somebody copies
\* files onto it.
Card == INSTANCE DiskQueue WITH
    Names <- Slots, Replaces <- FALSE, SaveMayFail <- TRUE, Keeps <- FALSE,
    QueueSize <- CardQueueSize, MaxCuts <- CardCuts, MaxDrops <- CardDrops,
    MayDropEmpty <- TRUE, disk <- card_disk, temp <- card_temp, index <-
    card_index, indexTemp <- card_indexTemp, archive <- card_archive, up <-
    card_up, order <- card_order, head <- card_head, archived <-
    card_archived, books <- card_books, op <- card_op, name <- card_name, load
    <- card_load, made <- card_made, half <- card_half, accepted <-
    card_accepted, done <- card_done, astray <- card_astray, raised <-
    card_raised, cuts <- card_cuts, drops <- card_drops

\* What the cfgs take for Wants.
SameName == [f \in SerialFiles |-> "n"]

\* Two files of the same name, a lost or garbled burst, a producer that gives
\* up, a restart.
Arrival == INSTANCE SerialArrival WITH
    Files <- SerialFiles, NChunks <- SerialChunks, QueueSize <-
    SerialQueueSize, MaxLosses <- SerialLosses, MaxReboots <- SerialReboots,
    MaxImpatience <- SerialImpatience, reboots <- arrival_reboots

PaceConfigs == {[sf |-> 7, bw |-> 1], [sf |-> 9, bw |-> 2]}
PaceAir(c) == IF c.sf = 7 THEN 2 ELSE 3

\* Two links, one on version 2, two configurations of which one is the Hub's
\* own, a retune that fails and an endpoint that moves.
Pace == INSTANCE LinkPacing WITH
    Links <- {"a", "b"}, Old <- {"b"}, Own <- "own", Configs <- PaceConfigs,
    Home <- [sf |-> 7, bw |-> 1], Air <- PaceAir, Saves <- 1, Delta <- 1,
    Replies <- {1, 3}, MaxMoves <- 1, MaxFaults <- 1, at <- pacing_at, tries
    <- pacing_tries

\* What the cfgs take for Symbol.
SymbolTime(sf, bw) == 2 ^ (sf - 7) \div bw

\* Two factors and two bandwidths, of which three pairs need
\* LowDataRateOptimize.
Sx7 == INSTANCE Sx127x WITH
    Initial <- [sf |-> FirstFactor, bw |-> FirstBandwidth], MaxFrames <-
    RadioFrames, MaxSends <- RadioSends, MaxTunes <- RadioTunes, pc <-
    sx127x_pc, sent <- sx127x_sent

\* Implicit headers, where the length of a frame sent would stand; one
\* setting the chip does not take.
Sx2 == INSTANCE Sx1262 WITH
    Values <- Settings, Initial <- FirstSetting, MaxFrames <- RadioFrames,
    MaxSends <- RadioSends, MaxTunes <- RadioTunes, MaxFaults <- 0, chip <-
    sx1262_chip, air <- sx1262_air, pc <- sx1262_pc, sent <- sx1262_sent,
    frames <- sx1262_frames, tunes <- sx1262_tunes, faults <- sx1262_faults,
    result <- sx1262_result

\* Two relays in range of both ends, which may move apart or together once.
Mesh == INSTANCE MeshRelay WITH
    Hub <- "hub", Edge <- "edge", NChunks <- MeshChunks, MaxFrames <-
    MeshFrames, MaxMoves <- MeshMoves, held <- mesh_held, made <- mesh_made,
    moves <- mesh_moves, state <- mesh_state, waiting <- mesh_waiting

\* What the cfgs take for BenchPorts, UsualPort, BoardNames and Deployments.
FourPorts == 1 .. 4
Usually == [b \in {"a", "b", "h"} |-> CASE b = "a" -> 1 [] b = "b" -> 2 [] OTHER -> 3]
Name == [e \in {"a", "b"} |-> e]
BenchPlans ==
    {[mode |-> "scratch", edges |-> <<"a">>, firmware |-> TRUE],
     [mode |-> "extend", edges |-> <<"b">>, firmware |-> FALSE],
     [mode |-> "extend", edges |-> <<"a">>, firmware |-> TRUE]}

\* A deployment of one Edge, then one more, then the first one flashed anew;
\* two runs of these.
Bench == INSTANCE Provisioning WITH
    Edges <- BenchEdges, HubBoard <- BenchHub, Ports <- BenchPorts, Usual <-
    UsualPort, Plans <- Deployments, NameOf <- BoardNames, MaxRuns <-
    BenchRuns, MaxSettled <- Settlements, silent <- bench_silent, at <-
    bench_at, roster <- bench_roster, made <- bench_made

\* Two endpoints that serve files of one name, on a board whose rename
\* replaces.
Files == INSTANCE Reassembly WITH
    Names <- FileNames, NChunks <- FileChunks, MaxFaults <- FileFaults,
    MaxRestarts <- FileRestarts, serving <- files_serving, state <-
    files_state, temp <- files_temp, made <- files_made, faults <-
    files_faults, restarts <- files_restarts

\* Two transitions and two refusals, which may name a wait.
Report == INSTANCE Reporting WITH
    Interval <- 1, Ceiling <- 2, Named <- {3}, MaxSnapshots <- 3, MaxRefusals
    <- 2, taken <- report_taken, pending <- report_pending, pc <- report_pc

\* What the cfgs take for Other.
Far(s) == IF s = "edge" THEN "hub" ELSE "edge"

\* Two messages on two brokers, a guard that remembers one, a queue of one.
Mqtt == INSTANCE MqttBridge WITH
    Threaded <- FALSE, cap <- GuardCap, file_queue_size <- BridgeQueueSize,
    Wrap <- ArtifactWrap, MaxRestarts <- BridgeRestarts, restarts <-
    mqtt_restarts

\* What the theorems about these components take of their constants.
ASSUME PartsAssumption ==
    /\ Retune!RetuneAssumption /\ Bench!DeskAssumption
    /\ Session!SessionAssumption
    /\ Control!ControlAssumption /\ Types \subseteq Handles
    /\ WINDOW \in Nat \ {0} /\ MaxCounter \in Nat
    /\ Host!DiskAssumption
    /\ SerialQueueSize \in Nat \ {0}
    /\ Files!FilesAssumption
    /\ Mesh!MeshAssumption
    /\ Mqtt!BridgeAssumption
    /\ None \notin Nat

retuneVars == <<
    view, roster, tuned, trial, status, downlink, mirror, pc, want, asks,
    state, next, asked, heard, alive, completed, session, silent, polled, cfg,
    last, conf, sf_trial, deadline, ceiling, rooted, keyed, file, announced,
    sent, proven, moved, astray, changes, plains, reboots, restarts>>
sessionVars == <<
    hubPc, tries, hello, hubSession, session_state, waiting, session_asked,
    session_alive, session_silent, session_polled, edgePc, reply, hs_state,
    edgeSession, hubRx, edgeRx, sealed, reused, session_reboots>>
countersVars == <<
    window, taken>>
controlVars == <<
    hubRoot, counter, hubFile, control_hubPc, control_downlink, edgeRoot,
    mark, edgeFile, control_edgePc, pulled, pending, ran, confirmed,
    superseded, unsaved, commands, hubRestarts, edgeRestarts, rotations,
    deadPulls>>
hostVars == <<
    disk, temp, index, indexTemp, archive, up, order, head, archived, books,
    op, name, load, made, half, accepted, done, host_astray, raised, cuts,
    drops>>
cardVars == <<
    card_disk, card_temp, card_index, card_indexTemp, card_archive, card_up,
    card_order, card_head, card_archived, card_books, card_op, card_name,
    card_load, card_made, card_half, card_accepted, card_done, card_astray,
    card_raised, card_cuts, card_drops>>
arrivalVars == <<
    offers, says, at, released, line, answers, _state, arriving, received,
    sums, chunk_crc, queue, losses, arrival_reboots, impatience>>
pacingVars == <<
    pacing_at, radio, frame, min_timeout, pacing, held, phase, pacing_tries,
    focus, moves, faults, learned>>
sx127xVars == <<
    chip, mode, dio0, flags, air, fifo, modem, ldro, sx127x_pc, sx127x_sent,
    frames, tunes, result>>
sx1262Vars == <<
    sx1262_chip, dio1, irq, length, sx1262_air, buffer, setting, believed,
    sx1262_pc, sx1262_sent, sx1262_frames, sx1262_tunes, sx1262_faults,
    sx1262_result>>
meshVars == <<
    apart, mesh_held, LAST_IDS, LAST_SEEN_IDS, mesh_made, mesh_moves,
    mesh_state, placed, mesh, retransmission_counter, mesh_waiting, serving,
    metadata_sent, first_sent, relayed>>
benchVars == <<
    path, bench_silent, files, key, rf, running, rows, registry, backups,
    plan, ports, bench_at, steps, port, expected, bench_roster, finished, ok,
    run, bench_made, settled, sound>>
filesVars == <<
    posts, files_serving, files_state, current_file, writers, files_temp,
    results, handed, files_made, files_faults, files_restarts>>
reportVars == <<
    report_taken, report_pending, report_pc, inHand, lastSent, since,
    failures, named, owed, refusals>>
mqttVars == <<
    inbox, file_queue, _artifact_id, _borrowed, _order, publishing, consumed,
    published, again, mqtt_restarts>>
vars == <<part, retuneVars, sessionVars, countersVars, controlVars, hostVars, cardVars, arrivalVars, pacingVars, sx127xVars, sx1262Vars, meshVars, benchVars, filesVars, reportVars, mqttVars>>

Init ==
    /\ Retune!Init /\ Session!Init /\ Counters!Init /\ Control!Init /\ Host!Init /\ Card!Init /\ Arrival!Init /\ Pace!Init /\ Sx7!Init /\ Sx2!Init /\ Mesh!Init /\ Bench!Init /\ Files!Init /\ Report!Init /\ Mqtt!Init
    /\ part \in {"retune", "session", "counters", "control", "host", "card", "arrival", "pacing", "sx127x", "sx1262", "mesh", "bench", "files", "report", "mqtt"}
    /\ part = "retune" \/ rooted
    /\ part = "pacing" \/ pacing_at = [l \in {"a", "b"} |-> [sf |-> 7, bw |-> 1]]
    /\ part = "mesh" \/ apart
    /\ part = "files" \/ posts

RetuneStep ==
    /\ part = "retune" /\ Retune!Next
    /\ UNCHANGED <<part, sessionVars, countersVars, controlVars, hostVars, cardVars, arrivalVars, pacingVars, sx127xVars, sx1262Vars, meshVars, benchVars, filesVars, reportVars, mqttVars>>
SessionStep ==
    /\ part = "session" /\ Session!Next
    /\ UNCHANGED <<part, retuneVars, countersVars, controlVars, hostVars, cardVars, arrivalVars, pacingVars, sx127xVars, sx1262Vars, meshVars, benchVars, filesVars, reportVars, mqttVars>>
CountersStep ==
    /\ part = "counters" /\ Counters!Next
    /\ UNCHANGED <<part, retuneVars, sessionVars, controlVars, hostVars, cardVars, arrivalVars, pacingVars, sx127xVars, sx1262Vars, meshVars, benchVars, filesVars, reportVars, mqttVars>>
ControlStep ==
    /\ part = "control" /\ Control!Next
    /\ UNCHANGED <<part, retuneVars, sessionVars, countersVars, hostVars, cardVars, arrivalVars, pacingVars, sx127xVars, sx1262Vars, meshVars, benchVars, filesVars, reportVars, mqttVars>>
HostStep ==
    /\ part = "host" /\ Host!Next
    /\ UNCHANGED <<part, retuneVars, sessionVars, countersVars, controlVars, cardVars, arrivalVars, pacingVars, sx127xVars, sx1262Vars, meshVars, benchVars, filesVars, reportVars, mqttVars>>
CardStep ==
    /\ part = "card" /\ Card!Next
    /\ UNCHANGED <<part, retuneVars, sessionVars, countersVars, controlVars, hostVars, arrivalVars, pacingVars, sx127xVars, sx1262Vars, meshVars, benchVars, filesVars, reportVars, mqttVars>>
ArrivalStep ==
    /\ part = "arrival" /\ Arrival!Next
    /\ UNCHANGED <<part, retuneVars, sessionVars, countersVars, controlVars, hostVars, cardVars, pacingVars, sx127xVars, sx1262Vars, meshVars, benchVars, filesVars, reportVars, mqttVars>>
PaceStep ==
    /\ part = "pacing" /\ Pace!Next
    /\ UNCHANGED <<part, retuneVars, sessionVars, countersVars, controlVars, hostVars, cardVars, arrivalVars, sx127xVars, sx1262Vars, meshVars, benchVars, filesVars, reportVars, mqttVars>>
Sx7Step ==
    /\ part = "sx127x" /\ Sx7!Next
    /\ UNCHANGED <<part, retuneVars, sessionVars, countersVars, controlVars, hostVars, cardVars, arrivalVars, pacingVars, sx1262Vars, meshVars, benchVars, filesVars, reportVars, mqttVars>>
Sx2Step ==
    /\ part = "sx1262" /\ Sx2!Next
    /\ UNCHANGED <<part, retuneVars, sessionVars, countersVars, controlVars, hostVars, cardVars, arrivalVars, pacingVars, sx127xVars, meshVars, benchVars, filesVars, reportVars, mqttVars>>
MeshStep ==
    /\ part = "mesh" /\ Mesh!Next
    /\ UNCHANGED <<part, retuneVars, sessionVars, countersVars, controlVars, hostVars, cardVars, arrivalVars, pacingVars, sx127xVars, sx1262Vars, benchVars, filesVars, reportVars, mqttVars>>
BenchStep ==
    /\ part = "bench" /\ Bench!Next
    /\ UNCHANGED <<part, retuneVars, sessionVars, countersVars, controlVars, hostVars, cardVars, arrivalVars, pacingVars, sx127xVars, sx1262Vars, meshVars, filesVars, reportVars, mqttVars>>
FilesStep ==
    /\ part = "files" /\ Files!Next
    /\ UNCHANGED <<part, retuneVars, sessionVars, countersVars, controlVars, hostVars, cardVars, arrivalVars, pacingVars, sx127xVars, sx1262Vars, meshVars, benchVars, reportVars, mqttVars>>
ReportStep ==
    /\ part = "report" /\ Report!Next
    /\ UNCHANGED <<part, retuneVars, sessionVars, countersVars, controlVars, hostVars, cardVars, arrivalVars, pacingVars, sx127xVars, sx1262Vars, meshVars, benchVars, filesVars, mqttVars>>
MqttStep ==
    /\ part = "mqtt" /\ Mqtt!Next
    /\ UNCHANGED <<part, retuneVars, sessionVars, countersVars, controlVars, hostVars, cardVars, arrivalVars, pacingVars, sx127xVars, sx1262Vars, meshVars, benchVars, filesVars, reportVars>>

Next ==
    \/ RetuneStep
    \/ SessionStep
    \/ CountersStep
    \/ ControlStep
    \/ HostStep
    \/ CardStep
    \/ ArrivalStep
    \/ PaceStep
    \/ Sx7Step
    \/ Sx2Step
    \/ MeshStep
    \/ BenchStep
    \/ FilesStep
    \/ ReportStep
    \/ MqttStep

Spec == Init /\ [][Next]_vars

-----------------------------------------------------------------------------
\* A change reported as accepted is one the Edge made.
AcceptedMeansMoved == part = "retune" => Retune!AcceptedMeansMoved

\* No counter is sealed twice under one key in one direction.
NoNonceReuse == Session!NoNonceReuse

\* Two ends that both hold a session hold the same one.
KeysAgree == Session!KeysAgree

\* A counter is taken exactly once if it is fresh, and never again.
TakesFreshOnce == Counters!TakesFreshOnce

\* An Edge takes what its own root signs, whatever restarted.
NoLockout == Control!NoLockout

\* A command is carried out at most once.
CarriedOutOnce == Control!CarriedOutOnce

\* A command the Hub was told is done was carried out, or is about to be, and
\* no other took its place.
ConfirmedIsDone == Control!ConfirmedIsDone /\ Control!NothingSuperseded

\* A payload taken stays until it is confirmed or evicted, and no longer.
NothingLost == Host!NothingLost /\ Card!NothingLost /\ Host!LeavesTheFolder /\ Card!LeavesTheFolder

\* What a queue or a sink is given to keep is never half a file.
NeverTorn == Host!NeverTorn /\ Card!NeverTorn /\ Files!NeverTorn /\ Files!BufferInPlace

\* A node does not resume one file as another.
ResumesTheSame == Host!ResumesTheSame

\* A file queued from the wire is the file that was sent, under a name of its
\* own.
QueuedIsWhole == Arrival!QueuedIsWhole /\ Arrival!NamesDiffer

\* What a link learned is there at its next visit, and what a site asked for
\* is heeded.
KeepsWhatItLearned == Pace!KeepsWhatItLearned /\ Report!RefusalSlows

\* A program is handed whole frames only, and answers to what it sent.
HandsOverAnswers == Sx7!HandsOverAnswers /\ Sx2!HandsOverAnswers

\* A radio that is not sending listens, to all it may be sent.
StaysOnAir == Sx7!StaysOnAir /\ Sx2!StaysOnAir

\* No node sends on what it sent before: neither a frame nor a message.
SentOnOnce == Mesh!RelaysOnce /\ Mqtt!NeverSentBack

\* No identity made is lost.
KeysKept == Bench!KeysKept

\* A board that was whole is not started half written.
StartsWhole == Bench!StartsWhole

\* A roster written tells the Hub where its Edges are.
RosterTells == Bench!RosterTells

\* An answer to a relayed question may be relayed.
AnswersInKind == Mesh!AnswersInKind

\* The Hub follows a change when the artifact that carries it is delivered,
\* and not another.
MirrorsItsArtifact == part = "retune" => Retune!MirrorsItsArtifact
=============================================================================
