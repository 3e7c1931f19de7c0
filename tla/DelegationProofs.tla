-------------------------- MODULE DelegationProofs --------------------------
(***************************************************************************)
(* Theorems about Delegation for every value of its constants: any number  *)
(* of files of any number of chunks, any size of the delegation counter,   *)
(* any backoff, losses, early timeouts and any number of restarts.         *)
(*                                                                         *)
(* A node's receiver is cleared by its own transmissions (OneAnswer): once *)
(* the Edge has heard something, or is about to answer it, nothing it sent *)
(* before is left for the Hub to act on.  So while the Edge collects a     *)
(* file, every request and every chunk in flight is about its next missing *)
(* chunk (InStep) although a restarted Hub may be granting another file.   *)
(* And once a Hub has served a tail chunk, no OK is on its way to it but   *)
(* the final-OK of an Edge that has the file (TailServed).                 *)
(***************************************************************************)
EXTENDS Delegation, SequenceTheorems, FiniteSetTheorems, TLAPS

\* Frames in flight: an empty one is NoFrame, a GRANT carries a number.
Frames ==
    /\ \A p \in {hubReply, hubRx, edgeRx, waiting, edgeWaiting} :
          p.kind = "NONE" => p = NoFrame
    /\ edgeRx.kind = "GRANT" => edgeRx.idx < SwapIds
    /\ hubReply.kind \notin {"GRANT"}

Types == TypeOK /\ Frames

Queued == {downlink[i] : i \in DOMAIN downlink}
HeadIs(f) == downlink # <<>> /\ f = Head(downlink)
FromTheHub == {hubReply, edgeRx}

OneAnswer ==
    edgeRx # NoFrame \/ edgePc = "reply" => hubRx = NoFrame /\ hubReply = NoFrame

\* What each node remembers of a delegation it only remembers during one.
Control ==
    /\ hubPc # "serving" => hubReply = NoFrame /\ ~metadata_sent
    /\ ~metadata_sent => last_chunk_sent = 0
    /\ pull = "PROCESS_CHUNK_STATE" => edgePc = "pull"
    /\ edgeWaiting # NoFrame => edgePc = "pull"
    /\ edgeWaiting.kind = "CHUNK" => pull = "PROCESS_CHUNK_STATE"

\* What the reassembly holds is a proper prefix of the announced file.
Prefix ==
    /\ current_file \in Files
    /\ Len(chunks) < NChunks[current_file]
    /\ \A k \in 1..Len(chunks) : chunks[k] = [file |-> current_file, idx |-> k - 1]

InStep ==
    pull = "PROCESS_CHUNK_STATE" =>
        /\ Prefix
        /\ hubRx \in {NoFrame, ChunkAsk(Len(chunks))}
        /\ edgeWaiting \in {NoFrame, ChunkAsk(Len(chunks))}
        /\ \A p \in FromTheHub :
              /\ IsAnnouncement(p) => ~metadata_sent
              /\ p.kind = "DATA" => p = DataFrame(current_file, Len(chunks))

\* A file announced or collected is the one this delegation serves if it has
\* announced any; it is still owed to the Edge, and as long as the Hub has not
\* restarted it heads the queue.
Owed(f) ==
    /\ metadata_sent => HeadIs(f)
    /\ f \in Queued \cup lost
    /\ hubReboots = 0 => HeadIs(f)
Announced ==
    /\ \A p \in FromTheHub : IsAnnouncement(p) => Owed(p.file)
    /\ pull = "PROCESS_CHUNK_STATE" => Owed(current_file)

\* After the tail was served an OK means that the file is in.
NoOk == edgePc # "reply" /\ \A p \in {edgeRx, hubReply, hubRx} : p.kind # "OK"
TailServed ==
    hubPc = "serving" /\ IsFinalOk => NoOk \/ Head(downlink) \in Arrived

\* A file is queued, lost or confirmed, and queued once.
Once ==
    /\ \A i, j \in DOMAIN downlink : downlink[i] = downlink[j] => i = j
    /\ Queued \cap lost = {} /\ Queued \cap confirmed = {} /\ lost \cap confirmed = {}

Core == /\ OneAnswer /\ Control /\ InStep /\ Announced /\ TailServed /\ Once
        /\ WholeDownlinks /\ InOrder

IInv == Types /\ Core

USE DEF vars, visitVars, grantVars, serveVars, hubVars, pullVars, edgeVars,
   boundVars

-----------------------------------------------------------------------------
(* What frames are made of, and powers of two.                             *)

LEMMA FrameTypes ==
    /\ NoFrame \in Frame /\ OkFrame \in Frame /\ MetadataAsk \in Frame
    /\ \A i \in Nat : ChunkAsk(i) \in Frame /\ GrantFrame(i) \in Frame
    /\ \A f \in Files : Announcement(f) \in Frame
    /\ \A f \in Files, i \in Nat : DataFrame(f, i) \in Frame
BY DEF Frame, NoFrame, OkFrame, MetadataAsk, Bare, ChunkAsk, GrantFrame,
       Announcement, DataFrame, OptFile

LEMMA FrameFields ==
    /\ NoFrame.kind = "NONE" /\ OkFrame.kind = "OK"
    /\ MetadataAsk.kind = "METADATA" /\ MetadataAsk.file = NoFile
    /\ \A i : ChunkAsk(i).kind = "CHUNK" /\ ChunkAsk(i).idx = i
    /\ \A i : GrantFrame(i).kind = "GRANT" /\ GrantFrame(i).idx = i
    /\ \A f : Announcement(f).kind = "METADATA" /\ Announcement(f).file = f
    /\ \A f, i : /\ DataFrame(f, i).kind = "DATA"
                 /\ DataFrame(f, i).file = f /\ DataFrame(f, i).idx = i
BY DEF NoFrame, OkFrame, MetadataAsk, Bare, ChunkAsk, GrantFrame, Announcement,
       DataFrame

LEMMA FrameParts == ASSUME NEW p \in Frame PROVE p.file \in OptFile /\ p.idx \in Nat
BY DEF Frame

LEMMA PowersOfTwo == ASSUME NEW n \in Nat PROVE 2 ^ n \in Nat
<1>1. IsFiniteSet(1..n) /\ Cardinality(1..n) = n
  BY FS_Interval
<1>2. /\ IsFiniteSet(SUBSET (1..n))
      /\ Cardinality(SUBSET (1..n)) = 2 ^ Cardinality(1..n)
  BY <1>1, FS_SUBSET
<1> QED BY <1>1, <1>2, FS_CardinalityType

LEMMA SkipType ==
    ASSUME NEW n \in Nat PROVE SkipAfter(n) \in 0..MaxSkip
<1>1. 2 ^ n \in Nat
  BY PowersOfTwo
<1> DEFINE m == 2 ^ n
<1>2. m \in Nat /\ SkipAfter(n) = IF m < MaxSkip THEN m ELSE MaxSkip
  BY <1>1 DEF SkipAfter
<1> HIDE DEF m
<1> QED BY <1>2, TuningAssumption

-----------------------------------------------------------------------------
(* Types.                                                                  *)

LEMMA QueueFacts ==
    ASSUME NEW q \in Seq(Files), NEW f \in Files
    PROVE  /\ <<>> \in Seq(Files)
           /\ Append(q, f) \in Seq(Files) /\ Append(q, f) # <<>>
           /\ q # <<>> => /\ Head(q) \in Files
                          /\ Tail(q) \in Seq(Files)
                          /\ Head(Append(q, f)) = Head(q)
<1>1. q # <<>> => Head(q) \in Files /\ Tail(q) \in Seq(Files)
  BY HeadTailProperties
<1>2. /\ <<>> \in Seq(Files) /\ Append(q, f) \in Seq(Files) /\ Append(q, f) # <<>>
      /\ q # <<>> => Head(Append(q, f)) = Head(q)
  <2>1. <<>> \in Seq(Files) /\ Append(q, f) \in Seq(Files)
    BY EmptySeq, AppendProperties
  <2>2. Len(Append(q, f)) = Len(q) + 1 /\ Len(q) \in Nat
    BY AppendProperties, LenProperties
  <2>3. Append(q, f) # <<>>
    BY <2>1, <2>2, EmptySeq
  <2>4. q # <<>> => Head(Append(q, f)) = Head(q)
    OBVIOUS
  <2> QED BY <2>1, <2>3, <2>4
<1> QED BY <1>1, <1>2

LEMMA InitTypes == ASSUME Init PROVE Types
<1> USE FrameTypes, FrameFields, TuningAssumption DEF Init
<1>1. HubTypeOK
  <2>1. /\ polls \in 0..DiagnosisPolls /\ skip \in 0..MaxSkip
        /\ swap_id \in 0..(SwapIds - 1)
    OBVIOUS
  <2>2. /\ downlink \in Seq(Files)
        /\ asked \in BOOLEAN /\ alive \in BOOLEAN /\ metadata_sent \in BOOLEAN
    BY EmptySeq
  <2>3. /\ hubPc \in {"between", "visit", "closing", "serving"}
        /\ state \in {"OK", "REQUEST_DATA_STATE"}
        /\ failures \in Nat /\ last_chunk_sent \in Nat
        /\ confirmed \subseteq Files /\ lost \subseteq Files
    OBVIOUS
  <2> QED BY <2>1, <2>2, <2>3 DEF HubTypeOK
<1>2. EdgeTypeOK
  BY DEF EdgeTypeOK, OptFile
<1>3. FrameTypeOK /\ BoundTypeOK /\ Frames
  BY DEF FrameTypeOK, BoundTypeOK, Frames
<1> QED BY <1>1, <1>2, <1>3 DEF Types, TypeOK

LEMMA HubDrivesTypes ==
    ASSUME Types, NEW b \in BOOLEAN,
           \/ BeginVisit \/ PollHeard \/ PollUnheard \/ EndVisit \/ ClosingOver
           \/ AskOk(b) \/ AskMetadata(b) \/ ClosingPoll(b) \/ Grant(b)
    PROVE  Types'
<1> USE FrameTypes, FrameFields, TuningAssumption
        DEF Types, TypeOK, Frames, HubTypeOK, EdgeTypeOK, FrameTypeOK,
            BoundTypeOK, FromHub, Boundary
<1>1. CASE BeginVisit
  <2>1. polls' \in 0..DiagnosisPolls
    BY <1>1 DEF BeginVisit
  <2> QED BY <1>1, <2>1 DEF BeginVisit
<1>2. CASE PollHeard
  BY <1>2 DEF PollHeard
<1>3. CASE PollUnheard
  BY <1>3 DEF PollUnheard
<1>4. CASE EndVisit
  BY <1>4 DEF EndVisit
<1>5. CASE ClosingOver
  BY <1>5 DEF ClosingOver
<1>6. CASE AskOk(b)
  BY <1>6 DEF AskOk, PollRound, MayDelegate, SkipOne
<1>7. CASE AskMetadata(b)
  BY <1>7 DEF AskMetadata, PollRound, MayDelegate, SkipOne
<1>8. CASE ClosingPoll(b)
  BY <1>8 DEF ClosingPoll
<1>9. CASE Grant(b)
  <2>1. swap_id' \in 0..(SwapIds - 1) /\ swap_id' \in Nat /\ swap_id' < SwapIds
    BY <1>9 DEF Grant
  <2>2. GrantFrame(swap_id') \in Frame /\ GrantFrame(swap_id').kind = "GRANT"
        /\ GrantFrame(swap_id').idx < SwapIds
    BY <2>1
  <2>3. /\ edgeRx' \in Frame /\ hubRx' = NoFrame
        /\ UNCHANGED <<waiting, hubReply, edgeWaiting>>
    BY <1>9, <2>2 DEF Grant
  <2>4. (edgeRx.kind = "GRANT" => edgeRx.idx < SwapIds)' /\ edgeRx'.kind \in {edgeRx.kind, "GRANT"}
        /\ edgeRx' \in {edgeRx, GrantFrame(swap_id')}
    BY <1>9, <2>2 DEF Grant
  <2>5. Frames'
    BY <2>2, <2>3, <2>4
  <2>6. HubTypeOK' /\ downlink' # <<>>
    BY <1>9, <2>1 DEF Grant, MayDelegate
  <2>7. EdgeTypeOK' /\ BoundTypeOK'
    BY <1>9 DEF Grant
  <2> QED BY <2>3, <2>5, <2>6, <2>7
<1> QED BY <1>1, <1>2, <1>3, <1>4, <1>5, <1>6, <1>7, <1>8, <1>9

LEMMA HubServesTypes ==
    ASSUME Types, NEW b \in BOOLEAN,
           \/ \E f \in Files : QueueDownlink(f)
           \/ Announce \/ ReAnnounce \/ ServeChunk \/ EchoOk \/ ServeSend(b)
           \/ Delivered \/ Reclaim \/ HubReboot
    PROVE  Types'
<1> USE FrameTypes, FrameFields, FrameParts, TuningAssumption
        DEF Types, TypeOK, Frames, HubTypeOK, EdgeTypeOK, FrameTypeOK,
            BoundTypeOK, FromHub, Hears, TurnFrame
<1>0. hubPc = "serving" => Head(downlink) \in Files /\ Tail(downlink) \in Seq(Files)
  BY QueueFacts
<1>1. ASSUME NEW f \in Files, QueueDownlink(f) PROVE Types'
  <2>1. downlink' \in Seq(Files) /\ downlink' # <<>>
    BY <1>1, QueueFacts DEF QueueDownlink
  <2> QED BY <1>1, <2>1 DEF QueueDownlink
<1>2. CASE Announce
  BY <1>0, <1>2 DEF Announce
<1>3. CASE ReAnnounce
  BY <1>0, <1>3 DEF ReAnnounce
<1>4. CASE ServeChunk
  BY <1>0, <1>4 DEF ServeChunk
<1>5. CASE EchoOk
  BY <1>5 DEF EchoOk
<1>6. CASE ServeSend(b)
  BY <1>6 DEF ServeSend
<1>7. CASE Delivered
  <2>1. /\ Head(downlink) \in Files /\ downlink' \in Seq(Files)
        /\ confirmed' \subseteq Files /\ hubPc' = "visit"
    BY <1>0, <1>7 DEF Delivered
  <2>2. skip' \in 0..MaxSkip /\ failures' \in Nat /\ last_chunk_sent' \in Nat
    BY <1>7 DEF Delivered
  <2>3. HubTypeOK'
    BY <1>7, <2>1, <2>2 DEF Delivered
  <2>4. EdgeTypeOK' /\ FrameTypeOK' /\ BoundTypeOK' /\ Frames'
    BY <1>7 DEF Delivered
  <2> QED BY <2>1, <2>3, <2>4
<1>8. CASE Reclaim
  <2>1. failures + 1 \in Nat
    OBVIOUS
  <2>2. SkipAfter(failures + 1) \in 0..MaxSkip
    BY <2>1, SkipType
  <2> QED BY <1>8, <2>1, <2>2 DEF Reclaim
<1>9. CASE HubReboot
  <2>1. lost' \subseteq Files /\ downlink' \in Seq(Files)
    BY <1>9 DEF HubReboot
  <2>2. /\ polls' \in 0..DiagnosisPolls /\ skip' \in 0..MaxSkip
        /\ swap_id' \in 0..(SwapIds - 1)
    BY <1>9 DEF HubReboot
  <2>3. HubTypeOK' /\ hubPc' # "serving"
    BY <1>9, <2>1, <2>2 DEF HubReboot
  <2>4. EdgeTypeOK' /\ FrameTypeOK' /\ BoundTypeOK' /\ Frames'
    BY <1>9 DEF HubReboot
  <2> QED BY <2>3, <2>4
<1> QED BY <1>1, <1>2, <1>3, <1>4, <1>5, <1>6, <1>7, <1>8, <1>9

LEMMA EdgeAnswersTypes ==
    ASSUME Types, NEW b \in BOOLEAN,
           \/ AnswerPoll \/ NothingToServe \/ AnswerData \/ SendPollAnswer(b)
           \/ HonourGrant \/ IgnoreGrant
    PROVE  Types'
<1> USE FrameTypes, FrameFields, TuningAssumption
        DEF Types, TypeOK, Frames, EdgeTypeOK, FrameTypeOK, BoundTypeOK,
            FromEdge, AtHome
<1>0. HubTypeOK'
  <2>1. UNCHANGED hubVars
    BY DEF AnswerPoll, NothingToServe, AnswerData, SendPollAnswer, HonourGrant,
       IgnoreGrant
  <2> QED BY <2>1 DEF HubTypeOK
<1>1. CASE AnswerPoll
  BY <1>0, <1>1 DEF AnswerPoll
<1>2. CASE NothingToServe \/ IgnoreGrant
  BY <1>0, <1>2 DEF NothingToServe, IgnoreGrant
<1>3. CASE AnswerData
  BY <1>0, <1>3 DEF AnswerData
<1>4. CASE SendPollAnswer(b)
  BY <1>0, <1>4 DEF SendPollAnswer
<1>5. CASE HonourGrant
  <2>1. edgeRx.idx \in 0..(SwapIds - 1)
    BY <1>5, FrameParts DEF HonourGrant
  <2> QED BY <1>0, <1>5, <2>1 DEF HonourGrant
<1> QED BY <1>1, <1>2, <1>3, <1>4, <1>5

LEMMA EdgePullsTypes ==
    ASSUME Types, NEW b \in BOOLEAN,
           \/ PullMetadata(b) \/ PullData(b) \/ PullAnnounced
           \/ PullReAnnounced \/ Yield \/ PullUnanswered \/ Stall \/ EdgeReboot
    PROVE  Types'
<1> USE FrameTypes, FrameFields, TuningAssumption
        DEF Types, TypeOK, Frames, EdgeTypeOK, FrameTypeOK, BoundTypeOK,
            FromEdge, PullHeard
<1>0. HubTypeOK'
  <2>1. UNCHANGED hubVars
    BY DEF PullMetadata, PullData, PullRound, PullAnnounced, PullReAnnounced,
       Yield, PullUnanswered, Stall, EdgeReboot
  <2> QED BY <2>1 DEF HubTypeOK
<1>1. CASE PullMetadata(b)
  BY <1>0, <1>1 DEF PullMetadata, PullRound
<1>2. CASE PullData(b)
  <2>1. Len(chunks) \in Nat
    OBVIOUS
  <2> QED BY <1>0, <1>2, <2>1 DEF PullData, PullRound
<1>3. CASE PullAnnounced \/ PullReAnnounced
  <2>1. current_file' \in OptFile
    BY <1>3, FrameParts DEF PullAnnounced, PullReAnnounced, OptFile
  <2>2. chunks' \in Seq(Chunk)
    <3>1. chunks' = <<>>
      BY <1>3 DEF PullAnnounced, PullReAnnounced
    <3> QED BY <3>1, EmptySeq
  <2> QED BY <1>0, <1>3, <2>1, <2>2 DEF PullAnnounced, PullReAnnounced
<1>4. CASE PullUnanswered
  BY <1>0, <1>4 DEF PullUnanswered
<1>5. CASE Yield \/ Stall \/ EdgeReboot
  <2>1. GoHome
    BY <1>5 DEF Yield, Stall, EdgeReboot
  <2>2. /\ current_file' \in OptFile /\ chunks' \in Seq(Chunk)
        /\ swap' \in 0..(SwapIds - 1)
    BY <2>1 DEF GoHome, OptFile
  <2>3. last_swap_id' \in 0..SwapIds /\ sink' = sink
    BY <1>5 DEF Yield, Stall, EdgeReboot
  <2>4. EdgeTypeOK'
    BY <2>1, <2>2, <2>3 DEF GoHome
  <2>5. edgeWaiting' = NoFrame /\ edgeRx' \in {edgeRx, NoFrame}
        /\ UNCHANGED <<hubReply, hubRx, waiting, hubPc, downlink>>
    BY <1>5, <2>1 DEF GoHome, Yield, Stall, EdgeReboot
  <2>6. FrameTypeOK' /\ Frames'
    BY <2>5
  <2>7. BoundTypeOK'
    BY <1>5 DEF Yield, Stall, EdgeReboot
  <2> QED BY <1>0, <2>4, <2>5, <2>6, <2>7
<1> QED BY <1>1, <1>2, <1>3, <1>4, <1>5

LEMMA NextChunk ==
    ASSUME IInv, GotChunk
    PROVE  /\ pull = "PROCESS_CHUNK_STATE" /\ edgePc = "pull" /\ Prefix
           /\ edgeRx = DataFrame(current_file, Len(chunks))
           /\ hubRx = NoFrame /\ hubReply = NoFrame
           /\ Placed \in Seq(Chunk)
           /\ Len(Placed) = Len(chunks) + 1 /\ Len(chunks) \in Nat
           /\ \A k \in 1..Len(Placed) :
                 Placed[k] = [file |-> current_file, idx |-> k - 1]
<1> USE FrameFields DEF IInv, Core, Types, TypeOK, GotChunk, PullHeard
<1>1. pull = "PROCESS_CHUNK_STATE" /\ edgePc = "pull" /\ Prefix
  BY DEF Control, InStep
<1>2. /\ edgeRx = DataFrame(current_file, Len(chunks)) /\ hubRx = NoFrame
      /\ hubReply = NoFrame
  BY <1>1 DEF InStep, FromTheHub, OneAnswer
<1>3. chunks \in Seq(Chunk) /\ Len(chunks) \in Nat
  BY LenProperties DEF EdgeTypeOK
<1> DEFINE c == [file |-> edgeRx.file, idx |-> edgeRx.idx]
<1>4. c = [file |-> current_file, idx |-> Len(chunks)] /\ c \in Chunk
  BY <1>1, <1>2, <1>3 DEF Chunk, Prefix
<1>5. /\ Placed \in Seq(Chunk) /\ Len(Placed) = Len(chunks) + 1
      /\ \A k \in 1..Len(chunks) : Placed[k] = chunks[k]
      /\ Placed[Len(chunks) + 1] = c
  BY <1>3, <1>4, AppendProperties DEF Placed
<1>6. ASSUME NEW k \in 1..Len(Placed)
      PROVE  Placed[k] = [file |-> current_file, idx |-> k - 1]
  <2>1. CASE k = Len(chunks) + 1
    BY <2>1, <1>3, <1>4, <1>5
  <2>2. CASE k \in 1..Len(chunks)
    BY <2>2, <1>1, <1>5 DEF Prefix
  <2> QED BY <2>1, <2>2, <1>3, <1>5
<1> QED BY <1>1, <1>2, <1>3, <1>5, <1>6

LEMMA LastChunk ==
    ASSUME IInv, GotChunk, IsLast
    PROVE  /\ [file |-> current_file, chunks |-> Placed] = Whole(current_file)
           /\ [file |-> current_file, chunks |-> Placed] \in Artifact
           /\ current_file \in Files
<1>1. /\ Prefix
      /\ Placed \in Seq(Chunk) /\ Len(Placed) = NChunks[current_file]
      /\ \A k \in 1..Len(Placed) :
            Placed[k] = [file |-> current_file, idx |-> k - 1]
  BY NextChunk DEF IsLast
<1>2. Placed = [k \in 1..NChunks[current_file] |->
                   [file |-> current_file, idx |-> k - 1]]
  <2>1. Placed \in [1..NChunks[current_file] -> Chunk]
    BY <1>1, LenProperties
  <2> QED BY <2>1, <1>1
<1> QED BY <1>1, <1>2 DEF Whole, Artifact, Prefix

LEMMA CollectTypes ==
    ASSUME IInv, NEW b \in BOOLEAN, PullChunk \/ PullSinkFails \/ PullDone(b)
    PROVE  Types'
<1> USE FrameTypes, FrameFields, TuningAssumption
        DEF IInv, Types, TypeOK, Frames, FrameTypeOK, BoundTypeOK
<1>1. GotChunk
  BY DEF PullChunk, PullSinkFails, PullDone
<1>2. HubTypeOK' /\ UNCHANGED <<hubPc, downlink, waiting, hubReply>>
  <2>1. UNCHANGED hubVars
    BY DEF PullChunk, PullSinkFails, PullDone
  <2> QED BY <2>1 DEF HubTypeOK
<1>3. CASE PullChunk \/ PullSinkFails
  <2>1. EdgeTypeOK'
    BY <1>1, <1>3, NextChunk DEF PullChunk, PullSinkFails, EdgeTypeOK
  <2> QED BY <1>2, <1>3, <2>1 DEF PullChunk, PullSinkFails
<1>4. CASE PullDone(b)
  <2> DEFINE s == [file |-> current_file, chunks |-> Placed]
  <2>1. s \in Artifact /\ sink' = sink \cup {s}
    BY <1>1, <1>4, LastChunk DEF PullDone
  <2> HIDE DEF s
  <2>2. sink' \subseteq Artifact
    BY <2>1 DEF EdgeTypeOK
  <2>3. /\ <<>> \in Seq(Chunk) /\ NoFile \in OptFile /\ 0 \in 0..(SwapIds - 1)
        /\ swap \in 0..SwapIds
    BY EmptySeq DEF OptFile, EdgeTypeOK
  <2>4. EdgeTypeOK'
    BY <1>4, <2>2, <2>3 DEF PullDone, GoHome, EdgeTypeOK
  <2>5. /\ edgeRx' = NoFrame /\ edgeWaiting' = NoFrame
        /\ hubRx' \in {hubRx, OkFrame}
    BY <1>4 DEF PullDone, GoHome, FromEdge
  <2> QED BY <1>2, <1>4, <2>4, <2>5 DEF PullDone
<1> QED BY <1>3, <1>4

-----------------------------------------------------------------------------
(* The downlink queue as a set of files.                                   *)

LEMMA Popped ==
    ASSUME NEW q \in Seq(Files), q # <<>>,
           \A i, j \in DOMAIN q : q[i] = q[j] => i = j
    PROVE  /\ {Tail(q)[i] : i \in DOMAIN Tail(q)} = {q[i] : i \in DOMAIN q} \ {Head(q)}
           /\ \A i, j \in DOMAIN Tail(q) : Tail(q)[i] = Tail(q)[j] => i = j
           /\ Head(q) \in {q[i] : i \in DOMAIN q}
<1> DEFINE t == Tail(q)
<1>1. /\ Len(q) \in Nat \ {0} /\ DOMAIN q = 1..Len(q) /\ Head(q) = q[1]
      /\ DOMAIN t = 1..(Len(q) - 1)
      /\ \A i \in 1..(Len(q) - 1) : t[i] = q[i + 1] /\ i + 1 \in 2..Len(q)
  OBVIOUS
<1> HIDE DEF t
<1>2. \A i \in 2..Len(q) :
         i \in DOMAIN q /\ i - 1 \in DOMAIN t /\ t[i - 1] = q[i] /\ q[i] # q[1]
  <2> TAKE i \in 2..Len(q)
  <2>1. /\ i - 1 \in 1..(Len(q) - 1) /\ (i - 1) + 1 = i /\ i # 1
        /\ 1 \in DOMAIN q /\ i \in DOMAIN q
    BY <1>1
  <2> QED BY <2>1, <1>1
<1>3. ASSUME NEW x PROVE x \in {t[i] : i \in DOMAIN t} <=> x \in {q[i] : i \in DOMAIN q} \ {q[1]}
  <2>1. ASSUME NEW i \in DOMAIN t PROVE t[i] \in {q[j] : j \in DOMAIN q} \ {q[1]}
    <3>1. t[i] = q[i + 1] /\ i + 1 \in 2..Len(q)
      BY <1>1
    <3>2. i + 1 \in DOMAIN q /\ q[i + 1] # q[1]
      BY <3>1, <1>2
    <3> QED BY <3>1, <3>2
  <2>2. ASSUME NEW i \in DOMAIN q, q[i] # q[1] PROVE q[i] \in {t[j] : j \in DOMAIN t}
    <3>1. i \in 2..Len(q)
      BY <2>2, <1>1
    <3> QED BY <3>1, <1>2
  <2> QED BY <2>1, <2>2
<1>4. \A i, j \in DOMAIN t : t[i] = t[j] => i = j
  BY <1>1
<1>5. Head(q) \in {q[i] : i \in DOMAIN q}
  BY <1>1
<1> QED BY <1>1, <1>3, <1>4, <1>5 DEF t

LEMMA Pushed ==
    ASSUME NEW q \in Seq(Files), NEW f \in Files, f \notin {q[i] : i \in DOMAIN q},
           \A i, j \in DOMAIN q : q[i] = q[j] => i = j
    PROVE  LET r == Append(q, f)
           IN  /\ {r[i] : i \in DOMAIN r} = {q[i] : i \in DOMAIN q} \cup {f}
               /\ \A i, j \in DOMAIN r : r[i] = r[j] => i = j
               /\ \A i \in DOMAIN q : r[i] = q[i]
               /\ DOMAIN r = DOMAIN q \cup {Len(q) + 1} /\ r[Len(q) + 1] = f
<1> DEFINE r == Append(q, f)
<1>1. /\ DOMAIN q = 1..Len(q) /\ Len(q) \in Nat
      /\ DOMAIN r = 1..(Len(q) + 1)
      /\ r[Len(q) + 1] = f /\ \A i \in 1..Len(q) : r[i] = q[i]
  OBVIOUS
<1> HIDE DEF r
<1>2. DOMAIN r = DOMAIN q \cup {Len(q) + 1}
  BY <1>1
<1>3. \A i \in DOMAIN q : r[i] # f
  BY <1>1
<1>4. \A i, j \in DOMAIN r : r[i] = r[j] => i = j
  BY <1>1, <1>2, <1>3
<1>5. {r[i] : i \in DOMAIN r} = {q[i] : i \in DOMAIN q} \cup {f}
  BY <1>1, <1>2
<1> QED BY <1>1, <1>2, <1>4, <1>5 DEF r

-----------------------------------------------------------------------------
(* The Hub's steps.                                                        *)

LEMMA SameBooks ==
    ASSUME IInv, UNCHANGED <<downlink, lost, confirmed, sink, hubReboots>>
    PROVE  /\ Once' /\ WholeDownlinks' /\ InOrder'
           /\ Queued' = Queued /\ Arrived' = Arrived
           /\ \A f : Owed(f) /\ (metadata_sent' => metadata_sent) => Owed(f)'
BY DEF IInv, Core, Once, WholeDownlinks, InOrder, Queued, Arrived, Consumed,
   Whole,
       Owed, HeadIs

\* Outside a delegation the Hub announces nothing and remembers nothing.
LEMMA HubDrivesCore ==
    ASSUME IInv, NEW b \in BOOLEAN,
           \/ BeginVisit \/ PollHeard \/ PollUnheard \/ EndVisit \/ ClosingOver
           \/ AskOk(b) \/ AskMetadata(b) \/ ClosingPoll(b) \/ Grant(b)
    PROVE  Core'
<1> USE FrameFields DEF IInv, Core
<1>1. /\ hubPc # "serving" /\ hubReply = NoFrame /\ ~metadata_sent
      /\ last_chunk_sent = 0
  BY DEF Control, BeginVisit, PollHeard, PollUnheard, EndVisit, ClosingOver,
     AskOk, AskMetadata, ClosingPoll, Grant, PollRound, Boundary
<1>a. metadata_sent = FALSE
  BY <1>1 DEF Types, TypeOK, HubTypeOK
<1>2. UNCHANGED <<metadata_sent, last_chunk_sent, hubReply, edgePc, pull, edgeWaiting,
                  current_file, chunks, downlink, lost, confirmed, sink, hubReboots>>
  BY <1>1, <1>a DEF BeginVisit, PollHeard, PollUnheard, EndVisit, ClosingOver,
     AskOk, AskMetadata, ClosingPoll, Grant, PollRound
<1>3. /\ hubRx' \in {hubRx, NoFrame}
      /\ \/ edgeRx' = edgeRx
         \/ hubRx' = NoFrame /\ edgeRx'.kind \in {"OK", "METADATA", "GRANT"} /\ ~IsAnnouncement(edgeRx')
  BY DEF BeginVisit, PollHeard, PollUnheard, EndVisit, ClosingOver, AskOk,
     AskMetadata, ClosingPoll, Grant, PollRound, FromHub, IsAnnouncement
<1>4. /\ Once' /\ WholeDownlinks' /\ InOrder' /\ Queued' = Queued
      /\ \A f : Owed(f) => Owed(f)'
  BY <1>2, SameBooks
<1>5. OneAnswer' /\ Control'
  BY <1>1, <1>2, <1>3 DEF OneAnswer, Control, Types, TypeOK
<1>6. InStep'
  BY <1>1, <1>2, <1>3 DEF InStep, Prefix, FromTheHub, IsAnnouncement
<1>7. Announced'
  BY <1>1, <1>2, <1>3, <1>4 DEF Announced, FromTheHub, IsAnnouncement
<1>8. TailServed'
  <2>1. hubPc' = "serving" => downlink # <<>>
    BY <1>1
       DEF BeginVisit, PollHeard, PollUnheard, EndVisit, ClosingOver, AskOk,
       AskMetadata, ClosingPoll, Grant, PollRound, Boundary, MayDelegate
  <2>2. hubPc' = "serving" => Head(downlink) \in Files
    BY <2>1, QueueFacts DEF Types, TypeOK, HubTypeOK
  <2>3. hubPc' = "serving" => ~IsFinalOk'
    BY <1>1, <1>2, <2>2, FilesAssumption DEF IsFinalOk
  <2> QED BY <2>3 DEF TailServed
<1> QED BY <1>4, <1>5, <1>6, <1>7, <1>8

LEMMA HubServesCore ==
    ASSUME IInv, NEW b \in BOOLEAN,
           \/ Announce \/ ReAnnounce \/ ServeChunk \/ EchoOk \/ ServeSend(b)
           \/ Reclaim
    PROVE  Core'
<1> USE FrameFields DEF IInv, Core
<1>1. /\ hubPc = "serving" /\ downlink # <<>>
      /\ Head(downlink) \in Files /\ Head(downlink) \in Queued
      /\ UNCHANGED <<edgePc, pull, edgeWaiting, current_file, chunks, downlink,
                     lost, confirmed, sink, hubReboots>>
  <2>1. hubPc = "serving" /\ downlink # <<>> /\ downlink \in Seq(Files)
    BY DEF Announce, ReAnnounce, ServeChunk, EchoOk, ServeSend, Reclaim, Hears,
       Types, TypeOK, HubTypeOK
  <2>2. Head(downlink) \in Files
    BY <2>1, QueueFacts
  <2>3. Head(downlink) = downlink[1] /\ 1 \in DOMAIN downlink
    BY <2>1
  <2>4. UNCHANGED <<edgePc, pull, edgeWaiting, current_file, chunks, downlink,
                    lost, confirmed, sink, hubReboots>>
    BY DEF Announce, ReAnnounce, ServeChunk, EchoOk, ServeSend, Reclaim,
       TurnFrame, FromHub
  <2> QED BY <2>1, <2>2, <2>3, <2>4 DEF Queued
<1>2. /\ Once' /\ WholeDownlinks' /\ InOrder' /\ Queued' = Queued /\ Arrived' = Arrived
      /\ \A f : Owed(f) /\ (metadata_sent' => metadata_sent) => Owed(f)'
  BY <1>1, SameBooks
<1>3. Owed(Head(downlink)) /\ Owed(Head(downlink))'
  BY <1>1, <1>2 DEF Owed, HeadIs
<1>4. CASE Announce
  <2>1. /\ hubRx.kind = "METADATA" /\ edgeRx = NoFrame /\ edgePc # "reply"
        /\ pull # "PROCESS_CHUNK_STATE"
    BY <1>4 DEF Announce, Hears, OneAnswer, InStep
  <2> USE <1>4, <2>1 DEF Announce, Hears, TurnFrame
  <2>2. OneAnswer' /\ Control'
    BY <1>1 DEF OneAnswer, Control
  <2>3. InStep' /\ Announced'
    BY <1>1, <1>3 DEF InStep, Announced, FromTheHub, IsAnnouncement
  <2>4. TailServed'
    BY <1>1, <1>2 DEF TailServed, IsFinalOk, NoOk
  <2> QED BY <1>2, <2>2, <2>3, <2>4
<1>5. CASE ReAnnounce
  <2>1. /\ hubRx.kind = "CHUNK" /\ edgeRx = NoFrame /\ edgePc # "reply"
        /\ ~metadata_sent
    BY <1>5 DEF ReAnnounce, Hears, OneAnswer
  <2> USE <1>5, <2>1 DEF ReAnnounce, Hears, TurnFrame
  <2>2. OneAnswer' /\ Control'
    BY <1>1 DEF OneAnswer, Control
  <2>3. InStep' /\ Announced'
    BY <1>1, <1>2, <1>3
       DEF InStep, Prefix, Announced, FromTheHub, IsAnnouncement
  <2>4. TailServed'
    BY <1>1, <1>2 DEF TailServed, IsFinalOk, NoOk
  <2> QED BY <1>2, <2>2, <2>3, <2>4
<1>6. CASE ServeChunk
  <2>1. /\ hubRx.kind = "CHUNK" /\ edgeRx = NoFrame /\ edgePc # "reply"
        /\ metadata_sent
    BY <1>6 DEF ServeChunk, Hears, OneAnswer
  <2> USE <1>6, <2>1 DEF ServeChunk, Hears, TurnFrame
  <2>2. OneAnswer' /\ Control'
    BY <1>1 DEF OneAnswer, Control
  <2>3. pull = "PROCESS_CHUNK_STATE" => current_file = Head(downlink) /\ hubRx = ChunkAsk(Len(chunks))
    BY DEF InStep, Announced, Owed, HeadIs
  <2>4. InStep' /\ Announced'
    BY <1>1, <1>2, <2>3
       DEF InStep, Prefix, Announced, FromTheHub, IsAnnouncement
  <2>5. TailServed'
    BY <1>1 DEF TailServed, NoOk
  <2> QED BY <1>2, <2>2, <2>4, <2>5
<1>7. CASE EchoOk
  <2>1. hubRx.kind = "OK" /\ edgeRx = NoFrame /\ edgePc # "reply" /\ ~IsFinalOk
        /\ pull # "PROCESS_CHUNK_STATE"
    BY <1>7 DEF EchoOk, Hears, OneAnswer, InStep
  <2> USE <1>7, <2>1 DEF EchoOk, Hears, TurnFrame
  <2>2. OneAnswer' /\ Control'
    BY <1>1 DEF OneAnswer, Control
  <2>3. InStep' /\ Announced'
    BY <1>1 DEF InStep, Announced, FromTheHub, IsAnnouncement
  <2>4. TailServed'
    BY <1>1 DEF TailServed, IsFinalOk
  <2> QED BY <1>2, <2>2, <2>3, <2>4
<1>8. CASE ServeSend(b)
  <2>1. hubReply' = NoFrame /\ hubRx' = NoFrame /\ edgeRx' \in {edgeRx, hubReply}
        /\ UNCHANGED <<hubPc, metadata_sent, last_chunk_sent>>
    BY <1>8 DEF ServeSend, FromHub
  <2>2. OneAnswer' /\ Control'
    BY <1>1, <2>1 DEF OneAnswer, Control
  <2>3. InStep'
    BY <1>1, <2>1 DEF InStep, Prefix, FromTheHub, IsAnnouncement
  <2>4. Announced'
    BY <1>1, <1>2, <2>1 DEF Announced, FromTheHub, IsAnnouncement
  <2>5. TailServed'
    BY <1>1, <1>2, <2>1 DEF TailServed, IsFinalOk, NoOk
  <2> QED BY <1>2, <2>2, <2>3, <2>4, <2>5
<1>9. CASE Reclaim
  <2>1. hubReply = NoFrame /\ hubPc' = "visit" /\ ~metadata_sent' /\ last_chunk_sent' = 0
        /\ UNCHANGED <<hubReply, hubRx, edgeRx>>
    BY <1>9 DEF Reclaim
  <2>2. OneAnswer' /\ Control'
    BY <1>1, <2>1 DEF OneAnswer, Control
  <2>3. InStep' /\ Announced'
    BY <1>1, <1>2, <2>1
       DEF InStep, Prefix, Announced, FromTheHub, IsAnnouncement
  <2>4. TailServed'
    BY <2>1 DEF TailServed
  <2> QED BY <1>2, <2>2, <2>3, <2>4
<1> QED BY <1>4, <1>5, <1>6, <1>7, <1>8, <1>9

LEMMA QueueDownlinkCore ==
    ASSUME IInv, NEW f \in Files, QueueDownlink(f)
    PROVE  Core' /\ Queued' = Queued \cup {f}
<1> USE DEF IInv, Core, QueueDownlink
<1>1. downlink \in Seq(Files) /\ f \notin Queued
  BY DEF Types, TypeOK, HubTypeOK, Queued
<1>2. /\ Queued' = Queued \cup {f}
      /\ \A i, j \in DOMAIN downlink' : downlink'[i] = downlink'[j] => i = j
  BY <1>1, Pushed DEF Once, Queued
<1>3. downlink # <<>> => downlink' # <<>> /\ Head(downlink') = Head(downlink)
  BY <1>1, QueueFacts
<1>4. Once' /\ WholeDownlinks'
  BY <1>2 DEF Once, WholeDownlinks, Whole
<1>5. \A g : Owed(g) => Owed(g)'
  BY <1>2, <1>3 DEF Owed, HeadIs
<1>6. InOrder'
  BY <1>3 DEF InOrder, Consumed
<1>7. OneAnswer' /\ Control'
  BY DEF OneAnswer, Control
<1>8. InStep' /\ Announced'
  BY <1>5 DEF InStep, Prefix, Announced, FromTheHub, IsAnnouncement
<1>9. TailServed'
  BY <1>3 DEF TailServed, IsFinalOk, NoOk, Types, TypeOK, Arrived, Whole
<1> QED BY <1>2, <1>4, <1>6, <1>7, <1>8, <1>9

\* Nothing is announced or collected any more when a final-OK is heard.
LEMMA DeliveredQuiet ==
    ASSUME IInv, Delivered
    PROVE  /\ edgeRx = NoFrame /\ hubReply = NoFrame /\ edgePc # "reply"
           /\ pull # "PROCESS_CHUNK_STATE"
           /\ downlink # <<>> /\ downlink \in Seq(Files)
           /\ Head(downlink) \in Arrived
<1> USE FrameFields DEF IInv, Core, Delivered, Hears
<1>1. /\ edgeRx = NoFrame /\ hubReply = NoFrame /\ edgePc # "reply"
      /\ pull # "PROCESS_CHUNK_STATE"
  BY DEF OneAnswer, InStep
<1>2. downlink # <<>> /\ downlink \in Seq(Files)
  BY DEF Types, TypeOK, HubTypeOK
<1> QED BY <1>1, <1>2 DEF TailServed, NoOk

LEMMA DeliveredPops ==
    ASSUME IInv, Delivered
    PROVE  /\ Queued' = Queued \ {Head(downlink)}
           /\ \A i, j \in DOMAIN downlink' : downlink'[i] = downlink'[j] => i = j
           /\ Head(downlink) \in Queued
<1>1. \A i, j \in DOMAIN downlink : downlink[i] = downlink[j] => i = j
  BY DEF IInv, Core, Once
<1>2. downlink # <<>> /\ downlink \in Seq(Files)
  BY DeliveredQuiet
<1>3. downlink' = Tail(downlink)
  BY DEF Delivered
<1>4. /\ {Tail(downlink)[i] : i \in DOMAIN Tail(downlink)}
            = {downlink[i] : i \in DOMAIN downlink} \ {Head(downlink)}
      /\ \A i, j \in DOMAIN Tail(downlink) :
            Tail(downlink)[i] = Tail(downlink)[j] => i = j
      /\ Head(downlink) \in {downlink[i] : i \in DOMAIN downlink}
  BY <1>1, <1>2, Popped
<1> QED BY <1>3, <1>4 DEF Queued

LEMMA DeliveredCore ==
    ASSUME IInv, Delivered
    PROVE  Core'
<1> USE FrameFields, DeliveredQuiet DEF IInv, Core, Delivered, Hears
<1>1. /\ Queued' = Queued \ {Head(downlink)}
      /\ \A i, j \in DOMAIN downlink' : downlink'[i] = downlink'[j] => i = j
      /\ Head(downlink) \in Queued
  BY DeliveredPops
<1>2. Once' /\ WholeDownlinks'
  BY <1>1 DEF Once, WholeDownlinks, Whole
<1>3. InOrder'
  BY DEF InOrder, Consumed
<1>4. OneAnswer' /\ Control'
  BY DEF OneAnswer, Control
<1>5. InStep' /\ Announced' /\ TailServed'
  BY DEF InStep, Announced, TailServed, FromTheHub, IsAnnouncement
<1> QED BY <1>1, <1>2, <1>3, <1>4, <1>5

LEMMA HubRebootCore ==
    ASSUME IInv, HubReboot
    PROVE  Core' /\ (Queued \cup lost)' = Queued \cup lost
<1> USE FrameFields DEF IInv, Core, HubReboot
<1>1. Queued' = {} /\ lost' = lost \cup Queued /\ downlink' = <<>>
  BY DEF Queued
<1>2. Once' /\ WholeDownlinks'
  BY <1>1 DEF Once, WholeDownlinks, Whole
<1>3. hubReboots' # 0
  BY DEF Types, TypeOK, BoundTypeOK
<1>4. InOrder' /\ TailServed'
  BY <1>3 DEF InOrder, TailServed
<1>5. OneAnswer' /\ Control'
  BY DEF OneAnswer, Control
<1>6. InStep' /\ Announced'
  BY <1>1, <1>3 DEF InStep, Prefix, Announced, Owed, FromTheHub, IsAnnouncement
<1> QED BY <1>1, <1>2, <1>4, <1>5, <1>6

-----------------------------------------------------------------------------
(* The Edge's steps.                                                       *)

LEMMA EdgeAnswersCore ==
    ASSUME IInv, NEW b \in BOOLEAN,
           \/ AnswerPoll \/ NothingToServe \/ AnswerData \/ SendPollAnswer(b)
           \/ HonourGrant \/ IgnoreGrant
    PROVE  Core'
<1> USE FrameFields DEF IInv, Core
<1>1. /\ edgePc # "pull" /\ pull # "PROCESS_CHUNK_STATE" /\ pull' # "PROCESS_CHUNK_STATE"
      /\ edgeWaiting = NoFrame /\ edgeRx' = NoFrame
      /\ UNCHANGED <<hubVars, edgeWaiting, current_file, chunks, sink, hubReboots>>
  BY DEF Control, AnswerPoll, NothingToServe, AnswerData, SendPollAnswer,
     HonourGrant, IgnoreGrant, AtHome, FromEdge
<1>2. /\ Once' /\ WholeDownlinks' /\ InOrder' /\ Arrived' = Arrived
      /\ \A f : Owed(f) => Owed(f)'
  BY <1>1, SameBooks
<1>3. CASE SendPollAnswer(b)
  <2>1. /\ hubReply = NoFrame /\ edgePc = "reply" /\ edgePc' = "home"
        /\ hubRx' \in {hubRx, OkFrame}
    BY <1>3 DEF SendPollAnswer, FromEdge, OneAnswer
  <2>2. OneAnswer' /\ Control' /\ InStep' /\ Announced'
    BY <1>1, <1>2, <2>1 DEF OneAnswer, Control, InStep, Announced, FromTheHub
  <2>3. TailServed'
    BY <1>1, <1>2, <2>1 DEF TailServed, NoOk, IsFinalOk
  <2> QED BY <1>2, <2>2, <2>3
<1>4. CASE ~SendPollAnswer(b)
  <2>1. /\ edgeRx # NoFrame /\ hubRx = NoFrame /\ hubReply = NoFrame /\ hubRx' = hubRx
    BY <1>4 DEF AnswerPoll, NothingToServe, AnswerData, HonourGrant,
       IgnoreGrant, AtHome, OneAnswer
  <2>2. edgePc' = "reply" => edgeRx.kind = "OK"
    BY <1>4 DEF AnswerPoll, NothingToServe, AnswerData, HonourGrant,
       IgnoreGrant, AtHome
  <2>4. OneAnswer' /\ Control' /\ InStep' /\ Announced'
    BY <1>1, <1>2, <2>1 DEF OneAnswer, Control, InStep, Announced, FromTheHub
  <2>5. TailServed'
    BY <1>1, <1>2, <2>1, <2>2 DEF TailServed, NoOk, IsFinalOk
  <2> QED BY <1>2, <2>4, <2>5
<1> QED BY <1>3, <1>4

\* The rounds of a pull that collect nothing.
LEMMA EdgePullsCore ==
    ASSUME IInv, NEW b \in BOOLEAN,
           \/ PullMetadata(b) \/ PullData(b) \/ PullAnnounced
           \/ PullReAnnounced \/ Yield \/ PullUnanswered \/ Stall \/ EdgeReboot
    PROVE  Core'
<1> USE FrameFields DEF IInv, Core
<1>1. /\ UNCHANGED <<hubVars, sink, hubReboots>> /\ edgePc' # "reply"
      /\ edgePc = "pull" \/ EdgeReboot
  BY DEF PullMetadata, PullData, PullRound, PullAnnounced, PullReAnnounced,
     Yield, PullUnanswered, Stall, EdgeReboot, GoHome, PullHeard
<1>2. /\ Once' /\ WholeDownlinks' /\ InOrder' /\ Arrived' = Arrived
      /\ \A f : Owed(f) => Owed(f)'
  BY <1>1, SameBooks
<1>3. CASE PullMetadata(b) \/ PullData(b)
  <2>1. /\ edgePc = "pull" /\ edgeRx' = NoFrame
        /\ UNCHANGED <<edgePc, pull, current_file, chunks>>
        /\ \/ /\ pull = "REQUEST_DATA_STATE"
              /\ edgeWaiting' = MetadataAsk /\ hubRx' \in {hubRx, MetadataAsk}
           \/ /\ pull = "PROCESS_CHUNK_STATE"
              /\ edgeWaiting' = ChunkAsk(Len(chunks))
              /\ hubRx' \in {hubRx, ChunkAsk(Len(chunks))}
    BY <1>3 DEF PullMetadata, PullData, PullRound, FromEdge
  <2>2. OneAnswer' /\ Control'
    BY <1>1, <2>1 DEF OneAnswer, Control
  <2>3. InStep' /\ Announced'
    BY <1>1, <1>2, <2>1
       DEF InStep, Prefix, Announced, FromTheHub, IsAnnouncement
  <2>4. TailServed'
    BY <1>1, <1>2, <2>1 DEF TailServed, NoOk, IsFinalOk
  <2> QED BY <1>2, <2>2, <2>3, <2>4
<1>4. CASE PullAnnounced
  <2>1. /\ IsAnnouncement(edgeRx) /\ edgeRx.file \in Files
        /\ hubRx = NoFrame /\ hubReply = NoFrame /\ Owed(edgeRx.file)
    BY <1>4, FrameParts
       DEF PullAnnounced, PullHeard, OneAnswer, Announced, FromTheHub,
       IsAnnouncement, Types, TypeOK, FrameTypeOK, OptFile
  <2>2. /\ edgePc = "pull" /\ edgePc' = "pull" /\ pull' = "PROCESS_CHUNK_STATE"
        /\ current_file' = edgeRx.file /\ chunks' = <<>> /\ hubRx' = hubRx
        /\ edgeWaiting' = NoFrame /\ edgeRx' = NoFrame
    BY <1>4 DEF PullAnnounced, PullHeard
  <2>3. OneAnswer' /\ Control'
    BY <1>1, <2>1, <2>2 DEF OneAnswer, Control
  <2>4. Prefix'
    BY <2>1, <2>2, FilesAssumption DEF Prefix
  <2>5. InStep' /\ Announced'
    BY <1>1, <1>2, <2>1, <2>2, <2>4
       DEF InStep, Announced, FromTheHub, IsAnnouncement
  <2>6. TailServed'
    BY <1>1, <1>2, <2>1, <2>2 DEF TailServed, NoOk, IsFinalOk
  <2> QED BY <1>2, <2>3, <2>5, <2>6
<1>5. CASE PullReAnnounced \/ Yield \/ Stall \/ EdgeReboot
  <2>1. /\ pull' # "PROCESS_CHUNK_STATE" /\ edgeWaiting' = NoFrame
        /\ edgeRx' \in {edgeRx, NoFrame} /\ hubRx' = hubRx
    BY <1>5 DEF PullReAnnounced, Yield, Stall, EdgeReboot, GoHome
  <2>2. OneAnswer' /\ Control'
    BY <1>1, <2>1 DEF OneAnswer, Control
  <2>3. InStep' /\ Announced'
    BY <1>1, <1>2, <2>1 DEF InStep, Announced, FromTheHub, IsAnnouncement
  <2>4. TailServed'
    BY <1>1, <1>2, <2>1 DEF TailServed, NoOk, IsFinalOk
  <2> QED BY <1>2, <2>2, <2>3, <2>4
<1>6. CASE PullUnanswered
  <2>1. /\ edgeWaiting' = NoFrame /\ edgeRx' = NoFrame
        /\ UNCHANGED <<hubRx, edgePc, pull, current_file, chunks>>
    BY <1>6 DEF PullUnanswered
  <2>2. OneAnswer' /\ Control'
    BY <1>1, <2>1 DEF OneAnswer, Control
  <2>3. InStep' /\ Announced'
    BY <1>1, <1>2, <2>1
       DEF InStep, Prefix, Announced, FromTheHub, IsAnnouncement
  <2>4. TailServed'
    BY <1>1, <1>2, <2>1 DEF TailServed, NoOk, IsFinalOk
  <2> QED BY <1>2, <2>2, <2>3, <2>4
<1> QED BY <1>3, <1>4, <1>5, <1>6

\* The steps that place a chunk.
LEMMA CollectCore ==
    ASSUME IInv, PullChunk \/ PullSinkFails
    PROVE  Core'
<1> USE FrameFields DEF IInv, Core
<1>1. GotChunk /\ edgePc' = "pull" /\ edgeWaiting' = NoFrame /\ edgeRx' = NoFrame
      /\ UNCHANGED <<hubVars, hubRx, sink, hubReboots, current_file>> /\ chunks' = Placed
  BY DEF PullChunk, PullSinkFails, GotChunk, PullHeard
<1>2. /\ Once' /\ WholeDownlinks' /\ InOrder' /\ Arrived' = Arrived
      /\ \A f : Owed(f) => Owed(f)'
  BY <1>1, SameBooks
<1>3. OneAnswer' /\ Control'
  BY <1>1, NextChunk DEF OneAnswer, Control
<1>4. pull' = "PROCESS_CHUNK_STATE" => Prefix'
  <2>1. pull' = "PROCESS_CHUNK_STATE" => ~IsLast
    BY DEF PullChunk, PullSinkFails
  <2> QED BY <1>1, <2>1, NextChunk, FilesAssumption DEF Prefix, IsLast
<1>5. InStep' /\ Announced'
  BY <1>1, <1>2, <1>4, NextChunk
     DEF InStep, Announced, FromTheHub, IsAnnouncement
<1>6. TailServed'
  BY <1>1, <1>2, NextChunk DEF TailServed, NoOk, IsFinalOk
<1> QED BY <1>2, <1>3, <1>5, <1>6

LEMMA PullDoneCore ==
    ASSUME IInv, NEW b \in BOOLEAN, PullDone(b)
    PROVE  /\ Core'
           /\ Arrived' = Arrived \cup {current_file}
           /\ current_file \in Files /\ Owed(current_file)
<1> USE FrameFields DEF IInv, Core
<1>1. GotChunk /\ IsLast /\ edgePc' = "home" /\ edgeWaiting' = NoFrame /\ edgeRx' = NoFrame
      /\ hubRx' \in {hubRx, OkFrame} /\ pull' = "OK"
      /\ UNCHANGED <<hubVars, hubReboots>>
  BY DEF PullDone, GoHome, FromEdge
<1> DEFINE s == [file |-> current_file, chunks |-> Placed]
<1>2. s = Whole(current_file) /\ s.file = current_file /\ current_file \in Files
  BY <1>1, LastChunk
<1>3. sink' = sink \cup {s}
  BY DEF PullDone
<1> HIDE DEF s
<1>4. Owed(current_file)
  BY <1>1, NextChunk DEF Announced
<1>5. \A f \in Files : Whole(f)' = Whole(f) /\ (s = Whole(f) <=> f = current_file)
  BY <1>2 DEF Whole
<1>6. Arrived' = Arrived \cup {current_file}
  BY <1>2, <1>3, <1>5 DEF Arrived
<1>7. WholeDownlinks'
  <2>1. ASSUME NEW a \in sink' PROVE (a = Whole(a.file))'
    BY <1>2, <1>3, <2>1 DEF WholeDownlinks, Whole
  <2> QED BY <2>1 DEF WholeDownlinks
<1>8. InOrder'
  <2>1. Consumed' = Consumed \cup {current_file}
    BY <1>2, <1>3 DEF Consumed
  <2> QED BY <1>1, <1>4, <2>1 DEF InOrder, Owed, HeadIs
<1>9. Once' /\ OneAnswer' /\ Control'
  BY <1>1, NextChunk DEF Once, Queued, OneAnswer, Control
<1>10. InStep' /\ Announced'
  BY <1>1, NextChunk DEF InStep, Announced, FromTheHub, IsAnnouncement
<1>11. TailServed'
  <2>1. ASSUME hubPc = "serving", IsFinalOk PROVE Head(downlink) = current_file
    <3>1. downlink # <<>> /\ Head(downlink) \in Files
      BY <2>1, QueueFacts DEF Types, TypeOK, HubTypeOK
    <3>2. last_chunk_sent # 0
      BY <2>1, <3>1, FilesAssumption DEF IsFinalOk
    <3> QED BY <3>2, <1>4 DEF Control, Owed, HeadIs
  <2> QED BY <1>1, <1>6, <2>1 DEF TailServed, IsFinalOk
<1> QED BY <1>2, <1>4, <1>6, <1>7, <1>8, <1>9, <1>10, <1>11

-----------------------------------------------------------------------------
(* The invariant holds, and what follows from it.                          *)

LEMMA InitInv == ASSUME Init PROVE IInv
<1> USE FrameFields DEF Init
<1>1. Types
  BY InitTypes
<1>2. OneAnswer /\ Control /\ InStep /\ Announced /\ TailServed
  BY DEF OneAnswer, Control, InStep, Announced, TailServed, FromTheHub,
     IsAnnouncement
<1>3. Once /\ WholeDownlinks /\ InOrder
  BY DEF Once, Queued, WholeDownlinks, InOrder, Consumed
<1> QED BY <1>1, <1>2, <1>3 DEF IInv, Core

LEMMA StutterInv == ASSUME IInv, UNCHANGED vars PROVE IInv'
<1>1. Types'
  BY DEF IInv, Types, TypeOK, HubTypeOK, EdgeTypeOK, FrameTypeOK, BoundTypeOK,
     Frames
<1>2. /\ Once' /\ WholeDownlinks' /\ InOrder' /\ Arrived' = Arrived
      /\ \A f : Owed(f) => Owed(f)'
  BY SameBooks
<1>3. Core'
  BY <1>2 DEF IInv, Core, OneAnswer, Control, InStep, Prefix, Announced,
     TailServed,
     NoOk, IsFinalOk, FromTheHub, IsAnnouncement
<1> QED BY <1>1, <1>3 DEF IInv

LEMMA StepInv == ASSUME IInv, [Next]_vars PROVE IInv'
<1> USE DEF IInv
<1>1. CASE Hub \/ HubReboot
  <2>1. ASSUME NEW f \in Files, QueueDownlink(f) PROVE Core'
    BY <2>1, QueueDownlinkCore
  <2>2. ASSUME NEW b \in BOOLEAN, Grant(b) \/ AskOk(b) \/ AskMetadata(b) \/ ClosingPoll(b)
        PROVE  IInv'
    BY <2>2, HubDrivesTypes, HubDrivesCore
  <2>3. ASSUME NEW b \in BOOLEAN, ServeSend(b) PROVE IInv'
    BY <2>3, HubServesTypes, HubServesCore
  <2>4. CASE BeginVisit \/ PollHeard \/ PollUnheard \/ EndVisit \/ ClosingOver
    BY <2>4, HubDrivesTypes, HubDrivesCore
  <2>5. CASE Announce \/ ReAnnounce \/ ServeChunk \/ EchoOk \/ Reclaim
    BY <2>5, HubServesTypes, HubServesCore
  <2>6. CASE Delivered \/ HubReboot \/ \E f \in Files : QueueDownlink(f)
    BY <2>1, <2>6, HubServesTypes, DeliveredCore, HubRebootCore
  <2> QED BY <1>1, <2>2, <2>3, <2>4, <2>5, <2>6 DEF Hub
<1>2. CASE Edge \/ EdgeReboot
  <2>1. ASSUME NEW b \in BOOLEAN, SendPollAnswer(b) PROVE IInv'
    BY <2>1, EdgeAnswersTypes, EdgeAnswersCore
  <2>2. ASSUME NEW b \in BOOLEAN, PullMetadata(b) \/ PullData(b) PROVE IInv'
    BY <2>2, EdgePullsTypes, EdgePullsCore
  <2>3. ASSUME NEW b \in BOOLEAN, PullDone(b) PROVE IInv'
    BY <2>3, CollectTypes, PullDoneCore
  <2>4. CASE AnswerPoll \/ NothingToServe \/ AnswerData \/ HonourGrant \/ IgnoreGrant
    BY <2>4, EdgeAnswersTypes, EdgeAnswersCore
  <2>5. CASE \/ PullAnnounced \/ PullReAnnounced \/ Yield \/ PullUnanswered
             \/ Stall \/ EdgeReboot
    BY <2>5, EdgePullsTypes, EdgePullsCore
  <2>6. CASE PullChunk \/ PullSinkFails
    BY <2>6, CollectTypes, CollectCore
  <2> QED BY <1>2, <2>1, <2>2, <2>3, <2>4, <2>5, <2>6 DEF Edge
<1>3. CASE UNCHANGED vars
  BY <1>3, StutterInv
<1> QED BY <1>1, <1>2, <1>3 DEF Next

LEMMA Invariance == Spec => []IInv
<1>1. Init => IInv
  BY InitInv
<1>2. IInv /\ [Next]_vars => IInv'
  BY StepInv
<1> QED BY <1>1, <1>2, PTL DEF Spec

\* Every variable holds what it is declared to, whatever is lost, late or
\* rebooted: the delegation counter and the backoff stay in their ranges, and
\* a Hub serves only while something is queued.
THEOREM DelegationTypes == Spec => []TypeOK
<1>1. IInv => TypeOK
  BY DEF IInv, Types
<1> QED BY <1>1, Invariance, PTL

\* Each artifact the Edge's sink consumes is one file, byte for byte, even
\* from a Hub that restarts in the middle of a pull and grants another file.
THEOREM DownlinksAreWhole == Spec => []WholeDownlinks
<1>1. IInv => WholeDownlinks
  BY DEF IInv, Core
<1> QED BY <1>1, Invariance, PTL

\* While the Hub stays up nothing overtakes a file whose final-OK is missing.
THEOREM DownlinksInOrder == Spec => []InOrder
<1>1. IInv => InOrder
  BY DEF IInv, Core
<1> QED BY <1>1, Invariance, PTL

-----------------------------------------------------------------------------
(* The downlink queue implements Delivery.                                 *)

LEMMA PromiseStep ==
    ASSUME IInv, [Next]_vars
    PROVE  [Promise!Next]_(Promise!vars)
<1> USE DEF IInv, Core
<1> DEFINE owed == Queued \cup lost
<1>0. owed' = owed /\ Arrived' = Arrived /\ confirmed' = confirmed => UNCHANGED Promise!vars
  BY DEF Promise!vars, Queued
<1>1. ASSUME NEW f \in Files, QueueDownlink(f)
      PROVE  Promise!Accept(f) \/ UNCHANGED Promise!vars
  <2>1. /\ Queued' = Queued \cup {f} /\ lost' = lost \ {f} /\ f \notin Queued
        /\ f \notin confirmed
    BY <1>1, QueueDownlinkCore DEF QueueDownlink, Queued
  <2>2. Arrived' = Arrived /\ confirmed' = confirmed
    BY <1>1 DEF QueueDownlink, Arrived, Whole
  <2>3. owed' = owed \cup {f}
    BY <2>1
  <2>4. CASE f \in lost
    <3>1. owed' = owed
      BY <2>3, <2>4
    <3> QED BY <1>0, <2>2, <3>1
  <2>5. CASE f \notin lost
    BY <2>1, <2>2, <2>3, <2>5 DEF Promise!Accept, Queued
  <2> QED BY <2>4, <2>5
<1>2. ASSUME NEW f \in Files, f = current_file, NEW b \in BOOLEAN, PullDone(b)
      PROVE  Promise!Deliver(f)
  <2>1. Arrived' = Arrived \cup {f} /\ f \in owed
    BY <1>2, PullDoneCore DEF Owed
  <2>2. owed' = owed /\ confirmed' = confirmed
    BY <1>2 DEF PullDone, Queued
  <2> QED BY <2>1, <2>2 DEF Promise!Deliver, Queued
<1>3. ASSUME NEW f \in Files, f = Head(downlink), Delivered PROVE Promise!Credit(f)
  <2>1. Queued' = Queued \ {f} /\ f \in Queued /\ f \in Arrived /\ f \notin lost
    BY <1>3, DeliveredPops, DeliveredQuiet DEF Once
  <2>2. Arrived' = Arrived /\ confirmed' = confirmed \cup {f} /\ lost' = lost
    BY <1>3 DEF Delivered, Hears, Arrived, Whole
  <2>3. owed' = owed \ {f}
    BY <2>1, <2>2
  <2> QED BY <2>1, <2>2, <2>3 DEF Promise!Credit, Queued
<1>4. ASSUME HubReboot PROVE UNCHANGED Promise!vars
  <2>1. owed' = owed
    BY <1>4, HubRebootCore
  <2>2. Arrived' = Arrived /\ confirmed' = confirmed
    BY <1>4 DEF HubReboot, Arrived, Whole
  <2> QED BY <1>0, <2>1, <2>2
<1>5. ASSUME Next \/ UNCHANGED vars, ~HubReboot, ~Delivered, \A b \in BOOLEAN : ~PullDone(b),
             \A f \in Files : ~QueueDownlink(f)
      PROVE  UNCHANGED <<downlink, lost, confirmed, sink>>
  BY <1>5 DEF Next, Hub, Edge, BeginVisit, PollHeard, PollUnheard, EndVisit,
     ClosingOver, Announce, ReAnnounce, ServeChunk, EchoOk, Reclaim, Grant, AskOk,
     AskMetadata, PollRound, ClosingPoll, ServeSend, TurnFrame, AnswerPoll,
     NothingToServe, AnswerData, HonourGrant, IgnoreGrant, PullAnnounced,
     PullReAnnounced, Yield, PullChunk, PullSinkFails, PullUnanswered, Stall,
     SendPollAnswer, PullMetadata, PullData, PullRound, EdgeReboot
<1>6. UNCHANGED <<downlink, lost, confirmed, sink>> => UNCHANGED Promise!vars
  BY DEF Promise!vars, Arrived, Whole
<1>7. ASSUME NEW b \in BOOLEAN, PullDone(b) PROVE Promise!Next
  <2>1. current_file \in Files
    BY <1>7, PullDoneCore
  <2> QED BY <1>2, <1>7, <2>1 DEF Promise!Next
<1>8. ASSUME Delivered PROVE Promise!Next
  <2>1. Head(downlink) \in Files
    BY <1>8, DeliveredQuiet, QueueFacts
  <2> QED BY <1>3, <1>8, <2>1 DEF Promise!Next
<1>9. ASSUME NEW f \in Files, QueueDownlink(f) PROVE [Promise!Next]_(Promise!vars)
  BY <1>1, <1>9 DEF Promise!Next
<1> QED BY <1>4, <1>5, <1>6, <1>7, <1>8, <1>9

\* The downlink queue keeps the promise of Delivery: a file is confirmed only
\* once the Edge's sink has it whole, through any number of losses, early
\* timeouts and restarts on both sides.
THEOREM DownlinkKeepsPromise == Spec => KeepsPromise
<1>1. Init => Promise!Init
  BY DEF Init, Promise!Init, Arrived
<1>2. IInv /\ [Next]_vars => [Promise!Next]_(Promise!vars)
  BY PromiseStep
<1> QED BY <1>1, <1>2, Invariance, PTL DEF Spec, KeepsPromise, Promise!Spec
=============================================================================
