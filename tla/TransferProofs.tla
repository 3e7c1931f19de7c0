--------------------------- MODULE TransferProofs ---------------------------
(***************************************************************************)
(* Theorems about Transfer for every value of its constants: any number of *)
(* files, of any number of chunks, any failure bounds, any tuning.         *)
(*                                                                         *)
(* The argument rests on one fact about the radios (OneAnswer): as soon as *)
(* an answer has landed at the Hub, nothing the Hub asked before is still  *)
(* waiting at the Edge, for the Edge's receiver was cleared by sending it. *)
(* The Hub only moves on when an answer lands, so while a file is being    *)
(* collected every request and every answer in flight is about its next    *)
(* missing chunk (InStep), and the Edge serves no other file as announced. *)
(***************************************************************************)
EXTENDS Transfer, SequenceTheorems, TLAPS

-----------------------------------------------------------------------------
(* Type correctness.  The types alone are not inductive: that an answer    *)
(* names a file, that a chunk is asked for only while a reassembly is open *)
(* and that a silent visit is settled before the counter passes its limit  *)
(* are carried along (Frames, OneAnswer, HubControl).                      *)

InFlight == {reply, hubRx}

\* Frames are well formed and the Edge's answers name a file.
Frames ==
    /\ \A p \in {reply, hubRx, edgeRx, waiting} : p.kind = "NONE" => p = NoFrame
    /\ \A p \in InFlight : /\ p.kind # "CHUNK"
                           /\ p.kind \in {"METADATA", "DATA"} => p.file \in Files

\* An answer is computed only between hearing and sending; once it has landed
\* the Edge has nothing left to answer.
OneAnswer ==
    /\ edgePc # "reply" => reply = NoFrame
    /\ hubRx # NoFrame => edgeRx = NoFrame /\ reply = NoFrame

\* The Hub's control state: which request can be out in which state.
HubControl ==
    /\ ~polled => silent < RecoveryAfter
    /\ hubPc = "closing" => state = "REQUEST_DATA_STATE"
    /\ waiting.kind = "CHUNK" => state = "PROCESS_CHUNK_STATE"
    /\ waiting # NoFrame => hubPc # "between"
    /\ state = "PROCESS_CHUNK_STATE" => current_file \in Files

TypeInv == TypeOK /\ Frames /\ OneAnswer /\ HubControl

USE DEF vars, edgeVars, hubVars, visitVars, recoveryVars, collectVars,
   boundVars

-----------------------------------------------------------------------------
(* What the frames and the boundary's queue are made of.                   *)

LEMMA FrameTypes ==
    /\ NoFrame \in Frame /\ OkFrame \in Frame /\ MetadataAsk \in Frame
    /\ \A i \in Nat : ChunkAsk(i) \in Frame
    /\ \A f \in Files : Announcement(f) \in Frame
    /\ \A f \in Files, i \in Nat : DataFrame(f, i) \in Frame
BY DEF Frame, NoFrame, OkFrame, MetadataAsk, Bare, ChunkAsk, Announcement,
       DataFrame, OptFile

LEMMA FrameFields ==
    /\ NoFrame.kind = "NONE" /\ OkFrame.kind = "OK"
    /\ MetadataAsk.kind = "METADATA"
    /\ \A i : ChunkAsk(i).kind = "CHUNK" /\ ChunkAsk(i).idx = i
    /\ \A f : Announcement(f).kind = "METADATA" /\ Announcement(f).file = f
    /\ \A f, i : /\ DataFrame(f, i).kind = "DATA"
                 /\ DataFrame(f, i).file = f /\ DataFrame(f, i).idx = i
BY DEF NoFrame, OkFrame, MetadataAsk, Bare, ChunkAsk, Announcement, DataFrame

LEMMA FrameParts == ASSUME NEW p \in Frame PROVE p.file \in OptFile /\ p.idx \in Nat
BY DEF Frame

LEMMA QueueFront ==
    ASSUME NEW q \in Seq(Files)
    PROVE  /\ <<>> \in Seq(Files) /\ Len(<<>>) = 0 /\ Len(q) \in Nat
           /\ q # <<>> => /\ Head(q) \in Files
                          /\ Tail(q) \in Seq(Files)
                          /\ Len(Tail(q)) = Len(q) - 1
BY EmptySeq, LenProperties, HeadTailProperties

LEMMA QueueBack ==
    ASSUME NEW q \in Seq(Files), NEW f \in Files
    PROVE  /\ Append(q, f) \in Seq(Files)
           /\ Len(Append(q, f)) = Len(q) + 1
           /\ q # <<>> => Append(q, f) # <<>> /\ Head(Append(q, f)) = Head(q)
OBVIOUS

LEMMA MadeRoomFacts ==
    ASSUME EdgeTypeOK
    PROVE  /\ MadeRoom \in Seq(Files)
           /\ Len(MadeRoom) < QueueLimit
<1> USE TuningAssumption DEF EdgeTypeOK, QueueLimit
<1>1. CASE Len(queue) < QueueSize
  BY <1>1 DEF MadeRoom
<1>2. CASE Len(queue) >= QueueSize /\ ~Durable
  BY <1>2, QueueFront DEF MadeRoom, PopOldest
<1>3. CASE Len(queue) >= QueueSize /\ Durable
  <2> DEFINE lent   == IF file = Head(queue) THEN 1 ELSE 0
             excess == Len(queue) - QueueSize + 1
             kept   == SubSeq(queue, 1, lent)
             rest   == SubSeq(queue, lent + excess + 1, Len(queue))
  <2>1. MadeRoom = kept \o rest
    <3>1. MadeRoom = EvictAroundHead
      BY <1>3 DEF MadeRoom
    <3>2. EvictAroundHead = kept \o rest
      BY Zenon DEF EvictAroundHead
    <3> QED BY <3>1, <3>2
  <2>2. lent \in 0..1 /\ excess \in Nat \ {0} /\ lent <= Len(queue)
    BY <1>3
  <2>2a. excess = Len(queue) - QueueSize + 1 /\ Len(queue) \in Nat
    OBVIOUS
  <2>3. kept \in Seq(Files) /\ Len(kept) = lent
    <3>1. \A i \in 1..lent : queue[i] \in Files
      BY <2>2
    <3> HIDE DEF lent
    <3> QED BY <3>1, <2>2, SubSeqProperties
  <2>4. /\ rest \in Seq(Files)
        /\ Len(rest) = IF lent + excess + 1 <= Len(queue)
                       THEN Len(queue) - lent - excess ELSE 0
    <3> DEFINE m == lent + excess + 1
    <3>1. m \in Nat /\ m >= 1
      BY <2>2
    <3>2. \A i \in m..Len(queue) : queue[i] \in Files
      BY <3>1
    <3>3. SubSeq(queue, m, Len(queue)) \in Seq(Files)
      /\ Len(SubSeq(queue, m, Len(queue))) = IF m <= Len(queue) THEN Len(queue) - m + 1 ELSE 0
      <4> HIDE DEF m
      <4> QED BY <3>1, <3>2, SubSeqProperties
    <3> QED BY <3>3, <2>2
  <2>5. MadeRoom \in Seq(Files) /\ Len(MadeRoom) = Len(kept) + Len(rest)
    <3> HIDE DEF kept, rest
    <3> QED BY <2>1, <2>3, <2>4, ConcatProperties
  <2> HIDE DEF kept, rest, lent, excess
  <2>7. Len(MadeRoom) < QueueLimit
    BY <1>3, <2>2, <2>2a, <2>3, <2>4, <2>5
  <2> QED BY <1>3, <2>5, <2>7
<1> QED BY <1>1, <1>2, <1>3

-----------------------------------------------------------------------------
(* The Edge's steps.                                                       *)

LEMMA EnqueueTypes ==
    ASSUME TypeInv, NEW f \in Files, Enqueue(f)
    PROVE  TypeInv'
<1> USE FrameFields DEF TypeInv, TypeOK, InFlight, Enqueue
<1>1. TypeOK'
  <2>1. EdgeTypeOK'
    <3>1. /\ MadeRoom \in Seq(Files)
          /\ Len(MadeRoom) < QueueLimit
      BY MadeRoomFacts
    <3>2. queue' \in Seq(Files) /\ Len(queue') = Len(MadeRoom) + 1
      BY <3>1, QueueBack
    <3>3. Len(MadeRoom) \in Nat
      BY <3>1, QueueFront
    <3>4. QueueLimit \in Nat
      BY TuningAssumption DEF QueueLimit
    <3> QED BY <3>1, <3>2, <3>3, <3>4 DEF EdgeTypeOK
  <2>2. FrameTypeOK'
    BY FrameTypes DEF FrameTypeOK
  <2>3. HubTypeOK' /\ BoundTypeOK'
    BY DEF HubTypeOK, BoundTypeOK
  <2> QED BY <2>1, <2>2, <2>3
<1>2. Frames' /\ OneAnswer' /\ HubControl'
  BY DEF Frames, OneAnswer, HubControl
<1> QED BY <1>1, <1>2

LEMMA PumpTypes ==
    ASSUME TypeInv, Pump
    PROVE  TypeInv'
<1> USE FrameFields DEF TypeInv, TypeOK, InFlight, Pump
<1>1. TypeOK'
  <2>0. /\ <<>> \in Seq(Files) /\ Len(<<>>) = 0 /\ Len(queue) \in Nat
        /\ queue # <<>> => /\ Head(queue) \in Files
                           /\ Tail(queue) \in Seq(Files)
                           /\ Len(Tail(queue)) = Len(queue) - 1
    BY QueueFront DEF EdgeTypeOK
  <2>1. EdgeTypeOK'
    BY TuningAssumption, <2>0 DEF EdgeTypeOK, OptFile
  <2>2. FrameTypeOK'
    BY FrameTypes DEF FrameTypeOK
  <2>3. HubTypeOK' /\ BoundTypeOK'
    BY DEF HubTypeOK, BoundTypeOK
  <2> QED BY <2>1, <2>2, <2>3
<1>2. Frames' /\ OneAnswer' /\ HubControl'
  BY DEF Frames, OneAnswer, HubControl
<1> QED BY <1>1, <1>2

LEMMA ListenTimeoutTypes ==
    ASSUME TypeInv, ListenTimeout
    PROVE  TypeInv'
<1> USE FrameFields DEF TypeInv, TypeOK, InFlight, ListenTimeout
<1>1. TypeOK'
  BY FrameTypes, FrameParts DEF EdgeTypeOK, FrameTypeOK, HubTypeOK,
     BoundTypeOK
<1>2. Frames' /\ OneAnswer' /\ HubControl'
  BY DEF Frames, OneAnswer, HubControl
<1> QED BY <1>1, <1>2

LEMMA CannotOpenTypes ==
    ASSUME TypeInv, CannotOpen
    PROVE  TypeInv'
<1> USE FrameFields DEF TypeInv, TypeOK, InFlight, CannotOpen, Silence
<1>1. TypeOK'
  BY FrameTypes, FrameParts DEF EdgeTypeOK, FrameTypeOK, HubTypeOK,
     BoundTypeOK
<1>2. Frames' /\ OneAnswer' /\ HubControl'
  BY DEF Frames, OneAnswer, HubControl
<1> QED BY <1>1, <1>2

LEMMA NothingToServeTypes ==
    ASSUME TypeInv, NothingToServe
    PROVE  TypeInv'
<1> USE FrameFields DEF TypeInv, TypeOK, InFlight, NothingToServe, Hears,
           Silence
<1>1. TypeOK'
  BY FrameTypes, FrameParts DEF EdgeTypeOK, FrameTypeOK, HubTypeOK,
     BoundTypeOK
<1>2. Frames' /\ OneAnswer' /\ HubControl'
  BY DEF Frames, OneAnswer, HubControl
<1> QED BY <1>1, <1>2

LEMMA ReAnnounceTypes ==
    ASSUME TypeInv, ReAnnounce
    PROVE  TypeInv'
<1> USE FrameFields DEF TypeInv, TypeOK, InFlight, ReAnnounce, Hears, Answer
<1>1. TypeOK'
  BY FrameTypes DEF EdgeTypeOK, FrameTypeOK, HubTypeOK, BoundTypeOK, OptFile
<1>2. Frames' /\ OneAnswer' /\ HubControl'
  BY DEF Frames, OneAnswer, EdgeTypeOK, OptFile, HubControl
<1> QED BY <1>1, <1>2

LEMMA ServeChunkTypes ==
    ASSUME TypeInv, ServeChunk
    PROVE  TypeInv'
<1> USE FrameFields DEF TypeInv, TypeOK, InFlight, ServeChunk, Hears, Answer
<1>1. TypeOK'
  BY FrameTypes, FrameParts DEF EdgeTypeOK, FrameTypeOK, HubTypeOK,
     BoundTypeOK, OptFile
<1>2. Frames' /\ OneAnswer' /\ HubControl'
  BY DEF Frames, OneAnswer, EdgeTypeOK, OptFile, HubControl
<1> QED BY <1>1, <1>2

LEMMA ServeMetadataTypes ==
    ASSUME TypeInv, ServeMetadata
    PROVE  TypeInv'
<1> USE FrameFields DEF TypeInv, TypeOK, InFlight, ServeMetadata, Hears,
           Answer
<1>1. TypeOK'
  BY FrameTypes DEF EdgeTypeOK, FrameTypeOK, HubTypeOK, BoundTypeOK, OptFile
<1>2. Frames' /\ OneAnswer' /\ HubControl'
  BY DEF Frames, OneAnswer, EdgeTypeOK, OptFile, HubControl
<1> QED BY <1>1, <1>2

LEMMA AnswerPollTypes ==
    ASSUME TypeInv, AnswerPoll
    PROVE  TypeInv'
<1> USE FrameFields DEF TypeInv, TypeOK, InFlight, AnswerPoll, Hears, Answer
<1>1. TypeOK'
  BY FrameTypes, FrameParts DEF EdgeTypeOK, FrameTypeOK, HubTypeOK,
     BoundTypeOK
<1>2. Frames' /\ OneAnswer' /\ HubControl'
  BY DEF Frames, OneAnswer, HubControl
<1> QED BY <1>1, <1>2

LEMMA FinalOkTypes ==
    ASSUME TypeInv, FinalOk
    PROVE  TypeInv'
<1> USE FrameFields DEF TypeInv, TypeOK, InFlight, FinalOk, Hears, Silence
<1>1. TypeOK'
  <2>1. EdgeTypeOK'
    <3>1. queue' \in Seq(Files) /\ Len(queue') <= Len(queue) /\ Len(queue') \in Nat
      BY QueueFront DEF EdgeTypeOK
    <3>2. file \in Files /\ NoFile \in OptFile
      BY DEF IsFinalOk, EdgeTypeOK, OptFile
    <3>3. Len(queue) \in Nat /\ QueueLimit \in Nat
      BY QueueFront, TuningAssumption DEF EdgeTypeOK, QueueLimit
    <3>4. Len(queue') <= QueueLimit
      BY <3>1, <3>3 DEF EdgeTypeOK
    <3>5. edgePc' \in {"pump", "listen", "reply"} /\ produced' \subseteq Files
      BY DEF EdgeTypeOK
    <3>6. metadata_sent' \in BOOLEAN /\ edgeSession' \in BOOLEAN
      BY DEF EdgeTypeOK
    <3>7. file' \in OptFile /\ last_chunk_sent' \in Nat /\ retired' \subseteq Files
      BY <3>2 DEF EdgeTypeOK
    <3> HIDE DEF FinalOk
    <3> QED BY <3>1, <3>4, <3>5, <3>6, <3>7 DEF EdgeTypeOK, QueueLimit
  <2>2. FrameTypeOK'
    BY FrameTypes DEF FrameTypeOK
  <2>3. HubTypeOK' /\ BoundTypeOK'
    BY DEF HubTypeOK, BoundTypeOK
  <2> QED BY <2>1, <2>2, <2>3
<1>2. Frames' /\ OneAnswer' /\ HubControl'
  BY DEF Frames, OneAnswer, HubControl
<1> QED BY <1>1, <1>2

LEMMA SendReplyTypes ==
    ASSUME TypeInv, NEW b \in BOOLEAN, SendReply(b)
    PROVE  TypeInv'
<1> USE FrameFields DEF TypeInv, TypeOK, InFlight, SendReply, Arrives, Lost
<1>1. TypeOK'
  BY FrameTypes, FrameParts DEF EdgeTypeOK, FrameTypeOK, HubTypeOK,
     BoundTypeOK
<1>2. Frames' /\ OneAnswer' /\ HubControl'
  BY DEF Frames, OneAnswer, HubControl
<1> QED BY <1>1, <1>2

LEMMA EdgeRebootTypes ==
    ASSUME TypeInv, EdgeReboot
    PROVE  TypeInv'
<1> USE FrameFields DEF TypeInv, TypeOK, InFlight, EdgeReboot
<1>1. TypeOK'
  <2>1. EdgeTypeOK'
    <3>1. queue' \in Seq(Files) /\ Len(queue') <= Len(queue) /\ Len(queue') \in Nat
      BY QueueFront DEF EdgeTypeOK
    <3>2. NoFile \in OptFile /\ Len(queue) \in Nat
      BY QueueFront DEF EdgeTypeOK, OptFile
    <3>3. QueueLimit \in Nat
      BY TuningAssumption DEF QueueLimit
    <3>4. Len(queue') <= QueueLimit
      BY <3>1, <3>2, <3>3 DEF EdgeTypeOK
    <3>5. edgePc' \in {"pump", "listen", "reply"} /\ produced' \subseteq Files
      BY DEF EdgeTypeOK
    <3>6. metadata_sent' \in BOOLEAN /\ edgeSession' \in BOOLEAN
      BY DEF EdgeTypeOK
    <3>7. file' \in OptFile /\ last_chunk_sent' \in Nat /\ retired' \subseteq Files
      BY <3>2 DEF EdgeTypeOK
    <3> HIDE DEF EdgeReboot
    <3> QED BY <3>1, <3>4, <3>5, <3>6, <3>7 DEF EdgeTypeOK, QueueLimit
  <2>2. FrameTypeOK'
    BY FrameTypes DEF FrameTypeOK
  <2>3. HubTypeOK' /\ BoundTypeOK'
    BY TuningAssumption DEF HubTypeOK, BoundTypeOK
  <2> QED BY <2>1, <2>2, <2>3
<1>2. Frames' /\ OneAnswer' /\ HubControl'
  BY DEF Frames, OneAnswer, HubControl
<1> QED BY <1>1, <1>2

-----------------------------------------------------------------------------
(* The Hub's steps.                                                        *)

LEMMA BeginVisitTypes ==
    ASSUME TypeInv, BeginVisit
    PROVE  TypeInv'
<1> USE FrameFields DEF TypeInv, TypeOK, InFlight, BeginVisit
<1>1. TypeOK'
  <2>1. EdgeTypeOK' /\ BoundTypeOK'
    BY DEF EdgeTypeOK, BoundTypeOK
  <2>2. FrameTypeOK'
    BY FrameTypes DEF FrameTypeOK
  <2>3. HubTypeOK'
    BY DEF HubTypeOK
  <2> QED BY <2>1, <2>2, <2>3
<1>2. Frames' /\ OneAnswer' /\ HubControl'
  BY DEF Frames, OneAnswer, HubControl
<1> QED BY <1>1, <1>2

LEMMA HandshakeTypes ==
    ASSUME TypeInv, NEW b \in BOOLEAN, Handshake(b)
    PROVE  TypeInv'
<1> USE FrameFields DEF TypeInv, TypeOK, InFlight, Handshake
<1>1. TypeOK'
  <2>1. EdgeTypeOK' /\ BoundTypeOK'
    BY DEF EdgeTypeOK, BoundTypeOK
  <2>2. FrameTypeOK'
    BY FrameTypes DEF FrameTypeOK
  <2>3. HubTypeOK'
    BY DEF HubTypeOK
  <2> QED BY <2>1, <2>2, <2>3
<1>2. Frames' /\ OneAnswer' /\ HubControl'
  BY DEF Frames, OneAnswer, HubControl
<1> QED BY <1>1, <1>2

LEMMA AskOkTypes ==
    ASSUME TypeInv, NEW b \in BOOLEAN, AskOk(b)
    PROVE  TypeInv'
<1> USE FrameFields DEF TypeInv, TypeOK, InFlight, AskOk, AskRound, Ask,
           Transmit, Arrives, Lost
<1>1. TypeOK'
  <2>1. EdgeTypeOK' /\ BoundTypeOK'
    BY DEF EdgeTypeOK, BoundTypeOK
  <2>2. FrameTypeOK'
    BY FrameTypes DEF FrameTypeOK
  <2>3. HubTypeOK'
    BY DEF HubTypeOK
  <2> QED BY <2>1, <2>2, <2>3
<1>2. Frames' /\ OneAnswer' /\ HubControl'
  BY DEF Frames, OneAnswer, HubControl
<1> QED BY <1>1, <1>2

LEMMA AskMetadataTypes ==
    ASSUME TypeInv, NEW b \in BOOLEAN, AskMetadata(b)
    PROVE  TypeInv'
<1> USE FrameFields DEF TypeInv, TypeOK, InFlight, AskMetadata, AskRound, Ask,
           Transmit, Arrives, Lost
<1>1. TypeOK'
  <2>1. EdgeTypeOK' /\ BoundTypeOK'
    BY DEF EdgeTypeOK, BoundTypeOK
  <2>2. FrameTypeOK'
    BY FrameTypes DEF FrameTypeOK
  <2>3. HubTypeOK'
    BY DEF HubTypeOK
  <2> QED BY <2>1, <2>2, <2>3
<1>2. Frames' /\ OneAnswer' /\ HubControl'
  BY DEF Frames, OneAnswer, HubControl
<1> QED BY <1>1, <1>2

LEMMA AskDataTypes ==
    ASSUME TypeInv, NEW b \in BOOLEAN, AskData(b)
    PROVE  TypeInv'
<1> USE FrameFields DEF TypeInv, TypeOK, InFlight, AskData, AskRound, Ask,
           Transmit, Arrives, Lost
<1>1. TypeOK'
  <2>0. Len(chunks) \in Nat
    BY LenProperties DEF HubTypeOK
  <2>1. EdgeTypeOK' /\ BoundTypeOK'
    BY DEF EdgeTypeOK, BoundTypeOK
  <2>2. FrameTypeOK'
    BY <2>0, FrameTypes DEF FrameTypeOK
  <2>3. HubTypeOK'
    BY DEF HubTypeOK
  <2> QED BY <2>1, <2>2, <2>3
<1>2. Frames' /\ OneAnswer' /\ HubControl'
  BY DEF Frames, OneAnswer, HubControl
<1> QED BY <1>1, <1>2

LEMMA ConnectedTypes ==
    ASSUME TypeInv, Connected
    PROVE  TypeInv'
<1> USE FrameFields DEF TypeInv, TypeOK, InFlight, Connected, Heard
<1>1. TypeOK'
  <2>1. EdgeTypeOK' /\ BoundTypeOK'
    BY DEF EdgeTypeOK, BoundTypeOK
  <2>2. FrameTypeOK'
    BY FrameTypes DEF FrameTypeOK
  <2>3. HubTypeOK'
    BY DEF HubTypeOK
  <2> QED BY <2>1, <2>2, <2>3
<1>2. Frames' /\ OneAnswer' /\ HubControl'
  BY DEF Frames, OneAnswer, HubControl
<1> QED BY <1>1, <1>2

LEMMA SetMetadataTypes ==
    ASSUME TypeInv, SetMetadata
    PROVE  TypeInv'
<1> USE FrameFields DEF TypeInv, TypeOK, InFlight, SetMetadata, Heard
<1>1. TypeOK'
  <2>1. EdgeTypeOK' /\ BoundTypeOK'
    BY DEF EdgeTypeOK, BoundTypeOK
  <2>2. FrameTypeOK'
    BY FrameTypes DEF FrameTypeOK
  <2>3. HubTypeOK'
    <3>1. <<>> \in Seq(Chunk)
      OBVIOUS
    <3> QED BY <3>1, FrameParts DEF HubTypeOK, FrameTypeOK, OptFile
  <2> QED BY <2>1, <2>2, <2>3
<1>2. Frames' /\ OneAnswer' /\ HubControl'
  BY DEF Frames, OneAnswer, HubControl
<1> QED BY <1>1, <1>2

LEMMA ReAnnouncedTypes ==
    ASSUME TypeInv, ReAnnounced
    PROVE  TypeInv'
<1> USE FrameFields DEF TypeInv, TypeOK, InFlight, ReAnnounced, Heard, Reopen
<1>1. TypeOK'
  <2>1. EdgeTypeOK' /\ BoundTypeOK'
    BY DEF EdgeTypeOK, BoundTypeOK
  <2>2. FrameTypeOK'
    BY FrameTypes DEF FrameTypeOK
  <2>3. HubTypeOK'
    <3>1. <<>> \in Seq(Chunk)
      OBVIOUS
    <3> QED BY <3>1, FrameParts DEF HubTypeOK, FrameTypeOK, OptFile
  <2> QED BY <2>1, <2>2, <2>3
<1>2. Frames' /\ OneAnswer' /\ HubControl'
  BY DEF Frames, OneAnswer, HubControl
<1> QED BY <1>1, <1>2

LEMMA PlacedTypes ==
    ASSUME TypeInv, Heard("CHUNK", "DATA")
    PROVE  Placed \in Seq(Chunk) /\ current_file \in Files
<1> USE DEF TypeInv, TypeOK
<1>1. hubRx.file \in Files /\ hubRx.idx \in Nat
  BY FrameParts DEF Heard, Frames, FrameTypeOK, InFlight
<1>2. Got \in Chunk /\ chunks \in Seq(Chunk)
  BY <1>1 DEF Got, Chunk, HubTypeOK
<1>3. Placed \in Seq(Chunk)
  BY <1>2 DEF Placed
<1> QED BY <1>3 DEF Heard, HubControl

LEMMA ChunkRefusedTypes ==
    ASSUME TypeInv, ChunkRefused
    PROVE  TypeInv'
<1> USE FrameFields DEF TypeInv, TypeOK, InFlight, ChunkRefused, Heard, Reopen
<1>1. TypeOK'
  <2>1. EdgeTypeOK' /\ BoundTypeOK'
    BY DEF EdgeTypeOK, BoundTypeOK
  <2>2. FrameTypeOK'
    BY FrameTypes DEF FrameTypeOK
  <2>3. HubTypeOK'
    <3>1. <<>> \in Seq(Chunk)
      OBVIOUS
    <3> QED BY <3>1 DEF HubTypeOK, OptFile
  <2> QED BY <2>1, <2>2, <2>3
<1>2. Frames' /\ OneAnswer' /\ HubControl'
  BY DEF Frames, OneAnswer, HubControl
<1> QED BY <1>1, <1>2

LEMMA EmptyChunkTypes ==
    ASSUME TypeInv, EmptyChunk
    PROVE  TypeInv'
<1> USE FrameFields DEF TypeInv, TypeOK, InFlight, EmptyChunk, Heard
<1>1. TypeOK'
  <2>1. EdgeTypeOK' /\ BoundTypeOK'
    BY DEF EdgeTypeOK, BoundTypeOK
  <2>2. FrameTypeOK'
    BY FrameTypes DEF FrameTypeOK
  <2>3. HubTypeOK'
    BY DEF HubTypeOK
  <2> QED BY <2>1, <2>2, <2>3
<1>2. Frames' /\ OneAnswer' /\ HubControl'
  BY DEF Frames, OneAnswer, HubControl
<1> QED BY <1>1, <1>2

LEMMA AddChunkTypes ==
    ASSUME TypeInv, AddChunk
    PROVE  TypeInv'
<1> USE FrameFields DEF TypeInv, TypeOK, InFlight, AddChunk
<1>1. TypeOK'
  <2>1. EdgeTypeOK' /\ BoundTypeOK'
    BY DEF Heard, EdgeTypeOK, BoundTypeOK
  <2>2. FrameTypeOK'
    BY FrameTypes DEF Heard, FrameTypeOK
  <2>3. HubTypeOK'
    BY PlacedTypes DEF HubTypeOK, Heard
  <2> QED BY <2>1, <2>2, <2>3
<1>2. Frames' /\ OneAnswer' /\ HubControl'
  BY DEF Heard, Frames, OneAnswer, HubControl
<1> QED BY <1>1, <1>2

LEMMA ConsumeTypes ==
    ASSUME TypeInv, NEW b \in BOOLEAN, Consume(b)
    PROVE  TypeInv'
<1> USE FrameFields DEF TypeInv, TypeOK, InFlight, Consume, Transmit, Arrives,
           Lost
<1>1. TypeOK'
  <2>1. EdgeTypeOK' /\ BoundTypeOK'
    BY DEF Heard, EdgeTypeOK, BoundTypeOK
  <2>2. FrameTypeOK'
    BY FrameTypes DEF Heard, FrameTypeOK
  <2>3. HubTypeOK'
    <3>1. [file |-> current_file, chunks |-> Placed] \in Artifact
      BY PlacedTypes DEF Artifact
    <3> QED BY <3>1, PlacedTypes DEF HubTypeOK, Heard
  <2> QED BY <2>1, <2>2, <2>3
<1>2. Frames' /\ OneAnswer' /\ HubControl'
  BY DEF Heard, Frames, OneAnswer, HubControl
<1> QED BY <1>1, <1>2

LEMMA ConsumeFailsTypes ==
    ASSUME TypeInv, ConsumeFails
    PROVE  TypeInv'
<1> USE FrameFields DEF TypeInv, TypeOK, InFlight, ConsumeFails
<1>1. TypeOK'
  <2>1. EdgeTypeOK' /\ BoundTypeOK'
    BY TuningAssumption DEF Heard, EdgeTypeOK, BoundTypeOK
  <2>2. FrameTypeOK'
    BY FrameTypes DEF Heard, FrameTypeOK
  <2>3. HubTypeOK'
    BY PlacedTypes DEF HubTypeOK, Heard
  <2> QED BY <2>1, <2>2, <2>3
<1>2. Frames' /\ OneAnswer' /\ HubControl'
  BY DEF Heard, Frames, OneAnswer, HubControl
<1> QED BY <1>1, <1>2

LEMMA WrongAnswerTypes ==
    ASSUME TypeInv, WrongAnswer
    PROVE  TypeInv'
<1> USE FrameFields DEF TypeInv, TypeOK, InFlight, WrongAnswer, Heard
<1>1. TypeOK'
  <2>1. EdgeTypeOK' /\ BoundTypeOK'
    BY DEF EdgeTypeOK, BoundTypeOK
  <2>2. FrameTypeOK'
    BY FrameTypes DEF FrameTypeOK
  <2>3. HubTypeOK'
    BY DEF HubTypeOK
  <2> QED BY <2>1, <2>2, <2>3
<1>2. Frames' /\ OneAnswer' /\ HubControl'
  BY DEF Frames, OneAnswer, HubControl
<1> QED BY <1>1, <1>2

LEMMA UnansweredTypes ==
    ASSUME TypeInv, Unanswered
    PROVE  TypeInv'
<1> USE FrameFields DEF TypeInv, TypeOK, InFlight, Unanswered, WindowClosed
<1>1. TypeOK'
  <2>1. EdgeTypeOK' /\ BoundTypeOK'
    BY DEF EdgeTypeOK, BoundTypeOK
  <2>2. FrameTypeOK'
    BY FrameTypes DEF FrameTypeOK
  <2>3. HubTypeOK'
    BY DEF HubTypeOK
  <2> QED BY <2>1, <2>2, <2>3
<1>2. Frames' /\ OneAnswer' /\ HubControl'
  BY DEF Frames, OneAnswer, HubControl
<1> QED BY <1>1, <1>2

LEMMA VisitOverTypes ==
    ASSUME TypeInv, NEW heard \in BOOLEAN, NEW unanswered \in BOOLEAN,
           VisitOver(heard, unanswered), waiting' = NoFrame,
           hubRx' \in {hubRx, NoFrame},
           UNCHANGED <<edgeVars, edgeRx, sink, boundVars>>
    PROVE  TypeInv'
<1> USE FrameFields DEF TypeInv, TypeOK, InFlight, VisitOver
<1>0. \/ UNCHANGED collectVars
      \/ Secure /\ state' = "OK" /\ current_file' = NoFile /\ chunks' = <<>>
  BY DEF SessionVisitEnd, Rearm
<1>1. TypeOK'
  <2>1. EdgeTypeOK' /\ BoundTypeOK'
    BY DEF EdgeTypeOK, BoundTypeOK
  <2>2. FrameTypeOK'
    BY FrameTypes DEF FrameTypeOK
  <2>3. chunks' \in Seq(Chunk) /\ current_file' \in OptFile
    <3>1. <<>> \in Seq(Chunk)
      OBVIOUS
    <3> QED BY <1>0, <3>1 DEF HubTypeOK, OptFile
  <2>4. silent' \in 0..RecoveryAfter
    BY TuningAssumption DEF HubTypeOK, HubControl, SessionVisitEnd,
       SilentVisits
  <2>5. polled' \in BOOLEAN /\ hubSession' \in BOOLEAN
    BY DEF HubTypeOK, SessionVisitEnd
  <2>6. state' \in {"OK", "REQUEST_DATA_STATE", "PROCESS_CHUNK_STATE"}
    BY <1>0 DEF HubTypeOK
  <2>7. 0 \in 0..DiagnosisPolls
    BY TuningAssumption
  <2>8. HubTypeOK'
    BY <2>3, <2>4, <2>5, <2>6, <2>7 DEF HubTypeOK
  <2> QED BY <2>1, <2>2, <2>8
<1>2. Frames' /\ OneAnswer'
  BY DEF Frames, OneAnswer
<1>3. HubControl'
  <2>1. ~polled' => silent' < RecoveryAfter
    BY TuningAssumption DEF HubTypeOK, HubControl, SessionVisitEnd,
       SilentVisits
  <2> QED BY <1>0, <2>1 DEF HubControl
<1> QED BY <1>1, <1>2, <1>3

LEMMA EndVisitTypes ==
    ASSUME TypeInv, EndVisit
    PROVE  TypeInv'
<1> USE DEF TypeInv, TypeOK, InFlight, EndVisit
<1>1. CASE ClosesWithPoll
  <2>1. TypeOK'
    BY <1>1 DEF EdgeTypeOK, FrameTypeOK, HubTypeOK, BoundTypeOK
  <2>2. Frames' /\ OneAnswer' /\ HubControl'
    BY <1>1 DEF ClosesWithPoll, Frames, OneAnswer, HubControl
  <2> QED BY <2>1, <2>2
<1>2. CASE ~ClosesWithPoll
  <2>1. alive \in BOOLEAN /\ VisitOver(alive, FALSE) /\ waiting' = NoFrame
    BY <1>2 DEF HubTypeOK
  <2>2. /\ hubRx' \in {hubRx, NoFrame}
        /\ UNCHANGED <<edgeVars, edgeRx, sink, boundVars>>
    OBVIOUS
  <2> QED BY <2>1, <2>2, VisitOverTypes
<1> QED BY <1>1, <1>2

LEMMA ClosingPollTypes ==
    ASSUME TypeInv, NEW b \in BOOLEAN, ClosingPoll(b)
    PROVE  TypeInv'
<1> USE FrameFields DEF TypeInv, TypeOK, InFlight, ClosingPoll, Ask, Transmit,
           Arrives, Lost
<1>1. TypeOK'
  <2>1. EdgeTypeOK' /\ BoundTypeOK'
    BY DEF EdgeTypeOK, BoundTypeOK
  <2>2. FrameTypeOK'
    BY FrameTypes DEF FrameTypeOK
  <2>3. HubTypeOK'
    BY TuningAssumption DEF HubTypeOK
  <2> QED BY <2>1, <2>2, <2>3
<1>2. Frames' /\ OneAnswer' /\ HubControl'
  BY DEF Frames, OneAnswer, HubControl
<1> QED BY <1>1, <1>2

LEMMA ClosingAnsweredTypes ==
    ASSUME TypeInv, ClosingAnswered
    PROVE  TypeInv'
<1>1. /\ VisitOver(TRUE, FALSE) /\ waiting' = NoFrame
      /\ hubRx' \in {hubRx, NoFrame}
      /\ UNCHANGED <<edgeVars, edgeRx, sink, boundVars>>
  BY DEF ClosingAnswered
<1> QED BY <1>1, VisitOverTypes

LEMMA ClosingUnansweredTypes ==
    ASSUME TypeInv, ClosingUnanswered
    PROVE  TypeInv'
<1>1. /\ waiting' = NoFrame /\ hubRx' = NoFrame
      /\ UNCHANGED <<edgeVars, edgeRx, sink, boundVars>>
  BY DEF ClosingUnanswered
<1>2. CASE polls = DiagnosisPolls
  BY <1>1, <1>2, VisitOverTypes DEF ClosingUnanswered
<1>3. CASE polls # DiagnosisPolls
  <2> USE FrameFields DEF TypeInv, TypeOK, InFlight
  <2>1. UNCHANGED <<hubPc, visitVars, recoveryVars, collectVars>>
    BY <1>3 DEF ClosingUnanswered
  <2>2. TypeOK'
    BY <1>1, <2>1, FrameTypes DEF EdgeTypeOK, FrameTypeOK, HubTypeOK,
       BoundTypeOK
  <2>3. Frames' /\ OneAnswer' /\ HubControl'
    BY <1>1, <2>1 DEF Frames, OneAnswer, HubControl
  <2> QED BY <2>2, <2>3
<1> QED BY <1>2, <1>3

LEMMA HubRebootTypes ==
    ASSUME TypeInv, HubReboot
    PROVE  TypeInv'
<1> USE FrameFields DEF TypeInv, TypeOK, InFlight, HubReboot, Rearm
<1>1. TypeOK'
  <2>1. EdgeTypeOK' /\ BoundTypeOK'
    BY TuningAssumption DEF EdgeTypeOK, BoundTypeOK
  <2>2. FrameTypeOK'
    BY FrameTypes DEF FrameTypeOK
  <2>3. HubTypeOK'
    <3>1. chunks' \in Seq(Chunk)
      OBVIOUS
    <3>2. 0 \in 0..DiagnosisPolls /\ 0 \in 0..RecoveryAfter
      BY TuningAssumption
    <3> QED BY <3>1, <3>2 DEF HubTypeOK, OptFile
  <2> QED BY <2>1, <2>2, <2>3
<1>2. Frames' /\ OneAnswer' /\ HubControl'
  BY TuningAssumption DEF Frames, OneAnswer, HubControl
<1> QED BY <1>1, <1>2

-----------------------------------------------------------------------------
(* Every behaviour.                                                        *)

LEMMA InitTypes == ASSUME Init PROVE TypeInv
<1> USE FrameFields DEF Init
<1>1. TypeOK
  <2>1. <<>> \in Seq(Files) /\ <<>> \in Seq(Chunk) /\ <<>> \in Seq(Artifact)
    OBVIOUS
  <2>2. EdgeTypeOK
    <3>1. queue \in Seq(Files) /\ Len(queue) = 0
      BY <2>1
    <3>2. QueueLimit \in Nat
      BY TuningAssumption DEF QueueLimit
    <3>3. Len(queue) <= QueueLimit
      BY <3>1, <3>2
    <3>4. metadata_sent \in BOOLEAN /\ edgeSession \in BOOLEAN
      OBVIOUS
    <3>5. /\ edgePc \in {"pump", "listen", "reply"} /\ produced \subseteq Files
          /\ file \in OptFile /\ last_chunk_sent \in Nat /\ retired \subseteq Files
      BY DEF OptFile
    <3> HIDE DEF Init
    <3> QED BY <3>1, <3>3, <3>4, <3>5 DEF EdgeTypeOK
  <2>3. FrameTypeOK
    BY FrameTypes DEF FrameTypeOK
  <2>4. HubTypeOK
    <3>1. chunks \in Seq(Chunk) /\ sink \in Seq(Artifact)
      BY <2>1
    <3>2. /\ hubPc \in {"between", "visit", "closing"} /\ current_file \in OptFile
          /\ state \in {"OK", "REQUEST_DATA_STATE", "PROCESS_CHUNK_STATE"}
      BY DEF OptFile
    <3>3. /\ asked \in BOOLEAN /\ alive \in BOOLEAN /\ completed \in BOOLEAN
          /\ polled \in BOOLEAN /\ hubSession \in BOOLEAN
      OBVIOUS
    <3>4. polls \in 0..DiagnosisPolls /\ silent \in 0..RecoveryAfter
      BY TuningAssumption
    <3> HIDE DEF Init
    <3> QED BY <3>1, <3>2, <3>3, <3>4 DEF HubTypeOK
  <2>5. BoundTypeOK
    BY TuningAssumption DEF BoundTypeOK
  <2> QED BY <2>2, <2>3, <2>4, <2>5 DEF TypeOK
<1>2. Frames /\ OneAnswer /\ HubControl
  BY TuningAssumption DEF Frames, OneAnswer, HubControl, InFlight
<1> QED BY <1>1, <1>2 DEF TypeInv

LEMMA EdgeTypes ==
    ASSUME TypeInv, Edge
    PROVE  TypeInv'
<1>1. ASSUME NEW f \in Files, Enqueue(f) PROVE TypeInv'
  BY <1>1, EnqueueTypes
<1>2. ASSUME NEW b \in BOOLEAN, SendReply(b) PROVE TypeInv'
  BY <1>2, SendReplyTypes
<1> QED
  BY <1>1, <1>2, PumpTypes, ListenTimeoutTypes, CannotOpenTypes,
     NothingToServeTypes,
     ReAnnounceTypes, ServeChunkTypes, ServeMetadataTypes, AnswerPollTypes, FinalOkTypes
     DEF Edge

LEMMA HubTypes ==
    ASSUME TypeInv, Hub
    PROVE  TypeInv'
<1>1. ASSUME NEW b \in BOOLEAN, Handshake(b) PROVE TypeInv'
  BY <1>1, HandshakeTypes
<1>2. ASSUME NEW b \in BOOLEAN,
             \/ AskOk(b) \/ AskMetadata(b) \/ AskData(b)
             \/ Consume(b) \/ ClosingPoll(b)
      PROVE  TypeInv'
  BY <1>2, AskOkTypes, AskMetadataTypes, AskDataTypes, ConsumeTypes,
     ClosingPollTypes
<1> QED
  BY <1>1, <1>2, BeginVisitTypes, EndVisitTypes, ConnectedTypes,
     SetMetadataTypes,
     ReAnnouncedTypes, ChunkRefusedTypes, EmptyChunkTypes, AddChunkTypes,
     ConsumeFailsTypes, WrongAnswerTypes, UnansweredTypes,
     ClosingAnsweredTypes,
     ClosingUnansweredTypes DEF Hub

LEMMA StutterTypes ==
    ASSUME TypeInv, UNCHANGED vars
    PROVE  TypeInv'
BY DEF TypeInv, TypeOK, EdgeTypeOK, FrameTypeOK, HubTypeOK, BoundTypeOK,
       Frames, OneAnswer, HubControl, InFlight

LEMMA TypesHold == Spec => []TypeInv
<1>1. Init => TypeInv
  BY InitTypes
<1>2. TypeInv /\ [Next]_vars => TypeInv'
  BY StutterTypes, EdgeTypes, HubTypes, EdgeRebootTypes, HubRebootTypes
     DEF Next
<1> QED BY <1>1, <1>2, PTL DEF Spec

\* Every variable stays in its type and the Edge's queue within its limit,
\* whatever is lost, evicted, rebooted or consumed twice.
THEOREM TypeCorrect == Spec => []TypeOK
<1>1. TypeInv => TypeOK
  BY DEF TypeInv
<1> QED BY <1>1, TypesHold, PTL

-----------------------------------------------------------------------------
(* The inductive invariant.                                                *)

\* What the reassembly holds is a proper prefix of the announced file.
Prefix ==
    /\ current_file \in Files
    /\ Len(chunks) < NChunks[current_file]
    /\ \A k \in 1..Len(chunks) : chunks[k] = [file |-> current_file, idx |-> k - 1]

InStep ==
    state = "PROCESS_CHUNK_STATE" =>
        /\ Prefix
        /\ edgeRx \in {NoFrame, ChunkAsk(Len(chunks))}
        /\ waiting \in {NoFrame, ChunkAsk(Len(chunks))}
        /\ \A p \in InFlight :
              /\ p.kind # "OK"
              /\ p.kind = "METADATA" => ~metadata_sent
              /\ p.kind = "DATA" => p = DataFrame(current_file, Len(chunks))
        /\ metadata_sent /\ file # NoFile => file = current_file

\* An announcement on its way names the file served as announced, if any is.
Announced ==
    \A p \in InFlight :
        p.kind = "METADATA" /\ metadata_sent /\ file # NoFile => file = p.file

\* A durable boundary: the head is what is served, announced and collected.
AtHead(f) == queue # <<>> /\ f = Head(queue)
HeadServed ==
    Durable =>
        /\ file # NoFile => metadata_sent /\ AtHead(file)
        /\ \A p \in InFlight : p.kind = "METADATA" =>
              AtHead(p.file) /\ state # "PROCESS_CHUNK_STATE"
        /\ state = "PROCESS_CHUNK_STATE" => AtHead(current_file)

\* No tail is remembered of a file not announced; and when no Hub forgets or
\* fails (Steady), a tail remembered outside a transfer was consumed.
Steady == ~Secure /\ MaxHubReboots = 0 /\ MaxSinkFailures = 0
Served ==
    /\ ~metadata_sent => last_chunk_sent = 0
    /\ Steady /\ state # "PROCESS_CHUNK_STATE" =>
          /\ edgeRx.kind # "CHUNK"
          /\ IsFinalOk => file \in Delivered
    /\ Steady => AtLeastOnce

Core == InStep /\ Announced /\ HeadServed /\ NoSplice /\ Served

IInv == TypeInv /\ Core

\* A durable boundary takes a new file in only while it has room for it.
EvictsNothing == \A f \in Files : Enqueue(f) => ~Durable \/ Len(queue) < QueueSize

-----------------------------------------------------------------------------
(* Chunks and consumed files.                                              *)

LEMMA ChunkLenPositive ==
    ASSUME NEW f \in Files, NEW i \in Nat, i < NChunks[f]
    PROVE  ChunkLen(f, i) # 0
BY FilesAssumption DEF ChunkLen

LEMMA DeliveredGrows ==
    ASSUME NEW s \in Artifact, sink \in Seq(Artifact), sink' = Append(sink, s)
    PROVE  /\ Delivered \subseteq Delivered'
           /\ \A f \in Files : s = Whole(f) => f \in Delivered'
<1>1. \A i \in DOMAIN sink : i \in DOMAIN sink' /\ sink'[i] = sink[i]
  OBVIOUS
<1>2. Len(sink) + 1 \in DOMAIN sink' /\ sink'[Len(sink) + 1] = s
  OBVIOUS
<1>3. \A f : Whole(f)' = Whole(f)
  BY DEF Whole
<1> QED BY <1>1, <1>2, <1>3 DEF Delivered

LEMMA NextChunk ==
    ASSUME IInv, Heard("CHUNK", "DATA")
    PROVE  /\ state = "PROCESS_CHUNK_STATE" /\ Prefix
           /\ hubRx = DataFrame(current_file, Len(chunks))
           /\ waiting = ChunkAsk(Len(chunks))
           /\ edgeRx = NoFrame /\ reply = NoFrame
           /\ GotLen = ExpectedLen /\ GotLen # 0
           /\ Got = [file |-> current_file, idx |-> Len(chunks)]
           /\ Placed \in Seq(Chunk)
           /\ Len(Placed) = Len(chunks) + 1
           /\ \A k \in 1..Len(Placed) :
                 Placed[k] = [file |-> current_file, idx |-> k - 1]
<1> USE FrameFields DEF IInv, Core, TypeInv, TypeOK, Heard, InFlight
<1>1. state = "PROCESS_CHUNK_STATE" /\ Prefix
  BY DEF HubControl, InStep
<1>2. hubRx = DataFrame(current_file, Len(chunks)) /\ waiting = ChunkAsk(Len(chunks))
  BY <1>1 DEF InStep
<1>3. edgeRx = NoFrame /\ reply = NoFrame
  BY DEF OneAnswer
<1>4. Len(chunks) \in Nat
  BY LenProperties DEF HubTypeOK
<1>5. GotLen = ExpectedLen /\ GotLen # 0
  BY <1>1, <1>2, <1>4, ChunkLenPositive DEF GotLen, ExpectedLen, Prefix
<1>6. Got = [file |-> current_file, idx |-> Len(chunks)] /\ Got \in Chunk
  BY <1>1, <1>2, <1>4 DEF Got, Chunk, Prefix
<1>7. /\ Placed \in Seq(Chunk) /\ Len(Placed) = Len(chunks) + 1
      /\ \A k \in 1..Len(chunks) : Placed[k] = chunks[k]
      /\ Placed[Len(chunks) + 1] = Got
  BY <1>4, <1>6, AppendProperties DEF Placed, HubTypeOK
<1>8. ASSUME NEW k \in 1..Len(Placed)
      PROVE  Placed[k] = [file |-> current_file, idx |-> k - 1]
  <2>1. CASE k = Len(chunks) + 1
    BY <2>1, <1>4, <1>6, <1>7
  <2>2. CASE k \in 1..Len(chunks)
    BY <2>2, <1>1, <1>7 DEF Prefix
  <2> QED BY <2>1, <2>2, <1>4, <1>7
<1> QED BY <1>1, <1>2, <1>3, <1>5, <1>6, <1>7, <1>8

LEMMA LastChunk ==
    ASSUME IInv, Heard("CHUNK", "DATA"), IsLast
    PROVE  /\ [file |-> current_file, chunks |-> Placed] = Whole(current_file)
           /\ [file |-> current_file, chunks |-> Placed] \in Artifact
<1>1. /\ Prefix
      /\ Placed \in Seq(Chunk) /\ Len(Placed) = NChunks[current_file]
      /\ \A k \in 1..Len(Placed) :
            Placed[k] = [file |-> current_file, idx |-> k - 1]
  BY NextChunk DEF IsLast
<1>2. Placed = [k \in 1..NChunks[current_file] |->
                   [file |-> current_file, idx |-> k - 1]]
  <2>1. Placed \in [1..NChunks[current_file] -> Chunk]
    BY <1>1, LenProperties
  <2> QED BY <2>1, <1>1
<1> QED BY <1>1, <1>2 DEF Whole, Artifact, Prefix

-----------------------------------------------------------------------------
(* The Edge's steps.                                                       *)

LEMMA EnqueueInv ==
    ASSUME IInv, NEW f \in Files, ~Durable \/ Len(queue) < QueueSize, Enqueue(f)
    PROVE  IInv'
<1> USE FrameFields DEF IInv, Core, TypeInv, TypeOK, InFlight, Enqueue
<1>1. TypeInv'
  BY EnqueueTypes
<1>2. InStep'
  BY FrameTypes DEF HubControl, InStep, Prefix, OneAnswer, HeadServed,
     AtHead, FrameTypeOK
<1>3. Announced' /\ HeadServed'
  <2>1. Durable /\ queue # <<>> => queue' # <<>> /\ Head(queue') = Head(queue)
    BY QueueBack DEF MadeRoom, EdgeTypeOK
  <2> QED BY <2>1 DEF Announced, HeadServed, AtHead
<1>4. NoSplice' /\ Served'
  BY DEF NoSplice, Served, Steady, IsFinalOk, AtLeastOnce, Delivered
<1> QED BY <1>1, <1>2, <1>3, <1>4 DEF Core

LEMMA PumpInv ==
    ASSUME IInv, Pump
    PROVE  IInv'
<1> USE FrameFields DEF IInv, Core, TypeInv, TypeOK, InFlight, Pump
<1>1. TypeInv'
  BY PumpTypes
<1>2. InStep'
  BY FrameTypes DEF HubControl, InStep, Prefix, OneAnswer, HeadServed,
     AtHead, FrameTypeOK
<1>3. Announced' /\ HeadServed'
  BY DEF Announced, HeadServed, AtHead, OneAnswer, InStep
<1>4. NoSplice' /\ Served'
  BY FilesAssumption, QueueFront DEF NoSplice, Served, Steady, IsFinalOk,
     AtLeastOnce, Delivered, EdgeTypeOK, OptFile
<1> QED BY <1>1, <1>2, <1>3, <1>4 DEF Core

LEMMA ListenTimeoutInv ==
    ASSUME IInv, ListenTimeout
    PROVE  IInv'
<1> USE FrameFields DEF IInv, Core, TypeInv, TypeOK, InFlight, ListenTimeout
<1>1. TypeInv'
  BY ListenTimeoutTypes
<1>2. InStep'
  BY FrameTypes DEF HubControl, InStep, Prefix, OneAnswer, HeadServed,
     AtHead, FrameTypeOK
<1>3. Announced' /\ HeadServed'
  BY DEF Announced, HeadServed, AtHead, OneAnswer, InStep
<1>4. NoSplice' /\ Served'
  BY DEF NoSplice, Served, Steady, IsFinalOk, AtLeastOnce, Delivered
<1> QED BY <1>1, <1>2, <1>3, <1>4 DEF Core

LEMMA CannotOpenInv ==
    ASSUME IInv, CannotOpen
    PROVE  IInv'
<1> USE FrameFields DEF IInv, Core, TypeInv, TypeOK, InFlight, CannotOpen,
       Silence
<1>1. TypeInv'
  BY CannotOpenTypes
<1>2. InStep'
  BY FrameTypes DEF HubControl, InStep, Prefix, OneAnswer, HeadServed,
     AtHead, FrameTypeOK
<1>3. Announced' /\ HeadServed'
  BY DEF Announced, HeadServed, AtHead, OneAnswer, InStep
<1>4. NoSplice' /\ Served'
  BY DEF NoSplice, Served, Steady, IsFinalOk, AtLeastOnce, Delivered
<1> QED BY <1>1, <1>2, <1>3, <1>4 DEF Core

LEMMA NothingToServeInv ==
    ASSUME IInv, NothingToServe
    PROVE  IInv'
<1> USE FrameFields DEF IInv, Core, TypeInv, TypeOK, InFlight, NothingToServe,
           Hears, Silence
<1>1. TypeInv'
  BY NothingToServeTypes
<1>2. InStep'
  BY FrameTypes DEF HubControl, InStep, Prefix, OneAnswer, HeadServed,
     AtHead, FrameTypeOK
<1>3. Announced' /\ HeadServed'
  BY DEF Announced, HeadServed, AtHead, OneAnswer, InStep
<1>4. NoSplice' /\ Served'
  BY DEF NoSplice, Served, Steady, IsFinalOk, AtLeastOnce, Delivered
<1> QED BY <1>1, <1>2, <1>3, <1>4 DEF Core

LEMMA ReAnnounceInv ==
    ASSUME IInv, ReAnnounce
    PROVE  IInv'
<1> USE FrameFields DEF IInv, Core, TypeInv, TypeOK, InFlight, ReAnnounce,
       Hears,
           Answer
<1>1. TypeInv'
  BY ReAnnounceTypes
<1>2. InStep'
  BY FrameTypes DEF HubControl, InStep, Prefix, OneAnswer, HeadServed,
     AtHead, FrameTypeOK
<1>3. Announced' /\ HeadServed'
  BY DEF Announced, HeadServed, AtHead, OneAnswer, InStep
<1>4. NoSplice' /\ Served'
  BY DEF NoSplice, Served, Steady, IsFinalOk, AtLeastOnce, Delivered
<1> QED BY <1>1, <1>2, <1>3, <1>4 DEF Core

LEMMA ServeChunkInv ==
    ASSUME IInv, ServeChunk
    PROVE  IInv'
<1> USE FrameFields DEF IInv, Core, TypeInv, TypeOK, InFlight, ServeChunk,
       Hears,
           Answer
<1>1. TypeInv'
  BY ServeChunkTypes
<1>2. InStep'
  BY FrameTypes DEF HubControl, InStep, Prefix, OneAnswer, HeadServed,
     AtHead, FrameTypeOK
<1>3. Announced' /\ HeadServed'
  BY DEF Announced, HeadServed, AtHead, OneAnswer, InStep
<1>4. NoSplice' /\ Served'
  BY DEF NoSplice, Served, Steady, IsFinalOk, AtLeastOnce, Delivered
<1> QED BY <1>1, <1>2, <1>3, <1>4 DEF Core

LEMMA ServeMetadataInv ==
    ASSUME IInv, ServeMetadata
    PROVE  IInv'
<1> USE FrameFields DEF IInv, Core, TypeInv, TypeOK, InFlight, ServeMetadata,
       Hears,
           Answer
<1>1. TypeInv'
  BY ServeMetadataTypes
<1>2. InStep'
  BY FrameTypes DEF HubControl, InStep, Prefix, OneAnswer, HeadServed,
     AtHead, FrameTypeOK
<1>3. Announced' /\ HeadServed'
  BY DEF Announced, HeadServed, AtHead, OneAnswer, InStep
<1>4. NoSplice' /\ Served'
  BY DEF NoSplice, Served, Steady, IsFinalOk, AtLeastOnce, Delivered
<1> QED BY <1>1, <1>2, <1>3, <1>4 DEF Core

LEMMA AnswerPollInv ==
    ASSUME IInv, AnswerPoll
    PROVE  IInv'
<1> USE FrameFields DEF IInv, Core, TypeInv, TypeOK, InFlight, AnswerPoll,
       Hears,
           Answer
<1>1. TypeInv'
  BY AnswerPollTypes
<1>2. InStep'
  BY FrameTypes DEF HubControl, InStep, Prefix, OneAnswer, HeadServed,
     AtHead, FrameTypeOK
<1>3. Announced' /\ HeadServed'
  BY DEF Announced, HeadServed, AtHead, OneAnswer, InStep
<1>4. NoSplice' /\ Served'
  BY DEF NoSplice, Served, Steady, IsFinalOk, AtLeastOnce, Delivered
<1> QED BY <1>1, <1>2, <1>3, <1>4 DEF Core

LEMMA FinalOkInv ==
    ASSUME IInv, FinalOk
    PROVE  IInv'
<1> USE FrameFields DEF IInv, Core, TypeInv, TypeOK, InFlight, FinalOk, Hears,
           Silence
<1>1. TypeInv'
  BY FinalOkTypes
<1>2. InStep'
  BY FrameTypes DEF HubControl, InStep, Prefix, OneAnswer, HeadServed,
     AtHead, FrameTypeOK
<1>3. Announced' /\ HeadServed'
  BY DEF Announced, HeadServed, AtHead, OneAnswer, InStep
<1>4. NoSplice' /\ Served'
  BY DEF NoSplice, Served, Steady, IsFinalOk, AtLeastOnce, Delivered, InStep,
     OneAnswer
<1> QED BY <1>1, <1>2, <1>3, <1>4 DEF Core

LEMMA SendReplyInv ==
    ASSUME IInv, NEW b \in BOOLEAN, SendReply(b)
    PROVE  IInv'
<1> USE FrameFields DEF IInv, Core, TypeInv, TypeOK, InFlight, SendReply,
       Arrives,
           Lost
<1>1. TypeInv'
  BY SendReplyTypes
<1>2. InStep'
  BY FrameTypes DEF HubControl, InStep, Prefix, OneAnswer, HeadServed,
     AtHead, FrameTypeOK
<1>3. Announced' /\ HeadServed'
  BY DEF Announced, HeadServed, AtHead, OneAnswer, InStep
<1>4. NoSplice' /\ Served'
  BY DEF NoSplice, Served, Steady, IsFinalOk, AtLeastOnce, Delivered
<1> QED BY <1>1, <1>2, <1>3, <1>4 DEF Core

LEMMA EdgeRebootInv ==
    ASSUME IInv, EdgeReboot
    PROVE  IInv'
<1> USE FrameFields DEF IInv, Core, TypeInv, TypeOK, InFlight, EdgeReboot
<1>1. TypeInv'
  BY EdgeRebootTypes
<1>2. InStep'
  BY FrameTypes DEF HubControl, InStep, Prefix, OneAnswer, HeadServed,
     AtHead, FrameTypeOK
<1>3. Announced' /\ HeadServed'
  BY DEF Announced, HeadServed, AtHead, OneAnswer, InStep
<1>4. NoSplice' /\ Served'
  BY DEF NoSplice, Served, Steady, IsFinalOk, AtLeastOnce, Delivered
<1> QED BY <1>1, <1>2, <1>3, <1>4 DEF Core

-----------------------------------------------------------------------------
(* The Hub's steps.                                                        *)

LEMMA BeginVisitInv ==
    ASSUME IInv, BeginVisit
    PROVE  IInv'
<1> USE FrameFields DEF IInv, Core, TypeInv, TypeOK, InFlight, BeginVisit
<1>1. TypeInv'
  BY BeginVisitTypes
<1>2. InStep'
  BY DEF InStep, Prefix, OneAnswer, Announced, HubControl
<1>3. Announced' /\ HeadServed'
  BY DEF Announced, HeadServed, AtHead, OneAnswer, InStep
<1>4. NoSplice' /\ Served'
  BY DEF NoSplice, Served, Steady, IsFinalOk, AtLeastOnce, Delivered,
     OneAnswer
<1> QED BY <1>1, <1>2, <1>3, <1>4 DEF Core

LEMMA HandshakeInv ==
    ASSUME IInv, NEW b \in BOOLEAN, Handshake(b)
    PROVE  IInv'
<1> USE FrameFields DEF IInv, Core, TypeInv, TypeOK, InFlight, Handshake
<1>1. TypeInv'
  BY HandshakeTypes
<1>2. InStep'
  BY DEF InStep, Prefix, OneAnswer, Announced, HubControl
<1>3. Announced' /\ HeadServed'
  BY DEF Announced, HeadServed, AtHead, OneAnswer, InStep
<1>4. NoSplice' /\ Served'
  BY DEF NoSplice, Served, Steady, IsFinalOk, AtLeastOnce, Delivered,
     OneAnswer
<1> QED BY <1>1, <1>2, <1>3, <1>4 DEF Core

LEMMA AskOkInv ==
    ASSUME IInv, NEW b \in BOOLEAN, AskOk(b)
    PROVE  IInv'
<1> USE FrameFields DEF IInv, Core, TypeInv, TypeOK, InFlight, AskOk,
       AskRound, Ask,
           Transmit, Arrives, Lost
<1>1. TypeInv'
  BY AskOkTypes
<1>2. InStep'
  BY DEF InStep, Prefix, OneAnswer, Announced, HubControl
<1>3. Announced' /\ HeadServed'
  BY DEF Announced, HeadServed, AtHead, OneAnswer, InStep
<1>4. NoSplice' /\ Served'
  BY DEF NoSplice, Served, Steady, IsFinalOk, AtLeastOnce, Delivered,
     OneAnswer
<1> QED BY <1>1, <1>2, <1>3, <1>4 DEF Core

LEMMA AskMetadataInv ==
    ASSUME IInv, NEW b \in BOOLEAN, AskMetadata(b)
    PROVE  IInv'
<1> USE FrameFields DEF IInv, Core, TypeInv, TypeOK, InFlight, AskMetadata,
           AskRound, Ask, Transmit, Arrives, Lost
<1>1. TypeInv'
  BY AskMetadataTypes
<1>2. InStep'
  BY DEF InStep, Prefix, OneAnswer, Announced, HubControl
<1>3. Announced' /\ HeadServed'
  BY DEF Announced, HeadServed, AtHead, OneAnswer, InStep
<1>4. NoSplice' /\ Served'
  BY DEF NoSplice, Served, Steady, IsFinalOk, AtLeastOnce, Delivered,
     OneAnswer
<1> QED BY <1>1, <1>2, <1>3, <1>4 DEF Core

LEMMA AskDataInv ==
    ASSUME IInv, NEW b \in BOOLEAN, AskData(b)
    PROVE  IInv'
<1> USE FrameFields DEF IInv, Core, TypeInv, TypeOK, InFlight, AskData,
       AskRound,
           Ask, Transmit, Arrives, Lost
<1>1. TypeInv'
  BY AskDataTypes
<1>2. InStep'
  BY DEF InStep, Prefix, OneAnswer, Announced, HubControl
<1>3. Announced' /\ HeadServed'
  BY DEF Announced, HeadServed, AtHead, OneAnswer, InStep
<1>4. NoSplice' /\ Served'
  BY DEF NoSplice, Served, Steady, IsFinalOk, AtLeastOnce, Delivered,
     OneAnswer
<1> QED BY <1>1, <1>2, <1>3, <1>4 DEF Core

LEMMA ConnectedInv ==
    ASSUME IInv, Connected
    PROVE  IInv'
<1> USE FrameFields DEF IInv, Core, TypeInv, TypeOK, InFlight, Connected,
       Heard
<1>1. TypeInv'
  BY ConnectedTypes
<1>2. InStep'
  BY DEF InStep, Prefix, OneAnswer, Announced, HubControl
<1>3. Announced' /\ HeadServed'
  BY DEF Announced, HeadServed, AtHead, OneAnswer, InStep
<1>4. NoSplice' /\ Served'
  BY DEF NoSplice, Served, Steady, IsFinalOk, AtLeastOnce, Delivered,
     OneAnswer, InStep
<1> QED BY <1>1, <1>2, <1>3, <1>4 DEF Core

LEMMA SetMetadataInv ==
    ASSUME IInv, SetMetadata
    PROVE  IInv'
<1> USE FrameFields DEF IInv, Core, TypeInv, TypeOK, InFlight, SetMetadata,
       Heard
<1>1. TypeInv'
  BY SetMetadataTypes
<1>2. InStep'
  BY FilesAssumption DEF InStep, Prefix, OneAnswer, Announced, HubControl,
     Frames
<1>3. Announced' /\ HeadServed'
  BY DEF Announced, HeadServed, AtHead, OneAnswer, InStep
<1>4. NoSplice' /\ Served'
  BY DEF NoSplice, Served, Steady, IsFinalOk, AtLeastOnce, Delivered,
     OneAnswer
<1> QED BY <1>1, <1>2, <1>3, <1>4 DEF Core

LEMMA ReAnnouncedInv ==
    ASSUME IInv, ReAnnounced
    PROVE  IInv'
<1> USE FrameFields DEF IInv, Core, TypeInv, TypeOK, InFlight, ReAnnounced,
       Heard,
           Reopen
<1>1. TypeInv'
  BY ReAnnouncedTypes
<1>2. InStep'
  BY DEF InStep, Prefix, OneAnswer, Announced, HubControl
<1>3. Announced' /\ HeadServed'
  BY DEF Announced, HeadServed, AtHead, OneAnswer, InStep
<1>4. NoSplice' /\ Served'
  BY FilesAssumption DEF NoSplice, Served, Steady, IsFinalOk, AtLeastOnce,
     Delivered, OneAnswer, HubControl, InStep, EdgeTypeOK, OptFile
<1> QED BY <1>1, <1>2, <1>3, <1>4 DEF Core

LEMMA ChunkRefusedInv ==
    ASSUME IInv, ChunkRefused
    PROVE  IInv'
BY NextChunk DEF ChunkRefused

LEMMA EmptyChunkInv ==
    ASSUME IInv, EmptyChunk
    PROVE  IInv'
BY NextChunk DEF EmptyChunk

LEMMA AddChunkInv ==
    ASSUME IInv, AddChunk
    PROVE  IInv'
<1> USE FrameFields DEF IInv, Core, TypeInv, TypeOK, InFlight, AddChunk
<1>1. TypeInv'
  BY AddChunkTypes
<1>2. InStep'
  <2>1. Len(chunks') = Len(chunks) + 1 /\ Len(chunks) \in Nat
    BY NextChunk, LenProperties DEF HubTypeOK
  <2>2. Prefix'
    BY <2>1, NextChunk, FilesAssumption DEF Heard, Prefix, IsLast
  <2>3. edgeRx' = NoFrame /\ reply' = NoFrame /\ hubRx' = NoFrame /\ waiting' = NoFrame
    BY NextChunk DEF Heard
  <2>4. metadata_sent' /\ file' # NoFile => file' = current_file'
    BY NextChunk DEF Heard, InStep
  <2> QED BY <2>2, <2>3, <2>4 DEF InStep
<1>3. Announced' /\ HeadServed'
  BY NextChunk DEF Heard, Announced, HeadServed, AtHead
<1>4. NoSplice' /\ Served'
  BY NextChunk DEF Heard, NoSplice, Served, Steady, IsFinalOk, AtLeastOnce,
     Delivered
<1> QED BY <1>1, <1>2, <1>3, <1>4 DEF Core

LEMMA ConsumeInv ==
    ASSUME IInv, NEW b \in BOOLEAN, Consume(b)
    PROVE  IInv'
<1> USE FrameFields DEF IInv, Core, TypeInv, TypeOK, InFlight, Consume,
       Transmit,
           Arrives, Lost
<1>1. TypeInv'
  BY ConsumeTypes
<1>2. InStep'
  BY DEF InStep
<1>3. Announced' /\ HeadServed'
  BY NextChunk DEF Heard, Announced, HeadServed, AtHead
<1>4. NoSplice' /\ Served'
  <2> DEFINE s == [file |-> current_file, chunks |-> Placed]
  <2>1. s = Whole(current_file) /\ s \in Artifact
    BY LastChunk
  <2>2. sink' = Append(sink, s) /\ sink \in Seq(Artifact)
    BY DEF HubTypeOK
  <2>3. NoSplice'
    <3>1. \A f : Whole(f)' = Whole(f)
      BY DEF Whole
    <3>2. s.file = current_file
      OBVIOUS
    <3> HIDE DEF s
    <3> QED BY <2>1, <2>2, <3>1, <3>2 DEF NoSplice
  <2>4. Delivered \subseteq Delivered' /\ current_file \in Delivered'
    <3>1. current_file \in Files
      BY NextChunk DEF Prefix
    <3> HIDE DEF s
    <3> QED BY <3>1, <2>1, <2>2, DeliveredGrows
  <2>5. IsFinalOk' => file = current_file
    BY NextChunk, FilesAssumption DEF Heard, IsFinalOk, Served, InStep,
       EdgeTypeOK, OptFile
  <2>6. Served'
    BY <2>4, <2>5, NextChunk DEF Heard, Served, Steady, IsFinalOk, AtLeastOnce
  <2> QED BY <2>3, <2>6
<1> QED BY <1>1, <1>2, <1>3, <1>4 DEF Core

LEMMA ConsumeFailsInv ==
    ASSUME IInv, ConsumeFails
    PROVE  IInv'
<1> USE FrameFields DEF IInv, Core, TypeInv, TypeOK, InFlight, ConsumeFails
<1>1. TypeInv'
  BY ConsumeFailsTypes
<1>2. InStep'
  BY DEF InStep
<1>3. Announced' /\ HeadServed'
  BY NextChunk DEF Heard, Announced, HeadServed, AtHead
<1>4. NoSplice' /\ Served'
  <2>1. ~Steady
    BY DEF Steady, BoundTypeOK
  <2> QED BY <2>1 DEF Heard, NoSplice, Served, Steady
<1> QED BY <1>1, <1>2, <1>3, <1>4 DEF Core

LEMMA WrongAnswerInv ==
    ASSUME IInv, WrongAnswer
    PROVE  IInv'
<1> USE FrameFields DEF IInv, Core, TypeInv, TypeOK, InFlight, WrongAnswer,
       Heard
<1>1. TypeInv'
  BY WrongAnswerTypes
<1>2. InStep'
  BY DEF InStep, Prefix, OneAnswer, Announced, HubControl
<1>3. Announced' /\ HeadServed'
  BY DEF Announced, HeadServed, AtHead, OneAnswer, InStep
<1>4. NoSplice' /\ Served'
  BY DEF NoSplice, Served, Steady, IsFinalOk, AtLeastOnce, Delivered,
     OneAnswer
<1> QED BY <1>1, <1>2, <1>3, <1>4 DEF Core

LEMMA UnansweredInv ==
    ASSUME IInv, Unanswered
    PROVE  IInv'
<1> USE FrameFields DEF IInv, Core, TypeInv, TypeOK, InFlight, Unanswered,
           WindowClosed
<1>1. TypeInv'
  BY UnansweredTypes
<1>2. InStep'
  BY DEF InStep, Prefix, OneAnswer, Announced, HubControl
<1>3. Announced' /\ HeadServed'
  BY DEF Announced, HeadServed, AtHead, OneAnswer, InStep
<1>4. NoSplice' /\ Served'
  BY DEF NoSplice, Served, Steady, IsFinalOk, AtLeastOnce, Delivered,
     OneAnswer
<1> QED BY <1>1, <1>2, <1>3, <1>4 DEF Core

LEMMA VisitOverInv ==
    ASSUME IInv, NEW heard \in BOOLEAN, NEW unanswered \in BOOLEAN,
           VisitOver(heard, unanswered), waiting' = NoFrame,
           hubRx' \in {hubRx, NoFrame},
           UNCHANGED <<edgeVars, edgeRx, sink, boundVars>>
    PROVE  IInv'
<1> USE FrameFields DEF IInv, Core, TypeInv, TypeOK, InFlight, VisitOver
<1>0. \/ UNCHANGED collectVars
      \/ Secure /\ state' = "OK" /\ current_file' = NoFile /\ chunks' = <<>>
  BY DEF SessionVisitEnd, Rearm
<1>1. TypeInv'
  BY VisitOverTypes
<1>2. InStep'
  BY <1>0 DEF InStep, Prefix
<1>3. Announced' /\ HeadServed'
  BY <1>0 DEF Announced, HeadServed, AtHead
<1>4. NoSplice' /\ Served'
  BY <1>0 DEF NoSplice, Served, Steady, IsFinalOk, AtLeastOnce, Delivered
<1> QED BY <1>1, <1>2, <1>3, <1>4 DEF Core

LEMMA EndVisitInv ==
    ASSUME IInv, EndVisit
    PROVE  IInv'
<1> USE DEF IInv, Core, TypeInv, TypeOK, InFlight, EndVisit
<1>1. CASE ClosesWithPoll
  <2>1. TypeInv'
    BY EndVisitTypes
  <2>2. InStep' /\ Announced' /\ HeadServed'
    BY <1>1 DEF ClosesWithPoll, InStep, Announced, HeadServed, AtHead
  <2>3. NoSplice' /\ Served'
    BY <1>1 DEF NoSplice, Served, Steady, IsFinalOk, AtLeastOnce, Delivered
  <2> QED BY <2>1, <2>2, <2>3 DEF Core
<1>2. CASE ~ClosesWithPoll
  <2>1. alive \in BOOLEAN /\ VisitOver(alive, FALSE) /\ waiting' = NoFrame
    BY <1>2 DEF HubTypeOK
  <2>2. /\ hubRx' \in {hubRx, NoFrame}
        /\ UNCHANGED <<edgeVars, edgeRx, sink, boundVars>>
    OBVIOUS
  <2> QED BY <2>1, <2>2, VisitOverInv
<1> QED BY <1>1, <1>2

LEMMA ClosingPollInv ==
    ASSUME IInv, NEW b \in BOOLEAN, ClosingPoll(b)
    PROVE  IInv'
<1> USE FrameFields DEF IInv, Core, TypeInv, TypeOK, InFlight, ClosingPoll,
       Ask,
           Transmit, Arrives, Lost
<1>1. TypeInv'
  BY ClosingPollTypes
<1>2. InStep'
  BY DEF InStep, Prefix, OneAnswer, Announced, HubControl
<1>3. Announced' /\ HeadServed'
  BY DEF Announced, HeadServed, AtHead, OneAnswer, InStep
<1>4. NoSplice' /\ Served'
  BY DEF NoSplice, Served, Steady, IsFinalOk, AtLeastOnce, Delivered,
     OneAnswer
<1> QED BY <1>1, <1>2, <1>3, <1>4 DEF Core

LEMMA ClosingAnsweredInv ==
    ASSUME IInv, ClosingAnswered
    PROVE  IInv'
<1>1. /\ VisitOver(TRUE, FALSE) /\ waiting' = NoFrame
      /\ hubRx' \in {hubRx, NoFrame}
      /\ UNCHANGED <<edgeVars, edgeRx, sink, boundVars>>
  BY DEF ClosingAnswered
<1> QED BY <1>1, VisitOverInv

LEMMA ClosingUnansweredInv ==
    ASSUME IInv, ClosingUnanswered
    PROVE  IInv'
<1>1. /\ waiting' = NoFrame /\ hubRx' = NoFrame
      /\ UNCHANGED <<edgeVars, edgeRx, sink, boundVars>>
  BY DEF ClosingUnanswered
<1>2. CASE polls = DiagnosisPolls
  BY <1>1, <1>2, VisitOverInv DEF ClosingUnanswered
<1>3. CASE polls # DiagnosisPolls
  <2> USE FrameFields DEF IInv, Core, TypeInv, TypeOK, InFlight
  <2>1. UNCHANGED <<hubPc, visitVars, recoveryVars, collectVars>>
    BY <1>3 DEF ClosingUnanswered
  <2>2. TypeInv'
    BY ClosingUnansweredTypes
  <2>3. InStep' /\ Announced' /\ HeadServed'
    BY <1>1, <2>1 DEF InStep, Prefix, Announced, HeadServed, AtHead
  <2>4. NoSplice' /\ Served'
    BY <1>1, <2>1 DEF NoSplice, Served, Steady, IsFinalOk, AtLeastOnce,
       Delivered
  <2> QED BY <2>2, <2>3, <2>4 DEF Core
<1> QED BY <1>2, <1>3

LEMMA HubRebootInv ==
    ASSUME IInv, HubReboot
    PROVE  IInv'
<1> USE FrameFields DEF IInv, Core, TypeInv, TypeOK, InFlight, HubReboot,
       Rearm
<1>1. TypeInv'
  BY HubRebootTypes
<1>2. InStep'
  BY DEF InStep
<1>3. Announced' /\ HeadServed'
  BY DEF Announced, HeadServed, AtHead
<1>4. NoSplice' /\ Served'
  <2>1. ~Steady
    BY DEF Steady, BoundTypeOK
  <2> QED BY <2>1 DEF NoSplice, Served, Steady
<1> QED BY <1>1, <1>2, <1>3, <1>4 DEF Core

-----------------------------------------------------------------------------
(* The invariant holds, and what follows from it.                          *)

LEMMA InitInv == ASSUME Init PROVE IInv
<1> USE FrameFields DEF Init
<1>1. TypeInv
  BY InitTypes
<1>2. InStep /\ Announced /\ HeadServed
  BY DEF InStep, Announced, HeadServed, InFlight
<1>3. NoSplice /\ Served
  BY DEF NoSplice, Served, Steady, IsFinalOk, AtLeastOnce
<1> QED BY <1>1, <1>2, <1>3 DEF IInv, Core

LEMMA EdgeInv ==
    ASSUME IInv, EvictsNothing, Edge
    PROVE  IInv'
<1>1. ASSUME NEW f \in Files, Enqueue(f) PROVE IInv'
  BY <1>1, EnqueueInv DEF EvictsNothing
<1>2. ASSUME NEW b \in BOOLEAN, SendReply(b) PROVE IInv'
  BY <1>2, SendReplyInv
<1> QED
  BY <1>1, <1>2, PumpInv, ListenTimeoutInv, CannotOpenInv, NothingToServeInv,
     ReAnnounceInv, ServeChunkInv, ServeMetadataInv, AnswerPollInv, FinalOkInv
     DEF Edge

LEMMA HubInv ==
    ASSUME IInv, Hub
    PROVE  IInv'
<1>1. ASSUME NEW b \in BOOLEAN, Handshake(b) PROVE IInv'
  BY <1>1, HandshakeInv
<1>2. ASSUME NEW b \in BOOLEAN,
             \/ AskOk(b) \/ AskMetadata(b) \/ AskData(b)
             \/ Consume(b) \/ ClosingPoll(b)
      PROVE  IInv'
  BY <1>2, AskOkInv, AskMetadataInv, AskDataInv, ConsumeInv, ClosingPollInv
<1> QED
  BY <1>1, <1>2, BeginVisitInv, EndVisitInv, ConnectedInv, SetMetadataInv,
     ReAnnouncedInv, ChunkRefusedInv, EmptyChunkInv, AddChunkInv,
     ConsumeFailsInv, WrongAnswerInv, UnansweredInv, ClosingAnsweredInv,
     ClosingUnansweredInv DEF Hub

LEMMA StutterInv ==
    ASSUME IInv, UNCHANGED vars
    PROVE  IInv'
<1>1. TypeInv'
  BY StutterTypes DEF IInv
<1>2. Core'
  BY DEF IInv, Core, InStep, Prefix, Announced, HeadServed, AtHead, NoSplice,
         Served, IsFinalOk, AtLeastOnce, Delivered, InFlight
<1> QED BY <1>1, <1>2 DEF IInv

LEMMA StepInv ==
    ASSUME IInv, [Next]_vars, [EvictsNothing]_vars
    PROVE  IInv'
<1>1. CASE UNCHANGED vars
  BY <1>1, StutterInv
<1>2. CASE Next /\ EvictsNothing
  BY <1>2, EdgeInv, HubInv, EdgeRebootInv, HubRebootInv DEF Next
<1> QED BY <1>1, <1>2

LEMMA Invariance == Spec /\ [][EvictsNothing]_vars => []IInv
<1>1. Init => IInv
  BY InitInv
<1>2. IInv /\ [Next]_vars /\ [EvictsNothing]_vars => IInv'
  BY StepInv
<1> QED BY <1>1, <1>2, PTL DEF Spec

\* Each artifact the Hub's sink consumes is one file, byte for byte, whatever
\* is lost, late or rebooted, as long as a durable queue evicts nothing.
THEOREM WholeFiles == Spec /\ [][EvictsNothing]_vars => []NoSplice
<1>1. IInv => NoSplice
  BY DEF IInv, Core
<1> QED BY <1>1, Invariance, PTL

\* With the queue in RAM that needs no proviso: what is evicted under the
\* transfer is never installed as announced again.
THEOREM WholeFilesFromRAM == ASSUME ~Durable PROVE Spec => []NoSplice
<1>1. EvictsNothing
  BY DEF EvictsNothing
<1> QED BY <1>1, WholeFiles, PTL

\* In the open mode, with a Hub that neither restarts nor fails to store, the
\* Edge credits a file only once the sink has it, losses and Edge reboots
\* notwithstanding.
THEOREM CreditedOnlyWhenDelivered ==
    ASSUME Steady PROVE Spec /\ [][EvictsNothing]_vars => []AtLeastOnce
<1>1. IInv => AtLeastOnce
  BY DEF IInv, Core, Served
<1> QED BY <1>1, Invariance, PTL
-----------------------------------------------------------------------------
(* Chunks collected are kept.                                              *)

\* What ProgressKept asks of a step.
Kept == /\ Len(chunks') >= Len(chunks)
        /\ SubSeq(chunks', 1, Len(chunks)) = chunks

LEMMA SameChunksKept ==
    ASSUME chunks \in Seq(Chunk), UNCHANGED chunks PROVE Kept
BY SubSeqFull, LenProperties DEF Kept

LEMMA PlacedKept ==
    ASSUME IInv, Heard("CHUNK", "DATA"), chunks' = Placed PROVE Kept
<1>1. chunks \in Seq(Chunk) /\ Got \in Chunk
  <2>1. Got = [file |-> current_file, idx |-> Len(chunks)] /\ Prefix
    BY NextChunk
  <2>2. chunks \in Seq(Chunk)
    BY DEF IInv, TypeInv, TypeOK, HubTypeOK
  <2> QED BY <2>1, <2>2, LenProperties DEF Chunk, Prefix
<1>2. /\ Len(chunks') = Len(chunks) + 1 /\ Len(chunks) \in Nat
      /\ chunks' \in Seq(Chunk)
      /\ \A k \in 1..Len(chunks) : chunks'[k] = chunks[k]
  BY <1>1, AppendProperties, LenProperties DEF Placed
<1>3. SubSeq(chunks', 1, Len(chunks)) = chunks
  <2>1. /\ SubSeq(chunks', 1, Len(chunks)) \in Seq(Chunk)
        /\ Len(SubSeq(chunks', 1, Len(chunks))) = Len(chunks)
        /\ \A k \in 1..Len(chunks) :
              SubSeq(chunks', 1, Len(chunks))[k] = chunks'[k]
    <3>1. \A k \in 1..Len(chunks) : chunks'[k] \in Chunk
      BY <1>1, <1>2, ElementOfSeq
    <3> QED BY <3>1, <1>2, SubSeqProperties
  <2> QED BY <1>1, <1>2, <2>1, SeqEqual
<1> QED BY <1>2, <1>3 DEF Kept

LEMMA HubKeeps ==
    ASSUME IInv, Hub, Durable, ~Secure, state = "PROCESS_CHUNK_STATE"
    PROVE  Kept
<1> USE FrameFields DEF IInv, Core, TypeInv, InFlight
<1>1. UNCHANGED chunks => Kept
  BY SameChunksKept DEF TypeOK, HubTypeOK
<1>2. hubRx.kind \notin {"OK", "METADATA"}
  BY DEF InStep, HeadServed
<1>3. ~Connected /\ ~SetMetadata /\ ~ReAnnounced
  BY <1>2 DEF Connected, SetMetadata, ReAnnounced, Heard
<1>4. ~ChunkRefused
  BY NextChunk DEF ChunkRefused
<1>5. AddChunk \/ ConsumeFails \/ (\E b \in BOOLEAN : Consume(b)) => Kept
  BY PlacedKept DEF AddChunk, ConsumeFails, Consume
<1>6. \A b \in BOOLEAN :
         \/ Handshake(b) \/ AskOk(b) \/ AskMetadata(b) \/ AskData(b)
         \/ ClosingPoll(b)
         => UNCHANGED chunks
  BY DEF Handshake, AskOk, AskMetadata, AskData, AskRound, ClosingPoll
<1>7. BeginVisit \/ EmptyChunk \/ WrongAnswer \/ Unanswered => UNCHANGED chunks
  BY DEF BeginVisit, EmptyChunk, WrongAnswer, Unanswered
<1>8. EndVisit \/ ClosingAnswered \/ ClosingUnanswered => UNCHANGED chunks
  BY DEF EndVisit, ClosingAnswered, ClosingUnanswered, VisitOver,
     SessionVisitEnd
<1> QED BY <1>1, <1>3, <1>4, <1>5, <1>6, <1>7, <1>8 DEF Hub

LEMMA EdgeKeeps == ASSUME Edge \/ EdgeReboot PROVE UNCHANGED chunks
BY DEF Edge, EdgeReboot, Enqueue, Pump, ListenTimeout, CannotOpen,
       NothingToServe, ReAnnounce, ServeChunk, ServeMetadata, AnswerPoll,
       FinalOk, SendReply

LEMMA StepKeeps ==
    ASSUME IInv, [Next]_vars, Durable, ~Secure, MaxHubReboots = 0,
           state = "PROCESS_CHUNK_STATE"
    PROVE  Kept
<1>1. CASE Hub
  BY <1>1, HubKeeps
<1>2. CASE Edge \/ EdgeReboot \/ UNCHANGED vars
  BY <1>2, EdgeKeeps, SameChunksKept DEF IInv, TypeInv, TypeOK, HubTypeOK
<1>3. ~HubReboot
  BY DEF HubReboot, IInv, TypeInv, TypeOK, BoundTypeOK
<1> QED BY <1>1, <1>2, <1>3 DEF Next

\* In the open mode, with a durable queue that evicts nothing and a Hub that
\* does not restart, no chunk collected is ever thrown away mid-file, through
\* any number of Edge reboots, losses and failures to store.
THEOREM ProgressIsKept ==
    ASSUME Durable, ~Secure, MaxHubReboots = 0
    PROVE  Spec /\ [][EvictsNothing]_vars => ProgressKept
<1>1. IInv /\ [Next]_vars
         => [state = "PROCESS_CHUNK_STATE" =>
               /\ Len(chunks') >= Len(chunks)
               /\ SubSeq(chunks', 1, Len(chunks)) = chunks]_vars
  BY StepKeeps DEF Kept
<1> QED BY <1>1, Invariance, PTL DEF Spec, ProgressKept

-----------------------------------------------------------------------------
(* The promise: a durable queue implements Delivery, and a file is         *)
(* consumed once as long as its Edge does not restart.                     *)
(*                                                                         *)
(* Both rest on what the boundary's queue is (Handed): files the producer  *)
(* handed over, each once, the one being served at its head.  Consumed     *)
(* once (Once) needs two facts more.  While a chunk is in flight the file  *)
(* it was cut from is still the one served and that chunk is the one last  *)
(* served; so the chunk that completes a file is its tail, and the Edge    *)
(* takes the next OK, final or poll, for the end of that file.  And until  *)
(* it hears one, no request but an OK can reach it.                        *)

Held == {queue[i] : i \in DOMAIN queue}
Consumed == {sink[i].file : i \in DOMAIN sink}

Handed ==
    /\ Held \subseteq produced
    /\ file # NoFile => file \in produced
    /\ retired \subseteq produced
    /\ \A i, j \in DOMAIN queue : queue[i] = queue[j] => i = j
    /\ \A i \in DOMAIN queue : queue[i] = file => i = 1

\* Nothing consumed is queued, except the file whose final-OK is still to
\* come; nothing that was consumed is announced or collected.
Fresh ==
    /\ Consumed \subseteq produced
    /\ Consumed \cap Held \subseteq {file}
    /\ state = "PROCESS_CHUNK_STATE" => current_file \notin Consumed
    /\ \A p \in InFlight : p.kind = "METADATA" => p.file \notin Consumed

\* The chunk in flight is the one last served.
LastServed ==
    \A p \in InFlight :
        p.kind = "DATA" => file = p.file /\ last_chunk_sent = p.idx + 1

\* A consumed file still being served waits for an OK and for nothing else.
Settled ==
    file \in Consumed =>
        /\ IsFinalOk /\ state = "OK"
        /\ edgeRx \in {NoFrame, OkFrame}
        /\ reply = NoFrame /\ hubRx = NoFrame

Distinct == \A i, j \in DOMAIN sink : sink[i].file = sink[j].file => i = j

OnceInv == Fresh /\ LastServed /\ Settled /\ Distinct

Once == edgeReboots = 0 => OnceInv

PInv == IInv /\ Handed

-----------------------------------------------------------------------------
(* The queue as a set of files.                                            *)

LEMMA Popped ==
    ASSUME NEW q \in Seq(Files), q # <<>>,
           \A i, j \in DOMAIN q : q[i] = q[j] => i = j
    PROVE  /\ {Tail(q)[i] : i \in DOMAIN Tail(q)} = {q[i] : i \in DOMAIN q} \ {Head(q)}
           /\ \A i, j \in DOMAIN Tail(q) : Tail(q)[i] = Tail(q)[j] => i = j
<1> DEFINE t == Tail(q)
<1>1. /\ Len(q) \in Nat \ {0} /\ DOMAIN q = 1..Len(q) /\ Head(q) = q[1]
      /\ DOMAIN t = 1..(Len(q) - 1)
      /\ \A i \in 1..(Len(q) - 1) : t[i] = q[i + 1] /\ i + 1 \in 2..Len(q)
  OBVIOUS
<1> HIDE DEF t
<1>2. \A i \in 2..Len(q) :
         i \in DOMAIN q /\ i - 1 \in DOMAIN t /\ t[i - 1] = q[i] /\ q[i] # q[1]
  <2> TAKE i \in 2..Len(q)
  <2>1. /\ i - 1 \in 1..(Len(q) - 1) /\ (i - 1) + 1 = i /\ i # 1
        /\ 1 \in DOMAIN q /\ i \in DOMAIN q
    BY <1>1
  <2> QED BY <2>1, <1>1
<1>3. ASSUME NEW x PROVE x \in {t[i] : i \in DOMAIN t} <=> x \in {q[i] : i \in DOMAIN q} \ {q[1]}
  <2>1. ASSUME NEW i \in DOMAIN t PROVE t[i] \in {q[j] : j \in DOMAIN q} \ {q[1]}
    <3>1. t[i] = q[i + 1] /\ i + 1 \in 2..Len(q)
      BY <1>1
    <3>2. i + 1 \in DOMAIN q /\ q[i + 1] # q[1]
      BY <3>1, <1>2
    <3> QED BY <3>1, <3>2
  <2>2. ASSUME NEW i \in DOMAIN q, q[i] # q[1] PROVE q[i] \in {t[j] : j \in DOMAIN t}
    <3>1. i \in 2..Len(q)
      BY <2>2, <1>1
    <3> QED BY <3>1, <1>2
  <2> QED BY <2>1, <2>2
<1>4. \A i, j \in DOMAIN t : t[i] = t[j] => i = j
  BY <1>1
<1> QED BY <1>1, <1>3, <1>4 DEF t

LEMMA Pushed ==
    ASSUME NEW q \in Seq(Files), NEW f \in Files, f \notin {q[i] : i \in DOMAIN q},
           \A i, j \in DOMAIN q : q[i] = q[j] => i = j
    PROVE  LET r == Append(q, f)
           IN  /\ {r[i] : i \in DOMAIN r} = {q[i] : i \in DOMAIN q} \cup {f}
               /\ \A i, j \in DOMAIN r : r[i] = r[j] => i = j
               /\ \A i \in DOMAIN q : r[i] = q[i]
               /\ DOMAIN r = DOMAIN q \cup {Len(q) + 1} /\ r[Len(q) + 1] = f
<1> DEFINE r == Append(q, f)
<1>1. /\ DOMAIN q = 1..Len(q) /\ Len(q) \in Nat
      /\ DOMAIN r = 1..(Len(q) + 1)
      /\ r[Len(q) + 1] = f /\ \A i \in 1..Len(q) : r[i] = q[i]
  OBVIOUS
<1> HIDE DEF r
<1>2. DOMAIN r = DOMAIN q \cup {Len(q) + 1}
  BY <1>1
<1>3. \A i \in DOMAIN q : r[i] # f
  BY <1>1
<1>4. \A i, j \in DOMAIN r : r[i] = r[j] => i = j
  BY <1>1, <1>2, <1>3
<1>5. {r[i] : i \in DOMAIN r} = {q[i] : i \in DOMAIN q} \cup {f}
  BY <1>1, <1>2
<1> QED BY <1>1, <1>2, <1>4, <1>5 DEF r

LEMMA RoomIsMade ==
    ASSUME IInv, Handed, NEW f \in Files, ~Durable \/ Len(queue) < QueueSize
    PROVE  /\ MadeRoom \in Seq(Files)
           /\ {MadeRoom[i] : i \in DOMAIN MadeRoom} \subseteq Held
           /\ Durable => MadeRoom = queue
           /\ \A i, j \in DOMAIN MadeRoom : MadeRoom[i] = MadeRoom[j] => i = j
           /\ \A i \in DOMAIN MadeRoom : MadeRoom[i] = file => i = 1
<1>0. queue \in Seq(Files) /\ Len(queue) \in Nat /\ QueueSize \in Nat \ {0}
  BY TuningAssumption DEF IInv, TypeInv, TypeOK, EdgeTypeOK
<1>1. CASE Len(queue) < QueueSize
  BY <1>0, <1>1 DEF MadeRoom, Handed, Held
<1>2. CASE ~Durable /\ Len(queue) >= QueueSize
  <2>1. MadeRoom = Tail(queue) /\ queue # <<>>
    BY <1>0, <1>2 DEF MadeRoom, PopOldest
  <2>2. Tail(queue) \in Seq(Files)
    BY <1>0, <2>1
  <2>3. /\ {Tail(queue)[i] : i \in DOMAIN Tail(queue)} = Held \ {Head(queue)}
        /\ \A i, j \in DOMAIN Tail(queue) : Tail(queue)[i] = Tail(queue)[j] => i = j
    BY <1>0, <2>1, Popped DEF Handed, Held
  <2>4. \A i \in DOMAIN Tail(queue) : Tail(queue)[i] # file
    BY <1>0, <2>1 DEF Handed
  <2> QED BY <1>2, <2>1, <2>2, <2>3, <2>4
<1> QED BY <1>0, <1>1, <1>2

LEMMA EnqueueHanded ==
    ASSUME IInv, Handed, NEW f \in Files, ~Durable \/ Len(queue) < QueueSize,
           Enqueue(f)
    PROVE  /\ Handed'
           /\ Held' \subseteq Held \cup {f}
           /\ Durable => Held' = Held \cup {f}
           /\ f \notin Held \cup retired
<1> DEFINE q == MadeRoom
<1>1. /\ q \in Seq(Files) /\ {q[i] : i \in DOMAIN q} \subseteq Held
      /\ Durable => q = queue
      /\ \A i, j \in DOMAIN q : q[i] = q[j] => i = j
      /\ \A i \in DOMAIN q : q[i] = file => i = 1
  BY RoomIsMade
<1>2. f \notin Held /\ f # file /\ f \notin retired
  BY FilesAssumption DEF Handed, Enqueue
<1>3. /\ queue' = Append(q, f) /\ produced' = produced \cup {f}
      /\ UNCHANGED <<file, retired>>
  BY DEF Enqueue
<1> HIDE DEF q
<1>4. f \notin {q[i] : i \in DOMAIN q}
  BY <1>1, <1>2
<1>5. /\ {queue'[i] : i \in DOMAIN queue'} = {q[i] : i \in DOMAIN q} \cup {f}
      /\ \A i, j \in DOMAIN queue' : queue'[i] = queue'[j] => i = j
      /\ \A i \in DOMAIN q : queue'[i] = q[i]
      /\ DOMAIN queue' = DOMAIN q \cup {Len(q) + 1} /\ queue'[Len(q) + 1] = f
  BY <1>1, <1>3, <1>4, Pushed
<1>6. Held' = {q[i] : i \in DOMAIN q} \cup {f}
  BY <1>5 DEF Held
<1>7. Handed'
  BY <1>1, <1>2, <1>3, <1>5, <1>6 DEF Handed
<1>8. Held' \subseteq Held \cup {f} /\ (Durable => Held' = Held \cup {f})
  BY <1>1, <1>6 DEF Held
<1> QED BY <1>2, <1>7, <1>8

LEMMA FinalOkHanded ==
    ASSUME IInv, Handed, FinalOk
    PROVE  /\ Handed'
           /\ Held' = Held \ {file}
           /\ file \in Files
<1>0. queue \in Seq(Files) /\ file \in Files
  BY DEF IInv, TypeInv, TypeOK, EdgeTypeOK, FinalOk, IsFinalOk, OptFile
<1>1. /\ file' = NoFile /\ produced' = produced /\ retired' = retired \cup {file}
      /\ file \in produced
  BY FilesAssumption, <1>0 DEF FinalOk, Handed
<1>2. CASE queue # <<>> /\ Head(queue) = file
  <2>1. queue' = Tail(queue)
    BY <1>2 DEF FinalOk
  <2>2. /\ {Tail(queue)[i] : i \in DOMAIN Tail(queue)} = Held \ {file}
        /\ \A i, j \in DOMAIN Tail(queue) : Tail(queue)[i] = Tail(queue)[j] => i = j
    BY <1>0, <1>2, Popped DEF Handed, Held
  <2>3. Held' = Held \ {file}
    BY <2>1, <2>2 DEF Held
  <2>4. \A i, j \in DOMAIN queue' : queue'[i] = queue'[j] => i = j
    BY <2>1, <2>2
  <2>5. \A i \in DOMAIN queue' : queue'[i] # NoFile
    <3>1. queue' \in Seq(Files)
      BY <1>0, <1>2, <2>1, QueueFront
    <3> QED BY <3>1, FilesAssumption
  <2> QED BY <1>0, <1>1, <2>3, <2>4, <2>5 DEF Handed
<1>3. CASE ~(queue # <<>> /\ Head(queue) = file)
  <2>1. queue' = queue
    BY <1>3 DEF FinalOk
  <2>2. file \notin Held
    <3>1. \A i \in DOMAIN queue : queue[i] = file => i = 1
      BY DEF Handed
    <3>2. \A i \in DOMAIN queue : i = 1 => queue # <<>> /\ Head(queue) = queue[i]
      BY <1>0
    <3> QED BY <1>3, <3>1, <3>2 DEF Held
  <2>3. Held' = Held
    BY <2>1 DEF Held
  <2>4. \A i \in DOMAIN queue : queue[i] # NoFile
    BY <1>0, FilesAssumption
  <2> QED BY <1>0, <1>1, <2>1, <2>2, <2>3, <2>4 DEF Handed
<1> QED BY <1>0, <1>2, <1>3

LEMMA PumpHanded == ASSUME IInv, Handed, Pump PROVE Handed'
<1>0. /\ queue \in Seq(Files) /\ UNCHANGED <<queue, produced, retired>>
      /\ Held' = Held
  BY DEF Pump, IInv, TypeInv, TypeOK, EdgeTypeOK, Held
<1>1. \/ file' = file
      \/ file' \in Held /\ \A i \in DOMAIN queue : queue[i] = file' => i = 1
  <2>1. queue # <<>> => 1 \in DOMAIN queue /\ Head(queue) = queue[1]
    BY <1>0
  <2> QED BY <2>1 DEF Pump, Handed, Held
<1> QED BY <1>0, <1>1 DEF Handed

LEMMA EdgeRebootHanded ==
    ASSUME IInv, Handed, EdgeReboot
    PROVE  Handed' /\ Held' \subseteq Held /\ (Durable => Held' = Held)
<1>1. \A i \in DOMAIN queue : queue[i] # NoFile
  BY FilesAssumption DEF IInv, TypeInv, TypeOK, EdgeTypeOK
<1>2. UNCHANGED <<produced, retired>> /\ file' = NoFile
  BY DEF EdgeReboot
<1>3. CASE Durable
  BY <1>1, <1>2, <1>3 DEF EdgeReboot, Handed, Held
<1>4. CASE ~Durable
  <2>1. queue' = <<>> /\ DOMAIN queue' = {}
    BY <1>4 DEF EdgeReboot
  <2> QED BY <1>2, <1>4, <2>1 DEF Handed, Held
<1> QED BY <1>3, <1>4

\* No other step touches the boundary's queue or what was handed over.
LEMMA OthersLeaveQueue ==
    ASSUME Next, ~Pump, ~FinalOk, ~EdgeReboot, \A f \in Files : ~Enqueue(f)
    PROVE  UNCHANGED <<produced, queue, file, retired>>
<1>1. CASE Edge
  BY <1>1 DEF Edge, ListenTimeout, CannotOpen, NothingToServe, ReAnnounce,
     ServeChunk, ServeMetadata, AnswerPoll, SendReply
<1>2. CASE Hub
  BY <1>2 DEF Hub, BeginVisit, EndVisit, Handshake, AskOk, AskMetadata, AskData,
     AskRound, Consume, ClosingPoll, Connected, SetMetadata, ReAnnounced,
     ChunkRefused, EmptyChunk, AddChunk, ConsumeFails, WrongAnswer, Unanswered,
     ClosingAnswered, ClosingUnanswered, Heard
<1>3. CASE HubReboot
  BY <1>3 DEF HubReboot
<1> QED BY <1>1, <1>2, <1>3 DEF Next

LEMMA SameQueueHanded ==
    ASSUME Handed, UNCHANGED <<produced, queue, file, retired>>
    PROVE  Handed' /\ UNCHANGED Held
BY DEF Handed, Held

LEMMA HandedStep ==
    ASSUME PInv, [Next]_vars, [EvictsNothing]_vars
    PROVE  PInv'
<1> USE DEF PInv
<1>1. IInv'
  BY StepInv
<1>2. CASE Next /\ EvictsNothing
  <2>1. ASSUME NEW f \in Files, Enqueue(f) PROVE Handed'
    BY <1>2, <2>1, EnqueueHanded DEF EvictsNothing
  <2> QED
    BY <1>1, <1>2, <2>1, PumpHanded, FinalOkHanded, EdgeRebootHanded,
       OthersLeaveQueue,
       SameQueueHanded
<1>3. CASE UNCHANGED vars
  BY <1>1, <1>3, SameQueueHanded
<1> QED BY <1>1, <1>2, <1>3

LEMMA InitHanded == ASSUME Init PROVE PInv /\ Held = {}
<1>1. Handed /\ Held = {}
  BY DEF Init, Handed, Held
<1> QED BY <1>1, InitInv DEF PInv

LEMMA PromiseInvariance == Spec /\ [][EvictsNothing]_vars => []PInv
<1>1. Init => PInv
  BY InitHanded
<1>2. PInv /\ [Next]_vars /\ [EvictsNothing]_vars => PInv'
  BY HandedStep
<1> QED BY <1>1, <1>2, PTL DEF Spec

-----------------------------------------------------------------------------
(* A durable queue implements Delivery.                                    *)

LEMMA SameSinkDelivered == ASSUME UNCHANGED sink PROVE UNCHANGED Delivered
BY DEF Delivered, Whole

\* Consuming a file delivers the head of the queue.
LEMMA ConsumeDelivers ==
    ASSUME PInv, Durable, NEW b \in BOOLEAN, Consume(b)
    PROVE  \E f \in Held : Delivered' = Delivered \cup {f} /\ f \in Files
<1> USE DEF PInv
<1> DEFINE s == [file |-> current_file, chunks |-> Placed]
<1>1. s = Whole(current_file) /\ s \in Artifact
  BY LastChunk DEF Consume
<1>2. sink' = Append(sink, s) /\ sink \in Seq(Artifact)
  BY DEF Consume, IInv, TypeInv, TypeOK, HubTypeOK
<1>3. current_file \in Files /\ queue # <<>> /\ current_file = Head(queue)
  BY NextChunk DEF Consume, Prefix, IInv, Core, HeadServed, AtHead
<1>4. current_file \in Held
  <2>1. queue \in Seq(Files)
    BY DEF IInv, TypeInv, TypeOK, EdgeTypeOK
  <2>2. 1 \in DOMAIN queue /\ Head(queue) = queue[1]
    BY <2>1, <1>3
  <2> QED BY <2>2, <1>3 DEF Held
<1> HIDE DEF s
<1>5. DOMAIN sink' = DOMAIN sink \cup {Len(sink) + 1}
      /\ sink'[Len(sink) + 1] = s
      /\ \A i \in DOMAIN sink : sink'[i] = sink[i]
  BY <1>1, <1>2
<1>6. \A f \in Files : Whole(f)' = Whole(f) /\ (s = Whole(f) <=> f = current_file)
  BY <1>1, <1>3 DEF Whole
<1>7. Delivered' = Delivered \cup {current_file}
  BY <1>3, <1>5, <1>6 DEF Delivered
<1> QED BY <1>3, <1>4, <1>7

\* Whatever leaves the queue and the sink alone is a stutter of Delivery.
LEMMA OthersLeaveSink ==
    ASSUME Next, \A b \in BOOLEAN : ~Consume(b)
    PROVE  UNCHANGED sink
BY DEF Next, Edge, Hub, EdgeReboot, HubReboot, Enqueue, Pump, ListenTimeout,
   CannotOpen, NothingToServe, ReAnnounce, ServeChunk, ServeMetadata,
   AnswerPoll, FinalOk, SendReply, BeginVisit, EndVisit, Handshake, AskOk,
   AskMetadata, AskData, AskRound, ClosingPoll, Connected, SetMetadata,
   ReAnnounced, ChunkRefused, Reopen, EmptyChunk, AddChunk, ConsumeFails,
   WrongAnswer, Unanswered, ClosingAnswered, ClosingUnanswered

LEMMA PromiseStep ==
    ASSUME PInv, Durable, Steady, [Next]_vars, [EvictsNothing]_vars
    PROVE  [Promise!Next]_(Promise!vars)
<1> USE DEF PInv
<1>0. UNCHANGED <<Held, Delivered, retired>> => UNCHANGED Promise!vars
  BY DEF Promise!vars, Held
<1>1. ASSUME NEW f \in Files, Enqueue(f), EvictsNothing
      PROVE  Promise!Accept(f)
  <2>1. Held' = Held \cup {f} /\ f \notin Held \cup retired
    BY <1>1, EnqueueHanded DEF EvictsNothing
  <2>2. UNCHANGED <<Delivered, retired>>
    BY <1>1, SameSinkDelivered DEF Enqueue
  <2> QED BY <2>1, <2>2 DEF Promise!Accept, Held
<1>2. ASSUME NEW b \in BOOLEAN, Consume(b)
      PROVE  \E f \in Files : Promise!Deliver(f)
  <2>1. UNCHANGED <<queue, retired>> /\ Held' = Held
    BY <1>2 DEF Consume, Heard, Held
  <2> QED BY <1>2, <2>1, ConsumeDelivers DEF Promise!Deliver, Held
<1>3. ASSUME NEW f \in Files, f = file, FinalOk PROVE Promise!Credit(f)
  <2>1. Held' = Held \ {f} /\ file \in Files /\ retired' = retired \cup {f}
    BY <1>3, FinalOkHanded DEF FinalOk
  <2>2. UNCHANGED Delivered
    BY <1>3, SameSinkDelivered DEF FinalOk
  <2>3. file \in Delivered
    <3>1. edgeRx.kind = "OK" /\ IsFinalOk
      BY <1>3 DEF FinalOk, Hears
    <3>2. state # "PROCESS_CHUNK_STATE"
      BY <3>1, FrameFields DEF IInv, Core, InStep
    <3> QED BY <3>1, <3>2 DEF IInv, Core, Served
  <2>4. file \in Held
    <3>1. queue \in Seq(Files) /\ queue # <<>> /\ file = Head(queue)
      BY <2>1, FilesAssumption
         DEF IInv, TypeInv, TypeOK, EdgeTypeOK, Core, HeadServed, AtHead
    <3>2. 1 \in DOMAIN queue /\ Head(queue) = queue[1]
      BY <3>1
    <3> QED BY <3>1, <3>2 DEF Held
  <2> QED BY <1>3, <2>1, <2>2, <2>3, <2>4 DEF Promise!Credit, Held
<1>4. ASSUME Next, \A f \in Files : ~Enqueue(f), ~FinalOk, \A b \in BOOLEAN : ~Consume(b)
      PROVE  UNCHANGED <<Held, Delivered, retired>>
  <2>1. UNCHANGED Delivered
    BY <1>4, OthersLeaveSink, SameSinkDelivered
  <2>2. UNCHANGED <<Held, retired>>
    BY <1>4, EdgeRebootHanded, OthersLeaveQueue, SameQueueHanded
       DEF Pump, EdgeReboot, Held
  <2> QED BY <2>1, <2>2
<1>5. CASE UNCHANGED vars
  BY <1>0, <1>5, SameQueueHanded, SameSinkDelivered
<1>6. CASE Next /\ EvictsNothing
  <2>1. ASSUME NEW f \in Files, Enqueue(f) PROVE Promise!Next
    BY <1>1, <1>6, <2>1 DEF Promise!Next
  <2>2. ASSUME NEW b \in BOOLEAN, Consume(b) PROVE Promise!Next
    BY <1>2, <2>2 DEF Promise!Next
  <2>3. ASSUME FinalOk PROVE Promise!Next
    <3>1. file \in Files
      BY <2>3, FinalOkHanded
    <3> QED BY <1>3, <2>3, <3>1 DEF Promise!Next
  <2> QED BY <1>0, <1>4, <1>6, <2>1, <2>2, <2>3
<1> QED BY <1>5, <1>6

\* A durable queue keeps the promise of Delivery: in the open mode, with a Hub
\* that neither restarts nor fails to store and a queue that evicts nothing,
\* a file handed over stays queued until its bytes, whole, are in the sink.
THEOREM DurableQueueKeepsPromise ==
    ASSUME Durable, Steady
    PROVE  Spec /\ [][EvictsNothing]_vars => KeepsPromise
<1>1. Init => Promise!Init
  BY InitHanded DEF Init, Promise!Init, Held, Delivered
<1>2. PInv /\ [Next]_vars /\ [EvictsNothing]_vars => [Promise!Next]_(Promise!vars)
  BY PromiseStep
<1> QED BY <1>1, <1>2, PromiseInvariance, PTL
   DEF Spec, KeepsPromise, Promise!Spec
-----------------------------------------------------------------------------
(* No file is consumed twice while its Edge stays up.                      *)

LEMMA EnqueueOnce ==
    ASSUME PInv, OnceInv, NEW f \in Files, ~Durable \/ Len(queue) < QueueSize,
           Enqueue(f)
    PROVE  OnceInv'
<1>1. Held' \subseteq Held \cup {f} /\ Consumed' = Consumed /\ f \notin Consumed
  BY EnqueueHanded DEF PInv, Enqueue, OnceInv, Fresh, Consumed
<1>2. Distinct'
  BY DEF Enqueue, OnceInv, Distinct
<1> QED
  BY <1>1, <1>2
     DEF Enqueue, OnceInv, Fresh, LastServed, Settled, InFlight, IsFinalOk

LEMMA PumpOnce == ASSUME PInv, OnceInv, Pump PROVE OnceInv'
<1> USE DEF PInv, IInv, TypeInv, TypeOK
<1>1. Held' = Held /\ Consumed' = Consumed /\ Distinct'
  BY DEF Pump, OnceInv, Held, Consumed, Distinct
<1>2. CASE file # NoFile \/ queue = <<>>
  BY <1>1, <1>2
     DEF Pump, OnceInv, Fresh, LastServed, Settled, InFlight, IsFinalOk
<1>3. CASE file = NoFile /\ queue # <<>>
  <2>1. queue \in Seq(Files) /\ 1 \in DOMAIN queue /\ Head(queue) = queue[1]
    BY <1>3 DEF EdgeTypeOK
  <2>2. file' \in Held /\ Held \subseteq Files
    BY <1>3, <2>1 DEF Pump, Held
  <2>3. Consumed \cap Held = {}
    BY <1>3, <2>2, FilesAssumption DEF OnceInv, Fresh
  <2>4. \A p \in InFlight : p.kind # "DATA"
    BY <1>3, FilesAssumption DEF OnceInv, LastServed, Frames
  <2> QED
    BY <1>1, <2>2, <2>3, <2>4
       DEF Pump, OnceInv, Fresh, LastServed, Settled, InFlight
<1> QED BY <1>2, <1>3

LEMMA FinalOkOnce == ASSUME PInv, OnceInv, FinalOk PROVE OnceInv'
<1> USE DEF PInv, IInv, TypeInv
<1>1. Held' = Held \ {file} /\ Consumed' = Consumed /\ Distinct'
  BY FinalOkHanded DEF FinalOk, OnceInv, Consumed, Distinct
<1>2. reply = NoFrame /\ hubRx = NoFrame /\ UNCHANGED <<reply, hubRx>>
  BY FrameFields DEF FinalOk, Hears, Silence, OneAnswer
<1>3. NoFile \notin Consumed
  BY FilesAssumption DEF OnceInv, Fresh, TypeOK, EdgeTypeOK
<1> QED
  BY <1>1, <1>2, <1>3, FrameFields
     DEF FinalOk, OnceInv, Fresh, LastServed, Settled, InFlight

\* What the Edge hears while a file of its own is consumed is an OK.
LEMMA EdgeOnce ==
    ASSUME PInv, OnceInv, NEW b \in BOOLEAN,
           \/ ListenTimeout \/ CannotOpen \/ NothingToServe \/ ReAnnounce
           \/ ServeChunk \/ ServeMetadata \/ AnswerPoll \/ SendReply(b)
    PROVE  OnceInv'
<1> USE FrameFields DEF PInv, IInv, TypeInv, TypeOK, OnceInv, InFlight
<1>1. Held' = Held /\ Consumed' = Consumed /\ Distinct'
  BY DEF ListenTimeout, CannotOpen, NothingToServe, ReAnnounce, ServeChunk,
     ServeMetadata, AnswerPoll, SendReply, Held, Consumed, Distinct
<1>2. UNCHANGED <<produced, file, state, current_file>>
  BY DEF ListenTimeout, CannotOpen, NothingToServe, ReAnnounce, ServeChunk,
     ServeMetadata, AnswerPoll, SendReply
<1>3. CASE ListenTimeout \/ CannotOpen \/ NothingToServe
  BY <1>1, <1>2, <1>3 DEF ListenTimeout, CannotOpen, NothingToServe, Hears,
     Silence, Fresh, LastServed, Settled, IsFinalOk
<1>4. CASE ReAnnounce
  BY <1>1, <1>2, <1>4 DEF ReAnnounce, Hears, Answer, Fresh, LastServed,
     Settled, IsFinalOk
<1>5. CASE ServeMetadata
  BY <1>1, <1>2, <1>5 DEF ServeMetadata, Hears, Answer, Fresh, LastServed,
     Settled, IsFinalOk
<1>6. CASE ServeChunk
  BY <1>1, <1>2, <1>6 DEF ServeChunk, Hears, Answer, Fresh, LastServed,
     Settled, OneAnswer
<1>7. CASE AnswerPoll
  BY <1>1, <1>2, <1>7 DEF AnswerPoll, Hears, Answer, Fresh, LastServed,
     Settled, IsFinalOk
<1>8. CASE SendReply(b)
  BY <1>1, <1>2, <1>8 DEF SendReply, Arrives, Lost, Fresh, LastServed,
     Settled, IsFinalOk
<1> QED BY <1>3, <1>4, <1>5, <1>6, <1>7, <1>8

\* The file consumed is the one being served, and its tail the last chunk
\* served of it.
LEMMA ConsumeOnce ==
    ASSUME PInv, OnceInv, NEW b \in BOOLEAN, Consume(b)
    PROVE  OnceInv'
<1> USE FrameFields DEF PInv, IInv, TypeInv, TypeOK, OnceInv, InFlight
<1> DEFINE s == [file |-> current_file, chunks |-> Placed]
<1>1. /\ state = "PROCESS_CHUNK_STATE" /\ Prefix
      /\ hubRx = DataFrame(current_file, Len(chunks))
      /\ edgeRx = NoFrame /\ reply = NoFrame
  BY NextChunk DEF Consume
<1>2. file = current_file /\ last_chunk_sent = NChunks[file] /\ file # NoFile
  BY <1>1, FilesAssumption DEF LastServed, Consume, IsLast, Prefix
<1>3. s \in Artifact /\ sink' = Append(sink, s) /\ sink \in Seq(Artifact)
  BY LastChunk DEF Consume, HubTypeOK
<1>4. s.file = file
  BY <1>2
<1>5. /\ DOMAIN sink' = DOMAIN sink \cup {Len(sink) + 1}
      /\ Len(sink) + 1 \notin DOMAIN sink
      /\ sink'[Len(sink) + 1] = s
      /\ \A i \in DOMAIN sink : sink'[i] = sink[i]
  BY <1>3
<1> HIDE DEF s
<1>6. Consumed' = Consumed \cup {file} /\ file \notin Consumed
  BY <1>1, <1>2, <1>4, <1>5 DEF Consumed, Fresh
<1>7. Distinct'
  BY <1>4, <1>5, <1>6 DEF Distinct, Consumed
<1>8. UNCHANGED <<produced, file, last_chunk_sent, reply>> /\ Held' = Held
      /\ state' = "OK" /\ hubRx' = NoFrame /\ edgeRx' \in {NoFrame, OkFrame}
  BY <1>1 DEF Consume, Heard, Transmit, Arrives, Lost, Held
<1>9. Fresh' /\ Settled'
  BY <1>1, <1>2, <1>6, <1>8 DEF Fresh, Settled, Handed, IsFinalOk
<1>10. LastServed'
  BY <1>1, <1>8 DEF LastServed
<1> QED BY <1>7, <1>9, <1>10

\* The other steps of the Hub move the endpoint on only if the file being
\* served is not a consumed one, and then collect no consumed one.
MovesOn ==
    /\ file \notin Consumed
    /\ state' = "PROCESS_CHUNK_STATE" => current_file' \notin Consumed

LEMMA HubOnce ==
    ASSUME PInv, OnceInv,
           UNCHANGED <<produced, queue, file, last_chunk_sent, reply, sink>>,
           hubRx' \in {hubRx, NoFrame},
           edgeRx' \in {edgeRx, OkFrame, NoFrame} \/ state # "OK",
           \/ state' = "OK"
           \/ UNCHANGED <<state, current_file>>
           \/ MovesOn
    PROVE  OnceInv'
<1> USE FrameFields DEF OnceInv, InFlight
<1>1. Held' = Held /\ Consumed' = Consumed /\ Distinct'
  BY DEF Held, Consumed, Distinct
<1>2. Fresh' /\ LastServed'
  BY <1>1 DEF Fresh, LastServed, MovesOn
<1>3. Settled'
  BY <1>1 DEF Settled, IsFinalOk, MovesOn
<1> QED BY <1>1, <1>2, <1>3

LEMMA HubStepOnce ==
    ASSUME PInv, OnceInv, Hub \/ HubReboot, \A b \in BOOLEAN : ~Consume(b)
    PROVE  OnceInv'
<1>1. ASSUME \/ BeginVisit \/ EndVisit \/ ClosingAnswered \/ ClosingUnanswered
             \/ Unanswered \/ EmptyChunk \/ WrongAnswer \/ AddChunk
             \/ HubReboot \/ \E b \in BOOLEAN : Handshake(b)
      PROVE  OnceInv'
  <2>1. /\ UNCHANGED <<produced, queue, file, last_chunk_sent, reply, sink>>
        /\ hubRx' \in {hubRx, NoFrame} /\ edgeRx' \in {edgeRx, NoFrame}
    BY <1>1 DEF BeginVisit, EndVisit, ClosingAnswered, ClosingUnanswered,
       Unanswered, EmptyChunk, WrongAnswer, AddChunk, HubReboot, Handshake, Heard
  <2>2. state' = "OK" \/ UNCHANGED <<state, current_file>>
    BY <1>1 DEF BeginVisit, EndVisit, ClosingAnswered, ClosingUnanswered,
       Unanswered, EmptyChunk, WrongAnswer, AddChunk, HubReboot, Handshake,
       VisitOver, SessionVisitEnd, Rearm
  <2> QED BY <2>1, <2>2, HubOnce
<1>2. ASSUME NEW b \in BOOLEAN,
             AskOk(b) \/ AskMetadata(b) \/ AskData(b) \/ ClosingPoll(b)
      PROVE  OnceInv'
  <2>1. /\ UNCHANGED <<produced, queue, file, last_chunk_sent, reply, sink, state, current_file>>
        /\ hubRx' \in {hubRx, NoFrame}
        /\ edgeRx' \in {edgeRx, OkFrame, NoFrame} \/ state # "OK"
    BY <1>2 DEF AskOk, AskMetadata, AskData, AskRound, ClosingPoll, Ask,
       Transmit, Arrives, Lost
  <2> QED BY <2>1, HubOnce
<1>3. ASSUME Connected \/ SetMetadata \/ ReAnnounced \/ ChunkRefused \/ ConsumeFails
      PROVE  OnceInv'
  <2>1. /\ UNCHANGED <<produced, queue, file, last_chunk_sent, reply, sink, edgeRx>>
        /\ hubRx' = NoFrame /\ hubRx # NoFrame
    BY <1>3, FrameFields DEF Connected, SetMetadata, ReAnnounced, ChunkRefused,
       ConsumeFails, Reopen, Heard
  <2>2. file \notin Consumed
    BY <2>1 DEF OnceInv, Settled
  <2>3. state' = "PROCESS_CHUNK_STATE" => current_file' \notin Consumed
    BY <1>3 DEF Connected, SetMetadata, ReAnnounced, ChunkRefused,
       ConsumeFails, Reopen, Heard, OnceInv, Fresh, InFlight
  <2> QED BY <2>1, <2>2, <2>3, HubOnce DEF MovesOn
<1> QED BY <1>1, <1>2, <1>3 DEF Hub

LEMMA EdgeRebootsOnly ==
    ASSUME [Next]_vars PROVE edgeReboots' \in {edgeReboots, edgeReboots + 1}
BY DEF Next, Edge, Hub, EdgeReboot, HubReboot, Enqueue, Pump, ListenTimeout,
   CannotOpen, NothingToServe, ReAnnounce, ServeChunk, ServeMetadata,
   AnswerPoll, FinalOk, SendReply, BeginVisit, EndVisit, Handshake, AskOk,
   AskMetadata, AskData, AskRound, Consume, ClosingPoll, Connected, SetMetadata,
   ReAnnounced, ChunkRefused, Reopen, EmptyChunk, AddChunk, ConsumeFails,
   WrongAnswer, Unanswered, ClosingAnswered, ClosingUnanswered

LEMMA OnceStep ==
    ASSUME PInv, Once, [Next]_vars, [EvictsNothing]_vars
    PROVE  Once'
<1> SUFFICES ASSUME edgeReboots' = 0 PROVE OnceInv'
  BY DEF Once
<1>1. ~EdgeReboot /\ OnceInv
  <2>1. edgeReboots' \in {edgeReboots, edgeReboots + 1} /\ edgeReboots \in Nat
    <3>1. edgeReboots' \in {edgeReboots, edgeReboots + 1}
      BY EdgeRebootsOnly
    <3> QED BY <3>1, TuningAssumption
       DEF PInv, IInv, TypeInv, TypeOK, BoundTypeOK
  <2>2. edgeReboots = 0
    BY <2>1
  <2> QED BY <2>2 DEF Once, EdgeReboot
<1>2. CASE UNCHANGED vars
  BY <1>1, <1>2, HubOnce
<1>3. CASE Next /\ EvictsNothing
  <2>1. ASSUME NEW f \in Files, Enqueue(f) PROVE OnceInv'
    BY <1>1, <1>3, <2>1, EnqueueOnce DEF EvictsNothing
  <2>2. ASSUME NEW b \in BOOLEAN, SendReply(b) PROVE OnceInv'
    BY <1>1, <2>2, EdgeOnce
  <2>3. CASE Edge
    BY <1>1, <2>1, <2>2, <2>3, PumpOnce, FinalOkOnce, EdgeOnce DEF Edge
  <2>4. CASE Hub \/ HubReboot
    BY <1>1, <2>4, ConsumeOnce, HubStepOnce
  <2> QED BY <1>1, <1>3, <2>3, <2>4 DEF Next
<1> QED BY <1>2, <1>3

\* Whatever is lost, late, restarted at the Hub or refused by its sink, as
\* long as the Edge stays up and a durable queue evicts nothing, no file is
\* consumed twice.
THEOREM ConsumedOnce ==
    Spec /\ [][EvictsNothing]_vars => []OnceUnlessEdgeReboots
<1>1. Init => Once
  BY FrameFields DEF Init, Once, OnceInv, Fresh, LastServed, Settled, Distinct,
     Consumed, Held, InFlight
<1>2. PInv /\ Once /\ [Next]_vars /\ [EvictsNothing]_vars => Once'
  BY OnceStep
<1>3. Once => OnceUnlessEdgeReboots
  BY DEF Once, OnceInv, Distinct, OnceUnlessEdgeReboots
<1> QED BY <1>1, <1>2, <1>3, PromiseInvariance, PTL DEF Spec

\* With the queue in RAM that needs no proviso.
THEOREM ConsumedOnceFromRAM ==
    ASSUME ~Durable PROVE Spec => []OnceUnlessEdgeReboots
<1>1. EvictsNothing
  BY DEF EvictsNothing
<1> QED BY <1>1, ConsumedOnce, PTL
=============================================================================
