---------------------------- MODULE RoundsProofs ----------------------------
(***************************************************************************)
(* The theorems about the components MCRounds puts side by side, stated of *)
(* MCRounds.  Each is proved here of the component's own specification,    *)
(* whose theorem says so, and carries over since a step of MCRounds is a   *)
(* step of that component or leaves its variables alone.                   *)
(***************************************************************************)
EXTENDS MCRounds, SequenceTheorems, TLAPS

-----------------------------------------------------------------------------
(* What is kept of a radio configuration (RFTrial).  Three things could    *)
(* leave a configuration on file that no full chunk crossed on: a trial    *)
(* the Edge commits for a file it had given before the change, a final-OK  *)
(* it is not owed, and a probe that settles where nothing was completed.   *)
(* The invariant follows the file (FileInv, TailInv), the one change there *)
(* is (OneChange, QueuedOnce) and the probe (ProbeInv).                    *)

Known == proven \cup {Factory}

TrialTypes ==
    /\ {cfg, last, conf, roster} \subseteq Configs
    /\ view \in Configs /\ trial \in Retune!Trials \cup {None}
    /\ mirror \in Configs \cup {None}
    /\ pc = "asking" => want \in Configs
    /\ sent \in 0 .. NChunks /\ next \in Nat /\ changes \in {0, 1} /\ restarts \in Nat
    /\ downlink \in Seq([cfg : Configs \cup {None}, genuine : BOOLEAN])

\* A file begun is announced, and asked for chunk by chunk, on a radio that
\* answers; a change finds none of it.
FileInv ==
    /\ ~announced => sent = 0
    /\ pc = "asking" => state # "PROCESS_CHUNK"
    /\ state = "PROCESS_CHUNK" /\ sf_trial /\ sent # 0 /\ next > sent => cfg \in proven
    /\ state = "PROCESS_CHUNK" /\ (sf_trial \/ moved = {}) => Carries[cfg] \in {"short", "all"}

\* An Edge that gave its tail chunk on a radio nothing was proven on waits there
\* for a final-OK it cannot be sent: the Hub asks for that chunk again, or went back.
WentBack == /\ trial = None /\ changes = 1 /\ mirror = None /\ pc # "asking"
            /\ pc \in {"visit", "closing"} => tuned = view
TailInv ==
    /\ sf_trial /\ sent = NChunks /\ cfg \notin Known
          => ~Retune!NoShort /\ (state = "PROCESS_CHUNK" \/ WentBack)
    /\ moved = {} \/ pc = "asking"
          => sent < NChunks \/ (state = "PROCESS_CHUNK" /\ Carries[Factory] = "short")

\* One change is on its way, asked, or on probe.
OneChange ==
    /\ MaxHubRestarts = 0 => restarts = 0
    /\ changes = 0 => moved = {} /\ pc # "asking" /\ mirror = None /\ trial = None
    /\ mirror # None => pc # "asking" /\ trial = None
    /\ pc = "asking" => trial = None
    /\ moved = {} => cfg = Factory /\ last = Factory /\ conf = Factory /\ ~sf_trial

\* Its artifact is one item of the downlink, and the Edge has not moved.
Retunes(i) == i \in 1 .. Len(downlink) /\ downlink[i].cfg # None
QueuedOnce ==
    /\ \A i \in Nat : Retunes(i) => moved = {} /\ changes = 1 /\ pc # "asking"
    /\ \A i, j \in Nat : Retunes(i) /\ Retunes(j) => i = j

\* What the Hub goes back to, or settles on, is known.
ProbeInv ==
    /\ trial = None => view = roster
    /\ trial # None => trial.old \in Known
    /\ pc = "visit" => tuned = view
    /\ pc = "visit" /\ completed => view \in proven \/ (trial # None /\ trial.fresh)

ProvenInv ==
    /\ TrialTypes /\ FileInv /\ TailInv /\ OneChange /\ QueuedOnce /\ ProbeInv
    /\ Retune!OnlyProven

USE DEF Retune!vars, Retune!hubVars, Retune!edgeVars, Retune!ghostVars, Retune!boundVars,
    Retune!probeVars, Retune!queueVars, Retune!askVars,
        Retune!driveVars, Retune!sessionVars, Retune!edgeRf, Retune!edgeFile

LEMMA Mirrored ==
    ASSUME Retune!TrialAssumption, view \in Configs, NEW c \in Configs, NEW mid \in BOOLEAN,
           Retune!Mirror(c, mid)
    PROVE  /\ trial' \in Retune!Trials /\ trial' # None /\ trial'.old = view
           /\ trial'.fresh = mid
           /\ view' = c /\ roster' = roster
BY DEF Retune!TrialAssumption, Retune!RetuneAssumption, Retune!Mirror, Retune!Trials

LEMMA Queued ==
    ASSUME NEW S, NEW q \in Seq(S), NEW e \in S
    PROVE  /\ Append(q, e) \in Seq(S) /\ Len(Append(q, e)) = Len(q) + 1 /\ Len(q) \in Nat
           /\ \A i \in 1 .. Len(q) : Append(q, e)[i] = q[i]
           /\ Append(q, e)[Len(q) + 1] = e
BY AppendProperties

LEMMA Taken ==
    ASSUME NEW S, NEW q \in Seq(S), q # <<>>
    PROVE  /\ Tail(q) \in Seq(S) /\ Len(Tail(q)) = Len(q) - 1 /\ Len(q) \in Nat \ {0}
           /\ Head(q) = q[1] /\ Head(q) \in S
           /\ \A i \in 1 .. Len(q) - 1 : Tail(q)[i] = q[i + 1]
BY HeadTailProperties, EmptySeq

LEMMA TrialOperator ==
    ASSUME Retune!TrialAssumption, ProvenInv,
           Retune!Operator \/ Retune!NewFile \/ Retune!VisitOther
    PROVE  ProvenInv'
<1> USE DEF Retune!TrialAssumption, Retune!RetuneAssumption, ProvenInv, TrialTypes,
    FileInv, WentBack,
            TailInv, OneChange, QueuedOnce, Retunes, ProbeInv, Retune!OnlyProven,
            Retune!ProbeIdle, Known
<1>1. ASSUME NEW c \in Configs, Retune!AskInBand(c) PROVE ProvenInv'
  <2>1. changes = 0 /\ changes' = 1 /\ state # "PROCESS_CHUNK" /\ pc' = "asking" /\ want' = c
    BY <1>1 DEF Retune!AskInBand
  <2>2. UNCHANGED <<Retune!probeVars, tuned, Retune!queueVars, Retune!driveVars,
                    Retune!edgeRf, Retune!edgeFile, Retune!ghostVars, restarts>>
    BY <1>1 DEF Retune!AskInBand
  <2>3. QueuedOnce'
    BY <2>1, <2>2
  <2>4. TailInv'
    BY <2>1, <2>2
  <2> QED BY <2>1, <2>2, <2>3, <2>4
<1>2. ASSUME NEW c \in Configs, NEW genuine \in BOOLEAN, Retune!AskSigned(c, genuine)
      PROVE  ProvenInv'
  <2>1. /\ changes = 0 /\ changes' = 1 /\ mirror' = c
        /\ downlink' = Append(downlink, [cfg |-> c, genuine |-> genuine])
        /\ UNCHANGED <<view, roster, trial, tuned, pc, want, Retune!driveVars,
                       Retune!edgeRf, Retune!edgeFile, Retune!ghostVars, restarts>>
    BY <1>2 DEF Retune!AskSigned, Retune!Item
  <2>2. [cfg |-> c, genuine |-> genuine] \in [cfg : Configs \cup {None}, genuine : BOOLEAN]
    OBVIOUS
  <2>3. /\ downlink' \in Seq([cfg : Configs \cup {None}, genuine : BOOLEAN])
        /\ Len(downlink') = Len(downlink) + 1 /\ Len(downlink) \in Nat
        /\ \A i \in 1 .. Len(downlink) : downlink'[i] = downlink[i]
    BY <2>1, <2>2, Queued
  <2>4. \A i \in Nat : ~Retunes(i)
    BY <2>1
  <2>5. \A i \in Nat : Retunes(i)' => i = Len(downlink) + 1
    BY <2>3, <2>4
  <2>6. QueuedOnce'
    BY <2>1, <2>5
  <2>7. TailInv' /\ FileInv'
    BY <2>1
  <2> QED BY <2>1, <2>3, <2>6, <2>7
<1>3. CASE Retune!QueuePlain
  <2>1. /\ downlink' = Append(downlink, [cfg |-> None, genuine |-> FALSE])
        /\ UNCHANGED <<Retune!probeVars, tuned, mirror, pc, want, Retune!driveVars,
                       Retune!edgeRf, Retune!edgeFile, Retune!ghostVars, changes,
                       restarts>>
    BY <1>3 DEF Retune!QueuePlain, Retune!Item
  <2>2. [cfg |-> None, genuine |-> FALSE] \in [cfg : Configs \cup {None}, genuine : BOOLEAN]
    OBVIOUS
  <2>3. /\ downlink' \in Seq([cfg : Configs \cup {None}, genuine : BOOLEAN])
        /\ Len(downlink') = Len(downlink) + 1 /\ Len(downlink) \in Nat
        /\ \A i \in 1 .. Len(downlink) : downlink'[i] = downlink[i]
        /\ downlink'[Len(downlink) + 1] = [cfg |-> None, genuine |-> FALSE]
    BY <2>1, <2>2, Queued
  <2>4. \A i \in Nat : Retunes(i)' => Retunes(i)
    BY <2>3
  <2>5. QueuedOnce'
    BY <2>1, <2>4
  <2>6. TailInv' /\ FileInv'
    BY <2>1
  <2> QED BY <2>1, <2>3, <2>5, <2>6
<1>4. CASE Retune!NewFile
  BY <1>4 DEF Retune!NewFile
<1>5. CASE Retune!VisitOther
  BY <1>5 DEF Retune!VisitOther
<1> QED BY <1>1, <1>2, <1>3, <1>4, <1>5 DEF Retune!Operator

\* An OK that is heard holds a trial, or ends a file: and then the radio it
\* ends on is known.
OkDid ==
    /\ cfg' = cfg /\ last' = last
    /\ \/ UNCHANGED <<conf, sf_trial, announced, sent>>
       \/ /\ conf' = (IF sf_trial THEN cfg ELSE conf) /\ (sf_trial => cfg \in Known)
          /\ ~sf_trial' /\ ~announced' /\ sent' = 0

LEMMA OkEffect ==
    ASSUME Retune!TrialAssumption, ProvenInv, NEW got \in BOOLEAN, Retune!Arrives(got),
           IF got THEN Retune!HearsOk ELSE Retune!EdgeSilent,
           pc \in {"asking", "visit", "closing"}, state # "PROCESS_CHUNK"
    PROVE  OkDid
<1> USE DEF Retune!TrialAssumption, Retune!RetuneAssumption, ProvenInv, TrialTypes,
    FileInv, WentBack,
            TailInv, OneChange, QueuedOnce, Retunes, ProbeInv, Retune!OnlyProven,
            Retune!ProbeIdle, Known
<1>1. CASE ~got
  BY <1>1 DEF OkDid, Retune!EdgeSilent
<1>2. CASE got /\ ~Retune!IsFinalOk
  BY <1>2 DEF OkDid, Retune!HearsOk, Retune!HoldTrial
<1>3. CASE got /\ Retune!IsFinalOk
  <2>1. sf_trial => cfg \in Known
    <3>1. cfg = tuned /\ sent = NChunks
      BY <1>3 DEF Retune!Arrives, Retune!CanHear, Retune!IsFinalOk
    <3>2. pc # "asking"
      BY <3>1
    <3>3. WentBack /\ trial = None => tuned = roster
      BY <3>2
    <3> QED BY <3>1, <3>2, <3>3
  <2> QED BY <1>3, <2>1 DEF OkDid, Retune!HearsOk, Retune!CommitTrial
<1> QED BY <1>1, <1>2, <1>3

LEMMA TrialEdge ==
    ASSUME Retune!TrialAssumption, ProvenInv, Retune!Turn \/ Retune!EdgeReboot
    PROVE  ProvenInv'
<1> USE DEF Retune!TrialAssumption, Retune!RetuneAssumption, ProvenInv, TrialTypes,
    FileInv, WentBack,
            TailInv, OneChange, QueuedOnce, Retunes, ProbeInv, Retune!OnlyProven,
            Retune!ProbeIdle, Known
<1>1. CASE Retune!Turn
  <2>1. \/ sf_trial' = FALSE /\ cfg' = last
        \/ UNCHANGED <<cfg, sf_trial>>
    BY <1>1 DEF Retune!Turn, Retune!RestoreTrial
  <2>2. UNCHANGED <<Retune!hubVars, conf, last, Retune!edgeFile, Retune!ghostVars,
                    Retune!boundVars>>
    BY <1>1 DEF Retune!Turn, Retune!RestoreTrial
  <2>3. QueuedOnce'
    BY <2>2
  <2>4. moved' # {}
    BY <1>1, <2>2 DEF Retune!Turn
  <2>5. FileInv' /\ TailInv'
    BY <2>1, <2>2, <2>4
  <2>6. OneChange' /\ ProbeInv'
    BY <2>1, <2>2, <2>4
  <2> QED BY <2>1, <2>2, <2>3, <2>5, <2>6
<1>2. CASE Retune!EdgeReboot
  <2>1. /\ cfg' = conf /\ last' = conf /\ conf' = conf /\ ~sf_trial' /\ ~announced'
        /\ sent' = 0
        /\ UNCHANGED <<Retune!hubVars, Retune!ghostVars, changes, restarts>>
    BY <1>2 DEF Retune!EdgeReboot
  <2>2. QueuedOnce'
    BY <2>1
  <2>3. FileInv' /\ TailInv'
    BY <2>1
  <2> QED BY <2>1, <2>2, <2>3
<1> QED BY <1>1, <1>2

LEMMA TrialAsk == ASSUME Retune!TrialAssumption, ProvenInv, Retune!Ask PROVE ProvenInv'
<1> USE DEF Retune!TrialAssumption, Retune!RetuneAssumption, ProvenInv, TrialTypes,
    FileInv, WentBack,
            TailInv, OneChange, QueuedOnce, Retunes, ProbeInv, Retune!OnlyProven,
            Retune!ProbeIdle, Known
<1>1. ASSUME NEW got \in BOOLEAN, NEW back \in BOOLEAN, Retune!TryCommand(got, back)
      PROVE  ProvenInv'
  <2>1. /\ pc = "asking" /\ want \in Configs /\ trial = None /\ mirror = None
        /\ changes = 1
        /\ state # "PROCESS_CHUNK" /\ sent < NChunks /\ conf' = conf
        /\ UNCHANGED <<tuned, Retune!queueVars, want, Retune!driveVars, Retune!edgeFile,
                       proven, Retune!boundVars>>
    BY <1>1 DEF Retune!TryCommand, Retune!ChangeRfConfig
  <2>2. \/ last' = cfg /\ cfg' = want /\ sf_trial' = TRUE /\ moved' = moved \cup {want}
        \/ UNCHANGED <<cfg, last, sf_trial, moved>>
    BY <1>1 DEF Retune!TryCommand, Retune!ChangeRfConfig
  <2>3. \A i \in Nat : ~Retunes(i)
    BY <2>1
  <2>4. QueuedOnce'
    BY <2>1, <2>3
  <2>5. pc' \in {"between", "asking"} /\ UNCHANGED roster
    BY <1>1, <2>1 DEF Retune!TryCommand, Retune!Mirror
  <2>6. FileInv' /\ TailInv'
    BY <2>1, <2>2, <2>5
  <2>7. OneChange' /\ ProbeInv' /\ trial' \in Retune!Trials \cup {None} /\ view' \in Configs
    <3>1. moved' = {} => UNCHANGED <<cfg, last, sf_trial, moved>>
      BY <2>2
    <3>2. CASE back
      <4>1. Retune!Mirror(want, FALSE) /\ pc' = "between"
        BY <1>1, <3>2 DEF Retune!TryCommand
      <4>2. /\ trial' \in Retune!Trials /\ trial' # None /\ trial'.old = view
            /\ view' = want /\ roster' = roster
        BY <2>1, <4>1, Mirrored
      <4> QED BY <2>1, <3>1, <4>1, <4>2
    <3>3. CASE ~back
      <4>1. UNCHANGED <<Retune!probeVars, pc>>
        BY <1>1, <3>3 DEF Retune!TryCommand
      <4> QED BY <2>1, <3>1, <4>1
    <3> QED BY <3>2, <3>3
  <2> QED BY <2>1, <2>2, <2>4, <2>5, <2>6, <2>7
<1>2. ASSUME NEW got \in BOOLEAN, NEW back \in BOOLEAN, Retune!Diagnose(got, back)
      PROVE  ProvenInv'
  <2>1. OkDid /\ state # "PROCESS_CHUNK"
    BY <1>2, OkEffect DEF Retune!Diagnose
  <2>2. /\ pc = "asking" /\ pc' = "between"
        /\ UNCHANGED <<view, roster, trial, tuned, Retune!queueVars, want,
                       Retune!driveVars, Retune!ghostVars, Retune!boundVars>>
    BY <1>2 DEF Retune!Diagnose
  <2>3. QueuedOnce'
    BY <2>2
  <2>4. FileInv' /\ TailInv'
    BY <2>1, <2>2 DEF OkDid
  <2> QED BY <2>1, <2>2, <2>3, <2>4 DEF OkDid
<1> QED BY <1>1, <1>2 DEF Retune!Ask

LEMMA TrialVisit ==
    ASSUME Retune!TrialAssumption, ProvenInv, Retune!Visit PROVE ProvenInv'
<1>1. Retune!OpenVisit /\ pc' \in {"visit", "between"} /\ pc = "between"
  BY DEF Retune!Visit, Retune!BeginVisit, Retune!Handshake
<1>2. /\ UNCHANGED <<Retune!probeVars, Retune!queueVars, Retune!askVars, state, next,
                     Retune!edgeRf, Retune!edgeFile, Retune!ghostVars, Retune!boundVars>>
      /\ tuned' = view /\ completed' = FALSE
  BY <1>1 DEF Retune!OpenVisit
<1> USE DEF Retune!TrialAssumption, Retune!RetuneAssumption, ProvenInv, TrialTypes,
    FileInv, WentBack,
            TailInv, OneChange, QueuedOnce, Retunes, ProbeInv, Retune!OnlyProven,
            Retune!ProbeIdle, Known
<1>3. QueuedOnce'
  BY <1>1, <1>2
<1>4. FileInv' /\ TailInv'
  BY <1>1, <1>2
<1> QED BY <1>1, <1>2, <1>3, <1>4

LEMMA TrialRound ==
    ASSUME Retune!TrialAssumption, ProvenInv, Retune!Round PROVE ProvenInv'
<1> USE DEF Retune!TrialAssumption, Retune!RetuneAssumption, ProvenInv, TrialTypes,
    FileInv, WentBack,
            TailInv, OneChange, QueuedOnce, Retunes, ProbeInv, Retune!OnlyProven,
            Retune!ProbeIdle, Known
<1>1. ASSUME NEW got \in BOOLEAN, NEW back \in BOOLEAN, Retune!AskOk(got, back)
      PROVE  ProvenInv'
  <2>1. OkDid /\ state = "OK" /\ state' \in {"OK", "REQUEST_DATA"}
    BY <1>1, OkEffect DEF Retune!AskOk
  <2>2. UNCHANGED <<Retune!probeVars, tuned, Retune!queueVars, pc, Retune!askVars, next,
                    completed, Retune!ghostVars, Retune!boundVars>>
    BY <1>1 DEF Retune!AskOk, Retune!RoundUnchanged
  <2>3. QueuedOnce'
    BY <2>2
  <2>4. FileInv' /\ TailInv'
    BY <2>1, <2>2 DEF OkDid
  <2> QED BY <2>1, <2>2, <2>3, <2>4 DEF OkDid
<1>2. ASSUME NEW got \in BOOLEAN, NEW back \in BOOLEAN, Retune!AskMetadata(got, back)
      PROVE  ProvenInv'
  <2>1. /\ pc = "visit" /\ state = "REQUEST_DATA" /\ UNCHANGED <<cfg, last, conf,
                                                                 sf_trial, sent>>
        /\ UNCHANGED <<Retune!probeVars, tuned, Retune!queueVars, pc, Retune!askVars,
                       completed, Retune!ghostVars, Retune!boundVars>>
        /\ announced => announced'
    BY <1>2 DEF Retune!AskMetadata, Retune!HoldTrial, Retune!RoundUnchanged
  <2>2. /\ state' = (IF back THEN "PROCESS_CHUNK" ELSE state)
        /\ next' = (IF back THEN 1 ELSE next)
        /\ back => Carries[cfg] \in {"short", "all"}
    BY <1>2 DEF Retune!AskMetadata, Retune!Arrives, Retune!Returns, Retune!CanHear,
        Retune!CanAnswer
  <2>3. QueuedOnce'
    BY <2>1
  <2>4. FileInv'
    BY <2>1, <2>2
  <2>5. TailInv'
    BY <2>1, <2>2
  <2> QED BY <2>1, <2>2, <2>3, <2>4, <2>5
<1>3. ASSUME NEW got \in BOOLEAN, NEW back \in BOOLEAN, Retune!AskReannounced(got, back)
      PROVE  ProvenInv'
  <2>1. /\ UNCHANGED <<Retune!edgeRf, Retune!edgeFile>> /\ sent = 0
        /\ state' \in {"REQUEST_DATA", "PROCESS_CHUNK"}
    BY <1>3 DEF Retune!AskReannounced, Retune!EdgeSilent
  <2>2. /\ pc = "visit" /\ state = "PROCESS_CHUNK"
        /\ UNCHANGED <<Retune!probeVars, tuned, Retune!queueVars, pc, Retune!askVars,
                       next, completed, Retune!ghostVars, Retune!boundVars>>
    BY <1>3 DEF Retune!AskReannounced, Retune!RoundUnchanged
  <2>3. QueuedOnce'
    BY <2>2
  <2>4. FileInv' /\ TailInv'
    BY <2>1, <2>2
  <2> QED BY <2>1, <2>2, <2>3, <2>4
<1>4. ASSUME NEW got \in BOOLEAN, NEW back \in BOOLEAN, Retune!AskChunk(got, back)
      PROVE  ProvenInv'
  <2>1. /\ pc = "visit" /\ state = "PROCESS_CHUNK" /\ announced /\ next < NChunks
        /\ got => cfg = tuned
        /\ back => got
        /\ sent' = (IF got THEN next ELSE sent)
        /\ next' = (IF back THEN next + 1 ELSE next)
        /\ proven' = (IF back THEN proven \cup {tuned} ELSE proven)
        /\ UNCHANGED <<state, completed, announced, pc, Retune!probeVars, tuned,
                       Retune!queueVars, Retune!askVars, Retune!boundVars, moved>>
    BY <1>4 DEF Retune!AskChunk, Retune!RoundUnchanged, Retune!Arrives, Retune!CanHear,
        Retune!Returns
  <2>2. \/ got /\ Retune!Progress /\ Retune!CommitTrial
        \/ UNCHANGED Retune!edgeRf
    BY <1>4 DEF Retune!AskChunk
  <2>3. cfg' = cfg /\ last' = last /\ (~sf_trial' \/ sf_trial' = sf_trial)
    BY <2>2 DEF Retune!CommitTrial
  <2>4. conf' \in Known' /\ conf' \in {conf, cfg} /\ (moved = {} => conf' = conf /\ ~sf_trial')
    <3>1. CASE got /\ Retune!Progress /\ Retune!CommitTrial
      <4>1. sf_trial /\ cfg \in proven /\ conf' = cfg
        BY <2>1, <3>1 DEF Retune!Progress, Retune!CommitTrial
      <4> QED BY <2>1, <4>1
    <3>2. CASE UNCHANGED Retune!edgeRf
      BY <2>1, <3>2
    <3> QED BY <2>2, <3>1, <3>2
  <2>5. FileInv'
    <3>1. sf_trial' /\ sent' # 0 /\ next' > sent' => cfg' \in proven'
      <4>1. CASE got
        BY <2>1, <2>3, <4>1
      <4>2. CASE ~got
        <5>1. UNCHANGED <<sent, next, proven>> /\ UNCHANGED Retune!edgeRf
          BY <2>1, <2>2, <4>2
        <5> QED BY <2>1, <5>1
      <4> QED BY <4>1, <4>2
    <3> QED BY <2>1, <2>3, <2>4, <3>1
  <2>6. TailInv'
    <3>1. CASE got
      BY <2>1, <2>3, <3>1
    <3>2. CASE ~got
      <4>1. UNCHANGED <<sent, proven>> /\ UNCHANGED Retune!edgeRf
        BY <2>1, <2>2, <3>2
      <4> QED BY <2>1, <4>1
    <3> QED BY <3>1, <3>2
  <2>7. QueuedOnce'
    BY <2>1
  <2>8. ProbeInv' /\ OneChange' /\ Retune!OnlyProven'
    BY <2>1, <2>3, <2>4
  <2>9. TrialTypes'
    BY <2>1, <2>3, <2>4
  <2> QED BY <2>5, <2>6, <2>7, <2>8, <2>9
<1>5. ASSUME NEW got \in BOOLEAN, NEW back \in BOOLEAN, NEW okArrives \in BOOLEAN,
             Retune!AskTail(got, back, okArrives)
      PROVE  ProvenInv'
  <2>1. /\ pc = "visit" /\ state = "PROCESS_CHUNK" /\ announced /\ next = NChunks
        /\ got => cfg = tuned
        /\ back => got
        /\ back = okArrives
        /\ got /\ ~back => Carries[tuned] # "all"
        /\ IF back THEN sent' = 0
           ELSE sent' = (IF got THEN next ELSE sent) /\ UNCHANGED announced
        /\ completed' = (completed \/ back)
        /\ state' = (IF back THEN "OK" ELSE state)
        /\ proven' = (IF back THEN proven \cup {tuned} ELSE proven)
        /\ UNCHANGED <<next, pc, Retune!probeVars, tuned, Retune!queueVars,
                       Retune!askVars, Retune!boundVars, moved>>
    BY <1>5 DEF Retune!AskTail, Retune!RoundUnchanged, Retune!Arrives, Retune!CanHear,
        Retune!Returns, Retune!CanAnswer
  <2>2. \/ got /\ (Retune!Progress \/ back) /\ Retune!CommitTrial
        \/ UNCHANGED Retune!edgeRf
    BY <1>5, <2>1 DEF Retune!AskTail
  <2>3. cfg' = cfg /\ last' = last /\ (~sf_trial' \/ sf_trial' = sf_trial)
    BY <2>2 DEF Retune!CommitTrial
  <2>4. conf' \in Known' /\ conf' \in {conf, cfg} /\ (moved = {} => conf' = conf /\ ~sf_trial')
    <3>1. CASE got /\ (Retune!Progress \/ back) /\ Retune!CommitTrial
      <4>1. conf' \in {cfg, conf} /\ (sf_trial => cfg \in proven')
        BY <2>1, <3>1 DEF Retune!Progress, Retune!CommitTrial
      <4>2. ~sf_trial => conf' = conf
        BY <3>1 DEF Retune!CommitTrial
      <4>3. ~sf_trial => ~sf_trial'
        BY <3>1 DEF Retune!CommitTrial
      <4> QED BY <2>1, <4>1, <4>2, <4>3
    <3>2. CASE UNCHANGED Retune!edgeRf
      BY <2>1, <3>2
    <3> QED BY <2>2, <3>1, <3>2
  <2>5. FileInv' /\ TailInv'
    <3>1. CASE back
      BY <2>1, <3>1
    <3>2. CASE got /\ ~back
      <4>1. sent' = NChunks /\ state' = "PROCESS_CHUNK" /\ UNCHANGED <<proven, announced>>
        BY <2>1, <3>2
      <4>2. sf_trial \/ moved = {} => Carries[cfg] = "short"
        BY <2>1, <3>2
      <4>3. FileInv'
        BY <2>1, <2>3, <2>4, <4>1, <4>2
      <4>4. sf_trial' => ~Retune!NoShort
        BY <2>3, <4>2 DEF Retune!NoShort
      <4>5. TailInv'
        BY <2>1, <2>3, <2>4, <4>1, <4>2, <4>4 DEF Retune!NoShort
      <4> QED BY <4>3, <4>5
    <3>3. CASE ~got
      <4>1. UNCHANGED <<sent, next, proven, announced, state, pc>> /\ UNCHANGED Retune!edgeRf
        BY <2>1, <2>2, <3>3
      <4> QED BY <2>1, <4>1
    <3> QED BY <3>1, <3>2, <3>3
  <2>6. ProbeInv'
    BY <2>1
  <2>7. TrialTypes'
    <3>1. sent' \in 0 .. NChunks
      <4>1. CASE back
        BY <2>1, <4>1
      <4>2. CASE ~back
        BY <2>1, <4>2
      <4> QED BY <4>1, <4>2
    <3> QED BY <2>1, <2>3, <2>4, <3>1
  <2>8. OneChange'
    BY <2>1, <2>3, <2>4
  <2>9. Retune!OnlyProven'
    <3>1. Known \subseteq Known'
      BY <2>1
    <3>2. roster' = roster /\ roster \in Known
      BY <2>1
    <3> QED BY <2>4, <3>1, <3>2
  <2>10. QueuedOnce'
    BY <2>1
  <2> QED BY <2>5, <2>6, <2>7, <2>8, <2>9, <2>10
<1> QED BY <1>1, <1>2, <1>3, <1>4, <1>5 DEF Retune!Round

LEMMA TrialDeliver ==
    ASSUME Retune!TrialAssumption, ProvenInv, NEW acked \in BOOLEAN, Retune!Deliver(acked)
    PROVE  ProvenInv'
<1> USE DEF Retune!TrialAssumption, Retune!RetuneAssumption, ProvenInv, TrialTypes,
    FileInv, WentBack,
            TailInv, OneChange, QueuedOnce, Retunes, ProbeInv, Retune!OnlyProven,
            Retune!ProbeIdle, Known
<1>1. /\ pc = "visit" /\ state # "PROCESS_CHUNK" /\ acked /\ conf' = conf
      /\ downlink # <<>>
      /\ downlink' = Tail(downlink)
      /\ UNCHANGED <<pc, Retune!askVars, state, next, completed, Retune!edgeFile,
                     proven, Retune!boundVars>>
  BY DEF Retune!Deliver, Retune!ChangeRfConfig
<1>2. /\ downlink' \in Seq([cfg : Configs \cup {None}, genuine : BOOLEAN])
      /\ Len(downlink') = Len(downlink) - 1 /\ Len(downlink) \in Nat \ {0}
      /\ \A i \in 1 .. Len(downlink) - 1 : downlink'[i] = downlink[i + 1]
      /\ Head(downlink) = downlink[1]
      /\ Head(downlink) \in [cfg : Configs \cup {None}, genuine : BOOLEAN]
  BY <1>1, Taken
<1>3. \/ /\ Head(downlink).cfg \in Configs /\ last' = cfg /\ cfg' = Head(downlink).cfg
         /\ sf_trial' = TRUE /\ moved' = moved \cup {Head(downlink).cfg} /\ Retunes(1)
      \/ UNCHANGED <<cfg, last, sf_trial, moved>>
  BY <1>2 DEF Retune!Deliver, Retune!ChangeRfConfig, Retune!Takes
<1>4. QueuedOnce'
  <2>1. \A i \in Nat : Retunes(i)' => Retunes(i + 1)
    BY <1>2
  <2>2. Retunes(1) => \A i \in Nat : ~Retunes(i)'
    BY <2>1
  <2>3. CASE moved' = moved
    BY <1>1, <2>1, <2>3
  <2>4. CASE moved' # moved
    BY <1>3, <2>2, <2>4
  <2> QED BY <2>3, <2>4
<1>7. /\ moved' = {} => UNCHANGED <<cfg, last, sf_trial, moved>>
      /\ changes = 1 \/ moved' = moved
  <2>1. CASE Retunes(1) /\ moved' = moved \cup {Head(downlink).cfg}
    BY <2>1
  <2>2. CASE UNCHANGED <<cfg, last, sf_trial, moved>>
    BY <2>2
  <2> QED BY <1>3, <2>1, <2>2
<1>5. CASE mirror # None
  <2>1. /\ mirror \in Configs /\ Retune!Mirror(mirror, TRUE) /\ mirror' = None
        /\ tuned' = mirror
        /\ trial = None
    BY <1>1, <1>5 DEF Retune!Deliver
  <2>2. /\ trial' \in Retune!Trials /\ trial' # None /\ trial'.old = view
        /\ trial'.fresh = TRUE
        /\ view' = mirror /\ roster' = roster
    BY <2>1, Mirrored
  <2>3. ProbeInv'
    BY <1>1, <2>1, <2>2
  <2>4. FileInv'
    BY <1>1
  <2>5. TailInv'
    <3>1. moved = {} => sent < NChunks
      BY <1>1
    <3>2. changes = 1 /\ ~WentBack
      BY <2>1
    <3>3. CASE UNCHANGED <<cfg, last, sf_trial, moved>>
      BY <1>1, <3>1, <3>2, <3>3
    <3>4. CASE Retunes(1) /\ moved' # {}
      BY <1>1, <3>1, <3>4
    <3> QED BY <1>3, <3>3, <3>4
  <2>6. OneChange'
    BY <1>1, <1>7, <2>1, <2>2
  <2> QED BY <1>1, <1>2, <1>3, <1>4, <2>1, <2>2, <2>3, <2>4, <2>5, <2>6
<1>6. CASE mirror = None
  <2>1. UNCHANGED <<Retune!probeVars, tuned, mirror>>
    BY <1>1, <1>6 DEF Retune!Deliver
  <2>2. FileInv' /\ ProbeInv'
    BY <1>1, <2>1
  <2>3. TailInv'
    <3>1. moved = {} => sent < NChunks
      BY <1>1
    <3>2. CASE UNCHANGED <<cfg, last, sf_trial, moved>>
      BY <1>1, <2>1, <3>1, <3>2
    <3>3. CASE Retunes(1) /\ moved' # {}
      BY <1>1, <3>1, <3>3
    <3> QED BY <1>3, <3>2, <3>3
  <2>4. OneChange'
    BY <1>1, <1>7, <2>1
  <2> QED BY <1>1, <1>2, <1>3, <1>4, <2>1, <2>2, <2>3, <2>4
<1> QED BY <1>5, <1>6

LEMMA TrialEnd ==
    ASSUME Retune!TrialAssumption, ProvenInv, Retune!EndVisit PROVE ProvenInv'
<1> USE DEF Retune!TrialAssumption, Retune!RetuneAssumption, ProvenInv, TrialTypes,
    FileInv, WentBack,
            TailInv, OneChange, QueuedOnce, Retunes, ProbeInv, Retune!OnlyProven,
            Retune!ProbeIdle, Known
<1>1. /\ pc = "visit" /\ pc' = "closing" /\ Retune!ProbeVisitEnd
      /\ UNCHANGED <<tuned, Retune!queueVars, Retune!askVars, Retune!driveVars,
                     Retune!edgeRf, Retune!edgeFile, Retune!ghostVars, Retune!boundVars>>
  BY DEF Retune!EndVisit
<1>2. CASE trial = None
  BY <1>1, <1>2 DEF Retune!ProbeVisitEnd
<1>3. CASE trial # None
  <2>1. /\ trial \in Retune!Trials /\ trial.old \in Configs /\ trial.new \in Configs
        /\ trial.misses \in Nat /\ trial.total \in Nat /\ trial.fresh \in BOOLEAN
        /\ trial = [old |-> trial.old, new |-> trial.new, misses |-> trial.misses,
                    total |-> trial.total, fresh |-> trial.fresh]
    BY <1>3 DEF Retune!Trials
  <2>2. ASSUME trial' \in Retune!Trials, trial'.old = trial.old, UNCHANGED roster,
               view' \in {view, trial.old, trial.new}
        PROVE  ProvenInv'
    BY <1>1, <1>3, <2>1, <2>2
  <2>3. CASE trial.fresh
    <3>1. trial' = [trial EXCEPT !.fresh = FALSE] /\ UNCHANGED <<view, roster, status>>
      BY <1>1, <1>3, <2>3 DEF Retune!ProbeVisitEnd
    <3>2. trial' \in Retune!Trials /\ trial'.old = trial.old
      BY <2>1, <3>1 DEF Retune!Trials
    <3> QED BY <2>2, <3>1, <3>2
  <2>4. CASE ~trial.fresh /\ Retune!Located
    <3>1. trial' = None /\ roster' = view /\ view' = view
      BY <1>1, <1>3, <2>4 DEF Retune!ProbeVisitEnd, Retune!ProbeSettles
    <3>2. view \in Known
      BY <1>1, <1>3, <2>4 DEF Retune!Located, Retune!OnOld
    <3> QED BY <1>1, <1>3, <3>1, <3>2
  <2>5. CASE ~trial.fresh /\ ~Retune!Located /\ heard
    <3>1. trial' = [trial EXCEPT !.misses = 0] /\ UNCHANGED <<view, roster, status>>
      BY <1>1, <1>3, <2>5 DEF Retune!ProbeVisitEnd, Retune!ProbeHolds
    <3>2. trial' \in Retune!Trials /\ trial'.old = trial.old
      BY <2>1, <3>1 DEF Retune!Trials
    <3> QED BY <2>2, <3>1, <3>2
  <2>6. CASE ~trial.fresh /\ ~Retune!Located /\ ~heard /\ trial.total + 1 >= GiveUpAfter
    <3>1. trial' = None /\ view' = trial.old /\ roster' = trial.old
      BY <1>1, <1>3, <2>6 DEF Retune!ProbeVisitEnd, Retune!ProbeGivesUp
    <3> QED BY <1>1, <1>3, <2>1, <3>1
  <2>7. CASE ~trial.fresh /\ ~Retune!Located /\ ~heard /\ ~(trial.total + 1 >= GiveUpAfter)
    <3>1. /\ \/ trial' = [trial EXCEPT !.misses = 0, !.total = @ + 1]
             \/ trial' = [trial EXCEPT !.misses = @ + 1, !.total = @ + 1]
          /\ view' \in {view, trial.old, trial.new} /\ UNCHANGED roster
      BY <1>1, <1>3, <2>7 DEF Retune!ProbeVisitEnd, Retune!ProbeSwaps
    <3>2. trial' \in Retune!Trials /\ trial'.old = trial.old
      <4>1. CASE trial' = [trial EXCEPT !.misses = 0, !.total = @ + 1]
        <5>1. trial' = [old |-> trial.old, new |-> trial.new, misses |-> 0,
                        total |-> trial.total + 1, fresh |-> trial.fresh]
          BY <2>1, <4>1
        <5> QED BY <2>1, <5>1 DEF Retune!Trials
      <4>2. CASE trial' = [trial EXCEPT !.misses = @ + 1, !.total = @ + 1]
        <5>1. trial' = [old |-> trial.old, new |-> trial.new, misses |-> trial.misses + 1,
                        total |-> trial.total + 1, fresh |-> trial.fresh]
          BY <2>1, <4>2
        <5> QED BY <2>1, <5>1 DEF Retune!Trials
      <4> QED BY <3>1, <4>1, <4>2
    <3> QED BY <2>2, <3>1, <3>2
  <2> QED BY <2>3, <2>4, <2>5, <2>6, <2>7
<1> QED BY <1>2, <1>3

LEMMA TrialClose ==
    ASSUME Retune!TrialAssumption, ProvenInv, NEW got \in BOOLEAN, NEW back \in BOOLEAN,
           Retune!CloseVisit(got, back)
    PROVE  ProvenInv'
<1> USE DEF Retune!TrialAssumption, Retune!RetuneAssumption, ProvenInv, TrialTypes,
    FileInv, WentBack,
            TailInv, OneChange, QueuedOnce, Retunes, ProbeInv, Retune!OnlyProven,
            Retune!ProbeIdle, Known
<1>1. /\ pc = "closing" /\ pc' = "between"
      /\ UNCHANGED <<Retune!probeVars, tuned, Retune!queueVars, Retune!askVars, next,
                     completed, Retune!ghostVars, Retune!boundVars>>
      /\ state' = state \/ (Secure /\ state' = "OK")
  BY DEF Retune!CloseVisit, Retune!SessionVisitEnd
<1>2. OkDid /\ (state = "PROCESS_CHUNK" => UNCHANGED <<Retune!edgeRf, Retune!edgeFile>>)
  <2>1. CASE got
    <3>1. Retune!Arrives(got) /\ Retune!HearsOk /\ state = "REQUEST_DATA"
      BY <2>1 DEF Retune!CloseVisit
    <3> QED BY <1>1, <2>1, <3>1, OkEffect
  <2>2. CASE ~got
    BY <2>2 DEF Retune!CloseVisit, Retune!EdgeSilent, OkDid
  <2> QED BY <2>1, <2>2
<1>3. QueuedOnce'
  BY <1>1
<1>4. FileInv'
  BY <1>1, <1>2 DEF OkDid
<1>5. TailInv'
  <2>1. CASE Secure
    BY <1>1, <1>2, <2>1 DEF OkDid, Retune!NoShort
  <2>2. CASE ~Secure
    BY <1>1, <1>2, <2>2 DEF OkDid
  <2> QED BY <2>1, <2>2
<1>6. OneChange' /\ ProbeInv' /\ TrialTypes' /\ Retune!OnlyProven'
  BY <1>1, <1>2 DEF OkDid
<1> QED BY <1>3, <1>4, <1>5, <1>6

LEMMA TrialRestart ==
    ASSUME Retune!TrialAssumption, ProvenInv, Retune!HubRestart PROVE ProvenInv'
<1> USE DEF Retune!TrialAssumption, Retune!RetuneAssumption, ProvenInv, TrialTypes,
    FileInv, WentBack,
            TailInv, OneChange, QueuedOnce, Retunes, ProbeInv, Retune!OnlyProven,
            Retune!ProbeIdle, Known
<1>1. /\ view' = roster /\ roster' = roster /\ trial' = None /\ mirror' = None
      /\ downlink' = <<>>
      /\ pc' = "between" /\ state' = "OK" /\ next' = 0 /\ restarts' = restarts + 1
      /\ UNCHANGED <<Retune!edgeRf, Retune!edgeFile, Retune!ghostVars, changes>>
  BY DEF Retune!HubRestart
<1>2. MaxHubRestarts # 0 /\ Carries[Factory] # "short"
  BY DEF Retune!HubRestart
<1>3. Len(downlink') = 0
  BY <1>1
<1>4. QueuedOnce'
  BY <1>3
<1>5. sf_trial => changes = 1
  OBVIOUS
<1>6. TailInv'
  BY <1>1, <1>2, <1>5
<1>7. FileInv' /\ OneChange' /\ ProbeInv' /\ Retune!OnlyProven'
  BY <1>1, <1>2
<1>8. TrialTypes'
  <2>1. downlink' \in Seq([cfg : Configs \cup {None}, genuine : BOOLEAN])
    BY <1>1
  <2> QED BY <1>1, <2>1
<1> QED BY <1>4, <1>6, <1>7, <1>8

LEMMA ProvenStep ==
    ASSUME Retune!TrialAssumption, ProvenInv, [Retune!Next]_(Retune!vars) PROVE ProvenInv'
<1>1. CASE UNCHANGED Retune!vars
  <2>1. QueuedOnce'
    BY <1>1 DEF ProvenInv, QueuedOnce, Retunes
  <2> QED BY <1>1, <2>1
      DEF ProvenInv, TrialTypes, FileInv, TailInv, WentBack, OneChange, ProbeInv,
                           Retune!OnlyProven, Known
<1>2. ASSUME Retune!DeliverFails PROVE ProvenInv'
  <2>1. UNCHANGED <<pc, Retune!probeVars, tuned, Retune!queueVars, Retune!askVars,
                    state, next, completed, Retune!edgeRf, Retune!edgeFile,
                    Retune!ghostVars, Retune!boundVars>>
    BY <1>2 DEF Retune!DeliverFails
  <2>2. QueuedOnce'
    BY <2>1 DEF ProvenInv, QueuedOnce, Retunes
  <2> QED BY <2>1, <2>2
      DEF ProvenInv, TrialTypes, FileInv, TailInv, WentBack, OneChange, ProbeInv,
                           Retune!OnlyProven, Known
<1> QED BY <1>1, <1>2, TrialOperator, TrialEdge, TrialAsk, TrialVisit, TrialRound,
           TrialDeliver, TrialEnd, TrialClose, TrialRestart
    DEF Retune!Next, Retune!Delegate, Retune!Close

THEOREM KeptIsProven ==
    ASSUME Retune!TrialAssumption PROVE Retune!Spec => []Retune!OnlyProven
<1>1. Retune!Init => ProvenInv
  <2>1. ASSUME Retune!Init PROVE Len(downlink) = 0
    BY <2>1 DEF Retune!Init
  <2>2. ASSUME Retune!Init PROVE QueuedOnce
    BY <2>1, <2>2 DEF QueuedOnce, Retunes
  <2>3. ASSUME Retune!Init PROVE TrialTypes
    <3>1. <<>> \in Seq([cfg : Configs \cup {None}, genuine : BOOLEAN])
      OBVIOUS
    <3> QED BY <2>3, <3>1
        DEF Retune!Init, Retune!TrialAssumption, Retune!RetuneAssumption, TrialTypes
  <2>4. ASSUME Retune!Init PROVE FileInv /\ TailInv
    BY <2>4 DEF Retune!Init, Retune!TrialAssumption, FileInv, TailInv
  <2>5. ASSUME Retune!Init PROVE OneChange /\ ProbeInv /\ Retune!OnlyProven
    BY <2>5 DEF Retune!Init, OneChange, ProbeInv, Retune!OnlyProven
  <2> QED BY <2>2, <2>3, <2>4, <2>5 DEF ProvenInv
<1>2. ProvenInv => Retune!OnlyProven
  BY DEF ProvenInv
<1> QED BY <1>1, <1>2, ProvenStep, PTL DEF Retune!Spec

HIDE DEF Retune!vars, Retune!hubVars, Retune!edgeVars, Retune!ghostVars,
         Retune!boundVars, Retune!probeVars, Retune!queueVars, Retune!askVars,
         Retune!driveVars, Retune!sessionVars, Retune!edgeRf, Retune!edgeFile

-----------------------------------------------------------------------------
(* What a Hub is told to run (Management).  A one-shot is recorded before  *)
(* it is carried out, so what the Hub remembers having acted on is never   *)
(* less than what it did (ShotInv).                                        *)

\* What the loop remembers of one-shots is what its file does, and a generation
\* beyond it was not carried out.  Between recording one and carrying it out it
\* was not carried out either.
ShotInv ==
    /\ wish \in Manage!Wishes /\ slot \in Manage!Wishes \cup {None}
    /\ intent \in Manage!Wishes \cup {None}
    /\ manage_pc # "loop" => intent # None
    /\ stateFaults = 0 /\ acted \in Nat /\ manage_state.acted = acted
    /\ manage_state.paused = manage_paused
    /\ done \in [1 .. MaxWishes -> {0, 1}]
    /\ \A g \in 1 .. MaxWishes : done[g] = 1 => g <= acted
    /\ manage_pc = "act" /\ acted \in 1 .. MaxWishes => done[acted] = 0

LEMMA ShotKept ==
    ASSUME Manage!ManagementAssumption, ShotInv, [Manage!Next]_(Manage!vars)
    PROVE  ShotInv'
<1> USE DEF ShotInv, Manage!vars, Manage!hub, Manage!asker, Manage!faults
<1>1. ASSUME NEW p, NEW a, Manage!Save(p, a)
      PROVE  manage_state' = [paused |-> p, acted |-> a] /\ stateFaults' = 0
  BY <1>1 DEF Manage!Save, Manage!ManagementAssumption
<1>2. CASE Manage!Change
  <2>1. wish \in [paused : BOOLEAN, on : BOOLEAN, setting : 1 .. 2, shot : Nat]
    BY DEF Manage!Wishes
  <2>2. [wish EXCEPT !.paused = ~@] \in Manage!Wishes
    BY <2>1 DEF Manage!Wishes
  <2>3. [wish EXCEPT !.on = ~@] \in Manage!Wishes
    BY <2>1 DEF Manage!Wishes
  <2>4. [wish EXCEPT !.setting = 3 - @] \in Manage!Wishes
    BY <2>1 DEF Manage!Wishes
  <2>5. [wish EXCEPT !.shot = @ + 1] \in Manage!Wishes
    BY <2>1 DEF Manage!Wishes
  <2>6. wish' \in Manage!Wishes
    BY <1>2, <2>2, <2>3, <2>4, <2>5 DEF Manage!Change
  <2> QED BY <1>2, <2>6 DEF Manage!Change
<1>3. CASE Manage!Register \/ Manage!Tick \/ Manage!Refused
  BY <1>3 DEF Manage!Register, Manage!Tick, Manage!Refused
<1>4. CASE Manage!Ask
  BY <1>4 DEF Manage!Ask
<1>5. CASE Manage!Take
  BY <1>5 DEF Manage!Take
<1>6. CASE Manage!Clear
  BY <1>6 DEF Manage!Clear
<1>7. CASE Manage!ApplyPause
  BY <1>1, <1>7 DEF Manage!ApplyPause
<1>8. CASE Manage!OverlayRoster \/ Manage!MoveEndpoints
  BY <1>8 DEF Manage!OverlayRoster, Manage!MoveEndpoints
<1>9. CASE Manage!Record
  <2>1. intent \in Manage!Wishes /\ intent.shot \in Nat
    BY <1>9 DEF Manage!Record, Manage!Wishes
  <2>2. CASE can /\ intent.shot > acted
    BY <1>1, <1>9, <2>1, <2>2 DEF Manage!Record
  <2>3. CASE ~(can /\ intent.shot > acted)
    BY <1>9, <2>3 DEF Manage!Record
  <2> QED BY <2>2, <2>3
<1>10. CASE Manage!Act
  <2>1. /\ done' = [done EXCEPT ![acted] = @ + 1] /\ UNCHANGED acted /\ manage_pc' = "loop"
        /\ acted \in 1 .. MaxWishes => done[acted] = 0
    BY <1>10 DEF Manage!Act
  <2>2. done' \in [1 .. MaxWishes -> {0, 1}]
    <3>1. CASE acted \in 1 .. MaxWishes
      <4>1. done' = [done EXCEPT ![acted] = 1]
        BY <2>1, <3>1
      <4> QED BY <4>1
    <3>2. CASE acted \notin 1 .. MaxWishes
      <4>1. done' = done
        BY <2>1, <3>2
      <4> QED BY <4>1
    <3> QED BY <3>1, <3>2
  <2>3. \A g \in 1 .. MaxWishes : done'[g] = 1 => g <= acted
    BY <2>1 DEF Manage!ManagementAssumption
  <2> QED BY <1>10, <2>1, <2>2, <2>3 DEF Manage!Act
<1>11. CASE Manage!Restart
  BY <1>11 DEF Manage!Restart
<1>12. CASE UNCHANGED Manage!vars
  BY <1>12
<1> QED BY <1>2, <1>3, <1>4, <1>5, <1>6, <1>7, <1>8, <1>9, <1>10, <1>11, <1>12
    DEF Manage!Next, Manage!Drain

LEMMA ShotInit == ASSUME Manage!ManagementAssumption, Manage!Init PROVE ShotInv
<1>1. /\ wish \in Manage!Wishes /\ slot = None /\ intent = None
      /\ manage_pc = "loop" /\ stateFaults = 0
  BY DEF Manage!Init, Manage!Wishes
<1>2. /\ acted = 0 /\ manage_state.acted = 0
      /\ manage_paused = FALSE /\ manage_state.paused = FALSE
  BY DEF Manage!Init
<1>3. done = [g \in 1 .. MaxWishes |-> 0]
  BY DEF Manage!Init
<1>4. done \in [1 .. MaxWishes -> {0, 1}] /\ \A g \in 1 .. MaxWishes : done[g] = 0
  BY <1>3
<1>5. /\ acted \in Nat /\ manage_state.acted = acted
      /\ manage_state.paused = manage_paused /\ stateFaults = 0
  BY <1>1, <1>2
<1>6. manage_pc \notin {"act"} /\ manage_pc = "loop"
  BY <1>1
<1>7. slot \in Manage!Wishes \cup {None} /\ intent \in Manage!Wishes \cup {None}
  BY <1>1
<1>8. \A g \in 1 .. MaxWishes : done[g] = 1 => g <= acted
  BY <1>4
<1> QED BY <1>1, <1>4, <1>5, <1>6, <1>7, <1>8 DEF ShotInv

\* An imperative is carried out at most once.
THEOREM ShotsOnce ==
    ASSUME Manage!ManagementAssumption PROVE Manage!Spec => []Manage!ActsOnce
<1>1. Manage!Init => ShotInv
  BY ShotInit
<1>2. ShotInv => Manage!ActsOnce
  BY DEF ShotInv, Manage!ActsOnce
<1> QED BY <1>1, <1>2, ShotKept, PTL DEF Manage!Spec

\* A Hub told to hold still holds still until it is told otherwise, whatever
\* restarts in between.
THEOREM HoldsStill ==
    ASSUME Manage!ManagementAssumption PROVE Manage!Spec => Manage!ResumesOnlyWhenTold
<1>1. Manage!Init => ShotInv
  BY ShotInit
<1>2. ShotInv /\ [Manage!Next]_(Manage!vars) =>
         [manage_paused /\ ~manage_paused' => manage_pc = "pause" /\ ~intent.paused]_(Manage!vars)
  <2> SUFFICES ASSUME ShotInv, Manage!Next, manage_paused, ~manage_paused'
               PROVE  manage_pc = "pause" /\ ~intent.paused
    BY DEF Manage!vars
  <2> USE DEF Manage!hub
  <2>1. ~Manage!Restart
    BY DEF ShotInv, Manage!Restart
  <2>2. Manage!ApplyPause
    BY <2>1 DEF Manage!Next, Manage!Drain, Manage!Change, Manage!Register, Manage!Tick,
        Manage!Ask, Manage!Refused, Manage!Take, Manage!Clear, Manage!OverlayRoster,
       Manage!MoveEndpoints, Manage!Record, Manage!Act
  <2> QED BY <2>2 DEF Manage!ApplyPause
<1> QED BY <1>1, <1>2, ShotKept, PTL DEF Manage!Spec, Manage!ResumesOnlyWhenTold

-----------------------------------------------------------------------------
(* Two processes and a cable (Tunnel).  A request carries its number       *)
(* modulo Wrap; with no more of them stacked than Wrap, no two of the last *)
(* calls have one number on the wire (SameId).                             *)

Numbers == 0 .. (2 * Wrap - 1)
Called == [n : Numbers, verb : {"get", "set", "exchange"}, cfg : BridgeConfigs \cup {Home}]
Answered == [n : Numbers, verb : {"get", "set", "exchange"},
             val : BridgeConfigs \cup {Home, None, TRUE}]

\* n is the number of the call a calls before call k.
Ago(n, a, k) == n + a \in {k, k + 2 * Wrap}

TunnelTypes ==
    /\ calls \in Numbers /\ tunnel_want \in BridgeConfigs \cup {Home}
    /\ radio \in BridgeConfigs \cup {Home} /\ tunnel_silent \in Nat
    /\ call # None => /\ call = [n |-> calls, verb |-> Bridge!Verb, cfg |-> tunnel_want]
                      /\ step # "rest"
    /\ requests \in Seq(Called) /\ Len(requests) <= MaxStacked
    /\ replies \in Seq(Answered)

\* What the board has not read are the last calls, in order, and what it
\* answered since the last call was no older.
Numbered ==
    /\ \A i \in DOMAIN requests : Ago(requests[i].n, Len(requests) - i, calls)
    /\ \A i \in DOMAIN replies : \E a \in 0 .. (MaxStacked - 1) : Ago(replies[i].n, a, calls)

\* Once the last call is answered nothing is left to do, so where the board says
\* its radio is, it is.
SaidLast ==
    /\ \A i \in DOMAIN replies : replies[i].n = calls =>
          /\ requests = <<>>
          /\ replies[i].verb = "get" => replies[i].val = radio
    /\ step = "visit" /\ told =>
          /\ radio = tunnel_want
          /\ \A i \in DOMAIN requests : requests[i].verb # "set"

TunnelInv == TunnelTypes /\ Numbered /\ SaidLast /\ Bridge!OwnAnswers

USE DEF Bridge!vars, Bridge!host, Bridge!bridge, Bridge!cable, Bridge!history,
    Bridge!bounds

LEMMA Modulo ==
    ASSUME Bridge!TunnelAssumption, NEW n \in Numbers
    PROVE  n % Wrap = IF n < Wrap THEN n ELSE n - Wrap
BY DEF Bridge!TunnelAssumption, Numbers

LEMMA Following ==
    ASSUME NEW m \in Nat \ {0}, NEW k \in 0 .. (m - 1)
    PROVE  (k + 1) % m = IF k = m - 1 THEN 0 ELSE k + 1
<1>1. CASE k = m - 1
  BY <1>1
<1>2. CASE k # m - 1
  <2>1. \A i \in 0 .. (m - 1) : i % m = i
    OBVIOUS
  <2> QED BY <1>2, <2>1
<1> QED BY <1>1, <1>2

\* Of the last calls no two have one number on the wire.
LEMMA SameId ==
    ASSUME Bridge!TunnelAssumption, calls \in Numbers, NEW n \in Numbers,
           NEW a \in 0 .. (MaxStacked - 1), Ago(n, a, calls), Bridge!Id(n) = Bridge!Id(calls)
    PROVE  n = calls
<1>1. /\ n % Wrap = IF n < Wrap THEN n ELSE n - Wrap
      /\ calls % Wrap = IF calls < Wrap THEN calls ELSE calls - Wrap
  BY Modulo
<1> QED BY <1>1 DEF Bridge!TunnelAssumption, Numbers, Ago, Bridge!Id

LEMMA Popped ==
    ASSUME NEW S, NEW q \in Seq(S), q # <<>>
    PROVE  /\ Tail(q) \in Seq(S) /\ Len(Tail(q)) = Len(q) - 1
           /\ Head(q) = q[1] /\ Head(q) \in S /\ 1 \in DOMAIN q
           /\ \A i \in DOMAIN Tail(q) : i + 1 \in DOMAIN q /\ Tail(q)[i] = q[i + 1]
OBVIOUS

LEMMA TunnelCall ==
    ASSUME Bridge!TunnelAssumption, TunnelInv, Bridge!Call PROVE TunnelInv'
<1> DEFINE c == [n |-> calls', verb |-> Bridge!Verb, cfg |-> tunnel_want]
<1>1. /\ calls' \in Numbers
      /\ calls' = IF calls = 2 * Wrap - 1 THEN 0 ELSE calls + 1
  <2>1. PICK m : m = 2 * Wrap
    OBVIOUS
  <2>2. m \in Nat \ {0} /\ calls \in 0 .. (m - 1) /\ calls' = (calls + 1) % m
    BY <2>1 DEF Bridge!TunnelAssumption, TunnelInv, TunnelTypes, Bridge!Call, Numbers
  <2>3. calls' = IF calls = m - 1 THEN 0 ELSE calls + 1
    BY <2>2, Following
  <2> QED BY <2>1, <2>2, <2>3 DEF Numbers
<1>2. c \in Called
  BY <1>1 DEF TunnelInv, TunnelTypes, Called, Bridge!Verb
<1>3. /\ requests' = Append(requests, c) /\ Len(requests') = Len(requests) + 1
      /\ Len(requests) \in Nat /\ Len(requests) + 1 <= MaxStacked
      /\ requests' \in Seq(Called)
      /\ \A i \in DOMAIN requests' :
            \/ i \in DOMAIN requests /\ requests'[i] = requests[i]
            \/ i = Len(requests) + 1 /\ requests'[i] = c
  BY <1>2 DEF TunnelInv, TunnelTypes, Bridge!Call, Bridge!TunnelAssumption
<1> HIDE DEF c
<1>4. TunnelTypes'
  BY <1>1, <1>3 DEF c, TunnelInv, TunnelTypes, Bridge!Call, Bridge!Verb
<1>5. Numbered'
  <2>1. replies' = <<>>
    BY DEF Bridge!Call
  <2>2. ASSUME NEW i \in DOMAIN requests'
        PROVE  Ago(requests'[i].n, Len(requests') - i, calls')
    <3>1. CASE i \in DOMAIN requests /\ requests'[i] = requests[i]
      <4>1. requests[i].n \in Numbers /\ i \in Nat /\ i <= Len(requests)
        <5>1. requests[i] \in Called /\ Len(requests) \in Nat /\ i \in 1 .. Len(requests)
          BY <3>1 DEF TunnelInv, TunnelTypes
        <5> QED BY <5>1 DEF Called
      <4>2. Ago(requests[i].n, Len(requests) - i, calls)
        BY <3>1 DEF TunnelInv, Numbered
      <4>3. MaxStacked \in Nat /\ Wrap \in Nat \ {0} /\ MaxStacked <= Wrap /\ calls \in Numbers
        BY DEF TunnelInv, TunnelTypes, Bridge!TunnelAssumption
      <4> DEFINE n == requests[i].n
                 a == Len(requests) - i
                 b == Len(requests') - i
      <4>4. /\ n \in Nat /\ n <= 2 * Wrap - 1 /\ a \in Nat /\ a < MaxStacked /\ b = a + 1
            /\ n + a = calls \/ n + a = calls + 2 * Wrap
        BY <4>1, <4>2, <4>3, <1>3 DEF Ago, Numbers
      <4>5. requests'[i].n = n
        BY <3>1
      <4> HIDE DEF n, a, b
      <4>6. n + b = calls' \/ n + b = calls' + 2 * Wrap
        BY <4>3, <4>4, <1>1 DEF Numbers
      <4> QED BY <4>5, <4>6 DEF Ago, b
    <3>2. CASE i = Len(requests) + 1 /\ requests'[i] = c
      <4>1. requests'[i].n = calls' /\ Len(requests') - i = 0
        BY <3>2, <1>3 DEF c
      <4> QED BY <4>1, <1>1 DEF Ago, Numbers
    <3> QED BY <3>1, <3>2, <1>3
  <2>3. \A i \in DOMAIN replies' : FALSE
    BY <2>1
  <2> QED BY <2>2, <2>3 DEF Numbered
<1>6. SaidLast'
  <2>1. replies' = <<>> /\ UNCHANGED <<step, told, radio, tunnel_want>>
    BY DEF Bridge!Call
  <2>2. step = "visit" => c.verb # "set"
    BY DEF c, Bridge!Verb
  <2> QED BY <2>1, <2>2, <1>3 DEF TunnelInv, SaidLast
<1>7. Bridge!OwnAnswers'
  BY DEF TunnelInv, Bridge!OwnAnswers, Bridge!Call
<1> QED BY <1>4, <1>5, <1>6, <1>7 DEF TunnelInv

LEMMA TunnelTake ==
    ASSUME Bridge!TunnelAssumption, TunnelInv, Bridge!Take PROVE TunnelInv'
<1> DEFINE r == Head(replies)
<1>1. /\ replies \in Seq(Answered) /\ replies # <<>> /\ replies' = Tail(replies)
      /\ call # None /\ UNCHANGED <<requests, board, radio>>
  BY DEF Bridge!Take, TunnelInv, TunnelTypes
<1>2. /\ replies' \in Seq(Answered) /\ r = replies[1] /\ r \in Answered
      /\ 1 \in DOMAIN replies
      /\ \A i \in DOMAIN replies' : i + 1 \in DOMAIN replies /\ replies'[i] = replies[i + 1]
  BY <1>1, Popped
<1> HIDE DEF r
<1>3. call = [n |-> calls, verb |-> Bridge!Verb, cfg |-> tunnel_want] /\ step # "rest"
  BY <1>1 DEF TunnelInv, TunnelTypes
<1>4. Bridge!Answers(r) => r.n = calls
  BY <1>2, <1>3, SameId DEF TunnelInv, TunnelTypes, Numbered, Answered, Bridge!Answers
<1>5. UNCHANGED <<calls, tunnel_want>>
  BY DEF Bridge!Take, Bridge!Outcome
<1>6. /\ \A i \in DOMAIN replies' : \E a \in 0 .. (MaxStacked - 1) : Ago(replies'[i].n, a, calls)
      /\ \A i \in DOMAIN requests : Ago(requests[i].n, Len(requests) - i, calls)
      /\ \A i \in DOMAIN replies' : replies'[i].n = calls =>
          requests = <<>> /\ (replies'[i].verb = "get" => replies'[i].val = radio)
  BY <1>2 DEF TunnelInv, Numbered, SaidLast
<1>7. Numbered'
  BY <1>1, <1>5, <1>6 DEF Numbered, Ago
<1>8. CASE ~Bridge!Answers(r)
  <2>1. UNCHANGED <<step, call, told, crossed, tunnel_silent>>
    BY <1>8 DEF Bridge!Take, r
  <2> QED BY <2>1, <1>1, <1>2, <1>5, <1>6, <1>7
      DEF TunnelInv, TunnelTypes, SaidLast, Bridge!OwnAnswers, Bridge!Verb
<1>9. CASE Bridge!Answers(r)
  <2> DEFINE val == IF r.verb = call.verb THEN r.val ELSE None
  <2>1. /\ Bridge!Outcome(val) /\ crossed' = (crossed \/ r.n # call.n)
    BY <1>9 DEF Bridge!Take, r
  <2>2. call' = None /\ Bridge!OwnAnswers'
    BY <2>1, <1>3, <1>4, <1>9 DEF Bridge!Outcome, TunnelInv, Bridge!OwnAnswers
  <2>3. TunnelTypes'
    <3>1. tunnel_silent' = 0
      BY <1>9 DEF Bridge!Take, r
    <3> QED BY <3>1, <2>2, <1>1, <1>2, <1>5 DEF TunnelInv, TunnelTypes
  <2>4. requests = <<>> /\ (r.verb = "get" => r.val = radio)
    BY <1>2, <1>4, <1>9 DEF TunnelInv, SaidLast
  <2>5. step' = "visit" /\ told' => radio = tunnel_want
    <3>1. CASE call.verb = "get"
      BY <3>1, <2>1, <2>4 DEF Bridge!Outcome, Bridge!Located, Bridge!Missed
    <3>2. CASE call.verb = "set"
      BY <3>2, <2>1 DEF Bridge!Outcome, Bridge!Missed
    <3>3. CASE call.verb \notin {"get", "set"}
      BY <3>3, <2>1 DEF Bridge!Outcome
    <3> QED BY <3>1, <3>2, <3>3
  <2>6. SaidLast'
    BY <2>4, <2>5, <1>1, <1>5, <1>6 DEF SaidLast
  <2> QED BY <2>2, <2>3, <2>6, <1>7 DEF TunnelInv
<1> QED BY <1>8, <1>9

LEMMA TunnelDeadline ==
    ASSUME Bridge!TunnelAssumption, TunnelInv, Bridge!Deadline PROVE TunnelInv'
<1>1. call # None /\ call' = None /\ UNCHANGED <<tunnel_want, calls, crossed>>
  BY DEF Bridge!Deadline
<1>2. call.verb = Bridge!Verb
  BY <1>1 DEF TunnelInv, TunnelTypes
<1>3. \/ tunnel_silent' = tunnel_silent + 1 /\ UNCHANGED <<board, radio, requests,
                                                           replies>>
      \/ tunnel_silent' = 0 /\ radio' = Home /\ requests' = <<>> /\ replies' = <<>>
  BY DEF Bridge!Deadline, Bridge!Silent
<1>4. tunnel_silent \in Nat /\ tunnel_silent' \in Nat
  BY <1>3 DEF TunnelInv, TunnelTypes
<1>5. step' = "visit" => ~told'
  <2>1. CASE call.verb = "get"
    BY <2>1 DEF Bridge!Deadline
  <2>2. CASE call.verb = "set"
    BY <2>2 DEF Bridge!Deadline, Bridge!Missed
  <2>3. CASE call.verb \notin {"get", "set"}
    BY <2>3 DEF Bridge!Deadline
  <2> QED BY <2>1, <2>2, <2>3
<1>6. CASE tunnel_silent' = tunnel_silent + 1 /\ UNCHANGED <<board, radio, requests,
                                                             replies>>
  BY <1>1, <1>4, <1>5, <1>6
  DEF TunnelInv, TunnelTypes, Numbered, SaidLast, Bridge!OwnAnswers, Ago
<1>7. CASE radio' = Home /\ requests' = <<>> /\ replies' = <<>>
  BY <1>1, <1>4, <1>5, <1>7
  DEF TunnelInv, TunnelTypes, Numbered, SaidLast, Bridge!OwnAnswers,
      Bridge!TunnelAssumption
<1> QED BY <1>3, <1>6, <1>7

\* What is lost or served was first in line.
LEMMA Unqueued ==
    ASSUME Bridge!TunnelAssumption, TunnelInv, requests # <<>>, requests' = Tail(requests),
           calls' = calls
    PROVE  /\ requests' \in Seq(Called) /\ Len(requests') <= MaxStacked
           /\ \A i \in DOMAIN requests' : Ago(requests'[i].n, Len(requests') - i, calls')
           /\ \A i \in DOMAIN requests' : \E j \in DOMAIN requests : requests'[i] = requests[j]
<1>1. /\ requests' \in Seq(Called) /\ Len(requests') = Len(requests) - 1
      /\ \A i \in DOMAIN requests' : i + 1 \in DOMAIN requests /\ requests'[i] = requests[i + 1]
      /\ Len(requests) \in Nat /\ Len(requests) <= MaxStacked /\ MaxStacked \in Nat
      /\ requests \in Seq(Called)
  BY Popped DEF TunnelInv, TunnelTypes, Bridge!TunnelAssumption
<1>2. ASSUME NEW i \in DOMAIN requests'
      PROVE  Ago(requests'[i].n, Len(requests') - i, calls')
  <2>1. i \in Nat /\ Ago(requests[i + 1].n, Len(requests) - (i + 1), calls)
    BY <1>1 DEF TunnelInv, Numbered
  <2>2. Len(requests) - (i + 1) = Len(requests') - i
    BY <1>1, <2>1
  <2> QED BY <1>1, <2>1, <2>2
<1> QED BY <1>1, <1>2

LEMMA TunnelServe ==
    ASSUME Bridge!TunnelAssumption, TunnelInv, NEW bit \in BOOLEAN, Bridge!Serve(bit)
    PROVE  TunnelInv'
<1> DEFINE q == Head(requests)
<1>1. /\ requests # <<>> /\ requests' = Tail(requests) /\ calls' = calls
      /\ UNCHANGED <<step, tunnel_want, call, tunnel_silent, told, crossed>>
  BY DEF Bridge!Serve
<1>2. /\ q = requests[1] /\ q \in Called /\ 1 \in DOMAIN requests /\ Len(requests) \in Nat
      /\ Ago(q.n, Len(requests) - 1, calls) /\ Len(requests) - 1 \in 0 .. (MaxStacked - 1)
      /\ Len(requests') = Len(requests) - 1
  BY <1>1, Popped DEF TunnelInv, TunnelTypes, Numbered, Bridge!TunnelAssumption
<1> HIDE DEF q
<1>3. PICK a : a = [n |-> q.n, verb |-> q.verb,
                    val |-> IF q.verb = "get" THEN radio
                            ELSE IF q.verb = "set" THEN IF bit THEN None ELSE q.cfg
                            ELSE IF bit THEN TRUE ELSE None]
  OBVIOUS
<1>4. /\ replies' \in {replies, Append(replies, a)}
      /\ radio' = IF q.verb = "set" /\ ~bit THEN q.cfg ELSE radio
  BY <1>3 DEF Bridge!Serve, Bridge!ServeGet, Bridge!ServeSet, Bridge!ServeExchange,
      Bridge!Reply, q
<1>5. a \in Answered /\ replies' \in Seq(Answered) /\ radio' \in BridgeConfigs \cup {Home}
  <2>1. /\ q.n \in Numbers /\ q.verb \in {"get", "set", "exchange"}
        /\ q.cfg \in BridgeConfigs \cup {Home} /\ radio \in BridgeConfigs \cup {Home}
        /\ replies \in Seq(Answered)
    BY <1>2 DEF Called, TunnelInv, TunnelTypes
  <2>2. a \in Answered
    BY <2>1, <1>3 DEF Answered
  <2>3. Append(replies, a) \in Seq(Answered)
    BY <2>1, <2>2
  <2> QED BY <2>1, <2>2, <2>3, <1>4
<1>6. TunnelTypes'
  BY <1>1, <1>4, <1>5, Unqueued DEF TunnelInv, TunnelTypes, Bridge!Verb
<1>7. \A i \in DOMAIN replies' : \/ i \in DOMAIN replies /\ replies'[i] = replies[i]
                                 \/ replies'[i] = a
  BY <1>4, <1>5 DEF TunnelInv, TunnelTypes
<1>8. Numbered'
  <2>1. ASSUME NEW i \in DOMAIN replies'
        PROVE  \E b \in 0 .. (MaxStacked - 1) : Ago(replies'[i].n, b, calls)
    <3>1. CASE i \in DOMAIN replies /\ replies'[i] = replies[i]
      BY <3>1 DEF TunnelInv, Numbered
    <3>2. CASE replies'[i] = a
      BY <3>2, <1>2, <1>3
    <3> QED BY <3>1, <3>2, <1>7
  <2>2. \A i \in DOMAIN requests' : Ago(requests'[i].n, Len(requests') - i, calls')
    BY <1>1, Unqueued
  <2>3. \A i \in DOMAIN replies' : \E b \in 0 .. (MaxStacked - 1) : Ago(replies'[i].n, b, calls')
    BY <2>1, <1>1 DEF Ago
  <2> QED BY <2>2, <2>3 DEF Numbered
<1>9. q.n = calls => requests' = <<>>
  BY <1>1, <1>2, Unqueued
  DEF TunnelInv, TunnelTypes, Bridge!TunnelAssumption, Ago, Numbers, Called
<1>10. ASSUME NEW i \in DOMAIN replies', replies'[i].n = calls
       PROVE  /\ requests' = <<>>
              /\ replies'[i].verb = "get" => replies'[i].val = radio'
  <2>1. CASE i \in DOMAIN replies /\ replies'[i] = replies[i]
    BY <2>1, <1>1, <1>10 DEF TunnelInv, SaidLast
  <2>2. CASE replies'[i] = a
    <3>1. a.n = q.n /\ a.verb = q.verb /\ (q.verb = "get" => a.val = radio)
      BY <1>3
    <3> QED BY <2>2, <3>1, <1>4, <1>9, <1>10
  <2> QED BY <2>1, <2>2, <1>7
<1>11. step = "visit" /\ told => /\ radio' = tunnel_want
                                 /\ \A i \in DOMAIN requests' : requests'[i].verb # "set"
  BY <1>1, <1>2, <1>4, Unqueued DEF TunnelInv, SaidLast
<1> QED BY <1>1, <1>6, <1>8, <1>10, <1>11 DEF TunnelInv, SaidLast, Bridge!OwnAnswers

LEMMA TunnelLose ==
    ASSUME Bridge!TunnelAssumption, TunnelInv, Bridge!Lose PROVE TunnelInv'
<1>1. UNCHANGED <<step, tunnel_want, call, calls, tunnel_silent, told, crossed, radio>>
  BY DEF Bridge!Lose
<1>2. CASE requests # <<>> /\ requests' = Tail(requests) /\ UNCHANGED replies
  <2>1. TunnelTypes'
    BY <1>1, <1>2, Unqueued DEF TunnelInv, TunnelTypes, Bridge!Verb
  <2>2. Numbered'
    BY <1>1, <1>2, Unqueued DEF TunnelInv, Numbered, Ago
  <2>3. SaidLast'
    BY <1>1, <1>2, Unqueued DEF TunnelInv, SaidLast
  <2> QED BY <1>1, <2>1, <2>2, <2>3 DEF TunnelInv, Bridge!OwnAnswers
<1>3. CASE replies # <<>> /\ replies' = Tail(replies) /\ UNCHANGED requests
  <2>1. /\ replies' \in Seq(Answered)
        /\ \A i \in DOMAIN replies' : i + 1 \in DOMAIN replies /\ replies'[i] = replies[i + 1]
    BY <1>3, Popped DEF TunnelInv, TunnelTypes
  <2>2. TunnelTypes'
    BY <1>1, <1>3, <2>1 DEF TunnelInv, TunnelTypes, Bridge!Verb
  <2>3. Numbered'
    BY <1>1, <1>3, <2>1 DEF TunnelInv, Numbered, Ago
  <2>4. SaidLast'
    BY <1>1, <1>3, <2>1 DEF TunnelInv, SaidLast
  <2> QED BY <1>1, <2>2, <2>3, <2>4 DEF TunnelInv, Bridge!OwnAnswers
<1> QED BY <1>2, <1>3 DEF Bridge!Lose

LEMMA TunnelStep ==
    ASSUME Bridge!TunnelAssumption, TunnelInv, [Bridge!Next]_(Bridge!vars)
    PROVE  TunnelInv'
<1>1. ASSUME NEW c \in BridgeConfigs, Bridge!Prepare(c) PROVE TunnelInv'
  BY <1>1 DEF Bridge!Prepare, TunnelInv, TunnelTypes, Numbered, Ago, SaidLast,
      Bridge!OwnAnswers
<1>2. CASE Bridge!Wedge
  BY <1>2 DEF Bridge!Wedge, TunnelInv, TunnelTypes, Numbered, Ago, SaidLast,
      Bridge!OwnAnswers, Bridge!Verb
<1>3. CASE UNCHANGED Bridge!vars
  BY <1>3
  DEF TunnelInv, TunnelTypes, Numbered, Ago, SaidLast, Bridge!OwnAnswers, Bridge!Verb
<1> QED BY <1>1, <1>2, <1>3, TunnelCall, TunnelTake, TunnelDeadline, TunnelServe,
         TunnelLose
   DEF Bridge!Next, Bridge!Node, Bridge!Bridge

THEOREM AnswersAreOwn ==
    ASSUME Bridge!TunnelAssumption
    PROVE  Bridge!Spec => [](Bridge!OwnAnswers /\ Bridge!TunedByItsWord)
<1>1. Bridge!Init => TunnelInv
  BY DEF Bridge!Init, TunnelInv, TunnelTypes, Numbered, SaidLast, Bridge!OwnAnswers,
      Bridge!TunnelAssumption, Numbers
<1>2. TunnelInv => Bridge!OwnAnswers /\ Bridge!TunedByItsWord
  BY DEF TunnelInv, SaidLast, Bridge!TunedByItsWord
<1> QED BY <1>1, <1>2, TunnelStep, PTL DEF Bridge!Spec

HIDE DEF Bridge!vars, Bridge!host, Bridge!bridge, Bridge!cable, Bridge!history,
         Bridge!bounds

-----------------------------------------------------------------------------
(* The components, side by side.                                           *)

LEMMA RetunePart == FairSpec => Retune!Spec
<1>1. Init => Retune!Init
  BY DEF Init
<1>2. [Next]_vars => [Retune!Next]_(Retune!vars)
  <2> SUFFICES ASSUME [Next]_vars PROVE Retune!Next \/ UNCHANGED Retune!vars
    OBVIOUS
  <2>1. Retune!Next \/ UNCHANGED retuneVars
    BY DEF Next, vars, RetuneStep, RoundStep, ManageStep, BridgeStep, RestStep
  <2> QED BY <2>1
    DEF retuneVars, Retune!vars, Retune!hubVars, Retune!edgeVars, Retune!ghostVars,
        Retune!boundVars, Retune!probeVars, Retune!queueVars, Retune!askVars,
        Retune!driveVars, Retune!sessionVars, Retune!edgeRf, Retune!edgeFile
<1> QED BY <1>1, <1>2, PTL DEF FairSpec, Retune!Spec

LEMMA ManagePart == FairSpec => Manage!Spec
<1>1. Init => Manage!Init
  BY DEF Init
<1>2. [Next]_vars => [Manage!Next]_(Manage!vars)
  <2> SUFFICES ASSUME [Next]_vars PROVE Manage!Next \/ UNCHANGED Manage!vars
    OBVIOUS
  <2>1. Manage!Next \/ UNCHANGED manageVars
    BY DEF Next, vars, RetuneStep, RoundStep, ManageStep, BridgeStep, RestStep
  <2> QED BY <2>1
    DEF manageVars, Manage!vars, Manage!hub, Manage!asker, Manage!faults
<1> QED BY <1>1, <1>2, PTL DEF FairSpec, Manage!Spec

LEMMA BridgePart == FairSpec => Bridge!Spec
<1>1. Init => Bridge!Init
  BY DEF Init
<1>2. [Next]_vars => [Bridge!Next]_(Bridge!vars)
  <2> SUFFICES ASSUME [Next]_vars PROVE Bridge!Next \/ UNCHANGED Bridge!vars
    OBVIOUS
  <2>1. Bridge!Next \/ UNCHANGED tunnelVars
    BY DEF Next, vars, RetuneStep, RoundStep, ManageStep, BridgeStep, RestStep
  <2> QED BY <2>1
    DEF tunnelVars, Bridge!vars, Bridge!host, Bridge!bridge, Bridge!cable,
        Bridge!history, Bridge!bounds
<1> QED BY <1>1, <1>2, PTL DEF FairSpec, Bridge!Spec

\* Nothing reaches the roster, or the Edge's config file, but the factory
\* configuration and those a full chunk crossed on.
THEOREM OnFileIsProven == FairSpec => []OnlyProven
<1>1. Retune!OnlyProven => OnlyProven
  BY DEF OnlyProven
<1> QED BY <1>1, RoundsAssumption, RetunePart, KeptIsProven, PTL DEF RoundsAssumption

\* An imperative is carried out at most once, whatever the Hub restarts or
\* fails to write of the roster in between.
THEOREM ImperativesOnce == FairSpec => []ActsOnce
<1>1. Manage!ActsOnce => ActsOnce
  BY DEF ActsOnce
<1> QED BY <1>1, RoundsAssumption, ManagePart, ShotsOnce, PTL DEF RoundsAssumption

\* A Hub told to hold still holds still until it is told otherwise.
THEOREM HeldUntilTold == FairSpec => Manage!ResumesOnlyWhenTold
BY RoundsAssumption, ManagePart, HoldsStill, PTL DEF RoundsAssumption

\* The answer to a call given up is never taken for the answer to another, and
\* a visit is made where the board said its radio is.
THEOREM CallsAreAnswered == FairSpec => []OwnAnswers
<1>1. Bridge!OwnAnswers /\ Bridge!TunedByItsWord => OwnAnswers
  BY DEF OwnAnswers
<1> QED BY <1>1, RoundsAssumption, BridgePart, AnswersAreOwn, PTL DEF RoundsAssumption
=============================================================================
