---------------------------- MODULE PartsProofs ----------------------------
(***************************************************************************)
(* The theorems about the components MCParts puts side by side, stated of  *)
(* MCParts. What a change of radio configuration comes to, what two radios *)
(* do, what a replay window takes and what a UART brings is proved here.   *)
(* What SessionProofs, ControlProofs, DiskProofs and BoundaryProofs prove  *)
(* of a secure session, of signed commands, of the queue on flash, of      *)
(* files put together, of relays, bridges and the bench tool carries over, *)
(* since a step of MCParts is a step of theirs or leaves their variables   *)
(* alone.                                                                  *)
(***************************************************************************)
EXTENDS MCParts, Sequences, TLAPS

-----------------------------------------------------------------------------
(* A change of radio configuration.  As long as the Edge made no change,   *)
(* the Hub finds it where it was (Unmoved), so a probe that settles        *)
(* settles on the old configuration and answers REFUSED.                   *)

RetuneTypes ==
    /\ {view, roster, tuned} \subseteq RfConfigs
    /\ trial \in Retune!Trials \cup {None}
    /\ downlink \in Seq([cfg : RfConfigs \cup {None}, genuine : BOOLEAN])
    /\ mirror \in RfConfigs \cup {None}
    /\ pc = "asking" => want \in RfConfigs

\* As long as the Edge made no change, what the Hub goes back to is where it was.
Unmoved ==
    moved = {} =>
        /\ {cfg, last, conf, roster} = {Factory}
        /\ trial = None => view = Factory
        /\ trial # None => trial.old = Factory
        /\ pc = "visit" /\ completed => Retune!ProbeIdle \/ view = Factory
        /\ status # "ACCEPTED"

MovedInv ==
    /\ RetuneTypes
    /\ Unmoved
    /\ pc = "visit" => tuned = view

USE DEF Retune!vars, Retune!hubVars, Retune!edgeVars, Retune!ghostVars,
        Retune!boundVars, Retune!probeVars, Retune!queueVars, Retune!askVars,
        Retune!driveVars, Retune!sessionVars, Retune!edgeRf, Retune!edgeFile

\* What an Edge does to its radio by itself takes it to where it was.
EdgeStays == {cfg', last', conf'} \subseteq {cfg, last, conf}

LEMMA Mirrored ==
    ASSUME Retune!RetuneAssumption, RetuneTypes, NEW c \in RfConfigs,
           NEW mid \in BOOLEAN, Retune!Mirror(c, mid)
    PROVE  /\ trial' \in Retune!Trials /\ trial' # None
           /\ trial'.old = view /\ trial'.fresh = mid
           /\ view' = c /\ roster' = roster
BY DEF Retune!RetuneAssumption, RetuneTypes, Retune!Mirror, Retune!Trials

LEMMA Longer == ASSUME NEW S, NEW q \in Seq(S), NEW e \in S PROVE Append(q, e) \in Seq(S)
OBVIOUS

LEMMA Shorter ==
    ASSUME NEW S, NEW q \in Seq(S), q # <<>> PROVE Head(q) \in S /\ Tail(q) \in Seq(S)
OBVIOUS

LEMMA RetuneOperator ==
    ASSUME Retune!RetuneAssumption, MovedInv,
           Retune!Operator \/ Retune!NewFile \/ Retune!VisitOther
    PROVE  MovedInv'
<1> USE DEF MovedInv, RetuneTypes, Unmoved, Retune!ProbeIdle
<1>1. ASSUME NEW c \in RfConfigs, Retune!AskInBand(c) PROVE MovedInv'
  BY <1>1 DEF Retune!AskInBand
<1>2. ASSUME NEW c \in RfConfigs, NEW genuine \in BOOLEAN, Retune!AskSigned(c, genuine)
      PROVE  MovedInv'
  <2>1. Retune!Item(c, genuine) \in [cfg : RfConfigs \cup {None}, genuine : BOOLEAN]
    BY DEF Retune!Item
  <2>2. downlink' \in Seq([cfg : RfConfigs \cup {None}, genuine : BOOLEAN])
    BY <1>2, <2>1 DEF Retune!AskSigned
  <2> QED BY <1>2, <2>2 DEF Retune!AskSigned
<1>3. CASE Retune!QueuePlain
  <2>1. Retune!Item(None, FALSE) \in [cfg : RfConfigs \cup {None}, genuine : BOOLEAN]
    BY DEF Retune!Item
  <2>2. downlink' = Append(downlink, Retune!Item(None, FALSE))
    BY <1>3 DEF Retune!QueuePlain
  <2>3. downlink' \in Seq([cfg : RfConfigs \cup {None}, genuine : BOOLEAN])
    BY <2>1, <2>2, Longer
  <2> QED BY <1>3, <2>3 DEF Retune!QueuePlain
<1>4. CASE Retune!NewFile
  BY <1>4 DEF Retune!NewFile
<1>5. CASE Retune!VisitOther
  BY <1>5 DEF Retune!VisitOther, Retune!RetuneAssumption
<1> QED BY <1>1, <1>2, <1>3, <1>4, <1>5 DEF Retune!Operator

\* The Edge's own steps move it back only.
LEMMA EdgeOwn ==
    ASSUME \/ Retune!HoldTrial \/ Retune!CommitTrial \/ Retune!RestoreTrial
           \/ Retune!HearsOk \/ Retune!EdgeSilent
    PROVE  EdgeStays
BY DEF Retune!HoldTrial, Retune!CommitTrial, Retune!RestoreTrial, Retune!HearsOk,
    Retune!EdgeSilent, EdgeStays

LEMMA RetuneEdge ==
    ASSUME Retune!RetuneAssumption, MovedInv, Retune!Turn \/ Retune!EdgeReboot
    PROVE  MovedInv'
<1>1. EdgeStays /\ UNCHANGED <<Retune!hubVars, moved>>
  BY DEF Retune!Turn, Retune!RestoreTrial, Retune!EdgeReboot, EdgeStays
<1> QED BY <1>1 DEF EdgeStays, MovedInv, RetuneTypes, Unmoved, Retune!ProbeIdle

LEMMA RetuneAsk == ASSUME Retune!RetuneAssumption, MovedInv, Retune!Ask PROVE MovedInv'
<1>1. ASSUME NEW got \in BOOLEAN, NEW back \in BOOLEAN, Retune!TryCommand(got, back)
      PROVE  MovedInv'
  <2>1. pc = "asking" /\ want \in RfConfigs
    BY <1>1 DEF Retune!TryCommand, MovedInv, RetuneTypes
  <2>2. CASE got /\ ~rooted
    <3>1. moved' # {}
      BY <1>1, <2>2 DEF Retune!TryCommand
    <3>2. CASE back
      <4>1. Retune!Mirror(want, FALSE) /\ pc' = "between"
        BY <1>1, <3>2 DEF Retune!TryCommand
      <4> QED BY <1>1, <2>1, <3>1, <4>1, Mirrored
          DEF Retune!TryCommand, MovedInv, RetuneTypes, Unmoved
    <3>3. CASE ~back
      BY <1>1, <2>1, <3>1, <3>3 DEF Retune!TryCommand, MovedInv, RetuneTypes, Unmoved
    <3> QED BY <3>2, <3>3
  <2>3. CASE ~(got /\ ~rooted)
    <3>1. ~back
      BY <1>1, <2>3 DEF Retune!TryCommand, Retune!Returns
    <3> QED BY <1>1, <2>1, <2>3, <3>1
        DEF Retune!TryCommand, MovedInv, RetuneTypes, Unmoved, Retune!ProbeIdle
  <2> QED BY <2>2, <2>3
<1>2. ASSUME NEW got \in BOOLEAN, NEW back \in BOOLEAN, Retune!Diagnose(got, back)
      PROVE  MovedInv'
  <2>1. EdgeStays
    BY <1>2, EdgeOwn DEF Retune!Diagnose
  <2>2. /\ UNCHANGED <<view, roster, trial, tuned, moved>>
        /\ UNCHANGED <<Retune!queueVars, Retune!askVars, Retune!driveVars>>
        /\ pc' = "between" /\ status' \in {"REFUSED", "UNREACHABLE"}
    BY <1>2 DEF Retune!Diagnose
  <2> QED BY <2>1, <2>2 DEF EdgeStays, MovedInv, RetuneTypes, Unmoved, Retune!ProbeIdle
<1> QED BY <1>1, <1>2 DEF Retune!Ask

LEMMA RetuneVisit ==
    ASSUME Retune!RetuneAssumption, MovedInv, Retune!Visit PROVE MovedInv'
<1>1. Retune!OpenVisit
  BY DEF Retune!Visit, Retune!BeginVisit, Retune!Handshake
<1>2. pc' \in {"visit", "between"}
  BY DEF Retune!Visit, Retune!BeginVisit, Retune!Handshake
<1>3. /\ UNCHANGED <<Retune!probeVars, Retune!queueVars, Retune!edgeRf, moved>>
      /\ tuned' = view /\ completed' = FALSE
  BY <1>1 DEF Retune!OpenVisit
<1> QED BY <1>2, <1>3 DEF MovedInv, RetuneTypes, Unmoved, Retune!ProbeIdle

LEMMA RetuneRound ==
    ASSUME Retune!RetuneAssumption, MovedInv, Retune!Round PROVE MovedInv'
<1> DEFINE Still == /\ UNCHANGED <<Retune!probeVars, tuned, Retune!queueVars, pc>>
                    /\ UNCHANGED <<Retune!askVars, moved>>
                    /\ pc = "visit" /\ EdgeStays
                    /\ completed' => completed \/ cfg = tuned
<1>1. ASSUME NEW got \in BOOLEAN, NEW back \in BOOLEAN, Retune!AskOk(got, back)
      PROVE  Still
  BY <1>1, EdgeOwn DEF Retune!AskOk, Retune!RoundUnchanged
<1>2. ASSUME NEW got \in BOOLEAN, NEW back \in BOOLEAN, Retune!AskMetadata(got, back)
      PROVE  Still
  BY <1>2, EdgeOwn DEF Retune!AskMetadata, Retune!RoundUnchanged, EdgeStays
<1>3. ASSUME NEW got \in BOOLEAN, NEW back \in BOOLEAN, Retune!AskReannounced(got, back)
      PROVE  Still
  BY <1>3, EdgeOwn DEF Retune!AskReannounced, Retune!RoundUnchanged
<1>4. ASSUME NEW got \in BOOLEAN, NEW back \in BOOLEAN, Retune!AskChunk(got, back)
      PROVE  Still
  <2>1. EdgeStays
    BY <1>4, EdgeOwn DEF Retune!AskChunk, EdgeStays
  <2> QED BY <1>4, <2>1 DEF Retune!AskChunk, Retune!RoundUnchanged
<1>5. ASSUME NEW got \in BOOLEAN, NEW back \in BOOLEAN, NEW okArrives \in BOOLEAN,
             Retune!AskTail(got, back, okArrives)
      PROVE  Still
  <2>1. EdgeStays
    BY <1>5, EdgeOwn DEF Retune!AskTail, EdgeStays
  <2>2. back => cfg = tuned
    BY <1>5 DEF Retune!AskTail, Retune!Arrives, Retune!Returns, Retune!CanHear
  <2>3. completed' = (completed \/ back)
    BY <1>5 DEF Retune!AskTail
  <2> QED BY <1>5, <2>1, <2>2, <2>3 DEF Retune!AskTail, Retune!RoundUnchanged
<1>6. Still
  BY <1>1, <1>2, <1>3, <1>4, <1>5 DEF Retune!Round
<1> QED BY <1>6 DEF EdgeStays, MovedInv, RetuneTypes, Unmoved, Retune!ProbeIdle

LEMMA RetuneDeliver ==
    ASSUME Retune!RetuneAssumption, MovedInv, NEW acked \in BOOLEAN, Retune!Deliver(acked)
    PROVE  MovedInv'
<1> DEFINE item == Head(downlink)
           Items == [cfg : RfConfigs \cup {None}, genuine : BOOLEAN]
<1>1. /\ downlink \in Seq(Items) /\ item \in Items /\ Tail(downlink) \in Seq(Items)
      /\ pc = "visit" /\ tuned = view /\ UNCHANGED <<pc, Retune!askVars, completed>>
  <2>1. downlink \in Seq(Items) /\ downlink # <<>>
    BY DEF Retune!Deliver, MovedInv, RetuneTypes
  <2>2. item \in Items /\ Tail(downlink) \in Seq(Items)
    BY <2>1, Shorter
  <2> QED BY <2>1, <2>2 DEF Retune!Deliver, MovedInv
<1>2. cfg = tuned
  BY DEF Retune!Deliver, Retune!CanHear
<1>3. [item EXCEPT !.genuine = FALSE] \in Items
  BY <1>1
<1>4. <<[item EXCEPT !.genuine = FALSE]>> \o Tail(downlink) \in Seq(Items)
  BY <1>1, <1>3
<1>5. downlink' \in Seq(Items)
  BY <1>1, <1>4 DEF Retune!Deliver
<1>6. \/ UNCHANGED <<Retune!edgeRf, moved>>
      \/ moved' = moved \cup {item.cfg}
  BY DEF Retune!Deliver
<1>7. CASE acked /\ mirror # None
  <2>1. mirror \in RfConfigs
    BY <1>7 DEF MovedInv, RetuneTypes
  <2>2. Retune!Mirror(mirror, TRUE) /\ mirror' = None /\ tuned' = mirror /\ status' = status
    BY <1>7 DEF Retune!Deliver
  <2>3. /\ trial' \in Retune!Trials /\ trial' # None /\ trial'.old = view /\ trial'.fresh
        /\ view' = mirror /\ roster' = roster
    BY <2>1, <2>2, Mirrored DEF MovedInv
  <2>4. RetuneTypes'
    BY <1>1, <1>5, <2>1, <2>2, <2>3 DEF MovedInv, RetuneTypes
  <2>5. Unmoved'
    BY <1>1, <1>2, <1>6, <2>2, <2>3 DEF MovedInv, Unmoved, Retune!ProbeIdle
  <2> QED BY <2>2, <2>3, <2>4, <2>5 DEF MovedInv
<1>8. CASE ~(acked /\ mirror # None)
  <2>1. UNCHANGED <<Retune!probeVars, tuned, mirror>>
    BY <1>8 DEF Retune!Deliver
  <2> QED BY <1>1, <1>5, <1>6, <2>1 DEF MovedInv, RetuneTypes, Unmoved, Retune!ProbeIdle
<1> QED BY <1>7, <1>8

\* The probe settles on what it heard on, which was the old configuration.
LEMMA RetuneEnd ==
    ASSUME Retune!RetuneAssumption, MovedInv, Retune!EndVisit PROVE MovedInv'
<1>1. /\ pc = "visit" /\ pc' = "closing" /\ Retune!ProbeVisitEnd
      /\ UNCHANGED <<tuned, Retune!queueVars, Retune!askVars, completed>>
      /\ UNCHANGED <<Retune!edgeRf, moved>>
  BY DEF Retune!EndVisit
<1>2. CASE trial = None
  BY <1>1, <1>2 DEF Retune!ProbeVisitEnd, MovedInv, RetuneTypes, Unmoved, Retune!ProbeIdle
<1>3. CASE trial # None
  <2>1. trial \in Retune!Trials /\ trial.old \in RfConfigs /\ trial.new \in RfConfigs
        /\ trial.misses \in Nat /\ trial.total \in Nat
    BY <1>3 DEF MovedInv, RetuneTypes, Retune!Trials
  <2>2. CASE trial.fresh
    <3>1. trial' = [trial EXCEPT !.fresh = FALSE] /\ UNCHANGED <<view, roster, status>>
      BY <1>1, <1>3, <2>2 DEF Retune!ProbeVisitEnd
    <3>2. trial' \in Retune!Trials /\ trial'.old = trial.old
      BY <2>1, <3>1 DEF Retune!Trials
    <3> QED BY <1>1, <1>3, <3>1, <3>2
        DEF Retune!RetuneAssumption, MovedInv, RetuneTypes, Unmoved
  <2>3. CASE ~trial.fresh /\ Retune!Located
    <3>1. /\ trial' = None /\ roster' = view /\ view' = view
          /\ status' = IF status = "PENDING" THEN IF Retune!OnOld THEN "REFUSED" ELSE "ACCEPTED"
                       ELSE status
      BY <1>1, <1>3, <2>3 DEF Retune!ProbeVisitEnd, Retune!ProbeSettles, Retune!Settle
    <3>2. moved = {} => view = Factory /\ Retune!OnOld
      BY <1>1, <1>3, <2>3
      DEF Retune!Located, Retune!OnOld, MovedInv, Unmoved, Retune!ProbeIdle
    <3> QED BY <1>1, <3>1, <3>2 DEF MovedInv, RetuneTypes, Unmoved
  <2>4. CASE ~trial.fresh /\ ~Retune!Located /\ heard
    <3>1. trial' = [trial EXCEPT !.misses = 0] /\ UNCHANGED <<view, roster, status>>
      BY <1>1, <1>3, <2>4 DEF Retune!ProbeVisitEnd, Retune!ProbeHolds
    <3>2. trial' \in Retune!Trials /\ trial'.old = trial.old
      BY <2>1, <3>1 DEF Retune!Trials
    <3> QED BY <1>1, <1>3, <3>1, <3>2
        DEF Retune!RetuneAssumption, MovedInv, RetuneTypes, Unmoved
  <2>5. CASE ~trial.fresh /\ ~Retune!Located /\ ~heard /\ trial.total + 1 >= GiveUpAfter
    <3>1. /\ trial' = None /\ view' = trial.old /\ roster' = trial.old
          /\ status' \in {status, "UNREACHABLE"}
      BY <1>1, <1>3, <2>5 DEF Retune!ProbeVisitEnd, Retune!ProbeGivesUp, Retune!Settle
    <3> QED BY <1>1, <1>3, <2>1, <3>1 DEF MovedInv, RetuneTypes, Unmoved
  <2>6. CASE ~trial.fresh /\ ~Retune!Located /\ ~heard /\ ~(trial.total + 1 >= GiveUpAfter)
    <3>1. /\ \/ trial' = [trial EXCEPT !.misses = 0, !.total = @ + 1]
             \/ trial' = [trial EXCEPT !.misses = @ + 1, !.total = @ + 1]
          /\ view' \in {view, trial.old, trial.new} /\ UNCHANGED <<roster, status>>
      BY <1>1, <1>3, <2>6 DEF Retune!ProbeVisitEnd, Retune!ProbeSwaps
    <3>2. trial' \in Retune!Trials /\ trial'.old = trial.old
      <4>1. /\ trial = [old |-> trial.old, new |-> trial.new, misses |-> trial.misses,
                        total |-> trial.total, fresh |-> trial.fresh]
            /\ trial.fresh \in BOOLEAN
        BY <2>1 DEF Retune!Trials
      <4>2. CASE trial' = [trial EXCEPT !.misses = 0, !.total = @ + 1]
        <5>1. trial' = [old |-> trial.old, new |-> trial.new, misses |-> 0,
                        total |-> trial.total + 1, fresh |-> trial.fresh]
          BY <4>1, <4>2
        <5> QED BY <2>1, <4>1, <5>1 DEF Retune!Trials
      <4>3. CASE trial' = [trial EXCEPT !.misses = @ + 1, !.total = @ + 1]
        <5>1. trial' = [old |-> trial.old, new |-> trial.new, misses |-> trial.misses + 1,
                        total |-> trial.total + 1, fresh |-> trial.fresh]
          BY <4>1, <4>3
        <5> QED BY <2>1, <4>1, <5>1 DEF Retune!Trials
      <4> QED BY <3>1, <4>2, <4>3
    <3> QED BY <1>1, <1>3, <2>1, <3>1, <3>2
        DEF Retune!RetuneAssumption, MovedInv, RetuneTypes, Unmoved
  <2> QED BY <2>2, <2>3, <2>4, <2>5, <2>6
<1> QED BY <1>2, <1>3

LEMMA RetuneClose ==
    ASSUME Retune!RetuneAssumption, MovedInv, NEW got \in BOOLEAN, NEW back \in BOOLEAN,
           Retune!CloseVisit(got, back)
    PROVE  MovedInv'
<1>1. EdgeStays
  BY EdgeOwn DEF Retune!CloseVisit
<1>2. /\ pc' = "between"
      /\ UNCHANGED <<Retune!probeVars, tuned, Retune!queueVars, Retune!askVars, moved>>
  BY DEF Retune!CloseVisit
<1> QED BY <1>1, <1>2 DEF EdgeStays, MovedInv, RetuneTypes, Unmoved, Retune!ProbeIdle

LEMMA RetuneRestart ==
    ASSUME Retune!RetuneAssumption, MovedInv, Retune!HubRestart PROVE MovedInv'
<1>1. /\ view' = roster /\ roster' = roster /\ tuned' = Factory /\ trial' = None
      /\ status' = "NONE" /\ downlink' = <<>> /\ mirror' = None /\ pc' = "between"
      /\ UNCHANGED <<Retune!edgeRf, moved>>
  BY DEF Retune!HubRestart
<1>2. <<>> \in Seq([cfg : RfConfigs \cup {None}, genuine : BOOLEAN])
  OBVIOUS
<1>3. RetuneTypes'
  BY <1>1, <1>2 DEF Retune!RetuneAssumption, MovedInv, RetuneTypes
<1>4. Unmoved'
  BY <1>1 DEF MovedInv, Unmoved
<1> QED BY <1>1, <1>3, <1>4 DEF MovedInv

LEMMA RetuneMoved ==
    ASSUME Retune!RetuneAssumption, MovedInv, [Retune!Next]_(Retune!vars) PROVE MovedInv'
<1>1. CASE UNCHANGED Retune!vars
  BY <1>1 DEF MovedInv, RetuneTypes, Unmoved, Retune!ProbeIdle
<1>2. ASSUME Retune!DeliverFails PROVE MovedInv'
  BY <1>2 DEF Retune!DeliverFails, MovedInv, RetuneTypes, Unmoved, Retune!ProbeIdle
<1> QED BY <1>1, <1>2, RetuneOperator, RetuneEdge, RetuneAsk, RetuneVisit, RetuneRound,
           RetuneDeliver, RetuneEnd, RetuneClose, RetuneRestart
    DEF Retune!Next, Retune!Delegate, Retune!Close

LEMMA RetuneSpec == Spec => Retune!Spec
<1>1. Init => Retune!Init
  BY DEF Init
<1>2. [Next]_vars => [Retune!Next]_(Retune!vars)
  BY
  DEF vars, retuneVars, Next, RetuneStep, SessionStep, CountersStep,
      ControlStep, HostStep, CardStep, ArrivalStep, PaceStep, Sx7Step, Sx2Step,
      MeshStep, BenchStep, FilesStep, ReportStep, MqttStep
<1> QED BY <1>1, <1>2, PTL DEF Spec, Retune!Spec

\* A change the Hub reports as accepted is one the Edge made, whatever was lost
\* or restarted and however often the operator asked.
THEOREM AcceptedWasMade == Spec => []AcceptedMeansMoved
<1>1. Retune!Init => MovedInv
  BY PartsAssumption
  DEF Retune!Init, MovedInv, RetuneTypes, Unmoved, Retune!RetuneAssumption
<1>2. MovedInv /\ [Retune!Next]_(Retune!vars) => MovedInv'
  BY PartsAssumption, RetuneMoved
<1>3. MovedInv => AcceptedMeansMoved
  BY DEF MovedInv, Unmoved, AcceptedMeansMoved, Retune!AcceptedMeansMoved
<1> QED BY RetuneSpec, <1>1, <1>2, <1>3, PTL DEF Retune!Spec

HIDE DEF Retune!vars, Retune!hubVars, Retune!edgeVars, Retune!ghostVars,
         Retune!boundVars, Retune!probeVars, Retune!queueVars, Retune!askVars,
         Retune!driveVars, Retune!sessionVars, Retune!edgeRf, Retune!edgeFile

-----------------------------------------------------------------------------
(* The two radios, as MCParts drives them.                                 *)

LEMMA Sx7Spec == Spec => Sx7!Spec
<1>1. Init => Sx7!Init
  BY DEF Init
<1>2. [Next]_vars => [Sx7!Next]_(Sx7!vars)
  BY
  DEF vars, sx127xVars, Sx7!vars, Sx7!receiver, Sx7!config, Next, RetuneStep,
      SessionStep, CountersStep, ControlStep, HostStep, CardStep, ArrivalStep,
      PaceStep, Sx7Step, Sx2Step, MeshStep, BenchStep, FilesStep, ReportStep,
      MqttStep
<1> QED BY <1>1, <1>2, PTL DEF Spec, Sx7!Spec

LEMMA Sx2Spec == Spec => Sx2!Spec
<1>1. Init => Sx2!Init
  BY DEF Init
<1>2. [Next]_vars => [Sx2!Next]_(Sx2!vars)
  BY
  DEF vars, sx1262Vars, Sx2!vars, Sx2!receiver, Sx2!budget, Next, RetuneStep,
      SessionStep, CountersStep, ControlStep, HostStep, CardStep, ArrivalStep,
      PaceStep, Sx7Step, Sx2Step, MeshStep, BenchStep, FilesStep, ReportStep,
      MqttStep
<1> QED BY <1>1, <1>2, PTL DEF Spec, Sx2!Spec

\* The receiver hears only what came after the last transmission, and outside
\* of one the shadow tells the mode.
Sx7Inv ==
    /\ sx127x_pc \in {"busy", "send", "recv"} /\ sx127x_sent \in Nat
    /\ chip \in {"stdby", "rxcont", "tx"}
    /\ sx127x_pc = "send" => /\ mode = "tx" /\ dio0 = "tx" /\ air = None
                             /\ chip \in {"tx", "stdby"}
    /\ sx127x_pc # "send" => /\ chip # "tx" /\ mode = chip /\ dio0 = "rx"
                             /\ sx127x_sent > 0 => chip = "rxcont"
                             /\ air # None => air.after = sx127x_sent
                             /\ "RxDone" \in flags => /\ fifo.after = sx127x_sent
                                                      /\ fifo.damaged => "CrcError" \in flags
    /\ ldro = Sx7!NeedsLdro(modem)

\* set_mode, written two or three times in a row, leaves the chip in the last.
LEMMA TwoModes ==
    ASSUME NEW a, NEW b, a # b, Sx7!SetModes(<<a, b>>)
    PROVE  mode' = b /\ chip' = b /\ air' = None
<1> DEFINE ms == <<a, b>>
           wrote == {i \in DOMAIN ms : ms[i] # (IF i = 1 THEN mode ELSE ms[i - 1])}
           final == CHOOSE i \in wrote : \A j \in wrote : j <= i
<1>1. DOMAIN ms = {1, 2} /\ ms[1] = a /\ ms[2] = b /\ Len(ms) = 2
  OBVIOUS
<1>2. 2 \in wrote /\ wrote \subseteq {1, 2}
  BY <1>1
<1>3. final = 2
  BY <1>2
<1> QED BY <1>1, <1>2, <1>3 DEF Sx7!SetModes

LEMMA ThreeModes ==
    ASSUME NEW a, NEW b, NEW c, b # c, Sx7!SetModes(<<a, b, c>>)
    PROVE  mode' = c /\ chip' = c /\ air' = None
<1> DEFINE ms == <<a, b, c>>
           wrote == {i \in DOMAIN ms : ms[i] # (IF i = 1 THEN mode ELSE ms[i - 1])}
           final == CHOOSE i \in wrote : \A j \in wrote : j <= i
<1>1. /\ DOMAIN ms = {1, 2, 3} /\ ms[1] = a /\ ms[2] = b /\ ms[3] = c /\ Len(ms) = 3
  OBVIOUS
<1>2. 3 \in wrote /\ wrote \subseteq {1, 2, 3}
  BY <1>1
<1>3. final = 3
  BY <1>2
<1> QED BY <1>1, <1>2, <1>3 DEF Sx7!SetModes

LEMMA Sx7ChipStep == ASSUME Sx7Inv, Sx7!Chip PROVE Sx7Inv'
<1> USE DEF Sx7Inv, Sx7!config, Sx7!receiver, Sx7!NeedsLdro
<1>1. ASSUME NEW damaged \in BOOLEAN, Sx7!FrameBegins(damaged) PROVE Sx7Inv'
  BY <1>1 DEF Sx7!FrameBegins
<1>2. CASE Sx7!FrameEnds
  BY <1>2 DEF Sx7!FrameEnds
<1>3. CASE Sx7!TransmissionEnds
  BY <1>3 DEF Sx7!TransmissionEnds
<1> QED BY <1>1, <1>2, <1>3 DEF Sx7!Chip

LEMMA Sx7DriverStep == ASSUME Sx7Inv, Sx7!Driver PROVE Sx7Inv'
<1> USE DEF Sx7Inv, Sx7!config, Sx7!receiver, Sx7!NeedsLdro
<1>1. CASE Sx7!Send
  <2>1. mode' = "tx" /\ chip' = "tx" /\ air' = None
    BY <1>1, ThreeModes DEF Sx7!Send
  <2> QED BY <1>1, <2>1 DEF Sx7!Send
<1>2. CASE Sx7!Sent
  <2>1. mode' = "rxcont" /\ chip' = "rxcont" /\ air' = None
    BY <1>2, TwoModes DEF Sx7!Sent
  <2> QED BY <1>2, <2>1 DEF Sx7!Sent, Sx7!Heard
<1>3. CASE Sx7!Recv
  <2>1. CASE Sx7!Listening
    BY <1>3, <2>1 DEF Sx7!Recv, Sx7!SwitchOn, Sx7!Listening
  <2>2. CASE ~Sx7!Listening
    <3>1. mode' = "rxcont" /\ chip' = "rxcont" /\ air' = None /\ dio0' = "rx"
      BY <1>3, <2>2, TwoModes DEF Sx7!Recv, Sx7!SwitchOn
    <3> QED BY <1>3, <3>1 DEF Sx7!Recv
  <2> QED BY <2>1, <2>2
<1>4. CASE Sx7!Takes
  <2>1. mode' = "rxcont" /\ chip' = "rxcont" /\ air' = None
    BY <1>4, TwoModes DEF Sx7!Takes
  <2> QED BY <1>4, <2>1 DEF Sx7!Takes, Sx7!Verdict
<1>5. CASE Sx7!TimesOut
  BY <1>5 DEF Sx7!TimesOut
<1>6. ASSUME NEW m, Sx7!Tune(m) PROVE Sx7Inv'
  BY <1>6 DEF Sx7!Tune, Sx7!Idled, Sx7!Optimized
<1> QED BY <1>1, <1>2, <1>3, <1>4, <1>5, <1>6 DEF Sx7!Driver

\* A frame that arrives, or waits to be read, came after the last transmission,
\* and its flag came with it.
Sx2Inv ==
    /\ sx1262_pc = "send" => /\ sx1262_chip \in {"tx", "fs"} /\ dio1 = "tx"
                             /\ sx1262_air = None /\ "RxDone" \notin irq
    /\ sx1262_pc # "send" => /\ sx1262_chip # "tx"
                             /\ sx1262_air # None => sx1262_air.after = sx1262_sent
                             /\ "RxDone" \in irq => /\ buffer.after = sx1262_sent
                                                    /\ buffer.damaged => "CrcErr" \in irq

LEMMA Sx2Kept == ASSUME Sx2Inv, [Sx2!Next]_(Sx2!vars) PROVE Sx2Inv'
<1> USE DEF Sx2Inv, Sx2!receiver, Sx2!budget
<1>1. CASE UNCHANGED Sx2!vars
  BY <1>1 DEF Sx2!vars
<1>2. ASSUME NEW damaged \in BOOLEAN, Sx2!FrameBegins(damaged) PROVE Sx2Inv'
  BY <1>2 DEF Sx2!FrameBegins
<1>3. CASE Sx2!FrameEnds
  BY <1>3 DEF Sx2!FrameEnds
<1>4. CASE Sx2!FrameLost
  BY <1>4 DEF Sx2!FrameLost
<1>5. CASE Sx2!TransmissionEnds
  BY <1>5 DEF Sx2!TransmissionEnds
<1>6. CASE Sx2!Send
  BY <1>6 DEF Sx2!Send
<1>7. CASE Sx2!Sent
  BY <1>7 DEF Sx2!Sent, Sx2!ResumeReceive, Sx2!StartReceive, Sx2!Raised
<1>8. CASE Sx2!Recv \/ Sx2!TimesOut
  BY <1>8 DEF Sx2!Recv, Sx2!TimesOut
<1>9. CASE Sx2!Takes
  BY <1>9 DEF Sx2!Takes, Sx2!StartReceive, Sx2!Raised
<1>10. ASSUME NEW v \in Settings, Sx2!Tune(v) PROVE Sx2Inv'
  BY <1>10 DEF Sx2!Tune, Sx2!StartReceive, Sx2!Raised
<1> QED BY <1>1, <1>2, <1>3, <1>4, <1>5, <1>6, <1>7, <1>8, <1>9, <1>10
    DEF Sx2!Next, Sx2!Chip, Sx2!Driver

\* No error of the driver is allowed here (MaxFaults is 0): one would leave the
\* chip where it raised.
Sx2OnAir == Sx2!StaysOnAir /\ sx1262_faults \in Nat

LEMMA Sx2StaysOnAir ==
    ASSUME Sx2Inv, Sx2OnAir, [Sx2!Next]_(Sx2!vars)
    PROVE  Sx2OnAir'
<1> USE DEF Sx2Inv, Sx2!receiver, Sx2!budget, Sx2OnAir, Sx2!StaysOnAir
<1>0. ~\E where \in {"fs", "stdby"} : Sx2!Raised(where)
  BY DEF Sx2!Raised
<1>1. CASE UNCHANGED Sx2!vars
  BY <1>1 DEF Sx2!vars
<1>2. ASSUME NEW damaged \in BOOLEAN, Sx2!FrameBegins(damaged) PROVE Sx2OnAir'
  BY <1>2 DEF Sx2!FrameBegins
<1>3. CASE Sx2!FrameEnds \/ Sx2!FrameLost
  BY <1>3 DEF Sx2!FrameEnds, Sx2!FrameLost
<1>5. CASE Sx2!TransmissionEnds
  BY <1>5 DEF Sx2!TransmissionEnds
<1>6. CASE Sx2!Send
  BY <1>6 DEF Sx2!Send
<1>7. CASE Sx2!Sent
  BY <1>7, <1>0 DEF Sx2!Sent, Sx2!ResumeReceive, Sx2!StartReceive
<1>8. CASE Sx2!Recv \/ Sx2!TimesOut
  BY <1>8 DEF Sx2!Recv, Sx2!TimesOut
<1>9. CASE Sx2!Takes
  BY <1>9, <1>0 DEF Sx2!Takes, Sx2!StartReceive
<1>10. ASSUME NEW v \in Settings, Sx2!Tune(v) PROVE Sx2OnAir'
  BY <1>10, <1>0 DEF Sx2!Tune, Sx2!StartReceive
<1> QED BY <1>1, <1>2, <1>3, <1>5, <1>6, <1>7, <1>8, <1>9, <1>10
    DEF Sx2!Next, Sx2!Chip, Sx2!Driver

LEMMA Sx7Holds == Spec => []Sx7Inv
<1>1. Sx7!Init => Sx7Inv
  BY DEF Sx7!Init, Sx7Inv
<1>2. Sx7Inv /\ [Sx7!Next]_(Sx7!vars) => Sx7Inv'
  <2>1. CASE UNCHANGED Sx7!vars
    BY <2>1 DEF Sx7!vars, Sx7Inv, Sx7!config, Sx7!receiver, Sx7!NeedsLdro
  <2> QED BY <2>1, Sx7ChipStep, Sx7DriverStep DEF Sx7!Next
<1> QED BY Sx7Spec, <1>1, <1>2, PTL DEF Sx7!Spec

LEMMA Sx2Holds == Spec => [](Sx2Inv /\ Sx2OnAir)
<1>1. Sx2!Init => Sx2Inv /\ Sx2OnAir
  BY DEF Sx2!Init, Sx2Inv, Sx2OnAir, Sx2!StaysOnAir
<1>2. Sx2Inv /\ Sx2OnAir /\ [Sx2!Next]_(Sx2!vars) => Sx2Inv' /\ Sx2OnAir'
  BY Sx2Kept, Sx2StaysOnAir
<1> QED BY Sx2Spec, <1>1, <1>2, PTL DEF Sx2!Spec

\* Outside of a transmission a radio that has sent once listens, to all it may
\* be sent: whatever interrupts come when, whatever is retuned in between.
THEOREM RadiosStayOnAir == Spec => []StaysOnAir
<1>1. Sx7Inv /\ Sx2OnAir => StaysOnAir
  BY DEF Sx7Inv, Sx2OnAir, StaysOnAir, Sx7!StaysOnAir, Sx7!Listening
<1> QED BY Sx7Holds, Sx2Holds, <1>1, PTL

\* A program is handed whole frames only, and none heard before what it sent
\* last, whenever the frame ended and however late it is read.
THEOREM AnswersHandedOver == Spec => HandsOverAnswers
<1>1. Sx7Inv => /\ Sx7!Takes /\ result'.frame # None
                    => ~result'.frame.damaged /\ result'.frame.after = sx127x_sent
                /\ Sx7!Recv /\ sx127x_sent > 0 => air' = air
  BY DEF Sx7Inv, Sx7!Takes, Sx7!Recv, Sx7!SwitchOn, Sx7!Listening, Sx7!Dio0,
     Sx7!Verdict
<1>2. Spec => Sx7!HandsOverAnswers
  BY Sx7Spec, Sx7Holds, <1>1, PTL DEF Sx7!Spec, Sx7!HandsOverAnswers
<1>3. Sx2Inv /\ Sx2OnAir =>
          /\ Sx2!Takes /\ sx1262_result'.frame # None
              => ~sx1262_result'.frame.damaged /\ sx1262_result'.frame.after = sx1262_sent
          /\ Sx2!Recv => sx1262_air' = sx1262_air
  BY DEF Sx2Inv, Sx2OnAir, Sx2!StaysOnAir, Sx2!Takes, Sx2!Recv, Sx2!receiver,
     Sx2!Dio1,
         Sx2!Verdict
<1>4. Spec => Sx2!HandsOverAnswers
  BY Sx2Spec, Sx2Holds, <1>3, PTL DEF Sx2!Spec, Sx2!HandsOverAnswers
<1> QED BY <1>2, <1>4, PTL DEF HandsOverAnswers

-----------------------------------------------------------------------------
(* The replay window: a counter of the WINDOW counters up to the highest   *)
(* was taken exactly if its bit is set.                                    *)

WindowInv ==
    /\ window \in [highest : 0..MaxCounter, bitmap : SUBSET Counters!Mask]
    /\ taken \subseteq 1..window.highest
    /\ \A k \in Counters!Mask : k \in window.bitmap <=> window.highest - k \in taken

\* The bits a window that moves up by n keeps: those of the same counters.
LEMMA ShiftedBits ==
    ASSUME WINDOW \in Nat, NEW bitmap \in SUBSET Counters!Mask, NEW n \in Nat,
           NEW k \in Counters!Mask
    PROVE  k \in Counters!Shifted(bitmap, n) <=> k >= n /\ k - n \in bitmap
BY DEF Counters!Shifted, Counters!Mask

LEMMA WindowStep ==
    ASSUME WindowInv, NEW c \in 1..MaxCounter, Counters!Accept(c)
    PROVE  WindowInv'
<1> DEFINE h == window.highest
<1>1. /\ WINDOW \in Nat \ {0} /\ MaxCounter \in Nat /\ c \in Nat \ {0}
      /\ h \in Nat /\ h <= MaxCounter /\ window.bitmap \in SUBSET Counters!Mask
  BY PartsAssumption DEF WindowInv
<1>2. window' = Counters!Seen(window, c) /\ taken' = taken \cup {c}
  BY DEF Counters!Accept
<1>3. CASE c > h
  <2>1. /\ window' = [highest |-> c, bitmap |-> window'.bitmap]
        /\ window'.bitmap = Counters!Shifted(window.bitmap, c - h) \cup {0}
    BY <1>2, <1>3 DEF Counters!Seen
  <2>2. window'.bitmap \subseteq Counters!Mask
    BY <1>1, <2>1 DEF Counters!Shifted, Counters!Mask
  <2>3. ASSUME NEW k \in Counters!Mask
        PROVE  k \in window'.bitmap <=> c - k \in taken'
    <3>1. k \in Nat /\ k < WINDOW /\ c - h \in Nat /\ c - h > 0
      BY <1>1, <1>3 DEF Counters!Mask
    <3>2. k \in window'.bitmap <=> k = 0 \/ (k >= c - h /\ k - (c - h) \in window.bitmap)
      BY <1>1, <2>1, <3>1, ShiftedBits
    <3>3. k >= c - h => (k - (c - h) \in window.bitmap <=> c - k \in taken)
      <4>1. SUFFICES ASSUME k >= c - h
                     PROVE  k - (c - h) \in window.bitmap <=> c - k \in taken
        OBVIOUS
      <4>2. k - (c - h) \in Counters!Mask /\ h - (k - (c - h)) = c - k
        BY <1>1, <3>1, <4>1 DEF Counters!Mask
      <4> QED BY <4>2 DEF WindowInv
    <3>4. c - k \in taken => k >= c - h
      BY <1>1, <3>1 DEF WindowInv
    <3>5. c - k = c <=> k = 0
      BY <1>1, <3>1
    <3> QED BY <1>2, <3>2, <3>3, <3>4, <3>5
  <2>4. taken' \subseteq 1..c
    BY <1>1, <1>2, <1>3 DEF WindowInv
  <2> QED BY <1>1, <2>1, <2>2, <2>3, <2>4 DEF WindowInv
<1>4. CASE c <= h
  <2>1. /\ window' = [highest |-> h, bitmap |-> window'.bitmap]
        /\ window'.bitmap = window.bitmap \cup {h - c}
    <3>1. window' = [window EXCEPT !.bitmap = @ \cup {h - c}]
      BY <1>1, <1>2, <1>4 DEF Counters!Seen
    <3>2. window \in [highest : 0..MaxCounter, bitmap : SUBSET Counters!Mask]
      BY DEF WindowInv
    <3> QED BY <3>1, <3>2
  <2>2. h - c \in Counters!Mask
    BY <1>1, <1>4 DEF Counters!Accept, Counters!Fresh, Counters!Mask
  <2>3. ASSUME NEW k \in Counters!Mask
        PROVE  k \in window'.bitmap <=> h - k \in taken'
    <3>1. k = h - c <=> h - k = c
      BY <1>1, <1>4 DEF Counters!Mask
    <3> QED BY <1>2, <2>1, <3>1 DEF WindowInv
  <2>4. taken' \subseteq 1..h
    BY <1>1, <1>2, <1>4 DEF WindowInv
  <2> QED BY <1>1, <2>1, <2>2, <2>3, <2>4 DEF WindowInv
<1> QED BY <1>1, <1>3, <1>4

\* Whatever the order and however far the counters jump, the window takes a
\* counter exactly when it was not taken before and is less than WINDOW below
\* the highest: no replay gets in, and no fresh frame within it is refused.
THEOREM WindowTakesFreshOnce == Spec => []TakesFreshOnce
<1>1. Init => WindowInv
  BY PartsAssumption
     DEF Init, Counters!Init, Counters!Empty, Counters!Mask, WindowInv
<1>2. WindowInv /\ [Next]_vars => WindowInv'
  <2>1. CASE CountersStep
    BY <2>1, WindowStep DEF CountersStep, Counters!Next
  <2>2. CASE UNCHANGED countersVars
    BY <2>2 DEF countersVars, WindowInv
  <2>3. [Next]_vars => CountersStep \/ UNCHANGED countersVars
    BY DEF vars, Next, RetuneStep, SessionStep, ControlStep, HostStep,
       CardStep, ArrivalStep,
           PaceStep, Sx7Step, Sx2Step, MeshStep, BenchStep, FilesStep, ReportStep, MqttStep
  <2> QED BY <2>1, <2>2, <2>3
<1>3. WindowInv => TakesFreshOnce
  <2>1. SUFFICES ASSUME WindowInv, NEW c \in 1..MaxCounter
                 PROVE  Counters!Fresh(window, c)
                           <=> c \notin taken /\ c + WINDOW > window.highest
    BY DEF TakesFreshOnce, Counters!TakesFreshOnce
  <2>2. /\ WINDOW \in Nat \ {0} /\ c \in Nat \ {0} /\ window.highest \in Nat
    BY <2>1, PartsAssumption DEF WindowInv
  <2>3. CASE c > window.highest
    BY <2>1, <2>2, <2>3 DEF Counters!Fresh, WindowInv
  <2>4. CASE c <= window.highest
    <3>1. /\ window.highest - c \in Nat /\ window.highest - (window.highest - c) = c
          /\ window.highest - c < WINDOW <=> c + WINDOW > window.highest
      BY <2>2, <2>4
    <3>2. window.highest - c < WINDOW => window.highest - c \in Counters!Mask
      BY <2>2, <3>1 DEF Counters!Mask
    <3>3. window.highest - c < WINDOW =>
             (window.highest - c \in window.bitmap <=> c \in taken)
      BY <2>1, <3>1, <3>2 DEF WindowInv
    <3> QED BY <2>2, <2>4, <3>1, <3>3 DEF Counters!Fresh
  <2> QED BY <2>2, <2>3, <2>4
<1> QED BY <1>1, <1>2, <1>3, PTL DEF Spec

-----------------------------------------------------------------------------
(* The secure session.                                                     *)

Sessions == INSTANCE SessionProofs WITH
    WINDOW <- SessionWindow, state <- session_state, asked <- session_asked,
    alive <- session_alive, silent <- session_silent, polled <- session_polled,
    reboots <- session_reboots

LEMMA SameAssumption == Sessions!SessionAssumption
BY PartsAssumption
DEF Session!SessionAssumption, Sessions!SessionAssumption,
    Session!RW!Windows, Sessions!RW!Windows

LEMMA SessionNext == Session!Next => Sessions!Next
BY
  DEF Session!hubVars, Sessions!hubVars, Session!edgeVars, Sessions!edgeVars,
      Session!ghostVars, Sessions!ghostVars, Session!vars, Sessions!vars,
      Session!NoFrame, Sessions!NoFrame, Session!Open, Sessions!Open,
      Session!OnWire, Sessions!OnWire, Session!Sealed, Sessions!Sealed,
      Session!IsSealed, Sessions!IsSealed, Session!Session, Sessions!Session,
      Session!Keyed, Sessions!Keyed, Session!KeysInUse, Sessions!KeysInUse,
      Session!Arrives, Sessions!Arrives, Session!Lost, Sessions!Lost,
      Session!Exhausted, Sessions!Exhausted, Session!NextCounter,
      Sessions!NextCounter, Session!Records, Sessions!Records, Session!Opens,
      Sessions!Opens, Session!Opened, Sessions!Opened, Session!Transmit,
      Sessions!Transmit, Session!BeginHandshake, Sessions!BeginHandshake,
      Session!SendInit, Sessions!SendInit, Session!GotHello, Sessions!GotHello,
      Session!SendWelcome, Sessions!SendWelcome, Session!GotAck,
      Sessions!GotAck, Session!HandshakeFails, Sessions!HandshakeFails,
      Session!BeginVisit, Sessions!BeginVisit, Session!Question,
      Sessions!Question, Session!SealAndTransmit, Sessions!SealAndTransmit,
      Session!AskRound, Sessions!AskRound, Session!AskRoundRaises,
      Sessions!AskRoundRaises, Session!Heard, Sessions!Heard,
      Session!HeardTail, Sessions!HeardTail, Session!NotTheAnswer,
      Sessions!NotTheAnswer, Session!Unanswered, Sessions!Unanswered,
      Session!VisitOver, Sessions!VisitOver, Session!NeedsPoll,
      Sessions!NeedsPoll, Session!EndVisit, Sessions!EndVisit,
      Session!ClosingPoll, Sessions!ClosingPoll, Session!ClosingPollRaises,
      Sessions!ClosingPollRaises, Session!ClosingOver, Sessions!ClosingOver,
      Session!Hears, Sessions!Hears, Session!Answer, Sessions!Answer,
      Session!EdgeStep, Sessions!EdgeStep, Session!AnswerInit,
      Sessions!AnswerInit, Session!AnswerWelcome, Sessions!AnswerWelcome,
      Session!Answers, Sessions!Answers, Session!AnswerSealed,
      Sessions!AnswerSealed, Session!CannotOpen, Sessions!CannotOpen,
      Session!SendReply, Sessions!SendReply, Session!EdgeReboot,
      Sessions!EdgeReboot, Session!HubReboot, Sessions!HubReboot, Session!Init,
      Sessions!Init, Session!Hub, Sessions!Hub, Session!Edge, Sessions!Edge,
      Session!Next, Sessions!Next, Session!RW!Empty, Sessions!RW!Empty,
      Session!RW!Seen, Sessions!RW!Seen, Session!RW!Fresh, Sessions!RW!Fresh,
      Session!RW!Shifted, Sessions!RW!Shifted, Session!RW!Mask,
      Sessions!RW!Mask

LEMMA SessionSpec == Spec => Sessions!Spec
<1>1. Init => Sessions!Init
  BY DEF Init, Session!Init, Sessions!Init, Session!NoFrame, Sessions!NoFrame
<1>2. [Next]_vars => [Sessions!Next]_(Sessions!vars)
  BY SessionNext
  DEF vars, sessionVars, Sessions!vars, Sessions!hubVars, Sessions!edgeVars, Sessions!ghostVars,
      Next, RetuneStep, SessionStep, CountersStep, ControlStep, HostStep, CardStep,
      ArrivalStep, PaceStep, Sx7Step, Sx2Step, MeshStep, BenchStep, FilesStep, ReportStep,
      MqttStep
<1> QED BY <1>1, <1>2, PTL DEF Spec, Sessions!Spec

\* Two ends that both hold a session hold the same one: the ephemeral key of
\* the latest INIT is the one the Hub goes on with, however late its HELLO.
THEOREM SessionsAgree == Spec => []KeysAgree
<1>1. Sessions!Spec => []Sessions!KeysAgree
  BY SameAssumption, Sessions!SessionsAgree
<1>2. Sessions!KeysAgree => KeysAgree
  BY DEF KeysAgree, Session!KeysAgree, Sessions!KeysAgree
<1> QED BY SessionSpec, <1>1, <1>2, PTL

\* No counter is sealed twice under one key in one direction, whatever is
\* repeated, lost or late during the handshake and after it.
THEOREM NoncesAreFresh == Spec => []NoNonceReuse
<1>1. Sessions!Spec => []Sessions!NoNonceReuse
  BY SameAssumption, Sessions!NoncesAreFresh
<1>2. Sessions!NoNonceReuse => NoNonceReuse
  BY DEF NoNonceReuse, Session!NoNonceReuse, Sessions!NoNonceReuse
<1> QED BY SessionSpec, <1>1, <1>2, PTL

-----------------------------------------------------------------------------
(* Signed commands.                                                        *)

Commands == INSTANCE ControlProofs WITH
    hubPc <- control_hubPc, downlink <- control_downlink, edgePc <- control_edgePc

LEMMA SameControl == Commands!ControlAssumption
BY PartsAssumption
DEF Control!ControlAssumption, Commands!ControlAssumption, Control!Artifacts,
    Commands!Artifacts, Control!Marks, Commands!Marks, Control!Ids, Commands!Ids

LEMMA ControlNext == Control!Next => Commands!Next
BY
  DEF Control!hubVars, Commands!hubVars, Control!edgeVars, Commands!edgeVars,
      Control!ghostVars, Commands!ghostVars, Control!boundVars,
      Commands!boundVars, Control!vars, Commands!vars, Control!Ids,
      Commands!Ids, Control!Artifact, Commands!Artifact, Control!ReadBack,
      Commands!ReadBack, Control!Count, Commands!Count, Control!SaveCounter,
      Commands!SaveCounter, Control!Queue, Commands!Queue, Control!HubBoots,
      Commands!HubBoots, Control!HubRestart, Commands!HubRestart,
      Control!EdgeBoots, Commands!EdgeBoots, Control!EdgeRestart,
      Commands!EdgeRestart, Control!RotateHub, Commands!RotateHub,
      Control!RotateEdge, Commands!RotateEdge, Control!Pull, Commands!Pull,
      Control!Verified, Commands!Verified, Control!Refuse, Commands!Refuse,
      Control!Defer, Commands!Defer, Control!Apply, Commands!Apply,
      Control!AcceptCounter, Commands!AcceptCounter, Control!ApplyFails,
      Commands!ApplyFails, Control!FinalOk, Commands!FinalOk,
      Control!FinalOkRaises, Commands!FinalOkRaises, Control!RunPending,
      Commands!RunPending, Control!Init, Commands!Init, Control!Next,
      Commands!Next

LEMMA ControlSpec == Spec => Commands!Spec
<1>1. Init => Commands!Init
  BY DEF Init, Control!Init, Commands!Init, Control!Ids, Commands!Ids
<1>2. [Next]_vars => [Commands!Next]_(Commands!vars)
  BY ControlNext
  DEF vars, controlVars, Commands!vars, Commands!hubVars, Commands!edgeVars,
      Commands!ghostVars, Commands!boundVars,
      Next, RetuneStep, SessionStep, CountersStep, ControlStep, HostStep, CardStep,
      ArrivalStep, PaceStep, Sx7Step, Sx2Step, MeshStep, BenchStep, FilesStep, ReportStep,
      MqttStep
<1> QED BY <1>1, <1>2, PTL DEF Spec, Commands!Spec

\* No number the Hub is going to issue is one the Edge would take for a
\* replay, whichever of them restarts at whatever point and whatever roots
\* they have been through, as long as the counters reach their files.
THEOREM NeverLockedOut == Spec => []NoLockout
<1>1. Commands!Spec => []Commands!NoLockout
  BY SameControl, Commands!NeverLockedOut
<1>2. Commands!NoLockout => NoLockout
  BY DEF NoLockout, Control!NoLockout, Commands!NoLockout, Control!ReadBack,
         Commands!ReadBack
<1> QED BY ControlSpec, <1>1, <1>2, PTL

\* A command is carried out at most once, however often its artifact is
\* delivered: the mark outlives the reset it has just performed.
THEOREM RunsOnce == Spec => []CarriedOutOnce
<1>1. Commands!Spec => []Commands!CarriedOutOnce
  BY SameControl, Commands!RunsOnce
<1>2. Commands!CarriedOutOnce => CarriedOutOnce
  BY DEF CarriedOutOnce, Control!CarriedOutOnce, Commands!CarriedOutOnce,
     Control!Ids,
         Commands!Ids
<1> QED BY ControlSpec, <1>1, <1>2, PTL

\* A command delivered in the Hub's books was carried out, or is about to be,
\* and keeping only the latest deferred action loses none.
THEOREM ConfirmedRuns == Spec => []ConfirmedIsDone
<1>1. Commands!Spec => []Commands!ConfirmedIsDone
  BY SameControl, PartsAssumption, Commands!ConfirmedRuns
<1>2. Commands!Spec => []Commands!NothingSuperseded
  BY SameControl, Commands!NoneSuperseded
<1>3. Commands!ConfirmedIsDone /\ Commands!NothingSuperseded => ConfirmedIsDone
  BY DEF ConfirmedIsDone, Control!ConfirmedIsDone, Commands!ConfirmedIsDone,
         Control!NothingSuperseded, Commands!NothingSuperseded
<1> QED BY ControlSpec, <1>1, <1>2, <1>3, PTL

-----------------------------------------------------------------------------
(* The queue on flash, of the host and of the card.                        *)

HostDisk == INSTANCE DiskProofs WITH
    Names <- Slots, Replaces <- TRUE, SaveMayFail <- FALSE, Keeps <- TRUE,
    QueueSize <- HostQueueSize, MaxCuts <- HostCuts, MaxDrops <- 0,
    MayDropEmpty <- FALSE, astray <- host_astray

CardDisk == INSTANCE DiskProofs WITH
    Names <- Slots, Replaces <- FALSE, SaveMayFail <- TRUE, Keeps <- FALSE,
    QueueSize <- CardQueueSize, MaxCuts <- CardCuts, MaxDrops <- CardDrops,
    MayDropEmpty <- TRUE, disk <- card_disk, temp <- card_temp, index <-
    card_index, indexTemp <- card_indexTemp, archive <- card_archive, up <-
    card_up, order <- card_order, head <- card_head, archived <-
    card_archived, books <- card_books, op <- card_op, name <- card_name, load
    <- card_load, made <- card_made, half <- card_half, accepted <-
    card_accepted, done <- card_done, astray <- card_astray, raised <-
    card_raised, cuts <- card_cuts, drops <- card_drops

LEMMA SameDisks == HostDisk!DiskAssumption /\ CardDisk!DiskAssumption
BY PartsAssumption
DEF Host!DiskAssumption, HostDisk!DiskAssumption, CardDisk!DiskAssumption,
    Host!IsFiniteSet, HostDisk!IsFiniteSet, CardDisk!IsFiniteSet

LEMMA HostTools ==
    /\ \A S : /\ Host!SetToSeqs(S) = HostDisk!SetToSeqs(S)
              /\ Host!Cardinality(S) = HostDisk!Cardinality(S)
    /\ \A s, x : Host!RemoveFirst(s, x) = HostDisk!RemoveFirst(s, x)
<1>1. \A S : Host!Cardinality(S) = HostDisk!Cardinality(S)
  BY DEF Host!Cardinality, HostDisk!Cardinality
<1>2. \A S : Host!SetToSeqs(S) = HostDisk!SetToSeqs(S)
  BY <1>1 DEF Host!SetToSeqs, HostDisk!SetToSeqs
<1>3. \A s, x : Host!RemoveFirst(s, x) = HostDisk!RemoveFirst(s, x)
  BY DEF Host!RemoveFirst, HostDisk!RemoveFirst, Host!RemoveAt,
     HostDisk!RemoveAt,
         Host!SelectInSeq, HostDisk!SelectInSeq, Host!Min, HostDisk!Min
<1> QED BY <1>1, <1>2, <1>3

LEMMA HostNext == Host!Next => HostDisk!Next
BY HostTools
  DEF Host!card, HostDisk!card, Host!queueVars, HostDisk!queueVars,
      Host!books2, HostDisk!books2, Host!opVars, HostDisk!opVars,
      Host!pastVars, HostDisk!pastVars, Host!Size, HostDisk!Size, Host!InOrder,
      HostDisk!InOrder, Host!Idle, HostDisk!Idle, Host!WriteTemp,
      HostDisk!WriteTemp, Host!Rename, HostDisk!Rename, Host!List,
      HostDisk!List, Host!Saved, HostDisk!Saved, Host!SaveIndex,
      HostDisk!SaveIndex, Host!SaveFails, HostDisk!SaveFails, Host!Enqueue,
      HostDisk!Enqueue, Host!Full, HostDisk!Full, Host!Evictable,
      HostDisk!Evictable, Host!Victim, HostDisk!Victim, Host!MakeRoom,
      HostDisk!MakeRoom, Host!OnDisk, HostDisk!OnDisk, Host!Known,
      HostDisk!Known, Host!Place, HostDisk!Place, Host!Arranged,
      HostDisk!Arranged, Host!Reconciled, HostDisk!Reconciled, Host!Check,
      HostDisk!Check, Host!Peek, HostDisk!Peek, Host!DropUnusable,
      HostDisk!DropUnusable, Host!Serve, HostDisk!Serve, Host!Confirm,
      HostDisk!Confirm, Host!RemoveConfirmed, HostDisk!RemoveConfirmed,
      Host!Forget, HostDisk!Forget, Host!MustForget, HostDisk!MustForget,
      Host!ArchiveRoom, HostDisk!ArchiveRoom, Host!Archive, HostDisk!Archive,
      Host!PowerCut, HostDisk!PowerCut, Host!ArchiveNames,
      HostDisk!ArchiveNames, Host!Boot, HostDisk!Boot, Host!HandDrop,
      HostDisk!HandDrop, Host!Next, HostDisk!Next

LEMMA HostSpec == Spec => HostDisk!Spec
<1>1. Init => HostDisk!Init
  BY
  DEF Init, Host!Nothing, HostDisk!Nothing, Host!Init, HostDisk!Init
<1>2. [Next]_vars => [HostDisk!Next]_(HostDisk!vars)
  BY HostNext
  DEF vars, hostVars, HostDisk!vars, HostDisk!card, HostDisk!queueVars,
      HostDisk!books2, HostDisk!opVars, HostDisk!pastVars, Next, RetuneStep,
      SessionStep, CountersStep, ControlStep, HostStep, CardStep, ArrivalStep,
      PaceStep, Sx7Step, Sx2Step, MeshStep, BenchStep, FilesStep, ReportStep,
      MqttStep
<1> QED BY <1>1, <1>2, PTL DEF Spec, HostDisk!Spec

LEMMA CardTools ==
    /\ \A S : /\ Card!SetToSeqs(S) = CardDisk!SetToSeqs(S)
              /\ Card!Cardinality(S) = CardDisk!Cardinality(S)
    /\ \A s, x : Card!RemoveFirst(s, x) = CardDisk!RemoveFirst(s, x)
<1>1. \A S : Card!Cardinality(S) = CardDisk!Cardinality(S)
  BY DEF Card!Cardinality, CardDisk!Cardinality
<1>2. \A S : Card!SetToSeqs(S) = CardDisk!SetToSeqs(S)
  BY <1>1 DEF Card!SetToSeqs, CardDisk!SetToSeqs
<1>3. \A s, x : Card!RemoveFirst(s, x) = CardDisk!RemoveFirst(s, x)
  BY DEF Card!RemoveFirst, CardDisk!RemoveFirst, Card!RemoveAt,
     CardDisk!RemoveAt,
         Card!SelectInSeq, CardDisk!SelectInSeq, Card!Min, CardDisk!Min
<1> QED BY <1>1, <1>2, <1>3

LEMMA CardNext == Card!Next => CardDisk!Next
BY CardTools
  DEF Card!card, CardDisk!card, Card!queueVars, CardDisk!queueVars,
      Card!books2, CardDisk!books2, Card!opVars, CardDisk!opVars,
      Card!pastVars, CardDisk!pastVars, Card!Size, CardDisk!Size, Card!InOrder,
      CardDisk!InOrder, Card!Idle, CardDisk!Idle, Card!WriteTemp,
      CardDisk!WriteTemp, Card!Rename, CardDisk!Rename, Card!List,
      CardDisk!List, Card!Saved, CardDisk!Saved, Card!SaveIndex,
      CardDisk!SaveIndex, Card!SaveFails, CardDisk!SaveFails, Card!Enqueue,
      CardDisk!Enqueue, Card!Full, CardDisk!Full, Card!Evictable,
      CardDisk!Evictable, Card!Victim, CardDisk!Victim, Card!MakeRoom,
      CardDisk!MakeRoom, Card!OnDisk, CardDisk!OnDisk, Card!Known,
      CardDisk!Known, Card!Place, CardDisk!Place, Card!Arranged,
      CardDisk!Arranged, Card!Reconciled, CardDisk!Reconciled, Card!Check,
      CardDisk!Check, Card!Peek, CardDisk!Peek, Card!DropUnusable,
      CardDisk!DropUnusable, Card!Serve, CardDisk!Serve, Card!Confirm,
      CardDisk!Confirm, Card!RemoveConfirmed, CardDisk!RemoveConfirmed,
      Card!Forget, CardDisk!Forget, Card!MustForget, CardDisk!MustForget,
      Card!ArchiveRoom, CardDisk!ArchiveRoom, Card!Archive, CardDisk!Archive,
      Card!PowerCut, CardDisk!PowerCut, Card!ArchiveNames,
      CardDisk!ArchiveNames, Card!Boot, CardDisk!Boot, Card!HandDrop,
      CardDisk!HandDrop, Card!Next, CardDisk!Next

LEMMA CardSpec == Spec => CardDisk!Spec
<1>1. Init => CardDisk!Init
  BY
  DEF Init, Card!Nothing, CardDisk!Nothing, Card!Init, CardDisk!Init
<1>2. [Next]_vars => [CardDisk!Next]_(CardDisk!vars)
  BY CardNext
  DEF vars, cardVars, CardDisk!vars, CardDisk!card, CardDisk!queueVars,
      CardDisk!books2, CardDisk!opVars, CardDisk!pastVars, Next, RetuneStep,
      SessionStep, CountersStep, ControlStep, HostStep, CardStep, ArrivalStep,
      PaceStep, Sx7Step, Sx2Step, MeshStep, BenchStep, FilesStep, ReportStep,
      MqttStep
<1> QED BY <1>1, <1>2, PTL DEF Spec, CardDisk!Spec

\* A payload the queue took stays on the card until it is confirmed or evicted
\* and is queued whenever the node is up, and a confirmed one leaves the folder:
\* wherever the power is cut, on a host and on a card that may be full.
THEOREM TakenIsKept == Spec => []NothingLost
<1>1. HostDisk!Spec => []HostDisk!NothingLost /\ []HostDisk!LeavesTheFolder
  BY SameDisks, HostDisk!TakenIsKept, HostDisk!DoneIsGone, PTL
<1>2. CardDisk!Spec => []CardDisk!NothingLost /\ []CardDisk!LeavesTheFolder
  BY SameDisks, CardDisk!TakenIsKept, CardDisk!DoneIsGone, PTL
<1>3. HostDisk!NothingLost => Host!NothingLost
  BY DEF Host!NothingLost, HostDisk!NothingLost, Host!Idle, HostDisk!Idle,
         Host!Queued, HostDisk!Queued
<1>4. HostDisk!LeavesTheFolder => Host!LeavesTheFolder
  BY DEF Host!LeavesTheFolder, HostDisk!LeavesTheFolder, Host!Idle,
     HostDisk!Idle
<1>5. CardDisk!NothingLost => Card!NothingLost
  BY DEF Card!NothingLost, CardDisk!NothingLost, Card!Idle, CardDisk!Idle,
         Card!Queued, CardDisk!Queued
<1>6. CardDisk!LeavesTheFolder => Card!LeavesTheFolder
  BY DEF Card!LeavesTheFolder, CardDisk!LeavesTheFolder, Card!Idle,
     CardDisk!Idle
<1> QED BY HostSpec, CardSpec, <1>1, <1>2, <1>3, <1>4, <1>5, <1>6, PTL
       DEF NothingLost

\* The node resumes what it had half delivered as that file and no other, as
\* long as no eviction takes it.
THEOREM ResumedAsBegun == Spec /\ []HostDisk!SparesHalf => []ResumesTheSame
<1>1. HostDisk!Spec /\ []HostDisk!SparesHalf => []HostDisk!ResumesTheSame
  BY SameDisks, HostDisk!ResumedAsBegun
<1>2. HostDisk!ResumesTheSame => ResumesTheSame
  BY DEF ResumesTheSame, Host!ResumesTheSame, HostDisk!ResumesTheSame
<1> QED BY HostSpec, <1>1, <1>2, PTL

-----------------------------------------------------------------------------
(* Files that arrive over a UART.                                          *)

LEMMA ArrivalSpec == Spec => Arrival!Spec
<1>1. Init => Arrival!Init
  BY DEF Init
<1>2. [Next]_vars => [Arrival!Next]_(Arrival!vars)
  BY
  DEF vars, arrivalVars, Arrival!vars, Arrival!producer, Arrival!board,
      Arrival!bounds, Next, RetuneStep, SessionStep, CountersStep, ControlStep,
      HostStep, CardStep, ArrivalStep, PaceStep, Sx7Step, Sx2Step, MeshStep,
      BenchStep, FilesStep, ReportStep, MqttStep
<1> QED BY <1>1, <1>2, PTL DEF Spec, Arrival!Spec

\* What is queued arrived whole and goes by a name of its own.
ArrivalInv ==
    /\ \E S : queue \in Seq(S)
    /\ Arrival!QueuedIsWhole /\ Arrival!NamesDiffer

\* Room is made by dropping the one after the head, and nothing else changes.
LEMMA RoomMade ==
    ASSUME NEW S, queue \in Seq(S), Arrival!NamesDiffer
    PROVE  /\ Arrival!MadeRoom \in Seq(S)
           /\ \A i \in DOMAIN Arrival!MadeRoom :
                 \E j \in DOMAIN queue : Arrival!MadeRoom[i] = queue[j]
           /\ \A i, j \in DOMAIN Arrival!MadeRoom :
                 Arrival!MadeRoom[i].name = Arrival!MadeRoom[j].name => i = j
<1>1. CASE Len(queue) < SerialQueueSize \/ Len(queue) = 1
  BY <1>1 DEF Arrival!MadeRoom, Arrival!NamesDiffer
<1>2. CASE ~(Len(queue) < SerialQueueSize \/ Len(queue) = 1)
  <2>1. Len(queue) \in Nat /\ Len(queue) >= 2
    <3>1. PICK n : n = Len(queue)
      OBVIOUS
    <3>2. n \in Nat /\ ~(n < SerialQueueSize) /\ n # 1
      BY <1>2, <3>1
    <3>3. SerialQueueSize \in Nat /\ SerialQueueSize >= 1
      BY PartsAssumption
    <3>4. n >= 2
      BY <3>2, <3>3
    <3> QED BY <3>1, <3>2, <3>4
  <2>2. Arrival!MadeRoom = <<Head(queue)>> \o Tail(Tail(queue))
    BY <1>2 DEF Arrival!MadeRoom
  <2>3. /\ Arrival!MadeRoom \in Seq(S) /\ Len(Arrival!MadeRoom) = Len(queue) - 1
        /\ Arrival!MadeRoom[1] = queue[1]
        /\ \A i \in 2 .. Len(Arrival!MadeRoom) : Arrival!MadeRoom[i] = queue[i + 1]
    <3>1. Tail(queue) \in Seq(S) /\ Len(Tail(queue)) = Len(queue) - 1
      BY <2>1
    <3>2. /\ Tail(Tail(queue)) \in Seq(S) /\ Len(Tail(Tail(queue))) = Len(queue) - 2
          /\ \A i \in 1 .. Len(queue) - 2 : Tail(Tail(queue))[i] = queue[i + 2]
      <4>1. PICK t \in Seq(S) : t = Tail(queue)
        BY <3>1
      <4>2. t \in Seq(S) /\ Len(t) = Len(queue) - 1 /\ t # <<>>
        <5>1. Len(t) = Len(queue) - 1 /\ Len(t) # 0
          BY <2>1, <3>1, <4>1
        <5>2. t # <<>>
          BY <5>1
        <5> QED BY <4>1, <5>1, <5>2
      <4>3. \A i \in 1 .. Len(t) : t[i] = queue[i + 1]
        BY <2>1, <3>1, <4>1
      <4>4. /\ Tail(t) \in Seq(S) /\ Len(Tail(t)) = Len(t) - 1
            /\ \A i \in 1 .. Len(t) - 1 : Tail(t)[i] = t[i + 1]
        BY <4>2
      <4> QED BY <2>1, <4>1, <4>2, <4>3, <4>4
    <3>3. /\ <<Head(queue)>> \in Seq(S) /\ Len(<<Head(queue)>>) = 1
          /\ <<Head(queue)>>[1] = queue[1]
      BY <2>1
    <3> DEFINE a == <<Head(queue)>>
               b == Tail(Tail(queue))
    <3> HIDE DEF a, b
    <3>4. /\ a \o b \in Seq(S) /\ Len(a \o b) = Len(queue) - 1 /\ (a \o b)[1] = a[1]
          /\ \A i \in 2 .. Len(queue) - 1 : (a \o b)[i] = b[i - 1]
      BY <2>1, <3>2, <3>3 DEF a, b
    <3> QED BY <2>1, <2>2, <3>2, <3>3, <3>4 DEF a, b
  <2>4. \A i \in DOMAIN Arrival!MadeRoom :
            \E j \in DOMAIN queue : Arrival!MadeRoom[i] = queue[j] /\ j = IF i = 1 THEN 1 ELSE i + 1
    BY <2>1, <2>3
  <2> HIDE DEF Arrival!MadeRoom
  <2> QED BY <2>3, <2>4 DEF Arrival!NamesDiffer
<1> QED BY <1>1, <1>2

\* The name a file gets is free: the first of its variants that is.
LEMMA Named ==
    ASSUME NEW f, Arrival!Free(f) # {}
    PROVE  \A i \in DOMAIN queue : queue[i].name # Arrival!Name(f)
<1>1. \E s \in Arrival!Free(f) : \A t \in Arrival!Free(f) : s <= t
  <2>1. PICK S : S = Arrival!Free(f)
    OBVIOUS
  <2>2. S \subseteq Nat /\ S # {}
    BY <2>1 DEF Arrival!Free
  <2> QED BY <2>1, <2>2, HostDisk!LeastExists
<1>2. PICK s \in Arrival!Free(f) : Arrival!Name(f) = Arrival!Variant(f, s)
  BY <1>1 DEF Arrival!Name
<1> QED BY <1>2 DEF Arrival!Free, Arrival!Taken

LEMMA ArrivalKept ==
    ASSUME ArrivalInv, [Arrival!Next]_(Arrival!vars) PROVE ArrivalInv'
<1> PICK S : queue \in Seq(S)
  BY DEF ArrivalInv
<1>1. CASE UNCHANGED queue
  BY <1>1 DEF ArrivalInv, Arrival!QueuedIsWhole, Arrival!NamesDiffer
<1>2. CASE Arrival!Delivered
  <2>1. /\ queue' \in Seq(S)
        /\ \A i \in DOMAIN queue' : i + 1 \in DOMAIN queue /\ queue'[i] = queue[i + 1]
    BY <1>2 DEF Arrival!Delivered
  <2>2. \A i \in DOMAIN queue' : i \in Nat
    BY <2>1
  <2> QED BY <2>1, <2>2
     DEF ArrivalInv, Arrival!QueuedIsWhole, Arrival!NamesDiffer
<1>3. CASE Arrival!FinishSound /\ Arrival!Free(arriving) # {}
  <2>1. PICK x : /\ x = [name |-> Arrival!Name(arriving), file |-> arriving, whole |-> TRUE]
                 /\ queue' = Append(Arrival!MadeRoom, x)
    BY <1>3 DEF Arrival!FinishSound, Arrival!Sound
  <2>2. /\ Arrival!MadeRoom \in Seq(S)
        /\ \A i \in DOMAIN Arrival!MadeRoom :
              \E j \in DOMAIN queue : Arrival!MadeRoom[i] = queue[j]
        /\ \A i, j \in DOMAIN Arrival!MadeRoom :
              Arrival!MadeRoom[i].name = Arrival!MadeRoom[j].name => i = j
    BY RoomMade DEF ArrivalInv
  <2>3. \A i \in DOMAIN queue : queue[i].name # Arrival!Name(arriving)
    <3>1. PICK f : f = arriving
      OBVIOUS
    <3> QED BY <1>3, <3>1, Named
  <2>4. \A i \in DOMAIN Arrival!MadeRoom : Arrival!MadeRoom[i].whole /\ Arrival!MadeRoom[i].name # x.name
    BY <2>1, <2>2, <2>3 DEF ArrivalInv, Arrival!QueuedIsWhole
  <2>5. /\ queue' \in Seq(S \cup {x}) /\ Len(queue') = Len(Arrival!MadeRoom) + 1
        /\ \A i \in DOMAIN Arrival!MadeRoom : queue'[i] = Arrival!MadeRoom[i]
        /\ queue'[Len(queue')] = x
    BY <2>1, <2>2
  <2>6. \A i \in DOMAIN queue' : i = Len(queue') \/ i \in DOMAIN Arrival!MadeRoom
    BY <2>2, <2>5
  <2>7. Arrival!QueuedIsWhole'
    BY <2>1, <2>4, <2>5, <2>6 DEF Arrival!QueuedIsWhole
  <2>8. Arrival!NamesDiffer'
    BY <2>1, <2>2, <2>4, <2>5, <2>6 DEF Arrival!NamesDiffer
  <2> QED BY <2>5, <2>7, <2>8 DEF ArrivalInv
<1>4. CASE Arrival!FinishSound /\ Arrival!Free(arriving) = {}
  BY <1>1, <1>4 DEF Arrival!FinishSound
<1>5. CASE ~Arrival!Delivered /\ ~Arrival!FinishSound
  BY <1>1, <1>5
  DEF Arrival!Next, Arrival!vars, Arrival!producer, Arrival!board,
      Arrival!Producer, Arrival!Offer, Arrival!Answered, Arrival!GivesUp,
      Arrival!Repeats, Arrival!Lose, Arrival!Board, Arrival!AwaitStart,
      Arrival!ReadHeader, Arrival!ReadChunkHeader, Arrival!ReadChunkBody,
      Arrival!FinishUnsound, Arrival!Stall, Arrival!Reboot
<1> QED BY <1>2, <1>3, <1>4, <1>5

\* A file queued from the wire is the one that was sent, and no two in the queue
\* have one name: whatever bursts are lost or garbled, however often the
\* producer repeats itself or gives up, and whenever the node restarts.
THEOREM QueuedAsSent == Spec => []QueuedIsWhole
<1>1. Arrival!Init => ArrivalInv
  <2>1. <<>> \in Seq({})
    OBVIOUS
  <2> QED BY <2>1
     DEF Arrival!Init, ArrivalInv, Arrival!QueuedIsWhole, Arrival!NamesDiffer
<1>2. ArrivalInv /\ [Arrival!Next]_(Arrival!vars) => ArrivalInv'
  BY ArrivalKept
<1>3. ArrivalInv => QueuedIsWhole
  BY DEF ArrivalInv, QueuedIsWhole
<1> QED BY ArrivalSpec, <1>1, <1>2, <1>3, PTL DEF Arrival!Spec

-----------------------------------------------------------------------------
(* Files put together.                                                     *)

Boundary == INSTANCE BoundaryProofs WITH
    Names <- FileNames, MaxFaults <- FileFaults, temp <- files_temp, faults <-
    files_faults, Hub <- "hub", Edge <- "edge", NChunks <- MeshChunks,
    MaxFrames <- MeshFrames, MaxMoves <- MeshMoves, held <- mesh_held, made <-
    mesh_made, moves <- mesh_moves, state <- mesh_state, waiting <-
    mesh_waiting, Threaded <- FALSE, cap <- GuardCap, file_queue_size <-
    BridgeQueueSize, Wrap <- ArtifactWrap, MaxRestarts <- BridgeRestarts,
    restarts <- mqtt_restarts, Edges <- BenchEdges, HubBoard <- BenchHub,
    Ports <- BenchPorts, Usual <- UsualPort, Plans <- Deployments, NameOf <-
    BoardNames, MaxRuns <- BenchRuns, MaxSettled <- Settlements, silent <-
    bench_silent, at <- bench_at, roster <- bench_roster

LEMMA SameFiles == Boundary!Files!FilesAssumption
BY PartsAssumption
  DEF Files!Chunks, Boundary!Files!Chunks, Files!Marks, Boundary!Files!Marks,
      Files!Contents, Boundary!Files!Contents, Files!Own, Boundary!Files!Own,
      Files!FilesAssumption, Boundary!Files!FilesAssumption

LEMMA FilesNext == Files!Next => Boundary!Files!Next
BY
  DEF Files!Chunks, Boundary!Files!Chunks, Files!Fails, Boundary!Files!Fails,
      Files!Works, Boundary!Files!Works, Files!TempPath, Boundary!Files!TempPath,
      Files!Writer, Boundary!Files!Writer, Files!Closed, Boundary!Files!Closed,
      Files!Removed, Boundary!Files!Removed, Files!Created, Boundary!Files!Created,
      Files!Written, Boundary!Files!Written, Files!Release, Boundary!Files!Release,
      Files!Connected, Boundary!Files!Connected, Files!SetMetadata,
      Boundary!Files!SetMetadata, Files!NextChunk, Boundary!Files!NextChunk,
      Files!AddChunk, Boundary!Files!AddChunk, Files!Reopen, Boundary!Files!Reopen,
      Files!Rearm, Boundary!Files!Rearm, Files!Kept, Boundary!Files!Kept,
      Files!Save, Boundary!Files!Save, Files!Post, Boundary!Files!Post,
      Files!Refused, Boundary!Files!Refused, Files!LastChunk,
      Boundary!Files!LastChunk, Files!Serves, Boundary!Files!Serves, Files!Restart,
      Boundary!Files!Restart, Files!Next, Boundary!Files!Next

LEMMA FilesSpec == Spec => Boundary!Files!Spec
<1>1. Init => Boundary!Files!Init
  BY
  DEF Init, Files!Paths, Boundary!Files!Paths, Files!Init, Boundary!Files!Init
<1>2. [Next]_vars => [Boundary!Files!Next]_(Boundary!Files!vars)
  BY FilesNext
  DEF vars, filesVars, Boundary!Files!vars, Next, RetuneStep, SessionStep,
      CountersStep, ControlStep, HostStep, CardStep, ArrivalStep, PaceStep,
      Sx7Step, Sx2Step, MeshStep, BenchStep, FilesStep, ReportStep, MqttStep
<1> QED BY <1>1, <1>2, PTL DEF Spec, Boundary!Files!Spec

\* What can be found in a queue's folder, in a results folder or in the hands of
\* a sink is never half a file, nor the halves of two.
THEOREM FilesAreWhole == Spec => []NeverTorn
<1>1. HostDisk!Spec => []HostDisk!NeverTorn
  BY SameDisks, HostDisk!FilesAreWhole
<1>2. CardDisk!Spec => []CardDisk!NeverTorn
  BY SameDisks, CardDisk!FilesAreWhole
<1>3. Boundary!Files!Spec => [](Boundary!Files!NeverTorn /\ Boundary!Files!BufferInPlace)
  BY SameFiles, Boundary!FilesAreOne
<1>4. HostDisk!NeverTorn => Host!NeverTorn
  BY DEF Host!NeverTorn, HostDisk!NeverTorn
<1>5. CardDisk!NeverTorn => Card!NeverTorn
  BY DEF Card!NeverTorn, CardDisk!NeverTorn
<1>6. Boundary!Files!NeverTorn => Files!NeverTorn
  BY DEF Files!NeverTorn, Boundary!Files!NeverTorn, Files!Whole,
     Boundary!Files!Whole,
         Files!Chunks, Boundary!Files!Chunks
<1>7. Boundary!Files!BufferInPlace => Files!BufferInPlace
  BY DEF Files!BufferInPlace, Boundary!Files!BufferInPlace, Files!Writer,
         Boundary!Files!Writer, Files!Chunks, Boundary!Files!Chunks
<1> QED BY HostSpec, CardSpec, FilesSpec, <1>1, <1>2, <1>3, <1>4, <1>5, <1>6,
   <1>7, PTL
       DEF NeverTorn

-----------------------------------------------------------------------------
(* Relays, two bridged brokers and the bench tool.                         *)

LEMMA SameBoundary ==
    /\ Boundary!Mesh!MeshAssumption
    /\ Boundary!Mqtt!BridgeAssumption
    /\ Boundary!BenchAssumption /\ Boundary!Bench!DeskAssumption
BY PartsAssumption
DEF Mesh!MeshAssumption, Boundary!Mesh!MeshAssumption, Mqtt!BridgeAssumption,
    Boundary!Mqtt!BridgeAssumption, Mqtt!IsFiniteSet, Boundary!Mqtt!IsFiniteSet,
    Mqtt!Cardinality, Boundary!Mqtt!Cardinality, Boundary!BenchAssumption,
    Bench!DeskAssumption, Boundary!Bench!DeskAssumption, Bench!Boards,
    Boundary!Bench!Boards

LEMMA MeshNext == Mesh!Next => Boundary!Mesh!Next
BY
  DEF Mesh!Nodes, Boundary!Mesh!Nodes, Mesh!air, Boundary!Mesh!air, Mesh!ids,
      Boundary!Mesh!ids, Mesh!collector, Boundary!Mesh!collector, Mesh!source,
      Boundary!Mesh!source, Mesh!Cached, Boundary!Mesh!Cached, Mesh!Seen,
      Boundary!Mesh!Seen, Mesh!Known, Boundary!Mesh!Known, Mesh!Listens,
      Boundary!Mesh!Listens, Mesh!Transmit, Boundary!Mesh!Transmit,
      Mesh!Identified, Boundary!Mesh!Identified, Mesh!Moves,
      Boundary!Mesh!Moves, Mesh!Forwarded, Boundary!Mesh!Forwarded,
      Mesh!Forward, Boundary!Mesh!Forward, Mesh!Reply, Boundary!Mesh!Reply,
      Mesh!Answer, Boundary!Mesh!Answer, Mesh!Ask, Boundary!Mesh!Ask,
      Mesh!Unanswered, Boundary!Mesh!Unanswered, Mesh!Answered,
      Boundary!Mesh!Answered, Mesh!Silence, Boundary!Mesh!Silence,
      Mesh!Connected, Boundary!Mesh!Connected, Mesh!Announced,
      Boundary!Mesh!Announced, Mesh!ReAnnounced, Boundary!Mesh!ReAnnounced,
      Mesh!Chunk, Boundary!Mesh!Chunk, Mesh!Wrong, Boundary!Mesh!Wrong,
      Mesh!Heard, Boundary!Mesh!Heard, Mesh!Next, Boundary!Mesh!Next,
      Mesh!ToSet, Boundary!Mesh!ToSet

LEMMA MeshSpec == Spec => Boundary!Mesh!Spec
<1>1. Init => Boundary!Mesh!Init
  BY
  DEF Init, Mesh!Nodes, Boundary!Mesh!Nodes, Mesh!Init, Boundary!Mesh!Init
<1>2. [Next]_vars => [Boundary!Mesh!Next]_(Boundary!Mesh!vars)
  BY MeshNext
  DEF vars, meshVars, Boundary!Mesh!vars, Boundary!Mesh!air, Boundary!Mesh!ids,
      Boundary!Mesh!collector, Boundary!Mesh!source, Next, RetuneStep,
      SessionStep, CountersStep, ControlStep, HostStep, CardStep, ArrivalStep,
      PaceStep, Sx7Step, Sx2Step, MeshStep, BenchStep, FilesStep, ReportStep,
      MqttStep
<1> QED BY <1>1, <1>2, PTL DEF Spec, Boundary!Mesh!Spec

LEMMA BridgeTools ==
    /\ \A S : Mqtt!Cardinality(S) = Boundary!Mqtt!Cardinality(S)
    /\ \A s, x : /\ Mqtt!RemoveFirst(s, x) = Boundary!Mqtt!RemoveFirst(s, x)
                 /\ Mqtt!Contains(s, x) <=> Boundary!Mqtt!Contains(s, x)
<1>1. \A S : Mqtt!Cardinality(S) = Boundary!Mqtt!Cardinality(S)
  BY DEF Mqtt!Cardinality, Boundary!Mqtt!Cardinality
<1>2. \A s, x : Mqtt!RemoveFirst(s, x) = Boundary!Mqtt!RemoveFirst(s, x)
  BY DEF Mqtt!RemoveFirst, Boundary!Mqtt!RemoveFirst, Mqtt!RemoveAt,
         Boundary!Mqtt!RemoveAt, Mqtt!SelectInSeq, Boundary!Mqtt!SelectInSeq,
         Mqtt!Min, Boundary!Mqtt!Min
<1>3. \A s, x : Mqtt!Contains(s, x) <=> Boundary!Mqtt!Contains(s, x)
  BY DEF Mqtt!Contains, Boundary!Mqtt!Contains
<1> QED BY <1>1, <1>2, <1>3

LEMMA BridgeNext == Mqtt!Next => Boundary!Mqtt!Next
BY BridgeTools
  DEF Mqtt!sourceVars, Boundary!Mqtt!sourceVars, Mqtt!Seen, Boundary!Mqtt!Seen,
      Mqtt!Remembered, Boundary!Mqtt!Remembered, Mqtt!Idle, Boundary!Mqtt!Idle,
      Mqtt!Enveloped, Boundary!Mqtt!Enveloped, Mqtt!Added, Boundary!Mqtt!Added,
      Mqtt!OnMessage, Boundary!Mqtt!OnMessage, Mqtt!PeekFile,
      Boundary!Mqtt!PeekFile, Mqtt!ConfirmFile, Boundary!Mqtt!ConfirmFile,
      Mqtt!Unconfirmed, Boundary!Mqtt!Unconfirmed, Mqtt!Echoes,
      Boundary!Mqtt!Echoes, Mqtt!Publish, Boundary!Mqtt!Publish, Mqtt!Note,
      Boundary!Mqtt!Note, Mqtt!ClientPublishes, Boundary!Mqtt!ClientPublishes,
      Mqtt!Restart, Boundary!Mqtt!Restart, Mqtt!Next, Boundary!Mqtt!Next

LEMMA BridgeSpec == Spec => Boundary!Mqtt!Spec
<1>1. Init => Boundary!Mqtt!Init
  BY
  DEF Init, Mqtt!Init, Boundary!Mqtt!Init
<1>2. [Next]_vars => [Boundary!Mqtt!Next]_(Boundary!Mqtt!vars)
  BY BridgeNext
  DEF vars, mqttVars, Boundary!Mqtt!vars, Boundary!Mqtt!sourceVars, Next,
      RetuneStep, SessionStep, CountersStep, ControlStep, HostStep, CardStep,
      ArrivalStep, PaceStep, Sx7Step, Sx2Step, MeshStep, BenchStep, FilesStep,
      ReportStep, MqttStep
<1> QED BY <1>1, <1>2, PTL DEF Spec, Boundary!Mqtt!Spec

LEMMA RowsExtended == Bench!ExtendRoster => Boundary!RowsRewritten
BY
  DEF Bench!desk, Bench!ExtendRoster, Boundary!RowsRewritten, Bench!hand,
      Boundary!Bench!hand, Bench!fleet, Boundary!Bench!fleet, Bench!tool,
      Boundary!Bench!tool, Bench!Asked, Boundary!Bench!Asked, Bench!Advance,
      Boundary!Bench!Advance, Bench!Step, Boundary!Bench!Step, Bench!StepsFor,
      Boundary!Bench!StepsFor, Bench!Flash, Boundary!Bench!Flash, Bench!Order,
      Boundary!Bench!Order, Bench!Answers, Boundary!Bench!Answers, Bench!On,
      Boundary!Bench!On, Bench!Boards, Boundary!Bench!Boards, Bench!Here,
      Boundary!Bench!Here

LEMMA BenchNext == Bench!Next => Boundary!Bench!Next \/ Boundary!RowsRewritten
<1>1. Bench!Phase => Boundary!Bench!Phase \/ Boundary!RowsRewritten
  BY RowsExtended
  DEF Bench!Boards, Boundary!Bench!Boards, Bench!Files, Boundary!Bench!Files, Bench!Stored, Boundary!Bench!Stored,
      Bench!desk, Boundary!Bench!desk, Bench!contents, Boundary!Bench!contents,
      Bench!fleet, Boundary!Bench!fleet, Bench!hand, Boundary!Bench!hand,
      Bench!tool, Boundary!Bench!tool, Bench!Order, Boundary!Bench!Order,
      Bench!Names, Boundary!Bench!Names, Bench!Reached, Boundary!Bench!Reached,
      Bench!Flash, Boundary!Bench!Flash, Bench!StepsFor,
      Boundary!Bench!StepsFor, Bench!Step, Boundary!Bench!Step, Bench!On,
      Boundary!Bench!On, Bench!Answers, Boundary!Bench!Answers, Bench!Here,
      Boundary!Bench!Here, Bench!Asked, Boundary!Bench!Asked, Bench!Whole,
      Boundary!Bench!Whole, Bench!Advance, Boundary!Bench!Advance,
      Bench!Returns, Boundary!Bench!Returns, Bench!Settle,
      Boundary!Bench!Settle, Bench!BeginRun, Boundary!Bench!BeginRun,
      Bench!Probe, Boundary!Bench!Probe, Bench!BackedUp,
      Boundary!Bench!BackedUp, Bench!BackUp, Boundary!Bench!BackUp,
      Bench!Erased, Boundary!Bench!Erased, Bench!FlashIt,
      Boundary!Bench!FlashIt, Bench!Adopted, Boundary!Bench!Adopted,
      Bench!WaitForBoard, Boundary!Bench!WaitForBoard, Bench!NoChange,
      Boundary!Bench!NoChange, Bench!WriteFile, Boundary!Bench!WriteFile,
      Bench!EnsureKey, Boundary!Bench!EnsureKey, Bench!Registered,
      Boundary!Bench!Registered, Bench!Register, Boundary!Bench!Register,
      Bench!WriteRoster, Boundary!Bench!WriteRoster, Bench!ReadRoster,
      Boundary!Bench!ReadRoster, Bench!Spared, Boundary!Bench!Spared,
      Bench!Fail, Boundary!Bench!Fail, Bench!Verify, Boundary!Bench!Verify,
      Bench!Startable, Boundary!Bench!Startable, Bench!Start,
      Boundary!Bench!Start, Bench!ToSet, Boundary!Bench!ToSet,
      Bench!SelectInSeq, Boundary!Bench!SelectInSeq, Bench!Min,
      Boundary!Bench!Min, Bench!Phase, Boundary!Bench!Phase
<1>2. Bench!Next /\ ~Bench!Phase => Boundary!Bench!Next
  BY
  DEF Bench!Boards, Boundary!Bench!Boards, Bench!Files, Boundary!Bench!Files, Bench!Stored, Boundary!Bench!Stored,
      Bench!desk, Boundary!Bench!desk, Bench!contents, Boundary!Bench!contents,
      Bench!fleet, Boundary!Bench!fleet, Bench!hand, Boundary!Bench!hand,
      Bench!tool, Boundary!Bench!tool, Bench!Order, Boundary!Bench!Order,
      Bench!Names, Boundary!Bench!Names, Bench!Reached, Boundary!Bench!Reached,
      Bench!Flash, Boundary!Bench!Flash, Bench!StepsFor,
      Boundary!Bench!StepsFor, Bench!Step, Boundary!Bench!Step, Bench!On,
      Boundary!Bench!On, Bench!Answers, Boundary!Bench!Answers, Bench!Here,
      Boundary!Bench!Here, Bench!Asked, Boundary!Bench!Asked, Bench!Whole,
      Boundary!Bench!Whole, Bench!Advance, Boundary!Bench!Advance,
      Bench!Returns, Boundary!Bench!Returns, Bench!Settle,
      Boundary!Bench!Settle, Bench!BeginRun, Boundary!Bench!BeginRun,
      Bench!Probe, Boundary!Bench!Probe, Bench!BackedUp,
      Boundary!Bench!BackedUp, Bench!BackUp, Boundary!Bench!BackUp,
      Bench!Erased, Boundary!Bench!Erased, Bench!FlashIt,
      Boundary!Bench!FlashIt, Bench!Adopted, Boundary!Bench!Adopted,
      Bench!WaitForBoard, Boundary!Bench!WaitForBoard, Bench!NoChange,
      Boundary!Bench!NoChange, Bench!WriteFile, Boundary!Bench!WriteFile,
      Bench!EnsureKey, Boundary!Bench!EnsureKey, Bench!Registered,
      Boundary!Bench!Registered, Bench!Register, Boundary!Bench!Register,
      Bench!WriteRoster, Boundary!Bench!WriteRoster, Bench!ReadRoster,
      Boundary!Bench!ReadRoster, Bench!Spared, Boundary!Bench!Spared,
      Bench!Fail, Boundary!Bench!Fail, Bench!Verify, Boundary!Bench!Verify,
      Bench!Startable, Boundary!Bench!Startable, Bench!Start,
      Boundary!Bench!Start, Bench!ToSet, Boundary!Bench!ToSet,
      Bench!SelectInSeq, Boundary!Bench!SelectInSeq, Bench!Min,
      Boundary!Bench!Min, Bench!Next, Boundary!Bench!Next, Bench!Field,
      Boundary!Bench!Field
<1> QED BY <1>1, <1>2 DEF Bench!Next, Boundary!Bench!Next

LEMMA BenchSpec == Spec => Boundary!BenchSpec
<1>1. Init => Boundary!Bench!Init
  BY
  DEF Init, Bench!Boards, Boundary!Bench!Boards, Bench!Files,
      Boundary!Bench!Files, Bench!Stored, Boundary!Bench!Stored, Bench!Init, Boundary!Bench!Init
<1>2. [Next]_vars => [Boundary!Bench!Next \/ Boundary!RowsRewritten]_(Boundary!Bench!vars)
  BY BenchNext
  DEF vars, benchVars, Boundary!Bench!vars, Boundary!Bench!desk,
      Boundary!Bench!contents, Boundary!Bench!fleet, Boundary!Bench!hand,
      Boundary!Bench!tool, Next, RetuneStep, SessionStep, CountersStep,
      ControlStep, HostStep, CardStep, ArrivalStep, PaceStep, Sx7Step, Sx2Step,
      MeshStep, BenchStep, FilesStep, ReportStep, MqttStep
<1> QED BY <1>1, <1>2, PTL DEF Spec, Boundary!BenchSpec

\* No relay sends on a frame twice, nor one of its own, and no side ships back
\* a message its own sink published.
THEOREM SentOnOnly == Spec => []SentOnOnce
<1>1. Boundary!Mesh!Spec => []Boundary!Mesh!RelaysOnce
  BY SameBoundary, Boundary!RelaysSendOnOnce
<1>2. Boundary!Mqtt!Spec => []Boundary!Mqtt!NeverSentBack
  BY SameBoundary, Boundary!NothingSentBack
<1>3. Boundary!Mesh!RelaysOnce => Mesh!RelaysOnce
  BY DEF Mesh!RelaysOnce, Boundary!Mesh!RelaysOnce, Mesh!Nodes,
         Boundary!Mesh!Nodes, Mesh!ToSet, Boundary!Mesh!ToSet
<1>4. Boundary!Mqtt!NeverSentBack => Mqtt!NeverSentBack
  BY DEF Mqtt!NeverSentBack, Boundary!Mqtt!NeverSentBack
<1> QED BY MeshSpec, BridgeSpec, <1>1, <1>2, <1>3, <1>4, PTL DEF SentOnOnce

\* Every identity made is on its board or in the fleet folder: whichever step
\* fails or is interrupted, and however often a plan is run again.
THEOREM NoIdentityLost == Spec => []KeysKept
<1>1. Boundary!BenchSpec => []Boundary!Bench!KeysKept
  BY SameBoundary, Boundary!IdentitiesKept
<1>2. Boundary!Bench!KeysKept => KeysKept
  BY DEF KeysKept, Bench!KeysKept, Boundary!Bench!KeysKept, Bench!Boards,
         Boundary!Bench!Boards
<1> QED BY BenchSpec, <1>1, <1>2, PTL

\* A run never starts a board it left half written: whichever step fails, on
\* whichever port a flashed board comes back, and whether or not it said its MAC.
THEOREM WholeWhenStarted == Spec => StartsWhole
<1>1. Boundary!BenchSpec => Boundary!Bench!StartsWhole
  BY SameBoundary, Boundary!OnlyWholeStarted
<1>2. \A b : Boundary!Bench!Whole(b) <=> Bench!Whole(b)
  BY DEF Boundary!Bench!Whole, Bench!Whole, Boundary!Bench!Files, Bench!Files
<1>3. Bench!Start => Boundary!Bench!Start
  BY DEF Bench!Start, Boundary!Bench!Start, Bench!Startable, Boundary!Bench!Startable,
         Bench!Reached, Boundary!Bench!Reached, Bench!Order, Boundary!Bench!Order,
         Bench!Boards, Boundary!Bench!Boards, Bench!Step, Boundary!Bench!Step,
         Bench!desk, Boundary!Bench!desk, Bench!contents, Boundary!Bench!contents,
         Bench!fleet, Boundary!Bench!fleet, Bench!hand, Boundary!Bench!hand,
         Bench!tool, Boundary!Bench!tool
<1>4. [Boundary!Bench!Start => \A b \in sound \cap (running' \ running) : Boundary!Bench!Whole(b)]_(Boundary!Bench!vars)
      => [Bench!Start => \A b \in sound \cap (running' \ running) : Bench!Whole(b)]_(Bench!vars)
  BY <1>2, <1>3
     DEF Bench!vars, Boundary!Bench!vars, Bench!desk, Boundary!Bench!desk, Bench!contents,
         Boundary!Bench!contents, Bench!fleet, Boundary!Bench!fleet, Bench!hand,
         Boundary!Bench!hand, Bench!tool, Boundary!Bench!tool
<1> QED BY BenchSpec, <1>1, <1>4, PTL
        DEF StartsWhole, Bench!StartsWhole, Boundary!Bench!StartsWhole
=============================================================================
