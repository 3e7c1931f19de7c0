------------------------------ MODULE RFTrial ------------------------------
(***************************************************************************)
(* A Hub moves an Edge to another radio configuration over the very link   *)
(* the change may break.  The Edge keeps the change on trial: it commits   *)
(* when a full chunk has crossed, and goes back when its window passes.    *)
(* The Hub, which cannot see the trial, follows the Edge in its own view   *)
(* of the endpoint and probes the new and the old configuration in turn,   *)
(* one per visit, until it knows where the Edge settled.                   *)
(*                                                                         *)
(* One exchange (a request and its reply) is one step: module Transfer has *)
(* what happens inside it, module Delegation what happens inside a         *)
(* delivery.  Time is the Edge's loop turns.                               *)
(***************************************************************************)
EXTENDS Naturals, Sequences

CONSTANTS
    Configs, Factory,    \* radio configurations; the one both ends ship with
    None,
    Carries,             \* what gets through on each configuration (below)
    NChunks,             \* chunks in a file of the Edge
    Window,              \* turns a trial waits unheld
    CeilingWindows,      \* TRIAL_CEILING_WINDOWS
    SwapAfter, GiveUpAfter,  \* the probe's budgets, in silent visits
    RecoverAfter,        \* session_recovery_after, in silent visits
    Attempts,            \* _IN_BAND_ATTEMPTS
    Secure, Lossy,
    MayIdle,             \* may the Edge have nothing to send
    MidFile,             \* may a change be asked with a file half pulled
    MaxChanges, MaxPlain, MaxEdgeReboots, MaxHubRestarts   \* bounds

VARIABLES
    \* the Hub: its view of the endpoint, what the roster file says of it
    view, roster,
    tuned,               \* where the Hub's radio is
    trial,               \* _endpoint_trial, None or a record
    status,              \* _rf_change_status
    downlink,            \* artifacts and plain files queued for the Edge
    mirror,              \* _pending_mirror
    pc,                  \* "between" visits, "asking" in band, in a "visit", "closing" it
    want, asks,          \* the change asked in band, attempts made
    state, next,         \* Digital_Endpoint.state, the chunk wanted
    asked, heard, alive, completed,   \* what this visit has seen
    session, silent, polled,          \* the secure session and its doubts
    \* the Edge: its radio, the connector's backup, the config file
    cfg, last, conf,
    sf_trial, deadline, ceiling,
    rooted,              \* it was provisioned with a control root
    keyed,               \* it holds the session the Hub holds
    file, announced, sent,   \* a file to give, announced, last_chunk_sent
    \* history: configurations a whole chunk crossed on, changes made
    proven, moved, astray,
    changes, plains, reboots, restarts

probeVars   == <<view, roster, trial, status>>
queueVars   == <<downlink, mirror>>
askVars     == <<want, asks>>
driveVars   == <<state, next, asked, heard, alive, completed>>
sessionVars == <<session, silent, polled>>
edgeRf      == <<cfg, last, conf, sf_trial, deadline, ceiling>>
edgeFile    == <<file, announced, sent>>
boundVars   == <<changes, plains, reboots, restarts>>
hubVars     == <<probeVars, tuned, queueVars, pc, askVars, driveVars, sessionVars>>
edgeVars    == <<edgeRf, rooted, keyed, edgeFile>>
ghostVars   == <<proven, moved, astray>>
vars        == <<hubVars, edgeVars, ghostVars, boundVars>>

Trials == [old : Configs, new : Configs, misses : Nat, total : Nat, fresh : BOOLEAN]

\* What every theorem about this module takes of its constants.
RetuneAssumption == Factory \in Configs /\ None \notin Trials

\* What the theorem about what is kept takes besides: one change, asked between
\* two files, over a link that loses only what a configuration cannot carry.
NoShort == \A c \in Configs : Carries[c] # "short"
TrialAssumption ==
    /\ RetuneAssumption
    /\ NChunks \in Nat \ {0} /\ None \notin Configs
    /\ ~Lossy /\ ~MidFile /\ MaxChanges = 1
    /\ Secure => NoShort
    /\ MaxHubRestarts = 0 \/ Carries[Factory] # "short"

-----------------------------------------------------------------------------
(* The link.  On a configuration that carries "requests" the Edge hears    *)
(* and is not heard; one that carries "short" frames loses every chunk.    *)

CanHear == cfg = tuned /\ Carries[tuned] # "nothing" /\ (Secure => keyed)
CanAnswer(full) == Carries[tuned] = "all" \/ (Carries[tuned] = "short" /\ ~full)

Arrives(got) == IF got THEN CanHear ELSE Lossy \/ ~CanHear
Returns(got, full, back) ==
    IF back THEN got /\ CanAnswer(full) ELSE Lossy \/ ~got \/ ~CanAnswer(full)

-----------------------------------------------------------------------------
(* The Edge's side of a trial.                                             *)

NotArmed == Window * CeilingWindows + 1

\* _hold_trial: a short frame pushes the window out, never the ceiling.
HoldTrial ==
    /\ deadline' = IF sf_trial /\ deadline # NotArmed THEN Window ELSE deadline
    /\ UNCHANGED <<cfg, last, conf, sf_trial, ceiling>>

\* _commit_trial: a change that carried a chunk goes to the config file.
CommitTrial ==
    IF sf_trial
    THEN /\ conf' = cfg
         /\ sf_trial' = FALSE /\ deadline' = NotArmed /\ ceiling' = NotArmed
         /\ UNCHANGED <<cfg, last>>
    ELSE UNCHANGED edgeRf

\* _restore_trial, to what the connector backed up at the change.
RestoreTrial ==
    /\ cfg' = last
    /\ sf_trial' = FALSE /\ deadline' = NotArmed /\ ceiling' = NotArmed
    /\ UNCHANGED <<last, conf>>

\* change_rf_config: the connector backs up where it is, and moves.
ChangeRfConfig(c) ==
    /\ last' = cfg /\ cfg' = c
    /\ sf_trial' = TRUE /\ deadline' = NotArmed /\ ceiling' = NotArmed
    /\ UNCHANGED conf

\* Mutant of Turn: a trial is timed only from the first frame heard in it.
Turn_Unheard ==
    /\ sf_trial
    /\ deadline # NotArmed
    /\ IF deadline <= 1 \/ ceiling <= 1
       THEN RestoreTrial
       ELSE /\ deadline' = deadline - 1 /\ ceiling' = ceiling - 1
            /\ UNCHANGED <<cfg, last, conf, sf_trial>>
    /\ UNCHANGED <<hubVars, rooted, keyed, edgeFile, ghostVars, boundVars>>

\* One turn of the Edge's loop: _service_trial_window.
Turn ==
    /\ sf_trial
    /\ IF deadline = NotArmed
       THEN /\ deadline' = Window /\ ceiling' = Window * CeilingWindows
            /\ UNCHANGED <<cfg, last, conf, sf_trial>>
       ELSE IF deadline <= 1 \/ ceiling <= 1
       THEN RestoreTrial
       ELSE /\ deadline' = deadline - 1 /\ ceiling' = ceiling - 1
            /\ UNCHANGED <<cfg, last, conf, sf_trial>>
    /\ UNCHANGED <<hubVars, rooted, keyed, edgeFile, ghostVars, boundVars>>

\* The application hands the Edge its next file.
NewFile ==
    /\ ~file
    /\ file' = TRUE /\ announced' = FALSE /\ sent' = 0
    /\ UNCHANGED <<hubVars, edgeRf, rooted, keyed, ghostVars, boundVars>>

\* A restart boots from the config file; the session was RAM.
EdgeReboot ==
    /\ reboots < MaxEdgeReboots /\ reboots' = reboots + 1
    /\ cfg' = conf /\ last' = conf /\ UNCHANGED conf
    /\ sf_trial' = FALSE /\ deadline' = NotArmed /\ ceiling' = NotArmed
    /\ announced' = FALSE /\ sent' = 0 /\ UNCHANGED file
    /\ keyed' = FALSE
    /\ UNCHANGED <<hubVars, rooted, ghostVars, changes, plains, restarts>>

EdgeSilent == UNCHANGED <<edgeRf, edgeFile>>

\* What an OK does to an Edge that hears it.  After the tail chunk it is the
\* final-OK: the file is over, the trial proven, and nothing is answered.
IsFinalOk == file /\ sent = NChunks
HearsOk ==
    IF IsFinalOk
    THEN /\ CommitTrial
         /\ file' = ~MayIdle /\ announced' = FALSE /\ sent' = 0
    ELSE HoldTrial /\ UNCHANGED edgeFile

AnsweredOk(got, back) == Returns(got /\ ~IsFinalOk, FALSE, back)

-----------------------------------------------------------------------------
(* The Hub's half: mirror the change, then probe {new, old}.               *)

\* _mirror_endpoint_config: follow the Edge, keep where to look for it.
Mirror(c, mid_visit) ==
    /\ trial' = [old |-> view, new |-> c, misses |-> 0, total |-> 0,
                 fresh |-> mid_visit]
    /\ view' = c
    /\ UNCHANGED roster

\* _settle_rf_change: the probe answers only a question that is open.
Settle(outcome) ==
    status' = IF status = "PENDING" THEN outcome ELSE status

\* Mutant of Located: any frame heard proves the configuration probed.
Located_AnyFrame == completed \/ heard

ProbeIdle == trial = None \/ trial.fresh
OnOld == view = trial.old
Located == completed \/ (heard /\ OnOld)

\* The trial is over on the configuration in force: now it is written down.
ProbeSettles ==
    /\ trial' = None /\ roster' = view /\ UNCHANGED view
    /\ Settle(IF OnOld THEN "REFUSED" ELSE "ACCEPTED")

ProbeHolds ==
    /\ trial' = [trial EXCEPT !.misses = 0]
    /\ UNCHANGED <<view, roster, status>>

ProbeGivesUp ==
    /\ trial' = None /\ view' = trial.old /\ roster' = trial.old
    /\ Settle("UNREACHABLE")

ProbeSwaps ==
    LET missed == trial.misses + 1 >= SwapAfter IN
    /\ trial' = [trial EXCEPT !.misses = IF missed THEN 0 ELSE @ + 1,
                              !.total = @ + 1]
    /\ view' = IF ~missed THEN view ELSE IF OnOld THEN trial.new ELSE trial.old
    /\ UNCHANGED <<roster, status>>

\* _probe_visit_end.
ProbeVisitEnd ==
    IF trial = None THEN UNCHANGED probeVars
    ELSE IF trial.fresh
    THEN trial' = [trial EXCEPT !.fresh = FALSE] /\ UNCHANGED <<view, roster, status>>
    ELSE IF Located THEN ProbeSettles
    ELSE IF heard THEN ProbeHolds
    ELSE IF trial.total + 1 >= GiveUpAfter THEN ProbeGivesUp
    ELSE ProbeSwaps

-----------------------------------------------------------------------------
(* Asking for a change: in band, or as an artifact through the downlink.   *)

AskInBand(c) ==
    /\ pc = "between" /\ changes < MaxChanges
    /\ Secure => session
    /\ state # "PROCESS_CHUNK" \/ MidFile
    /\ pc' = "asking" /\ want' = c /\ asks' = 0
    /\ changes' = changes + 1
    /\ UNCHANGED <<probeVars, tuned, queueVars, driveVars, sessionVars, edgeVars,
                   ghostVars, plains, reboots, restarts>>

\* One attempt.  The Edge acknowledges, then moves; an Edge with a control
\* root refuses by saying nothing.
TryCommand(got, back) ==
    /\ pc = "asking" /\ asks < Attempts
    /\ Arrives(got) /\ Returns(got /\ ~rooted, FALSE, back)
    /\ IF got /\ ~rooted
       THEN ChangeRfConfig(want) /\ moved' = moved \cup {want}
       ELSE UNCHANGED <<edgeRf, moved>>
    /\ IF back
       THEN /\ Mirror(want, FALSE) /\ status' = "ACCEPTED"
            /\ pc' = "between" /\ UNCHANGED asks
       ELSE asks' = asks + 1 /\ UNCHANGED <<probeVars, pc>>
    /\ UNCHANGED <<tuned, queueVars, want, driveVars, sessionVars, rooted, keyed,
                   edgeFile, proven, astray, boundVars>>

\* Mutant of Diagnose: silence is taken for a refusal.
Diagnose_Refused(got, back) ==
    /\ pc = "asking" /\ asks = Attempts
    /\ Arrives(got) /\ AnsweredOk(got, back)
    /\ IF got THEN HearsOk ELSE EdgeSilent
    /\ status' = "ACCEPTED"
    /\ pc' = "between"
    /\ UNCHANGED <<view, roster, trial, tuned, queueVars, askVars, driveVars,
                   sessionVars, rooted, keyed, ghostVars, boundVars>>

\* _diagnose_in_band_silence, its polls taken together.
Diagnose(got, back) ==
    /\ pc = "asking" /\ asks = Attempts
    /\ Arrives(got) /\ AnsweredOk(got, back)
    /\ IF got THEN HearsOk ELSE EdgeSilent
    /\ status' = IF back THEN "REFUSED" ELSE "UNREACHABLE"
    /\ pc' = "between"
    /\ UNCHANGED <<view, roster, trial, tuned, queueVars, askVars, driveVars,
                   sessionVars, rooted, keyed, ghostVars, boundVars>>

\* The signed route: an artifact in the downlink, genuine or not for this
\* Edge, and the configuration to mirror when it is delivered.
Item(c, genuine) == [cfg |-> c, genuine |-> genuine]
AskSigned(c, genuine) ==
    /\ pc = "between" /\ changes < MaxChanges
    /\ downlink' = Append(downlink, Item(c, genuine))
    /\ mirror' = c /\ status' = "PENDING"
    /\ changes' = changes + 1
    /\ UNCHANGED <<view, roster, trial, tuned, pc, askVars, driveVars, sessionVars,
                   edgeVars, ghostVars, plains, reboots, restarts>>

\* Any other file for the same Edge.
QueuePlain ==
    /\ pc = "between" /\ plains < MaxPlain
    /\ downlink' = Append(downlink, Item(None, FALSE))
    /\ plains' = plains + 1
    /\ UNCHANGED <<probeVars, tuned, mirror, pc, askVars, driveVars, sessionVars,
                   edgeVars, ghostVars, changes, reboots, restarts>>

-----------------------------------------------------------------------------
(* A visit.                                                                *)

\* Another endpoint is visited, on the configuration everyone ships with.
VisitOther ==
    /\ pc = "between" /\ tuned # Factory
    /\ tuned' = Factory
    /\ UNCHANGED <<probeVars, queueVars, pc, askVars, driveVars, sessionVars,
                   edgeVars, ghostVars, boundVars>>

OpenVisit ==
    /\ tuned' = view
    /\ asked' = FALSE /\ heard' = FALSE /\ alive' = FALSE /\ completed' = FALSE
    /\ UNCHANGED <<probeVars, queueVars, askVars, state, next, edgeRf, rooted,
                   edgeFile, ghostVars, boundVars>>

\* prepare_connector tunes to the view; a session is there or not needed.
BeginVisit ==
    /\ pc = "between" /\ (Secure => session)
    /\ pc' = "visit" /\ OpenVisit
    /\ UNCHANGED <<sessionVars, keyed>>

CanShake == view = cfg /\ Carries[view] \in {"short", "all"}

\* Without a session the visit opens with a handshake, and ends with it
\* when nothing answers: before the probe is advanced.
Handshake(ok) ==
    /\ pc = "between" /\ Secure /\ ~session
    /\ IF ok THEN CanShake
             ELSE Lossy \/ ~CanShake
    /\ pc' = IF ok THEN "visit" ELSE "between"
    /\ session' = ok /\ keyed' = (ok \/ keyed)
    /\ OpenVisit
    /\ UNCHANGED <<silent, polled>>

Hears(back) == heard' = (heard \/ back) /\ alive' = (alive \/ back)

RoundUnchanged == UNCHANGED <<probeVars, tuned, queueVars, pc, askVars, sessionVars,
                              rooted, keyed, moved, astray, boundVars>>

AskOk(got, back) ==
    /\ pc = "visit" /\ state = "OK"
    /\ Arrives(got) /\ AnsweredOk(got, back)
    /\ IF got THEN HearsOk ELSE EdgeSilent
    /\ asked' = TRUE /\ Hears(back)
    /\ state' = IF back THEN "REQUEST_DATA" ELSE state
    /\ UNCHANGED <<next, completed, proven>> /\ RoundUnchanged

\* A metadata request holds a trial even when there is nothing to announce.
AskMetadata(got, back) ==
    /\ pc = "visit" /\ state = "REQUEST_DATA"
    /\ Arrives(got) /\ Returns(got /\ file, FALSE, back)
    /\ IF got THEN HoldTrial ELSE UNCHANGED edgeRf
    /\ announced' = (announced \/ (got /\ file)) /\ UNCHANGED <<file, sent>>
    /\ asked' = TRUE /\ Hears(back)
    /\ state' = IF back THEN "PROCESS_CHUNK" ELSE state
    /\ next' = IF back THEN 1 ELSE next
    /\ UNCHANGED <<completed, proven>> /\ RoundUnchanged

\* A file not announced since the Edge started is announced again, and the
\* Hub opens the transfer anew.
AskReannounced(got, back) ==
    /\ pc = "visit" /\ state = "PROCESS_CHUNK" /\ ~announced
    /\ Arrives(got) /\ Returns(got /\ file, FALSE, back)
    /\ EdgeSilent
    /\ asked' = TRUE /\ Hears(back)
    /\ state' = IF back THEN "REQUEST_DATA" ELSE state
    /\ UNCHANGED <<next, completed, proven>> /\ RoundUnchanged

\* Mutant of Progress: a chunk asked for again commits as well.
Progress_AnyChunk == sf_trial /\ sent # 0

\* Being asked for a later chunk than the last one served is the proof of
\* that chunk, and commits the Edge's trial.
Progress == sf_trial /\ sent # 0 /\ next > sent

AskChunk(got, back) ==
    /\ pc = "visit" /\ state = "PROCESS_CHUNK" /\ announced
    /\ next < NChunks
    /\ Arrives(got) /\ Returns(got, TRUE, back)
    /\ IF got /\ Progress THEN CommitTrial ELSE UNCHANGED edgeRf
    /\ sent' = IF got THEN next ELSE sent
    /\ asked' = TRUE /\ Hears(back)
    /\ next' = IF back THEN next + 1 ELSE next
    /\ proven' = IF back THEN proven \cup {tuned} ELSE proven
    /\ UNCHANGED <<state, completed, file, announced>> /\ RoundUnchanged

\* The tail chunk: the file is consumed and a final-OK sent, once.
AskTail(got, back, okArrives) ==
    /\ pc = "visit" /\ state = "PROCESS_CHUNK" /\ announced
    /\ next = NChunks
    /\ Arrives(got) /\ Returns(got, TRUE, back)
    /\ okArrives => back
    /\ back => okArrives \/ Lossy
    /\ IF got /\ (Progress \/ okArrives) THEN CommitTrial ELSE UNCHANGED edgeRf
    /\ IF okArrives
       THEN file' = ~MayIdle /\ announced' = FALSE /\ sent' = 0
       ELSE sent' = (IF got THEN next ELSE sent) /\ UNCHANGED <<file, announced>>
    /\ asked' = TRUE /\ Hears(back)
    /\ completed' = (completed \/ back)
    /\ state' = IF back THEN "OK" ELSE state
    /\ proven' = IF back THEN proven \cup {tuned} ELSE proven
    /\ UNCHANGED next /\ RoundUnchanged

\* Of two artifacts the Edge takes only one it has not taken before, and
\* none that was not signed for it.
Takes(item) == item.cfg # None /\ item.genuine

\* A boundary where the head of the downlink is pulled whole, and its
\* final-OK heard by the Hub or not.  The Edge moves after that final-OK.
Deliver(acked) ==
    LET item == Head(downlink) IN
    /\ pc = "visit" /\ state # "PROCESS_CHUNK" /\ downlink # <<>>
    /\ CanHear /\ CanAnswer(TRUE)
    /\ acked \/ Lossy
    /\ asked' = TRUE
    /\ IF Takes(item)
       THEN ChangeRfConfig(item.cfg) /\ moved' = moved \cup {item.cfg}
       ELSE UNCHANGED <<edgeRf, moved>>
    /\ IF acked
       THEN /\ downlink' = Tail(downlink) /\ alive' = TRUE
            /\ IF mirror = None
               THEN UNCHANGED <<probeVars, tuned, mirror, astray>>
               ELSE /\ Mirror(mirror, TRUE) /\ mirror' = None
                    /\ astray' = (astray \/ item.cfg = None)
                    /\ tuned' = mirror /\ UNCHANGED status
       ELSE /\ downlink' = <<[item EXCEPT !.genuine = FALSE]>> \o Tail(downlink)
            /\ UNCHANGED <<alive, probeVars, tuned, mirror, astray>>
    /\ UNCHANGED <<pc, askVars, state, next, heard, completed, sessionVars, rooted,
                   keyed, edgeFile, proven, boundVars>>

\* A delegation nobody drives, or one that dies half-way.
DeliverFails ==
    /\ pc = "visit" /\ state # "PROCESS_CHUNK" /\ downlink # <<>>
    /\ Lossy \/ ~CanHear \/ ~CanAnswer(TRUE)
    /\ asked' = TRUE
    /\ UNCHANGED <<pc, probeVars, tuned, queueVars, askVars, state, next, heard, alive,
                   completed, sessionVars, edgeVars, ghostVars, boundVars>>

EndVisit ==
    /\ pc = "visit" /\ asked
    /\ pc' = "closing"
    /\ ProbeVisitEnd
    /\ UNCHANGED <<tuned, queueVars, askVars, driveVars, sessionVars, edgeVars,
                   ghostVars, boundVars>>

\* _session_visit_end: silence raises the doubt, an unanswered poll settles it.
DropSession(unanswered) ==
    session /\ (polled \/ (silent + 1 >= RecoverAfter /\ unanswered))
SessionVisitEnd(living, unanswered) ==
    IF ~Secure THEN UNCHANGED <<sessionVars, state>>
    ELSE IF living
    THEN silent' = 0 /\ polled' = FALSE /\ UNCHANGED <<session, state>>
    ELSE IF ~session THEN UNCHANGED <<sessionVars, state>>
    ELSE IF DropSession(unanswered)
    THEN session' = FALSE /\ silent' = 0 /\ polled' = FALSE /\ state' = "OK"
    ELSE /\ silent' = silent + 1 /\ polled' = (silent + 1 >= RecoverAfter)
         /\ state' = IF silent + 1 >= RecoverAfter THEN "OK" ELSE state
         /\ UNCHANGED session

\* _liveness_visit_end: a silent visit asks the poll every Edge answers, on
\* the configuration this visit was tuned to.
CloseVisit(got, back) ==
    LET asksPoll == ~completed /\ state = "REQUEST_DATA" /\ ~alive IN
    /\ pc = "closing"
    /\ IF asksPoll THEN Arrives(got) /\ AnsweredOk(got, back) ELSE ~got /\ ~back
    /\ IF got THEN HearsOk ELSE EdgeSilent
    /\ alive' = (alive \/ back)
    /\ SessionVisitEnd(alive', asksPoll /\ ~back)
    /\ pc' = "between"
    /\ UNCHANGED <<probeVars, tuned, queueVars, askVars, next, asked, heard, completed,
                   rooted, keyed, ghostVars, boundVars>>

\* A restart of the Hub: the roster is all that is left.
HubRestart ==
    /\ restarts < MaxHubRestarts /\ restarts' = restarts + 1
    /\ view' = roster /\ UNCHANGED roster
    /\ tuned' = Factory
    /\ trial' = None /\ status' = "NONE"
    /\ downlink' = <<>> /\ mirror' = None
    /\ pc' = "between" /\ want' = None /\ asks' = 0
    /\ state' = "OK" /\ next' = 0
    /\ asked' = FALSE /\ heard' = FALSE /\ alive' = FALSE /\ completed' = FALSE
    /\ session' = FALSE /\ silent' = 0 /\ polled' = FALSE
    /\ UNCHANGED <<edgeVars, ghostVars, changes, plains, reboots>>

-----------------------------------------------------------------------------
Init ==
    /\ view = Factory /\ roster = Factory /\ tuned = Factory
    /\ trial = None /\ status = "NONE" /\ downlink = <<>> /\ mirror = None
    /\ pc = "between" /\ want = None /\ asks = 0
    /\ state = "OK" /\ next = 0
    /\ asked = FALSE /\ heard = FALSE /\ alive = FALSE /\ completed = FALSE
    /\ session = FALSE /\ silent = 0 /\ polled = FALSE
    /\ cfg = Factory /\ last = Factory /\ conf = Factory
    /\ sf_trial = FALSE /\ deadline = NotArmed /\ ceiling = NotArmed
    /\ rooted \in BOOLEAN /\ keyed = FALSE
    /\ file = ~MayIdle /\ announced = FALSE /\ sent = 0
    /\ proven = {} /\ moved = {} /\ astray = FALSE
    /\ changes = 0 /\ plains = 0 /\ reboots = 0 /\ restarts = 0

Round == \E got, back, okArrives \in BOOLEAN :
            \/ AskOk(got, back)
            \/ AskMetadata(got, back)
            \/ AskReannounced(got, back)
            \/ AskChunk(got, back)
            \/ AskTail(got, back, okArrives)
Ask == \E got, back \in BOOLEAN : TryCommand(got, back) \/ Diagnose(got, back)
Visit == BeginVisit \/ \E ok \in BOOLEAN : Handshake(ok)
Delegate == \E acked \in BOOLEAN : Deliver(acked) \/ DeliverFails
Close == EndVisit \/ \E got, back \in BOOLEAN : CloseVisit(got, back)
Operator ==
    \/ \E c \in Configs \ {view} : AskInBand(c)
    \/ \E c \in Configs \ {view}, genuine \in BOOLEAN : AskSigned(c, genuine)
    \/ QueuePlain

Next == \/ Operator \/ Ask \/ VisitOther \/ Visit \/ Round \/ Delegate \/ Close
        \/ Turn \/ NewFile
        \/ EdgeReboot \/ HubRestart

\* Both loops keep turning.
Loops == /\ WF_vars(Visit) /\ WF_vars(Round) /\ WF_vars(Close) /\ WF_vars(Ask)
         /\ WF_vars(Turn)

Spec == Init /\ [][Next]_vars
FairSpec == Spec /\ Loops

-----------------------------------------------------------------------------
TypeOK ==
    /\ {view, roster, tuned, cfg, last, conf} \subseteq Configs
    /\ trial = None \/ (trial.old \in Configs /\ trial.new \in Configs
                        /\ trial.misses < SwapAfter /\ trial.total < GiveUpAfter)

\* A trial always ends, polled or not, heard or not: only the ceiling says so.
TrialEnds == sf_trial ~> ~sf_trial

\* Whatever the trial did, the Hub comes back to where the Edge is.
HubFindsEdge == []<>(view = cfg)

\* An Edge that is not on trial runs what a restart would bring back.
HomeIsOnFile == ~sf_trial => cfg = conf

\* The two ends have settled apart, and nothing will bring them together.
Stranded == /\ trial = None /\ ~sf_trial /\ view # cfg /\ cfg = conf
            /\ pc = "between"
NeverStranded == ~Stranded

\* Nothing reaches the roster, or the Edge's config file, that no full chunk
\* ever crossed on.
OnlyProven == {roster, conf} \subseteq proven \cup {Factory}

\* A change reported as accepted is one the Edge made.
AcceptedMeansMoved == status = "ACCEPTED" => moved # {}

\* The Hub follows a change when the artifact that carries it is delivered.
MirrorsItsArtifact == ~astray
=============================================================================
