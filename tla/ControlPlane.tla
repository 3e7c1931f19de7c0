---------------------------- MODULE ControlPlane ----------------------------
(***************************************************************************)
(* Signed commands from a Hub to one Edge.  The Hub numbers them from a    *)
(* counter it keeps in a file; the Edge refuses a number that is not above *)
(* the highest it took, which it keeps in a file too.  Both counts belong  *)
(* to a control root, and a rotated root starts them over.  A command is   *)
(* applied when its artifact is consumed and carried out only after the    *)
(* final-OK is on the air, so that it cannot cost its own acknowledgement. *)
(*                                                                         *)
(* How an artifact crosses the link is module Delegation's; here a pull of *)
(* the queue's head reaches the Edge's sink whole.                         *)
(***************************************************************************)
EXTENDS Naturals, Sequences

CONSTANTS
    None,
    Handles,         \* control types the Edge's actuator acts on
    Types,           \* control types that are sent
    MaxCommands, MaxHubRestarts, MaxEdgeRestarts, MaxRotations, MaxDeadPulls,
    SaveMayFail      \* may a file not take the counter

VARIABLES
    \* the Hub
    hubRoot, counter,    \* its control root (1, 2, ...: never one it left), the highest number issued
    hubFile,             \* control_counter_file: None or [root, counter]
    hubPc,               \* "idle", "counted", "saved": a command being made
    downlink,            \* the Edge's queue of artifacts
    \* the Edge
    edgeRoot, mark,      \* its control root, Control_Root_DataSink.counter
    edgeFile,            \* counter_file: None or [root, counter]
    edgePc,              \* "home", "consume", "accept", "final", "drain"
    pulled,              \* the artifact being consumed
    pending,             \* _pending_control: None or an artifact
    \* history
    ran,                 \* how often each command was carried out, 2 for more
    confirmed,           \* commands the Hub took off its queue as delivered
    superseded,          \* an action was replaced before it ran
    unsaved,             \* a save failed
    commands, hubRestarts, edgeRestarts, rotations, deadPulls

hubVars == <<hubRoot, counter, hubFile, hubPc, downlink>>
edgeVars == <<edgeRoot, mark, edgeFile, edgePc, pulled, pending>>
ghostVars == <<ran, confirmed, superseded, unsaved>>
boundVars == <<commands, hubRestarts, edgeRestarts, rotations, deadPulls>>
vars == <<hubVars, edgeVars, ghostVars, boundVars>>

\* A command in Python is an artifact's bytes: its number, its root and type.
Ids == 1..MaxCommands
Artifact(id, t) == [id |-> id, ctr |-> counter, root |-> hubRoot, type |-> t]

Artifacts == [id : Ids, ctr : Nat, root : Nat, type : Types]
Marks == [root : Nat, counter : Nat]

\* What every theorem about this module takes of its constants.
ControlAssumption == MaxCommands \in Nat /\ None \notin Artifacts \cup Marks

\* Both ends read a mark back only under the root that made it.
ReadBack(file, root) ==
    IF file # None /\ file.root = root THEN file.counter ELSE 0

-----------------------------------------------------------------------------
(* The Hub.                                                                *)

\* _next_control_counter counts, records, and only then hands the number out.
Count ==
    /\ hubPc = "idle" /\ commands < MaxCommands
    /\ hubPc' = "counted" /\ counter' = counter + 1
    /\ commands' = commands + 1
    /\ UNCHANGED <<hubRoot, hubFile, downlink, edgeVars, ghostVars, hubRestarts,
                   edgeRestarts, rotations, deadPulls>>

SaveCounter(ok) ==
    /\ hubPc = "counted" /\ (ok \/ SaveMayFail)
    /\ hubPc' = "saved"
    /\ hubFile' = IF ok THEN [root |-> hubRoot, counter |-> counter] ELSE hubFile
    /\ unsaved' = (unsaved \/ ~ok)
    /\ UNCHANGED <<hubRoot, counter, downlink, edgeVars, ran, confirmed,
                   superseded, boundVars>>

\* Mutant of Queue: the artifact goes out before its number is recorded.
Queue_Unrecorded(t) ==
    /\ hubPc \in {"counted", "saved"}
    /\ hubPc' = "idle"
    /\ downlink' = Append(downlink, Artifact(commands, t))
    /\ UNCHANGED <<hubRoot, counter, hubFile, edgeVars, ghostVars, boundVars>>

\* mint and queue_downlink.
Queue(t) ==
    /\ hubPc = "saved"
    /\ hubPc' = "idle"
    /\ downlink' = Append(downlink, Artifact(commands, t))
    /\ UNCHANGED <<hubRoot, counter, hubFile, edgeVars, ghostVars, boundVars>>

\* A restart, on the root provisioned or a new one; queued artifacts were RAM.
HubBoots(root) ==
    /\ hubRoot' = root
    /\ counter' = ReadBack(hubFile, root)
    /\ hubPc' = "idle" /\ downlink' = <<>>
    /\ UNCHANGED <<hubFile, edgeVars>>

HubRestart ==
    /\ hubRestarts < MaxHubRestarts /\ hubRestarts' = hubRestarts + 1
    /\ HubBoots(hubRoot)
    /\ UNCHANGED <<ghostVars, commands, edgeRestarts, rotations, deadPulls>>

-----------------------------------------------------------------------------
(* The Edge.                                                               *)

\* _load_counter and _configure_control_root on the way up.
EdgeBoots(root) ==
    /\ edgeRoot' = root
    /\ mark' = ReadBack(edgeFile, root)
    /\ edgePc' = "home" /\ pulled' = None /\ pending' = None
    /\ UNCHANGED <<edgeFile, hubVars>>

EdgeRestart ==
    /\ edgeRestarts < MaxEdgeRestarts /\ edgeRestarts' = edgeRestarts + 1
    /\ EdgeBoots(edgeRoot)
    /\ UNCHANGED <<ghostVars, commands, hubRestarts, rotations, deadPulls>>

\* The operator rotates the root, on the Hub and then on the Edge.
RotateHub ==
    /\ rotations < MaxRotations /\ rotations' = rotations + 1
    /\ HubBoots(hubRoot + 1)
    /\ UNCHANGED <<ghostVars, commands, hubRestarts, edgeRestarts, deadPulls>>

RotateEdge ==
    /\ edgeRoot # hubRoot
    /\ EdgeBoots(hubRoot)
    /\ UNCHANGED <<ghostVars, boundVars>>

\* A pull of the head reaches the sink.
Pull ==
    /\ edgePc = "home" /\ downlink # <<>>
    /\ edgePc' = "consume" /\ pulled' = Head(downlink)
    /\ UNCHANGED <<edgeRoot, mark, edgeFile, pending, hubVars, ghostVars, boundVars>>

\* _verify: type, number, then the signature.
Verified(a) == a.type \in Handles /\ a.ctr > mark /\ a.root = edgeRoot

\* What is refused is dropped without an error: the transfer goes through.
Refuse ==
    /\ edgePc = "consume" /\ ~Verified(pulled)
    /\ edgePc' = "final"
    /\ UNCHANGED <<edgeRoot, mark, edgeFile, pulled, pending, hubVars, ghostVars, boundVars>>

\* queue_control_action: only the latest is kept.
Defer(a) ==
    /\ pending' = a
    /\ superseded' = (superseded \/ pending # None)

\* apply, then the mark.
Apply ==
    /\ edgePc = "consume" /\ Verified(pulled)
    /\ edgePc' = "accept"
    /\ Defer(pulled)
    /\ UNCHANGED <<edgeRoot, mark, edgeFile, pulled, hubVars, ran, confirmed,
                   unsaved, boundVars>>

\* Mutant of AcceptCounter: the mark stays in RAM.
AcceptCounter_InRAM(ok) ==
    /\ edgePc = "accept" /\ (ok \/ SaveMayFail)
    /\ edgePc' = "final"
    /\ mark' = pulled.ctr
    /\ UNCHANGED <<edgeRoot, edgeFile, pulled, pending, hubVars, ghostVars, boundVars>>

AcceptCounter(ok) ==
    /\ edgePc = "accept" /\ (ok \/ SaveMayFail)
    /\ edgePc' = "final"
    /\ mark' = pulled.ctr
    /\ edgeFile' = IF ok THEN [root |-> edgeRoot, counter |-> pulled.ctr] ELSE edgeFile
    /\ unsaved' = (unsaved \/ ~ok)
    /\ UNCHANGED <<edgeRoot, pulled, pending, hubVars, ran, confirmed,
                   superseded, boundVars>>

\* An actuator of the deployment's own may fail: the file is pulled again.
ApplyFails ==
    /\ edgePc = "consume" /\ Verified(pulled) /\ deadPulls < MaxDeadPulls
    /\ deadPulls' = deadPulls + 1
    /\ edgePc' = "home" /\ pulled' = None
    /\ UNCHANGED <<edgeRoot, mark, edgeFile, pending, hubVars, ghostVars, commands,
                   hubRestarts, edgeRestarts, rotations>>

\* The final-OK, and the head of the queue dropped if the Hub hears it.
FinalOk(heard) ==
    /\ edgePc = "final"
    /\ edgePc' = "drain"
    /\ IF heard /\ downlink # <<>> /\ Head(downlink) = pulled
       THEN downlink' = Tail(downlink) /\ confirmed' = confirmed \cup {pulled.id}
       ELSE UNCHANGED <<downlink, confirmed>>
    /\ pulled' = None
    /\ UNCHANGED <<hubRoot, counter, hubFile, hubPc, edgeRoot, mark, edgeFile, pending,
                   ran, superseded, unsaved, boundVars>>

\* Mutant of FinalOkRaises: what was deferred is forgotten with the pull.
FinalOkRaises_Forgets ==
    /\ edgePc = "final" /\ deadPulls < MaxDeadPulls
    /\ deadPulls' = deadPulls + 1
    /\ edgePc' = "home" /\ pulled' = None /\ pending' = None
    /\ UNCHANGED <<edgeRoot, mark, edgeFile, hubVars, ghostVars, commands, hubRestarts,
                   edgeRestarts, rotations>>

\* Putting the final-OK on the air raised: the pull ends unfinished, and what
\* was deferred waits for the next one that does not.
FinalOkRaises ==
    /\ edgePc = "final" /\ deadPulls < MaxDeadPulls
    /\ deadPulls' = deadPulls + 1
    /\ edgePc' = "home" /\ pulled' = None
    /\ UNCHANGED <<edgeRoot, mark, edgeFile, pending, hubVars, ghostVars, commands,
                   hubRestarts, edgeRestarts, rotations>>

\* _run_pending_control: cleared first; a reset does not return.
RunPending ==
    /\ edgePc = "drain"
    /\ IF pending = None
       THEN /\ edgePc' = "home"
            /\ UNCHANGED <<edgeRoot, mark, edgeFile, pulled, pending, hubVars, ran>>
       ELSE /\ ran' = [ran EXCEPT ![pending.id] = IF @ = 0 THEN 1 ELSE 2]
            /\ IF pending.type = "RESET"
               THEN EdgeBoots(edgeRoot)
               ELSE /\ edgePc' = "home" /\ pending' = None
                    /\ UNCHANGED <<edgeRoot, mark, edgeFile, pulled, hubVars>>
    /\ UNCHANGED <<confirmed, superseded, unsaved, boundVars>>

-----------------------------------------------------------------------------
Init ==
    /\ hubRoot = 1 /\ counter = 0 /\ hubFile = None /\ hubPc = "idle"
    /\ downlink = <<>>
    /\ edgeRoot = 1 /\ mark = 0 /\ edgeFile = None /\ edgePc = "home"
    /\ pulled = None /\ pending = None
    /\ ran = [i \in Ids |-> 0] /\ confirmed = {}
    /\ superseded = FALSE /\ unsaved = FALSE
    /\ commands = 0 /\ hubRestarts = 0 /\ edgeRestarts = 0 /\ rotations = 0
    /\ deadPulls = 0

Next ==
    \/ Count \/ HubRestart \/ RotateHub \/ EdgeRestart \/ RotateEdge
    \/ \E t \in Types : Queue(t)
    \/ Pull \/ Refuse \/ Apply \/ ApplyFails \/ FinalOkRaises \/ RunPending
    \/ \E yes \in BOOLEAN : SaveCounter(yes) \/ AcceptCounter(yes) \/ FinalOk(yes)

Spec == Init /\ [][Next]_vars

-----------------------------------------------------------------------------
\* No number the Hub is going to issue is one the Edge would take for a
\* replay, whichever of them restarts at whatever point and whatever roots
\* they have been through, as long as the counters reach their files.
NoLockout ==
    edgeRoot = hubRoot /\ ~unsaved => mark <= ReadBack(hubFile, hubRoot)

\* A command is carried out at most once, however often its artifact is
\* delivered: the mark outlives the reset it has just performed.
CarriedOutOnce == ~unsaved => \A i \in Ids : ran[i] <= 1

\* Keeping only the latest deferred action loses none: what a pull left
\* behind is carried out by the next pull of the same head, before anything
\* else can be deferred, unless the Hub forgot its queue in between.
NothingSuperseded == hubRestarts = 0 /\ rotations = 0 => ~superseded

\* A command delivered in the Hub's books is carried out or about to be.
\* Only a restart of the Edge between taking it and carrying it out takes
\* that away, or a Hub that restarts with a number it could not write down.
ConfirmedIsDone ==
    edgeRestarts = 0 /\ rotations = 0 /\ ~(unsaved /\ hubRestarts > 0) =>
        \A i \in confirmed : ran[i] > 0 \/ (pending # None /\ pending.id = i)
=============================================================================
