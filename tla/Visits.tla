------------------------------- MODULE Visits -------------------------------
(***************************************************************************)
(* The Hub's loop: pass after pass over the endpoints it holds, the most   *)
(* overdue first, draining the management plane before each.  A visit      *)
(* speaks the endpoint's protocol version with the endpoint's own pacing;  *)
(* whatever happens in it, the Hub speaks its own again afterwards, and    *)
(* the endpoint rests.  Endpoints come and go at the drains.               *)
(***************************************************************************)
EXTENDS Naturals, Sequences, FiniteSets, SequencesExt

CONSTANTS
    Labels, Old,     \* endpoints, and those on version 2 firmware
    None,
    Rest,            \* wait_after_visit, in turns of the loop
    MaxMoves         \* endpoints switched off, and pauses

VARIABLES
    held,            \* digital_endpoints: the label and which object of it
    paused,
    next_visit,      \* turns to go, of every label in the schedule
    pass,            \* what is left of the pass, as sorted at its start
    visiting,        \* the endpoint visited, or None
    codec, window, pacing,   \* what radio and drive loop speak: "own" or a label
    moves,
    \* history: labels that came back and were not visited yet
    returned

schedule == <<next_visit, pass>>
voice == <<codec, window, pacing>>
vars == <<held, paused, schedule, visiting, voice, moves, returned>>

Endpoint(l, n) == [label |-> l, object |-> n]
HeldLabels == {e.label : e \in held}

-----------------------------------------------------------------------------
(* The pass.                                                               *)

\* Mutant of SyncSchedule: who is due at the start of a pass is taken for an arrival, and rests first.
SyncSchedule_RestFirst ==
    [l \in HeldLabels |-> IF l \in DOMAIN next_visit /\ next_visit[l] > 0
                            THEN next_visit[l] ELSE Rest]

\* _sync_schedule: who arrived is due, who left takes its deadline along.
SyncSchedule ==
    [l \in HeldLabels |-> IF l \in DOMAIN next_visit THEN next_visit[l] ELSE 0]

Overdue(schedule1, e1, e2) == schedule1[e1.label] <= schedule1[e2.label]

\* Any order of the endpoints that no later one is more overdue in.
Passes(synced) ==
    {p \in SetToSeqs(held) :
       \A i, j \in DOMAIN p : i < j => Overdue(synced, p[i], p[j])}

StartPass ==
    /\ visiting = None /\ pass = <<>> /\ held # {}
    /\ HeldLabels \subseteq DOMAIN SyncSchedule
    /\ next_visit' = SyncSchedule
    /\ pass' \in Passes(SyncSchedule)
    /\ UNCHANGED <<held, paused, visiting, voice, moves, returned>>

\* _drain_management, of a roster that moves an endpoint, or of a pause.  A
\* Hub that holds nobody drains as well.
AtBoundary == visiting = None /\ (pass # <<>> \/ held = {})

Disable(e) ==
    /\ AtBoundary /\ e \in held /\ moves < MaxMoves /\ moves' = moves + 1
    /\ held' = held \ {e}
    /\ UNCHANGED <<paused, schedule, visiting, voice, returned>>

Enable(l) ==
    /\ AtBoundary /\ l \notin HeldLabels
    /\ held' = held \cup {Endpoint(l, moves)}
    /\ returned' = returned \cup {l}
    /\ UNCHANGED <<paused, schedule, visiting, voice, moves>>

Pause ==
    /\ AtBoundary /\ (paused \/ moves < MaxMoves)
    /\ moves' = IF paused THEN moves ELSE moves + 1
    /\ paused' = ~paused
    /\ UNCHANGED <<held, schedule, visiting, voice, returned>>

\* A turn of the loop that visits nobody: the sleep at its end is time.
Slept(synced) == [l \in DOMAIN synced |-> IF synced[l] = 0 THEN 0 ELSE synced[l] - 1]

Due(e) == ~paused /\ next_visit[e.label] = 0 /\ e \in held

PassBy ==
    /\ visiting = None /\ pass # <<>> /\ ~Due(Head(pass))
    /\ pass' = Tail(pass) /\ next_visit' = Slept(next_visit)
    /\ UNCHANGED <<held, paused, visiting, voice, moves, returned>>

-----------------------------------------------------------------------------
(* The visit.                                                              *)

\* _speak_version_of, with pacing put on radio and loop alike.
BeginVisit ==
    /\ visiting = None /\ pass # <<>> /\ Due(Head(pass))
    /\ visiting' = Head(pass).label
    /\ window' = visiting' /\ pacing' = visiting'
    /\ codec' = IF visiting' \in Old THEN visiting' ELSE "own"
    /\ UNCHANGED <<held, paused, schedule, moves, returned>>

\* _speak_own_version, and pacing before it.
SpeakOwn(fine) == codec' = "own" /\ window' = "own" /\ pacing' = "own"

\* The visit ends, or is thrown out of; either way its endpoint rests.
EndVisit(fine) ==
    /\ visiting # None
    /\ SpeakOwn(fine)
    /\ next_visit' = [Slept(next_visit) EXCEPT ![visiting] = Rest]
    /\ pass' = Tail(pass) /\ visiting' = None
    /\ returned' = returned \ {visiting}
    /\ UNCHANGED <<held, paused, moves>>

-----------------------------------------------------------------------------
Init ==
    /\ held = {Endpoint(l, 0) : l \in Labels} /\ paused = FALSE
    /\ next_visit = [l \in Labels |-> 0] /\ pass = <<>> /\ visiting = None
    /\ codec = "own" /\ window = "own" /\ pacing = "own"
    /\ moves = 0 /\ returned = {}

Loop == StartPass \/ PassBy \/ BeginVisit \/ \E fine \in BOOLEAN : EndVisit(fine)
Drains == (\E e \in held : Disable(e)) \/ (\E l \in Labels : Enable(l)) \/ Pause
Next == Loop \/ Drains

Spec == Init /\ [][Next]_vars
Fairness == WF_vars(Loop)
FairSpec == Spec /\ Fairness

-----------------------------------------------------------------------------
\* Between visits the Hub speaks its own version with its own pacing: a secure
\* Hub's sessions hang on its codec, whatever a visit in version 2 came to.
OwnVoiceBetweenVisits ==
    visiting = None => codec = "own" /\ window = "own" /\ pacing = "own"

\* No endpoint is passed over for ever: held and not paused for good, it is visited.
NobodyStarves ==
    \A l \in Labels :
        <>[](l \in HeldLabels /\ ~paused) => []<>(visiting = l)

\* An endpoint switched off and on again is due at once, as at boot.
DueOnReturn ==
    pass # <<>> /\ visiting = None /\ Len(pass) = Cardinality(held)
        => \A e \in held : e.label \in returned /\ (\E i \in DOMAIN pass : pass[i] = e)
              => next_visit[e.label] = 0
=============================================================================
