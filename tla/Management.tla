------------------------------ MODULE Management ------------------------------
(***************************************************************************)
(* What a Hub should be running, and how it comes to run it (Nodes/Hub.py, *)
(* Management/).  A site holds a wish.  A worker thread asks for it again  *)
(* and again (HTTP_Management_Source._pump), leaves the newest answer in a *)
(* slot of one, and slows down when refused.  Between two visits the loop  *)
(* empties the slot (take_intent reads it and then clears it, so an answer *)
(* that lands in between is thrown away) and applies the wish in order:    *)
(* the pause, the roster file, the endpoints held, the one-shots.  The     *)
(* site always sends its whole wish, and that is the only retry there is.  *)
(*                                                                         *)
(* The wish is about this Hub's own node: whether it is polled, one        *)
(* setting of it, whether the Hub is paused, and the generation of one     *)
(* one-shot.  `foreign` is whether the document also enables a node that   *)
(* belongs to another Hub ("One document can describe a whole fleet").     *)
(***************************************************************************)
EXTENDS Naturals

CONSTANTS
  None,            \* no answer in the slot
  Foreign,         \* whether the wish also enables a node of another Hub
  Ceiling,         \* the longest wait a run of refusals leads to, in ticks
  MaxWishes,       \* bound: how often the operator changes the wish
  MaxRefusals,     \* bound: exchanges that bring no wish
  MaxRosterFaults, \* bound: writes of the roster file that fail
  MaxStateFaults,  \* bound: writes of the management state that fail
  MaxRestarts      \* bound: restarts of the Hub

VARIABLES
  wish,      \* what the site says: paused, on, setting, shot
  failures,  \* refusals in a row
  due,       \* ticks until the worker asks again
  slot,      \* Management_Source._intent
  intent,    \* the wish the loop is applying
  pc,        \* where the loop is
  paused,    \* Hub.paused
  acted,     \* Hub._acted, the generation last recorded
  held,      \* the setting of the endpoint object, None when there is none
  roster,    \* the node's entry in the roster file: on, setting
  state,     \* the management state file: paused, acted
  can,       \* something is registered for the one-shot
  done,      \* how often each generation was carried out
  fired,     \* the roster listeners were called by the last step
  moved,     \* the wish being applied has moved the roster file
  changes, refusals, rosterFaults, stateFaults, restarts

hub == <<intent, pc, paused, acted, held, roster, state, done, fired, moved>>
asker == <<failures, due, slot>>
faults == <<refusals, rosterFaults, stateFaults, restarts>>
vars == <<wish, failures, due, slot, intent, pc, paused, acted, held, roster,
          state, can, done, fired, moved, changes, refusals, rosterFaults,
          stateFaults, restarts>>

Wishes == [paused : BOOLEAN, on : BOOLEAN, setting : 1 .. 2, shot : Nat]

\* What every theorem about this module takes of its constants: the state file
\* can be written.
ManagementAssumption == MaxStateFaults = 0 /\ MaxWishes \in Nat /\ None \notin Wishes

TypeOK ==
  /\ wish \in Wishes
  /\ slot \in Wishes \cup {None} /\ intent \in Wishes \cup {None}
  /\ failures \in 0 .. Ceiling /\ due \in 0 .. Ceiling
  /\ pc \in {"loop", "clear", "pause", "roster", "endpoints", "record", "act"}
  /\ paused \in BOOLEAN /\ can \in BOOLEAN /\ fired \in BOOLEAN /\ moved \in BOOLEAN
  /\ held \in {None, 1, 2}
  /\ roster \in [on : BOOLEAN, setting : 1 .. 2]
  /\ state \in [paused : BOOLEAN, acted : Nat]
  /\ acted \in Nat /\ done \in [1 .. MaxWishes -> Nat]

Loaded(entry) == IF entry.on THEN entry.setting ELSE None

Init ==
  /\ wish = [paused |-> FALSE, on |-> TRUE, setting |-> 1, shot |-> 0]
  /\ failures = 0 /\ due = 0 /\ slot = None
  /\ intent = None /\ pc = "loop"
  /\ paused = FALSE /\ acted = 0
  /\ roster = [on |-> TRUE, setting |-> 1] /\ held = Loaded(roster)
  /\ state = [paused |-> FALSE, acted |-> 0]
  /\ can \in BOOLEAN
  /\ done = [g \in 1 .. MaxWishes |-> 0]
  /\ fired = FALSE /\ moved = FALSE
  /\ changes = 0 /\ refusals = 0 /\ rosterFaults = 0 /\ stateFaults = 0
  /\ restarts = 0

-----------------------------------------------------------------------------
(* The operator, and the program the Hub runs in. *)

Change ==
  /\ changes < MaxWishes
  /\ changes' = changes + 1
  /\ wish' \in {[wish EXCEPT !.paused = ~@], [wish EXCEPT !.on = ~@],
                [wish EXCEPT !.setting = 3 - @], [wish EXCEPT !.shot = @ + 1]}
  /\ UNCHANGED <<asker, hub, can, faults>>

Register ==
  /\ ~can /\ can' = TRUE
  /\ UNCHANGED <<wish, asker, hub, changes, faults>>

-----------------------------------------------------------------------------
(* The worker. *)

\* Twice as long for every refusal in a row, up to the ceiling.
Wait[n \in Nat] ==
  CASE n = 0                    -> 1
    [] n > 0 /\ 2 * Wait[n - 1] > Ceiling -> Ceiling
    [] OTHER                    -> 2 * Wait[n - 1]

Tick == /\ due > 0 /\ due' = due - 1
        /\ UNCHANGED <<wish, failures, slot, hub, can, changes, faults>>

Ask == /\ due = 0
       /\ slot' = wish /\ failures' = 0 /\ due' = Wait[0]
       /\ UNCHANGED <<wish, hub, can, changes, faults>>

\* The site is down, refuses, or answers with something that is no wish.
Refused ==
  /\ due = 0 /\ refusals < MaxRefusals
  /\ refusals' = refusals + 1
  /\ failures' = IF Wait[failures] < Ceiling THEN failures + 1 ELSE failures
  /\ due' = Wait[failures']
  /\ UNCHANGED <<wish, slot, hub, can, changes, rosterFaults, stateFaults, restarts>>

-----------------------------------------------------------------------------
(* The loop, between two visits. *)

\* Hub._save_management_state: a failed write leaves the old file.
Save(p, a) ==
  \/ /\ state' = [paused |-> p, acted |-> a] /\ UNCHANGED stateFaults
  \/ /\ stateFaults < MaxStateFaults
     /\ stateFaults' = stateFaults + 1 /\ UNCHANGED state

Take ==
  /\ pc = "loop" /\ slot # None
  /\ intent' = slot /\ pc' = "clear" /\ fired' = FALSE
  /\ UNCHANGED <<wish, asker, paused, acted, held, roster, state, can, done,
                 moved, changes, faults>>

Clear ==
  /\ pc = "clear" /\ pc' = "pause" /\ slot' = None
  /\ UNCHANGED <<wish, failures, due, intent, paused, acted, held, roster,
                 state, can, done, fired, moved, changes, faults>>

ApplyPause ==
  /\ pc = "pause" /\ pc' = "roster"
  /\ IF intent.paused = paused
       THEN UNCHANGED <<paused, state, stateFaults>>
       ELSE paused' = intent.paused /\ Save(intent.paused, acted)
  /\ UNCHANGED <<wish, asker, intent, acted, held, roster, can, done, fired,
                 moved, changes, refusals, rosterFaults, restarts>>

\* Hub._overlay_roster: the file first, since it is what the next re-read and
\* the next boot will believe.  A failed write is said to have moved nothing.
OverlayRoster ==
  LET asked == [on |-> intent.on, setting |-> intent.setting] IN
  /\ pc = "roster" /\ pc' = "endpoints"
  /\ \/ /\ roster' = asked /\ moved' = (roster # asked)
        /\ UNCHANGED rosterFaults
     \/ /\ roster # asked /\ rosterFaults < MaxRosterFaults
        /\ rosterFaults' = rosterFaults + 1
        /\ moved' = FALSE /\ UNCHANGED roster
  /\ UNCHANGED <<wish, asker, intent, paused, acted, held, state, can, done,
                 fired, changes, refusals, stateFaults, restarts>>

\* An endpoint held is moved or retired; one that is not held and asked for
\* comes back through the file.
Reread == (intent.on /\ held = None) \/ Foreign

Matched_HeldOnly ==
  IF held # None /\ intent.on THEN intent.setting ELSE None

Matched ==
  CASE held # None /\ ~intent.on -> None
    [] held # None /\ intent.on  -> intent.setting
    [] held = None /\ Reread     -> Loaded(roster)
    [] OTHER                     -> None

MovesSomething ==
  \/ moved
  \/ held # None /\ held # intent.setting
  \/ held # None /\ ~intent.on
  \/ Reread

MoveEndpoints ==
  /\ pc = "endpoints" /\ pc' = "record"
  /\ held' = Matched
  /\ fired' = MovesSomething
  /\ moved' = FALSE
  /\ UNCHANGED <<wish, asker, intent, paused, acted, roster, state, can, done,
                 changes, faults>>

Record_InRAM ==
  /\ pc = "record" /\ fired' = FALSE
  /\ IF can /\ intent.shot > acted
       THEN acted' = intent.shot /\ pc' = "act"
       ELSE pc' = "loop" /\ UNCHANGED acted
  /\ UNCHANGED <<wish, asker, intent, paused, held, roster, state, can, done,
                 moved, changes, faults>>

\* Hub._run_one_shots records before it runs.
Record ==
  /\ pc = "record" /\ fired' = FALSE
  /\ IF can /\ intent.shot > acted
       THEN /\ acted' = intent.shot /\ Save(paused, intent.shot) /\ pc' = "act"
       ELSE /\ pc' = "loop" /\ UNCHANGED <<acted, state, stateFaults>>
  /\ UNCHANGED <<wish, asker, intent, paused, held, roster, can, done, moved,
                 changes, refusals, rosterFaults, restarts>>

Act ==
  /\ pc = "act" /\ pc' = "loop"
  /\ done' = [done EXCEPT ![acted] = @ + 1]
  /\ UNCHANGED <<wish, asker, intent, paused, acted, held, roster, state, can,
                 fired, moved, changes, faults>>

\* A restart: the slot, the wish in hand and the worker's count are gone; the
\* endpoints are read from the roster file and the rest from the state file.
Restart ==
  /\ restarts < MaxRestarts
  /\ restarts' = restarts + 1
  /\ slot' = None /\ failures' = 0 /\ due' = 0
  /\ intent' = None /\ pc' = "loop" /\ fired' = FALSE /\ moved' = FALSE
  /\ paused' = state.paused /\ acted' = state.acted
  /\ held' = Loaded(roster)
  /\ UNCHANGED <<wish, roster, state, can, done, changes, refusals,
                 rosterFaults, stateFaults>>

Drain == Take \/ Clear \/ ApplyPause \/ OverlayRoster \/ MoveEndpoints \/ Record \/ Act

Next == Change \/ Register \/ Tick \/ Ask \/ Refused \/ Drain \/ Restart

Spec == Init /\ [][Next]_vars

\* The visit loop comes back to its drain and the worker keeps ticking.
Fairness == WF_vars(Drain) /\ WF_vars(Tick) /\ WF_vars(Ask)

FairSpec == Spec /\ Fairness

-----------------------------------------------------------------------------
\* An imperative is carried out at most once per generation, across restarts
\* (Hub._run_one_shots: recorded before it runs).
ActsOnce == \A g \in DOMAIN done : done[g] <= 1

\* A Hub told to hold still stays still until it is told otherwise, whatever
\* restarts in between: nobody comes back live with somebody at the antenna
\* (Hub._load_management_state).
ResumesOnlyWhenTold ==
  [][paused /\ ~paused' => pc = "pause" /\ ~intent.paused]_vars

\* The listeners are called only when the roster has moved, never for a wish
\* that repeats what is running (Hub.register_roster_listener).
QuietWhenNothingMoved ==
  [][fired' /\ ~fired => moved \/ held' # held]_vars

\* Once the operator stops changing it, the Hub comes to run the wish and goes
\* on running it, whatever was lost, refused, restarted or failed to be
\* written on the way.
Reconciles ==
  <>[](/\ paused = wish.paused
       /\ held = (IF wish.on THEN wish.setting ELSE None)
       /\ roster = [on |-> wish.on, setting |-> wish.setting]
       /\ can => acted = wish.shot)
=============================================================================
