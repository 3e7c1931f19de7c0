------------------------------ MODULE MCRounds --------------------------------
(***************************************************************************)
(* Small instances of the components around a transfer that must get       *)
(* somewhere too: the trial of a radio configuration (RFTrial), the round  *)
(* of visits (Visits), what a Hub is told to run (Management), a radio     *)
(* behind a cable (Tunnel) and the rest between two requests (RequestGap). *)
(* Each is explored by itself; which one, `part` says from the first state *)
(* on.                                                                     *)
(***************************************************************************)
EXTENDS Naturals

CONSTANTS
    None,
    \* RFTrial
    Configs, Factory, Carries, NChunks, Window, CeilingWindows, SwapAfter,
    GiveUpAfter, RecoverAfter, Attempts, Secure, Lossy, MayIdle, MidFile,
    MaxChanges, MaxPlain, MaxEdgeReboots, MaxHubRestarts,
    \* Management
    Foreign, Ceiling, MaxWishes, MaxRefusals, MaxRosterFaults, MaxStateFaults,
    MaxRestarts,
    \* Tunnel
    BridgeConfigs, Home, Wrap, SilentBeforeRecovery, Tries, Streams, MayWedge,
    MayBeAnother, MaxStacked, MaxLosses, MaxImpatience

VARIABLES
    part,
    \* RFTrial
    view, roster, tuned, trial, status, downlink, mirror, pc, want, asks,
    state, next, asked, heard, alive, completed, session, silent, polled, cfg,
    last, conf, sf_trial, deadline, ceiling, rooted, keyed, file, announced,
    sent, proven, moved, astray, changes, plains, reboots, restarts,
    \* Visits
    held, paused, next_visit, pass, visiting, codec, window, pacing, moves,
    returned,
    \* Management
    wish, failures, due, slot, intent, manage_pc, manage_paused, acted,
    manage_held, manage_roster, manage_state, can, done, fired, manage_moved,
    manage_changes, refusals, rosterFaults, stateFaults, manage_restarts,
    \* Tunnel
    step, tunnel_want, tries, call, calls, tunnel_view, tunnel_silent,
    reading, board, radio, requests, replies, crossed, told, losses,
    impatience,
    \* RequestGap
    sleep, observed_min_sleep, last_sleep_time, successes, rest_failures,
    minimum_sleep_found, sleep_just_decreased, failed

\* What the cfg takes for Carries: from the factory configuration "f" to one that
\* carries as well ("a"), one that carries short frames only, one the Edge hears
\* and is not heard on, and one that carries nothing; the Edge always has a file
\* to give.
FiveWays == [c \in {"f", "a", "s", "r", "n"} |->
               CASE c = "s" -> "short" [] c = "r" -> "requests"
                 [] c = "n" -> "nothing" [] OTHER -> "all"]

\* A link that loses nothing but what a configuration cannot carry, and an
\* Edge reboot.
Retune == INSTANCE RFTrial

\* Two endpoints, one of protocol version 2, and two changes of the roster.
Round == INSTANCE Visits WITH
    Labels <- {"a", "b"}, Old <- {"b"}, Rest <- 3, MaxMoves <- 2

\* Two changes of the wish, a refusal, a failed write of the roster and a
\* restart.
Manage == INSTANCE Management WITH
    pc <- manage_pc, paused <- manage_paused, held <- manage_held, roster <-
    manage_roster, state <- manage_state, moved <- manage_moved, changes <-
    manage_changes, restarts <- manage_restarts

\* A cable that loses a frame, a board that may stop serving.
Bridge == INSTANCE Tunnel WITH
    Configs <- BridgeConfigs, want <- tunnel_want, view <- tunnel_view, silent
    <- tunnel_silent

\* The defaults of the code for runs of successes and failures; rests in
\* units of the least.
Rest == INSTANCE RequestGap WITH
    successful_interactions_required <- 2, max_failures <- 2,
    exponential_backoff_threshold <- 5, max_sleep <- 12, AbsoluteMin <- 1,
    MaxFailedRounds <- 4, failures <- rest_failures

\* What the theorems about these components take of their constants.
ASSUME RoundsAssumption ==
    /\ Retune!TrialAssumption
    /\ Manage!ManagementAssumption
    /\ Bridge!TunnelAssumption

retuneVars == <<
    view, roster, tuned, trial, status, downlink, mirror, pc, want, asks,
    state, next, asked, heard, alive, completed, session, silent, polled, cfg,
    last, conf, sf_trial, deadline, ceiling, rooted, keyed, file, announced,
    sent, proven, moved, astray, changes, plains, reboots, restarts>>
visitsVars == <<
    held, paused, next_visit, pass, visiting, codec, window, pacing, moves,
    returned>>
manageVars == <<
    wish, failures, due, slot, intent, manage_pc, manage_paused, acted,
    manage_held, manage_roster, manage_state, can, done, fired, manage_moved,
    manage_changes, refusals, rosterFaults, stateFaults, manage_restarts>>
tunnelVars == <<
    step, tunnel_want, tries, call, calls, tunnel_view, tunnel_silent,
    reading, board, radio, requests, replies, crossed, told, losses,
    impatience>>
restVars == <<
    sleep, observed_min_sleep, last_sleep_time, successes, rest_failures,
    minimum_sleep_found, sleep_just_decreased, failed>>
vars == <<part, retuneVars, visitsVars, manageVars, tunnelVars, restVars>>

Init ==
    /\ Retune!Init /\ Round!Init /\ Manage!Init /\ Bridge!Init /\ Rest!Init
    /\ part \in {"retune", "visits", "manage", "tunnel", "rest"}
    /\ part = "retune" \/ rooted
    /\ part = "manage" \/ can

RetuneStep ==
    /\ part = "retune" /\ Retune!Next
    /\ UNCHANGED <<part, visitsVars, manageVars, tunnelVars, restVars>>
RoundStep ==
    /\ part = "visits" /\ Round!Next
    /\ UNCHANGED <<part, retuneVars, manageVars, tunnelVars, restVars>>
ManageStep ==
    /\ part = "manage" /\ Manage!Next
    /\ UNCHANGED <<part, retuneVars, visitsVars, tunnelVars, restVars>>
BridgeStep ==
    /\ part = "tunnel" /\ Bridge!Next
    /\ UNCHANGED <<part, retuneVars, visitsVars, manageVars, restVars>>
RestStep ==
    /\ part = "rest" /\ Rest!Next
    /\ UNCHANGED <<part, retuneVars, visitsVars, manageVars, tunnelVars>>

Next ==
    \/ RetuneStep
    \/ RoundStep
    \/ ManageStep
    \/ BridgeStep
    \/ RestStep

\* Each under the fairness its own module states.
FairSpec ==
    /\ Init /\ [][Next]_vars
    /\ \/ part = "retune" /\ Retune!Loops
       \/ part = "visits" /\ Round!Fairness
       \/ part = "manage" /\ Manage!Fairness
       \/ part = "tunnel" /\ Bridge!Fairness
       \/ part = "rest" /\ Rest!Fairness

-----------------------------------------------------------------------------
\* Nothing is kept as known good that no full chunk ever crossed on.
OnlyProven == Retune!OnlyProven

\* A trial ends, polled or not, heard or not.
TrialEnds == part = "retune" => Retune!TrialEnds

\* Whatever the trial did, the Hub comes back to where the Edge is.
HubFindsEdge == part = "retune" => Retune!HubFindsEdge

\* An imperative is carried out at most once.
ActsOnce == part = "manage" => Manage!ActsOnce

\* The answer to a call given up is never taken for the answer to another, so
\* a visit is made where the board said its radio is.
OwnAnswers == part = "tunnel" => Bridge!OwnAnswers /\ Bridge!TunedByItsWord

\* Every endpoint held is visited again and again, whatever joins, leaves or
\* fails.
NobodyStarves == part = "visits" => Round!NobodyStarves

\* The Hub comes to run the last wish, whatever was lost, refused, restarted
\* or failed to be written.
Reconciles == part = "manage" => Manage!Reconciles

\* A board that stopped serving is brought back.
Recovers == part = "tunnel" => Bridge!Recovers

\* Once rounds stop failing, requests follow each other as fast as they may.
RestComesDown == part = "rest" => Rest!RestComesDown
=============================================================================
