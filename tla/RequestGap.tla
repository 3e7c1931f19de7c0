----------------------------- MODULE RequestGap -----------------------------
(***************************************************************************)
(* The rest between two requests on a link: shorter after a run of         *)
(* successes, longer after a failure, back to what it was before a probe   *)
(* that failed.                                                            *)
(***************************************************************************)
EXTENDS Naturals

CONSTANTS
    successful_interactions_required, max_failures, exponential_backoff_threshold,
    max_sleep, AbsoluteMin,
    MaxFailedRounds      \* bound on failures; 0: none

VARIABLES
    sleep, observed_min_sleep, last_sleep_time,
    successes, failures, minimum_sleep_found, sleep_just_decreased,
    failed               \* history: rounds that failed, up to the bound

learned == <<observed_min_sleep, last_sleep_time, minimum_sleep_found, sleep_just_decreased>>
vars == <<sleep, learned, successes, failures, failed>>

Smaller(a, b) == IF a < b THEN a ELSE b
Larger(a, b) == IF a > b THEN a ELSE b

\* _increase_sleep: twice as long, or by a random factor under two.
Increased(s) ==
    IF s < exponential_backoff_threshold THEN {2 * s}
    ELSE {Smaller(t, max_sleep) : t \in s .. 2 * s - 1}

\* _decrease_sleep: four fifths of it, and where that goes the floor comes along.
Decreased(s) == Larger(AbsoluteMin, (4 * s) \div 5)
Floor(new) == IF minimum_sleep_found /\ new >= observed_min_sleep THEN observed_min_sleep ELSE new

\* Mutant of Probes: only the first success after a run of them probes.
Probes_Once(n) == n = successful_interactions_required /\ n > successes

\* A run of successes, and each success after it, probes a shorter rest.
Probes(n) == n = successful_interactions_required

\* on_success.
Succeed ==
    /\ successes' = Smaller(successes + 1, successful_interactions_required)
    /\ IF Probes(successes')
       THEN /\ last_sleep_time' = sleep /\ sleep_just_decreased' = TRUE /\ failures' = 0
            /\ observed_min_sleep' = Floor(Decreased(sleep))
            /\ sleep' = Larger(Decreased(sleep), observed_min_sleep')
       ELSE UNCHANGED <<sleep, last_sleep_time, sleep_just_decreased, failures, observed_min_sleep>>
    /\ UNCHANGED <<minimum_sleep_found, failed>>

\* on_failure: enough of them in a row pin the floor to the rest they came to.
Fail ==
    /\ MaxFailedRounds = 0 \/ failed < MaxFailedRounds
    /\ failed' = Smaller(failed + 1, MaxFailedRounds)
    /\ successes' = 0 /\ failures' = (failures + 1) % max_failures
    /\ IF sleep_just_decreased THEN sleep' = last_sleep_time ELSE sleep' \in Increased(sleep)
    /\ minimum_sleep_found' = (minimum_sleep_found \/ sleep_just_decreased)
    /\ sleep_just_decreased' = FALSE
    /\ observed_min_sleep' = IF failures' = 0 THEN sleep'
                             ELSE IF sleep_just_decreased THEN last_sleep_time
                             ELSE observed_min_sleep
    /\ UNCHANGED last_sleep_time

\* set_sleep_bounds: a fresh hunt, as at the start or after a radio change.
Init ==
    /\ sleep = AbsoluteMin /\ observed_min_sleep = max_sleep + 1 /\ last_sleep_time = sleep
    /\ successes = 0 /\ failures = 0 /\ failed = 0
    /\ minimum_sleep_found = FALSE /\ sleep_just_decreased = FALSE

Next == Succeed \/ Fail
Spec == Init /\ [][Next]_vars
\* The loop goes on: another round is asked for.
Fairness == WF_vars(Next)
FairSpec == Spec /\ Fairness

-----------------------------------------------------------------------------
\* A failure never shortens the rest.
FailureNeverHurries == [][Fail => sleep' >= sleep]_vars

\* Once rounds stop failing, the rest comes down to the least there is.
RestComesDown == <>[](sleep = AbsoluteMin)

\* "pin the floor to the current sleep so we stop probing below it"
PinnedFloorHolds == [][Succeed /\ minimum_sleep_found => sleep' >= observed_min_sleep]_vars
=============================================================================
