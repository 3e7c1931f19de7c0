------------------------------- MODULE Reporting -------------------------------
(***************************************************************************)
(* The live status of a node on its way to a web service                   *)
(* (Management/HTTP_Status_Subscriber.py, Status.py).  The radio loop      *)
(* leaves its newest snapshot in a slot of one; a worker that wakes every  *)
(* tick claims it and posts it, at once when it is a transition and at the *)
(* next interval when it is not, and otherwise repeats what the site last  *)
(* accepted.  A refusal doubles the wait, or sets it to what the site      *)
(* named, and no transition jumps it.                                      *)
(*                                                                         *)
(* A snapshot is its number; odd and even ones differ in node, file or     *)
(* state (the key), so that going from n to n + 1 is a transition and from *)
(* n to n + 2 is ordinary progress.                                        *)
(***************************************************************************)
EXTENDS Naturals

CONSTANTS
  None,         \* an empty slot
  Interval,     \* interval_ms, in worker ticks
  Ceiling,      \* _MAX_BACKOFF_MS, in worker ticks
  Named,        \* the waits a site may name in a Retry-After, in worker ticks
  MaxSnapshots, \* bound: snapshots the node takes
  MaxRefusals   \* bound: posts that are refused or reach nobody

VARIABLES
  taken,     \* the last snapshot the node took
  pending,   \* the slot
  pc,        \* where the worker is
  inHand,    \* the snapshot the worker is sending
  lastSent,  \* the last snapshot the site accepted, what the heartbeat repeats
  since,     \* worker ticks since the last attempt, up to Longest
  failures,  \* refusals in a row
  named,     \* the wait the site asked for, 0 when it asked for none
  owed,      \* the wait the last refusal imposed, 0 after an acceptance
  refusals

vars == <<taken, pending, pc, inHand, lastSent, since, failures, named, owed, refusals>>

Longest == CHOOSE m \in Named \cup {Ceiling} : \A n \in Named \cup {Ceiling} : n <= m

TypeOK ==
  /\ taken \in 0 .. MaxSnapshots
  /\ {pending, inHand, lastSent} \subseteq (1 .. MaxSnapshots) \cup {None}
  /\ pc \in {"idle", "claim", "post"}
  /\ since \in 0 .. Longest /\ owed \in 0 .. Longest
  /\ failures \in 0 .. Ceiling /\ named \in Named \cup {0}

Init ==
  /\ taken = 0 /\ pending = None /\ pc = "idle" /\ inHand = None
  /\ lastSent = None /\ since = Longest /\ failures = 0 /\ named = 0
  /\ owed = 0 /\ refusals = 0

\* What makes a snapshot worth sending at once.
Key(n) == IF n = None THEN None ELSE n % 2

BackingOff == failures > 0 \/ named > 0

\* Twice as long again for every refusal in a row, up to the ceiling.
Doubled[n \in Nat] ==
  CASE n = 0                              -> Interval
    [] n > 0 /\ 2 * Doubled[n - 1] > Ceiling -> Ceiling
    [] OTHER                              -> 2 * Doubled[n - 1]

WaitFor(n, asked) == IF asked > 0 THEN asked ELSE Doubled[n]
Elapsed == since >= WaitFor(failures, named)

Urgent == Key(pending) # Key(lastSent) /\ ~BackingOff

\* HTTP_Status_Subscriber.update, called in the radio loop: the newest wins.
Update ==
  /\ taken < MaxSnapshots
  /\ taken' = taken + 1 /\ pending' = taken + 1
  /\ UNCHANGED <<pc, inHand, lastSent, since, failures, named, owed, refusals>>

Tick ==
  /\ pc = "idle"
  /\ since' = IF since < Longest THEN since + 1 ELSE since
  /\ UNCHANGED <<taken, pending, pc, inHand, lastSent, failures, named, owed, refusals>>

\* The heartbeat: nothing new, and the interval has passed.
MayRepeat == lastSent # None /\ Elapsed

Repeat ==
  /\ pc = "idle" /\ pending = None /\ MayRepeat
  /\ inHand' = lastSent /\ pc' = "post" /\ since' = 0
  /\ UNCHANGED <<taken, pending, lastSent, failures, named, owed, refusals>>

\* The snapshot is read, found worth sending, and only then claimed; one
\* that the radio loop writes in between is lost with the claim.
Look ==
  /\ pc = "idle" /\ pending # None
  /\ Urgent \/ Elapsed
  /\ inHand' = pending /\ pc' = "claim"
  /\ UNCHANGED <<taken, pending, lastSent, since, failures, named, owed, refusals>>

Claim ==
  /\ pc = "claim"
  /\ pending' = None /\ pc' = "post" /\ since' = 0
  /\ UNCHANGED <<taken, inHand, lastSent, failures, named, owed, refusals>>

Accepted ==
  /\ pc = "post"
  /\ pc' = "idle" /\ lastSent' = inHand /\ inHand' = None
  /\ failures' = 0 /\ named' = 0 /\ owed' = 0
  /\ UNCHANGED <<taken, pending, since, refusals>>

\* A refusal that may name a wait, or nobody reached (asked = 0).  What was
\* being sent is not kept.
Refused ==
  /\ pc = "post" /\ refusals < MaxRefusals
  /\ \E asked \in Named \cup {0} :
       /\ named' = asked
       /\ failures' = IF WaitFor(failures, asked) < Ceiling THEN failures + 1 ELSE failures
       /\ owed' = WaitFor(failures', asked)
  /\ refusals' = refusals + 1
  /\ pc' = "idle" /\ inHand' = None
  /\ UNCHANGED <<taken, pending, lastSent, since>>

Worker == Repeat \/ Look \/ Claim \/ Accepted \/ Refused

Next == Update \/ Tick \/ Worker

Spec == Init /\ [][Next]_vars

\* The worker wakes every tick, and a post comes back.
Fairness == WF_vars(Tick) /\ WF_vars(Worker)

FairSpec == Spec /\ Fairness

-----------------------------------------------------------------------------
\* A site that said no is not asked again before the wait it earned, whatever
\* transitions the node goes through meanwhile (_backing_off, _attempt).
RefusalSlows == [][pc = "idle" /\ pc' # "idle" => since >= owed]_vars

\* Once the site has accepted anything it keeps hearing from the node: a
\* resting node, or a spell of refusals, never makes it fall silent (_tick).
KeepsHeard == lastSent # None ~> pc = "post"

\* Once the node rests, the site comes to hold its newest snapshot ("Only the
\* newest snapshot is kept, and it is resent at each interval",
\* HTTP_Status_Subscriber.py:4).
NewestArrives == taken > 0 ~> lastSent = taken
=============================================================================
