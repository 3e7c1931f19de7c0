----------------------------- MODULE LinkPacing -----------------------------
(***************************************************************************)
(* How long the Hub waits for a reply on each of its links.  One radio is  *)
(* retuned from visit to visit; the bounds of a wait follow from its       *)
(* configuration and the frames sent on it, and what was learned between   *)
(* them belongs to the link: the radio holds the pacing of the link        *)
(* visited, and the Hub's own between visits.                              *)
(***************************************************************************)
EXTENDS Naturals

CONSTANTS
    Links, Old,        \* endpoints, and those on version 2 firmware
    None, Own,
    Configs, Home,     \* radio configurations [sf, bw], and the Hub's
    Air(_),            \* airtime of the largest frame, of a configuration
    Saves,             \* what a frame of version 2 is shorter by
    Delta,             \* timeout_delta
    Replies,           \* times a reply can take, from the question on
    MaxMoves, MaxFaults

VARIABLES
    at,            \* the configuration of each endpoint
    radio,
    frame,         \* frame_size, "own" or "old"
    min_timeout,   \* of the connector: that of its last update_timeouts
    pacing,        \* of each link, and of the Hub
    held,          \* whose pacing radio and drive loop hold
    phase, tries,  \* of the visit
    focus,         \* the window listened in
    moves, faults,
    learned        \* history: what each link's visits last left, or None

rf == <<radio, frame, min_timeout>>
visit == <<held, phase, tries>>
budget == <<moves, faults>>
vars == <<at, rf, pacing, visit, focus, budget, learned>>

Smaller(a, b) == IF a < b THEN a ELSE b
Larger(a, b) == IF a > b THEN a ELSE b

-----------------------------------------------------------------------------
(* The wait.                                                               *)

\* calculate_toa and update_timeouts: the floor is what the frames sent cost,
\* the ceiling what the radio can put in front of it.
MinTimeout(c, size) == Air(c) - (IF size = "old" THEN Saves ELSE 0) + Delta
MaxTimeout(c) == 2 * Air(c) + Delta

\* set_bounds: bounds that did not move leave the window alone.
Bound(p, lo, hi) ==
    IF p.min = lo /\ p.max = hi THEN p
    ELSE [p EXCEPT !.min = lo, !.max = hi, !.window = hi]

\* on_timeout: by a random factor under two.
Grown(p) ==
    {[p EXCEPT !.window = Smaller(w, p.max)] :
       w \in p.window .. Larger(2 * p.window - 1, p.window)}

\* on_reply: a fifth of the way toward the round trip.
Tightened(p, td) ==
    [p EXCEPT !.seen = Smaller(p.seen, td),
              !.window = Larger((4 * p.window + td) \div 5,
                                Larger(p.min, Smaller(p.seen, td)))]

\* Pacing() and its first bounds; nothing was seen yet.
Fresh(lo, hi) == [min |-> lo, max |-> hi, window |-> hi, seen |-> hi + 1]

-----------------------------------------------------------------------------
(* A visit.                                                                *)

\* _visit, _fresh_link_pacing and _speak_version_of.
BeginVisit(l) ==
    /\ phase = "between"
    /\ held' = l /\ phase' = "tuning" /\ tries' = 3
    /\ pacing' = IF pacing[l] # None THEN pacing
                 ELSE [pacing EXCEPT ![l] = Fresh(pacing[Own].min, pacing[Own].max)]
    /\ UNCHANGED <<at, rf, focus, budget, learned>>

\* prepare_connector of the Hub: on version 2 the frame size is published anew.
Publish(size, c, ps) ==
    /\ frame' = size /\ min_timeout' = MinTimeout(c, size)
    /\ pacing' = [ps EXCEPT ![held'] = Bound(ps[held'], MinTimeout(c, size), MaxTimeout(c))]

Prepared(c, ps) == IF held \in Old THEN Publish("old", c, ps) ELSE Publish(frame, c, ps)

\* The radio is on the endpoint's configuration, and nothing is set.
AlreadyThere ==
    /\ phase = "tuning" /\ radio = at[held] /\ tries = 3
    /\ phase' = "ready" /\ held' = held
    /\ IF held \in Old THEN Publish("old", radio, pacing)
       ELSE UNCHANGED <<frame, min_timeout, pacing>>
    /\ UNCHANGED <<at, radio, tries, focus, budget, learned>>

\* change_rf_config: setters in their order; one that takes no effect goes
\* unnoticed, one that raises has what was before restored, until that takes.
\* The window bounds follow, of whichever pacing the radio holds.
Set(c, outcome) ==
    CASE outcome = "took" -> c
      [] outcome = "bandwidth refused" -> [c EXCEPT !.bw = radio.bw]
      [] OTHER -> radio

\* The Hub's own codec is not the one of version 2: frames are its own size till
\* the retune is done.
Retune(outcome) ==
    LET c == Set(at[held], outcome)
        set == [pacing EXCEPT ![held] = Bound(@, MinTimeout(c, frame), MaxTimeout(c))]
        there == outcome # "raised" /\ c = at[held]
    IN  /\ phase = "tuning" /\ radio # at[held] /\ tries > 0
        /\ outcome = "took" \/ faults < MaxFaults
        /\ faults' = IF outcome = "took" THEN faults ELSE faults + 1
        /\ radio' = c /\ held' = held
        /\ phase' = IF there THEN "ready" ELSE IF tries = 1 THEN "leaving" ELSE "tuning"
        /\ tries' = IF there THEN tries ELSE tries - 1
        /\ IF there \/ tries = 1 THEN Prepared(c, set)
           ELSE frame' = frame /\ min_timeout' = MinTimeout(c, frame) /\ pacing' = set
        /\ learned' = IF outcome = "took" THEN learned ELSE [learned EXCEPT ![held] = None]
        /\ UNCHANGED <<at, focus, moves>>

-----------------------------------------------------------------------------
(* A round: send_and_wait_response and what it teaches.                    *)

Ask ==
    /\ phase = "ready"
    /\ phase' = "listening" /\ focus' = pacing[held].window
    /\ UNCHANGED <<at, rf, pacing, held, tries, budget, learned>>

\* The round is over, having taught `ps` of the window.
RoundOver(ps) ==
    /\ phase' = "ready" /\ focus' = 0
    /\ \E p \in ps : pacing' = [pacing EXCEPT ![held] = p]
    /\ UNCHANGED <<at, rf, held, tries, budget, learned>>

Silence ==
    /\ phase = "listening"
    /\ RoundOver(Grown(pacing[held]))

\* A reply, of a chunk or of less: only the first says what a round trip takes.
Reply(td, chunk) ==
    /\ phase = "listening" /\ td <= focus
    /\ RoundOver({IF chunk THEN Tightened(pacing[held], td) ELSE pacing[held]})

\* Not sent, or dropped by the radio or by the codec: the window is left alone.
Damaged ==
    /\ phase = "listening"
    /\ RoundOver({pacing[held]})

\* Another's frame: wait on, for what the window has left of this frame's wait,
\* unless that is under the connector's floor.
Foreign(td) ==
    /\ phase = "listening" /\ td <= focus
    /\ IF pacing[held].window < td + min_timeout THEN RoundOver({pacing[held]})
       ELSE /\ focus' = pacing[held].window - td
            /\ UNCHANGED <<at, rf, pacing, visit, budget, learned>>

Leave ==
    /\ phase = "ready"
    /\ phase' = "leaving"
    /\ UNCHANGED <<at, rf, pacing, held, tries, focus, budget, learned>>

\* Mutant of SpeakOwn: the frame size goes back while the radio holds the link's pacing.
SpeakOwn_First(was) ==
    /\ frame' = "own" /\ min_timeout' = MinTimeout(radio, "own")
    /\ pacing' = [pacing EXCEPT ![was] = Bound(@, MinTimeout(radio, "own"), MaxTimeout(radio))]

\* _speak_own_version: the bounds that move are the Hub's.
SpeakOwn(was) ==
    /\ frame' = "own" /\ min_timeout' = MinTimeout(radio, "own")
    /\ pacing' = [pacing EXCEPT ![Own] = Bound(@, MinTimeout(radio, "own"), MaxTimeout(radio))]

EndVisit ==
    /\ phase = "leaving" /\ phase' = "between" /\ held' = Own /\ tries' = 0
    /\ IF held \in Old THEN SpeakOwn(held)
       ELSE UNCHANGED <<frame, min_timeout, pacing>>
    /\ learned' = [learned EXCEPT ![held] =
                     IF radio # at[held] THEN None
                     ELSE [config |-> radio, pacing |-> pacing[held]]]
    /\ UNCHANGED <<at, radio, focus, budget>>

\* A change of radio configuration the Hub followed an endpoint in.
Moves(l, c) ==
    /\ phase = "between" /\ moves < MaxMoves /\ moves' = moves + 1
    /\ at[l] # c /\ at' = [at EXCEPT ![l] = c]
    /\ UNCHANGED <<rf, pacing, visit, focus, faults, learned>>

-----------------------------------------------------------------------------
Init ==
    /\ at \in [Links -> Configs]
    /\ radio = Home /\ frame = "own"
    /\ min_timeout = MinTimeout(Home, "own")
    /\ pacing = [o \in Links \cup {Own} |->
                   IF o = Own THEN Fresh(MinTimeout(Home, "own"), MaxTimeout(Home)) ELSE None]
    /\ held = Own /\ phase = "between" /\ tries = 0
    /\ focus = 0 /\ moves = 0 /\ faults = 0
    /\ learned = [l \in Links |-> None]

Round ==
    \/ Ask \/ Silence \/ Damaged
    \/ \E td \in Replies : Foreign(td) \/ \E chunk \in BOOLEAN : Reply(td, chunk)
Tuning ==
    \/ AlreadyThere
    \/ \E o \in {"took", "bandwidth refused", "raised"} : Retune(o)
Next ==
    \/ (\E l \in Links : BeginVisit(l) \/ \E c \in Configs : Moves(l, c))
    \/ Tuning \/ Round \/ Leave \/ EndVisit

Spec == Init /\ [][Next]_vars

-----------------------------------------------------------------------------
\* A window is never under what a frame sent costs, nor over what the radio can
\* put in front of it: whatever was seen on another configuration.
WindowInBounds ==
    \A o \in Links \cup {Own} :
        pacing[o] # None => pacing[o].min <= pacing[o].window /\ pacing[o].window <= pacing[o].max

\* A link that did not move is taken up where its last visit left it, whoever
\* the radio was retuned for in between (or, on version 2, if it need not be
\* retuned now: a retune starts a link anew whose frames are of another size).
KeepsWhatItLearned ==
    [][phase = "tuning" /\ phase' = "ready" /\ (held \in Old => radio' = radio)
         => learned[held] = None \/ learned[held].config # radio'
              \/ pacing'[held] = learned[held].pacing]_vars

\* The window of a visit is bounded by the airtime of the configuration it is on.
BoundsFollowTheRadio ==
    phase = "ready" => pacing[held].max = MaxTimeout(radio)
=============================================================================
