------------------------------- MODULE Tunnel -------------------------------
(***************************************************************************)
(* A node whose radio is on another board.  Radio verbs cross a cable as   *)
(* numbered calls; the board serves them in order and answers each once.   *)
(* A node that gave a call up may still be answered later, so an answer is *)
(* matched to its call by number.  Before each visit the node asks where   *)
(* the radio is and moves it if need be; a board that has been silent for  *)
(* several calls is rebooted and its cable reopened.                       *)
(***************************************************************************)
EXTENDS Naturals, Sequences

CONSTANTS
    Configs, Home,           \* radio configurations; the one the board boots on
    None,
    Wrap,                    \* REQ_ID_WRAP
    SilentBeforeRecovery,    \* LINK_FAILURES_BEFORE_RECOVERY
    Tries,                   \* of prepare_connector to move the radio
    Streams,                 \* a serial cable; over HTTP an answer ends with its call
    MayWedge,                \* may the board stop serving until it is rebooted
    MayBeAnother,            \* may another board come up on the cable's path
    MaxStacked,              \* calls the board has not read yet
    MaxLosses, MaxImpatience \* frames lost; deadlines ahead of the answer

\* What every theorem about this module takes of its constants: no two calls
\* the board may still answer have one number.
TunnelAssumption == Wrap \in Nat \ {0} /\ MaxStacked \in Nat /\ MaxStacked <= Wrap

VARIABLES
    step,            \* "rest", then "compare", "set", "verify" of a visit's
                     \* preparation, then "visit"
    want, tries,     \* the visit's configuration, attempts made at it
    call, calls,     \* the call in flight; how many were made, modulo 2 * Wrap
    view,            \* the configuration this half goes by
    silent,          \* _link_failures
    reading,         \* _last_rssi: was a frame heard, None when nothing was
    board, radio,    \* "ours", "wedged" or "another"; where its radio is
    requests, replies,   \* the two directions of the cable
    \* history: an answer to another call was taken; the board itself said
    \* where its radio is, and has not been rebooted since
    crossed, told,
    losses, impatience

host == <<step, want, tries, call, calls, view, silent, reading>>
bridge == <<board, radio>>
cable == <<requests, replies>>
history == <<crossed, told>>
bounds == <<losses, impatience>>
vars == <<host, bridge, cable, history, bounds>>

Id(n) == n % Wrap
Verb == CASE step \in {"compare", "verify"} -> "get" [] step = "set" -> "set"
          [] OTHER -> "exchange"

-----------------------------------------------------------------------------
(* This half.                                                              *)

\* prepare_connector, for a visit to an endpoint on c.
Prepare(c) ==
    /\ step = "rest" /\ step' = "compare" /\ want' = c /\ tries' = 0
    /\ told' = FALSE
    /\ UNCHANGED <<call, calls, view, silent, reading, bridge, cable, crossed, bounds>>

\* A call drops what has come in already, and is written.
Call ==
    /\ step # "rest" /\ call = None /\ Len(requests) < MaxStacked
    /\ calls' = (calls + 1) % (2 * Wrap)
    /\ call' = [n |-> calls', verb |-> Verb, cfg |-> want]
    /\ requests' = Append(requests, call') /\ replies' = <<>>
    /\ UNCHANGED <<step, want, tries, view, silent, reading, bridge, history, bounds>>

Missed ==
    /\ tries' = tries + 1
    /\ step' = IF tries + 1 = Tries THEN "rest" ELSE "set"

\* Where the radio is, as far as this call could tell.
Located(cfg) ==
    CASE cfg = want -> step' = "visit" /\ UNCHANGED tries
      [] cfg # want /\ step = "compare" -> step' = "set" /\ UNCHANGED tries
      [] OTHER -> Missed

\* What the call in flight came to; None is no answer, or one it cannot use.
Outcome(val) ==
    /\ call' = None /\ UNCHANGED <<want, calls>>
    /\ CASE call.verb = "get" ->
              /\ Located(IF val = None THEN view ELSE val)
              /\ told' = (val # None) /\ UNCHANGED <<view, reading>>
         [] call.verb = "set" /\ val = want ->
              /\ view' = want /\ step' = "verify" /\ UNCHANGED <<tries, reading, told>>
         [] call.verb = "set" /\ val # want ->
              Missed /\ UNCHANGED <<view, reading, told>>
         [] OTHER ->
              /\ reading' = val /\ step' = "rest" /\ UNCHANGED <<tries, view, told>>

\* Mutant of Answers: what comes in first is the answer.
Answers_First(reply) == TRUE

Answers(reply) == Id(reply.n) = Id(call.n)

Take ==
    /\ call # None /\ replies # <<>> /\ replies' = Tail(replies)
    /\ IF Answers(Head(replies))
       THEN /\ Outcome(IF Head(replies).verb = call.verb THEN Head(replies).val ELSE None)
            /\ silent' = 0
            /\ crossed' = (crossed \/ Head(replies).n # call.n)
       ELSE UNCHANGED <<host, history>>
    /\ UNCHANGED <<requests, bridge, bounds>>

\* Mutant of Silent: a deadline passed is a lost frame and no more.
Silent_Uncounted == UNCHANGED <<silent, board, radio, requests, replies>>

\* Enough deadlines in a row and the board is rebooted, the cable reopened.
\* The identity of the board found there is looked at, and is only noted.
Silent ==
    IF silent + 1 < SilentBeforeRecovery
    THEN silent' = silent + 1 /\ UNCHANGED <<board, radio, requests, replies>>
    ELSE /\ silent' = 0
         /\ board' \in (IF MayBeAnother THEN {"ours", "another"} ELSE {"ours"})
         /\ radio' = Home /\ requests' = <<>> /\ replies' = <<>>

Answerable == (board # "wedged" /\ requests # <<>>) \/ replies # <<>>

Deadline ==
    /\ call # None
    /\ (~Answerable \/ impatience < MaxImpatience)
    /\ impatience' = IF Answerable THEN impatience + 1 ELSE impatience
    /\ Silent
    /\ CASE call.verb = "get" ->
              Located(view) /\ told' = FALSE /\ UNCHANGED <<view, reading>>
         [] call.verb = "set" ->
              Missed /\ UNCHANGED <<view, reading>> /\ told' = (told /\ silent' > silent)
         [] OTHER ->
              /\ reading' = None /\ step' = "rest" /\ UNCHANGED <<tries, view>>
              /\ told' = (told /\ silent' > silent)
    /\ call' = None
    /\ UNCHANGED <<want, calls, crossed, losses>>

-----------------------------------------------------------------------------
(* The board: one verb, one answer.                                        *)

Reply(request, val) ==
    IF Streams \/ call = request
    THEN replies' = Append(replies, [n |-> request.n, verb |-> request.verb, val |-> val])
    ELSE UNCHANGED replies

ServeGet ==
    /\ Head(requests).verb = "get"
    /\ Reply(Head(requests), radio) /\ UNCHANGED radio

\* A radio that refuses is put back where it was.
ServeSet(refused) ==
    /\ Head(requests).verb = "set"
    /\ Reply(Head(requests), IF refused THEN None ELSE Head(requests).cfg)
    /\ radio' = IF refused THEN radio ELSE Head(requests).cfg

\* Whether a frame came back within the window.
ServeExchange(heard) ==
    /\ Head(requests).verb = "exchange"
    /\ Reply(Head(requests), IF heard THEN TRUE ELSE None) /\ UNCHANGED radio

Serve(bit) ==
    /\ requests # <<>> /\ board # "wedged"
    /\ requests' = Tail(requests)
    /\ ServeGet \/ ServeSet(bit) \/ ServeExchange(bit)
    /\ UNCHANGED <<host, board, history, bounds>>

Wedge ==
    /\ MayWedge /\ board = "ours" /\ board' = "wedged"
    /\ UNCHANGED <<host, radio, cable, history, bounds>>

\* A frame is lost or garbled on the cable.
Lose ==
    /\ losses < MaxLosses /\ losses' = losses + 1
    /\ \/ requests # <<>> /\ requests' = Tail(requests) /\ UNCHANGED replies
       \/ replies # <<>> /\ replies' = Tail(replies) /\ UNCHANGED requests
    /\ UNCHANGED <<host, bridge, history, impatience>>

-----------------------------------------------------------------------------
Init ==
    /\ step = "rest" /\ want = Home /\ tries = 0 /\ call = None /\ calls = 0
    /\ view = Home /\ silent = 0 /\ reading = None
    /\ board = "ours" /\ radio = Home /\ requests = <<>> /\ replies = <<>>
    /\ crossed = FALSE /\ told = FALSE /\ losses = 0 /\ impatience = 0

Node == (\E c \in Configs : Prepare(c)) \/ Call \/ Take \/ Deadline
Bridge == \E bit \in BOOLEAN : Serve(bit)
Next == Node \/ Bridge \/ Wedge \/ Lose

Spec == Init /\ [][Next]_vars
\* The node's loop goes on visiting, the board's goes on serving.
Fairness == WF_vars(Node) /\ WF_vars(Bridge)
FairSpec == Spec /\ Fairness

-----------------------------------------------------------------------------
\* The answer to a call given up is never taken for the answer to another.
OwnAnswers == ~crossed

\* A visit that the board itself said it is ready for is made where it said.
TunedByItsWord == step = "visit" /\ told => radio = want

\* The window of a visit is sized for the configuration its radio is on.
ViewFollowsRadio == step = "visit" /\ told => view = radio

\* After a recovery the frames of a session go to the radio they went to before.
NeverAnotherBoard == board = "another" => step # "visit"

\* A board that stopped serving is brought back.
Recovers == board = "wedged" ~> board # "wedged"
=============================================================================
