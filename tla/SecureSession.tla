--------------------------- MODULE SecureSession ---------------------------
(***************************************************************************)
(* How a Hub and an Edge come to share a session, use it and lose it.  The *)
(* Hub drives: INIT, the Edge's HELLO with a fresh ephemeral key, WELCOME, *)
(* ACK.  From then on every frame is sealed under the session's key and a  *)
(* counter of its direction that only goes up.  A session is the ephemeral *)
(* key it was made from: two ends agree exactly if they hold the same one. *)
(*                                                                         *)
(* Radios are as in module Transfer: half duplex, one frame held, and what *)
(* was heard is forgotten when the node itself transmits.                  *)
(***************************************************************************)
EXTENDS Naturals

CONSTANTS
    Keys,            \* ephemeral keys, used again once nobody has one any more
    None,
    MAX_COUNTER,     \* 0xFFFF in the code
    WINDOW,          \* of the replay window
    Tries,           \* perform_handshake's tries for each of its rounds
    RecoveryAfter,   \* session_recovery_after
    Lossy,           \* may the link lose a frame
    EarlyTimeout,    \* may a receive window close on an answer still coming
    MaxReboots       \* bound on the restarts of either side

VARIABLES
    hubPc,           \* "between", "init", "welcome", "visit", "closing"
    tries, hello,    \* rounds tried, the ephemeral key the HELLO carried
    hubSession,      \* None or a session
    state,           \* Digital_Endpoint.state
    waiting,         \* is a reply window open
    asked, alive,    \* a round was made this visit, something was heard
    silent, polled,  \* _session_silent_visits
    edgePc, reply,   \* "listen" or "reply", the answer computed
    hs_state,        \* the ephemeral key awaiting its WELCOME
    edgeSession,
    hubRx, edgeRx,
    sealed,          \* history: counters sealed, per key and direction
    reused,          \* history: a counter was sealed twice
    reboots

hubVars == <<hubPc, tries, hello, hubSession, state, waiting, asked, alive, silent, polled>>
edgeVars == <<edgePc, reply, hs_state, edgeSession>>
ghostVars == <<sealed, reused>>
vars == <<hubVars, edgeVars, hubRx, edgeRx, ghostVars, reboots>>

RW == INSTANCE ReplayWindow

\* What every theorem about this module takes of its constants: a fresh key is
\* always to be had, since an Edge that makes one sees at most five in use.
SessionAssumption ==
    /\ MAX_COUNTER \in Nat
    /\ None \notin Keys \cup [key : Keys, sent : Nat, window : RW!Windows]
    /\ \A a, b, c, d, e \in Keys \cup {None} : \E k \in Keys : k \notin {a, b, c, d, e}

NoFrame == [kind |-> "none", key |-> None, ctr |-> 0]
Open(kind, k) == [kind |-> kind, key |-> k, ctr |-> 0]

\* The counter as the frame carries it, in as many bits as MAX_COUNTER fills.
OnWire(s) == s.sent % (MAX_COUNTER + 1)
Sealed(kind, s) == [kind |-> kind, key |-> s.key, ctr |-> OnWire(s)]
IsSealed(p) == p.kind \in {"OK", "METADATA", "CHUNK", "DATA", "final-OK"}

\* Session: nothing sent, nothing received.
Session(k) == [key |-> k, sent |-> 0, window |-> RW!Empty]
Sessions == [key : Keys, sent : Nat, window : RW!Windows]
Keyed(s) == IF s = None THEN {} ELSE {s.key}
KeysInUse == Keyed(hubSession) \cup Keyed(edgeSession) \cup
             ({hello, hs_state, reply.key, hubRx.key, edgeRx.key} \ {None})

Arrives(rx, p) == rx' = p
Lost(rx) == Lossy /\ UNCHANGED rx

\* Mutant of Exhausted: nobody looks, and the counter wraps on the wire.
Exhausted_Never(s) == FALSE

\* next_counter: strictly increasing, and an error rather than a wrap.
Exhausted(s) == s.sent >= MAX_COUNTER
NextCounter(s) == [s EXCEPT !.sent = @ + 1]

\* History of a frame sealed by `who`; keys nobody has are forgotten.
Records(who, s) ==
    /\ reused' = (reused \/ <<who, s.key, OnWire(s)>> \in sealed)
    /\ sealed' = {x \in sealed : x[2] \in KeysInUse} \cup {<<who, s.key, OnWire(s)>>}

\* A sealed frame opens under its own key, once.
Opens(s, p) == /\ IsSealed(p) /\ s # None /\ s.key = p.key
               /\ RW!Fresh(s.window, p.ctr)
Opened(s, p) == [s EXCEPT !.window = RW!Seen(@, p.ctr)]

-----------------------------------------------------------------------------
(* The Hub: a handshake opens a visit it holds no session for.             *)

\* Mutant of Transmit: an answer to an earlier request is still in the radio.
Transmit_KeepsHeard(p, arrived) ==
    /\ UNCHANGED hubRx
    /\ IF arrived THEN Arrives(edgeRx, p) ELSE Lost(edgeRx)
    /\ waiting' = TRUE

\* The Hub puts a frame out and waits for its answer.
Transmit(p, arrived) ==
    /\ hubRx' = NoFrame
    /\ IF arrived THEN Arrives(edgeRx, p) ELSE Lost(edgeRx)
    /\ waiting' = TRUE

BeginHandshake ==
    /\ hubPc = "between" /\ hubSession = None
    /\ hubPc' = "init" /\ tries' = 0 /\ hello' = None
    /\ UNCHANGED <<hubSession, state, waiting, asked, alive, silent, polled, edgeVars,
                   hubRx, edgeRx, ghostVars, reboots>>

SendInit(arrived) ==
    /\ hubPc = "init" /\ ~waiting /\ tries < Tries
    /\ Transmit(Open("INIT", None), arrived)
    /\ tries' = tries + 1
    /\ UNCHANGED <<hubPc, hello, hubSession, state, asked, alive, silent, polled,
                   edgeVars, ghostVars, reboots>>

\* responder_accept: the key of this HELLO, whatever follows.
GotHello ==
    /\ hubPc = "init" /\ waiting /\ hubRx.kind = "HELLO"
    /\ hello' = hubRx.key
    /\ hubPc' = "welcome" /\ tries' = 0 /\ waiting' = FALSE /\ hubRx' = NoFrame
    /\ UNCHANGED <<hubSession, state, asked, alive, silent, polled, edgeVars, edgeRx,
                   ghostVars, reboots>>

SendWelcome(arrived) ==
    /\ hubPc = "welcome" /\ ~waiting /\ tries < Tries
    /\ Transmit(Open("WELCOME", hello), arrived)
    /\ tries' = tries + 1
    /\ UNCHANGED <<hubPc, hello, hubSession, state, asked, alive, silent, polled,
                   edgeVars, ghostVars, reboots>>

GotAck ==
    /\ hubPc = "welcome" /\ waiting /\ hubRx.kind = "ACK"
    /\ hubSession' = Session(hello)
    /\ hubPc' = "visit" /\ hello' = None /\ tries' = 0
    /\ waiting' = FALSE /\ hubRx' = NoFrame
    /\ asked' = FALSE /\ alive' = FALSE
    /\ UNCHANGED <<state, silent, polled, edgeVars, edgeRx, ghostVars, reboots>>

\* Neither round landed: the visit is over before it began.
HandshakeFails ==
    /\ hubPc \in {"init", "welcome"} /\ ~waiting /\ tries = Tries
    /\ hubPc' = "between" /\ hello' = None /\ tries' = 0
    /\ UNCHANGED <<hubSession, state, waiting, asked, alive, silent, polled, edgeVars,
                   hubRx, edgeRx, ghostVars, reboots>>

-----------------------------------------------------------------------------
(* A visit under the session.                                              *)

BeginVisit ==
    /\ hubPc = "between" /\ hubSession # None
    /\ hubPc' = "visit" /\ asked' = FALSE /\ alive' = FALSE
    /\ UNCHANGED <<tries, hello, hubSession, state, waiting, silent, polled, edgeVars,
                   hubRx, edgeRx, ghostVars, reboots>>

Question == CASE state = "OK" -> "OK"
              [] state = "REQUEST_DATA_STATE" -> "METADATA"
              [] state = "PROCESS_CHUNK_STATE" -> "CHUNK"

SealAndTransmit(kind, arrived) ==
    LET s == NextCounter(hubSession) IN
    /\ hubSession' = s
    /\ Transmit(Sealed(kind, s), arrived)
    /\ Records("hub", s)

AskRound(arrived) ==
    /\ hubPc = "visit" /\ ~waiting /\ ~Exhausted(hubSession)
    /\ SealAndTransmit(Question, arrived)
    /\ asked' = TRUE
    /\ UNCHANGED <<hubPc, tries, hello, state, alive, silent, polled, edgeVars, reboots>>

\* Framing raises SessionExhausted, which the drive loop swallows.
AskRoundRaises ==
    /\ hubPc = "visit" /\ ~waiting /\ Exhausted(hubSession)
    /\ asked' = TRUE
    /\ UNCHANGED <<hubPc, tries, hello, hubSession, state, waiting, alive, silent, polled,
                   edgeVars, hubRx, edgeRx, ghostVars, reboots>>

\* A reply that opens.
Heard ==
    /\ hubPc \in {"visit", "closing"} /\ waiting
    /\ Opens(hubSession, hubRx) /\ hubRx.kind # "DATA"
    /\ hubSession' = Opened(hubSession, hubRx)
    /\ hubRx' = NoFrame /\ waiting' = FALSE /\ alive' = TRUE
    /\ state' = IF hubPc = "closing" THEN state
                ELSE IF hubRx.kind = "OK" THEN "REQUEST_DATA_STATE"
                ELSE "PROCESS_CHUNK_STATE"
    /\ UNCHANGED <<hubPc, tries, hello, asked, silent, polled, edgeVars, edgeRx,
                   ghostVars, reboots>>

\* A file's only chunk: it is stored and its final-OK sent, which nobody
\* waits for and a spent counter swallows.
HeardTail(arrived) ==
    LET s == Opened(hubSession, hubRx) IN
    /\ hubPc = "visit" /\ waiting
    /\ Opens(hubSession, hubRx) /\ hubRx.kind = "DATA"
    /\ waiting' = FALSE /\ alive' = TRUE /\ state' = "OK" /\ hubRx' = NoFrame
    /\ IF Exhausted(hubSession)
       THEN hubSession' = s /\ UNCHANGED <<edgeRx, ghostVars>>
       ELSE /\ hubSession' = NextCounter(s)
            /\ Records("hub", NextCounter(s))
            /\ IF arrived THEN Arrives(edgeRx, Sealed("final-OK", NextCounter(s)))
                          ELSE Lost(edgeRx)
    /\ UNCHANGED <<hubPc, tries, hello, asked, silent, polled, edgeVars, reboots>>

\* A frame that is not the answer, or does not open: the round is over.
NotTheAnswer ==
    /\ waiting /\ hubRx # NoFrame
    /\ ~(hubPc = "init" /\ hubRx.kind = "HELLO")
    /\ ~(hubPc = "welcome" /\ hubRx.kind = "ACK")
    /\ ~(hubPc \in {"visit", "closing"} /\ Opens(hubSession, hubRx))
    /\ hubRx' = NoFrame /\ waiting' = FALSE
    /\ UNCHANGED <<hubPc, tries, hello, hubSession, state, asked, alive, silent, polled,
                   edgeVars, edgeRx, ghostVars, reboots>>

Unanswered ==
    /\ waiting /\ hubRx = NoFrame
    /\ EarlyTimeout \/ (edgeRx = NoFrame /\ reply = NoFrame)
    /\ waiting' = FALSE
    /\ UNCHANGED <<hubPc, tries, hello, hubSession, state, asked, alive, silent, polled,
                   edgeVars, hubRx, edgeRx, ghostVars, reboots>>

\* _session_visit_end.
VisitOver(heard, unanswered) ==
    LET quiet == silent + 1 IN
    /\ hubPc' = "between"
    /\ \/ heard /\ silent' = 0 /\ polled' = FALSE /\ UNCHANGED <<hubSession, state>>
       \/ /\ ~heard /\ (polled \/ (quiet >= RecoveryAfter /\ unanswered))
          /\ hubSession' = None /\ state' = "OK" /\ silent' = 0 /\ polled' = FALSE
       \/ /\ ~heard /\ ~polled /\ ~(quiet >= RecoveryAfter /\ unanswered)
          /\ silent' = quiet /\ polled' = (quiet >= RecoveryAfter)
          /\ state' = IF polled' THEN "OK" ELSE state
          /\ UNCHANGED hubSession

\* _liveness_visit_end: a silent visit after first contact asks the poll an
\* Edge always answers; any other visit is over.
NeedsPoll == ~alive /\ state = "REQUEST_DATA_STATE"

EndVisit ==
    /\ hubPc = "visit" /\ asked /\ ~waiting /\ ~NeedsPoll
    /\ VisitOver(alive, FALSE)
    /\ UNCHANGED <<tries, hello, waiting, asked, alive, edgeVars, hubRx, edgeRx,
                   ghostVars, reboots>>

ClosingPoll(arrived) ==
    /\ hubPc = "visit" /\ asked /\ ~waiting /\ NeedsPoll /\ ~Exhausted(hubSession)
    /\ SealAndTransmit("OK", arrived)
    /\ hubPc' = "closing"
    /\ UNCHANGED <<tries, hello, state, asked, alive, silent, polled, edgeVars, reboots>>

\* Nothing catches SessionExhausted here: the visit unwinds to Hub.run and
\* the session is not looked at.
ClosingPollRaises ==
    /\ hubPc = "visit" /\ asked /\ ~waiting /\ NeedsPoll /\ Exhausted(hubSession)
    /\ hubPc' = "between"
    /\ UNCHANGED <<tries, hello, hubSession, state, waiting, asked, alive, silent, polled,
                   edgeVars, hubRx, edgeRx, ghostVars, reboots>>

ClosingOver ==
    /\ hubPc = "closing" /\ ~waiting
    /\ VisitOver(alive, ~alive)
    /\ UNCHANGED <<tries, hello, waiting, asked, alive, edgeVars, hubRx, edgeRx,
                   ghostVars, reboots>>

-----------------------------------------------------------------------------
(* The Edge answers.                                                       *)

Hears(p) == edgePc = "listen" /\ edgeRx = p /\ p # NoFrame /\ edgeRx' = NoFrame
Answer(p) == reply' = p /\ edgePc' = "reply"
EdgeStep == UNCHANGED <<hubVars, hubRx, reboots>>

\* Every INIT makes a fresh ephemeral key: the latest one is what counts.
AnswerInit ==
    LET k == CHOOSE k \in Keys : k \notin KeysInUse IN
    /\ edgeRx.kind = "INIT" /\ Hears(edgeRx)
    /\ hs_state' = k
    /\ Answer(Open("HELLO", k))
    /\ sealed' = {x \in sealed : x[2] # k}
    /\ UNCHANGED <<edgeSession, reused>> /\ EdgeStep

\* The WELCOME completes the handshake; one more of it is acknowledged again,
\* and so is one this Edge knows nothing of.
AnswerWelcome ==
    /\ edgeRx.kind = "WELCOME" /\ Hears(edgeRx)
    /\ edgeSession' = IF hs_state = None THEN edgeSession ELSE Session(hs_state)
    /\ hs_state' = None
    /\ Answer(Open("ACK", None))
    /\ UNCHANGED ghostVars /\ EdgeStep

\* Polls are always answered, the final-OK never, and what is asked of a file
\* only when there is one.
Answers(kind) == CASE kind = "OK" -> {"OK"}
                   [] kind = "METADATA" -> {"METADATA", "none"}
                   [] kind = "CHUNK" -> {"DATA", "none"}
                   [] kind = "final-OK" -> {"none"}
AnswerSealed ==
    /\ Opens(edgeSession, edgeRx) /\ Hears(edgeRx)
    /\ edgeSession' = Opened(edgeSession, edgeRx)
    /\ \E kind \in Answers(edgeRx.kind) :
          IF kind = "none" THEN UNCHANGED <<reply, edgePc>>
          ELSE Answer(Open(kind, edgeSession.key))
    /\ UNCHANGED <<hs_state, ghostVars>> /\ EdgeStep

CannotOpen ==
    /\ IsSealed(edgeRx) /\ ~Opens(edgeSession, edgeRx) /\ Hears(edgeRx)
    /\ UNCHANGED <<edgeVars, ghostVars>> /\ EdgeStep

\* send_response seals the answer as it leaves.
SendReply(arrived) ==
    LET s == NextCounter(edgeSession)
        p == IF IsSealed(reply) THEN Sealed(reply.kind, s) ELSE reply
    IN
    /\ edgePc = "reply"
    /\ IF arrived THEN Arrives(hubRx, p) ELSE Lost(hubRx)
    /\ IF IsSealed(reply)
       THEN edgeSession' = s /\ Records("edge", s)
       ELSE UNCHANGED <<edgeSession, ghostVars>>
    /\ reply' = NoFrame /\ edgePc' = "listen" /\ edgeRx' = NoFrame
    /\ UNCHANGED <<hs_state, hubVars, reboots>>

\* Sessions live in RAM.
EdgeReboot ==
    /\ reboots < MaxReboots /\ reboots' = reboots + 1
    /\ edgePc' = "listen" /\ reply' = NoFrame /\ hs_state' = None
    /\ edgeSession' = None /\ edgeRx' = NoFrame
    /\ UNCHANGED <<hubVars, hubRx, ghostVars>>

HubReboot ==
    /\ reboots < MaxReboots /\ reboots' = reboots + 1
    /\ hubPc' = "between" /\ tries' = 0 /\ hello' = None /\ hubSession' = None
    /\ state' = "OK" /\ waiting' = FALSE /\ asked' = FALSE /\ alive' = FALSE
    /\ silent' = 0 /\ polled' = FALSE /\ hubRx' = NoFrame
    /\ UNCHANGED <<edgeVars, edgeRx, ghostVars>>

-----------------------------------------------------------------------------
Init ==
    /\ hubPc = "between" /\ tries = 0 /\ hello = None /\ hubSession = None
    /\ state = "OK" /\ waiting = FALSE /\ asked = FALSE /\ alive = FALSE
    /\ silent = 0 /\ polled = FALSE
    /\ edgePc = "listen" /\ reply = NoFrame /\ hs_state = None /\ edgeSession = None
    /\ hubRx = NoFrame /\ edgeRx = NoFrame
    /\ sealed = {} /\ reused = FALSE /\ reboots = 0

Hub == \/ BeginHandshake \/ GotHello \/ GotAck \/ HandshakeFails
       \/ BeginVisit \/ AskRoundRaises \/ Heard \/ NotTheAnswer \/ Unanswered
       \/ EndVisit \/ ClosingPollRaises \/ ClosingOver
       \/ \E arrived \in BOOLEAN : SendInit(arrived) \/ SendWelcome(arrived)
             \/ AskRound(arrived) \/ HeardTail(arrived) \/ ClosingPoll(arrived)
Edge == \/ AnswerInit \/ AnswerWelcome \/ CannotOpen \/ AnswerSealed
        \/ \E arrived \in BOOLEAN : SendReply(arrived)
Next == Hub \/ Edge \/ EdgeReboot \/ HubReboot

Spec == Init /\ [][Next]_vars

\* Both loops keep turning; a visit does not go on for ever.
FairSpec == Spec /\ WF_vars(Hub) /\ WF_vars(Edge)
                 /\ WF_vars(EndVisit \/ ClosingPollRaises
                            \/ \E arrived \in BOOLEAN : ClosingPoll(arrived))

-----------------------------------------------------------------------------
\* A half-duplex pair cannot outrun itself: the Edge seals one frame for each
\* the Hub sealed, so its own counter is never the one that is spent.
TypeOK ==
    /\ hubSession # None => hubSession.sent \in 0..MAX_COUNTER
    /\ edgeSession # None => edgeSession.sent \in 0..MAX_COUNTER
    /\ {hello, hs_state} \subseteq Keys \cup {None}

\* No counter is sealed twice under one key in one direction, whatever is
\* repeated, lost or late during the handshake and after it.
NoNonceReuse == ~reused

\* Two ends that both hold a session hold the same one: the ephemeral key of
\* the latest INIT is the one the Hub goes on with, however late its HELLO.
KeysAgree ==
    hubSession # None /\ edgeSession # None => hubSession.key = edgeSession.key

\* A Hub whose counter is spent gets a fresh key.
Rekeys ==
    (hubSession # None /\ Exhausted(hubSession))
        ~> (hubSession = None \/ ~Exhausted(hubSession))
=============================================================================
