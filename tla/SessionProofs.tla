---------------------------- MODULE SessionProofs ----------------------------
(***************************************************************************)
(* What a secure session promises, proved of SecureSession for every       *)
(* counter width, every number of tries and restarts and every window: two *)
(* ends that hold a session hold the same one, and no counter is sealed    *)
(* twice under one key in one direction.                                   *)
(*                                                                         *)
(* The link is half duplex, so what the Edge put out is the last thing on  *)
(* it (Link): the key offered last is the one the Hub goes on with         *)
(* (Latest).  Nothing was sealed under a key before it is in use, nor      *)
(* beyond the counter its session has reached (Counted).  Nobody stops the *)
(* Edge at its last counter, and nobody has to: it seals no more frames    *)
(* than the Hub, which does stop, has sent it (InStep).                    *)
(***************************************************************************)
EXTENDS SecureSession, TLAPS

HubKinds == {"none", "INIT", "WELCOME", "OK", "METADATA", "CHUNK", "final-OK"}
EdgeKinds == {"none", "HELLO", "ACK", "OK", "METADATA", "DATA"}
SealedKinds == {"OK", "METADATA", "CHUNK", "DATA", "final-OK"}

\* A frame on its way names the key it is about.
FrameOK(p, kinds) ==
    /\ p \in [kind : kinds, key : Keys \cup {None}, ctr : Nat]
    /\ p.kind = "none" => p = NoFrame
    /\ p.kind \in {"HELLO", "WELCOME"} \cup SealedKinds => p.key \in Keys

HubTypeOK ==
    /\ hubPc \in {"between", "init", "welcome", "visit", "closing"}
    /\ hello \in Keys \cup {None}
    /\ hubPc = "welcome" <=> hello # None
    /\ hubSession \in Sessions \cup {None}
    /\ hubSession # None => hubPc \in {"between", "visit", "closing"}
    /\ hubPc \in {"visit", "closing"} => hubSession # None
    /\ state \in {"OK", "REQUEST_DATA_STATE", "PROCESS_CHUNK_STATE"}
    /\ FrameOK(hubRx, EdgeKinds)

EdgeTypeOK ==
    /\ edgePc \in {"listen", "reply"}
    /\ edgePc = "reply" <=> reply # NoFrame
    /\ hs_state \in Keys \cup {None}
    /\ edgeSession \in Sessions \cup {None}
    /\ FrameOK(reply, EdgeKinds)
    /\ FrameOK(edgeRx, HubKinds)

HistoryTypeOK ==
    /\ sealed \subseteq {"hub", "edge"} \X Keys \X Nat
    /\ reused \in BOOLEAN

Types == HubTypeOK /\ EdgeTypeOK /\ HistoryTypeOK

\* What the Edge has put out is the last thing on the link, and during a
\* handshake's second round and under a session there is nothing older.
Link ==
    /\ hubRx # NoFrame => reply = NoFrame /\ edgeRx = NoFrame
    /\ hubPc = "welcome" =>
         /\ edgeRx.kind \in {"none", "WELCOME"}
         /\ {reply.kind, hubRx.kind} \subseteq {"none", "ACK"}
    /\ hubSession # None =>
         {edgeRx.kind, reply.kind, hubRx.kind} \subseteq {"none"} \cup SealedKinds

\* Keys an Edge has offered and the Hub may go on with.
Offered ==
    {k \in Keys : k = hello \/ \E p \in {reply, hubRx} : p.kind = "HELLO" /\ p.key = k}

\* The key offered is the one the Edge waits on, or the one it went on with,
\* or one it lost in a reboot.
Latest ==
    /\ \A k \in Offered :
         hs_state = k \/ (hs_state = None /\ (edgeSession # None => edgeSession.key = k))
    /\ hubPc = "welcome" /\ "ACK" \in {reply.kind, hubRx.kind} => hs_state = None
    /\ hubSession # None => hs_state = None
    /\ edgeSession # None => edgeSession.key # hs_state
    /\ IsSealed(reply) => edgeSession # None /\ reply.key = edgeSession.key
    /\ KeysAgree

\* No counter was sealed beyond the one a session has reached, and none at all
\* under a key that is not in use yet.
Counted ==
    /\ hubSession # None =>
         /\ hubSession.sent <= MAX_COUNTER
         /\ \A x \in sealed : x[1] = "hub" /\ x[2] = hubSession.key => x[3] <= hubSession.sent
    /\ \A x \in sealed : x[1] = "hub" => x[2] \notin Offered
    /\ edgeSession # None =>
         \A x \in sealed : x[1] = "edge" /\ x[2] = edgeSession.key => x[3] <= edgeSession.sent
    /\ \A x \in sealed : x[1] = "edge" => x[2] # hs_state
    /\ ~reused

\* An Edge never seals more frames than it was sent.
Answering == IF IsSealed(reply) THEN 1 ELSE 0
ToAnswer == IF IsSealed(edgeRx) /\ edgeRx.key = edgeSession.key THEN 1 ELSE 0
Asked == IF hubSession # None THEN hubSession.sent
         ELSE IF edgeSession.key \in Offered THEN 0 ELSE MAX_COUNTER
InStep == edgeSession # None => edgeSession.sent + Answering + ToAnswer <= Asked

IInv == Types /\ Link /\ Latest /\ Counted /\ InStep

USE DEF vars, hubVars, edgeVars, ghostVars

-----------------------------------------------------------------------------
(* Frames, windows and sessions.                                           *)

LEMMA Wire ==
    ASSUME SessionAssumption, NEW s \in Sessions, s.sent <= MAX_COUNTER
    PROVE  OnWire(s) = s.sent
<1>1. s.sent \in 0..MAX_COUNTER /\ MAX_COUNTER \in Nat
  BY DEF SessionAssumption, Sessions
<1>2. \A n \in Nat : \A m \in 0..n : m % (n + 1) = m
  OBVIOUS
<1> QED BY <1>1, <1>2 DEF OnWire

LEMMA Frames ==
    /\ ~IsSealed(NoFrame) /\ NoFrame.kind = "none"
    /\ FrameOK(NoFrame, HubKinds) /\ FrameOK(NoFrame, EdgeKinds)
<1>1. NoFrame \in [kind : {"none"}, key : Keys \cup {None}, ctr : Nat]
  BY DEF NoFrame
<1>2. ~IsSealed(NoFrame) /\ NoFrame.kind = "none"
  BY DEF NoFrame, IsSealed
<1>3. ASSUME NEW kinds, "none" \in kinds PROVE FrameOK(NoFrame, kinds)
  BY <1>2, <1>3 DEF NoFrame, FrameOK, SealedKinds
<1> QED BY <1>2, <1>3 DEF HubKinds, EdgeKinds

LEMMA OpenFrames ==
    ASSUME NEW kinds, NEW kind \in kinds, kind # "none", NEW k \in Keys \cup {None},
           kind \in {"INIT", "ACK"} \/ k \in Keys
    PROVE  /\ FrameOK(Open(kind, k), kinds) /\ Open(kind, k) # NoFrame
           /\ Open(kind, k).kind = kind /\ Open(kind, k).key = k
<1>1. Open(kind, k).kind = kind /\ Open(kind, k).key = k
  BY DEF Open
<1>2. Open(kind, k) # NoFrame
  BY <1>1 DEF NoFrame
<1>3. Open(kind, k) \in [kind : kinds, key : Keys \cup {None}, ctr : Nat]
  BY DEF Open
<1> QED BY <1>1, <1>2, <1>3 DEF FrameOK, SealedKinds

LEMMA SealedFrames ==
    ASSUME SessionAssumption, NEW s \in Sessions, s.sent <= MAX_COUNTER,
           NEW kinds, NEW kind \in kinds \cap SealedKinds
    PROVE  LET p == Sealed(kind, s)
           IN  /\ FrameOK(p, kinds) /\ p # NoFrame
               /\ p.kind = kind /\ p.key = s.key /\ IsSealed(p)
<1> DEFINE p == Sealed(kind, s)
<1>1. p.kind = kind /\ p.key = s.key /\ p.ctr = s.sent
  BY Wire DEF Sealed
<1>2. p # NoFrame /\ IsSealed(p)
  BY <1>1 DEF NoFrame, IsSealed, SealedKinds
<1>3. s.key \in Keys /\ s.sent \in Nat
  BY DEF Sessions
<1>4. p \in [kind : kinds, key : Keys \cup {None}, ctr : Nat]
  BY <1>3, Wire DEF Sealed
<1> QED BY <1>1, <1>2, <1>3, <1>4 DEF FrameOK, SealedKinds

LEMMA WindowMoves ==
    ASSUME NEW w \in RW!Windows, NEW c \in Nat, RW!Fresh(w, c)
    PROVE  RW!Seen(w, c) \in RW!Windows
<1> USE DEF RW!Windows
<1>1. CASE c > w.highest
  <2>1. c - w.highest \in Nat
    BY <1>1
  <2>2. RW!Shifted(w.bitmap, c - w.highest) \subseteq Nat
    BY <2>1 DEF RW!Shifted
  <2> QED BY <1>1, <2>2 DEF RW!Seen
<1>2. CASE c <= w.highest
  <2>1. w.highest - c \in Nat /\ ~(c > w.highest)
    BY <1>2
  <2> QED BY <2>1 DEF RW!Seen
<1> QED BY <1>1, <1>2

LEMMA SessionMoves ==
    ASSUME SessionAssumption, NEW s \in Sessions
    PROVE  /\ s # None /\ s.key \in Keys /\ s.sent \in Nat
           /\ NextCounter(s) \in Sessions
           /\ NextCounter(s).key = s.key /\ NextCounter(s).sent = s.sent + 1
           /\ \A p : p.ctr \in Nat /\ Opens(s, p) =>
                 /\ Opened(s, p) \in Sessions
                 /\ Opened(s, p).key = s.key /\ Opened(s, p).sent = s.sent
                 /\ p.key = s.key /\ IsSealed(p)
<1> USE DEF Sessions
<1>1. s # None
  BY DEF SessionAssumption
<1>2. ASSUME NEW p, p.ctr \in Nat, Opens(s, p)
      PROVE  /\ Opened(s, p) \in Sessions
             /\ Opened(s, p).key = s.key /\ Opened(s, p).sent = s.sent
             /\ p.key = s.key /\ IsSealed(p)
  BY <1>2, WindowMoves DEF Opens, Opened
<1> QED BY <1>1, <1>2 DEF NextCounter

LEMMA Begun ==
    ASSUME SessionAssumption, NEW k \in Keys
    PROVE  /\ k # None /\ Session(k) \in Sessions /\ Session(k) # None
           /\ Session(k).key = k /\ Session(k).sent = 0
<1>1. RW!Empty \in RW!Windows
  BY DEF RW!Empty, RW!Windows
<1>2. Session(k) \in Sessions /\ Session(k).key = k /\ Session(k).sent = 0
  BY <1>1 DEF Session, Sessions
<1> QED BY <1>2 DEF Sessions, SessionAssumption

LEMMA FreshKey ==
    ASSUME SessionAssumption, Types, reply = NoFrame, hubRx = NoFrame
    PROVE  LET k == CHOOSE k \in Keys : k \notin KeysInUse
           IN  k \in Keys /\ k \notin KeysInUse
<1> DEFINE a == IF hubSession = None THEN None ELSE hubSession.key
           b == IF edgeSession = None THEN None ELSE edgeSession.key
<1> DEFINE Ends == Keys \cup {None}
<1>1. /\ a \in Ends /\ b \in Ends /\ hello \in Ends /\ hs_state \in Ends
      /\ edgeRx.key \in Ends
  BY DEF Types, HubTypeOK, EdgeTypeOK, FrameOK, Sessions
<1>2. PICK k \in Keys : k \notin {a, b, hello, hs_state, edgeRx.key}
  <2>1. \A v, w, x, y, z \in Ends : \E k \in Keys : k \notin {v, w, x, y, z}
    BY DEF SessionAssumption
  <2> HIDE DEF a, b, Ends
  <2> QED BY <1>1, <2>1
<1>3. NoFrame.key = None /\ k # None
  BY DEF NoFrame, SessionAssumption
<1>4. k \notin KeysInUse
  BY <1>2, <1>3 DEF KeysInUse, Keyed
<1> QED BY <1>4

LEMMA Recorded ==
    ASSUME SessionAssumption, HistoryTypeOK, ~reused,
           NEW who \in {"hub", "edge"}, NEW s \in Sessions, s.sent <= MAX_COUNTER,
           \A x \in sealed : x[1] = who /\ x[2] = s.key => x[3] < s.sent,
           Records(who, s)
    PROVE  /\ ~reused' /\ HistoryTypeOK'
           /\ sealed' \subseteq sealed \cup {<<who, s.key, s.sent>>}
<1> DEFINE new == <<who, s.key, s.sent>>
<1>1. s.key \in Keys /\ s.sent \in Nat /\ OnWire(s) = s.sent
  BY Wire DEF Sessions
<1>2. new \notin sealed
  BY <1>1
<1>3. sealed' \subseteq sealed \cup {new} /\ reused' = (reused \/ new \in sealed)
  BY <1>1 DEF Records
<1>4. new \in {"hub", "edge"} \X Keys \X Nat
  BY <1>1
<1> HIDE DEF new
<1>5. reused' = FALSE
  BY <1>2, <1>3
<1> QED BY <1>3, <1>4, <1>5 DEF HistoryTypeOK, new

LEMMA HubOffers ==
    ASSUME SessionAssumption, Types, Link, hubSession # None
    PROVE  Offered = {}
<1>1. hello = None /\ reply.kind # "HELLO" /\ hubRx.kind # "HELLO"
  BY DEF Types, HubTypeOK, Link, SealedKinds
<1> QED BY <1>1 DEF Offered, SessionAssumption

LEMMA Sizes ==
    ASSUME SessionAssumption, IInv
    PROVE  /\ MAX_COUNTER \in Nat /\ None \notin Keys
           /\ Answering \in {0, 1} /\ ToAnswer \in {0, 1}
           /\ hubSession # None => hubSession.sent \in Nat /\ hubSession.key \in Keys
           /\ edgeSession # None => edgeSession.sent \in Nat /\ edgeSession.key \in Keys
           /\ Asked \in Nat /\ Asked <= MAX_COUNTER
<1>1. MAX_COUNTER \in Nat /\ None \notin Keys
  BY DEF SessionAssumption
<1>2. hubSession # None => hubSession.sent \in Nat /\ hubSession.key \in Keys
  BY DEF IInv, Types, HubTypeOK, Sessions
<1>3. edgeSession # None => edgeSession.sent \in Nat /\ edgeSession.key \in Keys
  BY DEF IInv, Types, EdgeTypeOK, Sessions
<1>4. Asked \in Nat /\ Asked <= MAX_COUNTER
  BY <1>1, <1>2 DEF IInv, Counted, Asked
<1> QED BY <1>1, <1>2, <1>3, <1>4 DEF Answering, ToAnswer

-----------------------------------------------------------------------------
(* The Hub's steps.                                                        *)

\* The Hub seals nothing and offers nothing, and goes on with its session or
\* drops it.
LEMMA HubQuiet ==
    ASSUME SessionAssumption, IInv, HubTypeOK',
           UNCHANGED <<edgeVars, edgeRx, ghostVars>>,
           hubRx' \in {hubRx, NoFrame}, hello' \in {hello, None},
           hubPc' = "welcome" => hubPc = "welcome",
           \/ hubSession' = None
           \/ /\ hubSession # None /\ hubSession' # None
              /\ hubSession'.key = hubSession.key /\ hubSession'.sent = hubSession.sent
    PROVE  IInv'
<1> USE Sizes, Frames DEF IInv
<1>1. Types'
  BY DEF Types, EdgeTypeOK, HistoryTypeOK
<1>2. Offered' \subseteq Offered
  BY DEF Offered, NoFrame
<1>3. Link'
  BY DEF Link, SealedKinds
<1>4. Latest'
  BY <1>2 DEF Latest, KeysAgree
<1>5. Counted'
  BY <1>2 DEF Counted
<1>6. InStep'
  <2>1. SUFFICES ASSUME edgeSession # None
                 PROVE  edgeSession.sent + Answering + ToAnswer <= Asked'
    BY DEF InStep, Answering, ToAnswer
  <2>2. edgeSession.sent + Answering + ToAnswer <= Asked
    BY <2>1 DEF InStep
  <2>3. hubSession # None => Offered = {}
    BY HubOffers
  <2>4. Asked <= Asked' /\ Asked' \in Nat
    BY <1>2, <2>3 DEF Asked, Counted
  <2> QED BY <2>1, <2>2, <2>4
<1> QED BY <1>1, <1>3, <1>4, <1>5, <1>6

\* A handshake's frame goes out.
LEMMA HubSends ==
    ASSUME SessionAssumption, IInv,
           NEW p \in {Open("INIT", None), Open("WELCOME", hello)},
           p.kind = "INIT" => hubPc = "init", p.kind = "WELCOME" => hubPc = "welcome",
           hubRx' = NoFrame, edgeRx' \in {edgeRx, p},
           UNCHANGED <<hubPc, hello, hubSession, state, edgeVars, ghostVars>>
    PROVE  IInv'
<1> USE Sizes, Frames DEF IInv
<1>1. /\ p.kind \in {"INIT", "WELCOME"} /\ ~IsSealed(p) /\ hubSession = None
      /\ FrameOK(p, HubKinds)
  BY OpenFrames DEF Open, IsSealed, Types, HubTypeOK, HubKinds
<1>2. Types'
  BY <1>1 DEF Types, HubTypeOK, EdgeTypeOK, HistoryTypeOK
<1>3. Offered' \subseteq Offered
  BY DEF Offered, NoFrame
<1>4. Link'
  BY <1>1 DEF Link, Types, HubTypeOK
<1>5. Latest'
  BY <1>3 DEF Latest, KeysAgree
<1>6. Counted'
  BY <1>3 DEF Counted
<1>7. InStep'
  <2>1. SUFFICES ASSUME edgeSession # None
                 PROVE  edgeSession.sent + Answering + ToAnswer' <= Asked'
    BY DEF InStep, Answering
  <2>2. edgeSession.sent + Answering + ToAnswer <= Asked
    BY <2>1 DEF InStep
  <2>3. Asked <= Asked' /\ Asked' \in Nat
    BY <1>1, <1>3 DEF Asked
  <2>4. ToAnswer' <= ToAnswer /\ ToAnswer' \in Nat
    BY <1>1 DEF ToAnswer
  <2> QED BY <2>1, <2>2, <2>3, <2>4
<1> QED BY <1>2, <1>4, <1>5, <1>6, <1>7

LEMMA HubGotHello ==
    ASSUME SessionAssumption, IInv, GotHello
    PROVE  IInv'
<1> USE Sizes, Frames DEF IInv
<1>1. /\ hubRx.kind = "HELLO" /\ hubRx # NoFrame /\ hubRx.key \in Keys
      /\ reply = NoFrame /\ edgeRx = NoFrame /\ hubSession = None /\ hello = None
      /\ hello' = hubRx.key /\ hubPc' = "welcome" /\ hubRx' = NoFrame
      /\ UNCHANGED <<hubSession, state, edgeVars, edgeRx, ghostVars>>
  BY DEF GotHello, Types, HubTypeOK, Link, FrameOK
<1>2. Types'
  BY <1>1 DEF Types, HubTypeOK, EdgeTypeOK, HistoryTypeOK
<1>3. \A k : k \in Offered' <=> k \in Offered
  BY <1>1 DEF Offered
<1>4. Link'
  BY <1>1 DEF Link
<1>5. Latest'
  BY <1>1, <1>3 DEF Latest, KeysAgree
<1>6. Counted'
  BY <1>1, <1>3 DEF Counted
<1>7. InStep'
  BY <1>1, <1>3 DEF InStep, Answering, ToAnswer, Asked
<1> QED BY <1>2, <1>4, <1>5, <1>6, <1>7

LEMMA HubGotAck ==
    ASSUME SessionAssumption, IInv, GotAck
    PROVE  IInv'
<1> USE Sizes, Frames DEF IInv
<1>1. /\ hubRx.kind = "ACK" /\ hubRx # NoFrame
      /\ reply = NoFrame /\ edgeRx = NoFrame /\ hubSession = None
      /\ hubPc = "welcome" /\ hello \in Keys /\ hello # None
      /\ hubPc' = "visit" /\ hello' = None /\ hubRx' = NoFrame
      /\ hubSession' = Session(hello)
      /\ UNCHANGED <<state, edgeVars, edgeRx, ghostVars>>
  BY DEF GotAck, Types, HubTypeOK, Link
<1>2. /\ hubSession' \in Sessions /\ hubSession' # None
      /\ hubSession'.key = hello /\ hubSession'.sent = 0
  BY <1>1, Begun
<1>3. Types'
  BY <1>1, <1>2 DEF Types, HubTypeOK, EdgeTypeOK, HistoryTypeOK
<1>4. hello \in Offered /\ Offered' = {}
  BY <1>1 DEF Offered
<1>5. hs_state = None /\ (edgeSession # None => edgeSession.key = hello)
  BY <1>1, <1>4 DEF Latest
<1>6. Link'
  BY <1>1 DEF Link
<1>7. Latest'
  BY <1>1, <1>2, <1>4, <1>5 DEF Latest, KeysAgree
<1>8. Counted'
  BY <1>1, <1>2, <1>4 DEF Counted
<1>9. InStep'
  BY <1>1, <1>2, <1>4, <1>5 DEF InStep, Answering, ToAnswer, Asked
<1> QED BY <1>3, <1>6, <1>7, <1>8, <1>9

\* The Hub seals a frame under its next counter.
LEMMA HubSeals ==
    ASSUME SessionAssumption, IInv, HubTypeOK', hubSession # None,
           hubSession.sent < MAX_COUNTER, NEW s \in Sessions,
           s.key = hubSession.key, s.sent = hubSession.sent + 1, s # None,
           NEW kind \in {"OK", "METADATA", "CHUNK", "final-OK"},
           hubSession' = s, hubRx' = NoFrame, edgeRx' \in {edgeRx, Sealed(kind, s)},
           Records("hub", s), UNCHANGED <<hello, edgeVars>>
    PROVE  IInv'
<1> USE Sizes, Frames DEF IInv
<1>1. s.sent \in Nat /\ s.sent <= MAX_COUNTER
  OBVIOUS
<1>2. \A x \in sealed : x[1] = "hub" /\ x[2] = s.key => x[3] < s.sent
  BY DEF Counted, Types, HistoryTypeOK
<1>3. /\ ~reused' /\ HistoryTypeOK'
      /\ sealed' \subseteq sealed \cup {<<"hub", s.key, s.sent>>}
  BY <1>1, <1>2, Recorded DEF Types, Counted
<1>4. LET p == Sealed(kind, s)
      IN  FrameOK(p, HubKinds) /\ p.kind = kind /\ p.key = s.key /\ IsSealed(p)
  BY <1>1, SealedFrames DEF HubKinds, SealedKinds
<1>5. Types'
  BY <1>3, <1>4 DEF Types, EdgeTypeOK
<1>6. Offered = {} /\ Offered' = {}
  BY <1>5, HubOffers DEF Offered
<1>7. hubPc' # "welcome" /\ hubPc # "welcome"
  BY DEF HubTypeOK, Types
<1>8. Link'
  BY <1>4, <1>7 DEF Link, SealedKinds
<1>9. Latest'
  BY <1>6, <1>7 DEF Latest, KeysAgree
<1>10. Counted'
  <2>1. \A x \in sealed' : \/ x \in sealed
                           \/ x[1] = "hub" /\ x[2] = s.key /\ x[3] = s.sent
    BY <1>3
  <2>2. \A x \in sealed' : x[1] = "hub" /\ x[2] = s.key => x[3] <= s.sent
    BY <1>1, <1>2, <2>1 DEF Types, HistoryTypeOK
  <2> QED BY <1>1, <1>3, <1>6, <2>1, <2>2 DEF Counted
<1>11. InStep'
  <2>1. SUFFICES ASSUME edgeSession # None
                 PROVE  edgeSession.sent + Answering + ToAnswer' <= Asked'
    BY DEF InStep, Answering
  <2>2. edgeSession.sent + Answering + ToAnswer <= hubSession.sent
    BY <2>1 DEF InStep, Asked
  <2>3. ToAnswer' \in {0, 1}
    BY DEF ToAnswer
  <2>4. Asked' = hubSession.sent + 1
    BY DEF Asked
  <2> QED BY <2>1, <2>2, <2>3, <2>4
<1> QED BY <1>5, <1>8, <1>9, <1>10, <1>11

\* Whatever ends a visit.
LEMMA HubEnds ==
    ASSUME SessionAssumption, IInv, hubPc \in {"visit", "closing"},
           hubPc' = "between", hubSession' = None \/ UNCHANGED hubSession,
           state' \in {state, "OK"},
           UNCHANGED <<hello, edgeVars, hubRx, edgeRx, ghostVars>>
    PROVE  IInv'
<1>1. HubTypeOK /\ hubSession # None
  BY DEF IInv, Types, HubTypeOK
<1>2. HubTypeOK'
  BY <1>1 DEF HubTypeOK
<1> QED BY <1>1, <1>2, HubQuiet

LEMMA HubHears ==
    ASSUME SessionAssumption, IInv, Heard
    PROVE  IInv'
<1>1. /\ HubTypeOK /\ hubRx.ctr \in Nat /\ hubSession # None
      /\ hubSession \in Sessions
  BY DEF IInv, Types, HubTypeOK, FrameOK, Heard
<1>2. /\ hubSession' \in Sessions /\ hubSession' # None
      /\ hubSession'.key = hubSession.key /\ hubSession'.sent = hubSession.sent
  BY <1>1, SessionMoves DEF Heard
<1>3. HubTypeOK'
  BY <1>1, <1>2, Frames DEF HubTypeOK, Heard
<1> QED BY <1>1, <1>2, <1>3, HubQuiet DEF Heard, HubTypeOK

LEMMA HubAsks ==
    ASSUME SessionAssumption, IInv, NEW arrived \in BOOLEAN,
           AskRound(arrived) \/ ClosingPoll(arrived)
    PROVE  IInv'
<1> DEFINE s == NextCounter(hubSession)
<1>1. /\ HubTypeOK /\ hubSession # None /\ hubSession \in Sessions
      /\ hubSession.sent \in Nat
  BY DEF IInv, Types, HubTypeOK, AskRound, ClosingPoll, Sessions
<1>2. /\ s \in Sessions /\ s # None /\ s.key = hubSession.key
      /\ s.sent = hubSession.sent + 1
  BY <1>1, SessionMoves
<1>3. hubSession.sent < MAX_COUNTER
  BY <1>1, Sizes DEF AskRound, ClosingPoll, Exhausted
<1>4. PICK kind \in {"OK", "METADATA", "CHUNK"} : SealAndTransmit(kind, arrived)
  BY <1>1 DEF AskRound, ClosingPoll, Question, HubTypeOK
<1>5. /\ hubSession' = s /\ Records("hub", s)
      /\ hubRx' = NoFrame /\ edgeRx' \in {edgeRx, Sealed(kind, s)}
  BY <1>4 DEF SealAndTransmit, Transmit, Arrives, Lost
<1>6. /\ UNCHANGED <<hello, edgeVars, state>> /\ hubPc' \in {"visit", "closing"}
      /\ hubPc \in {"visit", "closing"}
  BY DEF AskRound, ClosingPoll
<1> HIDE DEF s
<1>7. HubTypeOK'
  BY <1>1, <1>2, <1>5, <1>6, Frames DEF HubTypeOK
<1> QED BY <1>1, <1>2, <1>3, <1>5, <1>6, <1>7, HubSeals

LEMMA HubHearsTail ==
    ASSUME SessionAssumption, IInv, NEW arrived \in BOOLEAN, HeardTail(arrived)
    PROVE  IInv'
<1> DEFINE o == Opened(hubSession, hubRx)
           s == NextCounter(o)
<1>1. /\ HubTypeOK /\ hubRx.ctr \in Nat /\ hubPc = "visit"
      /\ hubSession # None /\ hubSession \in Sessions
      /\ hubSession.sent \in Nat
  BY DEF IInv, Types, HubTypeOK, FrameOK, HeardTail, Sessions
<1>2. /\ o \in Sessions /\ o # None /\ o.key = hubSession.key
      /\ o.sent = hubSession.sent
  BY <1>1, SessionMoves DEF HeardTail
<1>3. /\ s \in Sessions /\ s # None /\ s.key = hubSession.key
      /\ s.sent = hubSession.sent + 1
  BY <1>2, SessionMoves
<1>4. /\ UNCHANGED <<hubPc, hello, edgeVars>> /\ state' = "OK" /\ hubRx' = NoFrame
      /\ \/ hubSession' = o /\ UNCHANGED <<edgeRx, ghostVars>>
         \/ /\ ~Exhausted(hubSession) /\ hubSession' = s /\ Records("hub", s)
            /\ edgeRx' \in {edgeRx, Sealed("final-OK", s)}
  BY DEF HeardTail, Arrives, Lost
<1> HIDE DEF o, s
<1>5. HubTypeOK'
  BY <1>1, <1>2, <1>3, <1>4, Frames DEF HubTypeOK
<1>6. CASE hubSession' = o /\ UNCHANGED <<edgeRx, ghostVars>>
  BY <1>1, <1>2, <1>4, <1>5, <1>6, HubQuiet
<1>7. CASE /\ ~Exhausted(hubSession) /\ hubSession' = s /\ Records("hub", s)
           /\ edgeRx' \in {edgeRx, Sealed("final-OK", s)}
  <2>1. hubSession.sent < MAX_COUNTER
    BY <1>1, <1>7, Sizes DEF Exhausted
  <2> QED BY <1>1, <1>3, <1>4, <1>5, <1>7, <2>1, HubSeals
<1> QED BY <1>4, <1>6, <1>7

LEMMA HubStep ==
    ASSUME SessionAssumption, IInv, Hub \/ HubReboot
    PROVE  IInv'
<1> USE DEF SessionAssumption
<1>0. HubTypeOK
  BY DEF IInv, Types
<1>1. CASE \/ BeginHandshake \/ HandshakeFails \/ BeginVisit \/ AskRoundRaises
           \/ NotTheAnswer \/ Unanswered \/ ClosingPollRaises
  <2>1. /\ UNCHANGED <<hubSession, state, edgeVars, edgeRx, ghostVars>>
        /\ hubRx' \in {hubRx, NoFrame} /\ hello' \in {hello, None}
        /\ hubPc' = "welcome" => hubPc = "welcome"
    BY <1>1 DEF BeginHandshake, HandshakeFails, BeginVisit, AskRoundRaises,
                NotTheAnswer, Unanswered, ClosingPollRaises
  <2>2. HubTypeOK'
    BY <1>0, <1>1, Frames
    DEF HubTypeOK, BeginHandshake, HandshakeFails, BeginVisit, AskRoundRaises,
        NotTheAnswer, Unanswered, ClosingPollRaises
  <2> QED BY <2>1, <2>2, HubQuiet
<1>2. CASE HubReboot
  <2>1. HubTypeOK'
    BY <1>2, Frames DEF HubTypeOK, HubReboot
  <2> QED BY <1>2, <2>1, HubQuiet DEF HubReboot
<1>3. CASE EndVisit \/ ClosingOver
  <2>1. /\ hubPc \in {"visit", "closing"} /\ hubPc' = "between"
        /\ hubSession' = None \/ UNCHANGED hubSession
        /\ state' \in {state, "OK"}
    BY <1>3 DEF EndVisit, ClosingOver, VisitOver
  <2> QED BY <1>3, <2>1, HubEnds DEF EndVisit, ClosingOver
<1>4. CASE \E arrived \in BOOLEAN : SendInit(arrived) \/ SendWelcome(arrived)
  <2>1. PICK arrived \in BOOLEAN : SendInit(arrived) \/ SendWelcome(arrived)
    BY <1>4
  <2>2. PICK p \in {Open("INIT", None), Open("WELCOME", hello)} :
           /\ p.kind = "INIT" => hubPc = "init"
           /\ p.kind = "WELCOME" => hubPc = "welcome"
           /\ hubRx' = NoFrame /\ edgeRx' \in {edgeRx, p}
    <3>1. CASE SendInit(arrived)
      BY <3>1 DEF SendInit, Open, Transmit, Arrives, Lost
    <3>2. CASE SendWelcome(arrived)
      BY <3>2 DEF SendWelcome, Open, Transmit, Arrives, Lost
    <3> QED BY <2>1, <3>1, <3>2
  <2>3. UNCHANGED <<hubPc, hello, hubSession, state, edgeVars, ghostVars>>
    BY <2>1 DEF SendInit, SendWelcome
  <2> QED BY <2>2, <2>3, HubSends
<1> QED
  BY <1>1, <1>2, <1>3, <1>4, HubGotHello, HubGotAck, HubHears, HubAsks,
     HubHearsTail
  DEF Hub

-----------------------------------------------------------------------------
(* The Edge's steps.                                                       *)

LEMMA EdgeAnswersInit ==
    ASSUME SessionAssumption, IInv, AnswerInit
    PROVE  IInv'
<1> USE Sizes, Frames DEF IInv
<1> DEFINE k == CHOOSE k \in Keys : k \notin KeysInUse
<1>1. /\ edgeRx.kind = "INIT" /\ edgeRx # NoFrame /\ reply = NoFrame /\ hubRx = NoFrame
      /\ hubSession = None /\ hubPc # "welcome" /\ hello = None
  BY DEF AnswerInit, Hears, Types, HubTypeOK, EdgeTypeOK, Link, SealedKinds
<1>2. k \in Keys /\ k \notin KeysInUse
  BY <1>1, FreshKey
<1>3. k # None /\ (edgeSession # None => edgeSession.key # k)
  <2>1. k # None
    BY <1>2
  <2>2. edgeSession # None => edgeSession.key \in KeysInUse
    BY DEF KeysInUse, Keyed
  <2> HIDE DEF k
  <2> QED BY <1>2, <2>1, <2>2
<1>4. /\ hs_state' = k /\ reply' = Open("HELLO", k) /\ edgePc' = "reply"
      /\ edgeRx' = NoFrame /\ sealed' = {x \in sealed : x[2] # k} /\ reused' = reused
      /\ UNCHANGED <<edgeSession, hubVars, hubRx>>
  BY DEF AnswerInit, Hears, Answer, EdgeStep
<1> HIDE DEF k
<1>5. /\ FrameOK(reply', EdgeKinds) /\ reply' # NoFrame
      /\ reply'.kind = "HELLO" /\ reply'.key = k /\ ~IsSealed(reply')
  <2>1. FrameOK(Open("HELLO", k), EdgeKinds) /\ Open("HELLO", k) # NoFrame
        /\ Open("HELLO", k).kind = "HELLO" /\ Open("HELLO", k).key = k
    BY <1>2, OpenFrames DEF EdgeKinds
  <2> QED BY <1>4, <2>1 DEF IsSealed
<1>6. Types'
  BY <1>2, <1>4, <1>5 DEF Types, HubTypeOK, EdgeTypeOK, HistoryTypeOK
<1>7. Offered' \subseteq {k}
  BY <1>1, <1>4, <1>5 DEF Offered
<1>8. Link'
  BY <1>1, <1>4 DEF Link
<1>9. Latest'
  BY <1>1, <1>3, <1>4, <1>5, <1>7 DEF Latest, KeysAgree
<1>10. Counted'
  BY <1>1, <1>4, <1>7 DEF Counted
<1>11. InStep'
  <2>1. SUFFICES ASSUME edgeSession # None
                 PROVE  edgeSession.sent + Answering' + ToAnswer' <= Asked'
    BY <1>4 DEF InStep
  <2>2. edgeSession.sent + Answering + ToAnswer <= MAX_COUNTER
    BY <2>1 DEF InStep
  <2>3. Asked' = MAX_COUNTER /\ Answering' = 0 /\ ToAnswer' = 0
    BY <1>1, <1>3, <1>4, <1>5, <1>7, <2>1 DEF Asked, Answering, ToAnswer
  <2> QED BY <2>1, <2>2, <2>3
<1> QED BY <1>6, <1>8, <1>9, <1>10, <1>11

LEMMA EdgeAnswersWelcome ==
    ASSUME SessionAssumption, IInv, AnswerWelcome
    PROVE  IInv'
<1> USE Sizes, Frames DEF IInv
<1>1. /\ edgeRx.kind = "WELCOME" /\ edgeRx # NoFrame /\ reply = NoFrame
      /\ hubRx = NoFrame /\ hubSession = None /\ ~IsSealed(edgeRx)
  BY DEF AnswerWelcome, Hears, Types, EdgeTypeOK, Link, SealedKinds, IsSealed
<1>2. /\ edgeSession' = IF hs_state = None THEN edgeSession ELSE Session(hs_state)
      /\ hs_state' = None /\ reply' = Open("ACK", None) /\ edgePc' = "reply"
      /\ edgeRx' = NoFrame /\ UNCHANGED <<ghostVars, hubVars, hubRx>>
  BY DEF AnswerWelcome, Hears, Answer, EdgeStep
<1>3. /\ FrameOK(reply', EdgeKinds) /\ reply' # NoFrame
      /\ reply'.kind = "ACK" /\ ~IsSealed(reply')
  <2>1. FrameOK(Open("ACK", None), EdgeKinds) /\ Open("ACK", None) # NoFrame
        /\ Open("ACK", None).kind = "ACK"
    BY OpenFrames DEF EdgeKinds
  <2> QED BY <1>2, <2>1 DEF IsSealed
<1>4. \/ hs_state = None /\ edgeSession' = edgeSession
      \/ /\ hs_state # None /\ edgeSession' \in Sessions /\ edgeSession' # None
         /\ edgeSession'.key = hs_state /\ edgeSession'.sent = 0
  BY <1>2, Begun DEF Types, EdgeTypeOK
<1>5. Types'
  BY <1>2, <1>3, <1>4 DEF Types, HubTypeOK, EdgeTypeOK, HistoryTypeOK
<1>6. Offered' = Offered
  BY <1>1, <1>2, <1>3 DEF Offered
<1>7. Link'
  BY <1>1, <1>2, <1>3 DEF Link
<1>8. Latest'
  <2>1. ASSUME NEW key \in Offered', edgeSession' # None
        PROVE  edgeSession'.key = key
    <3>1. key \in Offered
      BY <1>6
    <3>2. \/ hs_state = key
          \/ hs_state = None /\ (edgeSession # None => edgeSession.key = key)
      BY <3>1 DEF Latest
    <3>3. key # None
      BY <3>1 DEF Offered
    <3> QED BY <1>4, <2>1, <3>2, <3>3
  <2>2. edgeSession' # None => edgeSession'.key \in Keys
    BY <1>5 DEF Types, EdgeTypeOK, Sessions
  <2> QED BY <1>1, <1>2, <1>3, <2>1, <2>2 DEF Latest, KeysAgree
<1>9. Counted'
  <2>1. edgeSession' # None =>
           \A x \in sealed : x[1] = "edge" /\ x[2] = edgeSession'.key => x[3] <= edgeSession'.sent
    BY <1>4 DEF Counted
  <2>2. \A x \in sealed : x[2] # None
    BY DEF Types, HistoryTypeOK
  <2> QED BY <1>1, <1>2, <1>6, <2>1, <2>2 DEF Counted
<1>10. InStep'
  <2>1. Answering' = 0 /\ ToAnswer' = 0
    BY <1>2, <1>3 DEF Answering, ToAnswer
  <2>2. Asked' \in Nat
    BY <1>1, <1>2 DEF Asked
  <2>3. CASE edgeSession' = edgeSession
    <3>1. Asked' = Asked
      BY <1>2, <1>6, <2>3 DEF Asked
    <3> QED BY <2>1, <2>3, <3>1 DEF InStep
  <2>4. CASE edgeSession' # None /\ edgeSession'.sent = 0
    BY <2>1, <2>2, <2>4 DEF InStep
  <2> QED BY <1>4, <2>3, <2>4
<1> QED BY <1>5, <1>7, <1>8, <1>9, <1>10

LEMMA EdgeAnswersSealed ==
    ASSUME SessionAssumption, IInv, AnswerSealed
    PROVE  IInv'
<1> USE Sizes, Frames DEF IInv
<1>1. /\ edgeRx # NoFrame /\ edgeRx.ctr \in Nat /\ reply = NoFrame /\ edgePc = "listen"
      /\ hubRx = NoFrame /\ edgeSession # None /\ edgeSession \in Sessions
      /\ hubPc # "welcome" /\ ~IsSealed(reply)
  BY DEF AnswerSealed, Hears, Opens, IsSealed, Types, EdgeTypeOK, FrameOK, Link
<1>2. /\ edgeSession' \in Sessions /\ edgeSession' # None
      /\ edgeSession'.key = edgeSession.key /\ edgeSession'.sent = edgeSession.sent
      /\ IsSealed(edgeRx) /\ edgeRx.key = edgeSession.key
  BY <1>1, SessionMoves DEF AnswerSealed
<1>3. PICK kind \in {"OK", "METADATA", "DATA", "none"} :
         IF kind = "none" THEN UNCHANGED <<reply, edgePc>>
         ELSE reply' = Open(kind, edgeSession.key) /\ edgePc' = "reply"
  <2>1. \A kind \in Answers(edgeRx.kind) : kind \in {"OK", "METADATA", "DATA", "none"}
    BY <1>1, <1>2 DEF Answers, IsSealed, Types, EdgeTypeOK, FrameOK, HubKinds
  <2> QED BY <2>1 DEF AnswerSealed, Answer
<1>4. edgeRx' = NoFrame /\ UNCHANGED <<hs_state, ghostVars, hubVars, hubRx>>
  BY DEF AnswerSealed, Hears, EdgeStep
<1>5. /\ FrameOK(reply', EdgeKinds) /\ (reply' # NoFrame <=> edgePc' = "reply")
      /\ reply'.kind \in {"none"} \cup SealedKinds /\ edgePc' \in {"listen", "reply"}
      /\ IsSealed(reply') => reply'.key = edgeSession.key
  <2>1. CASE kind = "none"
    BY <1>1, <1>3, <2>1
  <2>2. CASE kind # "none"
    <3>1. PICK key \in Keys : key = edgeSession.key
      BY <1>1 DEF Sessions
    <3>2. /\ FrameOK(Open(kind, key), EdgeKinds) /\ Open(kind, key) # NoFrame
          /\ Open(kind, key).kind = kind /\ Open(kind, key).key = key
      <4>1. kind \in EdgeKinds /\ kind # "none" /\ key \in Keys \cup {None}
        BY <2>2 DEF EdgeKinds
      <4> HIDE DEF IInv
      <4> QED BY <4>1, OpenFrames
    <3>3. reply' = Open(kind, key) /\ edgePc' = "reply"
      BY <1>3, <2>2, <3>1
    <3> QED BY <2>2, <3>1, <3>2, <3>3 DEF SealedKinds
  <2> QED BY <2>1, <2>2
<1>6. Types'
  BY <1>2, <1>4, <1>5 DEF Types, HubTypeOK, EdgeTypeOK, HistoryTypeOK
<1>7. Offered' = Offered
  BY <1>1, <1>4, <1>5 DEF Offered, SealedKinds
<1>8. Link'
  BY <1>1, <1>4, <1>5 DEF Link
<1>9. Latest'
  BY <1>1, <1>2, <1>4, <1>5, <1>7 DEF Latest, KeysAgree, SealedKinds
<1>10. Counted'
  <2>1. \A x \in sealed' : x[1] = "edge" => x[2] # hs_state'
    BY <1>4 DEF Counted
  <2>2. \A x \in sealed' :
           x[1] = "edge" /\ x[2] = edgeSession'.key => x[3] <= edgeSession'.sent
    BY <1>1, <1>2, <1>4 DEF Counted
  <2>3. \A x \in sealed' : x[1] = "hub" => x[2] \notin Offered'
    BY <1>4, <1>7 DEF Counted
  <2> QED BY <1>4, <2>1, <2>2, <2>3 DEF Counted
<1>11. InStep'
  <2>1. /\ edgeSession.sent + Answering + ToAnswer <= Asked /\ Answering = 0
        /\ ToAnswer = 1
    BY <1>1, <1>2 DEF InStep, Answering, ToAnswer
  <2>2. Answering' <= 1 /\ Answering' \in Nat /\ ToAnswer' = 0
    BY <1>4 DEF Answering, ToAnswer
  <2>3. Asked' = Asked
    BY <1>2, <1>4, <1>7 DEF Asked
  <2> QED BY <1>1, <1>2, <2>1, <2>2, <2>3 DEF InStep
<1> QED BY <1>6, <1>8, <1>9, <1>10, <1>11

LEMMA EdgeReplies ==
    ASSUME SessionAssumption, IInv, NEW arrived \in BOOLEAN, SendReply(arrived)
    PROVE  IInv'
<1> USE Sizes, Frames DEF IInv
<1> DEFINE s == NextCounter(edgeSession)
           p == IF IsSealed(reply) THEN Sealed(reply.kind, s) ELSE reply
<1>1. /\ reply # NoFrame /\ reply.kind \in EdgeKinds \ {"none"}
      /\ hubRx = NoFrame /\ hs_state' = hs_state
      /\ reply' = NoFrame /\ edgePc' = "listen" /\ edgeRx' = NoFrame
      /\ hubRx' \in {hubRx, p} /\ UNCHANGED hubVars
  BY DEF SendReply, Arrives, Lost, Types, EdgeTypeOK, FrameOK, Link, NoFrame
<1>2. CASE ~IsSealed(reply)
  <2>1. hubRx' \in {NoFrame, reply} /\ UNCHANGED <<edgeSession, ghostVars>>
    BY <1>1, <1>2 DEF SendReply
  <2>2. Types'
    BY <1>1, <2>1 DEF Types, HubTypeOK, EdgeTypeOK, HistoryTypeOK
  <2>3. Offered' \subseteq Offered
    BY <1>1, <2>1 DEF Offered
  <2>4. Link'
    BY <1>1, <2>1 DEF Link
  <2>5. Latest'
    BY <1>1, <2>1, <2>3 DEF Latest, KeysAgree
  <2>6. Counted'
    BY <1>1, <2>1, <2>3 DEF Counted
  <2>7. InStep'
    <3>1. Answering' = 0 /\ ToAnswer' = 0
      BY <1>1 DEF Answering, ToAnswer
    <3>2. Asked <= Asked' /\ Asked' \in Nat
      <4>1. CASE hubSession # None
        BY <1>1, <4>1 DEF Asked
      <4>2. CASE hubSession = None /\ edgeSession.key \in Offered
        BY <1>1, <4>2 DEF Asked
      <4>3. CASE hubSession = None /\ edgeSession.key \notin Offered
        <5>1. edgeSession'.key \notin Offered'
          BY <2>1, <2>3, <4>3
        <5> QED BY <1>1, <4>3, <5>1 DEF Asked
      <4> QED BY <4>1, <4>2, <4>3
    <3>3. SUFFICES ASSUME edgeSession # None PROVE edgeSession.sent <= Asked'
      BY <2>1, <3>1 DEF InStep
    <3>4. edgeSession.sent + Answering + ToAnswer <= Asked
      BY <3>3 DEF InStep
    <3> QED BY <3>2, <3>3, <3>4
  <2> QED BY <2>2, <2>4, <2>5, <2>6, <2>7
<1>3. CASE IsSealed(reply)
  <2>1. /\ edgeSession # None /\ edgeSession \in Sessions
        /\ reply.kind \in EdgeKinds \cap SealedKinds
    BY <1>1, <1>3 DEF Latest, Types, EdgeTypeOK, IsSealed, SealedKinds
  <2>2. /\ s \in Sessions /\ s # None /\ s.key = edgeSession.key
        /\ s.sent = edgeSession.sent + 1
    BY <2>1, SessionMoves
  <2>3. edgeSession.sent + 1 + ToAnswer <= Asked
    BY <1>3, <2>1 DEF InStep, Answering
  <2>4. s.sent <= Asked /\ s.sent <= MAX_COUNTER /\ s.sent \in Nat
    BY <2>1, <2>2, <2>3
  <2>5. edgeSession' = s /\ Records("edge", s)
    BY <1>3 DEF SendReply
  <2>6. FrameOK(p, EdgeKinds) /\ IsSealed(p) /\ p.kind \in SealedKinds
    BY <1>3, <2>1, <2>2, <2>4, SealedFrames
  <2> HIDE DEF p, s
  <2>7. \A x \in sealed : x[1] = "edge" /\ x[2] = s.key => x[3] < s.sent
    BY <2>1, <2>2 DEF Counted, Types, HistoryTypeOK
  <2>8. /\ ~reused' /\ HistoryTypeOK'
        /\ sealed' \subseteq sealed \cup {<<"edge", s.key, s.sent>>}
    BY <2>2, <2>4, <2>5, <2>7, Recorded DEF Types, Counted
  <2>9. Types'
    BY <1>1, <2>2, <2>5, <2>6, <2>8 DEF Types, HubTypeOK, EdgeTypeOK
  <2>10. /\ reply.kind # "HELLO" /\ hubRx'.kind # "HELLO" /\ hubRx'.kind # "ACK"
         /\ hubPc # "welcome"
    BY <1>1, <2>1, <2>6 DEF SealedKinds, Link, IsSealed
  <2>11. Offered' = Offered
    BY <1>1, <2>10 DEF Offered
  <2>12. Link'
    BY <1>1, <2>6, <2>10 DEF Link
  <2>13. Latest'
    <3>1. edgeSession' # None /\ edgeSession'.key = edgeSession.key
      BY <2>2, <2>5
    <3>2. /\ hs_state' = hs_state /\ hubPc' = hubPc /\ hubSession' = hubSession
          /\ ~IsSealed(reply')
      BY <1>1 DEF IsSealed, NoFrame
    <3>3. \A key \in Offered' : \/ hs_state' = key
                                \/ /\ hs_state' = None
                                   /\ edgeSession' # None => edgeSession'.key = key
      BY <2>1, <2>11, <3>1, <3>2 DEF Latest
    <3> QED BY <2>1, <2>10, <3>1, <3>2, <3>3 DEF Latest, KeysAgree
  <2>14. Counted'
    <3>1. \A x \in sealed' : \/ x \in sealed
                             \/ x[1] = "edge" /\ x[2] = s.key /\ x[3] = s.sent
      BY <2>8
    <3>2. \A x \in sealed' : x[1] = "edge" /\ x[2] = s.key => x[3] <= s.sent
      BY <2>4, <2>7, <3>1 DEF Types, HistoryTypeOK
    <3>3. s.key # hs_state
      BY <2>1, <2>2 DEF Latest
    <3> QED BY <1>1, <2>2, <2>5, <2>8, <2>11, <3>1, <3>2, <3>3 DEF Counted
  <2>15. InStep'
    <3>1. Answering' = 0 /\ ToAnswer' = 0
      BY <1>1 DEF Answering, ToAnswer
    <3>2. Asked' = Asked
      BY <1>1, <2>2, <2>5, <2>11 DEF Asked
    <3> QED BY <2>2, <2>4, <2>5, <3>1, <3>2 DEF InStep
  <2> QED BY <2>9, <2>12, <2>13, <2>14, <2>15
<1> QED BY <1>2, <1>3

LEMMA EdgeForgets ==
    ASSUME SessionAssumption, IInv, CannotOpen \/ EdgeReboot
    PROVE  IInv'
<1> USE Sizes, Frames DEF IInv
<1>1. /\ edgeRx' = NoFrame /\ UNCHANGED <<ghostVars, hubVars, hubRx>>
      /\ \/ UNCHANGED edgeVars
         \/ /\ edgePc' = "listen" /\ reply' = NoFrame
            /\ hs_state' = None /\ edgeSession' = None
  BY DEF CannotOpen, Hears, EdgeStep, EdgeReboot
<1>2. Types'
  BY <1>1 DEF Types, HubTypeOK, EdgeTypeOK, HistoryTypeOK
<1>3. Offered' \subseteq Offered
  BY <1>1 DEF Offered
<1>4. Link'
  BY <1>1 DEF Link
<1>5. Latest'
  BY <1>1, <1>3 DEF Latest, KeysAgree
<1>6. Counted'
  <2>1. \A x \in sealed : x[2] # None
    BY DEF Types, HistoryTypeOK
  <2> QED BY <1>1, <1>3, <2>1 DEF Counted
<1>7. InStep'
  <2>1. CASE UNCHANGED edgeVars
    <3>1. Answering' = Answering /\ ToAnswer' = 0 /\ Asked' = Asked
      BY <1>1, <2>1 DEF Answering, ToAnswer, Asked, Offered
    <3> QED BY <2>1, <3>1 DEF InStep
  <2>2. CASE edgeSession' = None
    BY <2>2 DEF InStep
  <2> QED BY <1>1, <2>1, <2>2
<1> QED BY <1>2, <1>4, <1>5, <1>6, <1>7

-----------------------------------------------------------------------------
(* The theorems.                                                           *)

LEMMA Initially ==
    ASSUME SessionAssumption, Init
    PROVE  IInv
<1> USE Frames DEF Init
<1>1. Types
  BY DEF Types, HubTypeOK, EdgeTypeOK, HistoryTypeOK
<1>2. Offered = {}
  BY DEF Offered, SessionAssumption
<1> QED
  BY <1>1, <1>2 DEF IInv, Link, Latest, Counted, InStep, KeysAgree

LEMMA IInvStep ==
    ASSUME SessionAssumption, IInv, [Next]_vars
    PROVE  IInv'
<1>1. CASE UNCHANGED vars
  BY <1>1
  DEF IInv, Types, HubTypeOK, EdgeTypeOK, HistoryTypeOK, Link, Latest, KeysAgree, Counted,
      InStep, Offered, Answering, ToAnswer, Asked
<1> QED
  BY <1>1, HubStep, EdgeAnswersInit, EdgeAnswersWelcome, EdgeAnswersSealed,
     EdgeReplies,
     EdgeForgets
  DEF Next, Edge

\* Two ends that both hold a session hold the same one.
THEOREM SessionsAgree == ASSUME SessionAssumption PROVE Spec => []KeysAgree
<1>1. IInv => KeysAgree
  BY DEF IInv, Latest
<1> QED BY <1>1, Initially, IInvStep, PTL DEF Spec

\* No counter is sealed twice under one key in one direction.
THEOREM NoncesAreFresh == ASSUME SessionAssumption PROVE Spec => []NoNonceReuse
<1>1. IInv => NoNonceReuse
  BY DEF IInv, Counted, NoNonceReuse
<1> QED BY <1>1, Initially, IInvStep, PTL DEF Spec
=============================================================================
