---------------------------- MODULE ControlProofs ----------------------------
(***************************************************************************)
(* What signed commands promise, proved of ControlPlane for any number of  *)
(* commands, restarts, rotations and failures.                             *)
(*                                                                         *)
(* Everything rests on what the artifacts under way are (Minted): each was *)
(* given a number of its own by the root the Hub has or had.  While the    *)
(* counters reach their files, the numbers of the Hub's root are below the *)
(* one in the Hub's file (Recorded), so no restart issues one again, and a *)
(* command that was carried out is below the Edge's mark (Spent), in RAM   *)
(* and in its file.  What the Edge holds back is the head of the queue as  *)
(* long as the Hub keeps its queue (HeadHeld), and whatever is under its   *)
(* mark was carried out or is about to be (Taken).                         *)
(***************************************************************************)
EXTENDS ControlPlane, TLAPS

Queued == {downlink[i] : i \in DOMAIN downlink}
UnderWay == Queued \cup ({pulled, pending} \ {None})

HubTypeOK ==
    /\ hubRoot \in Nat /\ counter \in Nat
    /\ hubFile \in Marks \cup {None}
    /\ hubPc \in {"idle", "counted", "saved"}
    /\ downlink \in Seq(Artifacts)
    /\ commands \in 0..MaxCommands
    /\ hubPc # "idle" => commands \in Ids

EdgeTypeOK ==
    /\ edgeRoot \in Nat /\ mark \in Nat
    /\ edgeFile \in Marks \cup {None}
    /\ edgePc \in {"home", "consume", "accept", "final", "drain"}
    /\ pulled \in Artifacts \cup {None}
    /\ pending \in Artifacts \cup {None}
    /\ edgePc \in {"consume", "accept", "final"} <=> pulled # None

HistoryTypeOK ==
    /\ ran \in [Ids -> 0..2]
    /\ confirmed \subseteq Ids
    /\ superseded \in BOOLEAN /\ unsaved \in BOOLEAN
    /\ hubRestarts \in Nat /\ edgeRestarts \in Nat /\ rotations \in Nat

TypeOK == HubTypeOK /\ EdgeTypeOK /\ HistoryTypeOK

\* Every command has an id of its own, and the root it was signed with is
\* one the Hub has or had; what is queued, the one it has.
Minted ==
    /\ \A a \in UnderWay : a.id <= commands /\ a.root <= hubRoot
    /\ \A a, b \in UnderWay : a.id = b.id => a = b
    /\ \A a \in Queued : a.root = hubRoot
    /\ \A i \in Ids : i > commands => ran[i] = 0
    /\ hubPc # "idle" =>
         /\ ran[commands] = 0
         /\ \A a \in UnderWay : a.id < commands
    /\ edgeRoot <= hubRoot
    /\ hubFile # None => hubFile.root <= hubRoot
    /\ edgeFile # None => edgeFile.root <= edgeRoot

\* What the Edge pulled and what it holds back.
InHand ==
    /\ edgePc = "accept" => pending = pulled
    /\ pending # None =>
         pending.root = edgeRoot /\ (pending.ctr <= mark <=> edgePc # "accept")
    /\ ReadBack(edgeFile, edgeRoot) <= mark

\* The Hub's file is never behind a number that is out.
Recorded == ~unsaved =>
    /\ counter = ReadBack(hubFile, hubRoot) + (IF hubPc = "counted" THEN 1 ELSE 0)
    /\ \A a \in UnderWay : a.root = hubRoot => a.ctr <= ReadBack(hubFile, hubRoot)
    /\ NoLockout

\* A command carried out is one the Edge will not take again.
Spent == ~unsaved =>
    /\ mark = ReadBack(edgeFile, edgeRoot)
    /\ CarriedOutOnce
    /\ \A a \in UnderWay : ran[a.id] > 0 =>
         a.root < edgeRoot \/ (a.root = edgeRoot /\ a.ctr <= mark)
    /\ pending # None => ran[pending.id] = 0

\* With the queue the Hub was given, the Edge has its head in hand.
HeadHeld == hubRestarts = 0 /\ rotations = 0 =>
    /\ pulled # None => downlink # <<>> /\ pulled = Head(downlink)
    /\ pending # None /\ edgePc # "drain" =>
         downlink # <<>> /\ pending = Head(downlink)
    /\ ~superseded

Undisturbed ==
    edgeRestarts = 0 /\ rotations = 0 /\ ~(unsaved /\ hubRestarts > 0)

Later(a, b) == b = a \/ a.ctr < b.ctr

\* Commands are taken in the order of their numbers, and one whose number is
\* not above the mark was carried out or waits to be.
InOrder ==
    /\ edgeRoot = hubRoot /\ \A a \in UnderWay : a.root = hubRoot
    /\ \A a \in UnderWay : a.ctr <= counter
    /\ mark <= counter
    /\ hubPc # "idle" => mark < counter /\ \A a \in UnderWay : a.ctr < counter
    /\ \A i, j \in DOMAIN downlink : i < j => downlink[i].ctr < downlink[j].ctr
    /\ pulled # None => \A a \in Queued : Later(pulled, a)
    /\ edgePc = "final" => pulled.ctr <= mark

RunOrHeld ==
    /\ \A a \in UnderWay : a.ctr <= mark =>
         ran[a.id] > 0 \/ (pending # None /\ pending.id = a.id)
    /\ \A i \in confirmed : ran[i] > 0 \/
         (edgePc = "drain" /\ pending # None /\ pending.id = i)

Taken == Undisturbed => InOrder /\ RunOrHeld

Core == TypeOK /\ Minted /\ InHand
IInv == Core /\ Recorded /\ Spent /\ HeadHeld

USE DEF vars, hubVars, edgeVars, ghostVars, boundVars

-----------------------------------------------------------------------------
(* Queues and marks.                                                       *)

LEMMA MarkRead ==
    ASSUME ControlAssumption, NEW file \in Marks \cup {None}, NEW root \in Nat
    PROVE  /\ ReadBack(file, root) \in Nat
           /\ file # None /\ file.root < root => ReadBack(file, root) = 0
           /\ ReadBack(None, root) = 0
BY DEF ReadBack, Marks

LEMMA MarkWritten ==
    ASSUME ControlAssumption, NEW n \in Nat, NEW root \in Nat
    PROVE  LET file == [root |-> root, counter |-> n]
           IN  /\ file \in Marks /\ file # None /\ file.root = root
               /\ ReadBack(file, root) = n
BY DEF ReadBack, Marks, ControlAssumption

LEMMA Popped ==
    ASSUME NEW q \in Seq(Artifacts), q # <<>>
    PROVE  /\ Head(q) \in {q[i] : i \in DOMAIN q}
           /\ Tail(q) \in Seq(Artifacts)
           /\ DOMAIN Tail(q) = 1..(Len(q) - 1) /\ DOMAIN q = 1..Len(q)
           /\ Len(q) \in Nat \ {0}
           /\ \A i \in DOMAIN Tail(q) : i + 1 \in DOMAIN q /\ Tail(q)[i] = q[i + 1]
           /\ {Tail(q)[i] : i \in DOMAIN Tail(q)} \subseteq {q[i] : i \in DOMAIN q}
<1>1. /\ Head(q) = q[1] /\ 1 \in DOMAIN q
      /\ Tail(q) \in Seq(Artifacts)
      /\ DOMAIN Tail(q) = 1..(Len(q) - 1) /\ DOMAIN q = 1..Len(q)
      /\ Len(q) \in Nat \ {0}
  OBVIOUS
<1>2. \A i \in DOMAIN Tail(q) : i + 1 \in DOMAIN q /\ Tail(q)[i] = q[i + 1]
  OBVIOUS
<1> QED BY <1>1, <1>2

LEMMA Pushed ==
    ASSUME NEW q \in Seq(Artifacts), NEW a \in Artifacts
    PROVE  LET r == Append(q, a)
           IN  /\ r \in Seq(Artifacts) /\ r # <<>>
               /\ {r[i] : i \in DOMAIN r} = {q[i] : i \in DOMAIN q} \cup {a}
               /\ DOMAIN r = 1..(Len(q) + 1) /\ DOMAIN q = 1..Len(q)
               /\ Len(q) \in Nat
               /\ \A i \in DOMAIN q : r[i] = q[i]
               /\ r[Len(q) + 1] = a
               /\ q # <<>> => Head(r) = Head(q)
<1> DEFINE r == Append(q, a)
<1>1. /\ r \in Seq(Artifacts) /\ r # <<>> /\ Len(q) \in Nat
      /\ DOMAIN r = 1..(Len(q) + 1) /\ DOMAIN q = 1..Len(q)
      /\ r[Len(q) + 1] = a /\ \A i \in 1..Len(q) : r[i] = q[i]
      /\ q # <<>> => Head(r) = Head(q)
  OBVIOUS
<1> HIDE DEF r
<1>2. DOMAIN r = DOMAIN q \cup {Len(q) + 1}
  BY <1>1
<1>3. {r[i] : i \in DOMAIN r} = {q[i] : i \in DOMAIN q} \cup {a}
  BY <1>1, <1>2
<1> QED BY <1>1, <1>3 DEF r

LEMMA UnderWayTyped ==
    ASSUME TypeOK
    PROVE  /\ UnderWay \subseteq Artifacts /\ Queued \subseteq UnderWay
           /\ pulled # None => pulled \in UnderWay
           /\ pending # None => pending \in UnderWay
           /\ downlink # <<>> => Head(downlink) \in Queued
<1>1. \A i \in DOMAIN downlink : downlink[i] \in Artifacts
  BY DEF TypeOK, HubTypeOK
<1>2. downlink # <<>> => Head(downlink) \in Queued
  BY Popped DEF Queued, TypeOK, HubTypeOK
<1> QED BY <1>1, <1>2 DEF UnderWay, Queued, TypeOK, EdgeTypeOK

LEMMA Empty ==
    {<<>>[i] : i \in DOMAIN <<>>} = {} /\ <<>> \in Seq(Artifacts)
<1>1. DOMAIN <<>> = {}
  OBVIOUS
<1> QED BY <1>1

-----------------------------------------------------------------------------
(* Types.                                                                  *)

LEMMA HubTypes ==
    ASSUME ControlAssumption, TypeOK, [Next]_vars
    PROVE  HubTypeOK'
<1> USE DEF ControlAssumption, HubTypeOK, TypeOK
<1>1. CASE Count
  BY <1>1 DEF Count, Ids
<1>2. CASE \E ok \in BOOLEAN : SaveCounter(ok)
  <2>1. [root |-> hubRoot, counter |-> counter] \in Marks
    BY MarkWritten
  <2> QED BY <1>2, <2>1 DEF SaveCounter
<1>3. CASE \E t \in Types : Queue(t)
  <2>1. PICK t \in Types : Queue(t)
    BY <1>3
  <2>2. Artifact(commands, t) \in Artifacts
    BY <2>1 DEF Queue, Artifact, Artifacts
  <2> QED BY <2>1, <2>2 DEF Queue
<1>4. CASE HubRestart \/ RotateHub
  <2>1. PICK root \in Nat : HubBoots(root) /\ UNCHANGED commands
    BY <1>4 DEF HubRestart, RotateHub
  <2>2. counter' \in Nat
    BY <2>1, MarkRead DEF HubBoots
  <2> QED BY <2>1, <2>2, Empty DEF HubBoots
<1>5. CASE \E heard \in BOOLEAN : FinalOk(heard)
  BY <1>5, Popped DEF FinalOk
<1>6. CASE UNCHANGED <<hubVars, commands>>
  BY <1>6
<1> QED
  BY <1>1, <1>2, <1>3, <1>4, <1>5, <1>6
  DEF Next, EdgeRestart, RotateEdge, EdgeBoots, Pull, Refuse, Apply, ApplyFails,
      AcceptCounter, FinalOkRaises, RunPending

LEMMA EdgeTypes ==
    ASSUME ControlAssumption, TypeOK, [Next]_vars
    PROVE  EdgeTypeOK'
<1> USE DEF ControlAssumption, EdgeTypeOK, TypeOK
<1>1. CASE \E root \in Nat : EdgeBoots(root)
  <2>1. PICK root \in Nat : EdgeBoots(root)
    BY <1>1
  <2>2. mark' \in Nat
    BY <2>1, MarkRead DEF EdgeBoots
  <2> QED BY <2>1, <2>2 DEF EdgeBoots
<1>2. CASE Pull
  <2>1. Head(downlink) \in Artifacts
    BY <1>2, UnderWayTyped DEF Pull
  <2> QED BY <1>2, <2>1 DEF Pull
<1>3. CASE Refuse \/ ApplyFails \/ FinalOkRaises
  BY <1>3 DEF Refuse, ApplyFails, FinalOkRaises
<1>4. CASE Apply
  BY <1>4 DEF Apply, Defer
<1>5. CASE \E ok \in BOOLEAN : AcceptCounter(ok)
  <2>1. PICK ok \in BOOLEAN : AcceptCounter(ok)
    BY <1>5
  <2>2. pulled \in Artifacts /\ pulled.ctr \in Nat
    BY <2>1 DEF AcceptCounter, Artifacts
  <2>3. edgeFile' \in Marks \cup {None}
    BY <2>1, <2>2, MarkWritten DEF AcceptCounter
  <2> QED BY <2>1, <2>2, <2>3 DEF AcceptCounter
<1>6. CASE \E heard \in BOOLEAN : FinalOk(heard)
  BY <1>6 DEF FinalOk
<1>7. CASE RunPending /\ ~EdgeBoots(edgeRoot)
  BY <1>7 DEF RunPending
<1>8. CASE UNCHANGED edgeVars
  BY <1>8
<1>9. EdgeRestart \/ RotateEdge => \E root \in Nat : EdgeBoots(root)
  BY DEF EdgeRestart, RotateEdge, HubTypeOK
<1> QED
  BY <1>1, <1>2, <1>3, <1>4, <1>5, <1>6, <1>7, <1>8, <1>9
  DEF Next, Count, SaveCounter, Queue, HubRestart, RotateHub, HubBoots

LEMMA HistoryTypes ==
    ASSUME ControlAssumption, TypeOK, [Next]_vars
    PROVE  HistoryTypeOK'
<1> USE DEF HistoryTypeOK, TypeOK
<1>1. CASE \E heard \in BOOLEAN : FinalOk(heard)
  BY <1>1 DEF FinalOk, EdgeTypeOK, Artifacts
<1>2. CASE RunPending
  BY <1>2 DEF RunPending, EdgeTypeOK
<1>3. CASE Apply
  BY <1>3 DEF Apply, Defer
<1>4. CASE \E ok \in BOOLEAN : SaveCounter(ok) \/ AcceptCounter(ok)
  BY <1>4 DEF SaveCounter, AcceptCounter
<1>5. CASE HubRestart \/ RotateHub \/ EdgeRestart \/ RotateEdge
  BY <1>5 DEF HubRestart, RotateHub, EdgeRestart, RotateEdge
<1>6. CASE UNCHANGED <<ghostVars, hubRestarts, edgeRestarts, rotations>>
  BY <1>6
<1> QED
  BY <1>1, <1>2, <1>3, <1>4, <1>5, <1>6
  DEF Next, Count, Queue, Pull, Refuse, ApplyFails, FinalOkRaises

LEMMA TypeStep ==
    ASSUME ControlAssumption, TypeOK, [Next]_vars
    PROVE  TypeOK'
BY HubTypes, EdgeTypes, HistoryTypes DEF TypeOK

-----------------------------------------------------------------------------
(* What is under way.                                                      *)

\* Only a command newly queued is under way that was not before.
LEMMA NothingNew ==
    ASSUME TypeOK, [Next]_vars, ~ \E t \in Types : Queue(t)
    PROVE  UnderWay' \subseteq UnderWay /\ Queued' \subseteq Queued
<1> USE UnderWayTyped DEF UnderWay, Queued
<1>1. CASE HubRestart \/ RotateHub
  BY <1>1, Empty DEF HubRestart, RotateHub, HubBoots
<1>2. CASE EdgeRestart \/ RotateEdge
  BY <1>2 DEF EdgeRestart, RotateEdge, EdgeBoots
<1>3. CASE Pull
  BY <1>3 DEF Pull
<1>4. CASE \E heard \in BOOLEAN : FinalOk(heard)
  BY <1>4, Popped DEF FinalOk, TypeOK, HubTypeOK
<1>5. CASE RunPending
  BY <1>5 DEF RunPending, EdgeBoots
<1>6. CASE Apply
  BY <1>6 DEF Apply, Defer
<1>7. CASE Refuse \/ ApplyFails \/ FinalOkRaises
  BY <1>7 DEF Refuse, ApplyFails, FinalOkRaises
<1>8. CASE \/ Count \/ UNCHANGED vars
           \/ \E ok \in BOOLEAN : SaveCounter(ok) \/ AcceptCounter(ok)
  BY <1>8 DEF Count, SaveCounter, AcceptCounter
<1> QED BY <1>1, <1>2, <1>3, <1>4, <1>5, <1>6, <1>7, <1>8 DEF Next

LEMMA OneNew ==
    ASSUME TypeOK, NEW t \in Types, Queue(t)
    PROVE  LET a == Artifact(commands, t)
           IN  /\ a \in Artifacts
               /\ Queued' = Queued \cup {a} /\ UnderWay' = UnderWay \cup {a}
               /\ a.id = commands /\ a.root = hubRoot /\ a.ctr = counter
<1>1. Artifact(commands, t) \in Artifacts
  BY DEF Queue, Artifact, Artifacts, TypeOK, HubTypeOK
<1>2. Queued' = Queued \cup {Artifact(commands, t)}
  BY <1>1, Pushed DEF Queue, Queued, TypeOK, HubTypeOK
<1> QED BY <1>1, <1>2 DEF UnderWay, Queue, Artifact

LEMMA MintedStep ==
    ASSUME ControlAssumption, Core, [Next]_vars
    PROVE  Minted'
<1> USE UnderWayTyped DEF Core, Minted
<1>1. TypeOK' /\ TypeOK
  BY TypeStep
<1>2. /\ \A a \in UnderWay : a.id \in Ids /\ a.id \in Nat /\ a.root \in Nat
      /\ commands \in Nat /\ hubRoot \in Nat /\ edgeRoot \in Nat
  BY <1>1 DEF Artifacts, Ids, TypeOK, HubTypeOK, EdgeTypeOK, ControlAssumption
<1>3. CASE \E t \in Types : Queue(t)
  <2>1. PICK t \in Types : Queue(t)
    BY <1>3
  <2>2. /\ hubPc # "idle" /\ hubPc' = "idle"
        /\ UNCHANGED <<hubRoot, hubFile, commands, edgeVars, ran>>
    BY <2>1 DEF Queue
  <2> QED BY <1>1, <1>2, <2>1, <2>2, OneNew
<1>4. CASE Count
  <2>1. /\ UnderWay' = UnderWay /\ Queued' = Queued
        /\ UNCHANGED <<hubRoot, hubFile, edgeVars, ran>>
        /\ commands' = commands + 1
    BY <1>4 DEF Count, UnderWay, Queued
  <2>2. commands' \in Ids
    BY <1>1, <1>4 DEF Count, TypeOK, HubTypeOK
  <2> QED BY <1>2, <2>1, <2>2 DEF Ids
<1>5. CASE ~Count /\ ~ \E t \in Types : Queue(t)
  <2>1. UnderWay' \subseteq UnderWay /\ Queued' \subseteq Queued
    BY <1>1, <1>5, NothingNew
  <2>2. CASE HubRestart \/ RotateHub
    <3>1. PICK root \in {hubRoot, hubRoot + 1} :
             HubBoots(root) /\ UNCHANGED <<ran, commands>>
      BY <2>2 DEF HubRestart, RotateHub
    <3>2. /\ hubRoot' = root /\ hubRoot <= root /\ hubPc' = "idle"
          /\ UNCHANGED <<hubFile, edgeVars, ran, commands>>
      BY <1>2, <3>1 DEF HubBoots
    <3>3. Queued' = {}
      BY <3>1, Empty DEF HubBoots, Queued
    <3>4. hubFile # None => hubFile.root \in Nat
      BY <1>1 DEF TypeOK, HubTypeOK, Marks
    <3> QED BY <1>2, <2>1, <3>2, <3>3, <3>4
  <2>3. CASE EdgeRestart \/ RotateEdge
    <3>1. /\ edgeRoot' \in {edgeRoot, hubRoot}
          /\ UNCHANGED <<hubVars, edgeFile, ran, commands>>
      BY <2>3 DEF EdgeRestart, RotateEdge, EdgeBoots
    <3>2. edgeFile # None => edgeFile.root \in Nat
      BY <1>1 DEF TypeOK, EdgeTypeOK, Marks
    <3> QED BY <1>2, <2>1, <3>1, <3>2
  <2>4. CASE RunPending
    <3>1. /\ UNCHANGED <<hubVars, edgeRoot, edgeFile, commands>>
          /\ \/ UNCHANGED ran
             \/ /\ pending # None
                /\ ran' = [ran EXCEPT ![pending.id] = IF @ = 0 THEN 1 ELSE 2]
      BY <2>4 DEF RunPending, EdgeBoots
    <3>2. pending # None => pending \in UnderWay
      BY <1>1
    <3>3. ran \in [Ids -> 0..2]
      BY <1>1 DEF TypeOK, HistoryTypeOK
    <3>4. hubPc # "idle" => commands \in Ids
      BY <1>1 DEF TypeOK, HubTypeOK
    <3> QED BY <1>2, <2>1, <3>1, <3>2, <3>3, <3>4
  <2>5. CASE \E ok \in BOOLEAN : SaveCounter(ok)
    <3>1. PICK ok \in BOOLEAN : SaveCounter(ok)
      BY <2>5
    <3>2. /\ hubFile' \in {hubFile, [root |-> hubRoot, counter |-> counter]}
          /\ hubPc # "idle"
          /\ UNCHANGED <<hubRoot, downlink, edgeVars, ran, commands>>
      BY <3>1 DEF SaveCounter
    <3> QED BY <1>2, <2>1, <3>2
  <2>6. CASE \E ok \in BOOLEAN : AcceptCounter(ok)
    <3>1. PICK ok \in BOOLEAN : AcceptCounter(ok)
      BY <2>6
    <3>2. /\ edgeFile' \in {edgeFile, [root |-> edgeRoot, counter |-> pulled.ctr]}
          /\ UNCHANGED <<hubVars, edgeRoot, ran, commands>>
      BY <3>1 DEF AcceptCounter
    <3> QED BY <1>2, <2>1, <3>2
  <2>7. CASE \/ Pull \/ Refuse \/ Apply \/ ApplyFails \/ FinalOkRaises
             \/ UNCHANGED vars \/ \E heard \in BOOLEAN : FinalOk(heard)
    <3>1. UNCHANGED <<hubRoot, hubFile, hubPc, edgeRoot, edgeFile, ran, commands>>
      BY <2>7 DEF Pull, Refuse, Apply, Defer, ApplyFails, FinalOkRaises, FinalOk
    <3> QED BY <1>2, <2>1, <3>1
  <2> QED BY <1>5, <2>2, <2>3, <2>4, <2>5, <2>6, <2>7 DEF Next
<1> QED BY <1>3, <1>4, <1>5

LEMMA InHandStep ==
    ASSUME ControlAssumption, Core, [Next]_vars
    PROVE  InHand'
<1> USE DEF Core, InHand
<1>1. TypeOK' /\ TypeOK
  BY TypeStep
<1>2. /\ pulled # None => pulled.ctr \in Nat
      /\ pending # None => pending.ctr \in Nat
      /\ mark \in Nat /\ ReadBack(edgeFile, edgeRoot) \in Nat
  BY <1>1, MarkRead DEF TypeOK, EdgeTypeOK, Artifacts
<1>3. CASE \E root : EdgeBoots(root)
  <2>1. PICK root : EdgeBoots(root)
    BY <1>3
  <2>2. mark' = ReadBack(edgeFile, edgeRoot)' /\ mark' \in Nat
    BY <1>1, <2>1 DEF EdgeBoots, ReadBack, TypeOK, EdgeTypeOK
  <2> QED BY <2>1, <2>2 DEF EdgeBoots
<1>4. CASE Apply
  <2>1. /\ pending' = pulled /\ edgePc' = "accept" /\ edgePc = "consume"
        /\ pulled.root = edgeRoot /\ pulled.ctr > mark
        /\ UNCHANGED <<pulled, edgeRoot, edgeFile, mark>>
    BY <1>4 DEF Apply, Defer, Verified
  <2>2. ReadBack(edgeFile, edgeRoot)' = ReadBack(edgeFile, edgeRoot)
    BY <2>1 DEF ReadBack
  <2>3. pulled # None
    BY <1>1, <2>1 DEF TypeOK, EdgeTypeOK
  <2> QED BY <1>2, <2>1, <2>2, <2>3
<1>5. CASE \E ok \in BOOLEAN : AcceptCounter(ok)
  <2>1. PICK ok \in BOOLEAN : AcceptCounter(ok)
    BY <1>5
  <2>2. /\ mark' = pulled.ctr /\ pending = pulled /\ pulled # None
        /\ mark' > mark /\ edgePc' = "final"
        /\ UNCHANGED <<pulled, pending, edgeRoot>>
    BY <1>1, <1>2, <2>1 DEF AcceptCounter, TypeOK, EdgeTypeOK
  <2>3. ReadBack(edgeFile, edgeRoot)' \in {ReadBack(edgeFile, edgeRoot), pulled.ctr}
    BY <1>1, <1>2, <2>1, MarkWritten
       DEF AcceptCounter, ReadBack, TypeOK, EdgeTypeOK
  <2> QED BY <1>2, <2>2, <2>3
<1>6. CASE RunPending /\ ~EdgeBoots(edgeRoot)
  <2>1. /\ pending' = None /\ edgePc' = "home"
        /\ UNCHANGED <<edgeRoot, edgeFile, mark>>
    BY <1>6 DEF RunPending
  <2> QED BY <1>2, <2>1 DEF ReadBack
<1>7. CASE \/ Pull \/ Refuse \/ ApplyFails \/ FinalOkRaises \/ UNCHANGED edgeVars
           \/ \E heard \in BOOLEAN : FinalOk(heard)
  <2>1. /\ UNCHANGED <<edgeRoot, edgeFile, mark, pending>>
        /\ (edgePc' = "accept") = (edgePc = "accept")
        /\ edgePc' = "accept" => UNCHANGED pulled
    BY <1>7 DEF Pull, Refuse, ApplyFails, FinalOkRaises, FinalOk
  <2> QED BY <1>2, <2>1 DEF ReadBack
<1> QED
  BY <1>3, <1>4, <1>5, <1>6, <1>7
  DEF Next, Count, SaveCounter, Queue, HubRestart, RotateHub, HubBoots, EdgeRestart,
      RotateEdge

LEMMA CoreStep ==
    ASSUME ControlAssumption, Core, [Next]_vars
    PROVE  Core'
BY TypeStep, MintedStep, InHandStep DEF Core

-----------------------------------------------------------------------------
(* The Hub's file and the Edge's mark.                                     *)

LEMMA RecordedStep ==
    ASSUME ControlAssumption, Core, Recorded, [Next]_vars
    PROVE  Recorded'
<1> USE UnderWayTyped DEF Core, Recorded, NoLockout
<1> DEFINE R == ReadBack(hubFile, hubRoot)
<1> SUFFICES ASSUME ~unsaved' PROVE
        /\ counter' = R' + (IF hubPc' = "counted" THEN 1 ELSE 0)
        /\ \A a \in UnderWay' : a.root = hubRoot' => a.ctr <= R'
        /\ edgeRoot' = hubRoot' => mark' <= R'
  OBVIOUS
<1>1. TypeOK' /\ TypeOK /\ Minted /\ InHand
  BY TypeStep
<1>2. ~unsaved
  BY <1>1
     DEF Next, Count, SaveCounter, Queue, HubRestart, RotateHub, EdgeRestart,
          RotateEdge, Pull, Refuse, Apply, ApplyFails, AcceptCounter, FinalOk,
          FinalOkRaises, RunPending, TypeOK, HistoryTypeOK
<1>3. /\ R \in Nat /\ mark \in Nat /\ counter \in Nat
      /\ hubRoot \in Nat /\ edgeRoot \in Nat
      /\ \A a \in UnderWay : a.ctr \in Nat /\ a.root \in Nat
  BY <1>1, MarkRead DEF TypeOK, HubTypeOK, EdgeTypeOK, Artifacts
<1>4. CASE \E t \in Types : Queue(t)
  <2>1. PICK t \in Types : Queue(t)
    BY <1>4
  <2>2. R' = R /\ hubPc = "saved" /\ hubPc' = "idle" /\ counter' = counter
        /\ UNCHANGED <<hubRoot, edgeVars>>
    BY <2>1 DEF Queue, ReadBack
  <2> QED BY <1>1, <1>2, <1>3, <2>1, <2>2, OneNew
<1>5. CASE Count
  <2>1. /\ UnderWay' = UnderWay /\ R' = R /\ UNCHANGED <<hubRoot, edgeVars>>
        /\ hubPc = "idle" /\ hubPc' = "counted" /\ counter' = counter + 1
    BY <1>5 DEF Count, UnderWay, Queued, ReadBack
  <2> QED BY <1>1, <1>2, <1>3, <2>1
<1>6. CASE \E ok \in BOOLEAN : SaveCounter(ok)
  <2>1. /\ UnderWay' = UnderWay /\ UNCHANGED <<hubRoot, counter, edgeVars>>
        /\ hubFile' = [root |-> hubRoot, counter |-> counter]
        /\ hubPc = "counted" /\ hubPc' = "saved"
    BY <1>1, <1>6 DEF SaveCounter, UnderWay, Queued, TypeOK, HistoryTypeOK
  <2>2. R' = counter
    BY <1>3, <2>1, MarkWritten
  <2> QED BY <1>1, <1>2, <1>3, <2>1, <2>2
<1>7. CASE HubRestart
  <2>1. /\ UNCHANGED <<hubRoot, edgeVars>> /\ R' = R
        /\ counter' = R /\ hubPc' = "idle"
    BY <1>7 DEF HubRestart, HubBoots, ReadBack
  <2>2. UnderWay' \subseteq UnderWay
    BY <1>1, <1>7, NothingNew DEF HubRestart, HubBoots, Queue
  <2> QED BY <1>1, <1>2, <1>3, <2>1, <2>2
<1>8. CASE RotateHub
  <2>1. /\ UNCHANGED edgeVars /\ counter' = R' /\ hubPc' = "idle"
        /\ hubRoot' = hubRoot + 1
    BY <1>8 DEF RotateHub, HubBoots, ReadBack
  <2>2. UnderWay' \subseteq UnderWay
    BY <1>1, <1>8, NothingNew DEF RotateHub, HubBoots, Queue
  <2>3. \A a \in UnderWay' : a.root # hubRoot'
    BY <1>1, <1>3, <2>1, <2>2 DEF Minted
  <2>4. edgeRoot' # hubRoot'
    BY <1>1, <1>3, <2>1 DEF Minted
  <2> QED BY <2>1, <2>3, <2>4, <1>1 DEF TypeOK, HubTypeOK
<1>9. CASE RotateEdge
  <2>1. /\ UNCHANGED hubVars /\ edgeRoot # hubRoot /\ edgeRoot' = hubRoot /\ R' = R
        /\ mark' = ReadBack(edgeFile, hubRoot)
    BY <1>9 DEF RotateEdge, EdgeBoots, ReadBack
  <2>2. edgeFile # None => edgeFile.root < hubRoot
    BY <1>1, <1>3, <2>1 DEF Minted, TypeOK, EdgeTypeOK, Marks
  <2>3. mark' = 0
    BY <1>1, <1>3, <2>1, <2>2, MarkRead DEF TypeOK, EdgeTypeOK
  <2>4. UnderWay' \subseteq UnderWay
    BY <1>1, <1>9, NothingNew DEF RotateEdge, EdgeBoots, Queue
  <2> QED BY <1>1, <1>2, <1>3, <2>1, <2>3, <2>4
<1>10. CASE EdgeRestart \/ RunPending
  <2>1. /\ UNCHANGED <<hubVars, edgeRoot>> /\ R' = R
        /\ mark' \in {mark, ReadBack(edgeFile, edgeRoot)}
    BY <1>10 DEF EdgeRestart, RunPending, EdgeBoots, ReadBack
  <2>2. mark' <= mark
    BY <1>1, <1>3, <2>1 DEF InHand, TypeOK, EdgeTypeOK
  <2>3. UnderWay' \subseteq UnderWay
    BY <1>1, <2>1, NothingNew DEF Queue
  <2> QED BY <1>1, <1>2, <1>3, <2>1, <2>2, <2>3 DEF TypeOK, EdgeTypeOK
<1>11. CASE \E ok \in BOOLEAN : AcceptCounter(ok)
  <2>1. /\ UNCHANGED <<hubVars, edgeRoot>> /\ R' = R /\ mark' = pulled.ctr
        /\ UnderWay' = UnderWay
        /\ pulled = pending /\ pending # None /\ pending.root = edgeRoot
    BY <1>1, <1>11
       DEF AcceptCounter, ReadBack, UnderWay, Queued, InHand, TypeOK,
                       EdgeTypeOK
  <2> QED BY <1>1, <1>2, <1>3, <2>1
<1>12. CASE \/ Pull \/ Refuse \/ Apply \/ ApplyFails \/ FinalOkRaises
            \/ UNCHANGED vars \/ \E heard \in BOOLEAN : FinalOk(heard)
  <2>1. UNCHANGED <<hubRoot, counter, hubFile, hubPc, edgeRoot, mark>> /\ R' = R
    BY <1>12
       DEF Pull, Refuse, Apply, ApplyFails, FinalOkRaises, FinalOk, ReadBack
  <2>2. ~ \E t \in Types : Queue(t)
    BY <2>1, <1>12 DEF Queue
  <2>3. UnderWay' \subseteq UnderWay
    BY <1>1, <2>2, NothingNew
  <2> QED BY <1>1, <1>2, <1>3, <2>1, <2>3
<1> QED
  BY <1>4, <1>5, <1>6, <1>7, <1>8, <1>9, <1>10, <1>11, <1>12 DEF Next

LEMMA SpentStep ==
    ASSUME ControlAssumption, Core, Spent, [Next]_vars
    PROVE  Spent'
<1> USE UnderWayTyped DEF Core, Spent, CarriedOutOnce
<1> DEFINE B == ReadBack(edgeFile, edgeRoot)
<1> SUFFICES ASSUME ~unsaved' PROVE
        /\ mark' = B'
        /\ \A i \in Ids : ran'[i] <= 1
        /\ \A a \in UnderWay' : ran'[a.id] > 0 =>
              a.root < edgeRoot' \/ (a.root = edgeRoot' /\ a.ctr <= mark')
        /\ pending' # None => ran'[pending'.id] = 0
  OBVIOUS
<1>1. TypeOK' /\ TypeOK /\ Minted /\ InHand
  BY TypeStep
<1>2. ~unsaved
  BY <1>1
     DEF Next, Count, SaveCounter, Queue, HubRestart, RotateHub, EdgeRestart,
          RotateEdge, Pull, Refuse, Apply, ApplyFails, AcceptCounter, FinalOk,
          FinalOkRaises, RunPending, TypeOK, HistoryTypeOK
<1>3. /\ mark \in Nat /\ hubRoot \in Nat /\ edgeRoot \in Nat
      /\ \A a \in UnderWay : a.ctr \in Nat /\ a.root \in Nat /\ a.id \in Ids
      /\ ran \in [Ids -> 0..2]
  BY <1>1 DEF TypeOK, HubTypeOK, EdgeTypeOK, HistoryTypeOK, Artifacts
<1>4. CASE \E t \in Types : Queue(t)
  <2>1. PICK t \in Types : Queue(t)
    BY <1>4
  <2>2. UNCHANGED <<edgeVars, ran>> /\ B' = B /\ hubPc # "idle"
    BY <2>1 DEF Queue, ReadBack
  <2>3. ran[commands] = 0
    BY <1>1, <2>2 DEF Minted
  <2> QED BY <1>2, <1>3, <2>1, <2>2, <2>3, OneNew
<1>5. CASE EdgeRestart \/ RotateEdge
  <2>1. /\ UNCHANGED <<hubVars, ran>> /\ pending' = None /\ mark' = B'
        /\ edgeRoot' \in {edgeRoot, hubRoot} /\ UNCHANGED edgeFile
        /\ edgeRoot' = edgeRoot => B' = B
    BY <1>5 DEF EdgeRestart, RotateEdge, EdgeBoots, ReadBack
  <2>2. UnderWay' \subseteq UnderWay
    BY <1>1, <2>1, NothingNew DEF Queue
  <2>3. CASE edgeRoot' = edgeRoot
    BY <1>2, <1>3, <2>1, <2>2, <2>3
  <2>4. CASE edgeRoot' # edgeRoot
    <3>1. edgeRoot' > edgeRoot
      BY <1>1, <1>3, <2>1, <2>4 DEF Minted
    <3> QED BY <1>2, <1>3, <2>1, <2>2, <3>1
  <2> QED BY <2>3, <2>4
<1>6. CASE RunPending
  <2>1. /\ UNCHANGED <<hubVars, edgeRoot, edgeFile>> /\ B' = B
        /\ mark' \in {mark, B} /\ pending' = None
        /\ edgePc = "drain"
        /\ ran' = IF pending = None THEN ran
                  ELSE [ran EXCEPT ![pending.id] = IF @ = 0 THEN 1 ELSE 2]
    BY <1>6 DEF RunPending, EdgeBoots, ReadBack
  <2>2. UnderWay' \subseteq UnderWay
    BY <1>1, <2>1, NothingNew DEF Queue
  <2>3. CASE pending = None
    BY <1>2, <1>3, <2>1, <2>2, <2>3
  <2>4. CASE pending # None
    <3>1. /\ ran[pending.id] = 0 /\ pending \in UnderWay /\ pending.id \in Ids
          /\ ran' = [ran EXCEPT ![pending.id] = 1]
      BY <1>1, <1>2, <1>3, <2>1, <2>4
    <3>2. pending.root = edgeRoot /\ pending.ctr <= mark
      BY <1>1, <2>1, <2>4 DEF InHand
    <3>3. \A a \in UnderWay : a.id = pending.id => a = pending
      BY <1>1, <3>1 DEF Minted
    <3>4. \A i \in Ids : ran'[i] = IF i = pending.id THEN 1 ELSE ran[i]
      BY <1>3, <3>1
    <3> QED BY <1>2, <1>3, <2>1, <2>2, <3>2, <3>3, <3>4
  <2> QED BY <2>3, <2>4
<1>7. CASE Apply
  <2>1. /\ UNCHANGED <<hubVars, edgeRoot, edgeFile, mark, ran>> /\ B' = B
        /\ pending' = pulled /\ edgePc = "consume"
        /\ pulled.ctr > mark /\ pulled.root = edgeRoot
    BY <1>7 DEF Apply, Defer, Verified, ReadBack
  <2>2. UnderWay' \subseteq UnderWay
    BY <1>1, <2>1, NothingNew DEF Queue
  <2>3. pulled \in UnderWay
    BY <1>1, <2>1 DEF TypeOK, EdgeTypeOK
  <2>4. ~(ran[pulled.id] > 0)
    BY <1>2, <1>3, <2>1, <2>3
  <2>5. ran[pulled.id] = 0
    BY <1>3, <2>3, <2>4
  <2> QED BY <1>2, <1>3, <2>1, <2>2, <2>5
<1>8. CASE \E ok \in BOOLEAN : AcceptCounter(ok)
  <2>1. PICK ok \in BOOLEAN : AcceptCounter(ok)
    BY <1>8
  <2>2. /\ UNCHANGED <<hubVars, edgeRoot, pulled, pending, ran>>
        /\ UnderWay' = UnderWay /\ edgePc = "accept"
        /\ mark' = pulled.ctr /\ edgeFile' = [root |-> edgeRoot, counter |-> pulled.ctr]
    BY <1>1, <2>1 DEF AcceptCounter, UnderWay, Queued, TypeOK, HistoryTypeOK
  <2>3. pulled = pending /\ pending # None
    BY <1>1, <2>2 DEF InHand, TypeOK, EdgeTypeOK
  <2>4. pulled.ctr > mark
    BY <1>1, <1>3, <2>2, <2>3 DEF InHand
  <2>5. B' = pulled.ctr
    BY <1>3, <2>2, <2>3, MarkWritten, <1>1
  <2> QED BY <1>1, <1>2, <1>3, <2>2, <2>3, <2>4, <2>5
<1>9. CASE \/ Pull \/ Refuse \/ ApplyFails \/ FinalOkRaises
           \/ UNCHANGED vars \/ \E heard \in BOOLEAN : FinalOk(heard)
           \/ Count \/ HubRestart \/ RotateHub \/ \E ok \in BOOLEAN : SaveCounter(ok)
  <2>1. UNCHANGED <<edgeRoot, mark, edgeFile, pending, ran>> /\ B' = B
    BY <1>9
       DEF Pull, Refuse, ApplyFails, FinalOkRaises, FinalOk, ReadBack, Count,
                HubRestart, RotateHub, HubBoots, SaveCounter
  <2>2. ~ \E t \in Types : Queue(t)
    BY <1>9, Popped, <1>1
       DEF Queue, Pull, Refuse, ApplyFails, FinalOkRaises, FinalOk,
          Count, HubRestart, RotateHub, HubBoots, SaveCounter
  <2>3. UnderWay' \subseteq UnderWay
    BY <1>1, <2>2, NothingNew
  <2> QED BY <1>1, <1>2, <1>3, <2>1, <2>3
<1> QED
  BY <1>4, <1>5, <1>6, <1>7, <1>8, <1>9 DEF Next

-----------------------------------------------------------------------------
(* What the Edge holds back.                                               *)

LEMMA HeadHeldStep ==
    ASSUME ControlAssumption, Core, HeadHeld, [Next]_vars
    PROVE  HeadHeld'
<1> USE UnderWayTyped DEF Core, HeadHeld
<1> SUFFICES ASSUME hubRestarts' = 0 /\ rotations' = 0 PROVE
        /\ pulled' # None => downlink' # <<>> /\ pulled' = Head(downlink')
        /\ pending' # None /\ edgePc' # "drain" =>
              downlink' # <<>> /\ pending' = Head(downlink')
        /\ ~superseded'
  OBVIOUS
<1>1. TypeOK' /\ TypeOK /\ InHand
  BY TypeStep
<1>2. CASE HubRestart \/ RotateHub
  BY <1>1, <1>2 DEF HubRestart, RotateHub, TypeOK, HistoryTypeOK
<1>3. (hubRestarts = 0 /\ rotations = 0) \/ HubRestart \/ RotateHub
  BY DEF Next, Count, SaveCounter, Queue, EdgeRestart, RotateEdge, Pull, Refuse,
         Apply, ApplyFails, AcceptCounter, FinalOk, FinalOkRaises, RunPending
<1>4. CASE hubRestarts = 0 /\ rotations = 0 /\ \E t \in Types : Queue(t)
  <2>1. PICK t \in Types : Queue(t)
    BY <1>4
  <2>2. /\ UNCHANGED <<edgeVars, superseded>>
        /\ downlink' = Append(downlink, Artifact(commands, t))
    BY <2>1 DEF Queue
  <2>3. downlink' # <<>> /\ (downlink # <<>> => Head(downlink') = Head(downlink))
    BY <1>1, <2>1, <2>2, OneNew, Pushed DEF TypeOK, HubTypeOK
  <2> QED BY <1>4, <2>2, <2>3
<1>5. CASE hubRestarts = 0 /\ rotations = 0 /\ Apply
  <2>1. /\ UNCHANGED <<downlink, pulled>> /\ pending' = pulled
        /\ superseded' = (superseded \/ pending # None)
        /\ edgePc = "consume" /\ pulled.ctr > mark
    BY <1>5 DEF Apply, Defer, Verified
  <2>2. pulled # None /\ pulled.ctr \in Nat /\ mark \in Nat
    BY <1>1, <2>1 DEF TypeOK, EdgeTypeOK, Artifacts
  <2>3. pending = None
    BY <1>1, <1>5, <2>1, <2>2 DEF InHand
  <2> QED BY <1>1, <1>5, <2>1, <2>2, <2>3 DEF TypeOK, HistoryTypeOK
<1>6. CASE hubRestarts = 0 /\ rotations = 0 /\ \E heard \in BOOLEAN : FinalOk(heard)
  BY <1>6 DEF FinalOk
<1>7. CASE hubRestarts = 0 /\ rotations = 0 /\ (EdgeRestart \/ RotateEdge)
  BY <1>7 DEF EdgeRestart, RotateEdge, EdgeBoots
<1>8. CASE hubRestarts = 0 /\ rotations = 0 /\ RunPending
  <2>1. /\ pending' = None /\ pulled' \in {pulled, None}
        /\ UNCHANGED <<downlink, superseded>>
    BY <1>8 DEF RunPending, EdgeBoots
  <2> QED BY <1>8, <2>1
<1>9. CASE hubRestarts = 0 /\ rotations = 0 /\ Pull
  BY <1>1, <1>9 DEF Pull, TypeOK, EdgeTypeOK
<1>10. CASE /\ hubRestarts = 0 /\ rotations = 0
            /\ \/ Refuse \/ ApplyFails \/ FinalOkRaises \/ UNCHANGED vars \/ Count
               \/ \E ok \in BOOLEAN : SaveCounter(ok) \/ AcceptCounter(ok)
  <2>1. /\ UNCHANGED <<downlink, pending, superseded>> /\ pulled' \in {pulled, None}
        /\ edgePc = "drain" => edgePc' = "drain"
    BY <1>10 DEF Refuse, ApplyFails, FinalOkRaises, Count, SaveCounter,
       AcceptCounter
  <2> QED BY <1>10, <2>1
<1> QED
  BY <1>2, <1>3, <1>4, <1>5, <1>6, <1>7, <1>8, <1>9, <1>10 DEF Next

-----------------------------------------------------------------------------
(* What is confirmed.                                                      *)

LEMMA StillUndisturbed ==
    ASSUME TypeOK, [Next]_vars, Undisturbed'
    PROVE  /\ Undisturbed /\ UNCHANGED <<edgeRestarts, rotations>>
           /\ hubRestarts' # hubRestarts => ~unsaved
<1>1. /\ edgeRestarts' \in {edgeRestarts, edgeRestarts + 1}
      /\ rotations' \in {rotations, rotations + 1}
      /\ hubRestarts' \in {hubRestarts, hubRestarts + 1}
      /\ unsaved => unsaved'
      /\ hubRestarts' # hubRestarts => unsaved' = unsaved
  BY DEF Next, Count, SaveCounter, Queue, HubRestart, RotateHub, EdgeRestart,
          RotateEdge, Pull, Refuse, Apply, ApplyFails, AcceptCounter, FinalOk,
          FinalOkRaises, RunPending, TypeOK, HistoryTypeOK
<1> QED BY <1>1 DEF Undisturbed, TypeOK, HistoryTypeOK

\* The Hub's steps.
LEMMA TakenHub ==
    ASSUME ControlAssumption, Core, Recorded, InOrder, RunOrHeld, Undisturbed,
           Undisturbed',
           \/ Count \/ HubRestart \/ \E t \in Types : Queue(t)
           \/ \E ok \in BOOLEAN : SaveCounter(ok)
    PROVE  InOrder' /\ RunOrHeld'
<1> USE UnderWayTyped DEF Core, InOrder, RunOrHeld, Later
<1>1. TypeOK' /\ TypeOK /\ Minted
  BY TypeStep DEF Next
<1>2. /\ mark \in Nat /\ counter \in Nat
      /\ \A a \in UnderWay : a.ctr \in Nat /\ a.id \in Ids
  BY <1>1 DEF TypeOK, HubTypeOK, EdgeTypeOK, Artifacts
<1>7. \A i \in DOMAIN downlink : downlink[i] \in UnderWay /\ downlink[i].ctr \in Nat
  BY <1>1, <1>2 DEF Queued
<1>3. CASE Count
  <2>1. /\ UnderWay' = UnderWay /\ Queued' = Queued
        /\ UNCHANGED <<hubRoot, downlink, edgeVars, ran, confirmed>>
        /\ counter' = counter + 1
    BY <1>3 DEF Count, UnderWay, Queued
  <2>2. \A a \in UnderWay : a.ctr < counter + 1
    BY <1>2
  <2> QED BY <1>2, <2>1, <2>2
<1>4. CASE \E ok \in BOOLEAN : SaveCounter(ok)
  <2>1. /\ UnderWay' = UnderWay /\ Queued' = Queued
        /\ UNCHANGED <<hubRoot, counter, downlink, edgeVars, ran, confirmed>>
        /\ hubPc # "idle"
    BY <1>4 DEF SaveCounter, UnderWay, Queued
  <2> QED BY <1>2, <2>1
<1>5. CASE HubRestart
  <2>1. /\ counter' = ReadBack(hubFile, hubRoot) /\ hubPc' = "idle" /\ downlink' = <<>>
        /\ UNCHANGED <<hubRoot, edgeVars, ran, confirmed, unsaved>>
        /\ hubRestarts' > 0 /\ Queued' = {}
    BY <1>1, <1>5, Empty
    DEF HubRestart, HubBoots, Queued, TypeOK, HistoryTypeOK
  <2>2. UnderWay' \subseteq UnderWay
    BY <1>1, <2>1, <1>5, NothingNew DEF Queue, Next, HubRestart, HubBoots
  <2>3. ~unsaved
    BY <2>1 DEF Undisturbed
  <2>4. mark <= counter' /\ \A a \in UnderWay : a.ctr <= counter'
    BY <2>1, <2>3, <1>1 DEF Recorded, NoLockout
  <2>5. DOMAIN downlink' = {}
    BY <2>1
  <2> QED BY <1>2, <2>1, <2>2, <2>4, <2>5
<1>6. CASE \E t \in Types : Queue(t)
  <2>1. PICK t \in Types : Queue(t)
    BY <1>6
  <2> DEFINE new == Artifact(commands, t)
  <2>2. /\ UNCHANGED <<hubRoot, counter, edgeVars, ran, confirmed>>
        /\ downlink' = Append(downlink, new)
        /\ hubPc # "idle" /\ hubPc' = "idle"
    BY <2>1 DEF Queue
  <2>3. /\ new \in Artifacts /\ new.root = hubRoot /\ new.ctr = counter
        /\ Queued' = Queued \cup {new} /\ UnderWay' = UnderWay \cup {new}
    BY <1>1, <2>1, OneNew
  <2> HIDE DEF new
  <2>4. \A i, j \in DOMAIN downlink' : i < j => downlink'[i].ctr < downlink'[j].ctr
    <3>1. /\ DOMAIN downlink' = 1..(Len(downlink) + 1) /\ DOMAIN downlink = 1..Len(downlink)
          /\ Len(downlink) \in Nat
          /\ \A i \in DOMAIN downlink : downlink'[i] = downlink[i]
          /\ downlink'[Len(downlink) + 1] = new
      BY <1>1, <2>2, <2>3, Pushed DEF TypeOK, HubTypeOK
    <3>2. \A i \in DOMAIN downlink : downlink[i].ctr < new.ctr
      BY <1>7, <2>2, <2>3
    <3>3. \A i, j \in DOMAIN downlink : i < j => downlink[i].ctr < downlink[j].ctr
      OBVIOUS
    <3> HIDE DEF InOrder, RunOrHeld
    <3>4. TAKE i, j \in DOMAIN downlink'
    <3>5. CASE j = Len(downlink) + 1
      BY <3>1, <3>2, <3>5
    <3>6. CASE j # Len(downlink) + 1
      BY <3>1, <3>3, <3>6
    <3> QED BY <3>5, <3>6
  <2>5. \A a \in UnderWay : a.ctr < counter
    BY <2>2
  <2>6. pulled' # None => \A a \in Queued' : Later(pulled', a)
    BY <2>2, <2>3, <2>5
  <2>7. mark' < counter' /\ \A a \in UnderWay' : a.ctr <= counter'
    BY <1>2, <2>2, <2>3
  <2>8. \A a \in UnderWay' : a.ctr <= mark' =>
           ran'[a.id] > 0 \/ (pending' # None /\ pending'.id = a.id)
    BY <1>2, <2>2, <2>3
  <2> QED BY <1>2, <2>2, <2>3, <2>4, <2>6, <2>7, <2>8
<1> QED BY <1>3, <1>4, <1>5, <1>6

\* The Edge's steps, every command being of a type it acts on.
LEMMA TakenEdge ==
    ASSUME ControlAssumption, Types \subseteq Handles,
           Core, InOrder, RunOrHeld, Undisturbed, rotations = 0,
           \/ RotateEdge \/ Pull \/ Refuse \/ Apply \/ ApplyFails \/ FinalOkRaises
           \/ RunPending \/ UNCHANGED vars
           \/ \E yes \in BOOLEAN : AcceptCounter(yes) \/ FinalOk(yes)
    PROVE  InOrder' /\ RunOrHeld'
<1> USE UnderWayTyped DEF Core, InOrder, RunOrHeld, Later
<1>1. TypeOK' /\ TypeOK /\ Minted /\ InHand
  BY TypeStep DEF Next
<1>2. /\ mark \in Nat /\ counter \in Nat
      /\ \A a \in UnderWay : a.ctr \in Nat /\ a.id \in Ids
      /\ pulled # None => pulled \in UnderWay
      /\ pending # None => pending \in UnderWay
      /\ ran \in [Ids -> 0..2]
  BY <1>1 DEF TypeOK, HubTypeOK, EdgeTypeOK, HistoryTypeOK, Artifacts
<1>3. ~RotateEdge
  BY DEF RotateEdge
<1>4. CASE Pull
  <2>1. /\ UNCHANGED <<hubVars, edgeRoot, mark, pending, ran, confirmed>>
        /\ Queued' = Queued /\ downlink # <<>>
        /\ edgePc = "home" /\ edgePc' = "consume" /\ pulled' = Head(downlink)
    BY <1>4 DEF Pull, Queued
  <2>2. UnderWay' \subseteq UnderWay
    BY <1>1, <1>4, <2>1, NothingNew DEF Next, Queue
  <2>3. \A i \in DOMAIN downlink : i = 1 \/ downlink[1].ctr < downlink[i].ctr
    <3>1. DOMAIN downlink = 1..Len(downlink) /\ Len(downlink) \in Nat
      BY <1>1 DEF TypeOK, HubTypeOK
    <3> QED BY <3>1
  <2>4. \A a \in Queued : Later(Head(downlink), a)
    BY <2>1, <2>3 DEF Queued
  <2> QED BY <1>2, <2>1, <2>2, <2>4
<1>5. CASE Refuse
  <2>1. /\ UNCHANGED <<hubVars, edgeRoot, mark, pending, pulled, ran, confirmed>>
        /\ Queued' = Queued /\ UnderWay' = UnderWay
        /\ edgePc = "consume" /\ edgePc' = "final" /\ ~Verified(pulled)
    BY <1>5 DEF Refuse, Queued, UnderWay
  <2>2. pulled # None /\ pulled.type \in Types
    BY <1>1, <2>1 DEF TypeOK, EdgeTypeOK, Artifacts
  <2>3. pulled.ctr <= mark
    BY <1>2, <2>1, <2>2 DEF Verified
  <2> QED BY <1>2, <2>1, <2>3
<1>6. CASE Apply
  <2>1. /\ UNCHANGED <<hubVars, edgeRoot, mark, pulled, ran, confirmed>>
        /\ Queued' = Queued
        /\ edgePc = "consume" /\ edgePc' = "accept" /\ pending' = pulled
        /\ pulled.ctr > mark
    BY <1>6 DEF Apply, Defer, Verified, Queued
  <2>2. pulled # None
    BY <1>1, <2>1 DEF TypeOK, EdgeTypeOK
  <2>3. UnderWay' = Queued \cup {pulled}
    BY <2>1, <2>2 DEF UnderWay
  <2>4. \A a \in UnderWay' : a \in UnderWay /\ ~(a.ctr <= mark)
    BY <1>2, <2>1, <2>2, <2>3
  <2> QED BY <1>2, <2>1, <2>2, <2>4
<1>7. CASE ApplyFails \/ FinalOkRaises
  <2>1. /\ UNCHANGED <<hubVars, edgeRoot, mark, pending, ran, confirmed>>
        /\ Queued' = Queued
        /\ edgePc \in {"consume", "final"} /\ edgePc' = "home" /\ pulled' = None
    BY <1>7 DEF ApplyFails, FinalOkRaises, Queued
  <2>2. UnderWay' \subseteq UnderWay
    BY <2>1 DEF UnderWay
  <2> QED BY <1>2, <2>1, <2>2
<1>8. CASE \E ok \in BOOLEAN : AcceptCounter(ok)
  <2>1. /\ UNCHANGED <<hubVars, edgeRoot, pulled, pending, ran, confirmed>>
        /\ Queued' = Queued /\ UnderWay' = UnderWay
        /\ edgePc = "accept" /\ edgePc' = "final" /\ mark' = pulled.ctr
    BY <1>8 DEF AcceptCounter, Queued, UnderWay
  <2>2. pulled = pending /\ pulled # None
    BY <1>1, <2>1 DEF InHand, TypeOK, EdgeTypeOK
  <2>3. pulled \in UnderWay /\ UnderWay = Queued \cup {pulled}
    BY <1>2, <2>2 DEF UnderWay
  <2>4. \A a \in UnderWay : a.ctr <= pulled.ctr => a = pulled
    BY <1>2, <2>2, <2>3
  <2>5. hubPc # "idle" => pulled.ctr < counter
    BY <2>3
  <2> QED BY <1>2, <2>1, <2>2, <2>3, <2>4, <2>5
<1>9. CASE \E heard \in BOOLEAN : FinalOk(heard)
  <2>1. PICK heard \in BOOLEAN : FinalOk(heard)
    BY <1>9
  <2>2. /\ UNCHANGED <<hubRoot, counter, hubPc, edgeRoot, mark, pending, ran>>
        /\ edgePc = "final" /\ edgePc' = "drain" /\ pulled' = None
        /\ \/ UNCHANGED <<downlink, confirmed>>
           \/ /\ downlink # <<>> /\ Head(downlink) = pulled
              /\ downlink' = Tail(downlink) /\ confirmed' = confirmed \cup {pulled.id}
    BY <2>1 DEF FinalOk
  <2>3. UnderWay' \subseteq UnderWay
    BY <1>1, <2>1, <2>2, NothingNew DEF Next, Queue
  <2>4. pulled # None /\ pulled \in UnderWay
    BY <1>1, <1>2, <2>2 DEF TypeOK, EdgeTypeOK
  <2>5. ran[pulled.id] > 0 \/ (pending # None /\ pending.id = pulled.id)
    BY <2>2, <2>4
  <2>6. \A i, j \in DOMAIN downlink' : i < j => downlink'[i].ctr < downlink'[j].ctr
    <3>1. CASE UNCHANGED downlink
      BY <3>1
    <3>2. CASE downlink # <<>> /\ downlink' = Tail(downlink)
      <4>1. \A i \in DOMAIN downlink' :
               i \in Nat /\ i + 1 \in DOMAIN downlink /\ downlink'[i] = downlink[i + 1]
        BY <1>1, <3>2, Popped DEF TypeOK, HubTypeOK
      <4> QED BY <4>1
    <3> QED BY <2>2, <3>1, <3>2
  <2>7. \A a \in UnderWay' : a.ctr <= mark' =>
           ran'[a.id] > 0 \/ (pending' # None /\ pending'.id = a.id)
    BY <2>2, <2>3
  <2>8. \A i \in confirmed' : ran'[i] > 0 \/ (pending' # None /\ pending'.id = i)
    BY <2>2, <2>5
  <2> QED BY <1>2, <2>2, <2>3, <2>6, <2>7, <2>8
<1>10. CASE RunPending
  <2>1. /\ UNCHANGED <<hubVars, edgeRoot, confirmed>>
        /\ Queued' = Queued
        /\ mark' \in {mark, ReadBack(edgeFile, edgeRoot)} /\ pending' = None
        /\ edgePc = "drain" /\ edgePc' = "home" /\ pulled' \in {pulled, None}
        /\ ran' = IF pending = None THEN ran
                  ELSE [ran EXCEPT ![pending.id] = IF @ = 0 THEN 1 ELSE 2]
    BY <1>10 DEF RunPending, EdgeBoots, Queued
  <2>2. UnderWay' \subseteq UnderWay
    BY <2>1 DEF UnderWay
  <2>3. mark' \in Nat /\ mark' <= mark
    BY <1>1, <1>2, <2>1 DEF InHand, TypeOK, EdgeTypeOK
  <2>4. pulled = None
    BY <1>1, <2>1 DEF TypeOK, EdgeTypeOK
  <2>5. \A i \in Ids : ran[i] > 0 \/ (pending # None /\ pending.id = i) => ran'[i] > 0
    BY <1>2, <2>1
  <2>6. confirmed \subseteq Ids
    BY <1>1 DEF TypeOK, HistoryTypeOK
  <2> QED BY <1>2, <2>1, <2>2, <2>3, <2>4, <2>5, <2>6
<1>11. CASE UNCHANGED vars
  BY <1>11 DEF UnderWay, Queued
<1> QED
  BY <1>3, <1>4, <1>5, <1>6, <1>7, <1>8, <1>9, <1>10, <1>11

LEMMA TakenStep ==
    ASSUME ControlAssumption, Types \subseteq Handles, Core, Recorded, Taken, [Next]_vars
    PROVE  Taken'
<1> SUFFICES ASSUME Undisturbed' PROVE InOrder' /\ RunOrHeld'
  BY DEF Taken
<1>1. Undisturbed /\ InOrder /\ RunOrHeld /\ rotations' = 0 /\ rotations = 0
  BY StillUndisturbed DEF Taken, Core, Undisturbed
<1>2. ~EdgeRestart /\ ~RotateHub
  BY <1>1, StillUndisturbed
     DEF EdgeRestart, RotateHub, Core, TypeOK, HistoryTypeOK
<1> QED BY <1>1, <1>2, TakenHub, TakenEdge DEF Next

-----------------------------------------------------------------------------
(* The theorems.                                                           *)

LEMMA Initially ==
    ASSUME ControlAssumption, Init
    PROVE  Core /\ Recorded /\ Spent /\ HeadHeld /\ Taken
<1> USE DEF Init, ControlAssumption
<1>1. Queued = {} /\ UnderWay = {}
  BY Empty DEF Queued, UnderWay
<1>2. DOMAIN downlink = {} /\ downlink \in Seq(Artifacts)
  BY Empty
<1>3. \A i \in Ids : ran[i] = 0
  OBVIOUS
<1>4. TypeOK
  <2>1. HubTypeOK
    BY <1>2 DEF HubTypeOK
  <2>2. EdgeTypeOK
    BY DEF EdgeTypeOK
  <2>3. ran \in [Ids -> 0..2]
    OBVIOUS
  <2>4. HistoryTypeOK
    BY <2>3 DEF HistoryTypeOK
  <2> QED BY <2>1, <2>2, <2>4 DEF TypeOK
<1>5. ReadBack(edgeFile, edgeRoot) = 0 /\ ReadBack(hubFile, hubRoot) = 0
  BY DEF ReadBack
<1>6. Core
  BY <1>1, <1>3, <1>4, <1>5 DEF Core, Minted, InHand
<1>7. Recorded /\ Spent /\ HeadHeld
  BY <1>1, <1>3, <1>5 DEF Recorded, Spent, HeadHeld, NoLockout, CarriedOutOnce
<1>8. Taken
  BY <1>1, <1>2 DEF Taken, InOrder, RunOrHeld
<1> QED BY <1>6, <1>7, <1>8

LEMMA IInvStep ==
    ASSUME ControlAssumption, IInv, [Next]_vars
    PROVE  IInv'
BY CoreStep, RecordedStep, SpentStep, HeadHeldStep DEF IInv

\* Whatever restarts, and at whatever point, and whatever roots the two have
\* been through: as long as the counters reach their files, a command the Hub
\* is about to sign is not one the Edge takes for a replay.
THEOREM NeverLockedOut == ASSUME ControlAssumption PROVE Spec => []NoLockout
<1>1. Init => IInv
  BY Initially DEF IInv
<1>2. IInv /\ [Next]_vars => IInv'
  BY IInvStep
<1>3. IInv /\ ~unsaved => NoLockout
  BY DEF IInv, Recorded
<1>4. IInv => NoLockout
  BY <1>3 DEF NoLockout
<1> QED BY <1>1, <1>2, <1>4, PTL DEF Spec

\* A command is carried out at most once, however often it is delivered.
THEOREM RunsOnce == ASSUME ControlAssumption PROVE Spec => []CarriedOutOnce
<1>1. Init => IInv
  BY Initially DEF IInv
<1>2. IInv /\ [Next]_vars => IInv'
  BY IInvStep
<1>3. IInv => CarriedOutOnce
  BY DEF IInv, Spent, CarriedOutOnce
<1> QED BY <1>1, <1>2, <1>3, PTL DEF Spec

\* While the Hub keeps its queue and the root, no action deferred is replaced
\* by another before it ran.
THEOREM NoneSuperseded == ASSUME ControlAssumption PROVE Spec => []NothingSuperseded
<1>1. Init => IInv
  BY Initially DEF IInv
<1>2. IInv /\ [Next]_vars => IInv'
  BY IInvStep
<1>3. IInv => NothingSuperseded
  BY DEF IInv, HeadHeld, NothingSuperseded
<1> QED BY <1>1, <1>2, <1>3, PTL DEF Spec

\* A command confirmed was carried out or is about to be, if the Edge acts on
\* every type that is sent.
THEOREM ConfirmedRuns ==
    ASSUME ControlAssumption, Types \subseteq Handles
    PROVE  Spec => []ConfirmedIsDone
<1>1. Init => IInv /\ Taken
  BY Initially DEF IInv
<1>2. IInv /\ Taken /\ [Next]_vars => IInv' /\ Taken'
  BY IInvStep, TakenStep DEF IInv
<1>3. IInv /\ Taken => ConfirmedIsDone
  BY DEF Taken, RunOrHeld, Undisturbed, ConfirmedIsDone
<1> QED BY <1>1, <1>2, <1>3, PTL DEF Spec
=============================================================================
