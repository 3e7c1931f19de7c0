----------------------------- MODULE DiskProofs -----------------------------
(***************************************************************************)
(* What the queue on flash keeps through any number of power cuts, at any  *)
(* point of any operation.                                                 *)
(***************************************************************************)
EXTENDS DiskQueue, FiniteSetTheorems, SequenceTheorems, WellFoundedInduction, TLAPS

-----------------------------------------------------------------------------
(* Orders.                                                                 *)

Distinct(o) == \A i, j \in DOMAIN o : o[i] = o[j] => i = j

LEMMA LeastExists ==
    ASSUME NEW S, S \subseteq Nat, S # {} PROVE \E m \in S : \A k \in S : m <= k
<1> DEFINE R == OpToRel(<, Nat)
<1>1. IsWellFoundedOn(R, Nat)
  BY NatLessThanWellFounded
<1>2. \A x, y \in Nat : <<x, y>> \in R <=> x < y
  BY DEF R, OpToRel
<1> HIDE DEF R
<1>3. PICK m \in S : \A y \in S : ~(<<y, m>> \in R)
  BY <1>1, WFMin
<1>4. ASSUME NEW k \in S PROVE m <= k
  <2>1. k \in Nat /\ m \in Nat /\ ~(<<k, m>> \in R)
    BY <1>3
  <2>2. ~(k < m)
    BY <1>2, <2>1
  <2> QED BY <2>1, <2>2
<1> QED BY <1>4

\* list.remove takes out one entry and leaves the others in their order.
LEMMA Removed ==
    ASSUME NEW S, NEW o \in Seq(S), Distinct(o), NEW x \in Known(o)
    PROVE  /\ RemoveFirst(o, x) \in Seq(S) /\ Distinct(RemoveFirst(o, x))
           /\ Known(RemoveFirst(o, x)) = Known(o) \ {x}
           /\ o[1] # x => /\ RemoveFirst(o, x) # <<>>
                          /\ RemoveFirst(o, x)[1] = o[1]
<1> DEFINE I == {i \in 1 .. Len(o) : o[i] = x}
<1>1. I \subseteq Nat /\ I # {}
  BY DEF Known
<1>2. PICK k \in I : \A j \in I : k <= j
  BY <1>1, LeastExists
<1>3. SelectInSeq(o, LAMBDA v : v = x) \in I
  <2>1. SelectInSeq(o, LAMBDA v : v = x) = Min(I)
    BY <1>1 DEF SelectInSeq
  <2>2. Min(I) \in I
    BY <1>2 DEF Min
  <2> QED BY <2>1, <2>2
<1>4. PICK p \in I : RemoveFirst(o, x) = RemoveAt(o, p)
  BY <1>3 DEF RemoveFirst
<1>5. p \in 1 .. Len(o) /\ o[p] = x /\ Len(o) \in Nat
  BY <1>4
<1> HIDE DEF I
<1> DEFINE r == RemoveFirst(o, x)
<1>6. /\ r \in Seq(S) /\ Len(r) = Len(o) - 1
      /\ \A i \in 1 .. Len(o) - 1 : r[i] = IF i < p THEN o[i] ELSE o[i + 1]
  <2> DEFINE a == SubSeq(o, 1, p - 1)
             b == SubSeq(o, p + 1, Len(o))
  <2>1. a \in Seq(S) /\ Len(a) = p - 1 /\ \A i \in 1 .. p - 1 : a[i] = o[i]
    BY <1>5
  <2>2. b \in Seq(S) /\ Len(b) = Len(o) - p /\ \A i \in 1 .. Len(o) - p : b[i] = o[p + i]
    BY <1>5
  <2>3. r = a \o b
    BY <1>4 DEF RemoveAt
  <2> HIDE DEF a, b, r
  <2>4. r \in Seq(S) /\ Len(r) = Len(o) - 1
    BY <1>5, <2>1, <2>2, <2>3
  <2>5. ASSUME NEW i \in 1 .. Len(o) - 1 PROVE r[i] = IF i < p THEN o[i] ELSE o[i + 1]
    <3>1. CASE i < p
      BY <1>5, <2>1, <2>2, <2>3, <3>1
    <3>2. CASE ~(i < p)
      <4>1. i - (p - 1) \in 1 .. Len(o) - p /\ p + (i - (p - 1)) = i + 1
        BY <1>5, <3>2
      <4>2. r[i] = b[i - (p - 1)]
        BY <1>5, <2>1, <2>2, <2>3, <3>2
      <4> QED BY <2>2, <3>2, <4>1, <4>2
    <3> QED BY <3>1, <3>2
  <2> QED BY <2>4, <2>5
<1> HIDE DEF r
<1>7. DOMAIN r = 1 .. Len(o) - 1 /\ DOMAIN o = 1 .. Len(o)
  BY <1>5, <1>6
<1>8. Distinct(r)
  <2> SUFFICES ASSUME NEW i \in 1 .. Len(o) - 1, NEW j \in 1 .. Len(o) - 1, r[i] = r[j]
               PROVE  i = j
    BY <1>7 DEF Distinct
  <2> DEFINE At(l) == IF l < p THEN l ELSE l + 1
  <2>1. At(i) \in 1 .. Len(o) /\ At(j) \in 1 .. Len(o)
    BY <1>5
  <2>2. r[i] = o[At(i)] /\ r[j] = o[At(j)]
    BY <1>6
  <2>3. At(i) = At(j)
    <3> HIDE DEF At
    <3> QED BY <1>7, <2>1, <2>2 DEF Distinct
  <2> QED BY <1>5, <2>3
<1>9. ASSUME NEW v PROVE v \in Known(r) <=> v \in Known(o) \ {x}
  <2>1. ASSUME v \in Known(r) PROVE v \in Known(o) \ {x}
    <3>1. PICK i \in 1 .. Len(o) - 1 : r[i] = v
      BY <1>7, <2>1 DEF Known
    <3>2. PICK j \in 1 .. Len(o) : j # p /\ o[j] = v
      BY <1>5, <1>6, <3>1
    <3> QED BY <1>5, <1>7, <3>2 DEF Distinct, Known
  <2>2. ASSUME v \in Known(o) \ {x} PROVE v \in Known(r)
    <3>1. PICK j \in 1 .. Len(o) : o[j] = v /\ j # p
      BY <1>5, <1>7, <2>2 DEF Known
    <3>2. CASE j < p
      <4>1. j \in 1 .. Len(o) - 1 /\ r[j] = v
        BY <1>5, <1>6, <3>1, <3>2
      <4> QED BY <1>7, <4>1 DEF Known
    <3>3. CASE ~(j < p)
      <4>1. j - 1 \in 1 .. Len(o) - 1 /\ r[j - 1] = v
        BY <1>5, <1>6, <3>1, <3>3
      <4> QED BY <1>7, <4>1 DEF Known
    <3> QED BY <3>2, <3>3
  <2> QED BY <2>1, <2>2
<1>10. ASSUME o[1] # x PROVE r # <<>> /\ r[1] = o[1]
  <2>1. p > 1 /\ 1 \in 1 .. Len(o) - 1
    BY <1>5, <1>10
  <2> QED BY <1>6, <1>7, <2>1
<1> QED BY <1>6, <1>8, <1>9, <1>10 DEF r
\* What reconciling comes to: each file of the folder once, and first what the
\* order read back had first.
LEMMA Rearranged ==
    ASSUME DiskAssumption, NEW S \in SUBSET Names, NEW o, NEW r \in Arranged(S, o)
    PROVE  r \in Seq(S) /\ Distinct(r) /\ Known(r) = S
<1> DEFINE D == 1 .. Cardinality(S)
<1>1. IsFiniteSet(S) /\ Cardinality(S) \in Nat
  BY FS_Subset, FS_CardinalityType DEF DiskAssumption
<1>2. r \in [D -> S] /\ \A i, j \in D : i # j => r[i] # r[j]
  BY DEF Arranged, SetToSeqs
<1>3. r \in Seq(S) /\ DOMAIN r = D
  BY <1>1, <1>2, SeqDef
<1>4. IsFiniteSet(D) /\ Cardinality(D) = Cardinality(S)
  BY <1>1, FS_Interval
<1>5. r \in Injection(D, S)
  BY <1>2 DEF Injection, IsInjective
<1>6. r \in Surjection(D, S)
  BY <1>1, <1>4, <1>5, FS_Injection
<1>7. Known(r) = S
  BY <1>2, <1>3, <1>6 DEF Known, Surjection
<1> QED BY <1>2, <1>3, <1>7 DEF Distinct

LEMMA FirstStaysFirst ==
    ASSUME DiskAssumption, NEW S \in SUBSET Names, NEW o \in Seq(Names), Distinct(o),
           o # <<>>, o[1] \in S, NEW r \in Arranged(S, o)
    PROVE  r # <<>> /\ r[1] = o[1]
<1>1. r \in Seq(S) /\ Known(r) = S
  BY Rearranged
<1>2. DOMAIN r = 1 .. Len(r) /\ Len(r) \in Nat
  BY <1>1
<1>3. PICK j \in 1 .. Len(r) : r[j] = o[1]
  BY <1>1, <1>2 DEF Known
<1>4. 1 \in 1 .. Len(r) /\ r[1] \in Names
  BY <1>1, <1>2, <1>3
<1>5. DOMAIN o = 1 .. Len(o) /\ Len(o) \in Nat \ {0}
  BY EmptySeq
<1>6. Place(o, o[1]) = 1
  <2>1. \A i \in DOMAIN o : o[i] = o[1] <=> i = 1
    BY <1>5 DEF Distinct
  <2> QED BY <1>5, <2>1 DEF Place, Known
<1>7. Place(o, r[1]) \in Nat \ {0}
  <2>1. CASE r[1] \in Known(o)
    <3>1. \E i \in DOMAIN o : o[i] = r[1]
      BY <2>1 DEF Known
    <3>2. Place(o, r[1]) \in DOMAIN o
      BY <2>1, <3>1 DEF Place
    <3> QED BY <1>5, <3>2
  <2>2. CASE r[1] \notin Known(o)
    <3>1. r[1] \in Nat \ {0}
      BY <1>4 DEF DiskAssumption
    <3>2. Place(o, r[1]) = Len(o) + r[1]
      BY <2>2 DEF Place
    <3> QED BY <1>5, <3>1, <3>2
  <2> QED BY <2>1, <2>2
<1>8. j = 1
  <2>1. 1 < j => Place(o, r[1]) < Place(o, r[j])
    BY <1>2, <1>3, <1>4 DEF Arranged
  <2> QED BY <1>3, <1>6, <1>7, <2>1
<1> QED BY <1>3, <1>2, <1>8

-----------------------------------------------------------------------------
(* What holds between any two operations on the card.                      *)

TypeInv ==
    /\ disk \in [Names -> Nat \cup {None}] /\ temp \in [Names -> Nat \cup {None, Part}]
    /\ order \in Seq(Names) /\ Distinct(order)
    /\ index \in Seq(Names) \cup {None} /\ (index # None => Distinct(index))
    /\ indexTemp \in Seq(Names) \cup {None, Part}
    /\ up \in BOOLEAN /\ head \in Names \cup {None}
    /\ op \in {"idle", "room", "write", "rename", "list", "save", "archive", "remove"}
    /\ name \in Names \cup {None} /\ load \in (Nat \ {0}) \cup {None}
    /\ made \in Nat /\ half \in Nat \cup {None}
    /\ accepted \in SUBSET Nat /\ done \in SUBSET Nat

\* A payload on its way to the card is in no book yet, under a name of no file
\* queued; once there it is where it was meant to be.  The head is the first of
\* the order, and no temporary of the order outlives its saving.
OnTheWay == {"room", "write", "rename"}
OpInv ==
    /\ op # "idle" => up
    /\ ~up => order = <<>> /\ head = None
    /\ op \in OnTheWay => load \notin done /\ \A n \in Names : disk[n] # load
    /\ op = "rename" => temp[name] = load
    /\ op = "list" => disk[name] = load
    /\ op \in OnTheWay \cup {"list"} =>
          name \in Names \ Known(order) /\ load # None /\ load \notin accepted
    /\ op = "save" => /\ load # None => name \in Known(order) /\ load = disk[name]
                      /\ indexTemp \in {None, Part, order}
    /\ op \in {"archive", "remove"} => name \in Known(order) /\ head = None
    /\ op \in {"idle", "archive", "remove"} => load = None
    /\ up /\ op # "save" => indexTemp = None
    /\ head # None => /\ order # <<>> /\ head = order[1] /\ head \in Known(order)
                      /\ disk[head] \in Nat \ {0}

\* Each payload has one place, and every payload taken has one of the two.
LedgerInv ==
    /\ \A n \in Names : disk[n] \in Nat => disk[n] <= made
    /\ load \in Nat => load <= made
    /\ accepted \subseteq 1..made /\ done \subseteq 0..made
    /\ \A m, n \in Names : disk[m] = disk[n] /\ disk[m] \in Nat \ {0} => m = n
    /\ \A n \in Names : disk[n] \in done => disk[n] = 0
    /\ \A p \in accepted : p \in done \/ \E n \in Names : disk[n] = p
    /\ up => \A n \in Names : disk[n] \in accepted => n \in Known(order)
    /\ \A n \in Known(order) : disk[n] \in Nat

DiskInv == TypeInv /\ OpInv /\ LedgerInv

LEMMA Empty == Distinct(<<>>) /\ Known(<<>>) = {}
BY DEF Distinct, Known

LEMMA Appended ==
    ASSUME NEW o \in Seq(Names), Distinct(o), NEW n \in Names \ Known(o)
    PROVE  /\ Append(o, n) \in Seq(Names) /\ Distinct(Append(o, n))
           /\ Known(Append(o, n)) = Known(o) \cup {n}
           /\ Append(o, n) # <<>>
           /\ o # <<>> => Append(o, n)[1] = o[1]
<1> DEFINE r == Append(o, n)
<1>1. /\ r \in Seq(Names) /\ Len(o) \in Nat /\ Len(r) = Len(o) + 1
      /\ DOMAIN r = 1 .. Len(o) + 1 /\ DOMAIN o = 1 .. Len(o)
      /\ r[Len(o) + 1] = n /\ \A i \in 1 .. Len(o) : r[i] = o[i]
  OBVIOUS
<1> HIDE DEF r
<1>2. \A i \in 1 .. Len(o) : r[i] # n
  BY <1>1 DEF Known
<1>3. Distinct(r)
  BY <1>1, <1>2 DEF Distinct
<1>4. Known(r) = Known(o) \cup {n}
  <2>1. ASSUME NEW v \in Known(r) PROVE v \in Known(o) \cup {n}
    BY <1>1, <2>1 DEF Known
  <2>2. ASSUME NEW v \in Known(o) PROVE v \in Known(r)
    <3>1. PICK i \in 1 .. Len(o) : o[i] = v
      BY <1>1, <2>2 DEF Known
    <3> QED BY <1>1, <3>1 DEF Known
  <2>3. n \in Known(r)
    BY <1>1 DEF Known
  <2> QED BY <2>1, <2>2, <2>3
<1>5. r # <<>> /\ (o # <<>> => r[1] = o[1])
  BY <1>1
<1> QED BY <1>1, <1>3, <1>4, <1>5 DEF r

LEMMA Tailed ==
    ASSUME NEW o \in Seq(Names), Distinct(o), o # <<>>
    PROVE  /\ Head(o) = o[1] /\ o[1] \in Known(o)
           /\ Tail(o) \in Seq(Names) /\ Distinct(Tail(o))
           /\ Known(Tail(o)) = Known(o) \ {o[1]}
<1> DEFINE r == Tail(o)
<1>1. /\ r \in Seq(Names) /\ Len(o) \in Nat \ {0} /\ Len(r) = Len(o) - 1
      /\ DOMAIN r = 1 .. Len(o) - 1 /\ DOMAIN o = 1 .. Len(o)
      /\ \A i \in 1 .. Len(o) - 1 : r[i] = o[i + 1]
      /\ Head(o) = o[1]
  BY EmptySeq
<1> HIDE DEF r
<1>2. Distinct(r)
  <2> SUFFICES ASSUME NEW i \in 1 .. Len(o) - 1, NEW j \in 1 .. Len(o) - 1, r[i] = r[j]
               PROVE  i = j
    BY <1>1 DEF Distinct
  <2>1. i + 1 \in 1 .. Len(o) /\ j + 1 \in 1 .. Len(o) /\ o[i + 1] = o[j + 1]
    BY <1>1
  <2>2. i + 1 = j + 1
    BY <1>1, <2>1 DEF Distinct
  <2> QED BY <2>2
<1>3. Known(r) = Known(o) \ {o[1]}
  <2>1. ASSUME NEW v \in Known(r) PROVE v \in Known(o) \ {o[1]}
    <3>1. PICK i \in 1 .. Len(o) - 1 : r[i] = v
      BY <1>1, <2>1 DEF Known
    <3>2. i + 1 \in 1 .. Len(o) /\ 1 \in 1 .. Len(o) /\ i + 1 # 1 /\ o[i + 1] = v
      BY <1>1, <3>1
    <3> QED BY <1>1, <3>2 DEF Known, Distinct
  <2>2. ASSUME NEW v \in Known(o) \ {o[1]} PROVE v \in Known(r)
    <3>1. PICK i \in 1 .. Len(o) : o[i] = v
      BY <1>1, <2>2 DEF Known
    <3>2. i - 1 \in 1 .. Len(o) - 1 /\ r[i - 1] = v
      <4>1. i # 1 /\ i - 1 \in 1 .. Len(o) - 1 /\ (i - 1) + 1 = i
        BY <1>1, <2>2, <3>1
      <4> QED BY <1>1, <3>1, <4>1
    <3> QED BY <1>1, <3>2 DEF Known
  <2> QED BY <2>1, <2>2
<1>4. o[1] \in Known(o)
  BY <1>1 DEF Known
<1> QED BY <1>1, <1>2, <1>3, <1>4 DEF r

LEMMA InKnown == \A n : InOrder(n) <=> n \in Known(order)
BY DEF InOrder, Known

LEMMA KnownNames == TypeInv => Known(order) \subseteq Names
BY DEF TypeInv, Known

\* Whom an eviction takes: one of the order that is not the head.
LEMMA VictimQueued ==
    ASSUME TypeInv, Evictable # {}
    PROVE  Victim \in Known(order) /\ Victim # head
<1>1. Evictable \subseteq Nat /\ Evictable \subseteq DOMAIN order
  BY DEF Evictable, TypeInv
<1>2. \E i \in Evictable : \A j \in Evictable : i <= j
  BY <1>1, LeastExists
<1>3. PICK i \in Evictable : Victim = order[i]
  BY <1>2 DEF Victim
<1> QED BY <1>1, <1>3 DEF Evictable, Known

-----------------------------------------------------------------------------
(* Every step keeps it.                                                    *)

LEMMA Stutter == ASSUME DiskInv, UNCHANGED vars PROVE DiskInv'
BY DEF DiskInv, TypeInv, OpInv, LedgerInv, OnTheWay, Distinct, Known, vars, card, queueVars,
       books2, opVars, pastVars

LEMMA Writing == ASSUME DiskInv, WriteTemp PROVE DiskInv'
<1> USE DEF WriteTemp, queueVars, books2, pastVars, OnTheWay
<1>1. UNCHANGED <<Known(order), Distinct(order), Distinct(index)>>
  BY DEF Known, Distinct
<1>2. TypeInv'
  BY <1>1 DEF DiskInv, TypeInv, OpInv
<1>3. OpInv'
  BY <1>1 DEF DiskInv, TypeInv, OpInv
<1>4. LedgerInv'
  BY <1>1 DEF DiskInv, LedgerInv
<1> QED BY <1>2, <1>3, <1>4 DEF DiskInv

LEMMA Renaming == ASSUME DiskAssumption, DiskInv, Rename PROVE DiskInv'
<1> USE DEF Rename, queueVars, books2, pastVars, OnTheWay
<1>1. UNCHANGED <<Known(order), Distinct(order), Distinct(index)>>
  BY DEF Known, Distinct
<1>2. TypeInv'
  BY <1>1 DEF DiskInv, TypeInv, OpInv, DiskAssumption
<1>3. /\ up /\ op = "rename" /\ name \in Names \ Known(order) /\ temp[name] = load
      /\ load \in Nat \ {0} /\ load \notin accepted \cup done
      /\ \A n \in Names : disk[n] # load
  BY DEF DiskInv, OpInv, TypeInv
<1>4. /\ disk \in [Names -> Nat \cup {None}] /\ None \notin Nat
      /\ done \subseteq Nat /\ accepted \subseteq Nat
  BY DEF DiskInv, TypeInv, DiskAssumption
<1>5. CASE disk' = [disk EXCEPT ![name] = temp[name]] /\ op' = "list"
  <2>1. \A n \in Names : disk'[n] = IF n = name THEN load ELSE disk[n]
    BY <1>3, <1>4, <1>5
  <2>2. OpInv'
    BY <1>1, <1>3, <1>5, <2>1 DEF DiskInv, TypeInv, OpInv
  <2>3. LedgerInv'
    BY <1>1, <1>3, <1>4, <1>5, <2>1 DEF DiskInv, LedgerInv
  <2> QED BY <1>2, <2>2, <2>3 DEF DiskInv
<1>6. CASE disk' = [disk EXCEPT ![name] = None] /\ UNCHANGED <<temp, op>>
  <2>1. \A n \in Names : disk'[n] = IF n = name THEN None ELSE disk[n]
    BY <1>3, <1>4, <1>6
  <2>2. OpInv'
    BY <1>1, <1>3, <1>4, <1>6, <2>1 DEF DiskInv, TypeInv, OpInv
  <2>3. disk[name] \notin accepted
    BY <1>3 DEF DiskInv, LedgerInv
  <2>4. LedgerInv'
    <3>1. \A p \in accepted' : p \in done' \/ \E n \in Names : disk'[n] = p
      BY <2>1, <2>3 DEF DiskInv, LedgerInv
    <3>2. /\ \A n \in Names : disk'[n] \in Nat => disk'[n] <= made'
          /\ \A m, n \in Names : disk'[m] = disk'[n] /\ disk'[m] \in Nat \ {0} => m = n
      BY <1>4, <2>1 DEF DiskInv, LedgerInv
    <3>3. /\ \A n \in Names : disk'[n] \in done' => disk'[n] = 0
          /\ up' => \A n \in Names : disk'[n] \in accepted' => n \in Known(order')
      BY <1>1, <1>4, <2>1 DEF DiskInv, LedgerInv
    <3>4. \A n \in Known(order') : disk'[n] \in Nat
      BY <1>1, <1>3, <2>1, KnownNames DEF DiskInv, LedgerInv
    <3>5. /\ load' \in Nat => load' <= made'
          /\ accepted' \subseteq 1 .. made' /\ done' \subseteq 0 .. made'
      BY DEF DiskInv, LedgerInv
    <3> QED BY <3>1, <3>2, <3>3, <3>4, <3>5 DEF LedgerInv
  <2> QED BY <1>2, <2>2, <2>4 DEF DiskInv
<1> QED BY <1>5, <1>6

LEMMA Listing == ASSUME DiskInv, List PROVE DiskInv'
<1> USE DEF List, card, queueVars, books2, pastVars, OnTheWay
<1>1. /\ order' \in Seq(Names) /\ Distinct(order') /\ order' # <<>>
      /\ Known(order') = Known(order) \cup {name}
      /\ order # <<>> => order'[1] = order[1]
  BY Appended DEF DiskInv, TypeInv, OpInv
<1>2. UNCHANGED Distinct(index)
  BY DEF Distinct
<1>3. TypeInv'
  BY <1>1, <1>2 DEF DiskInv, TypeInv, OpInv
<1>4. OpInv'
  BY <1>1 DEF DiskInv, TypeInv, OpInv
<1>5. LedgerInv'
  BY <1>1 DEF DiskInv, LedgerInv, OpInv, TypeInv
<1> QED BY <1>3, <1>4, <1>5 DEF DiskInv

LEMMA Saving == ASSUME DiskAssumption, DiskInv, SaveIndex \/ SaveFails PROVE DiskInv'
<1> USE DEF SaveIndex, SaveFails, Saved, card, queueVars, books2, opVars, pastVars, OnTheWay
<1>1. UNCHANGED <<Known(order), Distinct(order)>>
  BY DEF Known, Distinct
<1>2. TypeInv'
  BY <1>1 DEF DiskInv, TypeInv, OpInv, DiskAssumption, Distinct
<1>3. OpInv'
  BY <1>1 DEF DiskInv, TypeInv, OpInv, DiskAssumption
<1>4. /\ UNCHANGED <<disk, order, made, done, up>> /\ up /\ None \notin Nat
      /\ load' \in {load, None}
      /\ accepted' = accepted \/ (load # None /\ accepted' = accepted \cup {load})
  BY DEF DiskAssumption
<1>5. load # None => /\ load \in Nat \ {0} /\ load <= made
                     /\ name \in Known(order) /\ name \in Names /\ load = disk[name]
  BY KnownNames DEF DiskInv, OpInv, TypeInv, LedgerInv
<1>6. LedgerInv'
  BY <1>1, <1>4, <1>5 DEF DiskInv, LedgerInv, TypeInv
<1> QED BY <1>2, <1>3, <1>6 DEF DiskInv

\* A file leaves the folder and the order at once, and is in the books unless
\* it was never taken.
LEMMA LeavesBoth ==
    ASSUME DiskAssumption, DiskInv, up, NEW x \in Known(order),
           disk' = [disk EXCEPT ![x] = None],
           order' = RemoveFirst(order, x) \/ (order' = Tail(order) /\ x = Head(order)),
           done' = done \cup {disk[x]} \/ (done' = done /\ disk[x] \notin accepted),
           UNCHANGED <<accepted, made, load, up>>
    PROVE  /\ LedgerInv'
           /\ disk' \in [Names -> Nat \cup {None}] /\ done' \in SUBSET Nat
           /\ \A n \in Names : disk'[n] = IF n = x THEN None ELSE disk[n]
           /\ order' \in Seq(Names) /\ Distinct(order')
           /\ Known(order') = Known(order) \ {x}
           /\ order[1] # x => order' # <<>> /\ order'[1] = order[1]
<1>1. /\ order' \in Seq(Names) /\ Distinct(order')
      /\ Known(order') = Known(order) \ {x}
      /\ order[1] # x => order' # <<>> /\ order'[1] = order[1]
  <2>1. order \in Seq(Names) /\ Distinct(order) /\ order # <<>>
    BY Empty DEF DiskInv, TypeInv
  <2>2. CASE order' = RemoveFirst(order, x)
    BY <2>1, <2>2, Removed
  <2>3. CASE order' = Tail(order) /\ x = Head(order)
    BY <2>1, <2>3, Tailed
  <2> QED BY <2>2, <2>3
<1>2. /\ disk \in [Names -> Nat \cup {None}] /\ None \notin Nat /\ x \in Names
      /\ done \subseteq Nat /\ accepted \subseteq Nat /\ disk[x] \in Nat /\ disk[x] <= made
  BY KnownNames DEF DiskInv, TypeInv, LedgerInv, DiskAssumption
<1>3. \A n \in Names : disk'[n] = IF n = x THEN None ELSE disk[n]
  BY <1>2
<1>4. LedgerInv'
  <2>1. /\ \A n \in Names : disk'[n] \in Nat => disk'[n] <= made'
        /\ \A m, n \in Names : disk'[m] = disk'[n] /\ disk'[m] \in Nat \ {0} => m = n
    BY <1>2, <1>3 DEF DiskInv, LedgerInv
  <2>2. \A n \in Names : disk'[n] \in done' => disk'[n] = 0
    <3>1. \A n \in Names : n # x /\ disk[n] = disk[x] => disk[n] = 0
      BY <1>2 DEF DiskInv, LedgerInv
    <3>2. None \notin done'
      BY <1>2
    <3> QED BY <1>3, <3>1, <3>2 DEF DiskInv, LedgerInv
  <2>3. \A n \in Names : disk'[n] \in accepted' => n \in Known(order')
    <3>1. \A n \in Names : disk'[n] \in accepted => n # x /\ disk[n] \in accepted
      BY <1>2, <1>3
    <3>2. \A n \in Names : disk[n] \in accepted => n \in Known(order)
      BY DEF DiskInv, LedgerInv
    <3> QED BY <1>1, <3>1, <3>2
  <2>4. \A n \in Known(order') : disk'[n] \in Nat
    BY <1>1, <1>2, <1>3, KnownNames DEF DiskInv, LedgerInv
  <2>5. /\ load' \in Nat => load' <= made'
        /\ accepted' \subseteq 1 .. made' /\ done' \subseteq 0 .. made'
    <3>1. disk[x] \in 0 .. made /\ done \subseteq 0 .. made
      BY <1>2 DEF DiskInv, LedgerInv, TypeInv
    <3>2. done' \subseteq 0 .. made'
      BY <3>1
    <3> QED BY <3>2 DEF DiskInv, LedgerInv
  <2>6. \A p \in accepted' : p \in done' \/ \E n \in Names : disk'[n] = p
    BY <1>2, <1>3 DEF DiskInv, LedgerInv
  <2> QED BY <2>1, <2>2, <2>3, <2>4, <2>5, <2>6 DEF LedgerInv
<1> QED BY <1>1, <1>2, <1>3, <1>4

LEMMA Evicting == ASSUME DiskAssumption, DiskInv, MakeRoom PROVE DiskInv'
<1> USE DEF MakeRoom, queueVars, books2, pastVars, OnTheWay
<1>1. UNCHANGED Distinct(index)
  BY DEF Distinct
<1>2. CASE UNCHANGED <<disk, order, done>>
  <2>1. UNCHANGED <<Known(order), Distinct(order)>>
    BY <1>2 DEF Known, Distinct
  <2>2. TypeInv'
    BY <1>1, <1>2, <2>1 DEF DiskInv, TypeInv
  <2>3. OpInv'
    BY <1>2, <2>1 DEF DiskInv, OpInv
  <2>4. LedgerInv'
    BY <1>2, <2>1 DEF DiskInv, LedgerInv
  <2> QED BY <2>2, <2>3, <2>4 DEF DiskInv
<1>3. CASE Full /\ Evictable # {}
  <2>1. PICK x : x = Victim
    OBVIOUS
  <2>2. x \in Known(order) /\ x # head
    BY <1>3, <2>1, VictimQueued DEF DiskInv
  <2>3. /\ disk' = [disk EXCEPT ![x] = None] /\ order' = RemoveFirst(order, x)
        /\ done' = done \cup {disk[x]}
    BY <1>3, <2>1
  <2>4. /\ LedgerInv'
        /\ disk' \in [Names -> Nat \cup {None}] /\ done' \in SUBSET Nat
        /\ \A n \in Names : disk'[n] = IF n = x THEN None ELSE disk[n]
        /\ order' \in Seq(Names) /\ Distinct(order')
        /\ Known(order') = Known(order) \ {x}
        /\ order[1] # x => order' # <<>> /\ order'[1] = order[1]
    BY <2>2, <2>3, LeavesBoth
  <2>5. TypeInv'
    BY <1>1, <1>3, <2>4 DEF DiskInv, TypeInv
  <2>6. OpInv'
    <3>1. op' = "room" /\ up'
      BY <1>3
    <3>2. disk[x] \in Nat /\ x \in Names
      BY <2>2, KnownNames DEF DiskInv, LedgerInv
    <3>3. load' \notin done' /\ \A n \in Names : disk'[n] # load'
      BY <2>3, <2>4, <3>2 DEF DiskInv, OpInv, TypeInv, DiskAssumption
    <3>4. head' # None => /\ order' # <<>> /\ head' = order'[1] /\ head' \in Known(order')
                          /\ disk'[head'] \in Nat \ {0}
      BY <2>2, <2>4 DEF DiskInv, OpInv, TypeInv
    <3> QED BY <2>4, <3>1, <3>3, <3>4 DEF DiskInv, OpInv
  <2> QED BY <2>4, <2>5, <2>6 DEF DiskInv
<1> QED BY <1>2, <1>3

LEMMA Reread == ASSUME DiskAssumption, DiskInv, Check PROVE DiskInv'
<1> USE DEF Check, card, books2, pastVars, OnTheWay, Idle
<1>1. UNCHANGED Distinct(index)
  BY DEF Distinct
<1>2. order' \in Seq(Names) /\ Distinct(order') /\ Known(order') = OnDisk
  <2>1. OnDisk \in SUBSET Names /\ order' \in Arranged(OnDisk, order)
    BY DEF OnDisk, Reconciled
  <2>2. PICK S \in SUBSET Names : S = OnDisk
    BY <2>1
  <2>3. PICK o : o = order
    OBVIOUS
  <2>4. PICK r \in Arranged(S, o) : r = order'
    BY <2>1, <2>2, <2>3
  <2>5. r \in Seq(S) /\ Distinct(r) /\ Known(r) = S
    BY Rearranged
  <2>6. r \in Seq(Names)
    BY <2>5, SeqMonotonic
  <2> QED BY <2>2, <2>4, <2>5, <2>6
<1>3. TypeInv'
  BY <1>1, <1>2 DEF DiskInv, TypeInv
<1>4. head = None
  BY DEF DiskInv, OpInv
<1>5. OpInv'
  BY <1>2, <1>4 DEF DiskInv, OpInv
<1>6. LedgerInv'
  <2>1. /\ \A n \in Names : disk'[n] \in accepted' => n \in Known(order')
        /\ \A n \in Known(order') : disk'[n] \in Nat
    BY <1>2 DEF DiskInv, TypeInv, OnDisk, DiskAssumption
  <2> QED BY <2>1 DEF DiskInv, LedgerInv
<1> QED BY <1>3, <1>5, <1>6 DEF DiskInv

LEMMA Serving == ASSUME DiskAssumption, DiskInv, Peek \/ Serve \/ Confirm PROVE DiskInv'
<1> USE DEF Peek, Serve, Confirm, card, queueVars, books2, opVars, OnTheWay, Idle
<1>1. UNCHANGED <<Known(order), Distinct(order), Distinct(index)>>
  BY DEF Known, Distinct
<1>2. CASE Peek
  <2>1. /\ head' = order[1] /\ head' \in Known(order) /\ head' \in Names
        /\ disk[head'] \in Nat \ {0} /\ order # <<>>
    BY <1>2, Tailed, KnownNames DEF DiskInv, TypeInv
  <2>2. TypeInv'
    BY <1>1, <1>2, <2>1 DEF DiskInv, TypeInv
  <2>3. OpInv'
    BY <1>1, <1>2, <2>1 DEF DiskInv, OpInv
  <2>4. LedgerInv'
    BY <1>1, <1>2 DEF DiskInv, LedgerInv
  <2> QED BY <2>2, <2>3, <2>4 DEF DiskInv
<1>3. CASE Serve
  <2>1. TypeInv'
    BY <1>1, <1>3 DEF DiskInv, TypeInv, OpInv
  <2>2. OpInv'
    BY <1>1, <1>3 DEF DiskInv, OpInv
  <2>3. LedgerInv'
    BY <1>1, <1>3 DEF DiskInv, LedgerInv
  <2> QED BY <2>1, <2>2, <2>3 DEF DiskInv
<1>4. CASE Confirm
  <2>1. TypeInv'
    BY <1>1, <1>4 DEF DiskInv, TypeInv, OpInv
  <2>2. OpInv'
    BY <1>1, <1>4 DEF DiskInv, OpInv
  <2>3. LedgerInv'
    BY <1>1, <1>4 DEF DiskInv, LedgerInv
  <2> QED BY <2>1, <2>2, <2>3 DEF DiskInv
<1> QED BY <1>2, <1>3, <1>4

LEMMA Dropping == ASSUME DiskAssumption, DiskInv, DropUnusable PROVE DiskInv'
<1> USE DEF DropUnusable, books2, OnTheWay, Idle
<1>1. UNCHANGED Distinct(index)
  BY DEF Distinct
<1>2. PICK x : x = Head(order)
  OBVIOUS
<1>3. x \in Known(order)
  BY <1>2, Tailed DEF DiskInv, TypeInv
<1>4. disk[x] \notin accepted
  BY <1>2, <1>3 DEF DiskInv, TypeInv, LedgerInv, DiskAssumption
<1>5. /\ disk' = [disk EXCEPT ![x] = None] /\ order' = Tail(order)
      /\ up /\ op = "idle" /\ head = None /\ load = None
  BY <1>2 DEF DiskInv, OpInv
<1>6. /\ LedgerInv'
      /\ disk' \in [Names -> Nat \cup {None}] /\ done' \in SUBSET Nat
      /\ order' \in Seq(Names) /\ Distinct(order')
  BY <1>2, <1>3, <1>4, <1>5, LeavesBoth
<1>7. TypeInv'
  BY <1>1, <1>6 DEF DiskInv, TypeInv
<1>8. OpInv'
  BY <1>5 DEF DiskInv, OpInv
<1> QED BY <1>6, <1>7, <1>8 DEF DiskInv

LEMMA Removing == ASSUME DiskAssumption, DiskInv, RemoveConfirmed \/ Archive PROVE DiskInv'
<1> USE DEF RemoveConfirmed, Archive, OnTheWay
<1>1. UNCHANGED Distinct(index)
  BY DEF Distinct
<1>2. PICK x : x = name
  OBVIOUS
<1>3. x \in Known(order) /\ up /\ head = None /\ load = None /\ indexTemp = None
  BY <1>2 DEF DiskInv, OpInv
<1>4. /\ disk' = [disk EXCEPT ![x] = None] /\ order' = RemoveFirst(order, x)
      /\ done' = done \cup {disk[x]} /\ op' = "save" /\ UNCHANGED <<up, head, load, made>>
      /\ UNCHANGED <<temp, index, indexTemp, name, half, accepted>>
  BY <1>2
<1>5. /\ LedgerInv'
      /\ disk' \in [Names -> Nat \cup {None}] /\ done' \in SUBSET Nat
      /\ order' \in Seq(Names) /\ Distinct(order')
  BY <1>3, <1>4, LeavesBoth
<1>6. TypeInv'
  BY <1>1, <1>4, <1>5 DEF DiskInv, TypeInv
<1>7. OpInv'
  BY <1>3, <1>4 DEF DiskInv, OpInv
<1> QED BY <1>5, <1>6, <1>7 DEF DiskInv

LEMMA Forgetting == ASSUME DiskInv, ArchiveRoom PROVE DiskInv'
<1>1. UNCHANGED <<disk, temp, index, indexTemp, queueVars, opVars, pastVars, cuts, drops>>
  BY DEF ArchiveRoom
<1> QED BY <1>1
  DEF DiskInv, TypeInv, OpInv, LedgerInv, OnTheWay, Distinct, Known, queueVars, opVars, pastVars

LEMMA Cutting == ASSUME DiskAssumption, DiskInv, PowerCut PROVE DiskInv'
<1> USE DEF PowerCut, card, pastVars, OnTheWay
<1>1. UNCHANGED Distinct(index)
  BY DEF Distinct
<1>2. order' \in Seq(Names) /\ Distinct(order') /\ Known(order') = {}
  BY Empty
<1>3. TypeInv'
  BY <1>1, <1>2 DEF DiskInv, TypeInv
<1>4. OpInv'
  BY <1>2 DEF DiskInv, OpInv
<1>5. LedgerInv'
  <2>1. load' \in Nat => load' <= made'
    BY DEF DiskAssumption
  <2> QED BY <1>2, <2>1 DEF DiskInv, LedgerInv
<1> QED BY <1>3, <1>4, <1>5 DEF DiskInv

LEMMA Booting == ASSUME DiskAssumption, DiskInv, Boot PROVE DiskInv'
<1> USE DEF pastVars, OnTheWay
<1>1. UNCHANGED Distinct(index)
  BY DEF Boot, Distinct
<1>2. order' \in Seq(Names) /\ Distinct(order') /\ Known(order') = OnDisk
  <2>1. OnDisk \in SUBSET Names
    BY DEF OnDisk
  <2>2. PICK S \in SUBSET Names : S = OnDisk
    BY <2>1
  <2>3. PICK o : order' \in Arranged(S, o)
    BY <2>2 DEF Boot, Reconciled
  <2>4. PICK r \in Arranged(S, o) : r = order'
    BY <2>3
  <2>5. r \in Seq(S) /\ Distinct(r) /\ Known(r) = S
    BY Rearranged
  <2>6. r \in Seq(Names)
    BY <2>5, SeqMonotonic
  <2> QED BY <2>2, <2>4, <2>5, <2>6
<1>3. /\ ~up /\ up' /\ temp' = [n \in Names |-> None] /\ indexTemp' = None
      /\ op' \in {"idle", "save"} /\ up' \in BOOLEAN
      /\ UNCHANGED <<disk, index, head, name, load, made, half, accepted, done>>
  BY DEF Boot
<1>4. TypeInv'
  BY <1>1, <1>2, <1>3 DEF DiskInv, TypeInv
<1>5. load = None /\ head = None
  BY <1>3 DEF DiskInv, OpInv, TypeInv
<1>6. OpInv'
  BY <1>2, <1>3, <1>5 DEF OpInv
<1>7. LedgerInv'
  <2>1. /\ \A n \in Names : disk[n] \in accepted => n \in Known(order')
        /\ \A n \in Known(order') : disk[n] \in Nat
    BY <1>2 DEF DiskInv, TypeInv, OnDisk, DiskAssumption
  <2> QED BY <1>3, <2>1 DEF DiskInv, LedgerInv
<1> QED BY <1>4, <1>6, <1>7 DEF DiskInv

LEMMA Enqueuing ==
    ASSUME DiskAssumption, DiskInv, NEW n \in Names, Enqueue(n) PROVE DiskInv'
<1> USE DEF Enqueue, card, queueVars, books2, OnTheWay, Idle
<1>1. UNCHANGED <<Known(order), Distinct(order), Distinct(index)>>
  BY DEF Known, Distinct
<1>2. load' \in Nat \ {0} /\ made' \in Nat /\ load' = made' /\ made' = made + 1 /\ made \in Nat
  BY DEF DiskInv, TypeInv
<1>3. n \notin Known(order)
  BY InKnown
<1>4. TypeInv'
  BY <1>1, <1>2 DEF DiskInv, TypeInv
<1>5. load' \notin done /\ load' \notin accepted /\ \A k \in Names : disk[k] # load'
  BY <1>2 DEF DiskInv, LedgerInv
<1>6. OpInv'
  BY <1>1, <1>2, <1>3, <1>5 DEF DiskInv, OpInv, DiskAssumption
<1>7. LedgerInv'
  <2>1. /\ \A k \in Names : disk'[k] \in Nat => disk'[k] <= made'
        /\ accepted' \subseteq 1 .. made' /\ done' \subseteq 0 .. made'
    BY <1>2 DEF DiskInv, LedgerInv
  <2> QED BY <1>1, <1>2, <2>1 DEF DiskInv, LedgerInv
<1> QED BY <1>4, <1>6, <1>7 DEF DiskInv

LEMMA Copied ==
    ASSUME DiskAssumption, DiskInv, NEW n \in Names, NEW empty \in BOOLEAN,
           HandDrop(n, empty)
    PROVE  DiskInv'
<1> DEFINE p == IF empty THEN 0 ELSE made + 1
<1>1. /\ made \in Nat /\ made' \in Nat /\ p \in Nat /\ p <= made' /\ made <= made'
      /\ p = 0 \/ p > made
  BY DEF HandDrop, DiskInv, TypeInv
<1>2. /\ disk' = [disk EXCEPT ![n] = p] /\ disk[n] = None /\ op = "idle"
      /\ UNCHANGED <<temp, index, indexTemp, queueVars, opVars, half, accepted, done>>
  BY DEF HandDrop
<1> HIDE DEF p
<1>3. /\ \A k \in Names : disk'[k] = IF k = n THEN p ELSE disk[k]
      /\ disk' \in [Names -> Nat \cup {None}]
  BY <1>1, <1>2 DEF DiskInv, TypeInv
<1>4. UNCHANGED <<Known(order), Distinct(order), Distinct(index)>>
  BY <1>2 DEF Known, Distinct, queueVars
<1>5. TypeInv'
  BY <1>1, <1>2, <1>3, <1>4 DEF DiskInv, TypeInv, queueVars, opVars
<1>6. OpInv'
  <2>1. head # None => head \in Names /\ head # n
    BY <1>2, KnownNames DEF DiskInv, OpInv, DiskAssumption
  <2> QED BY <1>2, <1>3, <1>4, <2>1 DEF DiskInv, OpInv, OnTheWay, queueVars, opVars
<1>7. LedgerInv'
  <2>1. /\ \A k \in Names : disk'[k] \in Nat => disk'[k] <= made'
        /\ accepted' \subseteq 1 .. made' /\ done' \subseteq 0 .. made'
        /\ load' \in Nat => load' <= made'
    BY <1>1, <1>2, <1>3 DEF DiskInv, LedgerInv, TypeInv, opVars
  <2>2. \A k, m \in Names : disk'[k] = disk'[m] /\ disk'[k] \in Nat \ {0} => k = m
    BY <1>1, <1>3 DEF DiskInv, LedgerInv
  <2>3. /\ \A k \in Names : disk'[k] \in done' => disk'[k] = 0
        /\ \A k \in Names : disk'[k] \in accepted' => disk[k] \in accepted
    BY <1>1, <1>2, <1>3 DEF DiskInv, LedgerInv, TypeInv
  <2>4. \A q \in accepted' : q \in done' \/ \E k \in Names : disk'[k] = q
    BY <1>2, <1>3 DEF DiskInv, LedgerInv, TypeInv, DiskAssumption
  <2>5. \A k \in Known(order') : disk'[k] \in Nat
    BY <1>1, <1>2, <1>3, <1>4, KnownNames DEF DiskInv, LedgerInv
  <2> QED BY <1>2, <1>4, <2>1, <2>2, <2>3, <2>4, <2>5 DEF DiskInv, LedgerInv, queueVars
<1> QED BY <1>5, <1>6, <1>7 DEF DiskInv

-----------------------------------------------------------------------------
(* What the queue promises.                                                *)

LEMMA DiskStep == ASSUME DiskAssumption, DiskInv, [Next]_vars PROVE DiskInv'
<1>1. CASE UNCHANGED vars
  BY <1>1, Stutter
<1>2. CASE WriteTemp \/ Rename \/ List \/ SaveIndex \/ SaveFails \/ MakeRoom
  BY <1>2, Writing, Renaming, Listing, Saving, Evicting
<1>3. CASE Check \/ Peek \/ DropUnusable \/ Serve \/ Confirm
  BY <1>3, Reread, Serving, Dropping
<1>4. CASE RemoveConfirmed \/ ArchiveRoom \/ Archive \/ PowerCut \/ Boot
  BY <1>4, Removing, Forgetting, Cutting, Booting
<1>5. ASSUME NEW n \in Names, Enqueue(n) \/ \E empty \in BOOLEAN : HandDrop(n, empty)
      PROVE  DiskInv'
  BY <1>5, Enqueuing, Copied
<1> QED BY <1>1, <1>2, <1>3, <1>4, <1>5 DEF Next

LEMMA DiskAlways == ASSUME DiskAssumption PROVE Spec => []DiskInv
<1>1. Init => DiskInv
  <2>1. ASSUME Init PROVE TypeInv
    <3>1. order \in Seq(Names) /\ Distinct(order)
      BY <2>1, Empty DEF Init
    <3> QED BY <2>1, <3>1 DEF Init, Nothing, TypeInv
  <2>2. ASSUME Init PROVE OpInv
    BY <2>2 DEF Init, OpInv, OnTheWay
  <2>3. ASSUME Init PROVE LedgerInv
    BY <2>3, Empty DEF Init, Nothing, LedgerInv, DiskAssumption
  <2> QED BY <2>1, <2>2, <2>3 DEF DiskInv
<1>2. DiskInv /\ [Next]_vars => DiskInv'
  BY DiskStep
<1> QED BY <1>1, <1>2, PTL DEF Spec

\* Whatever the power does, a payload enqueue took stays on the card until it
\* is confirmed or evicted, and is in the order whenever the node is at rest.
THEOREM TakenIsKept == ASSUME DiskAssumption PROVE Spec => []NothingLost
<1>1. DiskInv => NothingLost
  <2>1. SUFFICES ASSUME DiskInv PROVE NothingLost
    OBVIOUS
  <2>2. ASSUME NEW p \in accepted, p \notin done
        PROVE  \E n \in Names : disk[n] = p /\ (up => n \in Known(order))
    BY <2>1, <2>2 DEF DiskInv, LedgerInv
  <2>3. ASSUME NEW n \in Known(order) PROVE disk[n] \in Queued
    BY DEF Known, Queued
  <2> QED BY <2>2, <2>3 DEF NothingLost, Idle
<1> QED BY <1>1, DiskAlways, PTL

\* What the folder holds is never half a file: the rename comes after the last
\* byte of the temporary.
THEOREM FilesAreWhole == ASSUME DiskAssumption PROVE Spec => []NeverTorn
<1>1. DiskInv => NeverTorn
  BY DEF DiskInv, TypeInv, NeverTorn, DiskAssumption
<1> QED BY <1>1, DiskAlways, PTL

\* A confirmed file is in the folder no more, so that nothing adopts it.
THEOREM DoneIsGone == ASSUME DiskAssumption PROVE Spec => []LeavesTheFolder
<1>1. DiskInv => LeavesTheFolder
  BY DEF DiskInv, LedgerInv, LeavesTheFolder
<1> QED BY <1>1, DiskAlways, PTL

-----------------------------------------------------------------------------
(* Where a rename replaces its target and the order can always be written, *)
(* the file a node resumes is the one it had begun.                        *)

\* What the peer has half of is first in the order on the card, and in RAM.
HalfInv ==
    /\ ~astray
    /\ Idle => index = order \/ (index = None /\ order = <<>>)
    /\ op \in {"archive", "remove"} => half = None
    /\ half # None =>
          /\ half # 0 /\ index \notin {None, <<>>} /\ disk[index[1]] = half
          /\ up => order # <<>> /\ order[1] = index[1]

\* No eviction takes the file the peer has half of: as long as it is the head it
\* is spared, and until it is again nothing has to give way.
SparesHalf ==
    op = "room" /\ Full /\ Evictable # {} /\ half # None => disk[Victim] # half

LEMMA HalfStep ==
    ASSUME DiskAssumption, Replaces, ~SaveMayFail, DiskInv, HalfInv, SparesHalf, [Next]_vars
    PROVE  HalfInv'
<1>1. CASE WriteTemp \/ UNCHANGED vars
  <2>1. /\ UNCHANGED <<disk, index, order, half, astray, up>>
        /\ op' \in {op, "rename"}
    BY <1>1 DEF WriteTemp, vars, card, queueVars, opVars, pastVars
  <2> QED BY <2>1 DEF HalfInv, Idle
<1>2. CASE Rename
  <2>1. /\ disk' = [disk EXCEPT ![name] = temp[name]] /\ op' = "list"
        /\ UNCHANGED <<index, order, half, astray, up>>
    BY <1>2 DEF Rename, queueVars, pastVars
  <2>2. up /\ name \notin Known(order)
    BY <1>2 DEF Rename, DiskInv, OpInv, OnTheWay
  <2>3. half # None => order[1] \in Known(order) /\ order[1] \in Names
    BY <2>2, Tailed, KnownNames DEF HalfInv, DiskInv, TypeInv
  <2>4. half # None => disk'[order[1]] = disk[order[1]]
    BY <2>1, <2>2, <2>3 DEF DiskInv, TypeInv
  <2> QED BY <2>1, <2>2, <2>4 DEF HalfInv, Idle
<1>3. CASE List
  <2>1. /\ order' = Append(order, name) /\ op' = "save" /\ up
        /\ UNCHANGED <<disk, index, half, astray, up>>
    BY <1>3 DEF List, card, pastVars
  <2>2. order' # <<>> /\ (order # <<>> => order'[1] = order[1])
    BY <1>3, <2>1, Appended DEF List, DiskInv, TypeInv, OpInv, OnTheWay
  <2> QED BY <2>1, <2>2 DEF HalfInv, Idle
<1>4. CASE SaveIndex \/ SaveFails
  <2>1. up /\ op = "save" /\ UNCHANGED <<disk, order, half, astray, up>>
    BY <1>4 DEF SaveIndex, SaveFails, card, queueVars
  <2>2. CASE UNCHANGED <<index, op>>
    BY <2>1, <2>2 DEF HalfInv, Idle
  <2>3. CASE index' = indexTemp /\ indexTemp \notin {None, Part} /\ op' = "idle"
    <3>1. index' = order /\ index' # None
      BY <2>1, <2>3 DEF DiskInv, OpInv
    <3> QED BY <2>1, <2>3, <3>1 DEF HalfInv, Idle
  <2> QED BY <1>4, <2>2, <2>3 DEF SaveIndex, SaveFails, Saved, opVars
<1>5. CASE MakeRoom
  <2>1. up /\ op = "room" /\ UNCHANGED <<index, half, astray, up>>
    BY <1>5 DEF MakeRoom
  <2>2. CASE UNCHANGED <<disk, order>> /\ op' = "write"
    BY <2>1, <2>2 DEF HalfInv, Idle
  <2>3. CASE Full /\ Evictable # {} /\ op' = "room"
    <3>1. PICK x : x = Victim
      OBVIOUS
    <3>2. /\ disk' = [disk EXCEPT ![x] = None] /\ order' = RemoveFirst(order, x)
          /\ x \in Known(order)
      BY <1>5, <2>3, <3>1, VictimQueued DEF MakeRoom, DiskInv
    <3>3. half # None => x # order[1]
      BY <2>1, <2>3, <3>1 DEF SparesHalf, HalfInv
    <3>4. half # None => order' # <<>> /\ order'[1] = order[1]
      BY <3>2, <3>3, Removed DEF DiskInv, TypeInv
    <3>5. half # None => disk'[order[1]] = disk[order[1]]
      BY <2>1, <3>2, <3>3, KnownNames, Tailed DEF HalfInv, DiskInv, TypeInv
    <3> QED BY <2>1, <2>3, <3>4, <3>5 DEF HalfInv, Idle
  <2> QED BY <1>5, <2>2, <2>3 DEF MakeRoom
<1>6. CASE Check
  <2>1. /\ up /\ order = <<>> /\ op' = "save"
        /\ UNCHANGED <<disk, index, half, astray, up>>
    BY <1>6 DEF Check, card, pastVars, Idle
  <2> QED BY <2>1 DEF HalfInv, Idle
<1>7. CASE Peek
  <2>1. /\ Idle /\ order # <<>> /\ Head(order) = order[1]
        /\ astray' = (astray \/ half \notin {None, disk[order[1]]})
        /\ UNCHANGED <<disk, index, order, half, up, op>>
    BY <1>7, Tailed DEF Peek, card, opVars, DiskInv, TypeInv
  <2>2. half # None => disk[order[1]] = half
    BY <2>1 DEF HalfInv, Idle
  <2> QED BY <2>1, <2>2 DEF HalfInv, Idle
<1>8. CASE DropUnusable
  <2>1. /\ Idle /\ order # <<>> /\ Head(order) = order[1] /\ disk[order[1]] \in {None, 0}
        /\ op' = "save" /\ UNCHANGED <<index, half, astray, up>>
    BY <1>8, Tailed DEF DropUnusable, DiskInv, TypeInv
  <2>2. half = None
    BY <2>1 DEF HalfInv, Idle
  <2> QED BY <2>1, <2>2 DEF HalfInv, Idle
<1>9. CASE Serve
  <2>1. /\ Idle /\ head # None /\ half' = disk[head]
        /\ UNCHANGED <<disk, index, order, astray, up, op>>
    BY <1>9 DEF Serve, card, queueVars, opVars
  <2>2. /\ order # <<>> /\ head = order[1] /\ disk[head] \in Nat \ {0} /\ index = order
    BY <2>1 DEF DiskInv, OpInv, HalfInv
  <2>3. index # None
    BY <2>2 DEF DiskInv, TypeInv, DiskAssumption
  <2> QED BY <2>1, <2>2, <2>3 DEF HalfInv, Idle
<1>10. CASE Confirm
  BY <1>10 DEF Confirm, HalfInv, Idle
<1>11. CASE RemoveConfirmed \/ Archive
  <2>1. /\ op \in {"archive", "remove"} /\ op' = "save"
        /\ UNCHANGED <<index, half, astray, up>>
    BY <1>11 DEF RemoveConfirmed, Archive
  <2> QED BY <2>1 DEF HalfInv, Idle
<1>12. CASE ArchiveRoom
  BY <1>12 DEF ArchiveRoom, HalfInv, Idle, queueVars, opVars, pastVars
<1>13. CASE PowerCut
  BY <1>13 DEF PowerCut, HalfInv, Idle, card, pastVars
<1>14. CASE Boot
  <2> DEFINE found == IF index = None THEN <<>> ELSE index
  <2>1. /\ ~up /\ up' /\ order' \in Arranged(OnDisk, found)
        /\ op' = IF order' = found THEN "idle" ELSE "save"
        /\ UNCHANGED <<disk, index, half, astray>>
    BY <1>14 DEF Boot, pastVars, Reconciled
  <2>2. half # None => order' # <<>> /\ order'[1] = index[1]
    <3> SUFFICES ASSUME half # None PROVE order' # <<>> /\ order'[1] = index[1]
      OBVIOUS
    <3>1. /\ index \in Seq(Names) /\ Distinct(index) /\ index # <<>> /\ index # None
          /\ disk[index[1]] = half
      BY DEF HalfInv, DiskInv, TypeInv
    <3>2. PICK o \in Seq(Names) : o = index
      BY <3>1
    <3>3. Distinct(o) /\ o # <<>>
      BY <3>1, <3>2
    <3>4. OnDisk \in SUBSET Names /\ o[1] \in OnDisk
      BY <3>1, <3>2, <3>3, Tailed DEF OnDisk, Known
    <3>5. PICK S \in SUBSET Names : S = OnDisk
      BY <3>4
    <3>6. PICK r \in Arranged(S, o) : r = order'
      BY <2>1, <3>1, <3>2, <3>5
    <3> QED BY <3>2, <3>3, <3>4, <3>5, <3>6, FirstStaysFirst
  <2>3. Idle' => index' = order' \/ (index' = None /\ order' = <<>>)
    BY <2>1 DEF Idle
  <2> QED BY <2>1, <2>2, <2>3 DEF HalfInv
<1>15. ASSUME NEW n \in Names, Enqueue(n) PROVE HalfInv'
  BY <1>15 DEF Enqueue, HalfInv, Idle, card, queueVars
<1>16. ASSUME NEW n \in Names, NEW empty \in BOOLEAN, HandDrop(n, empty) PROVE HalfInv'
  <2>1. PICK p : disk' = [disk EXCEPT ![n] = p]
    BY <1>16 DEF HandDrop
  <2>2. /\ disk[n] = None /\ UNCHANGED <<index, order, half, astray, up, op>>
    BY <1>16 DEF HandDrop, queueVars, opVars
  <2>3. half # None => index[1] # n
    BY <2>2 DEF HalfInv
  <2>4. half # None => disk'[index[1]] = disk[index[1]]
    BY <2>1, <2>3 DEF DiskInv, TypeInv
  <2> QED BY <2>2, <2>4 DEF HalfInv, Idle
<1> QED BY <1>1, <1>2, <1>3, <1>4, <1>5, <1>6, <1>7, <1>8, <1>9, <1>10, <1>11, <1>12,
           <1>13, <1>14, <1>15, <1>16 DEF Next

\* A file the peer has half of is the one at the head when the node is back,
\* however often the power fails, as long as it has not been evicted.
THEOREM ResumedAsBegun ==
    ASSUME DiskAssumption, Replaces, ~SaveMayFail
    PROVE  Spec /\ []SparesHalf => []ResumesTheSame
<1>1. Init => HalfInv
  BY DEF Init, HalfInv, Idle
<1>2. DiskInv /\ HalfInv /\ SparesHalf /\ [Next]_vars => HalfInv'
  BY HalfStep
<1>3. HalfInv => ResumesTheSame
  BY DEF HalfInv, ResumesTheSame
<1> QED BY <1>1, <1>2, <1>3, DiskAlways, PTL DEF Spec
=============================================================================
