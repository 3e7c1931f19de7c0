------------------------------ MODULE DiskQueue ------------------------------
(***************************************************************************)
(* The outgoing queue a node keeps on flash, down to the operations of the *)
(* filesystem, any two of which a power cut may come between.  A payload   *)
(* is written under a temporary name and renamed; the send order is a file *)
(* of its own, written after the payload and read back with a grain of     *)
(* salt.  The node serves the head and drops it when the peer confirms; an *)
(* archive keeps delivered files up to a budget.                           *)
(*                                                                         *)
(* A payload is its number, and `half` the one the peer has half of: the   *)
(* node resumes whatever is at the head after a restart as that one.       *)
(***************************************************************************)
EXTENDS Naturals, Sequences, SequencesExt, FiniteSets

CONSTANTS
    Names,           \* numbers, ordered as the names sort
    None, Part,
    Replaces,        \* rename replaces its target (littlefs), or fails (FAT)
    SaveMayFail,     \* may the card refuse to write the order
    Keeps,           \* cleanup is off: delivered files are archived
    Budget,          \* archive_budget
    QueueSize,       \* file_queue_size
    MaxPayloads, MaxCuts, MaxDrops,
    MayDropEmpty     \* may a hand-dropped file be empty

VARIABLES
    \* the card
    disk, temp,      \* the queue folder: payload, Part or None, per name
    index, indexTemp,\* queue.json and its temporary: an order, Part, or None
    archive,         \* the archive folder
    \* RAM
    up, order,       \* powered, _order
    head,            \* _head_name
    archived, books, \* _archived, _archive_bytes
    op, name, load,  \* the operation on the card, its name and payload
    \* history
    made, half,      \* payloads made, the one half delivered
    accepted, done,  \* taken by enqueue; confirmed or evicted
    astray,          \* a head was resumed as another file
    raised,          \* the pump was handed no file
    cuts, drops

card  == <<disk, temp, index, indexTemp, archive>>
queueVars == <<up, order, head>>
books2 == <<archived, books>>
opVars == <<op, name, load>>
pastVars == <<made, half, accepted, done, astray, raised>>
vars  == <<card, queueVars, books2, opVars, pastVars, cuts, drops>>

\* What every theorem about this module takes of its constants: neither None nor
\* Part is the number of a name or of a payload, or an order.
DiskAssumption ==
    /\ IsFiniteSet(Names) /\ Names \subseteq Nat \ {0}
    /\ None \notin Nat /\ Part \notin Nat /\ None # Part
    /\ None \notin Seq(Names) /\ Part \notin Seq(Names)

\* Odd payloads are twice the size of even ones; an empty file is payload 0.
Size(p) == IF p = None THEN 0 ELSE 1 + (p % 2)

InOrder(n) == \E i \in DOMAIN order : order[i] = n
Idle == up /\ op = "idle"

-----------------------------------------------------------------------------
(* Committing a file: a temporary, then a rename that on FAT takes two     *)
(* steps when the name is in use.                                          *)

WriteTemp ==
    /\ up /\ op = "write"
    /\ IF temp[name] # Part
       THEN temp' = [temp EXCEPT ![name] = Part] /\ UNCHANGED op
       ELSE temp' = [temp EXCEPT ![name] = load] /\ op' = "rename"
    /\ UNCHANGED <<disk, index, indexTemp, archive, queueVars, books2, name, load,
                   pastVars, cuts, drops>>

Rename ==
    /\ up /\ op = "rename"
    /\ IF Replaces \/ disk[name] = None
       THEN /\ disk' = [disk EXCEPT ![name] = temp[name]]
            /\ temp' = [temp EXCEPT ![name] = None]
            /\ op' = "list"
       ELSE disk' = [disk EXCEPT ![name] = None] /\ UNCHANGED <<temp, op>>
    /\ UNCHANGED <<index, indexTemp, archive, queueVars, books2, name, load,
                   pastVars, cuts, drops>>

\* The name joins the order in RAM.
List ==
    /\ up /\ op = "list"
    /\ order' = Append(order, name)
    /\ op' = "save"
    /\ UNCHANGED <<card, up, head, books2, name, load, pastVars, cuts, drops>>

\* _save_index, the same way.  What it is called for is then done: the
\* enqueue is answered, or the confirmed file forgotten.
Saved ==
    /\ op' = "idle" /\ name' = None /\ load' = None
    /\ accepted' = IF load = None THEN accepted ELSE accepted \cup {load}

SaveIndex ==
    /\ up /\ op = "save"
    /\ CASE indexTemp = None -> indexTemp' = Part /\ UNCHANGED <<index, opVars, accepted>>
         [] indexTemp = Part -> indexTemp' = order /\ UNCHANGED <<index, opVars, accepted>>
         [] OTHER -> IF Replaces \/ index = None
                     THEN index' = indexTemp /\ indexTemp' = None /\ Saved
                     ELSE index' = None /\ UNCHANGED <<indexTemp, opVars, accepted>>
    /\ UNCHANGED <<disk, temp, archive, queueVars, books2, made, half, done, astray,
                   raised, cuts, drops>>

\* A card that is full: the order stays in RAM and the old one on the card.
SaveFails ==
    /\ SaveMayFail /\ up /\ op = "save" /\ indexTemp = None
    /\ Saved
    /\ UNCHANGED <<card, queueVars, books2, made, half, done, astray, raised, cuts, drops>>

-----------------------------------------------------------------------------
(* Operations of the producer and of the node.                             *)

\* enqueue: a name already queued is refused.
Enqueue(n) ==
    /\ Idle /\ ~InOrder(n) /\ made < MaxPayloads
    /\ made' = made + 1
    /\ op' = "room" /\ name' = n /\ load' = made'
    /\ UNCHANGED <<card, queueVars, books2, half, accepted, done, astray, raised, cuts, drops>>

\* Evicts until there is room; the index is not saved for it.
Full == Len(order) >= QueueSize
Evictable == {i \in DOMAIN order : order[i] # head}
Victim == order[CHOOSE i \in Evictable : \A j \in Evictable : i <= j]

MakeRoom ==
    /\ up /\ op = "room"
    /\ IF ~Full \/ Evictable = {}
       THEN op' = "write" /\ UNCHANGED <<disk, order, done>>
       ELSE /\ disk' = [disk EXCEPT ![Victim] = None]
            /\ order' = RemoveFirst(order, Victim)
            /\ done' = done \cup {disk[Victim]} /\ UNCHANGED op
    /\ UNCHANGED <<temp, index, indexTemp, archive, up, head, books2, name, load, made,
                   half, accepted, astray, raised, cuts, drops>>

\* _reconcile: the card decides what exists, the order only in which order; what
\* the order does not know comes after it, by name.  Nothing is on the way to the
\* card while it runs.
OnDisk == {n \in Names : disk[n] # None}
Known(o) == {o[i] : i \in DOMAIN o}
Place(o, n) == IF n \in Known(o) THEN CHOOSE i \in DOMAIN o : o[i] = n ELSE Len(o) + n
Arranged(S, o) ==
    {r \in SetToSeqs(S) : \A i, j \in DOMAIN r : i < j => Place(o, r[i]) < Place(o, r[j])}

\* Mutant of Reconciled: what the order does not know is left alone.
Reconciled_Known(o) == Arranged(OnDisk \cap Known(o), o)

\* Mutant of Reconciled: the order is made anew.
Reconciled_Sorted(o) == Arranged(OnDisk, <<>>)

\* The one order it comes to.
Reconciled(o) == Arranged(OnDisk, o)

\* The pump: with nothing queued the folder is looked at again.
Check ==
    /\ Idle /\ order = <<>>
    /\ order' \in Reconciled(order) /\ order' # order
    /\ op' = "save"
    /\ UNCHANGED <<card, up, head, books2, name, load, pastVars, cuts, drops>>

\* peek_file installs the head.  What it had half delivered is resumed as
\* announced, whatever is there now.
Peek ==
    /\ Idle /\ head = None /\ order # <<>>
    /\ disk[Head(order)] \notin {None, 0}
    /\ head' = Head(order)
    /\ astray' = (astray \/ half \notin {None, disk[Head(order)]})
    /\ UNCHANGED <<card, up, order, books2, opVars, made, half, accepted, done, raised,
                   cuts, drops>>

\* An empty or unreadable head is dropped; without a next one the node is
\* handed no file, and does not look.
DropUnusable ==
    /\ Idle /\ head = None /\ order # <<>>
    /\ disk[Head(order)] \in {None, 0}
    /\ disk' = [disk EXCEPT ![Head(order)] = None]
    /\ order' = Tail(order)
    /\ raised' = (raised \/ order' = <<>>)
    /\ op' = "save"
    /\ UNCHANGED <<temp, index, indexTemp, archive, up, head, books2, name, load, made,
                   half, accepted, done, astray, cuts, drops>>

\* The peer has chunks of the head, not yet all.
Serve ==
    /\ Idle /\ head # None /\ half # disk[head]
    /\ half' = disk[head]
    /\ UNCHANGED <<card, queueVars, books2, opVars, made, accepted, done, astray, raised,
                   cuts, drops>>

\* confirm_file, for the file that was peeked, wherever it stands now.
Confirm ==
    /\ Idle /\ head # None
    /\ op' = IF Keeps /\ InOrder(head) THEN "archive" ELSE "remove"
    /\ name' = head /\ head' = None
    /\ half' = None
    /\ UNCHANGED <<card, up, order, books2, load, made, accepted, done, astray, raised,
                   cuts, drops>>

\* The card first, then the order.
RemoveConfirmed ==
    /\ up /\ op = "remove"
    /\ disk' = [disk EXCEPT ![name] = None]
    /\ order' = RemoveFirst(order, name)
    /\ done' = done \cup {disk[name]}
    /\ op' = "save"
    /\ UNCHANGED <<temp, index, indexTemp, archive, up, head, books2, name, load, made,
                   half, accepted, astray, raised, cuts, drops>>

-----------------------------------------------------------------------------
(* The archive.                                                            *)

Forget(n) ==
    /\ archive' = [archive EXCEPT ![n] = None]
    /\ archived' = RemoveFirst(archived, n)
    /\ books' = books - Size(archive[n])

\* A name kept before comes off the books first; then the oldest go.
MustForget ==
    IF \E i \in DOMAIN archived : archived[i] = name THEN name
    ELSE IF archived # <<>> /\ books + Size(disk[name]) > Budget THEN Head(archived)
    ELSE None

ArchiveRoom ==
    /\ up /\ op = "archive" /\ MustForget # None
    /\ Forget(MustForget)
    /\ UNCHANGED <<disk, temp, index, indexTemp, queueVars, opVars, pastVars, cuts, drops>>

Archive ==
    /\ up /\ op = "archive" /\ MustForget = None
    /\ disk' = [disk EXCEPT ![name] = None]
    /\ archive' = [archive EXCEPT ![name] = disk[name]]
    /\ archived' = Append(archived, name) /\ books' = books + Size(disk[name])
    /\ order' = RemoveFirst(order, name)
    /\ done' = done \cup {disk[name]}
    /\ op' = "save"
    /\ UNCHANGED <<temp, index, indexTemp, up, head, name, load, made, half, accepted,
                   astray, raised, cuts, drops>>

-----------------------------------------------------------------------------
(* Power.                                                                  *)

PowerCut ==
    /\ up /\ cuts < MaxCuts /\ cuts' = cuts + 1
    /\ up' = FALSE
    /\ order' = <<>> /\ head' = None /\ archived' = <<>> /\ books' = 0
    /\ op' = "idle" /\ name' = None /\ load' = None
    /\ UNCHANGED <<card, pastVars, drops>>

\* prepare: temporaries go, the order is read back and reconciled, and the
\* archive counted afresh in whatever order it is listed.
ArchiveNames == {n \in Names : archive[n] # None}

Boot ==
    /\ ~up /\ up' = TRUE
    /\ temp' = [n \in Names |-> None] /\ indexTemp' = None
    /\ LET found == IF index = None THEN <<>> ELSE index IN
       /\ order' \in Reconciled(found)
       /\ op' = IF order' = found THEN "idle" ELSE "save"
    /\ \E listing \in SetToSeqs(ArchiveNames) : archived' = IF Keeps THEN listing ELSE <<>>
    /\ books' = IF Keeps
                THEN Cardinality(ArchiveNames)
                     + Cardinality({n \in ArchiveNames : archive[n] % 2 = 1})
                ELSE 0
    /\ UNCHANGED <<disk, index, archive, head, name, load, pastVars, cuts, drops>>

\* Somebody copies a file into the folder.
HandDrop(n, empty) ==
    /\ drops < MaxDrops /\ drops' = drops + 1
    /\ disk[n] = None /\ ~InOrder(n) /\ op = "idle" /\ (empty => MayDropEmpty)
    /\ IF empty THEN UNCHANGED made ELSE made' = made + 1
    /\ disk' = [disk EXCEPT ![n] = IF empty THEN 0 ELSE made + 1]
    /\ UNCHANGED <<temp, index, indexTemp, archive, queueVars, books2, opVars, half,
                   accepted, done, astray, raised, cuts>>

-----------------------------------------------------------------------------
Nothing == [n \in Names |-> None]

Init ==
    /\ disk = Nothing /\ temp = Nothing /\ archive = Nothing
    /\ index = None /\ indexTemp = None
    /\ up = FALSE /\ order = <<>> /\ head = None /\ archived = <<>> /\ books = 0
    /\ op = "idle" /\ name = None /\ load = None
    /\ made = 0 /\ half = None /\ accepted = {} /\ done = {}
    /\ astray = FALSE /\ raised = FALSE /\ cuts = 0 /\ drops = 0

Next ==
    \/ WriteTemp \/ Rename \/ List \/ SaveIndex \/ SaveFails
    \/ MakeRoom \/ Check \/ Peek \/ DropUnusable \/ Serve \/ Confirm
    \/ RemoveConfirmed \/ ArchiveRoom \/ Archive \/ PowerCut \/ Boot
    \/ \E n \in Names : Enqueue(n) \/ \E empty \in BOOLEAN : HandDrop(n, empty)

Spec == Init /\ [][Next]_vars

-----------------------------------------------------------------------------
\* A payload the queue said it took is on the card until it is confirmed or
\* evicted, and queued whenever the node is up: whatever the power does.
Queued == {disk[order[i]] : i \in DOMAIN order}
NothingLost ==
    /\ accepted \subseteq done \cup {disk[n] : n \in Names}
    /\ Idle => accepted \subseteq done \cup Queued

\* What can be found in the folder is never half a file.
NeverTorn == \A n \in Names : disk[n] # Part

\* A confirmed file leaves the folder, or it would be adopted and sent again.
LeavesTheFolder == Idle => \A n \in Names : disk[n] \notin done \ {0}

\* A node does not resume one file as another.
ResumesTheSame == ~astray

\* The archive stays within its budget, unless a single file is more than it;
\* and the count it goes by is what the folder holds.
ArchiveBounded ==
    Idle /\ Keeps => /\ Len(archived) <= 1 \/ books <= Budget
                     /\ {archived[i] : i \in DOMAIN archived} = ArchiveNames
                     /\ Cardinality(ArchiveNames) = Len(archived)

\* A pump that sees a file pending is given one.
PumpHasAFile == ~raised
=============================================================================
