------------------------------- MODULE MeshRelay -------------------------------
(***************************************************************************)
(* Mesh mode, on version 2 of the protocol: one endpoint the Hub may hear  *)
(* only through other nodes.  A question that went unanswered often enough *)
(* is sent with the mesh bit, which asks whoever hears it to send it on    *)
(* after a rest; what was sent on before is known by its identifier.       *)
(* Identifiers are random in the code and distinct here, and the nodes     *)
(* remember as many of them as a run has: a rest is far shorter than the   *)
(* MAX_IDS_CACHED frames it would take to forget one.                      *)
(***************************************************************************)
EXTENDS Naturals, SequencesExt

CONSTANTS
    None, Hub, Edge, Relays,
    NChunks,             \* of each file
    MAX_RETRANSMISSIONS_BEFORE_MESH, MAX_IDS_CACHED,
    MaxFrames, MaxMoves  \* frames made, and times the Edge comes into or out of range

\* What every theorem about this module takes of its constants: no identifier
\* is forgotten.
MeshAssumption ==
    /\ MaxFrames \in Nat /\ MAX_IDS_CACHED \in Nat /\ MaxFrames <= MAX_IDS_CACHED
    /\ Hub # Edge /\ Hub \notin Relays /\ Edge \notin Relays

Nodes == Relays \cup {Hub, Edge}

VARIABLES
    apart,         \* whether Hub and Edge do not hear each other
    held,          \* of each node, the frame it heard and is busy with, or None
    LAST_IDS, LAST_SEEN_IDS,
    made, moves,
    \* The Hub: its Digital_Endpoint, the chunks placed, and whether it waits.
    state, placed, mesh, retransmission_counter, waiting,
    \* The Edge: the file it serves, and how far it came with it.
    serving, metadata_sent, first_sent,
    relayed        \* history: <<node, identifier>> sent on

air == <<apart, moves>>
ids == <<LAST_IDS, LAST_SEEN_IDS, made>>
collector == <<state, placed, mesh, retransmission_counter>>
source == <<serving, metadata_sent, first_sent>>
vars == <<air, held, ids, collector, waiting, source, relayed>>

\* The last MAX_IDS_CACHED of them.
Cached(s) == IF Len(s) > MAX_IDS_CACHED THEN Tail(s) ELSE s

-----------------------------------------------------------------------------
(* The air, and who takes what from it.                                    *)

\* check_id_list.
Seen(n, f) == f.id \in ToSet(LAST_SEEN_IDS[n])

\* listen_requester: what it sent itself, and what it sent on, a node ignores.
Known(n, f) == Seen(n, f) \/ f.id \in ToSet(LAST_IDS[n])

\* A node that rests before it sends on, or the Hub between two questions, drops
\* what it hears when it next sends.
Listens(n) == held[n] = None /\ (n = Hub => waiting)

\* Heard by any of those in range; n is done with what it held.
Transmit(n, f) ==
    \E heard \in SUBSET {m \in Nodes \ {n} : Listens(m) /\ ~(apart /\ {n, m} = {Hub, Edge})} :
        held' = [m \in Nodes |->
                   IF m = n THEN None
                   ELSE IF m \in heard /\ (m = Hub \/ ~Known(m, f)) THEN f ELSE held[m]]

\* generate_id, within the bound.
Identified(n) ==
    /\ made < MaxFrames /\ made' = made + 1
    /\ LAST_IDS' = [LAST_IDS EXCEPT ![n] = Cached(Append(@, made'))]

\* The Edge, or what is between, moves.
Moves ==
    /\ moves < MaxMoves /\ moves' = moves + 1
    /\ apart' = ~apart
    /\ UNCHANGED <<held, ids, collector, waiting, source, relayed>>

-----------------------------------------------------------------------------
(* Relays.                                                                 *)

\* forward: the packet is marked with a hop, but the bytes sent are the bytes it
\* was loaded from.  `over` is history: sent on by a relay.
Forwarded(f) == [f EXCEPT !.over = TRUE]

Forward(n) ==
    /\ held[n] # None /\ held[n].to # n /\ n # Hub
    /\ IF held[n].mesh
       THEN /\ Transmit(n, Forwarded(held[n]))
            /\ LAST_SEEN_IDS' = [LAST_SEEN_IDS EXCEPT ![n] = Cached(Append(@, held[n].id))]
            /\ relayed' = relayed \cup {<<n, held[n].id>>}
       ELSE held' = [held EXCEPT ![n] = None] /\ UNCHANGED <<LAST_SEEN_IDS, relayed>>
    /\ UNCHANGED <<air, LAST_IDS, made, collector, waiting, source>>

-----------------------------------------------------------------------------
(* The Edge.                                                               *)

Reply(f, command, chunk) ==
    [to |-> Hub, command |-> command, chunk |-> chunk, mesh |-> f.mesh /\ f.hop, hop |-> FALSE,
     over |-> FALSE, id |-> made + 1]

\* response: an OK once a chunk was served ends the file, whatever was asked by it.
Answer ==
    LET f == held[Edge]
        command == IF f.command # "CHUNK" THEN f.command
                   ELSE IF metadata_sent THEN "DATA" ELSE "METADATA"
        ends == command = "OK" /\ first_sent
    IN  /\ f # None /\ f.to = Edge
        /\ Transmit(Edge, Reply(f, command, IF command = "DATA" THEN <<serving, f.chunk>> ELSE None))
        /\ Identified(Edge)
        /\ serving' = IF ends THEN serving + 1 ELSE serving
        /\ metadata_sent' = (~ends /\ (metadata_sent \/ command = "METADATA"))
        /\ first_sent' = (~ends /\ (first_sent \/ command = "DATA"))
        /\ UNCHANGED <<air, LAST_SEEN_IDS, collector, waiting, relayed>>

-----------------------------------------------------------------------------
(* The Hub.                                                                *)

\* create_request and send_request.
Ask ==
    LET command == CASE state = "OK" -> "OK" [] state = "REQUEST_DATA_STATE" -> "METADATA"
                     [] OTHER -> "CHUNK"
    IN  /\ ~waiting /\ waiting' = TRUE
        /\ Identified(Hub)
        /\ Transmit(Hub, [to |-> Edge, command |-> command,
                          chunk |-> IF command = "CHUNK" THEN Len(placed) + 1 ELSE None,
                          mesh |-> mesh, hop |-> FALSE, over |-> FALSE, id |-> made + 1])
        /\ UNCHANGED <<air, LAST_SEEN_IDS, state, placed, mesh, retransmission_counter, source,
                       relayed>>

\* count_retransmission.
Unanswered ==
    /\ retransmission_counter' = IF mesh THEN retransmission_counter ELSE retransmission_counter + 1
    /\ mesh' = (mesh \/ retransmission_counter' >= MAX_RETRANSMISSIONS_BEFORE_MESH)
    /\ UNCHANGED <<state, placed, LAST_SEEN_IDS>>

\* reset_retransmission_counter.
Answered(hop) ==
    /\ mesh' = (mesh /\ hop)
    /\ retransmission_counter' = IF mesh /\ hop THEN retransmission_counter ELSE 0

Silence ==
    /\ waiting /\ held[Hub] = None
    /\ waiting' = FALSE /\ Unanswered
    /\ UNCHANGED <<air, held, LAST_IDS, made, source, relayed>>

\* ask_ok and connected.
Connected(f) ==
    /\ state = "OK" /\ f.command = "OK"
    /\ Answered(f.hop) /\ state' = "REQUEST_DATA_STATE"
    /\ UNCHANGED <<placed, LAST_SEEN_IDS>>

\* ask_metadata and set_metadata.
Announced(f) ==
    /\ state = "REQUEST_DATA_STATE" /\ f.command = "METADATA"
    /\ Answered(f.hop) /\ state' = "PROCESS_CHUNK_STATE" /\ placed' = <<>>
    /\ UNCHANGED LAST_SEEN_IDS

\* _reopen_transfer.
ReAnnounced(f) ==
    /\ state = "PROCESS_CHUNK_STATE" /\ f.command = "METADATA"
    /\ state' = "REQUEST_DATA_STATE" /\ placed' = <<>>
    /\ UNCHANGED <<mesh, retransmission_counter, LAST_SEEN_IDS>>

\* ask_data and set_data: no total came with the announcement, so any chunk is of
\* the right length.  The final-OK has no identifier and is not sent: the next poll
\* says the same.
Chunk(f) ==
    /\ state = "PROCESS_CHUNK_STATE" /\ f.command = "DATA" /\ ~Seen(Hub, f)
    /\ LAST_SEEN_IDS' = [LAST_SEEN_IDS EXCEPT ![Hub] = Cached(Append(@, f.id))]
    /\ placed' = Append(placed, f.chunk)
    /\ IF Len(placed') = NChunks
       THEN state' = "OK" /\ UNCHANGED <<mesh, retransmission_counter>>
       ELSE Answered(f.hop) /\ UNCHANGED state

\* Not what was asked for, or a chunk of an identifier seen before.
Wrong(f) ==
    /\ \/ state = "OK" /\ f.command # "OK"
       \/ state = "REQUEST_DATA_STATE" /\ f.command # "METADATA"
       \/ state = "PROCESS_CHUNK_STATE" /\ f.command = "OK"
       \/ state = "PROCESS_CHUNK_STATE" /\ f.command = "DATA" /\ Seen(Hub, f)
    /\ Unanswered

\* What is not for the Hub does not end its wait.
Heard ==
    /\ held[Hub] # None /\ held' = [held EXCEPT ![Hub] = None]
    /\ IF held[Hub].to # Hub THEN UNCHANGED <<waiting, collector, LAST_SEEN_IDS>>
       ELSE /\ waiting' = FALSE
            /\ \/ Connected(held[Hub]) \/ Announced(held[Hub]) \/ ReAnnounced(held[Hub])
               \/ Chunk(held[Hub]) \/ Wrong(held[Hub])
    /\ UNCHANGED <<air, LAST_IDS, made, source, relayed>>

-----------------------------------------------------------------------------
Init ==
    /\ apart \in BOOLEAN /\ moves = 0
    /\ held = [n \in Nodes |-> None]
    /\ LAST_IDS = [n \in Nodes |-> <<>>] /\ LAST_SEEN_IDS = [n \in Nodes |-> <<>>]
    /\ made = 0 /\ relayed = {}
    /\ state = "OK" /\ placed = <<>>
    /\ mesh = FALSE /\ retransmission_counter = 0 /\ waiting = FALSE
    /\ serving = 1 /\ metadata_sent = FALSE /\ first_sent = FALSE

Next ==
    \/ \E n \in Relays \cup {Edge} : Forward(n)
    \/ Answer \/ Ask \/ Silence \/ Heard \/ Moves

Spec == Init /\ [][Next]_vars

-----------------------------------------------------------------------------
\* No node sends a frame on twice, nor one it made: a flood ends.
RelaysOnce ==
    \A n \in Nodes :
        /\ held[n] # None => <<n, held[n].id>> \notin relayed
        /\ \A id \in ToSet(LAST_IDS[n]) : <<n, id>> \notin relayed

\* "it replies with the mesh bit set too": the answer to a question asked over
\* other nodes may travel back over them.
AnswersInKind ==
    [][Answer /\ held[Edge].over => Reply(held[Edge], "OK", None).mesh]_vars

\* A chunk is placed where it was asked for, and all are of one file.
PlacedAsAsked ==
    \A i \in DOMAIN placed : placed[i] = <<placed[1][1], i>>
=============================================================================
