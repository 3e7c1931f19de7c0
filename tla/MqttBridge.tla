------------------------------ MODULE MqttBridge ------------------------------
(***************************************************************************)
(* Two brokers bridged over the radio.  On either side an MQTT_DataSource  *)
(* hears the local broker and queues what it hears as files, and an        *)
(* MQTT_DataSink publishes the files received.  The source hears those     *)
(* publishes too; a Loop_guard both share tells it not to queue them.      *)
(*                                                                         *)
(* A message is one topic and payload.  The queue is DataSource's, in RAM; *)
(* the transfer is Delivery's promise: consumed at least once, then        *)
(* confirmed.  The brokers are external: they deliver in order, to their   *)
(* publisher as well, and more than once.                                  *)
(***************************************************************************)
EXTENDS Naturals, SequencesExt

CONSTANTS
    None,
    Sides, Other(_),
    Messages,
    Threaded,       \* messages are delivered by a thread (paho), or polled (umqtt)
    cap,            \* of the Loop_guard
    file_queue_size,
    Wrap,           \* of the artifact identifier
    MaxEchoes,      \* publishes of a sink its source has not heard
    MaxPublished, MaxAgain, MaxRestarts

\* What every theorem about this module takes of its constants: a client that is
\* polled, and a guard that remembers enough.  A message known already keeps its
\* place in the guard and may be the next one dropped from it, so with more
\* echoes than one to come the guard has to hold them all.
BridgeAssumption ==
    /\ ~Threaded /\ None \notin Messages
    /\ cap \in Nat \ {0} /\ file_queue_size \in Nat \ {0} /\ Wrap \in Nat \ {0}
    /\ \A s \in Sides : Other(s) \in Sides
    /\ MaxEchoes = 1 \/ (IsFiniteSet(Messages) /\ Cardinality(Messages) <= cap)

VARIABLES
    inbox,          \* per broker, what the source has yet to hear: [message, own]
    file_queue, _artifact_id, _borrowed,
    _order,         \* the Loop_guard: what it remembers, oldest first
    publishing,     \* the file the sink has published and not noted, or None
    consumed,       \* the other side consumed what is borrowed here
    published, again, restarts

sourceVars == <<file_queue, _artifact_id, _borrowed>>
vars == <<inbox, sourceVars, _order, publishing, consumed, published, again, restarts>>

\* seen and note: a message known already stays where it is.
Seen(s, message) == Contains(_order[s], message)

Remembered(order, message) ==
    LET longer == Append(order, message)
    IN  IF Contains(order, message) THEN order
        ELSE IF Len(longer) > cap THEN Tail(longer) ELSE longer

\* The sink's publish and the guard's note are two steps, between which only a
\* thread can get.
Idle(s) == Threaded \/ publishing[s] = None

-----------------------------------------------------------------------------
(* The source.                                                             *)

\* encode_name: the topic, which the other side decodes, and an identifier that
\* tells a message from its like.
Enveloped(heard, id) == [message |-> heard.message, id |-> id, own |-> heard.own]

\* add_to_queue: a full queue loses its oldest first, a name in it is not added.
Added(s, file) ==
    LET kept == IF Len(file_queue[s]) < file_queue_size THEN file_queue[s]
                ELSE Tail(file_queue[s])
    IN  IF \E i \in DOMAIN kept : kept[i].id = file.id /\ kept[i].message = file.message
        THEN kept ELSE Append(kept, file)

\* Mutant of OnMessage: whatever comes is shipped.
ShipAll(s) ==
    LET heard == Head(inbox[s])
        id == (_artifact_id[s] + 1) % Wrap
    IN  /\ inbox[s] # <<>> /\ Idle(s)
        /\ inbox' = [inbox EXCEPT ![s] = Tail(@)]
        /\ _artifact_id' = [_artifact_id EXCEPT ![s] = id]
        /\ file_queue' = [file_queue EXCEPT ![s] =
               Added(s, Enveloped(heard, id))]
        /\ UNCHANGED <<_borrowed, _order, publishing, consumed, published, again, restarts>>

\* check and _on_message.  The broker may deliver the same once more.
OnMessage(s) ==
    LET heard == Head(inbox[s])
        id == (_artifact_id[s] + 1) % Wrap
    IN  /\ inbox[s] # <<>> /\ Idle(s)
        /\ \/ inbox' = [inbox EXCEPT ![s] = Tail(@)] /\ UNCHANGED again
           \/ again < MaxAgain /\ again' = again + 1 /\ UNCHANGED inbox
        /\ IF Seen(s, heard.message) THEN UNCHANGED <<file_queue, _artifact_id>>
           ELSE /\ _artifact_id' = [_artifact_id EXCEPT ![s] = id]
                /\ file_queue' = [file_queue EXCEPT ![s] =
                       Added(s, Enveloped(heard, id))]
        /\ UNCHANGED <<_borrowed, _order, publishing, consumed, published, restarts>>

\* has_pending and peek_file.
PeekFile(s) ==
    /\ _borrowed[s] = None /\ file_queue[s] # <<>> /\ Idle(s)
    /\ _borrowed' = [_borrowed EXCEPT ![s] = Head(file_queue[s])]
    /\ UNCHANGED <<inbox, file_queue, _artifact_id, _order, publishing, consumed, published,
                   again, restarts>>

\* confirm_file, for the file that was borrowed.
ConfirmFile(s) ==
    /\ consumed[s] /\ Idle(s)
    /\ consumed' = [consumed EXCEPT ![s] = FALSE]
    /\ file_queue' = [file_queue EXCEPT ![s] = RemoveFirst(@, _borrowed[s])]
    /\ _borrowed' = [_borrowed EXCEPT ![s] = None]
    /\ UNCHANGED <<inbox, _artifact_id, _order, publishing, published, again, restarts>>

\* The confirmation is lost: the file is served again.
Unconfirmed(s) ==
    /\ consumed[s] /\ Idle(s)
    /\ consumed' = [consumed EXCEPT ![s] = FALSE]
    /\ _borrowed' = [_borrowed EXCEPT ![s] = None]
    /\ UNCHANGED <<inbox, file_queue, _artifact_id, _order, publishing, published, again,
                   restarts>>

-----------------------------------------------------------------------------
(* The sink.                                                               *)

Echoes(s) == Cardinality({i \in DOMAIN inbox[s] : inbox[s][i].own})

\* consume of what the other side lent, up to the guard: the topic and the payload
\* are the ones heard there.
Publish(s) ==
    LET file == _borrowed[Other(s)]
    IN  /\ file # None /\ ~consumed[Other(s)] /\ publishing[s] = None
        /\ Echoes(s) < MaxEchoes
        /\ inbox' = [inbox EXCEPT ![s] = Append(@, [message |-> file.message, own |-> TRUE])]
        /\ publishing' = [publishing EXCEPT ![s] = file]
        /\ UNCHANGED <<sourceVars, _order, consumed, published, again, restarts>>

\* The guard is told; consume returns.
Note(s) ==
    /\ publishing[s] # None
    /\ _order' = [_order EXCEPT ![s] = Remembered(@, publishing[s].message)]
    /\ publishing' = [publishing EXCEPT ![s] = None]
    /\ consumed' = [consumed EXCEPT ![Other(s)] = _borrowed[Other(s)] = publishing[s]]
    /\ UNCHANGED <<inbox, sourceVars, published, again, restarts>>

-----------------------------------------------------------------------------
(* Around them.                                                            *)

\* A client of the broker publishes.
ClientPublishes(s, message) ==
    /\ published < MaxPublished /\ published' = published + 1
    /\ inbox' = [inbox EXCEPT ![s] = Append(@, [message |-> message, own |-> FALSE])]
    /\ UNCHANGED <<sourceVars, _order, publishing, consumed, again, restarts>>

\* A node restarts with a clean session: queue, guard and what the broker kept for
\* it are gone.
Restart(s) ==
    /\ restarts < MaxRestarts /\ restarts' = restarts + 1
    /\ inbox' = [inbox EXCEPT ![s] = <<>>]
    /\ file_queue' = [file_queue EXCEPT ![s] = <<>>]
    /\ _artifact_id' = [_artifact_id EXCEPT ![s] = 0]
    /\ _borrowed' = [_borrowed EXCEPT ![s] = None]
    /\ _order' = [_order EXCEPT ![s] = <<>>]
    /\ publishing' = [publishing EXCEPT ![s] = None]
    /\ consumed' = [consumed EXCEPT ![s] = FALSE]
    /\ UNCHANGED <<published, again>>

Init ==
    /\ inbox = [s \in Sides |-> <<>>] /\ file_queue = [s \in Sides |-> <<>>]
    /\ _artifact_id = [s \in Sides |-> 0] /\ _borrowed = [s \in Sides |-> None]
    /\ _order = [s \in Sides |-> <<>>] /\ publishing = [s \in Sides |-> None]
    /\ consumed = [s \in Sides |-> FALSE]
    /\ published = 0 /\ again = 0 /\ restarts = 0

Next ==
    \E s \in Sides :
        \/ OnMessage(s) \/ PeekFile(s) \/ ConfirmFile(s) \/ Unconfirmed(s)
        \/ Publish(s) \/ Note(s) \/ Restart(s)
        \/ \E message \in Messages : ClientPublishes(s, message)

Spec == Init /\ [][Next]_vars

-----------------------------------------------------------------------------
\* "Without the guard the pair ping-pongs one message forever": what a sink
\* published is not shipped back, redelivered, served twice or restarted over.
NeverSentBack ==
    \A s \in Sides : \A i \in DOMAIN file_queue[s] : ~file_queue[s][i].own
=============================================================================
