--------------------------- MODULE SerialArrival ---------------------------
(***************************************************************************)
(* A producer hands whole files to a node over a cable, and the node reads *)
(* a little of it on each round of its own loop.  The cable loses bytes    *)
(* and garbles them; either end may stop half way and start again.  A      *)
(* chunk is acknowledged once it is on the card, and a file is queued when *)
(* its length and checksum agree with what was announced.                  *)
(*                                                                         *)
(* The line carries units: a word, a header, a chunk's checksum or one of  *)
(* the two units of its body.  Whatever stands where a body is expected is *)
(* read as one.  The queue is module DiskQueue's; here it has names only.  *)
(***************************************************************************)
EXTENDS Naturals, Sequences, SequencesExt

CONSTANTS
    Files, None,
    Wants,           \* the name each file asks for
    NChunks,         \* chunks of a file on the cable
    QueueSize,       \* file_queue_size
    MaxLosses,       \* units lost or garbled
    MaxReboots,
    MaxImpatience    \* waits cut short of what would have come

VARIABLES
    \* the producer: the file it offers, where it stands, the chunk it is at
    offers, says, at, released,
    line, answers,   \* the two directions of the cable, the board's buffer included
    \* the board: _state, and what it knows of the arrival
    _state, arriving, received, sums, chunk_crc,
    queue,           \* queued: [name, file, whole]; the head may be on the air
    losses, reboots, impatience

producer == <<offers, says, at, released>>
board == <<_state, arriving, received, sums, chunk_crc, queue>>
bounds == <<losses, reboots, impatience>>
vars == <<producer, line, answers, board, bounds>>

Word(w) == [kind |-> w, file |-> None, n |-> 0]
Header(f) == [kind |-> "header", file |-> f, n |-> 0]
Sum(f, n) == [kind |-> "sum", file |-> f, n |-> n]
Body(f, n, half) == [kind |-> half, file |-> f, n |-> n]
Chunk(f, n) == <<Sum(f, n), Body(f, n, "left"), Body(f, n, "right")>>
Noise == Word("noise")

-----------------------------------------------------------------------------
(* The producer, as the wire's description has it.                         *)

Send(units) == line' = line \o units

Offer(f) ==
    /\ says = "rest" /\ f \notin released
    /\ offers' = f /\ says' = "START" /\ at' = 0 /\ answers' = <<>>
    /\ Send(<<Word("START")>>)
    /\ UNCHANGED <<released, board, bounds>>

\* An answer that is not the one waited for is passed over.
Answered ==
    /\ says # "rest" /\ answers # <<>>
    /\ answers' = Tail(answers)
    /\ CASE says = "START" /\ Head(answers) = "LISTEN" ->
              /\ Send(<<Header(offers)>> \o Chunk(offers, 1))
              /\ says' = "chunk" /\ at' = 1 /\ UNCHANGED <<offers, released>>
         [] says = "chunk" /\ Head(answers) = "ACK" /\ at < NChunks ->
              /\ Send(Chunk(offers, at + 1))
              /\ at' = at + 1 /\ UNCHANGED <<offers, says, released>>
         [] says = "chunk" /\ Head(answers) = "ACK" /\ at = NChunks ->
              /\ Send(<<Word("END")>>)
              /\ says' = "END" /\ UNCHANGED <<offers, at, released>>
         [] says = "chunk" /\ Head(answers) = "NACK" ->
              Send(Chunk(offers, at)) /\ UNCHANGED producer
         [] says = "END" /\ Head(answers) = "OK" ->
              /\ released' = released \cup {offers}
              /\ says' = "rest" /\ UNCHANGED <<offers, at, line>>
         [] OTHER -> UNCHANGED <<producer, line>>
    /\ UNCHANGED <<board, bounds>>

\* The board has nothing it could work on.
Waiting == line = <<>> \/ (_state = "CHUNK_BODY" /\ Len(line) < 2)
Quiet == Waiting /\ answers = <<>>

\* Whoever does not wait long enough counts against a bound.
Waited(enough) ==
    /\ enough \/ impatience < MaxImpatience
    /\ impatience' = IF enough THEN impatience ELSE impatience + 1

\* Nothing comes back: it offers the file again, or another, or sends the chunk again.
GivesUp ==
    /\ says # "rest" /\ Waited(Quiet) /\ says' = "rest"
    /\ UNCHANGED <<offers, at, released, line, answers, board, losses, reboots>>

Repeats ==
    /\ says = "chunk" /\ impatience < MaxImpatience /\ impatience' = impatience + 1
    /\ Send(Chunk(offers, at))
    /\ UNCHANGED <<producer, answers, board, losses, reboots>>

\* A burst is lost, or one unit garbled.
Lose ==
    /\ line # <<>> /\ losses < MaxLosses /\ losses' = losses + 1
    /\ \/ \E n \in 1..Len(line) : line' = SubSeq(line, n + 1, Len(line))
       \/ line' = <<Noise>> \o Tail(line)
    /\ UNCHANGED <<producer, answers, board, reboots, impatience>>

-----------------------------------------------------------------------------
(* The board: it looks at the line only as far as its state needs.         *)

Says(word) == answers' = Append(answers, word)

ResetArrival ==
    /\ _state' = "IDLE" /\ arriving' = None /\ received' = 0 /\ sums' = <<>>
    /\ chunk_crc' = None

\* _abandon: the partial file goes, and the buffer with it, which holds as much
\* of the line as had come in.
Abandon ==
    /\ ResetArrival
    /\ \E taken \in 0..Len(line) : line' = SubSeq(line, taken + 1, Len(line))

AwaitStart ==
    /\ _state = "IDLE" /\ line # <<>>
    /\ line' = Tail(line)
    /\ IF Head(line).kind = "START"
       THEN _state' = "HEADER" /\ Says("LISTEN")
       ELSE UNCHANGED <<_state, answers>>
    /\ UNCHANGED <<producer, arriving, received, sums, chunk_crc, queue, bounds>>

ReadHeader ==
    /\ _state = "HEADER" /\ line # <<>>
    /\ IF Head(line).kind = "header"
       THEN /\ arriving' = Head(line).file /\ line' = Tail(line)
            /\ received' = 0 /\ sums' = <<>> /\ _state' = "CHUNK_HEADER"
            /\ UNCHANGED chunk_crc
       ELSE Abandon
    /\ UNCHANGED <<producer, answers, queue, bounds>>

\* _read_chunk_header, for anything but END: more than announced is refused.
ReadChunkHeader ==
    /\ _state = "CHUNK_HEADER" /\ line # <<>> /\ Head(line).kind # "END"
    /\ IF Head(line).kind = "sum" /\ received < NChunks
       THEN /\ chunk_crc' = Head(line) /\ line' = Tail(line) /\ _state' = "CHUNK_BODY"
            /\ UNCHANGED <<arriving, received, sums>>
       ELSE Abandon
    /\ UNCHANGED <<producer, answers, queue, bounds>>

\* Written, then acknowledged; a chunk that fails its checksum is neither.
ReadChunkBody ==
    /\ _state = "CHUNK_BODY" /\ Len(line) >= 2
    /\ line' = SubSeq(line, 3, Len(line)) /\ _state' = "CHUNK_HEADER"
    /\ IF <<chunk_crc, line[1], line[2]>> = Chunk(chunk_crc.file, chunk_crc.n)
       THEN received' = received + 1 /\ sums' = Append(sums, chunk_crc) /\ Says("ACK")
       ELSE UNCHANGED <<received, sums>> /\ Says("NACK")
    /\ UNCHANGED <<producer, arriving, chunk_crc, queue, bounds>>

\* Mutant of Sound: the length alone is looked at.
Sound_Length == received = NChunks

\* The length and the whole file's checksum.
Sound == received = NChunks /\ sums = [n \in 1..NChunks |-> Sum(arriving, n)]

\* _queue_under: the name asked for, or with the least suffix that no queued file
\* has; with every entry but the one on the air evictable.
Variant(f, suffix) == <<Wants[f], suffix>>
Taken(v) == \E i \in DOMAIN queue : queue[i].name = v
Free(f) == {s \in 0..QueueSize : ~Taken(Variant(f, s))}
Name(f) == Variant(f, CHOOSE s \in Free(f) : \A t \in Free(f) : s <= t)

MadeRoom == IF Len(queue) < QueueSize THEN queue
            ELSE IF Len(queue) = 1 THEN queue ELSE <<Head(queue)>> \o Tail(Tail(queue))

FinishSound ==
    /\ _state = "CHUNK_HEADER" /\ line # <<>> /\ Head(line).kind = "END" /\ Sound
    /\ line' = Tail(line) /\ Says("OK") /\ ResetArrival
    /\ queue' = IF Free(arriving) = {} THEN queue
                ELSE Append(MadeRoom, [name |-> Name(arriving), file |-> arriving,
                                       whole |-> sums = [n \in 1..NChunks |-> Sum(arriving, n)]])
    /\ UNCHANGED <<producer, bounds>>

FinishUnsound ==
    /\ _state = "CHUNK_HEADER" /\ line # <<>> /\ Head(line).kind = "END" /\ ~Sound
    /\ Abandon
    /\ UNCHANGED <<producer, answers, queue, bounds>>

\* stall_timeout: nothing on the line for so long that the arrival is over.
Stall ==
    /\ _state # "IDLE" /\ Waiting /\ Waited(answers = <<>>)
    /\ Abandon
    /\ UNCHANGED <<producer, answers, queue, losses, reboots>>

\* The head is delivered over the radio.
Delivered ==
    /\ queue # <<>> /\ queue' = Tail(queue)
    /\ UNCHANGED <<producer, line, answers, _state, arriving, received, sums, chunk_crc,
                   bounds>>

\* A restart sweeps the partial file; what is queued stays.
Reboot ==
    /\ reboots < MaxReboots /\ reboots' = reboots + 1
    /\ Abandon
    /\ UNCHANGED <<producer, answers, queue, losses, impatience>>

-----------------------------------------------------------------------------
Init ==
    /\ offers = None /\ says = "rest" /\ at = 0 /\ released = {}
    /\ line = <<>> /\ answers = <<>>
    /\ _state = "IDLE" /\ arriving = None /\ received = 0
    /\ sums = <<>> /\ chunk_crc = None /\ queue = <<>>
    /\ losses = 0 /\ reboots = 0 /\ impatience = 0

Producer == (\E f \in Files : Offer(f)) \/ Answered
Board == \/ AwaitStart \/ ReadHeader \/ ReadChunkHeader \/ ReadChunkBody
         \/ FinishSound \/ FinishUnsound
Next == Producer \/ GivesUp \/ Repeats \/ Lose \/ Board \/ Stall \/ Delivered \/ Reboot

Spec == Init /\ [][Next]_vars
\* A producer that gets no answer offers again only after the board's stall
\* timeout: its own wait is not the shorter one for ever.
FairSpec == Spec /\ WF_vars(Producer) /\ WF_vars(Board) /\ WF_vars(GivesUp)
                 /\ WF_vars(Stall)

-----------------------------------------------------------------------------
\* A file is queued only as its producer sent it, byte for byte.
QueuedIsWhole == \A i \in DOMAIN queue : queue[i].whole

\* No two queued files share a name: neither replaces the other's bytes.
NamesDiffer ==
    \A i, j \in DOMAIN queue : queue[i].name = queue[j].name => i = j

\* What the producer is told it may let go of is queued at that moment: no
\* arrival is thrown away for the sake of its name.
OkMeansQueued ==
    [][answers' = Append(answers, "OK")
          => queue' # <<>> /\ queue'[Len(queue')].file = arriving]_vars

\* A producer that dies or garbles half a file does not wedge the cable.
EveryFileTaken == <>(released = Files)
=============================================================================
