---------------------------- MODULE BoundaryProofs ----------------------------
(***************************************************************************)
(* Theorems about four components at the edges of the system, for every    *)
(* value of their constants: files put together (Reassembly), relays       *)
(* (MeshRelay), two bridged brokers (MqttBridge) and the bench tool        *)
(* (Provisioning).  They share nothing and stand here side by side.        *)
(***************************************************************************)
EXTENDS FiniteSetTheorems, SequenceTheorems, NaturalsInduction,
        WellFoundedInduction, TLAPS

CONSTANTS
    None,
    \* Reassembly
    Endpoints, Names, FileChunks, Replaces, MaxFiles, MaxFaults, FileRestarts,
    \* MeshRelay
    Hub, Edge, Relays, NChunks, MAX_RETRANSMISSIONS_BEFORE_MESH,
    MAX_IDS_CACHED, MaxFrames, MaxMoves,
    \* MqttBridge
    Sides, Other(_), Messages, Threaded, cap, file_queue_size, Wrap,
    MaxEchoes, MaxPublished, MaxAgain, MaxRestarts,
    \* Provisioning
    Edges, HubBoard, Ports, Usual, Plans, NameOf, Rates, Issued, MaxRuns,
    MaxSettled

VARIABLES
    \* Reassembly
    posts, files_serving, files_state, current_file, writers, temp, results,
    handed, files_made, faults, files_restarts,
    \* MeshRelay
    apart, held, LAST_IDS, LAST_SEEN_IDS, made, moves, state, placed, mesh,
    retransmission_counter, waiting, serving, metadata_sent, first_sent,
    relayed,
    \* MqttBridge
    inbox, file_queue, _artifact_id, _borrowed, _order, publishing, consumed,
    published, again, restarts,
    \* Provisioning
    path, silent, files, key, rf, running, rows, registry, backups, plan,
    ports, at, steps, port, expected, roster, finished, ok, run, bench_made,
    settled, sound

Files == INSTANCE Reassembly WITH
    NChunks <- FileChunks, MaxRestarts <- FileRestarts, serving <-
    files_serving, state <- files_state, made <- files_made, restarts <-
    files_restarts
Mesh == INSTANCE MeshRelay
Mqtt == INSTANCE MqttBridge
Bench == INSTANCE Provisioning WITH made <- bench_made

-----------------------------------------------------------------------------
(* Files put together.  An endpoint has a path of its own and at most one  *)
(* writer, that of its reassembly in progress (OneWriter), and while it is *)
(* held the chunks taken are on disk (InPlace); so what an endpoint gives  *)
(* up is its own, and no step of one reaches what another has placed       *)
(* (Locally).                                                              *)

\* What an endpoint serves and puts together is its own.
FilesTypes ==
    /\ files_made \in 0 .. MaxFiles /\ faults \in Nat
    /\ files_serving = [e \in Endpoints |-> files_serving[e]]
    /\ files_state = [e \in Endpoints |-> files_state[e]]
    /\ current_file = [e \in Endpoints |-> current_file[e]]
    /\ \A e \in Endpoints : /\ files_serving[e] \in [name : Names, file : {e} \X (0 .. MaxFiles)]
                            /\ current_file[e] \in Files!Own(e) \cup {None}
                            /\ files_state[e] = "PROCESS_CHUNK_STATE" => current_file[e] # None
    /\ temp \in [Files!Paths -> Files!Contents \cup {None}]
    /\ results \in [Files!Paths -> Files!Contents \cup {None}]

\* What was taken of a file is on disk.
InPlace ==
    \A e \in Endpoints :
        files_state[e] = "PROCESS_CHUNK_STATE" /\ Files!Writer(current_file[e]) \in writers =>
            /\ temp[current_file[e].path] # None
            /\ \A i \in Files!Chunks \ current_file[e].missing :
                   temp[current_file[e].path][i] = current_file[e].file

\* A writer is that of a reassembly in progress.
OneWriter ==
    \A w \in writers :
        \E e \in Endpoints : files_state[e] = "PROCESS_CHUNK_STATE" /\ Files!Writer(current_file[e]) = w

FilesInv == FilesTypes /\ InPlace /\ OneWriter /\ Files!NeverTorn

LEMMA FilesInPlace == FilesInv => Files!BufferInPlace
BY DEF FilesInv, InPlace, OneWriter, Files!BufferInPlace

LEMMA SameResults == ASSUME Files!NeverTorn, UNCHANGED <<results, handed>> PROVE Files!NeverTorn'
BY DEF Files!NeverTorn

\* The writers of one endpoint are not another's.
LEMMA OwnWriters ==
    ASSUME FilesInv, NEW a \in Endpoints, NEW b \in Endpoints, current_file[a] # None,
           current_file[b] # None, Files!Writer(current_file[a]) = Files!Writer(current_file[b])
    PROVE  a = b
<1>1. current_file[a] \in Files!Own(a) /\ current_file[b] \in Files!Own(b)
  BY DEF FilesInv, FilesTypes
<1> QED BY <1>1 DEF Files!Own, Files!Writer

LEMMA NoneOpen ==
    ASSUME FilesInv, NEW e \in Endpoints, files_state[e] # "PROCESS_CHUNK_STATE", NEW f \in Files!Own(e)
    PROVE  Files!Writer(f) \notin writers
<1> SUFFICES ASSUME Files!Writer(f) \in writers PROVE FALSE
  OBVIOUS
<1>1. PICK b \in Endpoints : files_state[b] = "PROCESS_CHUNK_STATE" /\ Files!Writer(current_file[b]) = Files!Writer(f)
  BY DEF FilesInv, OneWriter
<1>2. current_file[b] \in Files!Own(b)
  BY <1>1 DEF FilesInv, FilesTypes
<1>3. b = e
  BY <1>1, <1>2 DEF Files!Own, Files!Writer
<1> QED BY <1>1, <1>3

LEMMA FilesQuiet ==
    ASSUME Files!FilesAssumption, FilesInv,
           \/ UNCHANGED Files!vars
           \/ \E e \in Endpoints : Files!Connected(e) \/ Files!Serves(e)
    PROVE  FilesInv'
<1> USE DEF FilesInv
<1>1. CASE UNCHANGED Files!vars
  <2>1. Files!NeverTorn'
    BY <1>1, SameResults DEF Files!vars
  <2> QED BY <1>1, <2>1 DEF Files!vars, FilesTypes, InPlace, OneWriter
<1>2. ASSUME NEW e \in Endpoints, Files!Connected(e) PROVE FilesInv'
  <2>1. Files!NeverTorn'
    BY <1>2, SameResults DEF Files!Connected
  <2>2. FilesTypes'
    BY <1>2 DEF Files!Connected, FilesTypes
  <2>3. InPlace'
    BY <1>2, NoneOpen DEF Files!Connected, FilesTypes, InPlace
  <2>4. OneWriter'
    BY <1>2 DEF Files!Connected, FilesTypes, OneWriter
  <2> QED BY <2>1, <2>2, <2>3, <2>4
<1>3. ASSUME NEW e \in Endpoints, Files!Serves(e) PROVE FilesInv'
  <2>1. Files!NeverTorn'
    BY <1>3, SameResults DEF Files!Serves
  <2>2. files_made' \in 0 .. MaxFiles
    BY <1>3 DEF Files!Serves, FilesTypes, Files!FilesAssumption
  <2>3. PICK n \in Names : files_serving' = [files_serving EXCEPT ![e] = [name |-> n, file |-> <<e, files_made'>>]]
    BY <1>3 DEF Files!Serves
  <2>4. [name |-> n, file |-> <<e, files_made'>>] \in [name : Names, file : {e} \X (0 .. MaxFiles)]
    BY <2>2
  <2>5. /\ files_serving' = [a \in Endpoints |-> files_serving'[a]]
        /\ \A a \in Endpoints : files_serving'[a] \in [name : Names, file : {a} \X (0 .. MaxFiles)]
    BY <2>3, <2>4 DEF FilesTypes
  <2>6. FilesTypes'
    BY <1>3, <2>2, <2>5 DEF Files!Serves, FilesTypes
  <2> QED BY <1>3, <2>1, <2>6 DEF Files!Serves, InPlace, OneWriter
<1> QED BY <1>1, <1>2, <1>3

LEMMA FilesRestart == ASSUME FilesInv, Files!Restart PROVE FilesInv'
<1>1. Files!NeverTorn'
  BY SameResults DEF FilesInv, Files!Restart
<1> QED BY <1>1 DEF Files!Restart, FilesInv, FilesTypes, InPlace, OneWriter

\* A step of one endpoint that leaves the paths and the writers of the others
\* alone leaves their reassemblies in place.
LEMMA Locally ==
    ASSUME FilesInv, NEW e \in Endpoints,
           \A a \in Endpoints \ {e} : current_file'[a] = current_file[a] /\ files_state'[a] = files_state[a],
           \A a \in Endpoints \ {e}, n \in Names : temp'[<<a, n>>] = temp[<<a, n>>],
           \A w : w \in writers' =>
                 \/ w \in writers /\ ~(/\ files_state[e] = "PROCESS_CHUNK_STATE"
                                      /\ w = Files!Writer(current_file[e]))
                 \/ files_state'[e] = "PROCESS_CHUNK_STATE" /\ Files!Writer(current_file'[e]) = w,
           files_state'[e] = "PROCESS_CHUNK_STATE" /\ Files!Writer(current_file'[e]) \in writers' =>
               /\ temp'[current_file'[e].path] # None
               /\ \A i \in Files!Chunks \ current_file'[e].missing :
                      temp'[current_file'[e].path][i] = current_file'[e].file,
           current_file'[e] \in Files!Own(e) \cup {None},
           files_state'[e] = "PROCESS_CHUNK_STATE" => current_file'[e] # None
    PROVE  InPlace' /\ OneWriter'
<1>1. InPlace'
  <2> SUFFICES ASSUME NEW a \in Endpoints \ {e}, files_state'[a] = "PROCESS_CHUNK_STATE",
                      Files!Writer(current_file'[a]) \in writers'
               PROVE  /\ temp'[current_file'[a].path] # None
                      /\ \A i \in Files!Chunks \ current_file'[a].missing :
                             temp'[current_file'[a].path][i] = current_file'[a].file
    BY DEF InPlace, Files!Writer
  <2>1. /\ current_file'[a] = current_file[a] /\ files_state[a] = "PROCESS_CHUNK_STATE"
        /\ current_file[a] \in Files!Own(a)
    BY DEF FilesInv, FilesTypes
  <2>2. Files!Writer(current_file'[a]) \in writers
    <3>1. ~(files_state'[e] = "PROCESS_CHUNK_STATE" /\ Files!Writer(current_file'[e]) = Files!Writer(current_file'[a]))
      BY <2>1 DEF Files!Own, Files!Writer
    <3> QED BY <3>1
  <2>3. PICK n \in Names : current_file[a].path = <<a, n>>
    BY <2>1 DEF Files!Own
  <2>4. temp'[current_file[a].path] = temp[current_file[a].path]
    BY <2>3
  <2>5. Files!Writer(current_file[a]) \in writers
    BY <2>1, <2>2 DEF Files!Writer
  <2> QED BY <2>1, <2>4, <2>5 DEF FilesInv, InPlace
<1>2. OneWriter'
  <2> SUFFICES ASSUME NEW w \in writers'
               PROVE  \E a \in Endpoints : /\ files_state'[a] = "PROCESS_CHUNK_STATE"
                                           /\ Files!Writer(current_file'[a]) = w
    BY DEF OneWriter, Files!Writer
  <2>1. CASE w \in writers /\ ~(/\ files_state[e] = "PROCESS_CHUNK_STATE"
                               /\ w = Files!Writer(current_file[e]))
    <3>1. PICK a \in Endpoints : files_state[a] = "PROCESS_CHUNK_STATE" /\ Files!Writer(current_file[a]) = w
      BY <2>1 DEF FilesInv, OneWriter
    <3>2. a # e
      BY <2>1, <3>1
    <3> QED BY <3>1, <3>2 DEF Files!Writer
  <2>2. CASE files_state'[e] = "PROCESS_CHUNK_STATE" /\ Files!Writer(current_file'[e]) = w
    BY <2>2
  <2> QED BY <2>1, <2>2
<1> QED BY <1>1, <1>2

\* A reassembly given up takes its writer and its file along, and no other's.
LEMMA FilesGivenUp ==
    ASSUME FilesInv, NEW e \in Endpoints, Files!Reopen(e) \/ Files!Rearm(e)
    PROVE  FilesInv'
<1>1. FilesTypes'
  BY DEF Files!Reopen, Files!Rearm, Files!Release, Files!Removed, Files!Own,
     FilesInv, FilesTypes
<1>2. Files!NeverTorn'
  BY SameResults DEF Files!Reopen, Files!Rearm, FilesInv
<1>3. /\ files_state'[e] # "PROCESS_CHUNK_STATE"
      /\ current_file' = [current_file EXCEPT ![e] = None]
      /\ writers' = Files!Closed(current_file[e], writers) /\ temp' = Files!Removed(current_file[e], temp)
      /\ \A a \in Endpoints \ {e} : current_file'[a] = current_file[a] /\ files_state'[a] = files_state[a]
  BY DEF Files!Reopen, Files!Rearm, Files!Release, FilesInv, FilesTypes
<1>4. /\ current_file[e] \in Files!Own(e) \cup {None}
      /\ current_file'[e] \in Files!Own(e) \cup {None}
  BY <1>1 DEF FilesInv, FilesTypes
<1>5. \A a \in Endpoints \ {e}, n \in Names : temp'[<<a, n>>] = temp[<<a, n>>]
  BY <1>3, <1>4 DEF Files!Removed, Files!Own, FilesInv, FilesTypes, Files!Paths
<1>6. \A w : w \in writers' =>
          w \in writers /\ ~(/\ files_state[e] = "PROCESS_CHUNK_STATE"
                            /\ w = Files!Writer(current_file[e]))
  BY <1>3 DEF Files!Closed, FilesInv, FilesTypes
<1>7. InPlace' /\ OneWriter'
  BY <1>3, <1>4, <1>5, <1>6, Locally
<1> QED BY <1>1, <1>2, <1>7 DEF FilesInv

LEMMA Pathed ==
    ASSUME FilesInv, NEW e \in Endpoints
    PROVE  /\ Files!TempPath(e) \in Files!Paths /\ Files!TempPath(e) \in {e} \X Names
           /\ [path |-> Files!TempPath(e), file |-> files_serving[e].file, missing |-> Files!Chunks] \in Files!Own(e)
           /\ [i \in Files!Chunks |-> None] \in Files!Contents
           /\ current_file[e] # None =>
                  /\ current_file[e].path \in Files!Paths /\ current_file[e].path \in {e} \X Names
                  /\ current_file[e].file \in Files!Marks
BY DEF FilesInv, FilesTypes, Files!Paths, Files!Own, Files!Contents,
   Files!Marks, Files!TempPath

LEMMA FilesAnnounced ==
    ASSUME Files!FilesAssumption, FilesInv, NEW e \in Endpoints, Files!SetMetadata(e)
    PROVE  FilesInv'
<1> DEFINE f == [path |-> Files!TempPath(e), file |-> files_serving[e].file, missing |-> Files!Chunks]
           blank == [i \in Files!Chunks |-> None]
<1>1. f \in Files!Own(e) /\ f # None /\ blank \in Files!Contents /\ blank # None
  BY Pathed DEF Files!FilesAssumption
<1>2. /\ files_state[e] = "REQUEST_DATA_STATE" /\ files_state'[e] = "PROCESS_CHUNK_STATE"
      /\ current_file'[e] = f
      /\ \A a \in Endpoints \ {e} : current_file'[a] = current_file[a] /\ files_state'[a] = files_state[a]
  BY DEF Files!SetMetadata, FilesInv, FilesTypes
<1>3. \/ /\ writers' = Files!Closed(current_file[e], writers) \cup {Files!Writer(f)}
         /\ temp' = Files!Created(f.path, Files!Removed(current_file[e], temp))
      \/ /\ writers' = Files!Closed(current_file[e], writers)
         /\ temp' = Files!Removed(current_file[e], temp)
  BY DEF Files!SetMetadata
<1>4. Files!Removed(current_file[e], temp) \in [Files!Paths -> Files!Contents \cup {None}]
  BY DEF Files!Removed, FilesInv, FilesTypes
<1>5. temp' \in [Files!Paths -> Files!Contents \cup {None}]
  BY <1>1, <1>3, <1>4 DEF Files!Created
<1>6. FilesTypes'
  <2>1. UNCHANGED <<files_serving, results, files_made>>
    BY DEF Files!SetMetadata
  <2>2. /\ files_state' = [a \in Endpoints |-> files_state'[a]]
        /\ current_file' = [a \in Endpoints |-> current_file'[a]]
    BY DEF Files!SetMetadata, FilesInv, FilesTypes
  <2>3. faults' \in Nat
    BY DEF Files!SetMetadata, Files!Works, Files!Fails, FilesInv, FilesTypes
  <2> QED BY <1>1, <1>2, <1>5, <2>1, <2>2, <2>3 DEF FilesInv, FilesTypes
<1>7. Files!NeverTorn'
  BY SameResults DEF Files!SetMetadata, FilesInv
<1>8. \A a \in Endpoints \ {e}, n \in Names : temp'[<<a, n>>] = temp[<<a, n>>]
  <2>1. \A a \in Endpoints \ {e}, n \in Names :
            <<a, n>> \in Files!Paths /\ <<a, n>> # f.path
            /\ (current_file[e] # None => <<a, n>> # current_file[e].path)
    <3>1. f.path \in {e} \X Names
      BY Pathed
    <3>2. current_file[e] # None => current_file[e].path \in {e} \X Names
      BY Pathed
    <3> HIDE DEF f
    <3> QED BY <3>1, <3>2 DEF Files!Paths
  <2>2. Files!Removed(current_file[e], temp) = [p \in Files!Paths |-> Files!Removed(current_file[e], temp)[p]]
    BY <1>4
  <2>3. \A a \in Endpoints \ {e}, n \in Names :
            Files!Removed(current_file[e], temp)[<<a, n>>] = temp[<<a, n>>]
    BY <2>1 DEF Files!Removed, FilesInv, FilesTypes
  <2> QED BY <1>3, <2>1, <2>2, <2>3 DEF Files!Created
<1>9. \A w : w \in writers' =>
          \/ w \in writers /\ ~(/\ files_state[e] = "PROCESS_CHUNK_STATE"
                               /\ w = Files!Writer(current_file[e]))
          \/ w = Files!Writer(f)
  BY <1>2, <1>3 DEF Files!Closed
<1>10. Files!Writer(f) \in writers' => /\ temp'[f.path] # None
                               /\ \A i \in Files!Chunks \ f.missing : temp'[f.path][i] = f.file
  <2>1. Files!Writer(f) \notin writers
    BY <1>1, <1>2, NoneOpen
  <2>2. ASSUME Files!Writer(f) \in writers' PROVE temp' = Files!Created(f.path, Files!Removed(current_file[e], temp))
    BY <1>3, <2>1, <2>2 DEF Files!Closed
  <2>3. f.path \in Files!Paths /\ Files!Chunks \ f.missing = {}
    BY Pathed
  <2> QED BY <1>1, <1>4, <2>2, <2>3 DEF Files!Created
<1> HIDE DEF f
<1>11. InPlace' /\ OneWriter'
  BY <1>1, <1>2, <1>8, <1>9, <1>10, Locally
<1> QED BY <1>6, <1>7, <1>11 DEF FilesInv

\* A chunk written by a writer in place is on disk, next to those before it.
LEMMA ChunkWritten ==
    ASSUME Files!FilesAssumption, FilesInv, NEW e \in Endpoints, files_state[e] = "PROCESS_CHUNK_STATE",
           Files!Writer(current_file[e]) \in writers, NEW i
    PROVE  /\ current_file[e] \in Files!Own(e) /\ current_file[e].path \in Files!Paths
           /\ Files!Written(current_file[e], i) \in [Files!Paths -> Files!Contents \cup {None}]
           /\ Files!Written(current_file[e], i)[current_file[e].path] \in Files!Contents
           /\ Files!Written(current_file[e], i)[current_file[e].path] # None
           /\ \A j \in Files!Chunks \ (current_file[e].missing \ {i}) :
                  Files!Written(current_file[e], i)[current_file[e].path][j] = current_file[e].file
           /\ \A a \in Endpoints \ {e}, n \in Names :
                  Files!Written(current_file[e], i)[<<a, n>>] = temp[<<a, n>>]
<1> DEFINE f == current_file[e]
           disk == Files!Written(f, i)
<1>1. f \in Files!Own(e) /\ f # None
  BY DEF FilesInv, FilesTypes
<1>2. /\ f.path \in Files!Paths /\ f.path \in {e} \X Names
      /\ f.file \in Files!Marks
  BY <1>1, Pathed
<1>3. /\ temp \in [Files!Paths -> Files!Contents \cup {None}] /\ temp[f.path] # None
      /\ \A j \in Files!Chunks \ f.missing : temp[f.path][j] = f.file
  BY DEF FilesInv, FilesTypes, InPlace
<1>4. temp[f.path] \in Files!Contents
  BY <1>2, <1>3
<1> DEFINE new == [temp[f.path] EXCEPT ![i] = f.file]
<1>5. disk = [temp EXCEPT ![f.path] = new]
  BY <1>3 DEF Files!Written
<1>6. new \in Files!Contents /\ \A j \in Files!Chunks \ (f.missing \ {i}) : new[j] = f.file
  BY <1>2, <1>3, <1>4 DEF Files!Contents
<1>7. new # None
  BY <1>6 DEF Files!FilesAssumption
<1> HIDE DEF disk, new, f
<1>8. disk \in [Files!Paths -> Files!Contents \cup {None}] /\ disk[f.path] = new
  BY <1>2, <1>3, <1>5, <1>6
<1>9. \A a \in Endpoints \ {e}, n \in Names : disk[<<a, n>>] = temp[<<a, n>>]
  <2>1. \A a \in Endpoints \ {e}, n \in Names : <<a, n>> \in Files!Paths /\ <<a, n>> # f.path
    BY <1>2 DEF Files!Paths
  <2> QED BY <1>3, <1>5, <2>1
<1>10. /\ f \in Files!Own(e) /\ f.path \in Files!Paths
       /\ disk \in [Files!Paths -> Files!Contents \cup {None}]
       /\ disk[f.path] \in Files!Contents /\ disk[f.path] # None
  BY <1>1, <1>2, <1>6, <1>7, <1>8
<1>11. \A j \in Files!Chunks \ (f.missing \ {i}) : disk[f.path][j] = f.file
  BY <1>6, <1>8
<1> USE DEF f, disk
<1> QED BY <1>9, <1>10, <1>11

LEMMA FilesAdded ==
    ASSUME Files!FilesAssumption, FilesInv, NEW e \in Endpoints, Files!AddChunk(e)
    PROVE  FilesInv'
<1> DEFINE f == current_file[e]
<1>1. PICK i : i = Files!NextChunk(f)
  OBVIOUS
<1>2. /\ files_state[e] = "PROCESS_CHUNK_STATE" /\ Files!Writer(f) \in writers
      /\ temp' = Files!Written(f, i)
      /\ current_file' = [current_file EXCEPT ![e].missing = @ \ {i}]
      /\ UNCHANGED <<files_serving, files_state, writers, results, handed, files_made, faults>>
  BY <1>1 DEF Files!AddChunk
<1>3. /\ f \in Files!Own(e)
      /\ temp' \in [Files!Paths -> Files!Contents \cup {None}] /\ temp'[f.path] # None
      /\ \A j \in Files!Chunks \ (f.missing \ {i}) : temp'[f.path][j] = f.file
      /\ \A a \in Endpoints \ {e}, n \in Names : temp'[<<a, n>>] = temp[<<a, n>>]
  BY <1>2, ChunkWritten
<1>4. /\ current_file'[e] = [f EXCEPT !.missing = @ \ {i}]
      /\ current_file' = [a \in Endpoints |-> current_file'[a]]
      /\ \A a \in Endpoints \ {e} : current_file'[a] = current_file[a]
  BY <1>2 DEF FilesInv, FilesTypes
<1>5. /\ current_file'[e] \in Files!Own(e) /\ current_file'[e] # None
      /\ current_file'[e].path = f.path /\ current_file'[e].file = f.file
      /\ current_file'[e].missing = f.missing \ {i}
  BY <1>3, <1>4 DEF Files!Own, Files!FilesAssumption
<1> HIDE DEF f
<1>6. FilesTypes'
  BY <1>2, <1>3, <1>4, <1>5 DEF FilesInv, FilesTypes
<1>7. Files!NeverTorn'
  BY <1>2, SameResults DEF FilesInv
<1>8. Files!Writer(f) = Files!Writer(current_file'[e])
  BY <1>5 DEF Files!Writer
<1>9. \A w : w \in writers' =>
          \/ w \in writers /\ ~(/\ files_state[e] = "PROCESS_CHUNK_STATE"
                               /\ w = Files!Writer(current_file[e]))
          \/ files_state'[e] = "PROCESS_CHUNK_STATE" /\ Files!Writer(current_file'[e]) = w
  BY <1>2, <1>8 DEF f
<1>10. InPlace' /\ OneWriter'
  <2>1. \A a \in Endpoints \ {e} : current_file'[a] = current_file[a] /\ files_state'[a] = files_state[a]
    BY <1>2, <1>4
  <2>2. /\ temp'[current_file'[e].path] # None
        /\ \A j \in Files!Chunks \ current_file'[e].missing :
               temp'[current_file'[e].path][j] = current_file'[e].file
    BY <1>3, <1>5
  <2> QED BY <1>3, <1>5, <1>9, <2>1, <2>2, Locally
<1> QED BY <1>6, <1>7, <1>10 DEF FilesInv

\* A file of which every chunk was taken is one file.
LEMMA FilesHandedOver ==
    ASSUME Files!FilesAssumption, FilesInv, NEW e \in Endpoints, Files!LastChunk(e)
    PROVE  FilesInv'
<1> DEFINE f == current_file[e]
<1>1. PICK i : i = Files!NextChunk(f)
  OBVIOUS
<1> DEFINE disk == Files!Written(f, i)
<1>2. /\ files_state[e] = "PROCESS_CHUNK_STATE" /\ Files!Writer(f) \in writers /\ f.missing = {i}
      /\ current_file' = [current_file EXCEPT ![e].missing = {}]
      /\ UNCHANGED <<files_serving, files_made>>
      /\ \/ (IF posts THEN Files!Post(f, disk) ELSE Files!Save(f, disk))
         \/ Files!Refused(f, disk)
      /\ files_state' = [files_state EXCEPT ![e] = files_state'[e]] /\ files_state'[e] # "PROCESS_CHUNK_STATE"
  BY <1>1 DEF Files!LastChunk, FilesInv, FilesTypes
<1>3. /\ f \in Files!Own(e) /\ f.path \in Files!Paths
      /\ disk \in [Files!Paths -> Files!Contents \cup {None}]
      /\ disk[f.path] \in Files!Contents /\ disk[f.path] # None
      /\ \A j \in Files!Chunks \ (f.missing \ {i}) : disk[f.path][j] = f.file
      /\ \A a \in Endpoints \ {e}, n \in Names : disk[<<a, n>>] = temp[<<a, n>>]
  BY <1>2, ChunkWritten
<1>4. disk[f.path] = Files!Whole(f.file)
  <2>1. \A j \in Files!Chunks : disk[f.path][j] = f.file
    BY <1>2, <1>3
  <2> QED BY <1>3, <2>1 DEF Files!Contents, Files!Whole
<1>5. /\ current_file'[e] = [f EXCEPT !.missing = {}]
      /\ current_file' = [a \in Endpoints |-> current_file'[a]]
      /\ files_state' = [a \in Endpoints |-> files_state'[a]]
      /\ \A a \in Endpoints \ {e} : current_file'[a] = current_file[a] /\ files_state'[a] = files_state[a]
  BY <1>2 DEF FilesInv, FilesTypes
<1>6. current_file'[e] \in Files!Own(e)
  BY <1>3, <1>5 DEF Files!Own
<1>7. /\ writers' = writers \ {Files!Writer(f)}
      /\ temp' = [disk EXCEPT ![f.path] = None]
      /\ \/ handed' = disk[f.path] \/ handed' = handed
      /\ \/ results' = [results EXCEPT ![f.path] = disk[f.path]]
         \/ results' = results
  BY <1>2, <1>3 DEF Files!Post, Files!Save, Files!Refused, Files!Kept,
     Files!Closed, Files!Removed, Files!FilesAssumption
<1>8. PICK num \in 0 .. MaxFiles, of \in Names : f.file = <<e, num>> /\ f.path = <<e, of>>
  BY <1>3 DEF Files!Own
<1> HIDE DEF f, disk
<1>9. FilesTypes'
  <2>1. /\ temp' \in [Files!Paths -> Files!Contents \cup {None}]
        /\ results' \in [Files!Paths -> Files!Contents \cup {None}]
    BY <1>3, <1>7 DEF FilesInv, FilesTypes
  <2>2. faults' \in Nat
    BY <1>2 DEF Files!Post, Files!Save, Files!Refused, Files!Works,
       Files!Fails, FilesInv, FilesTypes
  <2> QED BY <1>2, <1>5, <1>6, <2>1, <2>2 DEF FilesInv, FilesTypes
<1>10. Files!NeverTorn'
  <2>1. handed' = None \/ \E a \in Endpoints, k \in 0 .. MaxFiles : handed' = Files!Whole(<<a, k>>)
    BY <1>4, <1>7, <1>8 DEF FilesInv, Files!NeverTorn
  <2>2. ASSUME NEW a \in Endpoints, NEW name \in Names, results'[<<a, name>>] # None
        PROVE  \E k \in 0 .. MaxFiles : results'[<<a, name>>] = Files!Whole(<<a, k>>)
    <3>1. CASE results'[<<a, name>>] = results[<<a, name>>]
      BY <2>2, <3>1 DEF FilesInv, Files!NeverTorn
    <3>2. CASE results'[<<a, name>>] # results[<<a, name>>]
      <4>1. <<a, name>> \in Files!Paths
        BY DEF Files!Paths
      <4>2. <<a, name>> = f.path /\ results'[f.path] = disk[f.path]
        BY <1>7, <3>2, <4>1 DEF FilesInv, FilesTypes
      <4> QED BY <1>4, <1>8, <4>2
    <3> QED BY <3>1, <3>2
  <2> QED BY <2>1, <2>2 DEF Files!NeverTorn, Files!Whole
<1>11. \A a \in Endpoints \ {e}, n \in Names : temp'[<<a, n>>] = temp[<<a, n>>]
  <2>1. \A a \in Endpoints \ {e}, n \in Names : <<a, n>> \in Files!Paths /\ <<a, n>> # f.path
    BY <1>8 DEF Files!Paths
  <2> QED BY <1>3, <1>7, <2>1
<1>12. \A w : w \in writers' =>
          w \in writers /\ ~(/\ files_state[e] = "PROCESS_CHUNK_STATE"
                            /\ w = Files!Writer(current_file[e]))
  BY <1>7 DEF f
<1>13. InPlace' /\ OneWriter'
  <2>1. files_state'[e] # "PROCESS_CHUNK_STATE"
    BY <1>2
  <2>2. \A a \in Endpoints \ {e} : current_file'[a] = current_file[a] /\ files_state'[a] = files_state[a]
    BY <1>5
  <2> QED BY <1>6, <1>11, <1>12, <2>1, <2>2, Locally
<1> QED BY <1>9, <1>10, <1>13 DEF FilesInv

LEMMA FilesStep == ASSUME Files!FilesAssumption, FilesInv, [Files!Next]_(Files!vars) PROVE FilesInv'
BY FilesQuiet, FilesRestart, FilesGivenUp, FilesAnnounced, FilesAdded,
   FilesHandedOver DEF Files!Next

LEMMA FilesInit == ASSUME Files!FilesAssumption, Files!Init PROVE FilesInv
<1>1. PICK m \in Names : files_serving = [e \in Endpoints |-> [name |-> m, file |-> <<e, 0>>]]
  BY DEF Files!Init
<1>2. 0 \in 0 .. MaxFiles
  BY DEF Files!FilesAssumption
<1>3. \A e \in Endpoints : files_serving[e] \in [name : Names, file : {e} \X (0 .. MaxFiles)]
  BY <1>1, <1>2
<1>4. FilesTypes
  BY <1>1, <1>2, <1>3 DEF Files!Init, FilesTypes
<1>5. InPlace /\ OneWriter
  BY DEF Files!Init, InPlace, OneWriter
<1>6. Files!NeverTorn
  <2>1. \A e \in Endpoints, n \in Names : results[<<e, n>>] = None
    BY DEF Files!Init, Files!Paths
  <2> QED BY <2>1 DEF Files!Init, Files!NeverTorn
<1> QED BY <1>4, <1>5, <1>6 DEF FilesInv

\* Everything handed to a sink and everything in the results folder is one file
\* of its endpoint from its first chunk to its last, and the chunks of a
\* reassembly in progress are in place, whichever endpoints serve files of one
\* name, give up, are restarted or cannot open, write or post.
THEOREM FilesAreOne == ASSUME Files!FilesAssumption PROVE Files!Spec => [](Files!NeverTorn /\ Files!BufferInPlace)
<1>1. Files!Init => FilesInv
  BY FilesInit
<1>2. FilesInv /\ [Files!Next]_(Files!vars) => FilesInv'
  BY FilesStep
<1>3. FilesInv => Files!NeverTorn /\ Files!BufferInPlace
  BY FilesInPlace DEF FilesInv
<1> QED BY <1>1, <1>2, <1>3, PTL DEF Files!Spec

\* Where a rename replaces its target, a sink that took a file takes it again:
\* with no fault, a reassembly that ends with its file ends consumed.
THEOREM TakenAgain == ASSUME Files!FilesAssumption, Replaces PROVE Files!Spec => Files!TakesItAgain
<1> DEFINE Again == \A e \in Endpoints :
               files_state[e] = "PROCESS_CHUNK_STATE" /\ files_state'[e] # "PROCESS_CHUNK_STATE"
               /\ Files!Works /\ current_file'[e] # None => files_state'[e] = "OK"
<1>1. ASSUME FilesInv, FilesInv', Files!Next PROVE Again
  <2> SUFFICES ASSUME NEW e \in Endpoints, files_state[e] = "PROCESS_CHUNK_STATE",
                      files_state'[e] # "PROCESS_CHUNK_STATE", Files!Works, current_file'[e] # None
               PROVE  files_state'[e] = "OK"
    OBVIOUS
  <2>1. Files!LastChunk(e)
    <3>1. current_file[e] # None
      BY <1>1 DEF FilesInv, FilesTypes
    <3>2. ~Files!Restart
      BY DEF Files!Restart
    <3>3. PICK a \in Endpoints : \/ Files!Connected(a) \/ Files!SetMetadata(a) \/ Files!AddChunk(a)
                                 \/ Files!LastChunk(a) \/ Files!Reopen(a) \/ Files!Rearm(a) \/ Files!Serves(a)
      BY <1>1, <3>2 DEF Files!Next
    <3>4. ~Files!Serves(a) /\ ~Files!AddChunk(a)
      BY DEF Files!Serves, Files!AddChunk
    <3>5. a = e
      BY <1>1, <3>3, <3>4 DEF Files!Connected, Files!SetMetadata,
         Files!LastChunk, Files!Reopen, Files!Rearm, FilesInv, FilesTypes
    <3>6. ~Files!Reopen(e) /\ ~Files!Rearm(e)
      BY <1>1 DEF Files!Reopen, Files!Rearm, Files!Release, FilesInv, FilesTypes
    <3> QED
      BY <3>3, <3>4, <3>5, <3>6 DEF Files!Connected, Files!SetMetadata
  <2>2. PICK i : i = Files!NextChunk(current_file[e])
    OBVIOUS
  <2> DEFINE disk == Files!Written(current_file[e], i)
  <2>3. disk[current_file[e].path] # None
    BY <1>1, <2>1, <2>2, ChunkWritten DEF Files!LastChunk
  <2>4. ~Files!Refused(current_file[e], disk)
    BY <1>1, <2>3
       DEF Files!Refused, Files!Works, Files!Fails, FilesInv, FilesTypes
  <2> HIDE DEF disk
  <2>5. files_state' = [files_state EXCEPT ![e] = "OK"]
    BY <2>1, <2>2, <2>4 DEF Files!LastChunk, disk
  <2> QED BY <1>1, <2>5 DEF FilesInv, FilesTypes
<1>2. FilesInv /\ FilesInv' /\ [Files!Next]_(Files!vars) => [Again]_(Files!vars)
  BY <1>1
<1>3. Files!Init => FilesInv
  BY FilesInit
<1>4. FilesInv /\ [Files!Next]_(Files!vars) => FilesInv'
  BY FilesStep
<1> QED BY <1>2, <1>3, <1>4, PTL DEF Files!Spec, Files!TakesItAgain

-----------------------------------------------------------------------------
(* Relays.  What a node sent on is among the identifiers it has seen,      *)
(* which it does not send on again; and no list of them is ever cut, so    *)
(* none is forgotten.                                                      *)

\* Identifiers are given out in order, so a list of them, each once, is no
\* longer than there are.
Numbered(s, k) ==
    /\ s \in Seq(1..k)
    /\ \A i, j \in DOMAIN s : s[i] = s[j] => i = j

MeshInv ==
    /\ made \in 0..MaxFrames
    /\ DOMAIN held = Mesh!Nodes
    /\ \A n \in Mesh!Nodes : held[n] # None => "id" \in DOMAIN held[n] /\ held[n].id \in 1..made
    /\ DOMAIN LAST_IDS = Mesh!Nodes /\ \A n \in Mesh!Nodes : Numbered(LAST_IDS[n], made)
    /\ DOMAIN LAST_SEEN_IDS = Mesh!Nodes /\ \A n \in Mesh!Nodes : Numbered(LAST_SEEN_IDS[n], made)
    /\ relayed \subseteq (Mesh!Nodes \ {Hub}) \X (1..made)
    /\ \A p \in relayed : /\ p[2] \in Mesh!ToSet(LAST_SEEN_IDS[p[1]])
                          /\ p[2] \notin Mesh!ToSet(LAST_IDS[p[1]])
    /\ \A n \in Mesh!Nodes \ {Hub} : held[n] # None => ~Mesh!Known(n, held[n])

LEMMA NumbersUpTo ==
    ASSUME NEW k \in Nat, NEW s, Numbered(s, k)
    PROVE  Mesh!ToSet(s) \subseteq 1..k /\ Numbered(s, k + 1)
<1>1. s \in Seq(1..k) /\ s \in Seq(1..(k + 1))
  <2>1. 1..k \subseteq 1..(k + 1)
    OBVIOUS
  <2> QED BY <2>1 DEF Numbered
<1> QED BY <1>1 DEF Numbered, Mesh!ToSet

LEMMA NotCut ==
    ASSUME Mesh!MeshAssumption, NEW k \in 0..MaxFrames, NEW s, Numbered(s, k),
           NEW id \in 1..k, id \notin Mesh!ToSet(s)
    PROVE  /\ Numbered(Mesh!Cached(Append(s, id)), k)
           /\ Mesh!ToSet(Mesh!Cached(Append(s, id))) = Mesh!ToSet(s) \cup {id}
<1> DEFINE t == Append(s, id)
<1>1. /\ s \in Seq(1..k) /\ t \in Seq(1..k) /\ Len(s) \in Nat /\ Len(t) = Len(s) + 1
      /\ DOMAIN s = 1..Len(s) /\ DOMAIN t = 1..(Len(s) + 1)
      /\ \A i \in DOMAIN s : t[i] = s[i]
      /\ t[Len(s) + 1] = id
  BY DEF Numbered
<1> HIDE DEF t
<1>2. Numbered(t, k)
  <2>1. \A i \in DOMAIN s : s[i] # id
    BY DEF Mesh!ToSet
  <2>2. \A i, j \in DOMAIN s : s[i] = s[j] => i = j
    BY DEF Numbered
  <2>3. ASSUME NEW i \in DOMAIN t, NEW j \in DOMAIN t, t[i] = t[j] PROVE i = j
    <3>1. CASE i \in DOMAIN s /\ j \in DOMAIN s
      <4>1. s[i] = s[j]
        BY <1>1, <2>3, <3>1
      <4> QED BY <2>2, <3>1, <4>1
    <3>2. CASE i \in DOMAIN s /\ j = Len(s) + 1
      <4>1. s[i] = id
        BY <1>1, <2>3, <3>2
      <4> QED BY <2>1, <3>2, <4>1
    <3>3. CASE i = Len(s) + 1 /\ j \in DOMAIN s
      <4>1. s[j] = id
        BY <1>1, <2>3, <3>3
      <4> QED BY <2>1, <3>3, <4>1
    <3> QED BY <1>1, <3>1, <3>2, <3>3
  <2> QED BY <1>1, <2>3 DEF Numbered
<1>3. Mesh!ToSet(t) = Mesh!ToSet(s) \cup {id}
  <2>1. ASSUME NEW i \in DOMAIN t PROVE t[i] \in Mesh!ToSet(s) \cup {id}
    <3>1. CASE i \in DOMAIN s
      BY <1>1, <3>1 DEF Mesh!ToSet
    <3>2. CASE i = Len(s) + 1
      BY <1>1, <3>2
    <3> QED BY <1>1, <3>1, <3>2
  <2>2. ASSUME NEW i \in DOMAIN s PROVE s[i] \in Mesh!ToSet(t)
    <3>1. i \in DOMAIN t /\ t[i] = s[i]
      BY <1>1
    <3> QED BY <3>1 DEF Mesh!ToSet
  <2>3. id \in Mesh!ToSet(t)
    <3>1. Len(s) + 1 \in DOMAIN t
      BY <1>1
    <3> QED BY <1>1, <3>1 DEF Mesh!ToSet
  <2>4. Mesh!ToSet(t) \subseteq Mesh!ToSet(s) \cup {id}
    BY <2>1 DEF Mesh!ToSet
  <2>5. Mesh!ToSet(s) \subseteq Mesh!ToSet(t)
    BY <2>2 DEF Mesh!ToSet
  <2> QED BY <2>3, <2>4, <2>5
<1>4. Len(t) <= k
  <2>1. k \in Nat /\ IsFiniteSet(1..k) /\ Cardinality(1..k) = k
    BY FS_Interval DEF Mesh!MeshAssumption
  <2>2. Cardinality(1..Len(t)) = Len(t)
    BY <1>1, FS_Interval
  <2>3. t \in Injection(1..Len(t), 1..k)
    <3>1. t \in [1..Len(t) -> 1..k] /\ DOMAIN t = 1..Len(t)
      BY <1>1
    <3> QED BY <1>2, <3>1 DEF Numbered, Injection, IsInjective
  <2>4. Cardinality(1..Len(t)) <= Cardinality(1..k)
    BY <2>1, <2>3, FS_Injection
  <2> QED BY <2>1, <2>2, <2>4
<1>5. Mesh!Cached(t) = t
  <2>1. ~(Len(t) > MAX_IDS_CACHED)
    BY <1>1, <1>4 DEF Mesh!MeshAssumption
  <2> QED BY <2>1 DEF Mesh!Cached
<1> QED BY <1>2, <1>3, <1>5 DEF t

LEMMA MeshForward ==
    ASSUME Mesh!MeshAssumption, MeshInv, NEW n \in Mesh!Nodes, Mesh!Forward(n)
    PROVE  MeshInv'
<1>1. /\ n # Hub /\ held[n] # None /\ "id" \in DOMAIN held[n] /\ held[n].id \in 1..made
      /\ ~Mesh!Known(n, held[n]) /\ UNCHANGED <<made, LAST_IDS>>
  BY DEF Mesh!Forward, MeshInv
<1>2. CASE ~held[n].mesh
  <2>1. /\ held' = [held EXCEPT ![n] = None]
        /\ UNCHANGED <<LAST_SEEN_IDS, relayed>>
    BY <1>2 DEF Mesh!Forward
  <2> QED BY <1>1, <2>1 DEF MeshInv, Mesh!Known, Mesh!Seen
<1>3. CASE held[n].mesh
  <2> DEFINE id == held[n].id
  <2>1. Mesh!Transmit(n, Mesh!Forwarded(held[n]))
    BY <1>3 DEF Mesh!Forward
  <2>2. /\ Mesh!Forwarded(held[n]).id = id
        /\ "id" \in DOMAIN Mesh!Forwarded(held[n])
    BY <1>1 DEF Mesh!Forwarded
  <2>3. /\ DOMAIN held' = Mesh!Nodes /\ held'[n] = None
        /\ \A m \in Mesh!Nodes \ {n} :
             \/ held'[m] = held[m]
             \/ /\ "id" \in DOMAIN held'[m] /\ held'[m].id = id
                /\ m = Hub \/ ~Mesh!Known(m, held'[m])
    BY <2>1, <2>2 DEF Mesh!Transmit
  <2>4. /\ Numbered(LAST_SEEN_IDS'[n], made)
        /\ Mesh!ToSet(LAST_SEEN_IDS'[n]) = Mesh!ToSet(LAST_SEEN_IDS[n]) \cup {id}
        /\ DOMAIN LAST_SEEN_IDS' = Mesh!Nodes
        /\ \A m \in Mesh!Nodes \ {n} : LAST_SEEN_IDS'[m] = LAST_SEEN_IDS[m]
    <3>1. LAST_SEEN_IDS' = [LAST_SEEN_IDS EXCEPT ![n] = Mesh!Cached(Append(@, id))]
      BY <1>3 DEF Mesh!Forward
    <3>2. /\ Numbered(LAST_SEEN_IDS[n], made)
          /\ id \notin Mesh!ToSet(LAST_SEEN_IDS[n])
      BY <1>1 DEF MeshInv, Mesh!Known, Mesh!Seen
    <3>3. PICK s : s = LAST_SEEN_IDS[n]
      OBVIOUS
    <3>4. PICK i \in 1..made : i = id
      BY <1>1
    <3>5. /\ Numbered(Mesh!Cached(Append(s, i)), made)
          /\ Mesh!ToSet(Mesh!Cached(Append(s, i))) = Mesh!ToSet(s) \cup {i}
      <4>1. Numbered(s, made) /\ i \notin Mesh!ToSet(s)
        BY <3>2, <3>3, <3>4
      <4>2. PICK k \in 0..MaxFrames : k = made
        BY DEF MeshInv
      <4>3. Numbered(s, k) /\ i \in 1..k
        BY <4>1, <4>2
      <4> QED BY <4>1, <4>2, <4>3, NotCut
    <3>6. LAST_SEEN_IDS'[n] = Mesh!Cached(Append(s, i))
      BY <3>1, <3>3, <3>4 DEF MeshInv
    <3> QED BY <3>1, <3>3, <3>4, <3>5, <3>6 DEF MeshInv
  <2>5. relayed' = relayed \cup {<<n, id>>}
    BY <1>3 DEF Mesh!Forward
  <2>6. id \notin Mesh!ToSet(LAST_IDS[n])
    BY <1>1 DEF Mesh!Known
  <2> HIDE DEF id
  <2>7. id \in 1..made
    BY <1>1 DEF id
  <2>8. ASSUME NEW p \in relayed'
        PROVE  p \in (Mesh!Nodes \ {Hub}) \X (1..made) /\ p[2] \in Mesh!ToSet(LAST_SEEN_IDS'[p[1]])
                 /\ p[2] \notin Mesh!ToSet(LAST_IDS[p[1]])
    <3>1. CASE p \in relayed
      BY <3>1, <2>4 DEF MeshInv
    <3>2. CASE p = <<n, id>>
      BY <3>2, <1>1, <2>4, <2>6, <2>7
    <3> QED BY <3>1, <3>2, <2>5
  <2>9. ASSUME NEW m \in Mesh!Nodes \ {Hub}, held'[m] # None
        PROVE  ~Mesh!Known(m, held[m])' 
    <3>1. m # n /\ LAST_SEEN_IDS'[m] = LAST_SEEN_IDS[m]
      BY <2>3, <2>4, <2>9
    <3>2. ~Mesh!Known(m, held'[m])
      BY <2>3, <2>9, <3>1 DEF MeshInv
    <3> QED BY <1>1, <3>1, <3>2 DEF Mesh!Known, Mesh!Seen
  <2>10. \A m \in Mesh!Nodes : held'[m] # None => "id" \in DOMAIN held'[m] /\ held'[m].id \in 1..made
    BY <2>3, <2>7 DEF MeshInv
  <2> QED BY <1>1, <2>3, <2>4, <2>8, <2>9, <2>10 DEF MeshInv
<1> QED BY <1>2, <1>3

\* A frame of the node's own: Answer and Ask.
LEMMA MeshOwn ==
    ASSUME Mesh!MeshAssumption, MeshInv, NEW n \in {Hub, Edge}, Mesh!Identified(n),
           UNCHANGED <<LAST_SEEN_IDS, relayed>>,
           DOMAIN held' = Mesh!Nodes, held'[n] = None,
           \A m \in Mesh!Nodes \ {n} :
             \/ held'[m] = held[m]
             \/ /\ "id" \in DOMAIN held'[m] /\ held'[m].id = made + 1
                /\ m = Hub \/ ~Mesh!Known(m, held'[m])
    PROVE  MeshInv'
<1>1. /\ made' = made + 1 /\ made' \in 0..MaxFrames /\ made \in Nat
      /\ LAST_IDS' = [LAST_IDS EXCEPT ![n] = Mesh!Cached(Append(@, made'))]
      /\ n \in Mesh!Nodes
  BY DEF Mesh!Identified, MeshInv, Mesh!MeshAssumption, Mesh!Nodes
<1>2. ASSUME NEW s, Numbered(s, made) PROVE Numbered(s, made') /\ made' \notin Mesh!ToSet(s)
  <2>1. PICK k \in Nat : k = made
    BY <1>1
  <2>2. Numbered(s, k + 1) /\ Mesh!ToSet(s) \subseteq 1..k
    BY <1>2, <2>1, NumbersUpTo
  <2> QED BY <1>1, <2>1, <2>2
<1>3. /\ Numbered(LAST_IDS'[n], made') /\ DOMAIN LAST_IDS' = Mesh!Nodes
      /\ Mesh!ToSet(LAST_IDS'[n]) = Mesh!ToSet(LAST_IDS[n]) \cup {made'}
      /\ \A m \in Mesh!Nodes \ {n} : LAST_IDS'[m] = LAST_IDS[m]
  <2>1. PICK s : s = LAST_IDS[n]
    OBVIOUS
  <2>2. PICK k : k = made'
    OBVIOUS
  <2>3. /\ k \in 0..MaxFrames /\ k \in 1..k /\ Numbered(s, k)
    BY <1>1, <1>2, <2>1, <2>2 DEF MeshInv
  <2>4. k \notin Mesh!ToSet(s)
    <3>1. Numbered(s, made)
      BY <1>1, <2>1 DEF MeshInv
    <3> QED BY <1>2, <2>2, <3>1
  <2>5. /\ Numbered(Mesh!Cached(Append(s, k)), k)
        /\ Mesh!ToSet(Mesh!Cached(Append(s, k))) = Mesh!ToSet(s) \cup {k}
    BY <2>3, <2>4, NotCut
  <2>6. LAST_IDS'[n] = Mesh!Cached(Append(s, k))
    BY <1>1, <2>1, <2>2 DEF MeshInv
  <2> QED BY <1>1, <2>1, <2>2, <2>5, <2>6 DEF MeshInv
<1>4. \A m \in Mesh!Nodes : Numbered(LAST_IDS'[m], made') /\ Numbered(LAST_SEEN_IDS'[m], made')
  BY <1>2, <1>3 DEF MeshInv
<1>5. ASSUME NEW p \in relayed
      PROVE  /\ p \in (Mesh!Nodes \ {Hub}) \X (1..made') /\ p[2] \in Mesh!ToSet(LAST_SEEN_IDS'[p[1]])
             /\ p[2] \notin Mesh!ToSet(LAST_IDS'[p[1]])
  <2>1. p[2] \in 1..made /\ p[1] \in Mesh!Nodes /\ p[2] # made'
    BY <1>1 DEF MeshInv
  <2> QED BY <1>1, <1>3, <2>1 DEF MeshInv
<1>6. ASSUME NEW m \in Mesh!Nodes \ {Hub}, held'[m] # None
      PROVE  ~Mesh!Known(m, held[m])'
  <2>1. m # n /\ LAST_IDS'[m] = LAST_IDS[m] /\ ~Mesh!Known(m, held'[m])
    BY <1>3, <1>6 DEF MeshInv
  <2> QED BY <2>1 DEF Mesh!Known, Mesh!Seen
<1>7. \A m \in Mesh!Nodes : held'[m] # None => "id" \in DOMAIN held'[m] /\ held'[m].id \in 1..made'
  BY <1>1 DEF MeshInv
<1> QED BY <1>1, <1>3, <1>4, <1>5, <1>6, <1>7 DEF MeshInv

LEMMA MeshAnswer ==
    ASSUME Mesh!MeshAssumption, MeshInv, Mesh!Answer
    PROVE  MeshInv'
<1> DEFINE f == held[Edge]
           command == IF f.command # "CHUNK" THEN f.command
                      ELSE IF metadata_sent THEN "DATA" ELSE "METADATA"
           r == Mesh!Reply(f, command, IF command = "DATA" THEN <<serving, f.chunk>> ELSE None)
<1>1. /\ Mesh!Transmit(Edge, r) /\ Mesh!Identified(Edge)
      /\ UNCHANGED <<LAST_SEEN_IDS, relayed>>
  BY DEF Mesh!Answer
<1>2. "id" \in DOMAIN r /\ r.id = made + 1
  BY DEF Mesh!Reply
<1> HIDE DEF r
<1>3. /\ DOMAIN held' = Mesh!Nodes /\ held'[Edge] = None
      /\ \A m \in Mesh!Nodes \ {Edge} :
             \/ held'[m] = held[m]
             \/ /\ "id" \in DOMAIN held'[m] /\ held'[m].id = made + 1
                /\ m = Hub \/ ~Mesh!Known(m, held'[m])
  BY <1>1, <1>2 DEF Mesh!Transmit, Mesh!Nodes
<1> QED BY <1>1, <1>3, MeshOwn

LEMMA MeshAsk ==
    ASSUME Mesh!MeshAssumption, MeshInv, Mesh!Ask
    PROVE  MeshInv'
<1>1. PICK r : /\ Mesh!Transmit(Hub, r) /\ "id" \in DOMAIN r /\ r.id = made + 1
               /\ Mesh!Identified(Hub) /\ UNCHANGED <<LAST_SEEN_IDS, relayed>>
  BY DEF Mesh!Ask
<1>2. /\ DOMAIN held' = Mesh!Nodes /\ held'[Hub] = None
      /\ \A m \in Mesh!Nodes \ {Hub} :
             \/ held'[m] = held[m]
             \/ /\ "id" \in DOMAIN held'[m] /\ held'[m].id = made + 1
                /\ m = Hub \/ ~Mesh!Known(m, held'[m])
  BY <1>1 DEF Mesh!Transmit, Mesh!Nodes
<1> QED BY <1>1, <1>2, MeshOwn

LEMMA MeshHeard ==
    ASSUME Mesh!MeshAssumption, MeshInv, Mesh!Heard
    PROVE  MeshInv'
<1>1. /\ held' = [held EXCEPT ![Hub] = None] /\ held[Hub] # None
      /\ UNCHANGED <<LAST_IDS, made, relayed>>
      /\ Hub \in Mesh!Nodes
  BY DEF Mesh!Heard, Mesh!Nodes
<1>2. \/ UNCHANGED LAST_SEEN_IDS
      \/ /\ LAST_SEEN_IDS' = [LAST_SEEN_IDS EXCEPT ![Hub] = Mesh!Cached(Append(@, held[Hub].id))]
         /\ ~Mesh!Seen(Hub, held[Hub])
  BY DEF Mesh!Heard, Mesh!Connected, Mesh!Announced, Mesh!ReAnnounced,
     Mesh!Chunk, Mesh!Wrong, Mesh!Unanswered
<1>3. /\ DOMAIN LAST_SEEN_IDS' = Mesh!Nodes /\ Numbered(LAST_SEEN_IDS'[Hub], made)
      /\ \A n \in Mesh!Nodes \ {Hub} : LAST_SEEN_IDS'[n] = LAST_SEEN_IDS[n]
  <2>1. CASE UNCHANGED LAST_SEEN_IDS
    BY <1>1, <2>1 DEF MeshInv
  <2>2. CASE /\ LAST_SEEN_IDS' = [LAST_SEEN_IDS EXCEPT ![Hub] = Mesh!Cached(Append(@, held[Hub].id))]
             /\ ~Mesh!Seen(Hub, held[Hub])
    <3>1. PICK s : s = LAST_SEEN_IDS[Hub]
      OBVIOUS
    <3>2. PICK i \in 1..made : i = held[Hub].id
      BY <1>1 DEF MeshInv
    <3>3. Numbered(s, made) /\ i \notin Mesh!ToSet(s) /\ made \in 0..MaxFrames
      BY <1>1, <2>2, <3>1, <3>2 DEF MeshInv, Mesh!Seen
    <3>4. Numbered(Mesh!Cached(Append(s, i)), made)
      <4>1. PICK k \in 0..MaxFrames : k = made
        BY <3>3
      <4>2. Numbered(s, k) /\ i \in 1..k
        BY <3>3, <4>1
      <4> QED BY <3>3, <4>1, <4>2, NotCut
    <3>5. LAST_SEEN_IDS' = [LAST_SEEN_IDS EXCEPT ![Hub] = Mesh!Cached(Append(s, i))]
      BY <2>2, <3>1, <3>2
    <3> QED BY <1>1, <3>4, <3>5 DEF MeshInv
  <2> QED BY <1>2, <2>1, <2>2
<1>4. \A p \in relayed : p[1] \in Mesh!Nodes \ {Hub}
  BY DEF MeshInv
<1>5. /\ DOMAIN held' = Mesh!Nodes /\ held'[Hub] = None
      /\ \A n \in Mesh!Nodes \ {Hub} : held'[n] = held[n]
  BY <1>1 DEF MeshInv
<1>6. \A n \in Mesh!Nodes \ {Hub} : Mesh!Known(n, held[n])' <=> Mesh!Known(n, held[n])
  BY <1>1, <1>3, <1>5 DEF Mesh!Known, Mesh!Seen
<1>7. \A n \in Mesh!Nodes : Numbered(LAST_SEEN_IDS'[n], made)
  BY <1>3 DEF MeshInv
<1>8. \A n \in Mesh!Nodes : held'[n] # None => "id" \in DOMAIN held'[n] /\ held'[n].id \in 1..made
  BY <1>5 DEF MeshInv
<1> QED BY <1>1, <1>3, <1>4, <1>5, <1>6, <1>7, <1>8 DEF MeshInv

LEMMA MeshKept ==
    ASSUME Mesh!MeshAssumption, MeshInv, [Mesh!Next]_(Mesh!vars)
    PROVE  MeshInv'
<1>1. CASE Mesh!Silence \/ Mesh!Moves \/ UNCHANGED Mesh!vars
  <2>1. UNCHANGED <<held, LAST_IDS, LAST_SEEN_IDS, made, relayed>>
    BY <1>1 DEF Mesh!Silence, Mesh!Unanswered, Mesh!Moves, Mesh!vars, Mesh!ids
  <2> QED BY <2>1 DEF MeshInv, Mesh!Known, Mesh!Seen
<1>2. ASSUME NEW n \in Relays \cup {Edge}, Mesh!Forward(n) PROVE MeshInv'
  BY <1>2, MeshForward DEF Mesh!Nodes
<1> QED BY <1>1, <1>2, MeshAnswer, MeshAsk, MeshHeard DEF Mesh!Next

\* No relay sends on what it sent on before, nor what it made itself.
THEOREM RelaysSendOnOnce ==
    ASSUME Mesh!MeshAssumption
    PROVE  Mesh!Spec => []Mesh!RelaysOnce
<1>1. Mesh!Init => MeshInv
  <2> SUFFICES ASSUME Mesh!Init PROVE MeshInv
    OBVIOUS
  <2>1. Numbered(<<>>, 0)
    BY DEF Numbered
  <2>2. made = 0 /\ relayed = {} /\ 0 \in 0..MaxFrames
    BY DEF Mesh!Init, Mesh!MeshAssumption
  <2> QED BY <2>1, <2>2 DEF Mesh!Init, MeshInv
<1>2. MeshInv => Mesh!RelaysOnce
  <2> SUFFICES ASSUME MeshInv, NEW n \in Mesh!Nodes
               PROVE  /\ held[n] # None => <<n, held[n].id>> \notin relayed
                      /\ \A id \in Mesh!ToSet(LAST_IDS[n]) : <<n, id>> \notin relayed
    BY DEF Mesh!RelaysOnce
  <2>1. ASSUME held[n] # None, <<n, held[n].id>> \in relayed PROVE FALSE
    <3>1. n # Hub /\ held[n].id \in Mesh!ToSet(LAST_SEEN_IDS[n])
      BY <2>1 DEF MeshInv
    <3>2. ~Mesh!Known(n, held[n])
      BY <2>1, <3>1 DEF MeshInv
    <3> QED BY <3>1, <3>2 DEF Mesh!Known, Mesh!Seen
  <2>2. ASSUME NEW id \in Mesh!ToSet(LAST_IDS[n]), <<n, id>> \in relayed PROVE FALSE
    BY <2>2 DEF MeshInv
  <2> QED BY <2>1, <2>2
<1> QED BY <1>1, <1>2, MeshKept, PTL DEF Mesh!Spec

-----------------------------------------------------------------------------
(* Two brokers bridged.  What a sink publishes its source hears only after *)
(* the sink has noted it in the guard, and the guard still has it then.    *)

LEMMA BridgeSets ==
    \A S : /\ Mqtt!IsFiniteSet(S) <=> IsFiniteSet(S)
          /\ Mqtt!Cardinality(S) = Cardinality(S)
BY DEF Mqtt!IsFiniteSet, IsFiniteSet, Mqtt!Cardinality, Cardinality

Shipped == [message : Messages, id : 0..(Wrap - 1), own : {FALSE}]
Noted(o, message) == \E j \in DOMAIN o : o[j] = message
Once(o) == \A i, j \in DOMAIN o : o[i] = o[j] => i = j
Own(s, i) == i \in DOMAIN inbox[s] /\ inbox[s][i].own

BridgeInv ==
    /\ inbox \in [Sides -> Seq([message : Messages, own : BOOLEAN])]
    /\ file_queue \in [Sides -> Seq(Shipped)]
    /\ _artifact_id \in [Sides -> 0..(Wrap - 1)]
    /\ _borrowed \in [Sides -> Shipped \cup {None}]
    /\ publishing \in [Sides -> Shipped \cup {None}]
    /\ _order \in [Sides -> Seq(Messages)]
    /\ \A s \in Sides : Once(_order[s])
    /\ \A s \in Sides : \A i \in DOMAIN inbox[s] : inbox[s][i].own =>
           \/ publishing[s] # None /\ publishing[s].message = inbox[s][i].message
           \/ /\ Noted(_order[s], inbox[s][i].message)
              /\ publishing[s] = None \/ MaxEchoes # 1
    /\ MaxEchoes = 1 => \A s \in Sides : \A i, j \in DOMAIN inbox[s] :
           inbox[s][i].own /\ inbox[s][j].own => i = j

LEMMA LeastExists ==
    ASSUME NEW S, S \subseteq Nat, S # {} PROVE \E m \in S : \A k \in S : m <= k
<1> DEFINE R == OpToRel(<, Nat)
<1>1. IsWellFoundedOn(R, Nat)
  BY NatLessThanWellFounded
<1>2. \A x, y \in Nat : <<x, y>> \in R <=> x < y
  BY DEF R, OpToRel
<1> HIDE DEF R
<1>3. PICK m \in S : \A y \in S : ~(<<y, m>> \in R)
  BY <1>1, WFMin
<1>4. ASSUME NEW k \in S PROVE m <= k
  <2>1. k \in Nat /\ m \in Nat /\ ~(<<k, m>> \in R)
    BY <1>3
  <2>2. ~(k < m)
    BY <1>2, <2>1
  <2> QED BY <2>1, <2>2
<1> QED BY <1>4

\* What is noted is known, and what was known still is where all of them fit.
LEMMA GuardNotes ==
    ASSUME Mqtt!BridgeAssumption, NEW o \in Seq(Messages), Once(o), NEW m \in Messages
    PROVE  /\ Mqtt!Remembered(o, m) \in Seq(Messages) /\ Once(Mqtt!Remembered(o, m))
           /\ Noted(Mqtt!Remembered(o, m), m)
           /\ MaxEchoes # 1 => \A x : Noted(o, x) => Noted(Mqtt!Remembered(o, m), x)
<1>1. CASE Mqtt!Contains(o, m)
  <2>1. Mqtt!Remembered(o, m) = o
    BY <1>1 DEF Mqtt!Remembered
  <2>2. Noted(o, m)
    BY <1>1 DEF Mqtt!Contains, Noted
  <2> QED BY <2>1, <2>2
<1>2. CASE ~Mqtt!Contains(o, m)
  <2> DEFINE t == Append(o, m)
  <2>1. /\ t \in Seq(Messages) /\ Len(t) = Len(o) + 1 /\ Len(o) \in Nat
        /\ DOMAIN o = 1..Len(o) /\ DOMAIN t = 1..(Len(o) + 1)
        /\ t[Len(o) + 1] = m /\ \A i \in DOMAIN o : t[i] = o[i]
    OBVIOUS
  <2>2. \A i \in DOMAIN o : o[i] # m
    BY <1>2, <2>1 DEF Mqtt!Contains
  <2>3. Once(t) /\ Noted(t, m) /\ \A x : Noted(o, x) => Noted(t, x)
    <3>1. Once(t)
      BY <2>1, <2>2 DEF Once
    <3>2. Noted(t, m)
      BY <2>1 DEF Noted
    <3>3. ASSUME NEW x, Noted(o, x) PROVE Noted(t, x)
      BY <2>1, <3>3 DEF Noted
    <3> QED BY <3>1, <3>2, <3>3
  <2>4. CASE Len(t) > cap
    <3>1. Mqtt!Remembered(o, m) = Tail(t)
      BY <1>2, <2>4 DEF Mqtt!Remembered
    <3>2. /\ Tail(t) \in Seq(Messages) /\ DOMAIN Tail(t) = 1..Len(o)
          /\ \A i \in 1..Len(o) : Tail(t)[i] = t[i + 1]
          /\ Len(o) >= 1
      BY <2>1, <2>4 DEF Mqtt!BridgeAssumption
    <3>3. Once(Tail(t)) /\ Noted(Tail(t), m)
      <4> HIDE DEF t
      <4>1. Once(Tail(t))
        BY <2>1, <2>3, <3>2 DEF Once
      <4>2. Tail(t)[Len(o)] = m /\ Len(o) \in DOMAIN Tail(t)
        BY <2>1, <3>2
      <4> QED BY <4>1, <4>2 DEF Noted
    <3>4. MaxEchoes = 1
      <4>1. SUFFICES ASSUME Mqtt!IsFiniteSet(Messages), Mqtt!Cardinality(Messages) <= cap
                     PROVE  FALSE
        BY DEF Mqtt!BridgeAssumption
      <4> HIDE DEF t
      <4>2. t \in Injection(1..Len(t), Messages)
        <5>1. t \in [1..Len(t) -> Messages] /\ DOMAIN t = 1..Len(t)
          BY <2>1
        <5> QED BY <2>3, <5>1 DEF Once, Injection, IsInjective
      <4>3. Mqtt!Cardinality(1..Len(t)) = Len(t)
        BY <2>1, FS_Interval, BridgeSets
      <4>4. Mqtt!Cardinality(Messages) \in Nat
        BY <4>1, FS_CardinalityType, BridgeSets
      <4>5. Mqtt!Cardinality(1..Len(t)) <= Mqtt!Cardinality(Messages)
        BY <4>1, <4>2, FS_Injection, BridgeSets
      <4> QED BY <2>1, <2>4, <4>1, <4>3, <4>4, <4>5 DEF Mqtt!BridgeAssumption
    <3> QED BY <3>1, <3>2, <3>3, <3>4
  <2>5. CASE ~(Len(t) > cap)
    <3>1. Mqtt!Remembered(o, m) = t
      BY <1>2, <2>5 DEF Mqtt!Remembered
    <3> QED BY <2>1, <2>3, <3>1
  <2> QED BY <2>4, <2>5
<1> QED BY <1>1, <1>2

LEMMA BridgeHeard ==
    ASSUME Mqtt!BridgeAssumption, BridgeInv, NEW s \in Sides, Mqtt!OnMessage(s)
    PROVE  BridgeInv'
<1>1. /\ inbox[s] \in Seq([message : Messages, own : BOOLEAN]) /\ inbox[s] # <<>>
      /\ publishing[s] = None
      /\ UNCHANGED <<_borrowed, _order, publishing>>
  BY DEF Mqtt!OnMessage, BridgeInv, Mqtt!Idle, Mqtt!BridgeAssumption
<1> DEFINE heard == Head(inbox[s])
<1>2. /\ heard \in [message : Messages, own : BOOLEAN] /\ heard = inbox[s][1]
      /\ 1 \in DOMAIN inbox[s]
  <2>1. PICK q \in Seq([message : Messages, own : BOOLEAN]) : q = inbox[s] /\ q # <<>>
    BY <1>1
  <2> DEFINE M == [message : Messages, own : BOOLEAN]
  <2> HIDE DEF M
  <2>2. q \in Seq(M) /\ q # <<>>
    BY <2>1 DEF M
  <2>3. Head(q) = q[1] /\ 1 \in DOMAIN q /\ q[1] \in M
    BY <2>2
  <2> QED BY <2>1, <2>3 DEF M
<1>3. heard.own => Mqtt!Seen(s, heard.message)
  <2>1. heard.own => Noted(_order[s], heard.message)
    BY <1>1, <1>2 DEF BridgeInv
  <2>2. _order[s] \in Seq(Messages)
    BY DEF BridgeInv
  <2> HIDE DEF heard
  <2> QED BY <2>1, <2>2 DEF Mqtt!Seen, Mqtt!Contains, Noted
<1>4. /\ inbox' \in [Sides -> Seq([message : Messages, own : BOOLEAN])]
      /\ \A r \in Sides \ {s} : inbox'[r] = inbox[r]
      /\ \/ inbox'[s] = inbox[s]
         \/ /\ DOMAIN inbox'[s] = 1..(Len(inbox[s]) - 1)
            /\ \A i \in DOMAIN inbox'[s] : inbox'[s][i] = inbox[s][i + 1]
  <2>1. inbox' = inbox \/ inbox' = [inbox EXCEPT ![s] = Tail(@)]
    BY DEF Mqtt!OnMessage
  <2>2. /\ Tail(inbox[s]) \in Seq([message : Messages, own : BOOLEAN])
        /\ DOMAIN Tail(inbox[s]) = 1..(Len(inbox[s]) - 1)
        /\ \A i \in 1..(Len(inbox[s]) - 1) : Tail(inbox[s])[i] = inbox[s][i + 1]
    BY <1>1
  <2> QED BY <2>1, <2>2 DEF BridgeInv
<1>5. \A i \in DOMAIN inbox[s] : i \in 1..Len(inbox[s])
  BY <1>1
<1>6. /\ file_queue' \in [Sides -> Seq(Shipped)]
      /\ _artifact_id' \in [Sides -> 0..(Wrap - 1)]
  <2>1. CASE Mqtt!Seen(s, heard.message)
    BY <2>1 DEF Mqtt!OnMessage, BridgeInv
  <2>2. CASE ~Mqtt!Seen(s, heard.message)
    <3> DEFINE id == (_artifact_id[s] + 1) % Wrap
               file == Mqtt!Enveloped(heard, id)
               kept == IF Len(file_queue[s]) < file_queue_size THEN file_queue[s]
                       ELSE Tail(file_queue[s])
    <3>1. id \in 0..(Wrap - 1)
      BY DEF BridgeInv, Mqtt!BridgeAssumption
    <3>2. file \in Shipped
      <4>1. heard.own = FALSE
        BY <1>2, <1>3, <2>2
      <4> HIDE DEF heard, id
      <4> QED BY <1>2, <3>1, <4>1 DEF Mqtt!Enveloped, Shipped
    <3>3. file_queue[s] \in Seq(Shipped)
      BY DEF BridgeInv
    <3>4. kept \in Seq(Shipped)
      <4>1. CASE Len(file_queue[s]) < file_queue_size
        BY <3>3, <4>1
      <4>2. CASE ~(Len(file_queue[s]) < file_queue_size)
        <5>1. file_queue[s] # <<>>
          BY <3>3, <4>2 DEF Mqtt!BridgeAssumption
        <5> QED BY <3>3, <4>2, <5>1
      <4> QED BY <4>1, <4>2
    <3> HIDE DEF file
    <3>5. Mqtt!Added(s, file) = kept \/ Mqtt!Added(s, file) = Append(kept, file)
      BY DEF Mqtt!Added
    <3> HIDE DEF kept
    <3>6. Mqtt!Added(s, file) \in Seq(Shipped)
      BY <3>2, <3>4, <3>5
    <3>7. /\ file_queue' = [file_queue EXCEPT ![s] = Mqtt!Added(s, file)]
          /\ _artifact_id' = [_artifact_id EXCEPT ![s] = id]
      BY <2>2 DEF Mqtt!OnMessage, file
    <3> QED BY <3>1, <3>6, <3>7 DEF BridgeInv
  <2> QED BY <2>1, <2>2
<1>7. ASSUME NEW r \in Sides, NEW i \in DOMAIN inbox'[r]
      PROVE  \E k \in DOMAIN inbox[r] : inbox'[r][i] = inbox[r][k]
                                          /\ (k = i \/ (r = s /\ k = i + 1 /\ inbox'[s] # inbox[s]))
  <2>1. CASE inbox'[r] = inbox[r]
    BY <2>1
  <2>2. CASE inbox'[r] # inbox[r]
    <3>1. r = s
      BY <1>4, <2>2
    <3>2. i \in 1..(Len(inbox[s]) - 1) /\ inbox'[s][i] = inbox[s][i + 1]
      BY <1>4, <2>2, <3>1
    <3>3. i + 1 \in DOMAIN inbox[s]
      BY <1>1, <3>2
    <3> QED BY <2>2, <3>1, <3>2, <3>3
  <2> QED BY <2>1, <2>2
<1>8. \A r \in Sides : \A i \in DOMAIN inbox'[r] : inbox'[r][i].own =>
           \/ publishing'[r] # None /\ publishing'[r].message = inbox'[r][i].message
           \/ /\ Noted(_order'[r], inbox'[r][i].message)
              /\ publishing'[r] = None \/ MaxEchoes # 1
  <2> SUFFICES ASSUME NEW r \in Sides, NEW i \in DOMAIN inbox'[r], inbox'[r][i].own
               PROVE  \/ publishing'[r] # None /\ publishing'[r].message = inbox'[r][i].message
                      \/ /\ Noted(_order'[r], inbox'[r][i].message)
                         /\ publishing'[r] = None \/ MaxEchoes # 1
    OBVIOUS
  <2>1. PICK k \in DOMAIN inbox[r] : inbox'[r][i] = inbox[r][k]
    BY <1>7
  <2>2. \/ publishing[r] # None /\ publishing[r].message = inbox[r][k].message
        \/ /\ Noted(_order[r], inbox[r][k].message)
           /\ publishing[r] = None \/ MaxEchoes # 1
    BY <2>1 DEF BridgeInv
  <2> QED BY <1>1, <2>1, <2>2
<1>9. ASSUME MaxEchoes = 1, NEW r \in Sides, NEW i \in DOMAIN inbox'[r], NEW j \in DOMAIN inbox'[r],
             inbox'[r][i].own, inbox'[r][j].own
      PROVE  i = j
  <2>1. CASE inbox'[r] = inbox[r]
    BY <1>9, <2>1 DEF BridgeInv
  <2>2. CASE inbox'[r] # inbox[r]
    <3>1. r = s
      BY <1>4, <2>2
    <3>2. \A k \in DOMAIN inbox'[s] : k \in 1..(Len(inbox[s]) - 1) /\ inbox'[s][k] = inbox[s][k + 1]
      BY <1>4, <2>2, <3>1
    <3>3. /\ i + 1 \in DOMAIN inbox[s] /\ j + 1 \in DOMAIN inbox[s] /\ i \in Nat
          /\ j \in Nat
      BY <1>1, <1>9, <3>1, <3>2
    <3>4. i + 1 = j + 1
      BY <1>9, <3>1, <3>2, <3>3 DEF BridgeInv
    <3> QED BY <3>3, <3>4
  <2> QED BY <2>1, <2>2
<1> HIDE DEF heard
<1> QED BY <1>1, <1>4, <1>6, <1>8, <1>9 DEF BridgeInv

\* What takes or gives back a file, or comes of a client, a restart or a note.
LEMMA BridgeConfirm ==
    ASSUME Mqtt!BridgeAssumption, BridgeInv, NEW s \in Sides, Mqtt!ConfirmFile(s)
    PROVE  BridgeInv'
<1>1. /\ file_queue' = [file_queue EXCEPT ![s] = Mqtt!RemoveFirst(@, _borrowed[s])]
      /\ _borrowed' = [_borrowed EXCEPT ![s] = None]
      /\ UNCHANGED <<inbox, _artifact_id, _order, publishing>>
  BY DEF Mqtt!ConfirmFile
<1>2. PICK q : q = file_queue[s]
  OBVIOUS
<1>3. PICK x : x = _borrowed[s]
  OBVIOUS
<1>4. q \in Seq(Shipped)
  BY <1>2 DEF BridgeInv
<1>5. Mqtt!RemoveFirst(q, x) \in Seq(Shipped)
  <2>1. CASE \E i \in 1..Len(q) : q[i] = x
    <3> DEFINE I == {i \in 1..Len(q) : q[i] = x}
    <3>1. PICK p \in 1..Len(q) : p \in I /\ Mqtt!RemoveFirst(q, x) = Mqtt!RemoveAt(q, p)
      <4>1. Mqtt!SelectInSeq(q, LAMBDA v : v = x) = Mqtt!Min(I)
        BY <2>1 DEF Mqtt!SelectInSeq
      <4>2. I # {} /\ I \subseteq Nat
        BY <2>1
      <4>3. Mqtt!Min(I) \in I
        <5>1. PICK n \in I : \A m \in I : n <= m
          BY <4>2, LeastExists
        <5> QED BY <5>1 DEF Mqtt!Min
      <4> QED BY <2>1, <4>1, <4>3 DEF Mqtt!RemoveFirst
    <3>2. Mqtt!RemoveAt(q, p) \in Seq(Shipped)
      BY <1>4, <3>1 DEF Mqtt!RemoveAt
    <3> QED BY <3>1, <3>2
  <2>2. CASE ~\E i \in 1..Len(q) : q[i] = x
    BY <1>4, <2>2 DEF Mqtt!RemoveFirst
  <2> QED BY <2>1, <2>2
<1>6. file_queue' \in [Sides -> Seq(Shipped)]
  BY <1>1, <1>2, <1>3, <1>5 DEF BridgeInv
<1>7. _borrowed' \in [Sides -> Shipped \cup {None}]
  BY <1>1 DEF BridgeInv
<1> QED BY <1>1, <1>6, <1>7 DEF BridgeInv

LEMMA BridgePublish ==
    ASSUME Mqtt!BridgeAssumption, BridgeInv, NEW s \in Sides, Mqtt!Publish(s)
    PROVE  BridgeInv'
<1> DEFINE file == _borrowed[Other(s)]
           m == [message |-> file.message, own |-> TRUE]
<1>1. /\ file # None /\ publishing[s] = None
      /\ Mqtt!Cardinality({i \in DOMAIN inbox[s] : inbox[s][i].own}) < MaxEchoes
      /\ inbox' = [inbox EXCEPT ![s] = Append(@, m)]
      /\ publishing' = [publishing EXCEPT ![s] = file]
      /\ UNCHANGED <<file_queue, _artifact_id, _borrowed, _order>>
  BY DEF Mqtt!Publish, Mqtt!sourceVars, Mqtt!Echoes
<1>2. file \in Shipped /\ m \in [message : Messages, own : BOOLEAN]
  BY <1>1 DEF BridgeInv, Mqtt!BridgeAssumption, Shipped
<1>3. /\ inbox[s] \in Seq([message : Messages, own : BOOLEAN])
      /\ inbox'[s] = Append(inbox[s], m) /\ publishing'[s] = file
      /\ \A r \in Sides \ {s} : inbox'[r] = inbox[r] /\ publishing'[r] = publishing[r]
  BY <1>1 DEF BridgeInv
<1> HIDE DEF file, m
<1>4. /\ DOMAIN inbox[s] = 1..Len(inbox[s]) /\ Len(inbox[s]) \in Nat
      /\ DOMAIN inbox'[s] = 1..(Len(inbox[s]) + 1)
      /\ inbox'[s][Len(inbox[s]) + 1] = m
      /\ \A i \in DOMAIN inbox[s] : inbox'[s][i] = inbox[s][i]
  BY <1>2, <1>3
<1>5. /\ inbox' \in [Sides -> Seq([message : Messages, own : BOOLEAN])]
      /\ publishing' \in [Sides -> Shipped \cup {None}]
  <2>1. Append(inbox[s], m) \in Seq([message : Messages, own : BOOLEAN])
    BY <1>2, <1>3
  <2> QED BY <1>1, <1>2, <2>1 DEF BridgeInv
<1>6. MaxEchoes = 1 => \A i \in DOMAIN inbox[s] : ~inbox[s][i].own
  <2> DEFINE O == {i \in DOMAIN inbox[s] : inbox[s][i].own}
  <2>1. Mqtt!IsFiniteSet(1..Len(inbox[s])) /\ O \in SUBSET (1..Len(inbox[s]))
    BY <1>4, FS_Interval, BridgeSets
  <2>2. Mqtt!IsFiniteSet(O)
    BY <2>1, FS_Subset, BridgeSets
  <2>3. Mqtt!Cardinality(O) \in Nat /\ (Mqtt!Cardinality(O) = 0 <=> O = {})
    BY <2>2, FS_CardinalityType, FS_EmptySet, BridgeSets
  <2>4. MaxEchoes = 1 => Mqtt!Cardinality(O) = 0
    BY <1>1, <2>3
  <2> QED BY <2>3, <2>4
<1>7. m.own /\ m.message = file.message
  BY DEF m
<1>8. \A r \in Sides : \A i \in DOMAIN inbox'[r] : inbox'[r][i].own =>
           \/ publishing'[r] # None /\ publishing'[r].message = inbox'[r][i].message
           \/ /\ Noted(_order'[r], inbox'[r][i].message)
              /\ publishing'[r] = None \/ MaxEchoes # 1
  <2> SUFFICES ASSUME NEW r \in Sides, NEW i \in DOMAIN inbox'[r], inbox'[r][i].own
               PROVE  \/ publishing'[r] # None /\ publishing'[r].message = inbox'[r][i].message
                      \/ /\ Noted(_order'[r], inbox'[r][i].message)
                         /\ publishing'[r] = None \/ MaxEchoes # 1
    OBVIOUS
  <2>1. CASE r # s
    BY <1>1, <1>3, <2>1 DEF BridgeInv
  <2>2. CASE r = s /\ i = Len(inbox[s]) + 1
    BY <1>1, <1>3, <1>4, <1>7, <2>2
  <2>3. CASE r = s /\ i \in DOMAIN inbox[s]
    <3>1. inbox[s][i].own /\ inbox'[s][i] = inbox[s][i] /\ MaxEchoes # 1
      BY <1>4, <1>6, <2>3
    <3>2. Noted(_order[s], inbox[s][i].message)
      BY <1>1, <2>3, <3>1 DEF BridgeInv
    <3> QED BY <1>1, <2>3, <3>1, <3>2
  <2> QED BY <1>4, <2>1, <2>2, <2>3
<1>9. ASSUME MaxEchoes = 1, NEW r \in Sides, NEW i \in DOMAIN inbox'[r], NEW j \in DOMAIN inbox'[r],
             inbox'[r][i].own, inbox'[r][j].own
      PROVE  i = j
  <2>1. CASE r # s
    BY <1>3, <1>9, <2>1 DEF BridgeInv
  <2>2. CASE r = s
    <3>1. \A k \in DOMAIN inbox'[s] : inbox'[s][k].own => k = Len(inbox[s]) + 1
      BY <1>4, <1>6, <1>9
    <3> QED BY <1>9, <2>2, <3>1
  <2> QED BY <2>1, <2>2
<1> QED BY <1>1, <1>5, <1>8, <1>9 DEF BridgeInv

LEMMA BridgeNote ==
    ASSUME Mqtt!BridgeAssumption, BridgeInv, NEW s \in Sides, Mqtt!Note(s)
    PROVE  BridgeInv'
<1>1. PICK o : o = _order[s]
  OBVIOUS
<1>2. PICK m : m = publishing[s].message
  OBVIOUS
<1>3. /\ publishing[s] # None
      /\ _order' = [_order EXCEPT ![s] = Mqtt!Remembered(o, m)]
      /\ publishing' = [publishing EXCEPT ![s] = None]
      /\ UNCHANGED <<inbox, file_queue, _artifact_id, _borrowed>>
  BY <1>1, <1>2 DEF Mqtt!Note, Mqtt!sourceVars
<1>4. o \in Seq(Messages) /\ Once(o) /\ m \in Messages
  BY <1>1, <1>2, <1>3 DEF BridgeInv, Shipped
<1>5. /\ Mqtt!Remembered(o, m) \in Seq(Messages) /\ Once(Mqtt!Remembered(o, m))
      /\ Noted(Mqtt!Remembered(o, m), m)
      /\ MaxEchoes # 1 => \A x : Noted(o, x) => Noted(Mqtt!Remembered(o, m), x)
  BY <1>4, GuardNotes
<1>6. /\ _order'[s] = Mqtt!Remembered(o, m) /\ publishing'[s] = None
      /\ \A r \in Sides \ {s} : _order'[r] = _order[r] /\ publishing'[r] = publishing[r]
  BY <1>3 DEF BridgeInv
<1>7. /\ _order' \in [Sides -> Seq(Messages)] /\ publishing' \in [Sides -> Shipped \cup {None}]
      /\ \A r \in Sides : Once(_order'[r])
  BY <1>3, <1>5, <1>6 DEF BridgeInv
<1>8. ASSUME NEW r \in Sides, NEW i \in DOMAIN inbox[r], inbox[r][i].own
      PROVE  \/ publishing'[r] # None /\ publishing'[r].message = inbox[r][i].message
             \/ /\ Noted(_order'[r], inbox[r][i].message)
                /\ publishing'[r] = None \/ MaxEchoes # 1
  <2>1. CASE r # s
    BY <1>6, <1>8, <2>1 DEF BridgeInv
  <2>2. CASE r = s
    <3>1. inbox[s][i].message = m \/ (Noted(o, inbox[s][i].message) /\ MaxEchoes # 1)
      BY <1>1, <1>2, <1>3, <1>8, <2>2 DEF BridgeInv
    <3> QED BY <1>5, <1>6, <2>2, <3>1
  <2> QED BY <2>1, <2>2
<1> QED BY <1>3, <1>7, <1>8 DEF BridgeInv

LEMMA BridgeClient ==
    ASSUME Mqtt!BridgeAssumption, BridgeInv, NEW s \in Sides, NEW message \in Messages, Mqtt!ClientPublishes(s, message)
    PROVE  BridgeInv'
<1> DEFINE m == [message |-> message, own |-> FALSE]
<1>1. /\ inbox' = [inbox EXCEPT ![s] = Append(@, m)]
      /\ UNCHANGED <<file_queue, _artifact_id, _borrowed, _order, publishing>>
  BY DEF Mqtt!ClientPublishes, Mqtt!sourceVars
<1>2. m \in [message : Messages, own : BOOLEAN] /\ ~m.own
  OBVIOUS
<1> HIDE DEF m
<1>3. /\ inbox[s] \in Seq([message : Messages, own : BOOLEAN])
      /\ inbox'[s] = Append(inbox[s], m)
      /\ \A r \in Sides \ {s} : inbox'[r] = inbox[r]
  BY <1>1 DEF BridgeInv
<1>4. /\ DOMAIN inbox[s] = 1..Len(inbox[s]) /\ Len(inbox[s]) \in Nat
      /\ DOMAIN inbox'[s] = 1..(Len(inbox[s]) + 1)
      /\ inbox'[s][Len(inbox[s]) + 1] = m
      /\ \A i \in DOMAIN inbox[s] : inbox'[s][i] = inbox[s][i]
  BY <1>2, <1>3
<1>5. inbox' \in [Sides -> Seq([message : Messages, own : BOOLEAN])]
  <2>1. Append(inbox[s], m) \in Seq([message : Messages, own : BOOLEAN])
    BY <1>2, <1>3
  <2> QED BY <1>1, <2>1 DEF BridgeInv
<1>6. \A r \in Sides : \A i \in DOMAIN inbox'[r] :
         inbox'[r][i].own => i \in DOMAIN inbox[r] /\ inbox'[r][i] = inbox[r][i]
  BY <1>2, <1>3, <1>4
<1>7. \A r \in Sides : \A i \in DOMAIN inbox'[r] : inbox'[r][i].own =>
           \/ publishing'[r] # None /\ publishing'[r].message = inbox'[r][i].message
           \/ /\ Noted(_order'[r], inbox'[r][i].message)
              /\ publishing'[r] = None \/ MaxEchoes # 1
  <2> SUFFICES ASSUME NEW r \in Sides, NEW i \in DOMAIN inbox'[r], inbox'[r][i].own
               PROVE  \/ publishing'[r] # None /\ publishing'[r].message = inbox'[r][i].message
                      \/ /\ Noted(_order'[r], inbox'[r][i].message)
                         /\ publishing'[r] = None \/ MaxEchoes # 1
    OBVIOUS
  <2>1. i \in DOMAIN inbox[r] /\ inbox'[r][i] = inbox[r][i]
    BY <1>6
  <2>2. \/ publishing[r] # None /\ publishing[r].message = inbox[r][i].message
        \/ /\ Noted(_order[r], inbox[r][i].message)
           /\ publishing[r] = None \/ MaxEchoes # 1
    BY <2>1 DEF BridgeInv
  <2> QED BY <1>1, <2>1, <2>2
<1>8. MaxEchoes = 1 => \A r \in Sides : \A i, j \in DOMAIN inbox'[r] :
           inbox'[r][i].own /\ inbox'[r][j].own => i = j
  BY <1>6 DEF BridgeInv
<1> QED BY <1>1, <1>5, <1>7, <1>8 DEF BridgeInv

LEMMA BridgeKept ==
    ASSUME Mqtt!BridgeAssumption, BridgeInv, [Mqtt!Next]_(Mqtt!vars)
    PROVE  BridgeInv'
<1>1. ASSUME NEW s \in Sides, Mqtt!PeekFile(s) PROVE BridgeInv'
  <2>1. /\ _borrowed' = [_borrowed EXCEPT ![s] = Head(file_queue[s])] /\ file_queue[s] # <<>>
        /\ UNCHANGED <<inbox, file_queue, _artifact_id, _order, publishing>>
    BY <1>1 DEF Mqtt!PeekFile
  <2>2. _borrowed' \in [Sides -> Shipped \cup {None}]
    BY <2>1 DEF BridgeInv
  <2> QED BY <2>1, <2>2 DEF BridgeInv
<1>2. ASSUME NEW s \in Sides, Mqtt!Unconfirmed(s) PROVE BridgeInv'
  <2>1. /\ _borrowed' = [_borrowed EXCEPT ![s] = None]
        /\ UNCHANGED <<inbox, file_queue, _artifact_id, _order, publishing>>
    BY <1>2 DEF Mqtt!Unconfirmed
  <2>2. _borrowed' \in [Sides -> Shipped \cup {None}]
    BY <2>1 DEF BridgeInv
  <2> QED BY <2>1, <2>2 DEF BridgeInv
<1>3. ASSUME NEW s \in Sides, Mqtt!Restart(s) PROVE BridgeInv'
  <2>1. /\ inbox' = [inbox EXCEPT ![s] = <<>>] /\ file_queue' = [file_queue EXCEPT ![s] = <<>>]
        /\ _artifact_id' = [_artifact_id EXCEPT ![s] = 0]
        /\ _borrowed' = [_borrowed EXCEPT ![s] = None]
        /\ _order' = [_order EXCEPT ![s] = <<>>]
        /\ publishing' = [publishing EXCEPT ![s] = None]
    BY <1>3 DEF Mqtt!Restart
  <2>2. /\ inbox' \in [Sides -> Seq([message : Messages, own : BOOLEAN])]
        /\ file_queue' \in [Sides -> Seq(Shipped)]
        /\ _artifact_id' \in [Sides -> 0..(Wrap - 1)]
        /\ _borrowed' \in [Sides -> Shipped \cup {None}]
        /\ publishing' \in [Sides -> Shipped \cup {None}]
        /\ _order' \in [Sides -> Seq(Messages)]
    <3>1. 0 \in 0..(Wrap - 1)
      BY DEF Mqtt!BridgeAssumption
    <3> DEFINE M == [message : Messages, own : BOOLEAN]
    <3>2. <<>> \in Seq(M) /\ <<>> \in Seq(Shipped) /\ <<>> \in Seq(Messages)
      OBVIOUS
    <3>3. inbox' \in [Sides -> Seq(M)]
      BY <2>1, <3>2 DEF BridgeInv
    <3> HIDE DEF M
    <3>4. file_queue' \in [Sides -> Seq(Shipped)]
      BY <2>1, <3>2 DEF BridgeInv
    <3>5. /\ _artifact_id' \in [Sides -> 0..(Wrap - 1)]
          /\ _borrowed' \in [Sides -> Shipped \cup {None}]
          /\ publishing' \in [Sides -> Shipped \cup {None}]
      BY <2>1, <3>1 DEF BridgeInv
    <3>6. _order' \in [Sides -> Seq(Messages)]
      BY <2>1, <3>2 DEF BridgeInv
    <3> QED BY <3>3, <3>4, <3>5, <3>6 DEF M
  <2>3. \A r \in Sides : \/ r = s /\ inbox'[r] = <<>> /\ _order'[r] = <<>>
                         \/ inbox'[r] = inbox[r] /\ _order'[r] = _order[r]
                              /\ publishing'[r] = publishing[r]
    BY <2>1 DEF BridgeInv
  <2>4. \A r \in Sides : Once(_order'[r])
    <3>1. Once(<<>>)
      BY DEF Once
    <3> QED BY <2>3, <3>1 DEF BridgeInv
  <2>5. \A r \in Sides : \A i \in DOMAIN inbox'[r] :
            inbox'[r] = inbox[r] /\ _order'[r] = _order[r] /\ publishing'[r] = publishing[r]
    BY <2>3
  <2> QED BY <2>2, <2>4, <2>5 DEF BridgeInv
<1>4. CASE UNCHANGED Mqtt!vars
  BY <1>4 DEF BridgeInv, Mqtt!vars, Mqtt!sourceVars
<1> QED BY <1>1, <1>2, <1>3, <1>4, BridgeHeard, BridgeConfirm, BridgePublish,
   BridgeNote, BridgeClient DEF Mqtt!Next

\* No side ships back what came over the bridge.
THEOREM NothingSentBack ==
    ASSUME Mqtt!BridgeAssumption
    PROVE  Mqtt!Spec => []Mqtt!NeverSentBack
<1>1. Mqtt!Init => BridgeInv
  BY DEF Mqtt!Init, BridgeInv, Mqtt!BridgeAssumption, Once
<1>2. BridgeInv => Mqtt!NeverSentBack
  <2> SUFFICES ASSUME BridgeInv, NEW s \in Sides, NEW i \in DOMAIN file_queue[s]
               PROVE  ~file_queue[s][i].own
    BY DEF Mqtt!NeverSentBack
  <2>1. file_queue[s] \in Seq(Shipped)
    BY DEF BridgeInv
  <2>2. file_queue[s][i] \in Shipped
    BY <2>1
  <2>3. file_queue[s][i].own = FALSE
    BY <2>2 DEF Shipped
  <2> QED BY <2>3
<1> QED BY <1>1, <1>2, BridgeKept, PTL DEF Mqtt!Spec

-----------------------------------------------------------------------------
(* The bench tool.  A board is flashed in the step after the one that read *)
(* its key into the fleet folder, and nothing else erases one.             *)

BenchAssumption == None \notin Nat

\* update_hub_roster, whatever it makes of the rows: nothing shown here depends on
\* them.
RowsRewritten ==
    /\ Bench!Asked("rows") /\ Bench!Advance
    /\ files' = [files EXCEPT ![Bench!Here]["Nodes.json"] = run]
    /\ UNCHANGED <<path, silent, key, rf, running, registry, backups, plan, ports,
                   roster, ok, run, sound, bench_made, settled>>

BenchSpec == Bench!Init /\ [][Bench!Next \/ RowsRewritten]_(Bench!vars)

StepNames ==
    {"probe", "backup", "flash", "wait", "library", "LoRa.json", "Nodes.json", "root", "key",
     "main.py", "payload", "register", "verify", "start", "read", "rows"}

\* A board is backed up in the step before it is flashed.
BackedUpFirst(t) == \A i \in 2..Len(t) : t[i] = "flash" => t[i - 1] = "backup"

\* What is flashed next has no key that was not backed up.
SafeToFlash == Bench!Answers(port) # {} => key[Bench!Here] \in backups \cup {None}

BenchInv ==
    /\ bench_made \in Nat /\ DOMAIN key = Bench!Boards
    /\ steps \in Seq(StepNames) /\ BackedUpFirst(steps)
    /\ Bench!Step = "flash" => SafeToFlash
    /\ Bench!KeysKept

LEMMA OnPort ==
    ASSUME NEW x, Bench!Asked(x)
    PROVE  Bench!Step = x /\ Bench!Here \in Bench!Boards /\ Bench!Answers(port) # {}
<1>1. Bench!Step = x /\ Bench!Answers(port) # {}
  BY DEF Bench!Asked
<1>2. Bench!On(port) # {}
  BY <1>1 DEF Bench!Answers
<1>3. Bench!Here \in Bench!On(port)
  BY <1>2 DEF Bench!Here
<1> QED BY <1>1, <1>3 DEF Bench!On

LEMMA FlashSteps ==
    ASSUME NEW p
    PROVE  /\ Bench!Flash(p) \in Seq(StepNames) /\ BackedUpFirst(Bench!Flash(p))
           /\ Bench!Flash(p) # <<>> => Bench!Flash(p)[1] # "flash"
<1>1. CASE ~p.firmware
  BY <1>1 DEF Bench!Flash, BackedUpFirst
<1>2. CASE p.firmware
  <2>1. PICK f : f = Bench!Flash(p) /\ f = <<"backup", "flash", "wait">>
    BY <1>2 DEF Bench!Flash
  <2>2. f \in Seq(StepNames)
    BY <2>1 DEF StepNames
  <2>3. Len(f) = 3 /\ f[1] = "backup" /\ f[2] = "flash" /\ f[3] = "wait"
    BY <2>1
  <2>4. BackedUpFirst(f)
    BY <2>3 DEF BackedUpFirst
  <2> QED BY <2>1, <2>2, <2>3, <2>4
<1> QED BY <1>1, <1>2

LEMMA Joined ==
    ASSUME NEW S, NEW a \in Seq(S), NEW f \in Seq(S)
    PROVE  /\ a \o f \in Seq(S) /\ Len(a \o f) = Len(a) + Len(f)
           /\ \A i \in 1..Len(a) : (a \o f)[i] = a[i]
           /\ \A i \in Len(a) + 1 .. Len(a) + Len(f) : (a \o f)[i] = f[i - Len(a)]
OBVIOUS

LEMMA Laid ==
    ASSUME NEW t \in Seq(StepNames), \A i \in 1..Len(t) : t[i] # "flash",
           NEW f \in Seq(StepNames), BackedUpFirst(f), f # <<>> => f[1] # "flash"
    PROVE  LET a == <<"probe">> \o f \o t
           IN a \in Seq(StepNames) /\ a # <<>> /\ Head(a) # "flash" /\ BackedUpFirst(a)
<1> DEFINE b == <<"probe">> \o f
           a == b \o t
<1>1. b \in Seq(StepNames) /\ Len(b) >= 1 /\ b[1] = "probe" /\ Len(b) \in Nat
      /\ \A i \in 2..Len(b) : b[i] = "flash" => b[i - 1] = "backup"
  <2>1. PICK c : c = <<"probe">>
    OBVIOUS
  <2>2. c \in Seq(StepNames) /\ Len(c) = 1 /\ c[1] = "probe"
    BY <2>1 DEF StepNames
  <2>3. /\ c \o f \in Seq(StepNames) /\ Len(c \o f) = 1 + Len(f) /\ Len(f) \in Nat
        /\ \A i \in 1..1 : (c \o f)[i] = c[i]
        /\ \A i \in 2..1 + Len(f) : (c \o f)[i] = f[i - 1]
    <3>1. /\ c \o f \in Seq(StepNames) /\ Len(c \o f) = Len(c) + Len(f)
          /\ \A i \in 1..Len(c) : (c \o f)[i] = c[i]
          /\ \A i \in Len(c) + 1 .. Len(c) + Len(f) : (c \o f)[i] = f[i - Len(c)]
      BY <2>2, Joined
    <3>2. Len(c) = 1 /\ Len(f) \in Nat
      BY <2>2
    <3> QED BY <3>1, <3>2
  <2>4. b = c \o f
    BY <2>1
  <2> HIDE DEF b
  <2>5. ASSUME NEW i \in 2..Len(b), b[i] = "flash" PROVE b[i - 1] = "backup"
    <3>1. i - 1 \in 1..Len(f) /\ f[i - 1] = "flash"
      BY <2>3, <2>4, <2>5
    <3>2. i - 1 # 1
      BY <3>1
    <3>3. i - 1 \in 2..Len(f) /\ i - 1 \in 2..1 + Len(f)
      BY <2>3, <3>1, <3>2
    <3>4. f[(i - 1) - 1] = "backup"
      BY <3>1, <3>3 DEF BackedUpFirst
    <3> QED BY <2>3, <2>4, <3>3, <3>4
  <2> QED BY <2>2, <2>3, <2>4, <2>5
<1> HIDE DEF b
<1>2. /\ a \in Seq(StepNames) /\ Len(a) = Len(b) + Len(t) /\ Len(t) \in Nat
      /\ \A i \in 1..Len(b) : a[i] = b[i]
      /\ \A i \in Len(b) + 1 .. Len(b) + Len(t) : a[i] = t[i - Len(b)]
  BY <1>1
<1> HIDE DEF a
<1>3. a # <<>> /\ Head(a) = "probe"
  BY <1>1, <1>2
<1>4. ASSUME NEW i \in 2..Len(a), a[i] = "flash" PROVE a[i - 1] = "backup"
  <2>1. CASE i \in 2..Len(b)
    <3>1. i - 1 \in 1..Len(b) /\ i \in 1..Len(b)
      BY <1>1, <2>1
    <3> QED BY <1>1, <1>2, <1>4, <2>1, <3>1
  <2>2. CASE i \in Len(b) + 1 .. Len(b) + Len(t)
    <3>1. i - Len(b) \in 1..Len(t) /\ a[i] = t[i - Len(b)]
      BY <1>1, <1>2, <2>2
    <3> QED BY <1>4, <3>1
  <2> QED BY <1>1, <1>2, <2>1, <2>2
<1>5. BackedUpFirst(a)
  BY <1>4 DEF BackedUpFirst
<1> QED BY <1>2, <1>3, <1>5 DEF a, b

LEMMA StepsLaid ==
    ASSUME NEW p, NEW i
    PROVE  /\ Bench!StepsFor(p, i) \in Seq(StepNames) /\ Bench!StepsFor(p, i) # <<>>
           /\ Head(Bench!StepsFor(p, i)) # "flash" /\ BackedUpFirst(Bench!StepsFor(p, i))
<1>1. CASE i <= Len(p.edges)
  <2> DEFINE t == <<"library", "LoRa.json", "root", "key", "main.py", "payload", "register">>
  <2>1. t \in Seq(StepNames) /\ \A j \in 1..Len(t) : t[j] # "flash"
    <3> DEFINE S == {"library", "LoRa.json", "Nodes.json", "root", "key", "main.py", "payload",
                     "register"}
    <3>1. t \in Seq(S)
      OBVIOUS
    <3> HIDE DEF t
    <3>2. \A j \in 1..Len(t) : t[j] \in S
      BY <3>1
    <3>3. S \subseteq StepNames /\ "flash" \notin S
      BY DEF StepNames
    <3> HIDE DEF S
    <3> QED BY <3>1, <3>2, <3>3
  <2>2. Bench!StepsFor(p, i) = <<"probe">> \o Bench!Flash(p) \o t
    BY <1>1 DEF Bench!StepsFor
  <2> HIDE DEF t
  <2>3. PICK f \in Seq(StepNames) : /\ f = Bench!Flash(p) /\ BackedUpFirst(f)
                                    /\ f # <<>> => f[1] # "flash"
    BY FlashSteps
  <2> QED BY <2>1, <2>2, <2>3, Laid
<1>2. CASE ~(i <= Len(p.edges)) /\ i > Len(p.edges) + 1
  <2>1. Bench!StepsFor(p, i) = <<"verify", "start">>
    BY <1>2 DEF Bench!StepsFor
  <2> DEFINE u == Bench!StepsFor(p, i)
  <2> HIDE DEF u
  <2>2. u \in Seq(StepNames)
    BY <2>1 DEF u, StepNames
  <2>3. Len(u) = 2 /\ u # <<>> /\ u[1] # "flash" /\ u[2] # "flash"
    BY <2>1 DEF u
  <2>4. Head(u) = u[1]
    BY <2>2, <2>3
  <2>5. BackedUpFirst(u)
    BY <2>3 DEF BackedUpFirst
  <2> QED BY <2>2, <2>3, <2>4, <2>5 DEF u
<1>3. CASE ~(i <= Len(p.edges)) /\ ~(i > Len(p.edges) + 1) /\ p.mode = "extend"
  <2>1. Bench!StepsFor(p, i) = <<"read", "rows">>
    BY <1>3 DEF Bench!StepsFor
  <2> DEFINE u == Bench!StepsFor(p, i)
  <2> HIDE DEF u
  <2>2. u \in Seq(StepNames)
    BY <2>1 DEF u, StepNames
  <2>3. Len(u) = 2 /\ u # <<>> /\ u[1] # "flash" /\ u[2] # "flash"
    BY <2>1 DEF u
  <2>4. Head(u) = u[1]
    BY <2>2, <2>3
  <2>5. BackedUpFirst(u)
    BY <2>3 DEF BackedUpFirst
  <2> QED BY <2>2, <2>3, <2>4, <2>5 DEF u
<1>4. CASE ~(i <= Len(p.edges)) /\ ~(i > Len(p.edges) + 1) /\ p.mode # "extend"
  <2> DEFINE t == <<"library", "LoRa.json", "Nodes.json", "root", "key", "main.py">>
  <2>1. t \in Seq(StepNames) /\ \A j \in 1..Len(t) : t[j] # "flash"
    <3> DEFINE S == {"library", "LoRa.json", "Nodes.json", "root", "key", "main.py", "payload",
                     "register"}
    <3>1. t \in Seq(S)
      OBVIOUS
    <3> HIDE DEF t
    <3>2. \A j \in 1..Len(t) : t[j] \in S
      BY <3>1
    <3>3. S \subseteq StepNames /\ "flash" \notin S
      BY DEF StepNames
    <3> HIDE DEF S
    <3> QED BY <3>1, <3>2, <3>3
  <2>2. Bench!StepsFor(p, i) = <<"probe">> \o Bench!Flash(p) \o t
    BY <1>4 DEF Bench!StepsFor
  <2> HIDE DEF t
  <2>3. PICK f \in Seq(StepNames) : /\ f = Bench!Flash(p) /\ BackedUpFirst(f)
                                    /\ f # <<>> => f[1] # "flash"
    BY FlashSteps
  <2> QED BY <2>1, <2>2, <2>3, Laid
<1> QED BY <1>1, <1>2, <1>3, <1>4

\* Going on to the next step, or to the next board.
LEMMA NextStep ==
    ASSUME BenchInv, Bench!Step # "idle", steps' = Tail(steps)
    PROVE  steps' \in Seq(StepNames) /\ BackedUpFirst(steps') /\ (Bench!Step' = "flash" => Bench!Step = "backup")
<1>1. /\ steps \in Seq(StepNames) /\ steps # <<>> /\ BackedUpFirst(steps)
      /\ Bench!Step = steps[1]
  BY DEF BenchInv, Bench!Step
<1>2. /\ Tail(steps) \in Seq(StepNames) /\ Len(Tail(steps)) = Len(steps) - 1 /\ Len(steps) \in Nat
      /\ Len(steps) >= 1
      /\ \A i \in 1..Len(steps) - 1 : Tail(steps)[i] = steps[i + 1]
  BY <1>1
<1>3. PICK t : t = Tail(steps)
  OBVIOUS
<1>4. ASSUME NEW i \in 2..Len(t), t[i] = "flash" PROVE t[i - 1] = "backup"
  <2>1. /\ i + 1 \in 2..Len(steps) /\ steps[i + 1] = "flash"
        /\ i - 1 \in 1..Len(steps) - 1 /\ t[i - 1] = steps[(i - 1) + 1] /\ (i - 1) + 1 = i /\ (i + 1) - 1 = i
    BY <1>2, <1>3, <1>4
  <2>2. steps[(i + 1) - 1] = "backup"
    BY <1>1, <2>1 DEF BackedUpFirst
  <2> QED BY <2>1, <2>2
<1>5. BackedUpFirst(steps')
  BY <1>3, <1>4 DEF BackedUpFirst
<1>6. ASSUME Bench!Step' = "flash" PROVE Bench!Step = "backup"
  <2>1. t # <<>> /\ Head(t) = "flash"
    BY <1>3, <1>6 DEF Bench!Step
  <2>2. Len(t) >= 1 /\ t[1] = "flash"
    BY <1>2, <1>3, <2>1
  <2>3. 2 \in 2..Len(steps) /\ steps[2] = "flash" /\ 2 - 1 = 1
    BY <1>2, <1>3, <2>2
  <2> QED BY <1>1, <2>3 DEF BackedUpFirst
<1> QED BY <1>2, <1>5, <1>6

LEMMA Advanced ==
    ASSUME BenchInv, Bench!Step # "idle", Bench!Step # "backup", Bench!Advance
    PROVE  steps' \in Seq(StepNames) /\ BackedUpFirst(steps') /\ Bench!Step' # "flash"
<1>1. CASE steps' = Tail(steps)
  BY <1>1, NextStep
<1>2. CASE steps' = Bench!StepsFor(plan, at + 1)
  <2>1. PICK p : p = plan
    OBVIOUS
  <2>2. PICK i : i = at + 1
    OBVIOUS
  <2> QED BY <1>2, <2>1, <2>2, StepsLaid DEF Bench!Step
<1> QED BY <1>1, <1>2 DEF Bench!Advance

\* A step that leaves keys and backups alone and is not followed by a flash.
LEMMA KeysAlone ==
    ASSUME BenchInv, UNCHANGED <<key, backups, bench_made>>,
           steps' \in Seq(StepNames), BackedUpFirst(steps'), Bench!Step' # "flash"
    PROVE  BenchInv'
BY DEF BenchInv, Bench!KeysKept

\* One that erases the board at hand, if it may be flashed.
LEMMA KeyErased ==
    ASSUME BenchAssumption, BenchInv, Bench!Asked("flash"), key' = [key EXCEPT ![Bench!Here] = None],
           UNCHANGED <<backups, bench_made>>,
           steps' \in Seq(StepNames), BackedUpFirst(steps'), Bench!Step' # "flash"
    PROVE  BenchInv'
<1>1. /\ Bench!Step = "flash" /\ Bench!Here \in Bench!Boards
      /\ key[Bench!Here] \in backups \cup {None}
  BY OnPort DEF BenchInv, SafeToFlash
<1>2. \A k \in 1..bench_made : k # None
  BY DEF BenchAssumption, BenchInv
<1>3. ASSUME NEW k \in 1..bench_made PROVE k \in backups \/ \E b \in Bench!Boards : key'[b] = k
  <2>1. CASE k \in backups
    BY <2>1
  <2>2. CASE k \notin backups
    <3>1. PICK b \in Bench!Boards : key[b] = k
      BY <2>2 DEF BenchInv, Bench!KeysKept
    <3>2. b # Bench!Here
      BY <1>1, <1>2, <2>2, <3>1
    <3>3. key'[b] = k
      BY <3>1, <3>2 DEF BenchInv
    <3> QED BY <3>3
  <2> QED BY <2>1, <2>2
<1>4. Bench!KeysKept'
  BY <1>3 DEF Bench!KeysKept
<1>5. DOMAIN key' = Bench!Boards
  BY DEF BenchInv
<1> QED BY <1>4, <1>5 DEF BenchInv

LEMMA BenchKey ==
    ASSUME BenchAssumption, BenchInv, Bench!EnsureKey
    PROVE  BenchInv'
<1>1. /\ Bench!Step = "key" /\ Bench!Here \in Bench!Boards /\ Bench!Advance /\ UNCHANGED backups
      /\ bench_made' = (IF key[Bench!Here] = None THEN bench_made + 1 ELSE bench_made)
      /\ key' = (IF key[Bench!Here] = None THEN [key EXCEPT ![Bench!Here] = bench_made + 1] ELSE key)
  BY OnPort DEF Bench!EnsureKey, Bench!fleet
<1>2. /\ steps' \in Seq(StepNames) /\ BackedUpFirst(steps')
      /\ Bench!Step' # "flash"
  BY <1>1, Advanced
<1>3. CASE key[Bench!Here] # None
  BY <1>1, <1>2, <1>3, KeysAlone
<1>4. CASE key[Bench!Here] = None
  <2>1. PICK h \in Bench!Boards : h = Bench!Here
    BY <1>1
  <2>2. bench_made \in Nat /\ bench_made' = bench_made + 1 /\ key' = [key EXCEPT ![h] = bench_made + 1] /\ key[h] = None
        /\ DOMAIN key = Bench!Boards
    BY <1>1, <1>4, <2>1 DEF BenchInv
  <2>3. key'[h] = bench_made' /\ DOMAIN key' = Bench!Boards /\ \A b \in Bench!Boards \ {h} : key'[b] = key[b]
    BY <2>2
  <2>4. ASSUME NEW k \in 1..bench_made' PROVE k \in backups \/ \E b \in Bench!Boards : key'[b] = k
    <3>1. CASE k = bench_made'
      BY <2>3, <3>1
    <3>2. CASE k # bench_made'
      <4>1. k \in 1..bench_made /\ k # None
        BY <2>2, <3>2 DEF BenchAssumption
      <4>2. CASE k \in backups
        BY <4>2
      <4>3. CASE k \notin backups
        <5>1. PICK b \in Bench!Boards : key[b] = k
          BY <4>1, <4>3 DEF BenchInv, Bench!KeysKept
        <5>2. key'[b] = k
          BY <2>2, <2>3, <4>1, <5>1
        <5> QED BY <5>2
      <4> QED BY <4>2, <4>3
    <3> QED BY <3>1, <3>2
  <2>5. Bench!KeysKept'
    BY <1>1, <2>4 DEF Bench!KeysKept
  <2> QED BY <1>2, <2>2, <2>3, <2>5 DEF BenchInv
<1> QED BY <1>3, <1>4

LEMMA BenchBackUp ==
    ASSUME BenchInv, Bench!BackUp
    PROVE  BenchInv'
<1>1. /\ Bench!Step = "backup" /\ steps' = Tail(steps) /\ backups' \in Bench!BackedUp(key[Bench!Here])
      /\ UNCHANGED <<path, silent, key, bench_made, port>>
  BY OnPort DEF Bench!BackUp, Bench!desk, Bench!contents, Bench!hand
<1>2. steps' \in Seq(StepNames) /\ BackedUpFirst(steps')
  BY <1>1, NextStep
<1>3. backups \subseteq backups' /\ key[Bench!Here] \in backups' \cup {None}
  BY <1>1 DEF Bench!BackedUp
<1>4. SafeToFlash'
  BY <1>1, <1>3 DEF SafeToFlash, Bench!Here, Bench!On, Bench!Answers
<1>5. Bench!KeysKept'
  BY <1>1, <1>3 DEF Bench!KeysKept, BenchInv
<1> QED BY <1>1, <1>2, <1>4, <1>5 DEF BenchInv

LEMMA BenchFail ==
    ASSUME BenchAssumption, BenchInv, Bench!Fail
    PROVE  BenchInv'
<1>1. steps' = <<"start">> /\ UNCHANGED <<backups, bench_made>>
  BY DEF Bench!Fail, Bench!fleet
<1>2. /\ steps' \in Seq(StepNames) /\ BackedUpFirst(steps')
      /\ Bench!Step' # "flash"
  <2>1. steps' \in Seq(StepNames)
    BY <1>1 DEF StepNames
  <2>2. Len(steps') = 1 /\ steps' # <<>> /\ Head(steps') = "start"
    BY <1>1
  <2> QED BY <2>1, <2>2 DEF BackedUpFirst, Bench!Step
<1>3. CASE UNCHANGED key
  BY <1>1, <1>2, <1>3, KeysAlone
<1>4. CASE Bench!Asked("flash") /\ Bench!Erased(Bench!Here)
  BY <1>1, <1>2, <1>4, KeyErased DEF Bench!Erased
<1> QED BY <1>3, <1>4 DEF Bench!Fail, Bench!contents

LEMMA BenchPhase ==
    ASSUME BenchAssumption, BenchInv, Bench!Phase
    PROVE  BenchInv'
<1>1. CASE Bench!Probe
  <2>1. /\ Bench!Step = "probe" /\ steps' = Tail(steps) /\ UNCHANGED <<key, backups, bench_made>>
    BY <1>1, OnPort DEF Bench!Probe, Bench!contents, Bench!fleet
  <2> QED BY <2>1, NextStep, KeysAlone
<1>2. CASE Bench!FlashIt
  <2>1. /\ Bench!Step = "flash" /\ steps' = Tail(steps) /\ key' = [key EXCEPT ![Bench!Here] = None]
        /\ UNCHANGED <<backups, bench_made>> /\ Bench!Asked("flash")
    BY <1>2, OnPort DEF Bench!FlashIt, Bench!fleet, Bench!Erased
  <2> QED BY <2>1, NextStep, KeyErased
<1>3. CASE Bench!WaitForBoard
  <2>1. /\ Bench!Step = "wait" /\ steps' = Tail(steps) /\ UNCHANGED <<key, backups, bench_made>>
    BY <1>3 DEF Bench!WaitForBoard, Bench!contents, Bench!fleet
  <2> QED BY <2>1, NextStep, KeysAlone
<1>4. CASE Bench!ReadRoster
  <2>1. /\ Bench!Step = "read" /\ steps' = Tail(steps) /\ UNCHANGED <<key, backups, bench_made>>
    BY <1>4, OnPort DEF Bench!ReadRoster, Bench!contents, Bench!fleet
  <2> QED BY <2>1, NextStep, KeysAlone
<1>5. ASSUME \/ Bench!Register \/ Bench!WriteRoster \/ Bench!ExtendRoster
             \/ \E x \in {"library", "payload"} : Bench!NoChange(x)
             \/ \E f \in Bench!Files : Bench!WriteFile(f)
      PROVE  BenchInv'
  <2>1. PICK x \in Bench!Files \cup {"register", "Nodes.json", "rows", "library", "payload"} :
           Bench!Asked(x) /\ Bench!Advance /\ UNCHANGED <<key, backups, bench_made>>
    BY <1>5 DEF Bench!Register, Bench!WriteRoster, Bench!ExtendRoster,
       Bench!NoChange, Bench!WriteFile, Bench!contents, Bench!fleet
  <2>2. Bench!Step # "idle" /\ Bench!Step # "backup"
    BY <2>1, OnPort DEF Bench!Files
  <2> QED BY <2>1, <2>2, Advanced, KeysAlone
<1> QED BY <1>1, <1>2, <1>3, <1>4, <1>5, BenchKey, BenchBackUp DEF Bench!Phase

LEMMA BenchKept ==
    ASSUME BenchAssumption, BenchInv, [Bench!Next \/ RowsRewritten]_(Bench!vars)
    PROVE  BenchInv'
<1>1. ASSUME NEW p \in Plans, NEW away, Bench!BeginRun(p, away) PROVE BenchInv'
  <2>1. steps' = Bench!StepsFor(p, 1) /\ UNCHANGED <<key, backups, bench_made>>
    BY <1>1 DEF Bench!BeginRun, Bench!contents, Bench!fleet
  <2>2. /\ steps' \in Seq(StepNames) /\ BackedUpFirst(steps')
        /\ Bench!Step' # "flash"
    BY <2>1, StepsLaid DEF Bench!Step
  <2> QED BY <2>1, <2>2, KeysAlone
<1>2. CASE Bench!Verify
  <2>1. /\ Bench!Step = "verify" /\ steps' = Tail(steps)
        /\ UNCHANGED <<key, backups, bench_made>>
    BY <1>2 DEF Bench!Verify, Bench!contents, Bench!fleet
  <2> QED BY <2>1, NextStep, KeysAlone
<1>3. CASE Bench!Start
  <2>1. steps' = <<>> /\ UNCHANGED <<key, backups, bench_made>>
    BY <1>3 DEF Bench!Start, Bench!contents, Bench!fleet
  <2>2. /\ steps' \in Seq(StepNames) /\ BackedUpFirst(steps')
        /\ Bench!Step' # "flash"
    BY <2>1 DEF BackedUpFirst, Bench!Step
  <2> QED BY <2>1, <2>2, KeysAlone
<1>4. ASSUME NEW b, NEW p, Bench!Returns(b, p) PROVE BenchInv'
  <2>1. Bench!Step # "flash" /\ UNCHANGED <<key, backups, bench_made, steps>>
    BY <1>4 DEF Bench!Returns, Bench!contents, Bench!fleet
  <2>2. Bench!Step' # "flash"
    BY <2>1 DEF Bench!Step
  <2>3. steps' \in Seq(StepNames) /\ BackedUpFirst(steps')
    BY <2>1 DEF BenchInv
  <2> QED BY <2>1, <2>2, <2>3, KeysAlone
<1>5. ASSUME (\E i, c : Bench!Settle(i, c)) \/ UNCHANGED Bench!vars PROVE BenchInv'
  <2>1. UNCHANGED <<path, silent, key, backups, bench_made, steps, port>>
    BY <1>5 DEF Bench!Settle, Bench!desk, Bench!fleet, Bench!hand, Bench!vars,
       Bench!contents
  <2>2. SafeToFlash' <=> SafeToFlash
    BY <2>1 DEF SafeToFlash, Bench!Here, Bench!On, Bench!Answers
  <2>3. Bench!KeysKept' <=> Bench!KeysKept
    BY <2>1 DEF Bench!KeysKept
  <2> QED BY <2>1, <2>2, <2>3 DEF BenchInv, Bench!Step
<1>6. CASE RowsRewritten
  <2>1. /\ Bench!Asked("rows") /\ Bench!Advance
        /\ UNCHANGED <<key, backups, bench_made>>
    BY <1>6 DEF RowsRewritten
  <2>2. Bench!Step # "idle" /\ Bench!Step # "backup"
    BY <2>1, OnPort
  <2> QED BY <2>1, <2>2, Advanced, KeysAlone
<1> QED BY <1>1, <1>2, <1>3, <1>4, <1>5, <1>6, BenchPhase, BenchFail
   DEF Bench!Next, Bench!Field

\* Every identity made is on its board or in the fleet folder: whichever step
\* fails or is interrupted, and however often a plan is run again.
THEOREM IdentitiesKept ==
    ASSUME BenchAssumption
    PROVE  BenchSpec => []Bench!KeysKept
<1>1. Bench!Init => BenchInv
  BY DEF Bench!Init, BenchInv, Bench!KeysKept, BackedUpFirst, Bench!Step
<1>2. BenchInv => Bench!KeysKept
  BY DEF BenchInv
<1> QED BY <1>1, <1>2, BenchKept, PTL DEF BenchSpec

-----------------------------------------------------------------------------
(* Which boards a run starts.  A board not reached is where it answered    *)
(* and as it was, on a port no other board takes; the board at hand is on  *)
(* a port not finished, and what a board must be given is written or still *)
(* to be written (OfRun).                                                  *)

In(f, t) == \E i \in 1..Len(t) : t[i] = f

\* All of N is written after the board was flashed and found again.
Left(t, N) ==
    \A i \in 1..Len(t) : t[i] \in {"flash", "wait"} =>
        \A f \in N : \E j \in i + 1..Len(t) : t[j] = f

\* What is done to one board.
Phases ==
    {"probe", "backup", "flash", "wait", "library", "LoRa.json", "Nodes.json", "root", "key",
     "main.py", "payload", "register"}

Apart == \A b, c \in Bench!Boards : path[b] = path[c] /\ path[b] # None => b = c
Unreached == {u \in Bench!Boards \ Bench!Reached : ports[u] # None}
Extending == at = Len(plan.edges) + 1 /\ plan.mode = "extend"
Due == IF at <= Len(plan.edges) THEN Bench!Files ELSE Bench!Stored
Written(f) == \E b \in Bench!Answers(port) : files[b][f] = run

\* The port of the board at hand is its own.
OwnPort ==
    /\ port \in Ports \ finished
    /\ \A u \in Unreached : ports[u] # port
    /\ expected # None => expected \in Bench!Boards \ Unreached /\ path[expected] \notin finished

\* An extension leaves the files of its Hub alone, but for the roster.
HubAtHand ==
    /\ steps \in {<<"read", "rows">>, <<"rows">>}
    /\ path[HubBoard] = port /\ HubBoard \notin silent
    /\ HubBoard \in sound => Bench!Whole(HubBoard)

BoardAtHand ==
    /\ steps \in Seq(Phases) /\ Left(steps, Due)
    /\ \A f \in Due : In(f, steps) \/ Written(f)

AtHand ==
    /\ at <= Len(plan.edges) + 1 /\ OwnPort
    /\ IF Extending THEN HubAtHand ELSE BoardAtHand

PlanStands ==
    /\ plan \in Plans /\ at \in Nat \ {0}
    /\ \A i \in DOMAIN Bench!Order(plan) :
           path[Bench!Order(plan)[i]] # None /\ ports[Bench!Order(plan)[i]] # None
    /\ ports \in [Bench!Boards -> Ports \cup {None}]
    /\ \A b, c \in Bench!Boards : ports[b] = ports[c] /\ ports[b] # None => b = c

LeftAlone ==
    \A u \in Unreached : /\ path[u] = ports[u] /\ u \notin silent /\ ports[u] \notin finished
                         /\ u \in sound => Bench!Whole(u)

FinishedWhole ==
    /\ \A b \in sound \ silent : path[b] \in finished => Bench!Whole(b)
    /\ \A p \in finished : p \in Ports /\ Bench!Answers(p) # {}

OfRun ==
    /\ PlanStands /\ LeftAlone /\ FinishedWhole
    /\ steps \in {<<"verify", "start">>, <<"start">>} \/ AtHand

DeskTypes ==
    /\ run \in Nat /\ path \in [Bench!Boards -> Ports \cup {None}]
    /\ silent \subseteq Bench!Boards /\ sound \subseteq Bench!Boards
    /\ files \in [Bench!Boards -> [Bench!Stored -> Nat \cup {None}]]

DeskInv == DeskTypes /\ Apart /\ (steps # <<>> => OfRun)

LEMMA TailLeft ==
    ASSUME NEW S, NEW t \in Seq(S), t # <<>>, NEW N, Left(t, N)
    PROVE  /\ Tail(t) \in Seq(S) /\ Left(Tail(t), N) /\ Head(t) \in S
           /\ \A f : In(f, t) => f = Head(t) \/ In(f, Tail(t))
           /\ Head(t) \in {"flash", "wait"} => \A f \in N : In(f, Tail(t))
<1>1. /\ Tail(t) \in Seq(S) /\ Len(Tail(t)) = Len(t) - 1 /\ Len(t) \in Nat \ {0}
      /\ Head(t) = t[1] /\ Head(t) \in S
      /\ \A i \in 1..Len(t) - 1 : Tail(t)[i] = t[i + 1]
  OBVIOUS
<1>2. PICK u : u = Tail(t)
  OBVIOUS
<1>3. Left(u, N)
  <2> SUFFICES ASSUME NEW i \in 1..Len(u), u[i] \in {"flash", "wait"}, NEW f \in N
               PROVE  \E j \in i + 1..Len(u) : u[j] = f
    BY DEF Left
  <2>1. i + 1 \in 1..Len(t) /\ t[i + 1] \in {"flash", "wait"}
    BY <1>1, <1>2
  <2>2. PICK j \in (i + 1) + 1..Len(t) : t[j] = f
    BY <2>1 DEF Left
  <2>3. j - 1 \in i + 1..Len(u) /\ j - 1 \in 1..Len(t) - 1 /\ (j - 1) + 1 = j
    BY <1>1, <1>2, <2>2
  <2>4. u[j - 1] = f
    BY <1>1, <1>2, <2>2, <2>3
  <2> QED BY <2>3, <2>4
<1>4. ASSUME NEW f, NEW j \in 2..Len(t), t[j] = f PROVE In(f, u)
  <2>1. j - 1 \in 1..Len(u) /\ j - 1 \in 1..Len(t) - 1 /\ (j - 1) + 1 = j
    BY <1>1, <1>2
  <2>2. u[j - 1] = f
    BY <1>1, <1>2, <1>4, <2>1
  <2> QED BY <2>1, <2>2 DEF In
<1>5. ASSUME NEW f, In(f, t) PROVE f = Head(t) \/ In(f, u)
  <2>1. PICK j \in 1..Len(t) : t[j] = f
    BY <1>5 DEF In
  <2>2. CASE j = 1
    BY <1>1, <2>1, <2>2
  <2>3. CASE j # 1
    <3>1. j \in 2..Len(t)
      BY <1>1, <2>3
    <3> QED BY <1>4, <2>1, <3>1
  <2> QED BY <2>2, <2>3
<1>6. ASSUME Head(t) \in {"flash", "wait"}, NEW f \in N PROVE In(f, u)
  <2>1. 1 \in 1..Len(t) /\ t[1] \in {"flash", "wait"}
    BY <1>1, <1>6
  <2>2. PICK j \in 1 + 1..Len(t) : t[j] = f
    BY <2>1 DEF Left
  <2> QED BY <1>4, <2>2
<1> QED BY <1>1, <1>2, <1>3, <1>5, <1>6

\* Steps that write all of N, after others.
LEMMA WrittenAfter ==
    ASSUME NEW S, NEW b \in Seq(S), NEW t \in Seq(S), NEW N, \A f \in N : In(f, t),
           \A i \in 1..Len(t) : t[i] \notin {"flash", "wait"}
    PROVE  b \o t \in Seq(S) /\ Left(b \o t, N) /\ \A f \in N : In(f, b \o t)
<1>1. PICK a : a = b \o t
  OBVIOUS
<1>2. /\ a \in Seq(S) /\ Len(a) = Len(b) + Len(t) /\ Len(b) \in Nat /\ Len(t) \in Nat
      /\ \A i \in 1..Len(b) : a[i] = b[i]
      /\ \A i \in Len(b) + 1 .. Len(b) + Len(t) : a[i] = t[i - Len(b)]
  BY <1>1
<1>3. ASSUME NEW f \in N PROVE \E j \in Len(b) + 1 .. Len(a) : a[j] = f
  <2>1. PICK j \in 1..Len(t) : t[j] = f
    BY <1>3 DEF In
  <2>2. Len(b) + j \in Len(b) + 1 .. Len(b) + Len(t) /\ (Len(b) + j) - Len(b) = j
    BY <1>2, <2>1
  <2>3. a[Len(b) + j] = f
    BY <1>2, <2>1, <2>2
  <2> QED BY <1>2, <2>2, <2>3
<1>4. Left(a, N)
  <2> SUFFICES ASSUME NEW i \in 1..Len(a), a[i] \in {"flash", "wait"}, NEW f \in N
               PROVE  \E j \in i + 1..Len(a) : a[j] = f
    BY DEF Left
  <2>1. i <= Len(b)
    <3> SUFFICES ASSUME i > Len(b) PROVE FALSE
      BY <1>2
    <3>1. i \in Len(b) + 1 .. Len(b) + Len(t) /\ i - Len(b) \in 1..Len(t)
      BY <1>2
    <3> QED BY <1>2, <3>1
  <2>2. PICK j \in Len(b) + 1 .. Len(a) : a[j] = f
    BY <1>3
  <2> QED BY <1>2, <2>1, <2>2
<1>5. ASSUME NEW f \in N PROVE In(f, a)
  <2>1. PICK j \in Len(b) + 1 .. Len(a) : a[j] = f
    BY <1>3
  <2>2. j \in 1..Len(a)
    BY <1>2, <2>1
  <2> QED BY <2>1, <2>2 DEF In
<1> QED BY <1>1, <1>2, <1>4, <1>5

LEMMA Prepared ==
    ASSUME NEW p, NEW i \in Nat, Len(p.edges) \in Nat, i <= Len(p.edges) + 1,
           ~(i = Len(p.edges) + 1 /\ p.mode = "extend"),
           NEW N, N = IF i <= Len(p.edges) THEN Bench!Files ELSE Bench!Stored
    PROVE  /\ Bench!StepsFor(p, i) \in Seq(Phases) /\ Left(Bench!StepsFor(p, i), N)
           /\ \A f \in N : In(f, Bench!StepsFor(p, i))
<1>1. <<"probe">> \o Bench!Flash(p) \in Seq(Phases)
  <2>1. PICK f : f = Bench!Flash(p)
    OBVIOUS
  <2>2. f \in Seq(Phases)
    <3>1. CASE p.firmware
      BY <2>1, <3>1 DEF Bench!Flash, Phases
    <3>2. CASE ~p.firmware
      BY <2>1, <3>2 DEF Bench!Flash
    <3> QED BY <3>1, <3>2
  <2>3. <<"probe">> \in Seq(Phases)
    BY DEF Phases
  <2> QED BY <2>1, <2>2, <2>3, ConcatProperties
<1>2. CASE i <= Len(p.edges)
  <2>1. PICK t : t = <<"library", "LoRa.json", "root", "key", "main.py", "payload", "register">>
    OBVIOUS
  <2>2. t \in Seq(Phases \ {"flash", "wait"}) /\ t \in Seq(Phases)
    BY <2>1 DEF Phases
  <2>3. Len(t) = 7 /\ t[2] = "LoRa.json" /\ t[3] = "root" /\ t[5] = "main.py"
    BY <2>1
  <2>4. \A f \in N : In(f, t)
    BY <1>2, <2>3 DEF In, Bench!Files
  <2>5. \A j \in 1..Len(t) : t[j] \notin {"flash", "wait"}
    BY <2>2
  <2>6. Bench!StepsFor(p, i) = <<"probe">> \o Bench!Flash(p) \o t
    BY <1>2, <2>1 DEF Bench!StepsFor
  <2> QED BY <1>1, <2>2, <2>4, <2>5, <2>6, WrittenAfter
<1>3. CASE ~(i <= Len(p.edges))
  <2>1. PICK t : t = <<"library", "LoRa.json", "Nodes.json", "root", "key", "main.py">>
    OBVIOUS
  <2>2. t \in Seq(Phases \ {"flash", "wait"}) /\ t \in Seq(Phases)
    BY <2>1 DEF Phases
  <2>3. Len(t) = 6 /\ t[2] = "LoRa.json" /\ t[3] = "Nodes.json" /\ t[4] = "root" /\ t[6] = "main.py"
    BY <2>1
  <2>4. \A f \in N : In(f, t)
    BY <1>3, <2>3 DEF In, Bench!Files, Bench!Stored
  <2>5. \A j \in 1..Len(t) : t[j] \notin {"flash", "wait"}
    BY <2>2
  <2>6. ~(i > Len(p.edges) + 1) /\ p.mode # "extend"
    BY <1>3
  <2>7. Bench!StepsFor(p, i) = <<"probe">> \o Bench!Flash(p) \o t
    BY <1>3, <2>1, <2>6 DEF Bench!StepsFor
  <2> QED BY <1>1, <2>2, <2>4, <2>5, <2>7, WrittenAfter
<1> QED BY <1>2, <1>3

LEMMA OrderOf ==
    ASSUME Bench!DeskAssumption, NEW p \in Plans
    PROVE  /\ Len(p.edges) \in Nat \ {0} /\ p.edges \in Seq(Edges)
           /\ DOMAIN Bench!Order(p) = 1..Len(p.edges) + 1 /\ Len(Bench!Order(p)) = Len(p.edges) + 1
           /\ \A i \in 1..Len(p.edges) : Bench!Order(p)[i] = p.edges[i]
           /\ Bench!Order(p)[Len(p.edges) + 1] = HubBoard
           /\ \A i \in 1..Len(p.edges) + 1 : Bench!Order(p)[i] \in Bench!Boards
           /\ \A i, j \in 1..Len(p.edges) + 1 : Bench!Order(p)[i] = Bench!Order(p)[j] => i = j
<1>1. PICK e \in Seq(Edges) : /\ e = p.edges /\ e # <<>> /\ HubBoard \notin Edges
                              /\ \A i, j \in DOMAIN e : e[i] = e[j] => i = j
  BY DEF Bench!DeskAssumption
<1>2. PICK o : o = Append(e, HubBoard)
  OBVIOUS
<1>3. /\ Len(e) \in Nat \ {0} /\ DOMAIN e = 1..Len(e) /\ DOMAIN o = 1..Len(e) + 1 /\ Len(o) = Len(e) + 1
      /\ \A i \in 1..Len(e) : o[i] = e[i] /\ e[i] \in Edges
      /\ o[Len(e) + 1] = HubBoard
  BY <1>1, <1>2
<1>4. \A i \in 1..Len(e) + 1 : i \in 1..Len(e) \/ i = Len(e) + 1
  BY <1>3
<1>5. \A i \in 1..Len(e) + 1 : o[i] \in Bench!Boards
  BY <1>3, <1>4 DEF Bench!Boards
<1>6. \A i, j \in 1..Len(e) + 1 : o[i] = o[j] => i = j
  BY <1>1, <1>3, <1>4
<1> QED BY <1>1, <1>2, <1>3, <1>5, <1>6 DEF Bench!Order

\* Who is asked is at hand, and nobody else is there.
LEMMA AtHandAlone ==
    ASSUME Bench!DeskAssumption, DeskInv, NEW x, Bench!Asked(x), x \notin {"idle", "verify", "start"}
    PROVE  /\ OfRun /\ AtHand /\ steps # <<>> /\ Head(steps) = x
           /\ Bench!Here \in Bench!Boards \ (silent \cup Unreached) /\ path[Bench!Here] = port
           /\ \A b \in Bench!Boards : path[b] = port => b = Bench!Here
           /\ port \notin finished
<1>1. Bench!Step = x /\ Bench!Here \in Bench!Boards /\ Bench!Answers(port) # {}
  BY OnPort
<1>2. steps # <<>> /\ Head(steps) = x
  BY <1>1 DEF Bench!Step
<1>3. OfRun /\ AtHand
  BY <1>2 DEF DeskInv, OfRun
<1>4. port \in Ports \ finished /\ port # None /\ \A u \in Unreached : ports[u] # port
  BY <1>3 DEF AtHand, OwnPort, Bench!DeskAssumption
<1>5. PICK c \in Bench!Boards : path[c] = port /\ c \notin silent
  BY <1>1 DEF Bench!Answers, Bench!On
<1>6. \A b \in Bench!Boards : path[b] = port => b = c
  BY <1>4, <1>5 DEF DeskInv, Apart
<1>7. Bench!Here = c
  <2>1. c \in Bench!On(port)
    BY <1>5 DEF Bench!On
  <2>2. Bench!Here \in Bench!On(port)
    BY <2>1 DEF Bench!Here
  <2> QED BY <1>6, <2>2 DEF Bench!On
<1>8. c \notin Unreached
  BY <1>3, <1>4, <1>5 DEF OfRun, LeftAlone
<1> QED BY <1>2, <1>3, <1>4, <1>5, <1>6, <1>7, <1>8

\* What a step may do to boards: to those reached, and not on a finished port.
Spares(b) == files'[b] = files[b] /\ (b \in silent' <=> b \in silent)

LEMMA SameWhole ==
    ASSUME NEW b, files'[b] = files[b], UNCHANGED run
    PROVE  Bench!Whole(b)' <=> Bench!Whole(b)
BY DEF Bench!Whole

LEMMA OthersStand ==
    ASSUME DeskInv, OfRun, UNCHANGED <<path, plan, ports, run, sound, at, finished>>,
           \A b \in Bench!Boards : (b \notin Unreached /\ path[b] \notin finished) \/ Spares(b)
    PROVE  PlanStands' /\ LeftAlone' /\ FinishedWhole' /\ Apart' /\ Unreached' = Unreached
<1>1. PlanStands' /\ Apart'
  BY DEF OfRun, DeskInv, PlanStands, Apart, Bench!Order
<1>2. Unreached' = Unreached
  BY DEF Unreached, Bench!Reached, Bench!Order
<1>3. ASSUME NEW u \in Unreached
      PROVE  path'[u] = ports'[u] /\ u \notin silent' /\ ports'[u] \notin finished'
             /\ (u \in sound' => Bench!Whole(u)')
  <2>1. Spares(u)
    BY <1>3 DEF Unreached
  <2>2. path[u] = ports[u] /\ u \notin silent /\ ports[u] \notin finished /\ (u \in sound => Bench!Whole(u))
    BY <1>3 DEF OfRun, LeftAlone
  <2> QED BY <2>1, <2>2, SameWhole DEF Spares
<1>4. ASSUME NEW b \in sound' \ silent', path'[b] \in finished' PROVE Bench!Whole(b)'
  <2>1. b \in Bench!Boards /\ Spares(b)
    BY <1>4 DEF DeskInv, DeskTypes
  <2>2. Bench!Whole(b)
    BY <1>4, <2>1 DEF Spares, OfRun, FinishedWhole
  <2> QED BY <2>1, <2>2, SameWhole DEF Spares
<1>5. ASSUME NEW p \in finished' PROVE p \in Ports /\ Bench!Answers(p)' # {}
  <2>1. p \in Ports /\ Bench!Answers(p) # {}
    BY <1>5 DEF OfRun, FinishedWhole
  <2>2. PICK c \in Bench!Boards : path[c] = p /\ c \notin silent
    BY <2>1 DEF Bench!Answers, Bench!On
  <2>3. Spares(c)
    BY <1>5, <2>2
  <2> QED BY <2>1, <2>2, <2>3 DEF Spares, Bench!Answers, Bench!On
<1> QED BY <1>1, <1>2, <1>3, <1>4, <1>5 DEF LeftAlone, FinishedWhole

\* The next step of the same board: what its head was to write is written.
LEMMA NextOfBoard ==
    ASSUME AtHand, ~Extending, steps # <<>>, steps' = Tail(steps), UNCHANGED <<at, plan>>,
           \/ Head(steps) \in {"flash", "wait"}
           \/ \A f \in Due : f = Head(steps) \/ Written(f) => Written(f)'
    PROVE  BoardAtHand' /\ ~Extending' /\ Due' = Due /\ at' <= Len(plan'.edges) + 1
<1>1. BoardAtHand /\ Due' = Due /\ ~Extending' /\ at' <= Len(plan'.edges) + 1
  BY DEF AtHand, Due, Extending
<1>2. /\ Tail(steps) \in Seq(Phases) /\ Left(Tail(steps), Due)
      /\ \A f : In(f, steps) => f = Head(steps) \/ In(f, Tail(steps))
      /\ Head(steps) \in {"flash", "wait"} => \A f \in Due : In(f, Tail(steps))
  BY <1>1, TailLeft DEF BoardAtHand
<1>3. \A f \in Due : In(f, Tail(steps)) \/ Written(f)'
  BY <1>1, <1>2 DEF BoardAtHand
<1> QED BY <1>1, <1>2, <1>3 DEF BoardAtHand

\* A step that leaves the port at hand as it was, and what is written there.
LEMMA WrittenStill ==
    ASSUME UNCHANGED <<path, silent, port, run, files>>, NEW f, Written(f)
    PROVE  Written(f)'
BY DEF Written, Bench!Answers, Bench!On

LEMMA DeskQuiet ==
    ASSUME Bench!DeskAssumption, DeskInv, NEW x \in {"probe", "backup", "read"}, Bench!Asked(x),
           steps' = Tail(steps), UNCHANGED <<path, silent, files, run, plan, ports, at, port, finished, sound>>,
           expected' \in {expected, Bench!Here, None}
    PROVE  DeskInv'
<1>1. /\ OfRun /\ AtHand /\ steps # <<>> /\ Head(steps) = x
      /\ Bench!Here \in Bench!Boards \ Unreached /\ path[Bench!Here] = port /\ port \notin finished
  BY AtHandAlone
<1>2. PlanStands' /\ LeftAlone' /\ FinishedWhole' /\ Apart' /\ Unreached' = Unreached
  BY <1>1, OthersStand DEF Spares
<1>3. DeskTypes'
  BY DEF DeskInv, DeskTypes
<1>4. OwnPort'
  BY <1>1, <1>2 DEF AtHand, OwnPort
<1>5. CASE Extending
  <2>1. HubAtHand /\ at <= Len(plan.edges) + 1
    BY <1>1, <1>5 DEF AtHand
  <2>2. steps = <<"read", "rows">>
    <3>1. CASE steps = <<"rows">>
      <4>1. x = "rows"
        BY <1>1, <3>1
      <4> QED BY <4>1
    <3> QED BY <2>1, <3>1 DEF HubAtHand
  <2>3. steps' = <<"rows">>
    BY <2>2
  <2>4. HubAtHand' /\ Extending'
    BY <1>5, <2>1, <2>3, SameWhole DEF HubAtHand, Extending
  <2> QED BY <1>2, <1>3, <1>4, <2>1, <2>4 DEF DeskInv, OfRun, AtHand
<1>6. CASE ~Extending
  <2>1. \A f \in Due : f # x
    BY DEF Due, Bench!Files, Bench!Stored
  <2>2. BoardAtHand' /\ ~Extending' /\ at' <= Len(plan'.edges) + 1
    BY <1>1, <1>6, <2>1, NextOfBoard, WrittenStill
  <2> QED BY <1>2, <1>3, <1>4, <2>2 DEF DeskInv, OfRun, AtHand
<1> QED BY <1>5, <1>6

LEMMA DeskFlash ==
    ASSUME Bench!DeskAssumption, DeskInv, Bench!FlashIt
    PROVE  DeskInv'
<1>1. /\ OfRun /\ AtHand /\ steps # <<>> /\ Head(steps) = "flash" /\ steps' = Tail(steps)
      /\ Bench!Here \in Bench!Boards \ Unreached /\ path[Bench!Here] = port /\ port \notin finished
  BY AtHandAlone DEF Bench!FlashIt
<1>2. /\ UNCHANGED <<path, run, plan, ports, at, port, expected, finished, sound>>
      /\ files' = [files EXCEPT ![Bench!Here] = [f \in Bench!Stored |-> None]]
      /\ silent' = silent \cup {Bench!Here}
  BY DEF Bench!FlashIt, Bench!Erased, Bench!hand, Bench!tool
<1>3. PICK h \in Bench!Boards : h = Bench!Here
  BY <1>1
<1>4. \A b \in Bench!Boards : b = h \/ Spares(b)
  BY <1>2, <1>3 DEF Spares, DeskInv, DeskTypes
<1>5. PlanStands' /\ LeftAlone' /\ FinishedWhole' /\ Apart' /\ Unreached' = Unreached
  BY <1>1, <1>2, <1>3, <1>4, OthersStand
<1>6. DeskTypes'
  BY <1>2, <1>3 DEF DeskInv, DeskTypes
<1>7. OwnPort'
  BY <1>1, <1>2, <1>5 DEF AtHand, OwnPort
<1>8. ~Extending
  <2> SUFFICES ASSUME Extending PROVE FALSE
    OBVIOUS
  <2>1. steps \in {<<"read", "rows">>, <<"rows">>}
    BY <1>1 DEF AtHand, HubAtHand
  <2>2. Head(steps) \in {"read", "rows"}
    BY <2>1
  <2> QED BY <1>1, <2>2
<1>9. BoardAtHand' /\ ~Extending' /\ at' <= Len(plan'.edges) + 1
  BY <1>1, <1>2, <1>8, NextOfBoard
<1> QED BY <1>5, <1>6, <1>7, <1>9 DEF DeskInv, OfRun, AtHand

LEMMA NotExtending ==
    ASSUME AtHand, Head(steps) \notin {"read", "rows"}
    PROVE  ~Extending
<1> SUFFICES ASSUME Extending PROVE FALSE
  OBVIOUS
<1>1. steps \in {<<"read", "rows">>, <<"rows">>}
  BY DEF AtHand, HubAtHand
<1>2. Head(steps) \in {"read", "rows"}
  BY <1>1
<1> QED BY <1>2

LEMMA DeskWait ==
    ASSUME Bench!DeskAssumption, DeskInv, Bench!WaitForBoard
    PROVE  DeskInv'
<1>1. steps # <<>> /\ Head(steps) = "wait" /\ steps' = Tail(steps)
  BY DEF Bench!WaitForBoard, Bench!Step
<1>2. OfRun /\ AtHand
  BY <1>1 DEF DeskInv, OfRun
<1>3. /\ UNCHANGED <<path, silent, files, run, plan, ports, at, expected, finished, sound>>
      /\ port' \in Bench!Adopted
  BY DEF Bench!WaitForBoard, Bench!desk, Bench!contents, Bench!tool
<1>4. PlanStands' /\ LeftAlone' /\ FinishedWhole' /\ Apart' /\ Unreached' = Unreached
  BY <1>2, <1>3, OthersStand DEF Spares
<1>5. DeskTypes'
  BY <1>3 DEF DeskInv, DeskTypes
<1>6. port' \in Ports \ finished /\ \A u \in Unreached : ports[u] # port'
  <2>1. CASE expected # None
    <3>1. port' \in Ports /\ expected \in Bench!Answers(port')
      BY <1>3, <2>1 DEF Bench!Adopted
    <3>2. path[expected] = port' /\ expected \in Bench!Boards \ Unreached /\ path[expected] \notin finished
      BY <1>2, <2>1, <3>1 DEF Bench!Answers, Bench!On, AtHand, OwnPort
    <3>3. ASSUME NEW u \in Unreached, ports[u] = port' PROVE FALSE
      <4>1. path[u] = port' /\ u \in Bench!Boards /\ port' # None
        BY <1>2, <3>1, <3>3 DEF OfRun, LeftAlone, Unreached, Bench!DeskAssumption
      <4> QED BY <3>2, <3>3, <4>1 DEF DeskInv, Apart
    <3> QED BY <3>1, <3>2, <3>3
  <2>2. CASE expected = None /\ Bench!Answers(port) # {}
    BY <1>2, <1>3, <2>2 DEF Bench!Adopted, AtHand, OwnPort
  <2>3. CASE expected = None /\ Bench!Answers(port) = {}
    <3>1. port' \in Ports /\ \A q \in Ports : Bench!On(q) # {} => q = port'
      BY <1>3, <2>3 DEF Bench!Adopted
    <3>2. plan \in Plans
      BY <1>2 DEF OfRun, PlanStands
    <3>3. PICK o : o = Bench!Order(plan)
      OBVIOUS
    <3>4. PICK n \in Nat \ {0} : /\ DOMAIN o = 1..n + 1
                                 /\ \A i \in 1..n + 1 : o[i] \in Bench!Boards
                                 /\ \A i, j \in 1..n + 1 : o[i] = o[j] => i = j
      BY <3>2, <3>3, OrderOf
    <3>5. 1 \in 1..n + 1 /\ 2 \in 1..n + 1
      BY <3>4
    <3>6. /\ o[1] \in Bench!Boards /\ o[2] \in Bench!Boards /\ o[1] # o[2]
          /\ path[o[1]] # None /\ path[o[2]] # None
      BY <1>2, <3>3, <3>4, <3>5 DEF OfRun, PlanStands
    <3>7. path[o[1]] \in Ports /\ path[o[2]] \in Ports
      BY <3>6 DEF DeskInv, DeskTypes
    <3>8. path[o[1]] = port' /\ path[o[2]] = port'
      BY <3>1, <3>6, <3>7 DEF Bench!On
    <3> QED BY <3>6, <3>8 DEF DeskInv, Apart
  <2> QED BY <2>1, <2>2, <2>3
<1>7. OwnPort'
  BY <1>2, <1>3, <1>4, <1>6 DEF AtHand, OwnPort
<1>8. BoardAtHand' /\ ~Extending' /\ at' <= Len(plan'.edges) + 1
  BY <1>1, <1>2, <1>3, NotExtending, NextOfBoard
<1> QED BY <1>4, <1>5, <1>7, <1>8 DEF DeskInv, OfRun, AtHand

\* A board that has all its files of this run is whole; the Hub is not written
\* to as an Edge.
LEMMA WholeOnceWritten ==
    ASSUME Bench!DeskAssumption, DeskTypes, PlanStands, AtHand, NEW h \in Bench!Boards \ Unreached, NEW g,
           \A f \in Due : g[f] = run
    PROVE  /\ \E r \in 0 .. run : \A f \in Bench!Files : g[f] = r
           /\ h = HubBoard => g["Nodes.json"] # None
<1>1. run \in 0 .. run /\ run # None
  BY DEF DeskTypes, Bench!DeskAssumption
<1>2. \A f \in Bench!Files : g[f] = run
  BY DEF Due, Bench!Stored
<1>3. ASSUME h = HubBoard PROVE g["Nodes.json"] # None
  <2>1. ~(at <= Len(plan.edges))
    <3> SUFFICES ASSUME at <= Len(plan.edges) PROVE FALSE
      OBVIOUS
    <3>1. PICK o : o = Bench!Order(plan)
      OBVIOUS
    <3>2. PICK n \in Nat \ {0} : /\ n = Len(plan.edges) /\ DOMAIN o = 1..n + 1 /\ o[n + 1] = HubBoard
                                 /\ \A i, j \in 1..n + 1 : o[i] = o[j] => i = j
      BY <3>1, OrderOf DEF PlanStands
    <3>3. \A j \in 1..n + 1 : j <= at => o[j] # HubBoard
      BY <3>2 DEF PlanStands
    <3>4. HubBoard \notin Bench!Reached
      BY <3>1, <3>2, <3>3 DEF Bench!Reached
    <3>5. n + 1 \in DOMAIN o
      BY <3>2
    <3>6. ports[HubBoard] # None
      BY <3>1, <3>2, <3>5 DEF PlanStands
    <3> QED BY <1>3, <3>4, <3>6 DEF Unreached
  <2>2. g["Nodes.json"] = run
    BY <2>1 DEF Due, Bench!Stored
  <2> QED BY <1>1, <2>2
<1> QED BY <1>1, <1>2, <1>3

\* What may be written in a step.
Writes(x, h) ==
    \/ x \notin Bench!Stored \cup {"rows"} /\ files' = files
    \/ x \in Bench!Stored /\ files' = [files EXCEPT ![h][x] = run]
    \/ x = "rows" /\ files' = [files EXCEPT ![h]["Nodes.json"] = run]

LEMMA WritesOne ==
    ASSUME DeskTypes, NEW x, NEW h \in Bench!Boards, Writes(x, h)
    PROVE  /\ files' \in [Bench!Boards -> [Bench!Stored -> Nat \cup {None}]]
           /\ \A b \in Bench!Boards \ {h} : files'[b] = files[b]
           /\ x \in Bench!Stored => files'[h][x] = run
           /\ \A f \in Bench!Stored : files'[h][f] = files[h][f] \/ files'[h][f] = run
           /\ x = "rows" => /\ \A f \in Bench!Files : files'[h][f] = files[h][f]
                            /\ files'[h]["Nodes.json"] = run
<1>1. CASE x \notin Bench!Stored \cup {"rows"} /\ files' = files
  BY <1>1 DEF DeskTypes
<1>2. CASE x \in Bench!Stored /\ files' = [files EXCEPT ![h][x] = run]
  <2>1. x # "rows"
    BY <1>2 DEF Bench!Stored, Bench!Files
  <2> QED BY <1>2, <2>1 DEF DeskTypes
<1>3. CASE x = "rows" /\ files' = [files EXCEPT ![h]["Nodes.json"] = run]
  <2>1. "rows" \notin Bench!Stored /\ "Nodes.json" \in Bench!Stored /\ "Nodes.json" \notin Bench!Files
        /\ Bench!Files \subseteq Bench!Stored
    BY DEF Bench!Stored, Bench!Files
  <2> QED BY <1>3, <2>1 DEF DeskTypes
<1> QED BY <1>1, <1>2, <1>3 DEF Writes

LEMMA DeskNext ==
    ASSUME Bench!DeskAssumption, DeskInv, NEW x \in Phases, Bench!Asked(x), Bench!Advance,
           UNCHANGED <<path, silent, run, plan, ports, sound>>, Writes(x, Bench!Here), Len(steps) > 1
    PROVE  DeskInv'
<1>1. PICK h : h = Bench!Here
  OBVIOUS
<1>2. /\ OfRun /\ AtHand /\ steps # <<>> /\ Head(steps) = x /\ x \notin {"read", "rows"}
      /\ h \in Bench!Boards \ (silent \cup Unreached) /\ path[h] = port /\ port \notin finished
      /\ \A b \in Bench!Boards : path[b] = port => b = h
  BY <1>1, AtHandAlone DEF Phases
<1>3. steps' = Tail(steps) /\ UNCHANGED <<at, port, expected, finished>>
  BY DEF Bench!Advance, Bench!hand
<1>4. /\ files' \in [Bench!Boards -> [Bench!Stored -> Nat \cup {None}]]
      /\ \A b \in Bench!Boards \ {h} : files'[b] = files[b]
      /\ x \in Bench!Stored => files'[h][x] = run
      /\ \A f \in Bench!Stored : files'[h][f] = files[h][f] \/ files'[h][f] = run
  BY <1>1, <1>2, WritesOne DEF DeskInv
<1>5. PlanStands' /\ LeftAlone' /\ FinishedWhole' /\ Apart' /\ Unreached' = Unreached
  BY <1>2, <1>3, <1>4, OthersStand DEF Spares
<1>6. DeskTypes'
  BY <1>4 DEF DeskInv, DeskTypes
<1>7. OwnPort'
  BY <1>2, <1>3, <1>5 DEF AtHand, OwnPort
<1>8. ~Extending /\ Due \subseteq Bench!Stored
  BY <1>2, NotExtending DEF Due, Bench!Stored
<1>9. ASSUME NEW f \in Due, f = x \/ Written(f) PROVE Written(f)'
  <2>1. files'[h][f] = run
    <3>1. CASE f = x
      BY <1>4, <1>8, <3>1
    <3>2. CASE Written(f)
      <4>1. files[h][f] = run
        BY <1>2, <3>2 DEF Written, Bench!Answers, Bench!On
      <4> QED BY <1>4, <1>8, <4>1
    <3> QED BY <1>9, <3>1, <3>2
  <2>2. h \in Bench!Answers(port)'
    BY <1>2, <1>3 DEF Bench!Answers, Bench!On
  <2> QED BY <2>1, <2>2 DEF Written
<1>10. BoardAtHand' /\ ~Extending' /\ at' <= Len(plan'.edges) + 1
  BY <1>2, <1>3, <1>8, <1>9, NextOfBoard
<1> QED BY <1>5, <1>6, <1>7, <1>10 DEF DeskInv, OfRun, AtHand

\* The board at hand, when it is finished.
LEMMA HandWhole ==
    ASSUME Bench!DeskAssumption, DeskInv, NEW x \in Phases \cup {"rows"}, Bench!Asked(x),
           NEW h \in sound, h = Bench!Here,
           UNCHANGED run, Writes(x, h), ~(Len(steps) > 1)
    PROVE  Bench!Whole(h)'
<1>1. /\ OfRun /\ AtHand /\ steps # <<>> /\ Head(steps) = x
      /\ h \in Bench!Boards \ (silent \cup Unreached) /\ path[h] = port
      /\ \A b \in Bench!Boards : path[b] = port => b = h
  BY AtHandAlone DEF Phases
<1>2. /\ x \in Bench!Stored => files'[h][x] = run
      /\ \A f \in Bench!Stored : files'[h][f] = files[h][f] \/ files'[h][f] = run
      /\ x = "rows" => /\ \A f \in Bench!Files : files'[h][f] = files[h][f]
                       /\ files'[h]["Nodes.json"] = run
  BY <1>1, WritesOne DEF DeskInv
<1>3. run \in Nat /\ run # None
  BY DEF DeskInv, DeskTypes, Bench!DeskAssumption
<1>4. PICK g : g = files'[h]
  OBVIOUS
<1>5. /\ \E r \in 0 .. run : \A f \in Bench!Files : g[f] = r
      /\ h = HubBoard /\ g["main.py"] # 0 => g["Nodes.json"] # None
  <2>1. CASE Extending
    <3>1. HubAtHand
      BY <1>1, <2>1 DEF AtHand
    <3>2. steps = <<"rows">>
      <4>1. steps # <<"read", "rows">>
        OBVIOUS
      <4> QED BY <3>1, <4>1 DEF HubAtHand
    <3>3. x = "rows"
      BY <1>1, <3>2
    <3>4. h = HubBoard
      BY <1>1, <3>1 DEF HubAtHand, Bench!Boards
    <3>5. Bench!Whole(h)
      BY <3>1, <3>4 DEF HubAtHand
    <3> QED BY <1>2, <1>3, <1>4, <3>3, <3>5 DEF Bench!Whole
  <2>2. CASE ~Extending
    <3>1. BoardAtHand /\ Due \subseteq Bench!Stored
      BY <1>1, <2>2 DEF AtHand, Due, Bench!Stored
    <3>2. Len(steps) = 1 /\ steps[1] = x
      <4>1. PICK t \in Seq(Phases) : t = steps
        BY <3>1 DEF BoardAtHand
      <4>2. PICK k \in Nat : k = Len(t) /\ k >= 1 /\ Head(t) = t[1]
        BY <1>1, <4>1
      <4>3. ~(Len(t) > 1)
        BY <4>1
      <4>4. Len(t) = 1
        BY <4>2, <4>3
      <4>5. t[1] = x
        BY <1>1, <4>1, <4>2
      <4> QED BY <4>1, <4>4, <4>5
    <3>3. ASSUME NEW f \in Due PROVE g[f] = run
      <4>1. CASE In(f, steps)
        <5>1. f = x
          BY <3>2, <4>1 DEF In
        <5> QED BY <1>2, <1>4, <3>1, <5>1
      <4>2. CASE Written(f)
        <5>1. files[h][f] = run
          BY <1>1, <4>2 DEF Written, Bench!Answers, Bench!On
        <5> QED BY <1>2, <1>4, <3>1, <5>1
      <4> QED BY <3>1, <4>1, <4>2 DEF BoardAtHand
    <3> QED BY <1>1, <3>3, WholeOnceWritten DEF DeskInv, OfRun
  <2> QED BY <2>1, <2>2
<1> QED BY <1>4, <1>5 DEF Bench!Whole

LEMMA DeskOnward ==
    ASSUME Bench!DeskAssumption, DeskInv, NEW x \in Phases \cup {"rows"}, Bench!Asked(x), Bench!Advance,
           UNCHANGED <<path, silent, run, plan, ports, sound>>, Writes(x, Bench!Here), ~(Len(steps) > 1)
    PROVE  DeskInv'
<1>1. PICK h : h = Bench!Here
  OBVIOUS
<1>2. /\ OfRun /\ AtHand /\ steps # <<>> /\ Head(steps) = x
      /\ h \in Bench!Boards \ (silent \cup Unreached) /\ path[h] = port /\ port \in Ports \ finished
      /\ \A b \in Bench!Boards : path[b] = port => b = h
      /\ \A u \in Unreached : ports[u] # port
  BY <1>1, AtHandAlone DEF Phases, AtHand, OwnPort
<1>3. /\ files' \in [Bench!Boards -> [Bench!Stored -> Nat \cup {None}]]
      /\ \A b \in Bench!Boards \ {h} : files'[b] = files[b]
  BY <1>1, <1>2, WritesOne DEF DeskInv
<1>4. h \in sound => Bench!Whole(h)'
  BY <1>1, HandWhole
<1>15. PICK o : o = Bench!Order(plan)
  OBVIOUS
<1>5. PICK n \in Nat \ {0} :
         /\ o = Bench!Order(plan) /\ n = Len(plan.edges) /\ DOMAIN o = 1..n + 1 /\ Len(o) = n + 1
         /\ o[n + 1] = HubBoard
         /\ \A i \in 1..n + 1 : o[i] \in Bench!Boards
         /\ \A i, j \in 1..n + 1 : o[i] = o[j] => i = j
         /\ \A i \in 1..n + 1 : path[o[i]] # None /\ ports[o[i]] # None
  BY <1>2, <1>15, OrderOf DEF OfRun, PlanStands
<1>6. /\ at' = at + 1 /\ steps' = Bench!StepsFor(plan, at + 1)
      /\ finished' = finished \cup {port} /\ expected' = None
      /\ port' = IF at < n + 1 THEN ports[o[at + 1]] ELSE port
  BY <1>5 DEF Bench!Advance
<1>7. at \in 1..n + 1
  BY <1>2, <1>5 DEF AtHand, OfRun, PlanStands
<1>8. Unreached' \subseteq Unreached
  <2>1. Bench!Reached' = {o[i] : i \in {j \in DOMAIN o : j <= at + 1}}
    BY <1>5, <1>6 DEF Bench!Reached, Bench!Order
  <2>2. Bench!Reached = {o[i] : i \in {j \in DOMAIN o : j <= at}}
    BY <1>5 DEF Bench!Reached
  <2>3. Bench!Reached \subseteq Bench!Reached'
    BY <1>5, <1>7, <2>1, <2>2
  <2> QED BY <2>3 DEF Unreached
<1>9. at < n + 1 => o[at + 1] \in Unreached \ Unreached'
  <2> SUFFICES ASSUME at < n + 1 PROVE o[at + 1] \in Unreached \ Unreached'
    OBVIOUS
  <2>1. at + 1 \in 1..n + 1
    BY <1>7
  <2>2. o[at + 1] \in Bench!Reached'
    BY <1>5, <1>6, <2>1 DEF Bench!Reached, Bench!Order
  <2>3. o[at + 1] \notin Bench!Reached
    <3>1. \A i \in 1..n + 1 : i <= at => o[i] # o[at + 1]
      BY <1>5, <1>7, <2>1
    <3> QED BY <1>5, <3>1 DEF Bench!Reached
  <2> QED BY <1>5, <2>1, <2>2, <2>3 DEF Unreached
<1>10. DeskTypes' /\ Apart' /\ PlanStands'
  <2>1. DeskTypes' /\ Apart'
    BY <1>3 DEF DeskInv, DeskTypes, Apart
  <2>2. at' \in Nat \ {0}
    BY <1>6, <1>7
  <2> QED BY <1>2, <2>1, <2>2 DEF OfRun, PlanStands, Bench!Order
<1>11. LeftAlone'
  <2> SUFFICES ASSUME NEW u \in Unreached'
               PROVE  /\ path'[u] = ports'[u] /\ u \notin silent' /\ ports'[u] \notin finished'
                      /\ u \in sound' => Bench!Whole(u)'
    BY DEF LeftAlone
  <2>1. u \in Unreached /\ u \in Bench!Boards /\ u # h
    BY <1>2, <1>8 DEF Unreached
  <2>2. path[u] = ports[u] /\ u \notin silent /\ ports[u] \notin finished /\ (u \in sound => Bench!Whole(u))
    BY <1>2, <2>1 DEF OfRun, LeftAlone
  <2>3. Bench!Whole(u)' <=> Bench!Whole(u)
    BY <1>3, <2>1, SameWhole
  <2> QED BY <1>2, <1>6, <2>1, <2>2, <2>3
<1>12. FinishedWhole'
  <2>1. ASSUME NEW b \in sound' \ silent', path'[b] \in finished' PROVE Bench!Whole(b)'
    <3>1. CASE b = h
      BY <1>4, <2>1, <3>1
    <3>2. CASE b # h
      <4>1. b \in Bench!Boards /\ b \in sound \ silent /\ path[b] \in finished
        BY <1>2, <1>6, <2>1, <3>2 DEF DeskInv, DeskTypes
      <4>2. Bench!Whole(b)
        BY <1>2, <4>1 DEF OfRun, FinishedWhole
      <4> QED BY <1>3, <3>2, <4>1, <4>2, SameWhole
    <3> QED BY <3>1, <3>2
  <2>2. ASSUME NEW p \in finished' PROVE p \in Ports /\ Bench!Answers(p)' # {}
    <3>1. p \in Ports /\ Bench!Answers(p) # {}
      <4>1. CASE p = port
        BY <1>2, <4>1 DEF Bench!Answers, Bench!On
      <4>2. CASE p # port
        BY <1>2, <1>6, <2>2, <4>2 DEF OfRun, FinishedWhole
      <4> QED BY <4>1, <4>2
    <3> QED BY <3>1 DEF Bench!Answers, Bench!On
  <2> QED BY <2>1, <2>2 DEF FinishedWhole
<1>13. CASE at < n + 1
  <2>1. PICK q \in Unreached : q = o[at + 1] /\ q \notin Unreached' /\ port' = ports[q]
    BY <1>6, <1>9, <1>13
  <2>2. /\ q \in Bench!Boards /\ q # h /\ ports[q] # None /\ path[q] = ports[q] /\ q \notin silent
        /\ ports[q] \notin finished /\ ports[q] # port /\ (q \in sound => Bench!Whole(q))
    BY <1>2, <2>1 DEF Unreached, OfRun, LeftAlone
  <2>3. OwnPort'
    <3>1. port' \in Ports \ finished'
      BY <1>2, <1>6, <2>1, <2>2 DEF OfRun, PlanStands
    <3>2. \A u \in Unreached' : ports'[u] # port'
      BY <1>2, <1>8, <2>1, <2>2 DEF OfRun, PlanStands, Unreached
    <3> QED BY <1>6, <3>1, <3>2 DEF OwnPort
  <2>4. at' <= Len(plan'.edges) + 1 /\ at + 1 \in Nat /\ n \in Nat
    BY <1>5, <1>6, <1>7, <1>13
  <2>5. ASSUME at + 1 = n + 1, plan.mode = "extend" PROVE HubAtHand'
    <3>1. q = HubBoard
      BY <1>5, <2>1, <2>5
    <3>2. steps' = <<"read", "rows">>
      <4>1. ~(at + 1 <= n) /\ ~(at + 1 > n + 1)
        BY <1>7, <2>5
      <4> QED BY <1>5, <1>6, <2>5, <4>1 DEF Bench!StepsFor
    <3>3. Bench!Whole(q)' <=> Bench!Whole(q)
      BY <1>3, <2>2, SameWhole
    <3> QED BY <2>1, <2>2, <3>1, <3>2, <3>3 DEF HubAtHand
  <2>6. ASSUME ~(at + 1 = n + 1 /\ plan.mode = "extend") PROVE BoardAtHand'
    <3>1. PICK i \in Nat : i = at + 1
      BY <1>7
    <3>2. PICK p : p = plan
      OBVIOUS
    <3>3. Due' = IF i <= Len(p.edges) THEN Bench!Files ELSE Bench!Stored
      BY <1>6, <3>1, <3>2 DEF Due
    <3>4. /\ Bench!StepsFor(p, i) \in Seq(Phases) /\ Left(Bench!StepsFor(p, i), Due')
          /\ \A f \in Due' : In(f, Bench!StepsFor(p, i))
      <4>1. /\ Len(p.edges) \in Nat /\ i <= Len(p.edges) + 1
            /\ ~(i = Len(p.edges) + 1 /\ p.mode = "extend")
        BY <1>5, <1>7, <1>13, <2>6, <3>1, <3>2
      <4>2. PICK N : N = Due'
        OBVIOUS
      <4> QED BY <3>3, <4>1, <4>2, Prepared
    <3>5. steps' = Bench!StepsFor(p, i)
      BY <1>6, <3>1, <3>2
    <3> QED BY <3>4, <3>5 DEF BoardAtHand
  <2>7. AtHand'
    BY <1>5, <1>6, <2>3, <2>4, <2>5, <2>6 DEF AtHand, Extending
  <2> QED BY <1>10, <1>11, <1>12, <2>7 DEF DeskInv, OfRun
<1>14. CASE ~(at < n + 1)
  <2>1. ~(at + 1 <= n) /\ at + 1 > n + 1
    BY <1>7, <1>14
  <2>2. steps' = <<"verify", "start">>
    BY <1>5, <1>6, <2>1 DEF Bench!StepsFor
  <2> QED BY <1>10, <1>11, <1>12, <2>2 DEF DeskInv, OfRun
<1> QED BY <1>13, <1>14

LEMMA DeskAdvances ==
    ASSUME Bench!DeskAssumption, DeskInv, NEW x \in Phases \cup {"rows"}, Bench!Asked(x), Bench!Advance,
           UNCHANGED <<path, silent, run, plan, ports, sound>>, Writes(x, Bench!Here)
    PROVE  DeskInv'
<1>1. CASE ~(Len(steps) > 1)
  BY <1>1, DeskOnward
<1>2. CASE Len(steps) > 1 /\ x \in Phases
  BY <1>2, DeskNext
<1>3. CASE Len(steps) > 1 /\ x = "rows"
  <2>1. AtHand /\ Head(steps) = "rows" /\ steps # <<>>
    BY <1>3, AtHandAlone
  <2>2. CASE Extending
    <3>1. steps \in {<<"read", "rows">>, <<"rows">>}
      BY <2>1, <2>2 DEF AtHand, HubAtHand
    <3>2. steps # <<"rows">>
      <4>1. PICK r : r = <<"rows">>
        OBVIOUS
      <4>2. ~(Len(r) > 1)
        BY <4>1
      <4> QED BY <1>3, <4>1, <4>2
    <3>3. Head(steps) = "read"
      BY <3>1, <3>2
    <3> QED BY <2>1, <3>3
  <2>3. CASE ~Extending
    <3>1. steps \in Seq(Phases)
      BY <2>1, <2>3 DEF AtHand, BoardAtHand
    <3>2. Head(steps) \in Phases
      BY <2>1, <3>1
    <3> QED BY <2>1, <3>2 DEF Phases
  <2> QED BY <2>2, <2>3
<1> QED BY <1>1, <1>2, <1>3

LEMMA StepAtHand ==
    ASSUME DeskInv, Bench!Step \notin {"idle", "verify", "start"}
    PROVE  OfRun /\ AtHand /\ steps # <<>> /\ Head(steps) = Bench!Step
<1>1. steps # <<>> /\ Head(steps) = Bench!Step
  BY DEF Bench!Step
<1> QED BY <1>1 DEF DeskInv, OfRun

LEMMA DeskFail ==
    ASSUME Bench!DeskAssumption, DeskInv, Bench!Fail
    PROVE  DeskInv'
<1>1. /\ steps # <<>> /\ steps' = <<"start">> /\ Bench!Step \notin {"idle", "start"}
      /\ UNCHANGED <<path, run, plan, ports, at, sound>>
      /\ finished' = IF Bench!Step = "read" THEN finished \cup {port} ELSE finished
  BY DEF Bench!Fail, Bench!Step, Bench!Spared, Bench!tool
<1>2. OfRun
  BY <1>1 DEF DeskInv
<1>3. SUFFICES DeskTypes' /\ Apart' /\ PlanStands' /\ LeftAlone' /\ FinishedWhole'
  BY <1>1 DEF DeskInv, OfRun
<1>4. CASE UNCHANGED <<silent, Bench!contents>> /\ Bench!Step # "read"
  <2>1. \A b \in Bench!Boards : Spares(b)
    BY <1>4 DEF Bench!contents, Spares
  <2>2. PlanStands' /\ LeftAlone' /\ FinishedWhole' /\ Apart'
    BY <1>1, <1>2, <1>4, <2>1, OthersStand
  <2> QED BY <1>1, <1>4, <2>2 DEF DeskInv, DeskTypes, Bench!contents
<1>5. CASE UNCHANGED <<silent, Bench!contents>> /\ Bench!Step = "read"
  <2>1. AtHand /\ Head(steps) = "read"
    BY <1>5, StepAtHand
  <2>2. Extending
    <3> SUFFICES ASSUME ~Extending PROVE FALSE
      OBVIOUS
    <3>1. steps \in Seq(Phases)
      BY <2>1 DEF AtHand, BoardAtHand
    <3>2. Head(steps) \in Phases
      BY <1>1, <3>1
    <3> QED BY <2>1, <3>2 DEF Phases
  <2>3. /\ path[HubBoard] = port /\ HubBoard \notin silent /\ HubBoard \in Bench!Boards
        /\ HubBoard \in sound => Bench!Whole(HubBoard)
        /\ port \in Ports /\ port # None /\ \A u \in Unreached : ports[u] # port
    BY <2>1, <2>2 DEF AtHand, HubAtHand, OwnPort, Bench!Boards, Bench!DeskAssumption
  <2>4. UNCHANGED <<files, silent>>
    BY <1>5 DEF Bench!contents
  <2>5. DeskTypes' /\ Apart' /\ PlanStands'
    BY <1>1, <1>2, <2>4 DEF DeskInv, DeskTypes, Apart, OfRun, PlanStands, Bench!Order
  <2>6. Unreached' = Unreached
    BY <1>1 DEF Unreached, Bench!Reached, Bench!Order
  <2>7. \A b : Bench!Whole(b)' <=> Bench!Whole(b)
    BY <1>1, <2>4 DEF Bench!Whole
  <2>8. LeftAlone'
    BY <1>1, <1>2, <1>5, <2>3, <2>4, <2>6, <2>7 DEF OfRun, LeftAlone
  <2>9. ASSUME NEW b \in sound \ silent, path[b] \in finished' PROVE Bench!Whole(b)
    <3>1. CASE path[b] = port
      <4>1. b = HubBoard
        BY <2>3, <3>1 DEF DeskInv, DeskTypes, Apart
      <4> QED BY <2>3, <2>9, <4>1
    <3>2. CASE path[b] # port
      BY <1>1, <1>2, <2>9, <3>2 DEF OfRun, FinishedWhole
    <3> QED BY <3>1, <3>2
  <2>10. ASSUME NEW p \in finished' PROVE p \in Ports /\ Bench!Answers(p) # {}
    <3>1. CASE p = port
      BY <2>3, <3>1 DEF Bench!Answers, Bench!On
    <3>2. CASE p # port
      BY <1>1, <1>2, <2>10, <3>2 DEF OfRun, FinishedWhole
    <3> QED BY <3>1, <3>2
  <2>11. FinishedWhole'
    BY <1>1, <2>4, <2>7, <2>9, <2>10 DEF FinishedWhole, Bench!Answers, Bench!On
  <2> QED BY <2>5, <2>8, <2>11
<1>6. ASSUME NEW x \in Phases \cup {"rows"}, Bench!Asked(x), x # "read",
             silent' \in {silent, silent \cup {Bench!Here}},
             \/ files' = files
             \/ \E f \in Bench!Stored : files' = [files EXCEPT ![Bench!Here][f] = None]
             \/ files' = [files EXCEPT ![Bench!Here] = [f \in Bench!Stored |-> None]]
      PROVE  DeskTypes' /\ Apart' /\ PlanStands' /\ LeftAlone' /\ FinishedWhole'
  <2>1. PICK h : h = Bench!Here
    OBVIOUS
  <2>2. h \in Bench!Boards \ Unreached /\ path[h] = port /\ port \notin finished /\ Bench!Step = x
    BY <1>6, <2>1, AtHandAlone, OnPort DEF Phases
  <2>3. /\ files' \in [Bench!Boards -> [Bench!Stored -> Nat \cup {None}]]
        /\ \A b \in Bench!Boards \ {h} : files'[b] = files[b]
    <3>1. files \in [Bench!Boards -> [Bench!Stored -> Nat \cup {None}]]
      BY DEF DeskInv, DeskTypes
    <3>2. CASE files' = files
      BY <3>1, <3>2
    <3>3. CASE \E f \in Bench!Stored : files' = [files EXCEPT ![h][f] = None]
      BY <2>2, <3>1, <3>3
    <3>4. CASE files' = [files EXCEPT ![h] = [f \in Bench!Stored |-> None]]
      BY <2>2, <3>1, <3>4
    <3> QED BY <1>6, <2>1, <3>2, <3>3, <3>4
  <2>4. \A b \in Bench!Boards : b = h \/ Spares(b)
    BY <1>6, <2>1, <2>3 DEF Spares
  <2>5. PlanStands' /\ LeftAlone' /\ FinishedWhole' /\ Apart'
    BY <1>1, <1>2, <1>6, <2>2, <2>4, OthersStand
  <2> QED BY <1>1, <1>6, <2>1, <2>2, <2>3, <2>5 DEF DeskInv, DeskTypes
<1>7. CASE Bench!Asked(Bench!Step) /\ Bench!Step \in Bench!Files /\ UNCHANGED silent
           /\ files' = [files EXCEPT ![Bench!Here][Bench!Step] = None]
  <2>1. PICK x : x = Bench!Step
    OBVIOUS
  <2>2. x \in Phases /\ x \in Bench!Stored /\ x # "read"
    BY <1>7, <2>1 DEF Phases, Bench!Files, Bench!Stored
  <2> QED BY <1>6, <1>7, <2>1, <2>2
<1>8. CASE Bench!Asked(Bench!Step) /\ Bench!Step \in {"Nodes.json", "rows"} /\ UNCHANGED silent
           /\ files' = [files EXCEPT ![Bench!Here]["Nodes.json"] = None]
  <2>1. PICK x : x = Bench!Step
    OBVIOUS
  <2>2. x \in Phases \cup {"rows"} /\ "Nodes.json" \in Bench!Stored /\ x # "read"
    BY <1>8, <2>1 DEF Phases, Bench!Stored
  <2> QED BY <1>6, <1>8, <2>1, <2>2
<1>9. CASE Bench!Asked("flash") /\ silent' = silent \cup {Bench!Here}
           /\ (Bench!Erased(Bench!Here) \/ UNCHANGED Bench!contents)
  <2>1. files' = files \/ files' = [files EXCEPT ![Bench!Here] = [f \in Bench!Stored |-> None]]
    BY <1>9 DEF Bench!Erased, Bench!contents
  <2> QED BY <1>6, <1>9, <2>1 DEF Phases
<1> QED BY <1>4, <1>5, <1>7, <1>8, <1>9 DEF Bench!Fail

LEMMA DeskVerify ==
    ASSUME DeskInv, Bench!Verify
    PROVE  DeskInv'
<1>1. steps # <<>> /\ Head(steps) = "verify" /\ steps' = Tail(steps)
  BY DEF Bench!Verify, Bench!Step
<1>2. UNCHANGED <<path, silent, files, run, plan, ports, at, finished, sound>>
  BY DEF Bench!Verify, Bench!desk, Bench!contents, Bench!hand
<1>3. OfRun
  BY <1>1 DEF DeskInv
<1>4. steps = <<"verify", "start">>
  <2>1. steps # <<"start">>
    BY <1>1
  <2>2. ~AtHand
    <3> SUFFICES ASSUME AtHand PROVE FALSE
      OBVIOUS
    <3>1. CASE Extending
      <4>1. steps \in {<<"read", "rows">>, <<"rows">>}
        BY <3>1 DEF AtHand, HubAtHand
      <4>2. Head(steps) \in {"read", "rows"}
        BY <4>1
      <4> QED BY <1>1, <4>2
    <3>2. CASE ~Extending
      <4>1. steps \in Seq(Phases)
        BY <3>2 DEF AtHand, BoardAtHand
      <4>2. Head(steps) \in Phases
        BY <1>1, <4>1
      <4> QED BY <1>1, <4>2 DEF Phases
    <3> QED BY <3>1, <3>2
  <2> QED BY <1>3, <2>1, <2>2 DEF OfRun
<1>5. steps' = <<"start">>
  BY <1>1, <1>4
<1>6. PlanStands' /\ LeftAlone' /\ FinishedWhole' /\ Apart'
  BY <1>2, <1>3, OthersStand DEF Spares
<1>7. DeskTypes'
  BY <1>2 DEF DeskInv, DeskTypes
<1> QED BY <1>5, <1>6, <1>7 DEF DeskInv, OfRun

LEMMA DeskReturns ==
    ASSUME Bench!DeskAssumption, DeskInv, NEW b, NEW p \in Ports, Bench!Returns(b, p)
    PROVE  DeskInv'
<1>1. /\ b \in silent /\ b \in Bench!Boards /\ (path[b] = p \/ Bench!On(p) = {})
      /\ path' = [path EXCEPT ![b] = p] /\ silent' = silent \ {b}
      /\ UNCHANGED <<files, run, plan, ports, at, port, expected, finished, sound, steps>>
  BY DEF Bench!Returns, DeskInv, DeskTypes, Bench!contents, Bench!hand, Bench!tool
<1>2. path'[b] = p /\ p # None /\ \A c \in Bench!Boards \ {b} : path'[c] = path[c]
  BY <1>1 DEF DeskInv, DeskTypes, Bench!DeskAssumption
<1>3. DeskTypes'
  BY <1>1 DEF DeskInv, DeskTypes
<1>4. \A c \in Bench!Boards \ {b} : path[c] # p
  BY <1>1, <1>2 DEF DeskInv, Apart, Bench!On
<1>5. Apart'
  BY <1>2, <1>4 DEF DeskInv, Apart
<1>6. ASSUME OfRun PROVE OfRun'
  <2>1. \A c \in Bench!Boards \ silent : c # b /\ path'[c] = path[c] /\ c \notin silent'
    BY <1>1, <1>2
  <2>2. p \notin finished
    <3> SUFFICES ASSUME p \in finished PROVE FALSE
      OBVIOUS
    <3>1. Bench!Answers(p) # {}
      BY <1>6 DEF OfRun, FinishedWhole
    <3>2. PICK c \in Bench!Boards : path[c] = p /\ c \notin silent
      BY <3>1 DEF Bench!Answers, Bench!On
    <3> QED BY <1>4, <2>1, <3>2
  <2>3. Unreached' = Unreached /\ (\A c : Bench!Whole(c)' <=> Bench!Whole(c))
    BY <1>1 DEF Unreached, Bench!Reached, Bench!Order, Bench!Whole
  <2>4. PlanStands'
    <3>1. plan \in Plans
      BY <1>6 DEF OfRun, PlanStands
    <3>2. \A i \in DOMAIN Bench!Order(plan) : Bench!Order(plan)[i] \in Bench!Boards
      BY <3>1, OrderOf
    <3>3. \A i \in DOMAIN Bench!Order(plan) : path'[Bench!Order(plan)[i]] # None
      BY <1>2, <1>6, <3>2 DEF OfRun, PlanStands
    <3> QED BY <1>1, <1>6, <3>3 DEF OfRun, PlanStands, Bench!Order
  <2>5. LeftAlone'
    BY <1>1, <1>6, <2>1, <2>3 DEF OfRun, LeftAlone, Unreached
  <2>6. FinishedWhole'
    <3>1. ASSUME NEW c \in sound' \ silent', path'[c] \in finished' PROVE Bench!Whole(c)'
      <4>1. c \in Bench!Boards /\ c # b
        BY <1>1, <1>2, <2>2, <3>1 DEF DeskInv, DeskTypes
      <4> QED BY <1>1, <1>2, <1>6, <2>3, <3>1, <4>1 DEF OfRun, FinishedWhole
    <3>2. ASSUME NEW q \in finished' PROVE q \in Ports /\ Bench!Answers(q)' # {}
      <4>1. q \in Ports /\ Bench!Answers(q) # {}
        BY <1>1, <1>6, <3>2 DEF OfRun, FinishedWhole
      <4>2. PICK c \in Bench!Boards : path[c] = q /\ c \notin silent
        BY <4>1 DEF Bench!Answers, Bench!On
      <4> QED BY <2>1, <4>1, <4>2 DEF Bench!Answers, Bench!On
    <3> QED BY <3>1, <3>2 DEF FinishedWhole
  <2>7. ASSUME AtHand PROVE AtHand'
    <3>1. OwnPort'
      BY <1>1, <1>2, <2>2, <2>3, <2>7 DEF AtHand, OwnPort
    <3>2. ASSUME Extending PROVE HubAtHand'
      <4>1. HubAtHand /\ HubBoard \in Bench!Boards \ silent
        BY <2>7, <3>2 DEF AtHand, HubAtHand, Bench!Boards
      <4> QED BY <1>1, <2>1, <2>3, <4>1 DEF HubAtHand
    <3>3. ASSUME ~Extending PROVE BoardAtHand'
      <4>1. BoardAtHand /\ Due' = Due
        BY <1>1, <2>7, <3>3 DEF AtHand, Due
      <4>2. ASSUME NEW f, Written(f) PROVE Written(f)'
        <5>1. PICK c \in Bench!Boards : path[c] = port /\ c \notin silent /\ files[c][f] = run
          BY <4>2 DEF Written, Bench!Answers, Bench!On
        <5> QED BY <1>1, <2>1, <5>1 DEF Written, Bench!Answers, Bench!On
      <4> QED BY <1>1, <4>1, <4>2 DEF BoardAtHand
    <3> QED BY <1>1, <2>7, <3>1, <3>2, <3>3 DEF AtHand, Extending
  <2> QED BY <1>1, <1>6, <2>4, <2>5, <2>6, <2>7 DEF OfRun
<1> QED BY <1>1, <1>3, <1>5, <1>6 DEF DeskInv

LEMMA DeskBegins ==
    ASSUME Bench!DeskAssumption, DeskInv, NEW p \in Plans,
           NEW away \in SUBSET (Bench!Boards \ Bench!ToSet(Bench!Order(p))), Bench!BeginRun(p, away)
    PROVE  DeskInv'
<1>1. /\ \A b \in Bench!ToSet(Bench!Order(p)) : b \notin silent \cup away
      /\ path' = [b \in Bench!Boards |-> IF b \in away THEN None ELSE Usual[b]]
      /\ ports' = [b \in Bench!Boards |-> IF b \in silent THEN None ELSE path'[b]]
      /\ plan' = p /\ at' = 1 /\ steps' = Bench!StepsFor(p, 1) /\ port' = path'[p.edges[1]]
      /\ expected' = None /\ finished' = {} /\ run' = run + 1
      /\ sound' = {b \in Bench!Boards : Bench!Whole(b)} /\ UNCHANGED <<silent, files>>
  BY DEF Bench!BeginRun, Bench!contents
<1>2. PICK o : o = Bench!Order(p)
  OBVIOUS
<1>3. PICK n \in Nat \ {0} : /\ n = Len(p.edges) /\ DOMAIN o = 1..n + 1 /\ o[1] = p.edges[1]
                             /\ \A i \in 1..n + 1 : o[i] \in Bench!Boards
  BY <1>2, OrderOf
<1>4. \A i \in 1..n + 1 : o[i] \in Bench!Boards /\ o[i] \notin silent \cup away
  BY <1>1, <1>2, <1>3 DEF Bench!ToSet
<1>5. /\ Usual \in [Bench!Boards -> Ports] /\ None \notin Ports
      /\ \A b, c \in Bench!Boards : Usual[b] = Usual[c] => b = c
  BY DEF Bench!DeskAssumption
<1>6. ASSUME NEW b \in sound' PROVE Bench!Whole(b)'
  <2>1. b \in Bench!Boards /\ Bench!Whole(b)
    BY <1>1, <1>6
  <2>2. \A r \in 0 .. run : r \in 0 .. run + 1
    BY DEF DeskInv, DeskTypes
  <2> QED BY <1>1, <2>1, <2>2 DEF Bench!Whole
<1>7. DeskTypes' /\ Apart'
  <2>1. DeskTypes'
    BY <1>1, <1>5 DEF DeskInv, DeskTypes
  <2> QED BY <1>1, <1>5, <2>1 DEF Apart
<1>8. PlanStands'
  <2>1. \A i \in 1..n + 1 : path'[o[i]] # None /\ ports'[o[i]] # None
    BY <1>1, <1>4, <1>5
  <2>2. ports' \in [Bench!Boards -> Ports \cup {None}]
    BY <1>1, <1>5
  <2>3. \A b, c \in Bench!Boards : ports'[b] = ports'[c] /\ ports'[b] # None => b = c
    BY <1>1, <1>5
  <2>4. Bench!Order(plan)' = o
    BY <1>1, <1>2 DEF Bench!Order
  <2> QED BY <1>1, <1>3, <2>1, <2>2, <2>3, <2>4 DEF PlanStands
<1>9. o[1] \notin Unreached'
  <2>1. Bench!Reached' = {o[i] : i \in {j \in DOMAIN o : j <= 1}}
    BY <1>1, <1>2 DEF Bench!Reached, Bench!Order
  <2>2. 1 \in DOMAIN o
    BY <1>3
  <2> QED BY <2>1, <2>2 DEF Unreached
<1>10. LeftAlone' /\ FinishedWhole'
  <2>1. ASSUME NEW u \in Unreached' PROVE path'[u] = ports'[u] /\ u \notin silent'
    BY <1>1, <2>1 DEF Unreached
  <2> QED BY <1>1, <1>6, <2>1 DEF LeftAlone, FinishedWhole
<1>11. OwnPort'
  <2>1. port' = Usual[o[1]] /\ port' \in Ports
    <3>1. 1 \in 1..n + 1
      BY <1>3
    <3> QED BY <1>1, <1>3, <1>4, <1>5, <3>1
  <2>2. ASSUME NEW u \in Unreached', ports'[u] = port' PROVE FALSE
    <3>1. u \in Bench!Boards /\ ports'[u] # None /\ u # o[1]
      BY <1>9, <2>2 DEF Unreached
    <3>2. ports'[u] = Usual[u]
      BY <1>1, <3>1
    <3>3. 1 \in 1..n + 1
      BY <1>3
    <3> QED BY <1>4, <1>5, <2>1, <2>2, <3>1, <3>2, <3>3
  <2> QED BY <1>1, <2>1, <2>2 DEF OwnPort
<1>12. ~Extending' /\ at' <= Len(plan'.edges) + 1
  BY <1>1, <1>3 DEF Extending
<1>13. BoardAtHand'
  <2>1. PICK N : N = Due'
    OBVIOUS
  <2>2. N = IF 1 <= Len(p.edges) THEN Bench!Files ELSE Bench!Stored
    BY <1>1, <2>1 DEF Due
  <2>3. Len(p.edges) \in Nat /\ 1 <= Len(p.edges) + 1 /\ ~(1 = Len(p.edges) + 1 /\ p.mode = "extend")
    BY <1>3
  <2>4. /\ Bench!StepsFor(p, 1) \in Seq(Phases) /\ Left(Bench!StepsFor(p, 1), N)
        /\ \A f \in N : In(f, Bench!StepsFor(p, 1))
    BY <2>2, <2>3, Prepared
  <2> QED BY <1>1, <2>1, <2>4 DEF BoardAtHand
<1> QED BY <1>7, <1>8, <1>10, <1>11, <1>12, <1>13 DEF DeskInv, OfRun, AtHand

LEMMA DeskPhase ==
    ASSUME Bench!DeskAssumption, DeskInv, Bench!Phase \/ RowsRewritten
    PROVE  DeskInv'
<1>1. CASE Bench!Probe
  BY <1>1, DeskQuiet DEF Bench!Probe, Bench!desk, Bench!contents, Bench!tool
<1>2. CASE Bench!BackUp
  BY <1>2, DeskQuiet DEF Bench!BackUp, Bench!desk, Bench!contents, Bench!hand, Bench!tool
<1>3. CASE Bench!ReadRoster
  BY <1>3, DeskQuiet DEF Bench!ReadRoster, Bench!desk, Bench!contents, Bench!hand
<1>4. CASE Bench!EnsureKey \/ Bench!Register \/ Bench!NoChange("library") \/ Bench!NoChange("payload")
  <2>1. PICK x \in {"key", "register", "library", "payload"} :
           /\ Bench!Asked(x) /\ Bench!Advance
           /\ UNCHANGED <<path, silent, files, run, plan, ports, sound>>
    BY <1>4 DEF Bench!EnsureKey, Bench!Register, Bench!NoChange, Bench!desk, Bench!contents, Bench!tool
  <2>2. x \in Phases /\ x \notin Bench!Stored \cup {"rows"}
    BY DEF Phases, Bench!Stored, Bench!Files
  <2> QED BY <2>1, <2>2, DeskAdvances DEF Writes
<1>5. ASSUME NEW f \in Bench!Files, Bench!WriteFile(f) PROVE DeskInv'
  <2>1. /\ Bench!Asked(f) /\ Bench!Advance /\ files' = [files EXCEPT ![Bench!Here][f] = run]
        /\ UNCHANGED <<path, silent, run, plan, ports, sound>>
    BY <1>5 DEF Bench!WriteFile, Bench!desk, Bench!tool
  <2>2. f \in Phases /\ f \in Bench!Stored
    BY DEF Phases, Bench!Stored, Bench!Files
  <2> QED BY <2>1, <2>2, DeskAdvances DEF Writes
<1>6. CASE Bench!WriteRoster
  <2>1. /\ Bench!Asked("Nodes.json") /\ Bench!Advance
        /\ files' = [files EXCEPT ![Bench!Here]["Nodes.json"] = run]
        /\ UNCHANGED <<path, silent, run, plan, ports, sound>>
    BY <1>6 DEF Bench!WriteRoster, Bench!desk, Bench!tool
  <2>2. "Nodes.json" \in Phases /\ "Nodes.json" \in Bench!Stored
    BY DEF Phases, Bench!Stored
  <2> QED BY <2>1, <2>2, DeskAdvances DEF Writes
<1>7. CASE Bench!ExtendRoster \/ RowsRewritten
  <2>1. /\ Bench!Asked("rows") /\ Bench!Advance
        /\ files' = [files EXCEPT ![Bench!Here]["Nodes.json"] = run]
        /\ UNCHANGED <<path, silent, run, plan, ports, sound>>
    BY <1>7 DEF Bench!ExtendRoster, RowsRewritten, Bench!desk, Bench!tool
  <2> QED BY <2>1, DeskAdvances DEF Writes
<1> QED BY <1>1, <1>2, <1>3, <1>4, <1>5, <1>6, <1>7, DeskFlash, DeskWait DEF Bench!Phase

LEMMA DeskUnchanged ==
    ASSUME DeskInv,
           UNCHANGED <<path, silent, files, run, plan, ports, at, port, expected, finished, sound, steps>>
    PROVE  DeskInv'
<1>1. DeskTypes' /\ Apart'
  BY DEF DeskInv, DeskTypes, Apart
<1>2. ASSUME OfRun PROVE OfRun'
  <2>1. PlanStands' /\ LeftAlone' /\ FinishedWhole' /\ Unreached' = Unreached
    BY <1>2, OthersStand DEF Spares
  <2>2. ASSUME AtHand PROVE AtHand'
    <3>1. OwnPort' /\ Extending' = Extending /\ Due' = Due /\ \A f : Written(f)' = Written(f)
      BY <2>1, <2>2 DEF AtHand, OwnPort, Extending, Due, Written, Bench!Answers, Bench!On
    <3>2. HubAtHand => HubAtHand'
      BY SameWhole DEF HubAtHand
    <3>3. BoardAtHand => BoardAtHand'
      BY <3>1 DEF BoardAtHand
    <3> QED BY <2>2, <3>1, <3>2, <3>3 DEF AtHand
  <2>3. steps' = steps
    OBVIOUS
  <2> QED BY <1>2, <2>1, <2>2, <2>3 DEF OfRun
<1> QED BY <1>1, <1>2 DEF DeskInv

LEMMA DeskKept ==
    ASSUME Bench!DeskAssumption, DeskInv, [Bench!Next \/ RowsRewritten]_(Bench!vars)
    PROVE  DeskInv'
<1>1. CASE Bench!Start
  <2>1. steps' = <<>> /\ UNCHANGED <<path, silent, files, run, sound>>
    BY <1>1 DEF Bench!Start, Bench!desk, Bench!contents, Bench!tool
  <2> QED BY <2>1 DEF DeskInv, DeskTypes, Apart
<1>2. ASSUME NEW i, NEW c, Bench!Settle(i, c) PROVE DeskInv'
  BY <1>2, DeskUnchanged DEF Bench!Settle, Bench!desk, Bench!hand, Bench!tool
<1>3. CASE UNCHANGED Bench!vars
  BY <1>3, DeskUnchanged DEF Bench!vars, Bench!desk, Bench!contents, Bench!hand, Bench!tool
<1> QED BY <1>1, <1>2, <1>3, DeskBegins, DeskPhase, DeskFail, DeskVerify, DeskReturns
   DEF Bench!Next, Bench!Field

\* A run never starts a board it left half written: whichever step fails, on
\* whichever port a flashed board comes back, and whether or not it said its MAC.
THEOREM OnlyWholeStarted ==
    ASSUME Bench!DeskAssumption
    PROVE  BenchSpec => Bench!StartsWhole
<1>1. Bench!Init => DeskInv
  BY DEF Bench!Init, DeskInv, DeskTypes, Apart, Bench!DeskAssumption, Bench!Stored, Bench!Boards
<1>2. DeskInv /\ [Bench!Next \/ RowsRewritten]_(Bench!vars) => DeskInv'
  BY DeskKept
<1>3. DeskInv /\ Bench!Start => \A b \in sound \cap (running' \ running) : Bench!Whole(b)
  <2> SUFFICES ASSUME DeskInv, Bench!Start, NEW b \in sound, b \in running' \ running PROVE Bench!Whole(b)
    OBVIOUS
  <2>1. steps # <<>>
    BY DEF Bench!Start, Bench!Step
  <2>2. OfRun
    BY <2>1 DEF DeskInv
  <2>3. b \in Bench!Boards \ silent /\ path[b] # None /\ path[b] \in Bench!Startable
    BY DEF Bench!Start
  <2>4. CASE path[b] \in finished
    BY <2>2, <2>3, <2>4 DEF OfRun, FinishedWhole
  <2>5. CASE path[b] \notin finished
    <3>1. PICK u \in Bench!Boards \ Bench!Reached : ports[u] = path[b]
      BY <2>3, <2>5 DEF Bench!Startable
    <3>2. u \in Unreached
      BY <2>3, <3>1 DEF Unreached
    <3>3. path[u] = path[b] /\ (u \in sound => Bench!Whole(u))
      BY <2>2, <3>1, <3>2 DEF OfRun, LeftAlone
    <3>4. u = b
      BY <2>3, <3>1, <3>3 DEF DeskInv, Apart
    <3> QED BY <3>3, <3>4
  <2> QED BY <2>4, <2>5
<1> QED BY <1>1, <1>2, <1>3, PTL DEF BenchSpec, Bench!StartsWhole
=============================================================================
