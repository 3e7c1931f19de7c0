------------------------------ MODULE Reassembly ------------------------------
(***************************************************************************)
(* Where the chunks of a file go: a temporary file per reassembly, named   *)
(* after the endpoint and the file, written in place and handed to a sink  *)
(* that renames it into the results folder or posts it elsewhere.  A board *)
(* has few descriptors and no second copy, so a reassembly given up must   *)
(* close its writer and remove its file, and no other reassembly's.        *)
(*                                                                         *)
(* Which file an endpoint serves next is free, two may serve files of one  *)
(* name, and a file is served again when its final-OK was lost.  That the  *)
(* chunks are of the file announced is the matter of Transfer.             *)
(***************************************************************************)
EXTENDS Naturals

CONSTANTS
    None,
    Endpoints,     \* each with a folder of its own
    Names,
    NChunks,       \* of each file
    Replaces,      \* rename replaces its target (littlefs), or fails (FAT)
    MaxFiles,      \* files that come to be served, numbered
    MaxFaults,     \* opens, writes and posts that fail
    MaxRestarts

VARIABLES
    posts,         \* the sink posts files, or keeps them on disk
    serving,       \* external: what each endpoint serves, [name, file]
    state,         \* of each Digital_Endpoint
    current_file,  \* of each: [path, file, missing], or None
    writers,       \* the open ones: [path, file]
    temp, results, \* on disk: what each chunk of a path holds, or None
    handed,        \* history: what the sink was last given
    made, faults, restarts

vars == <<posts, serving, state, current_file, writers, temp, results, handed, made, faults,
          restarts>>

Chunks == 1 .. NChunks
Paths == Endpoints \X Names
Whole(file) == [i \in Chunks |-> file]

\* What a chunk on disk is of; what a path may hold; what an endpoint may be
\* putting together.
Marks == Endpoints \X (0 .. MaxFiles)
Contents == [Chunks -> Marks \cup {None}]
Own(e) == [path : {e} \X Names, file : {e} \X (0 .. MaxFiles), missing : SUBSET Chunks]

\* What every theorem about this module takes of its constants.
FilesAssumption ==
    /\ MaxFiles \in Nat
    /\ None \notin Contents
    /\ \A e \in Endpoints : None \notin Own(e)

Fails == faults < MaxFaults /\ faults' = faults + 1
Works == UNCHANGED faults

-----------------------------------------------------------------------------
(* AlLoRa_File, the receiving half.                                        *)

TempPath(e) == <<e, serving[e].name>>

Writer(f) == [path |-> f.path, file |-> f.file]

\* discard, on what is open and what is on disk.
Closed(f, open) == IF f = None THEN open ELSE open \ {Writer(f)}
Removed(f, disk) == IF f = None THEN disk ELSE [disk EXCEPT ![f.path] = None]

\* __init__: opening cuts what is there.
Created(path, disk) == [disk EXCEPT ![path] = [i \in Chunks |-> None]]

\* add_chunk: a writer whose file was removed writes, and nobody sees it.
Written(f, i) ==
    IF temp[f.path] = None THEN temp
    ELSE [temp EXCEPT ![f.path] = [@ EXCEPT ![i] = f.file]]

-----------------------------------------------------------------------------
(* One endpoint of the node that drives.                                   *)

\* set_current_file(None).
Release(e) ==
    /\ writers' = Closed(current_file[e], writers)
    /\ temp' = Removed(current_file[e], temp)
    /\ current_file' = [current_file EXCEPT ![e] = None]

\* connected.
Connected(e) ==
    /\ state[e] = "OK"
    /\ state' = [state EXCEPT ![e] = "REQUEST_DATA_STATE"]
    /\ UNCHANGED <<posts, serving, current_file, writers, temp, results, handed, made, faults,
                   restarts>>

\* Mutant of SetMetadata: what was assembled is released once the new buffer is there.
ReleaseAfter(e) ==
    LET f == [path |-> TempPath(e), file |-> serving[e].file, missing |-> Chunks]
    IN  /\ state[e] = "REQUEST_DATA_STATE"
        /\ state' = [state EXCEPT ![e] = "PROCESS_CHUNK_STATE"]
        /\ current_file' = [current_file EXCEPT ![e] = f]
        /\ writers' = Closed(current_file[e], writers) \cup {Writer(f)}
        /\ temp' = Removed(current_file[e], Created(f.path, temp))
        /\ UNCHANGED <<posts, serving, results, handed, made, faults, restarts>>

\* A writer that cannot be opened is noticed by the first chunk only.
SetMetadata(e) ==
    LET f == [path |-> TempPath(e), file |-> serving[e].file, missing |-> Chunks]
        old == current_file[e]
    IN  /\ state[e] = "REQUEST_DATA_STATE"
        /\ state' = [state EXCEPT ![e] = "PROCESS_CHUNK_STATE"]
        /\ current_file' = [current_file EXCEPT ![e] = f]
        /\ \/ /\ Works
              /\ writers' = Closed(old, writers) \cup {Writer(f)}
              /\ temp' = Created(f.path, Removed(old, temp))
           \/ /\ Fails
              /\ writers' = Closed(old, writers) /\ temp' = Removed(old, temp)
        /\ UNCHANGED <<posts, serving, results, handed, made, restarts>>

\* get_next_chunk.
NextChunk(f) == CHOOSE i \in f.missing : \A j \in f.missing : i <= j

\* set_data of a chunk that is not the last.
AddChunk(e) ==
    LET f == current_file[e]
    IN  /\ state[e] = "PROCESS_CHUNK_STATE" /\ Writer(f) \in writers
        /\ f.missing # {NextChunk(f)}
        /\ temp' = Written(f, NextChunk(f))
        /\ current_file' = [current_file EXCEPT ![e].missing = @ \ {NextChunk(f)}]
        /\ UNCHANGED <<posts, serving, state, writers, results, handed, made, faults, restarts>>

\* A writer that is not open or cannot write refuses, and so does a chunk of
\* another length; a file announced anew says the same: _reopen_transfer.
Reopen(e) ==
    /\ state[e] = "PROCESS_CHUNK_STATE"
    /\ Release(e)
    /\ state' = [state EXCEPT ![e] = "REQUEST_DATA_STATE"]
    /\ UNCHANGED <<posts, serving, results, handed, made, faults, restarts>>

\* _rearm_connection_poll, after visits in silence.
Rearm(e) ==
    /\ Release(e)
    /\ state' = [state EXCEPT ![e] = "OK"]
    /\ UNCHANGED <<posts, serving, results, handed, made, faults, restarts>>

-----------------------------------------------------------------------------
(* The last chunk, and the sink: state OK if it took the file.             *)

\* Disk_DataSink: a folder per source, a file per name.
Kept(path, content) == [results EXCEPT ![path] = content]

\* Disk_DataSink.consume, save: the writer is closed first, so it is closed even
\* if the rename fails.
Save(f, disk) ==
    /\ writers' = writers \ {Writer(f)}
    /\ disk[f.path] # None
    /\ Replaces \/ results[f.path] = None
    /\ results' = Kept(f.path, disk[f.path])
    /\ temp' = [disk EXCEPT ![f.path] = None]
    /\ handed' = disk[f.path]
    /\ Works

\* HTTP_DataSink.consume and MQTT_DataSink.consume: discarded once it was taken.
Post(f, disk) ==
    /\ writers' = Closed(f, writers) /\ temp' = Removed(f, disk)
    /\ handed' = disk[f.path]
    /\ Works /\ UNCHANGED results

\* consume raised: the service refused, the file is not there, or the rename found
\* its target in use.
Refused(f, disk) ==
    /\ writers' = Closed(f, writers) /\ temp' = Removed(f, disk)
    /\ IF ~posts /\ (disk[f.path] = None \/ (~Replaces /\ results[f.path] # None))
       THEN Works ELSE Fails
    /\ UNCHANGED <<results, handed>>

LastChunk(e) ==
    LET f == current_file[e]
        disk == Written(f, NextChunk(f))
    IN  /\ state[e] = "PROCESS_CHUNK_STATE" /\ Writer(f) \in writers
        /\ f.missing = {NextChunk(f)}
        /\ current_file' = [current_file EXCEPT ![e].missing = {}]
        /\ \/ /\ IF posts THEN Post(f, disk) ELSE Save(f, disk)
              /\ state' = [state EXCEPT ![e] = "OK"]
           \/ /\ Refused(f, disk)
              /\ state' = [state EXCEPT ![e] = "REQUEST_DATA_STATE"]
        /\ UNCHANGED <<posts, serving, made, restarts>>

-----------------------------------------------------------------------------
(* Around them.                                                            *)

\* The endpoint comes to serve another file, of any name.
Serves(e) ==
    /\ made < MaxFiles /\ made' = made + 1
    /\ \E n \in Names : serving' = [serving EXCEPT ![e] = [name |-> n, file |-> <<e, made'>>]]
    /\ UNCHANGED <<posts, state, current_file, writers, temp, results, handed, faults, restarts>>

\* The node restarts: what is on disk stays.
Restart ==
    /\ restarts < MaxRestarts /\ restarts' = restarts + 1
    /\ state' = [e \in Endpoints |-> "OK"]
    /\ current_file' = [e \in Endpoints |-> None]
    /\ writers' = {}
    /\ UNCHANGED <<posts, serving, temp, results, handed, made, faults>>

Init ==
    /\ posts \in BOOLEAN
    /\ \E n \in Names : serving = [e \in Endpoints |-> [name |-> n, file |-> <<e, 0>>]]
    /\ state = [e \in Endpoints |-> "OK"]
    /\ current_file = [e \in Endpoints |-> None]
    /\ writers = {}
    /\ temp = [p \in Paths |-> None] /\ results = [p \in Paths |-> None]
    /\ handed = None
    /\ made = 0 /\ faults = 0 /\ restarts = 0

Next ==
    \/ \E e \in Endpoints :
           \/ Connected(e) \/ SetMetadata(e) \/ AddChunk(e) \/ LastChunk(e)
           \/ Reopen(e) \/ Rearm(e) \/ Serves(e)
    \/ Restart

Spec == Init /\ [][Next]_vars

-----------------------------------------------------------------------------
\* What a sink is given, and what stands in the results folder, is one file of
\* its endpoint from its first chunk to its last, though many reassemblies were given up, restarted
\* over or in progress next to it under the same name.
NeverTorn ==
    /\ handed = None \/ \E e \in Endpoints, n \in 0 .. MaxFiles : handed = Whole(<<e, n>>)
    /\ \A e \in Endpoints, name \in Names :
           results[<<e, name>>] # None =>
               \E n \in 0 .. MaxFiles : results[<<e, name>>] = Whole(<<e, n>>)

\* The chunks placed are on disk, and nobody but the reassemblies in progress
\* holds a writer.
BufferInPlace ==
    /\ \A e \in Endpoints :
           LET f == current_file[e]
           IN  f # None /\ state[e] = "PROCESS_CHUNK_STATE" /\ Writer(f) \in writers =>
                   /\ temp[f.path] # None
                   /\ \A i \in Chunks \ f.missing : temp[f.path][i] = f.file
    /\ \A w \in writers :
           \E e \in Endpoints : /\ state[e] = "PROCESS_CHUNK_STATE"
                                /\ Writer(current_file[e]) = w

\* "a lost final-OK may feed an (idempotent) sink twice": a sink that took a file
\* takes it again.
TakesItAgain ==
    [][\A e \in Endpoints :
           state[e] = "PROCESS_CHUNK_STATE" /\ state'[e] # "PROCESS_CHUNK_STATE"
           /\ Works /\ current_file'[e] # None => state'[e] = "OK"]_vars
=============================================================================
