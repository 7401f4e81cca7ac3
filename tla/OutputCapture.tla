---------------------------- MODULE OutputCapture ----------------------------
(***************************************************************************)
(* The raw output of the processes of one run: the launcher that records   *)
(* the start and the end of a process, the capture that cuts a stream into *)
(* chunks under a lock shared by the processes of the run, the blob store  *)
(* that writes a chunk beside its final name and renames it, and the row   *)
(* that makes it visible.                                                  *)
(*                                                                         *)
(* One stream (STDOUT) is modelled; a chunk is <<process, number>>.        *)
(***************************************************************************)
EXTENDS Naturals, Sequences, FiniteSets
LOCAL INSTANCE FiniteSetsExt

CONSTANTS
    Processes,      \* processes the run may start
    MaxOutput,      \* bound on the chunks of each process
    MaxStoreFaults  \* bound on failed writes and server crashes

VARIABLES
    captures,    \* each process's capture
    lockOf,      \* OutputRecorder.locks: the entry of the stream, or 0
    lockEntries, \* every entry ever made: its users and the mutex's holder
    tempBlobs,   \* files not yet renamed
    finalBlobs,  \* files under their final name
    chunkRows,   \* raw_output_chunks: [seq, chunk]
    toolEvents,  \* terminal tool events: [process, type, chunks]
    storeFaults

captureVars == <<captures, lockOf, lockEntries, tempBlobs, finalBlobs,
                 chunkRows, toolEvents, storeFaults>>

Unstarted == [at |-> "idle", entry |-> 0, seq |-> 0, taken |-> 0, failed |-> FALSE]

CaptureInit ==
    /\ captures = [p \in Processes |-> Unstarted]
    /\ lockOf = 0
    /\ lockEntries = <<>>
    /\ tempBlobs = {}
    /\ finalBlobs = {}
    /\ chunkRows = {}
    /\ toolEvents = {}
    /\ storeFaults = 0

Inside == {"list", "read", "put", "insert", "unlock"}
Moves(p, from, to) ==
    /\ captures[p].at = from
    /\ captures' = [captures EXCEPT ![p].at = to]
FailsAt(p, from) ==
    /\ captures[p].at = from
    /\ storeFaults < MaxStoreFaults
    /\ storeFaults' = storeFaults + 1
    /\ captures' = [captures EXCEPT ![p].at = "unlock", ![p].failed = TRUE]
Chunk(p) == <<p, captures[p].taken + 1>>
ChunksOf(p) == {r \in chunkRows : r.chunk[1] = p}

-----------------------------------------------------------------------------
(* The launcher: tool.started is recorded, then the session is started;    *)
(* its failure is recorded as the process's terminal event.                *)

LauncherStart(p) ==
    /\ Moves(p, "idle", "enter")
    /\ UNCHANGED <<lockOf, lockEntries, tempBlobs, finalBlobs, chunkRows,
                   toolEvents, storeFaults>>

recordFailure(p) ==
    /\ Moves(p, "idle", "over")
    /\ toolEvents' = toolEvents \cup {[process |-> p, type |-> "failed", chunks |-> {}]}
    /\ UNCHANGED <<lockOf, lockEntries, tempBlobs, finalBlobs, chunkRows, storeFaults>>

-----------------------------------------------------------------------------
(* The stream lock: the entry is found or made and counted under locksMu,  *)
(* its mutex taken outside it.                                             *)

acquireStreamLock(p) ==
    LET new == lockOf = 0
        id  == IF new THEN Len(lockEntries) + 1 ELSE lockOf
    IN /\ captures[p].at = "enter"
       /\ captures' = [captures EXCEPT ![p].at = "lock", ![p].entry = id]
       /\ lockOf' = id
       /\ lockEntries' = IF new THEN Append(lockEntries, [users |-> 1, holder |-> 0])
                         ELSE [lockEntries EXCEPT ![id].users = @ + 1]
       /\ UNCHANGED <<tempBlobs, finalBlobs, chunkRows, toolEvents, storeFaults>>

LockNothing(p) ==
    /\ Moves(p, "lock", "list")
    /\ lockEntries' = [lockEntries EXCEPT ![captures[p].entry].holder = p]
    /\ UNCHANGED <<lockOf, tempBlobs, finalBlobs, chunkRows, toolEvents, storeFaults>>
LockMutex(p) ==
    /\ captures[p].at = "lock" /\ lockEntries[captures[p].entry].holder = 0
    /\ captures' = [captures EXCEPT ![p].at = "list"]
    /\ lockEntries' = [lockEntries EXCEPT ![captures[p].entry].holder = p]
    /\ UNCHANGED <<lockOf, tempBlobs, finalBlobs, chunkRows, toolEvents, storeFaults>>

UnlockMutex(p) ==
    /\ Moves(p, "unlock", "leave")
    /\ lockEntries' = [lockEntries EXCEPT ![captures[p].entry].holder = 0]
    /\ UNCHANGED <<lockOf, tempBlobs, finalBlobs, chunkRows, toolEvents, storeFaults>>

(* The last user deletes the entry.                                        *)
releaseStreamLock(p) ==
    LET id == captures[p].entry
    IN /\ Moves(p, "leave", "done")
       /\ lockEntries' = [lockEntries EXCEPT ![id].users = @ - 1]
       /\ lockOf' = IF lockEntries[id].users = 1 /\ lockOf = id THEN 0 ELSE lockOf
       /\ UNCHANGED <<tempBlobs, finalBlobs, chunkRows, toolEvents, storeFaults>>

-----------------------------------------------------------------------------
(* The capture loop.                                                       *)

(* The sequence continues the stream's rows, those of other processes      *)
(* included.                                                               *)
ListRawOutputChunks(p) ==
    /\ captures[p].at = "list"
    /\ captures' = [captures EXCEPT ![p].at = "read",
                      ![p].seq = Max({r.seq : r \in chunkRows} \cup {0})]
    /\ UNCHANGED <<lockOf, lockEntries, tempBlobs, finalBlobs, chunkRows,
                   toolEvents, storeFaults>>

ListFails(p) ==
    /\ FailsAt(p, "list")
    /\ UNCHANGED <<lockOf, lockEntries, tempBlobs, finalBlobs, chunkRows, toolEvents>>

(* The source ends, with or without a last partial chunk before it.        *)
SourceEnds(p) ==
    /\ Moves(p, "read", "unlock")
    /\ UNCHANGED <<lockOf, lockEntries, tempBlobs, finalBlobs, chunkRows,
                   toolEvents, storeFaults>>

PutBlob(p) ==
    /\ captures[p].taken < MaxOutput[p]
    /\ Moves(p, "read", "put")
    /\ tempBlobs' = tempBlobs \cup {Chunk(p)}
    /\ UNCHANGED <<lockOf, lockEntries, finalBlobs, chunkRows, toolEvents, storeFaults>>

(* Writing, syncing or renaming fails, or the blob is too large: the       *)
(* temporary file is removed and the capture ends.                         *)
PutFails(p) ==
    /\ FailsAt(p, "put")
    /\ tempBlobs' = tempBlobs \ {Chunk(p)}
    /\ UNCHANGED <<lockOf, lockEntries, finalBlobs, chunkRows, toolEvents>>

CommitBlob(p) ==
    /\ Moves(p, "put", "insert")
    /\ tempBlobs' = tempBlobs \ {Chunk(p)}
    /\ finalBlobs' = finalBlobs \cup {Chunk(p)}
    /\ UNCHANGED <<lockOf, lockEntries, chunkRows, toolEvents, storeFaults>>

(* The row is refused when its sequence number is taken; the blob stays.   *)
CreateRawOutputChunk(p) ==
    LET seq == captures[p].seq + 1
        taken == \E r \in chunkRows : r.seq = seq
    IN /\ captures[p].at = "insert"
       /\ captures' = [captures EXCEPT
             ![p] = IF taken THEN [@ EXCEPT !.at = "unlock", !.failed = TRUE]
                    ELSE [@ EXCEPT !.at = "read", !.seq = seq, !.taken = @ + 1]]
       /\ chunkRows' = IF taken THEN chunkRows
                       ELSE chunkRows \cup {[seq |-> seq, chunk |-> Chunk(p)]}
       /\ UNCHANGED <<lockOf, lockEntries, tempBlobs, finalBlobs, toolEvents, storeFaults>>

InsertFails(p) ==
    /\ FailsAt(p, "insert")
    /\ UNCHANGED <<lockOf, lockEntries, tempBlobs, finalBlobs, chunkRows, toolEvents>>

-----------------------------------------------------------------------------
(* Wait: once the process has ended and the capture is done one terminal   *)
(* event names the chunks, none of them when the capture failed.           *)

WaitProcess(p) ==
    /\ Moves(p, "done", "over")
    /\ \E type \in IF captures[p].failed THEN {"failed"}
                   ELSE {"completed", "failed", "stopped"} :
          toolEvents' = toolEvents \cup
             {[process |-> p, type |-> type,
               chunks |-> IF captures[p].failed THEN {}
                          ELSE {r.seq : r \in ChunksOf(p)}]}
    /\ UNCHANGED <<lockOf, lockEntries, tempBlobs, finalBlobs, chunkRows, storeFaults>>

(* The server dies: goroutines, locks and pipes are gone, files and rows   *)
(* stay.                                                                   *)
CaptureServerDies ==
    /\ storeFaults < MaxStoreFaults
    /\ storeFaults' = storeFaults + 1
    /\ captures' = [p \in Processes |->
          IF captures[p].at \in {"idle", "over"} THEN captures[p]
          ELSE [captures[p] EXCEPT !.at = "lost", !.entry = 0]]
    /\ lockOf' = 0
    /\ lockEntries' = <<>>
    /\ UNCHANGED <<tempBlobs, finalBlobs, chunkRows, toolEvents>>

CaptureStep(p) ==
    \/ acquireStreamLock(p)
    \/ LockMutex(p)
    \/ UnlockMutex(p)
    \/ releaseStreamLock(p)
    \/ ListRawOutputChunks(p)
    \/ SourceEnds(p)
    \/ PutBlob(p)
    \/ CommitBlob(p)
    \/ CreateRawOutputChunk(p)
    \/ WaitProcess(p)

CaptureNext ==
    \/ \E p \in Processes :
          \/ LauncherStart(p)
          \/ recordFailure(p)
          \/ CaptureStep(p)
          \/ ListFails(p)
          \/ PutFails(p)
          \/ InsertFails(p)
    \/ CaptureServerDies

(* A goroutine that can go on does; a process's output ends.               *)
CaptureFairness == \A p \in Processes : WF_captureVars(CaptureStep(p))

CaptureFairSpec == CaptureInit /\ [][CaptureNext]_captureVars /\ CaptureFairness

-----------------------------------------------------------------------------
(* Properties.                                                             *)

(* Types: the table holds the entry exactly while a capture uses it, and   *)
(* an entry's count is the number of its users.                            *)
CaptureTypeOK ==
    /\ lockOf \in 0..Len(lockEntries)
    /\ \A i \in DOMAIN lockEntries :
          LET users == {p \in Processes : captures[p].entry = i
                          /\ captures[p].at \in Inside \cup {"lock", "leave"}}
          IN /\ lockEntries[i].users = Cardinality(users)
             /\ lockEntries[i].users > 0 <=> lockOf = i
    /\ tempBlobs \cap finalBlobs = {}

(* The rows of a stream are numbered without a gap, and the chunks of one  *)
(* process are consecutive and in the order they were read, although the   *)
(* number is taken from a listing made before the first write.             *)
ChunksAreInOrder ==
    /\ {r.seq : r \in chunkRows} = 1..Cardinality(chunkRows)
    /\ \A r, s \in chunkRows :
          r.chunk[1] = s.chunk[1] =>
             (r.seq + s.chunk[2] = s.seq + r.chunk[2])

(* Listing, writing and inserting are three steps, but the lock keeps      *)
(* other captures out of all of them: a capture fails only where a store   *)
(* does, never because another process took its sequence number.           *)
NoConflict == (\E p \in Processes : captures[p].failed) => storeFaults > 0

(* A row's blob is there under its final name, also after a crash between  *)
(* the rename and the insert or a failed insert.                           *)
RowsHaveBlobs == \A r \in chunkRows : r.chunk \in finalBlobs

(* One terminal event per process, and one that says completed names all   *)
(* the chunks of its process.                                              *)
CompletedNamesOutput ==
    /\ \A e, f \in toolEvents : e.process = f.process => e = f
    /\ \A e \in toolEvents : e.type = "completed" =>
          e.chunks = {r.seq : r \in ChunksOf(e.process)}

(* A capture that was started comes to its end: waiting for the stream's   *)
(* lock is never waiting for a capture that has gone.                      *)
CapturesEnd == []<>(\A p \in Processes : captures[p].at \in {"idle", "over", "lost"})

\* CaptureSafe: the chunks of a stream are numbered in the order of the output by
\* whichever process stores them, every row has its blob, two captures never
\* collide, and a completed tool event names exactly its output.
CaptureSafe == /\ CaptureTypeOK /\ ChunksAreInOrder /\ NoConflict
               /\ RowsHaveBlobs /\ CompletedNamesOutput
=============================================================================
