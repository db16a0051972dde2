---------------------------- MODULE ReadingAudio ----------------------------
(***************************************************************************)
(* The audio of one reading, from GET /reading/{id}/stream to the replay.  *)
(*                                                                         *)
(* Every open of the stream starts the pipeline again: it speaks a take,   *)
(* puts its chunks under keys 0, 1, ... whatever is stored there, and after *)
(* its `end' event enqueues a finalize_audio job.  The job lists and reads *)
(* the chunks, stitches main.mp3, lists again and deletes them one by one, *)
(* and only then upserts the reading_audio row; each of these awaits lets  *)
(* another stream or job in.  The job ends with a flush: whoever runs it   *)
(* commits its session, or does not.  No code of src/ drains the queue or  *)
(* commits, so nothing here is fair.  Once taken up a job may be           *)
(* interrupted anywhere and handed out again.                              *)
(*                                                                         *)
(* Chunk bytes are abstracted to the take they are of, a stitched file to  *)
(* the set of its chunks (keys are listed in order, so a set fixes it), a  *)
(* duration to a number of chunks: the pipeline counts 200 ms for each.    *)
(* Which sentences the LLM writes and the guardrail blocks decides only how *)
(* many chunks a take has; subtitles touch nothing that is stored.         *)
(***************************************************************************)
EXTENDS Naturals, FiniteSets

CONSTANTS Streams,            \* requests that open the stream, and their jobs
          MaxSeq,             \* bound: chunks of a take
          MinTake, MaxTake,   \* the 60 s and 120 s of audio_duration_chk, in chunks
          MaxCrashes          \* bound: deaths of a worker during a job

ASSUME ReadingAudioAssumption ==
    /\ {MaxSeq, MinTake, MaxTake, MaxCrashes} \subseteq Nat
    /\ 0 < MinTake

VARIABLES store,        \* the chunks in object storage
          main,         \* main.mp3, {} when there is none
          row,          \* the reading_audio row
          stream,       \* how far each pipeline is
          job,          \* how far each finalize job is
          crashes,      \* deaths of a worker so far
          disturbed,    \* history: takes overlapped or a half-deleted one was rerun
          settled       \* history: the last writer of main.mp3 also wrote the row

audio == <<store, main, row, stream, job, crashes, disturbed, settled>>

-----------------------------------------------------------------------------
(* Types *)

Seqs  == 0 .. MaxSeq - 1
Chunk == [seq : Seqs, take : Streams]
Blob  == SUBSET Chunk

AudioRow   == [hash : Blob, size : Nat, duration : Nat]
NoAudio == [hash |-> {}, size |-> 0, duration |-> 0]

Pipeline == [stage : {"closed", "speaking", "ended", "finished", "gone"}, seq : 0 .. MaxSeq]

Active == {"read", "put", "relist", "delete", "load", "write", "commit"}
Job    == [stage   : Active \cup {"none", "queued", "done", "failed", "dropped"},
           left    : SUBSET Seqs,        \* keys still to read or to delete
           data    : Blob,               \* the bytes stitched so far
           loaded  : AudioRow,           \* the row its session read
           crossed : BOOLEAN]            \* history: another job wrote in between
NoJob  == [stage |-> "none", left |-> {}, data |-> {}, loaded |-> NoAudio, crossed |-> FALSE]

AudioTypeOK ==
    /\ store \in Blob
    /\ main \in Blob
    /\ row \in AudioRow
    /\ stream \in [Streams -> Pipeline]
    /\ job \in [Streams -> Job]
    /\ crashes \in Nat
    /\ disturbed \in BOOLEAN
    /\ settled \in BOOLEAN

AudioInit ==
    /\ store = {}
    /\ main = {}
    /\ row = NoAudio
    /\ stream = [s \in Streams |-> [stage |-> "closed", seq |-> 0]]
    /\ job = [s \in Streams |-> NoJob]
    /\ crashes = 0
    /\ disturbed = FALSE
    /\ settled = FALSE

-----------------------------------------------------------------------------
(* Helpers *)

Keys(blob) == {c.seq : c \in blob}
First(K)   == CHOOSE k \in K : \A other \in K : k <= other
ChunkAt(k)      == {c \in store : c.seq = k}

\* The take of stream s as spoken so far.
Take(s) == {c \in Chunk : c.take = s /\ c.seq < stream[s].seq}

\* No pipeline is speaking, no job is under way and no chunk is left over.
Quiet ==
    /\ store = {}
    /\ \A s \in Streams : /\ stream[s].stage \notin {"speaking", "ended"}
                          /\ job[s].stage \notin Active \cup {"queued"}

GoTo(s, stage) == job' = [job EXCEPT ![s].stage = stage]

\* The jobs after step `j' of job s, when other jobs at `stages' are crossed by it.
Crossing(s, j, stages) ==
    [t \in Streams |->
        IF t = s THEN j
        ELSE [job[t] EXCEPT !.crossed = @ \/ job[t].stage \in stages]]

\* UPDATE writes only the columns that differ from the row as loaded.
Merge(old, new, current) == IF new = old THEN current ELSE new

-----------------------------------------------------------------------------
(* The pipeline of one GET /reading/{id}/stream *)

Open(s) ==
    /\ stream[s].stage = "closed"
    /\ stream' = [stream EXCEPT ![s].stage = "speaking"]
    /\ disturbed' = (disturbed \/ ~Quiet)
    /\ UNCHANGED <<store, main, row, job, crashes, settled>>

PutChunk_Swallowed(s) ==
    /\ stream[s].stage = "speaking"
    /\ stream[s].seq < MaxSeq
    /\ store' \in {store, store \cup {[seq |-> stream[s].seq, take |-> s]}}
    /\ stream' = [stream EXCEPT ![s].seq = @ + 1]
    /\ UNCHANGED <<main, row, job, crashes, disturbed, settled>>

\* One TTS chunk: put under its sequence number, then announced.
PutChunk(s) ==
    /\ stream[s].stage = "speaking"
    /\ stream[s].seq < MaxSeq
    /\ store' = (store \ ChunkAt(stream[s].seq)) \cup {[seq |-> stream[s].seq, take |-> s]}
    /\ stream' = [stream EXCEPT ![s].seq = @ + 1]
    /\ UNCHANGED <<main, row, job, crashes, disturbed, settled>>

EmitEnd_Misspelt(s) ==
    /\ stream[s].stage = "speaking"
    /\ stream' = [stream EXCEPT ![s].stage = "end"]
    /\ UNCHANGED <<main, row, store, job, crashes, disturbed, settled>>

\* The LLM has no more sentences.
EmitEnd(s) ==
    /\ stream[s].stage = "speaking"
    /\ stream' = [stream EXCEPT ![s].stage = "ended"]
    /\ UNCHANGED <<store, main, row, job, crashes, disturbed, settled>>

Enqueue(s) ==
    /\ stream[s].stage = "ended"
    /\ stream' = [stream EXCEPT ![s].stage = "finished"]
    /\ GoTo(s, "queued")
    /\ UNCHANGED <<store, main, row, crashes, disturbed, settled>>

\* The client goes away, or the LLM, the TTS or the storage raises.
Abandon(s) ==
    /\ stream[s].stage \in {"speaking", "ended"}
    /\ stream' = [stream EXCEPT ![s].stage = "gone"]
    /\ UNCHANGED <<store, main, row, job, crashes, disturbed, settled>>

-----------------------------------------------------------------------------
(* finalize_audio *)

\* list_chunks; no chunk is a ValueError.
List(s) ==
    /\ job[s].stage = "queued"
    /\ job' = [job EXCEPT ![s] = IF store = {} THEN [NoJob EXCEPT !.stage = "failed"]
                                 ELSE [NoJob EXCEPT !.stage = "read", !.left = Keys(store)]]
    /\ UNCHANGED <<store, main, row, stream, crashes, disturbed, settled>>

Read_SkipsUpload(s) ==
    /\ job[s].stage = "read"
    /\ LET left == job[s].left \ {First(job[s].left)}
       IN  job' = [job EXCEPT ![s].left = left,
                              ![s].stage = IF left = {} THEN "relist" ELSE "read"]
    /\ UNCHANGED <<store, main, row, stream, crashes, disturbed, settled>>

\* get_object of the next key; a missing one is a KeyError.
Read(s) ==
    /\ job[s].stage = "read"
    /\ LET k == First(job[s].left)
           left == job[s].left \ {k}
       IN  IF ChunkAt(k) = {} THEN GoTo(s, "failed")
           ELSE job' = [job EXCEPT ![s].data = @ \cup ChunkAt(k), ![s].left = left,
                                   ![s].stage = IF left = {} THEN "put" ELSE "read"]
    /\ UNCHANGED <<store, main, row, stream, crashes, disturbed, settled>>

PutMain(s) ==
    /\ job[s].stage = "put"
    /\ main' = job[s].data
    /\ job' = Crossing(s, [job[s] EXCEPT !.stage = "relist"],
                       {"relist", "delete", "load", "write", "commit"})
    /\ settled' = FALSE
    /\ UNCHANGED <<store, row, stream, crashes, disturbed>>

\* delete_chunks lists the chunks again ...
Relist(s) ==
    /\ job[s].stage = "relist"
    /\ job' = [job EXCEPT ![s].left = Keys(store),
                          ![s].stage = IF store = {} THEN "load" ELSE "delete"]
    /\ UNCHANGED <<store, main, row, stream, crashes, disturbed, settled>>

\* ... and deletes them one by one; a missing one is no error.
Delete(s) ==
    /\ job[s].stage = "delete"
    /\ LET k == First(job[s].left)
           left == job[s].left \ {k}
       IN  /\ store' = store \ ChunkAt(k)
           /\ job' = [job EXCEPT ![s].left = left,
                                 ![s].stage = IF left = {} THEN "load" ELSE "delete"]
    /\ UNCHANGED <<main, row, stream, crashes, disturbed, settled>>

Load_ScalarOne(s) ==
    /\ job[s].stage = "load"
    /\ IF row = NoAudio THEN GoTo(s, "failed")
       ELSE job' = [job EXCEPT ![s].loaded = row, ![s].stage = "write"]
    /\ UNCHANGED <<store, main, row, stream, crashes, disturbed, settled>>

\* _upsert_reading_audio reads the row ...
Load(s) ==
    /\ job[s].stage = "load"
    /\ job' = [job EXCEPT ![s].loaded = row, ![s].stage = "write"]
    /\ UNCHANGED <<store, main, row, stream, crashes, disturbed, settled>>

\* ... and inserts or updates it, unless the unique reading_id or
\* audio_duration_chk (an empty take is counted as 1 s) refuses.
RowRefused(s, duration) ==
    \/ duration \notin MinTake .. MaxTake
    \/ job[s].loaded = NoAudio /\ row # NoAudio

Upserted_SizeKept(s, duration) ==
    [hash     |-> job[s].data,
     size     |-> IF row = NoAudio THEN Cardinality(job[s].data) ELSE row.size,
     duration |-> duration]

Recorded(s, duration) ==
    [hash |-> job[s].data, size |-> Cardinality(job[s].data), duration |-> duration]

Upserted(s, duration) ==
    LET old == job[s].loaded
        new == Recorded(s, duration)
    IN  [hash     |-> Merge(old.hash, new.hash, row.hash),
         size     |-> Merge(old.size, new.size, row.size),
         duration |-> Merge(old.duration, new.duration, row.duration)]

\* The flush waits for a session that has flushed and not committed, unless it
\* finds nothing to change.
Write(s) ==
    /\ job[s].stage = "write"
    /\ \/ job[s].loaded = Recorded(s, stream[s].seq)
       \/ \A t \in Streams : job[t].stage # "commit"
    /\ GoTo(s, IF RowRefused(s, stream[s].seq) THEN "failed" ELSE "commit")
    /\ UNCHANGED <<store, main, row, stream, crashes, disturbed, settled>>

\* The caller of the job (external) commits the session it gave it ...
CallerCommits(s) ==
    /\ job[s].stage = "commit"
    /\ row' = Upserted(s, stream[s].seq)
    /\ job' = Crossing(s, [job[s] EXCEPT !.stage = "done"], {"write", "commit"})
    /\ settled' = ~job[s].crossed
    /\ UNCHANGED <<store, main, stream, crashes, disturbed>>

\* ... or lets go of it, and what was flushed is rolled back.
CallerDrops(s) ==
    /\ job[s].stage = "commit"
    /\ GoTo(s, "dropped")
    /\ UNCHANGED <<store, main, row, stream, crashes, disturbed, settled>>

-----------------------------------------------------------------------------
(* The queue (external): the worker dies, or the job runs into job_timeout; *)
(* the queue hands the job out again or drops it.                          *)

Crash(s) ==
    /\ job[s].stage \in Active
    /\ crashes < MaxCrashes
    /\ crashes' = crashes + 1
    /\ disturbed' = (disturbed \/ (job[s].stage = "delete" /\ store # job[s].data))
    /\ \E next \in {"queued", "failed"} : GoTo(s, next)
    /\ UNCHANGED <<store, main, row, stream, settled>>

JobStep(s) == \/ List(s) \/ Read(s) \/ PutMain(s) \/ Relist(s)
              \/ Delete(s) \/ Load(s) \/ Write(s) \/ CallerCommits(s) \/ CallerDrops(s)

AudioNext == \E s \in Streams :
            \/ Open(s) \/ PutChunk(s) \/ EmitEnd(s) \/ Enqueue(s) \/ Abandon(s)
            \/ JobStep(s) \/ Crash(s)

AudioSpec == AudioInit /\ [][AudioNext]_audio

-----------------------------------------------------------------------------
(* The replay: GET /reading/{id}/audio.mp3 *)

Gone == [status |-> 410]
Replay == IF row = NoAudio \/ main = {} THEN Gone
          ELSE [status |-> 200, etag |-> row.hash, length |-> row.size, body |-> main]

-----------------------------------------------------------------------------
(* Properties *)

\* Once a row exists the replay is served, and while the last job to store
\* main.mp3 has also written the row uncrossed, it is served with the ETag and
\* the length of the very file: finalize_audio stores first and records last,
\* and an UPDATE leaves out the columns it believes unchanged.
ReplayHonest ==
    /\ row # NoAudio => Replay.status = 200
    /\ settled => Replay = [status |-> 200, etag |-> main, length |-> Cardinality(main), body |-> main]

IsTake(blob) == \E s \in Streams : blob = Take(s)

\* Unless takes overlapped, left chunks behind, or a job died among its deletes,
\* main.mp3 is one whole take and the row has its duration: nothing of another
\* take, nothing missing, although chunks are read, listed again and deleted one
\* at a time, by jobs that die and run again.
WholeTake ==
    ~disturbed =>
        /\ main # {} => IsTake(main)
        /\ settled => row.duration = Cardinality(main)

\* Streams that are opened again, jobs that run beside each other, die and run
\* again only ever do to the replay what ReplayPromise allows.
Replayed == INSTANCE ReplayPromise WITH
               Takes    <- Streams,
               spoken   <- [s \in Streams |-> stream[s].seq],
               complete <- {s \in Streams : stream[s].stage = "finished"},
               file     <- main,
               record   <- row

ReplayPromiseKept == Replayed!Spec

\* Chunks leave the store only into main.mp3, unless takes overlapped or a
\* half-deleted one was rerun: a player or a later run finds every other chunk.
DeletedOnlyWhenStitched ==
    [][\A c \in store \ store' : disturbed' \/ c \in main]_audio

\* A job that has ended leaves the reading replayable: its own chunks, or those
\* another job took from under it, are in a file that is recorded, or will be by
\* a job that is past deleting.  Otherwise a worker died, a caller did not
\* commit, or a take of a forbidden length was refused.
EndedTakeReplayable ==
    (\E s \in Streams : job[s].stage \in {"done", "failed"}) =>
        \/ row # NoAudio
        \/ crashes > 0
        \/ \E t \in Streams : job[t].stage \in {"delete", "load", "write", "commit", "dropped"}
        \/ \E t \in Streams : job[t].stage = "failed" /\ stream[t].seq \notin MinTake .. MaxTake

\* audio_finalize.py: "a crash in the middle leaves the audio recoverable via
\* the main.mp3 path", and re-runs are idempotent: a whole main.mp3 stays whole.
CrashRecoverable ==
    [][main # {} /\ IsTake(main) => IsTake(main)']_audio

=============================================================================
