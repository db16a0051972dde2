------------------------ MODULE ReadingAudio_proofs -------------------------
(***************************************************************************)
(* Proofs about ReadingAudio, for any number of streams, chunks and        *)
(* crashes and any duration window.                                        *)
(***************************************************************************)
EXTENDS ReadingAudio, FiniteSetTheorems, WellFoundedInduction, TLAPS

USE ReadingAudioAssumption

\* What is stored and what a job holds are finite, so a size is a number.
Finite ==
    /\ IsFiniteSet(store)
    /\ \A s \in Streams : IsFiniteSet(job[s].data)

Types == AudioTypeOK /\ Finite

Stored == {"relist", "delete", "load", "write", "commit"}

\* What a job that nobody crossed knows of main.mp3 and of the row.
Knows(s) ==
    /\ job[s].stage = "read" => job[s].left # {}
    /\ job[s].stage = "put" => job[s].data # {}
    /\ job[s].stage \in Stored => main # {}
    /\ job[s].stage \in Stored /\ ~job[s].crossed => main = job[s].data
    /\ job[s].stage \in {"write", "commit"} /\ ~job[s].crossed => job[s].loaded = row

Honest ==
    /\ row # NoAudio => main # {}
    /\ settled => /\ main # {}
                  /\ row.hash = main
                  /\ row.size = Cardinality(main)
    /\ \A s \in Streams : Knows(s)

Busy(s) ==
    \/ stream[s].stage \in {"speaking", "ended"}
    \/ job[s].stage \in Active \cup {"queued"}

\* Where the chunks of the only busy stream are, stage by stage.
Holds(s) ==
    /\ stream[s].stage \in {"speaking", "ended"} => store = Take(s)
    /\ job[s].stage = "queued" => store \in {Take(s), {}}
    /\ job[s].stage \in {"read", "put", "relist"} => store = Take(s)
    /\ job[s].stage = "read" => job[s].data = {c \in store : c.seq \notin job[s].left}
    /\ job[s].stage \in Stored \cup {"put"} => job[s].data = Take(s)
    /\ job[s].stage \in Stored => main = Take(s)
    /\ job[s].stage = "delete" => store \subseteq Take(s) /\ job[s].left = Keys(store)
    /\ job[s].stage \in {"load", "write", "commit"} => store = {}

OneBusy == \A s, t \in Streams : Busy(s) /\ Busy(t) => s = t

Undisturbed ==
    /\ \A s \in Streams : /\ stream[s].stage = "closed" => stream[s].seq = 0
                          /\ job[s].stage # "none" => stream[s].stage = "finished"
    /\ ~disturbed =>
         /\ OneBusy
         /\ main = {} \/ \E s \in Streams : stream[s].stage = "finished" /\ main = Take(s)
         /\ settled => row.duration = Cardinality(main)
         /\ \A s \in Streams : Holds(s)

Inv == Types /\ Honest /\ Undisturbed

-----------------------------------------------------------------------------
(* Sets of chunks *)

LEMMA AtFinite ==
    ASSUME IsFiniteSet(store), NEW k PROVE IsFiniteSet(ChunkAt(k))
BY FS_Subset DEF ChunkAt

\* A take of n chunks has n elements.
LEMMA TakeSize ==
    ASSUME AudioTypeOK, NEW s \in Streams
    PROVE  Cardinality(Take(s)) = stream[s].seq
<1> DEFINE n == stream[s].seq
           f == [i \in 0 .. n - 1 |-> [seq |-> i, take |-> s]]
<1>1. n \in Nat /\ n <= MaxSeq
  BY DEF AudioTypeOK, Pipeline
<1>2. \A c \in Take(s) : c \in Chunk /\ c.take = s /\ c.seq \in 0 .. n - 1
  BY <1>1 DEF Take, Chunk, Seqs
<1>3. \A i \in 0 .. n - 1 : f[i] \in Take(s)
  BY <1>1 DEF Take, Chunk, Seqs
<1>4. \A c \in Take(s) : f[c.seq] = c
  BY <1>2 DEF Chunk
<1>5. \A i, j \in 0 .. n - 1 : f[i] = f[j] => i = j
  OBVIOUS
<1> HIDE DEF n
<1>6. f \in Bijection(0 .. n - 1, Take(s))
  <2>1. f \in [0 .. n - 1 -> Take(s)]
    BY <1>3
  <2> HIDE DEF f
  <2>2. \A c \in Take(s) : \E i \in 0 .. n - 1 : f[i] = c
    BY <1>2, <1>4
  <2> QED
    BY <1>5, <2>1, <2>2 DEF Bijection, Injection, Surjection, IsInjective
<1>7. IsFiniteSet(0 .. n - 1) /\ Cardinality(0 .. n - 1) = n
  <2>1. 0 \in Int /\ n - 1 \in Int /\ (0 > n - 1 <=> n = 0)
    BY <1>1
  <2>2. Cardinality(0 .. n - 1) = IF 0 > n - 1 THEN 0 ELSE n - 1 - 0 + 1
    BY <2>1, FS_Interval
  <2> QED
    BY <1>1, <2>1, <2>2, FS_Interval
<1>8. Cardinality(Take(s)) = Cardinality(0 .. n - 1)
  BY <1>6, <1>7, FS_Bijection DEF ExistsBijection
<1> QED
  BY <1>7, <1>8 DEF n

\* The first of some keys is one of them.
LEMMA FirstIsOne ==
    ASSUME NEW K \in SUBSET Nat, K # {} PROVE First(K) \in K
<1> DEFINE R == OpToRel(<, Nat)
<1>1. \A x, y \in Nat : y < x => <<y, x>> \in R
  BY Zenon DEF OpToRel
<1>2. IsWellFoundedOn(R, Nat)
  BY NatLessThanWellFounded, Zenon
<1> HIDE DEF R
<1>3. PICK k \in K : \A other \in K : ~(<<other, k>> \in R)
  BY <1>2, WFMin, Zenon
<1>4. \A other \in K : k <= other
  <2> SUFFICES ASSUME NEW other \in K, other < k PROVE FALSE
    OBVIOUS
  <2> QED
    BY <1>1, <1>3
<1> QED
  BY <1>4 DEF First

-----------------------------------------------------------------------------
(* Types *)

LEMMA TypesInit == AudioInit => Types
<1> SUFFICES ASSUME AudioInit PROVE Types
  OBVIOUS
<1>1. NoAudio \in AudioRow
  BY DEF NoAudio, AudioRow, Blob
<1>2. NoJob \in Job /\ NoJob.data = {}
  BY <1>1 DEF NoJob, Job, Blob
<1>3. [stage |-> "closed", seq |-> 0] \in Pipeline
  BY DEF Pipeline
<1>4. AudioTypeOK
  BY <1>1, <1>2, <1>3 DEF AudioInit, AudioTypeOK, Blob
<1> QED
  BY <1>2, <1>4, FS_EmptySet DEF AudioInit, Types, Finite

\* Replacing one job by another well typed one, with finite data.
LEMMA TypesJob ==
    ASSUME Types, NEW s \in Streams, NEW j \in Job, IsFiniteSet(j.data),
           job' = [job EXCEPT ![s] = j]
    PROVE  /\ job' \in [Streams -> Job]
           /\ \A t \in Streams : IsFiniteSet(job'[t].data)
BY DEF Types, AudioTypeOK, Finite

\* A job that only changes stage keeps the rest.
LEMMA TypesGoTo ==
    ASSUME Types, NEW s \in Streams,
           \E stage \in {"failed", "queued", "commit", "dropped"} : GoTo(s, stage)
    PROVE  /\ job' \in [Streams -> Job]
           /\ \A t \in Streams : IsFiniteSet(job'[t].data)
<1>1. PICK stage \in {"failed", "queued", "commit", "dropped"} :
        job' = [job EXCEPT ![s].stage = stage]
  BY DEF GoTo
<1>2. /\ job[s] \in Job /\ IsFiniteSet(job[s].data)
      /\ [job[s] EXCEPT !.stage = stage] \in Job
  BY <1>1 DEF Types, AudioTypeOK, Finite, Job, Active
<1>3. /\ job' = [job EXCEPT ![s] = [job[s] EXCEPT !.stage = stage]]
      /\ [job[s] EXCEPT !.stage = stage].data = job[s].data
  BY <1>1, <1>2 DEF Types, AudioTypeOK, Job
<1> QED
  BY <1>2, <1>3, TypesJob

LEMMA TypesCrossing ==
    ASSUME Types, NEW s \in Streams, NEW j \in Job, IsFiniteSet(j.data), NEW S,
           job' = Crossing(s, j, S)
    PROVE  /\ job' \in [Streams -> Job]
           /\ \A t \in Streams : IsFiniteSet(job'[t].data)
<1> SUFFICES ASSUME NEW t \in Streams
             PROVE  job'[t] \in Job /\ IsFiniteSet(job'[t].data)
  BY DEF Crossing
<1>1. CASE t = s
  BY <1>1 DEF Crossing
<1>2. CASE t # s
  <2>1. job[t] \in Job /\ IsFiniteSet(job[t].data)
    BY DEF Types, AudioTypeOK, Finite
  <2>2. job'[t] = [job[t] EXCEPT !.crossed = job[t].crossed \/ job[t].stage \in S]
    BY <1>2 DEF Crossing
  <2>3. (job[t].crossed \/ job[t].stage \in S) \in BOOLEAN
    BY <2>1 DEF Job
  <2> QED
    BY <2>1, <2>2, <2>3 DEF Job
<1> QED
  BY <1>1, <1>2

LEMMA TypesStream ==
    ASSUME Types, NEW s \in Streams,
           Open(s) \/ PutChunk(s) \/ EmitEnd(s) \/ Enqueue(s) \/ Abandon(s)
    PROVE  Types'
<1> USE DEF Types
<1>1. stream[s] \in Pipeline /\ job[s] \in Job /\ store \in Blob /\ IsFiniteSet(job[s].data)
  BY DEF AudioTypeOK, Finite
<1>2. CASE Open(s)
  BY <1>1, <1>2 DEF Open, AudioTypeOK, Finite, Pipeline
<1>3. CASE PutChunk(s)
  <2> DEFINE c == [seq |-> stream[s].seq, take |-> s]
  <2>1. c \in Chunk /\ stream[s].seq + 1 \in 0 .. MaxSeq
    BY <1>1, <1>3 DEF PutChunk, Chunk, Seqs, Pipeline
  <2>2. store' = (store \ ChunkAt(stream[s].seq)) \cup {c}
    BY <1>3 DEF PutChunk
  <2>3. IsFiniteSet(store \ ChunkAt(stream[s].seq))
    BY FS_Subset DEF Finite
  <2> HIDE DEF c
  <2>4. store' \in Blob /\ IsFiniteSet(store')
    BY <1>1, <2>1, <2>2, <2>3, FS_AddElement DEF Blob
  <2> QED
    BY <1>1, <1>3, <2>1, <2>4 DEF PutChunk, AudioTypeOK, Finite, Pipeline
<1>4. CASE EmitEnd(s)
  BY <1>1, <1>4 DEF EmitEnd, AudioTypeOK, Finite, Pipeline
<1>5. CASE Enqueue(s)
  <2> DEFINE j == [job[s] EXCEPT !.stage = "queued"]
  <2>1. j \in Job /\ IsFiniteSet(j.data) /\ job' = [job EXCEPT ![s] = j]
    BY <1>1, <1>5 DEF Enqueue, GoTo, Job, AudioTypeOK
  <2>2. stream' \in [Streams -> Pipeline]
    BY <1>1, <1>5 DEF Enqueue, AudioTypeOK, Pipeline
  <2> HIDE DEF j
  <2> QED
    BY <1>5, <2>1, <2>2, TypesJob DEF Enqueue, AudioTypeOK, Finite
<1>6. CASE Abandon(s)
  BY <1>1, <1>6 DEF Abandon, AudioTypeOK, Finite, Pipeline
<1> QED
  BY <1>2, <1>3, <1>4, <1>5, <1>6

LEMMA UpsertedType ==
    ASSUME Types, NEW s \in Streams PROVE Upserted(s, stream[s].seq) \in AudioRow
<1>1. /\ job[s] \in Job /\ row \in AudioRow /\ stream[s] \in Pipeline
      /\ Cardinality(job[s].data) \in Nat
  BY FS_CardinalityType DEF Types, AudioTypeOK, Finite
<1>2. job[s].loaded \in AudioRow /\ Recorded(s, stream[s].seq) \in AudioRow
  BY <1>1 DEF Recorded, AudioRow, Job, Pipeline
<1> QED
  BY <1>1, <1>2 DEF Upserted, Merge, AudioRow

LEMMA TypesJobStep ==
    ASSUME Types, NEW s \in Streams, JobStep(s) \/ Crash(s)
    PROVE  Types'
<1>1. /\ job[s] \in Job /\ IsFiniteSet(job[s].data) /\ IsFiniteSet(store)
      /\ job \in [Streams -> Job] /\ store \in Blob /\ row \in AudioRow /\ main \in Blob
  BY DEF Types, AudioTypeOK, Finite
<1>2. Keys(store) \subseteq Seqs /\ \A k : ChunkAt(k) \subseteq store
  BY <1>1 DEF Keys, ChunkAt, Blob, Chunk
<1> SUFFICES /\ job' \in [Streams -> Job] /\ \A t \in Streams : IsFiniteSet(job'[t].data)
             /\ store' \subseteq store /\ main' \in Blob /\ row' \in AudioRow
             /\ stream' = stream /\ crashes' \in Nat /\ disturbed' \in BOOLEAN
             /\ settled' \in BOOLEAN
  BY <1>1, FS_Subset DEF Types, AudioTypeOK, Finite, Blob
<1>3. /\ stream' = stream /\ crashes' \in Nat /\ disturbed' \in BOOLEAN
      /\ settled' \in BOOLEAN /\ main' \in Blob /\ store' \subseteq store
  <2>1. crashes \in Nat /\ disturbed \in BOOLEAN /\ settled \in BOOLEAN
        /\ job[s].data \in Blob /\ job[s].crossed \in BOOLEAN
    BY <1>1 DEF Types, AudioTypeOK, Job
  <2>2. CASE PutMain(s)
    BY <1>1, <2>1, <2>2 DEF PutMain
  <2>3. CASE CallerCommits(s)
    BY <1>1, <2>1, <2>3 DEF CallerCommits
  <2>4. CASE Crash(s)
    BY <1>1, <2>1, <2>4 DEF Crash
  <2>5. CASE List(s) \/ Read(s) \/ Relist(s) \/ Delete(s) \/ Load(s) \/ Write(s) \/ CallerDrops(s)
    BY <1>1, <2>1, <2>5 DEF List, Read, Relist, Delete, Load, Write, CallerDrops
  <2> QED
    BY <2>2, <2>3, <2>4, <2>5 DEF JobStep
<1>4. row' \in AudioRow
  BY <1>1, UpsertedType
     DEF JobStep, Crash, List, Read, PutMain, Relist, Delete, Load, Write, CallerCommits, CallerDrops
<1>5. ASSUME NEW j \in Job, IsFiniteSet(j.data), job' = [job EXCEPT ![s] = j]
      PROVE  job' \in [Streams -> Job] /\ \A t \in Streams : IsFiniteSet(job'[t].data)
  BY <1>5, TypesJob
<1>7. CASE List(s)
  <2> DEFINE j == IF store = {} THEN [NoJob EXCEPT !.stage = "failed"]
                  ELSE [NoJob EXCEPT !.stage = "read", !.left = Keys(store)]
  <2>1. job' = [job EXCEPT ![s] = j]
    BY <1>7 DEF List
  <2>2. NoAudio \in AudioRow
    BY DEF NoAudio, AudioRow, Blob
  <2>3. j \in Job /\ j.data = {}
    BY <1>2, <2>2 DEF NoJob, Job, Active, Blob
  <2> HIDE DEF j
  <2> QED
    BY <1>3, <1>4, <1>5, <2>1, <2>3, FS_EmptySet
<1>8. CASE Read(s)
  <2> DEFINE k == First(job[s].left)
             left == job[s].left \ {k}
             j == [job[s] EXCEPT !.data = @ \cup ChunkAt(k), !.left = left,
                                 !.stage = IF left = {} THEN "put" ELSE "read"]
  <2>1. CASE ChunkAt(k) = {}
    <3>1. GoTo(s, "failed")
      BY <1>8, <2>1 DEF Read
    <3> QED
      BY <1>3, <1>4, <3>1, TypesGoTo
  <2>2. CASE ChunkAt(k) # {}
    <3>1. job' = [job EXCEPT ![s] = j]
      BY <1>1, <1>8, <2>2 DEF Read
    <3>2. IsFiniteSet(job[s].data \cup ChunkAt(k))
      BY <1>1, AtFinite, FS_Union
    <3>3. job[s].data \cup ChunkAt(k) \in Blob /\ left \in SUBSET Seqs
      BY <1>1, <1>2 DEF Job, Blob
    <3>4. j \in Job /\ j.data = job[s].data \cup ChunkAt(k)
      BY <1>1, <3>3 DEF Job, Active
    <3> HIDE DEF j
    <3> QED
      BY <1>3, <1>4, <1>5, <3>1, <3>2, <3>4
  <2> QED
    BY <2>1, <2>2
<1>9. CASE PutMain(s)
  <2> DEFINE j == [job[s] EXCEPT !.stage = "relist"]
  <2>1. j \in Job /\ j.data = job[s].data
    BY <1>1 DEF Job, Active
  <2>2. job' = Crossing(s, j, Stored)
    BY <1>9 DEF PutMain, Stored
  <2> HIDE DEF j
  <2> QED
    BY <1>1, <1>3, <1>4, <2>1, <2>2, TypesCrossing
<1>10. CASE Relist(s)
  <2> DEFINE j == [job[s] EXCEPT !.left = Keys(store),
                                 !.stage = IF store = {} THEN "load" ELSE "delete"]
  <2>1. job' = [job EXCEPT ![s] = j]
    BY <1>1, <1>10 DEF Relist
  <2>2. j \in Job /\ j.data = job[s].data
    BY <1>1, <1>2 DEF Job, Active
  <2> HIDE DEF j
  <2> QED
    BY <1>1, <1>3, <1>4, <1>5, <2>1, <2>2
<1>11. CASE Delete(s)
  <2> DEFINE left == job[s].left \ {First(job[s].left)}
             j == [job[s] EXCEPT !.left = left,
                                 !.stage = IF left = {} THEN "load" ELSE "delete"]
  <2>1. job' = [job EXCEPT ![s] = j]
    BY <1>1, <1>11 DEF Delete
  <2>2. j \in Job /\ j.data = job[s].data
    BY <1>1 DEF Job, Active
  <2> HIDE DEF j
  <2> QED
    BY <1>1, <1>3, <1>4, <1>5, <2>1, <2>2
<1>12. CASE Load(s)
  <2> DEFINE j == [job[s] EXCEPT !.loaded = row, !.stage = "write"]
  <2>1. job' = [job EXCEPT ![s] = j]
    BY <1>1, <1>12 DEF Load
  <2>2. j \in Job /\ j.data = job[s].data
    BY <1>1 DEF Job, Active
  <2> HIDE DEF j
  <2> QED
    BY <1>1, <1>3, <1>4, <1>5, <2>1, <2>2
<1>13. CASE CallerCommits(s)
  <2> DEFINE j == [job[s] EXCEPT !.stage = "done"]
  <2>1. j \in Job /\ j.data = job[s].data
    BY <1>1 DEF Job, Active
  <2>2. job' = Crossing(s, j, {"write", "commit"})
    BY <1>13 DEF CallerCommits
  <2> HIDE DEF j
  <2> QED
    BY <1>1, <1>3, <1>4, <2>1, <2>2, TypesCrossing
<1>14. CASE Write(s) \/ CallerDrops(s) \/ Crash(s)
  <2>1. \E stage \in {"failed", "queued", "commit", "dropped"} : GoTo(s, stage)
    BY <1>14 DEF Write, CallerDrops, Crash
  <2> QED
    BY <1>3, <1>4, <2>1, TypesGoTo
<1> QED
  BY <1>7, <1>8, <1>9, <1>10, <1>11, <1>12, <1>13, <1>14 DEF JobStep

LEMMA TypesStep == Types /\ [AudioNext]_audio => Types'
<1>1. Types /\ UNCHANGED audio => Types'
  BY DEF Types, AudioTypeOK, Finite, audio
<1> QED
  BY <1>1, TypesStream, TypesJobStep DEF AudioNext

-----------------------------------------------------------------------------
(* What an uncrossed job knows *)

LEMMA HonestInit == AudioInit => Honest
<1> SUFFICES ASSUME AudioInit PROVE Honest
  OBVIOUS
<1>1. \A s \in Streams : job[s].stage = "none"
  BY DEF AudioInit, NoJob
<1>2. row = NoAudio /\ ~settled
  BY DEF AudioInit
<1> QED
  BY <1>1, <1>2 DEF Honest, Knows, Stored

\* A step that leaves main.mp3 and the row alone, and changes no job but s.
LEMMA HonestFrame ==
    ASSUME Honest, NEW s \in Streams, Knows(s)',
           main' = main, row' = row, settled' = settled,
           \A t \in Streams \ {s} : job'[t] = job[t]
    PROVE  Honest'
BY DEF Honest, Knows

LEMMA HonestStream ==
    ASSUME Types, Honest, NEW s \in Streams,
           Open(s) \/ PutChunk(s) \/ EmitEnd(s) \/ Enqueue(s) \/ Abandon(s)
    PROVE  Honest'
<1>1. CASE Enqueue(s)
  <2>1. job' = [job EXCEPT ![s].stage = "queued"]
    BY <1>1 DEF Enqueue, GoTo
  <2>2. /\ job'[s].stage = "queued"
        /\ \A t \in Streams \ {s} : job'[t] = job[t]
    BY <2>1 DEF Types, AudioTypeOK, Job
  <2>3. Knows(s)'
    BY <2>2 DEF Knows, Stored
  <2> QED
    BY <1>1, <2>2, <2>3, HonestFrame DEF Enqueue
<1>2. CASE Open(s) \/ PutChunk(s) \/ EmitEnd(s) \/ Abandon(s)
  BY <1>2 DEF Open, PutChunk, EmitEnd, Abandon, Honest, Knows
<1> QED
  BY <1>1, <1>2

\* After `Crossing' the job itself is j, and another job at one of the stages
\* is crossed; nothing else of it changes.
LEMMA CrossingJobs ==
    ASSUME Types, NEW s \in Streams, NEW j, NEW S, job' = Crossing(s, j, S)
    PROVE  /\ job'[s] = j
           /\ \A t \in Streams \ {s} :
                /\ job'[t].stage = job[t].stage
                /\ job'[t].left = job[t].left
                /\ job'[t].data = job[t].data
                /\ job'[t].loaded = job[t].loaded
                /\ ~job'[t].crossed => ~job[t].crossed /\ job[t].stage \notin S
<1>1. job'[s] = j
  BY DEF Crossing
<1>2. ASSUME NEW t \in Streams \ {s}
      PROVE  job'[t] = [job[t] EXCEPT !.crossed = job[t].crossed \/ job[t].stage \in S]
  BY DEF Crossing
<1>3. \A t \in Streams : job[t] \in Job
  BY DEF Types, AudioTypeOK
<1>4. ASSUME NEW t \in Streams \ {s}
      PROVE  /\ job'[t].stage = job[t].stage
             /\ job'[t].left = job[t].left
             /\ job'[t].data = job[t].data
             /\ job'[t].loaded = job[t].loaded
             /\ job'[t].crossed = (job[t].crossed \/ job[t].stage \in S)
  BY <1>2, <1>3, <1>4 DEF Job
<1> QED
  BY <1>1, <1>4

LEMMA HonestJobStep ==
    ASSUME Types, Honest, NEW s \in Streams, JobStep(s) \/ Crash(s)
    PROVE  Honest'
<1>1. /\ job \in [Streams -> Job] /\ job[s] \in Job /\ row \in AudioRow /\ Knows(s)
  BY DEF Types, AudioTypeOK, Honest
<1>2. CASE List(s)
  <2>1. /\ job'[s].stage \in {"read", "failed"}
        /\ job'[s].stage = "read" => job'[s].left # {}
        /\ \A t \in Streams \ {s} : job'[t] = job[t]
    BY <1>1, <1>2 DEF List, NoJob, Keys
  <2>2. Knows(s)'
    BY <2>1 DEF Knows, Stored
  <2> QED
    BY <1>2, <2>1, <2>2, HonestFrame DEF List
<1>3. CASE Read(s)
  <2>1. /\ job'[s].stage \in {"read", "put", "failed"}
        /\ job'[s].stage = "read" => job'[s].left # {}
        /\ job'[s].stage = "put" => job'[s].data # {}
        /\ \A t \in Streams \ {s} : job'[t] = job[t]
    BY <1>1, <1>3 DEF Read, GoTo, Job
  <2>2. Knows(s)'
    BY <2>1 DEF Knows, Stored
  <2> QED
    BY <1>3, <2>1, <2>2, HonestFrame DEF Read
<1>4. CASE PutMain(s)
  <2> DEFINE j == [job[s] EXCEPT !.stage = "relist"]
  <2>1. j.stage = "relist" /\ j.data = job[s].data
    BY <1>1 DEF Job
  <2>2. job' = Crossing(s, j, Stored) /\ main' = job[s].data /\ row' = row /\ settled' = FALSE
    BY <1>4 DEF PutMain, Stored
  <2>3. job[s].data # {}
    BY <1>1, <1>4 DEF Knows, PutMain
  <2> HIDE DEF j
  <2>4. Knows(s)'
    BY <2>1, <2>2, <2>3, CrossingJobs DEF Knows
  <2>5. ASSUME NEW t \in Streams \ {s} PROVE Knows(t)'
    BY <2>2, <2>3, <2>5, CrossingJobs DEF Knows, Honest, Stored
  <2> QED
    BY <2>2, <2>3, <2>4, <2>5 DEF Honest
<1>5. CASE Relist(s)
  <2>1. /\ job[s].stage = "relist"
        /\ job'[s].stage \in {"load", "delete"}
        /\ job'[s].data = job[s].data /\ job'[s].crossed = job[s].crossed
        /\ \A t \in Streams \ {s} : job'[t] = job[t]
    BY <1>1, <1>5 DEF Relist, Job
  <2>2. Knows(s)'
    BY <1>1, <1>5, <2>1 DEF Knows, Stored, Relist
  <2> QED
    BY <1>5, <2>1, <2>2, HonestFrame DEF Relist
<1>6. CASE Delete(s)
  <2>1. /\ job[s].stage = "delete"
        /\ job'[s].stage \in {"load", "delete"}
        /\ job'[s].data = job[s].data /\ job'[s].crossed = job[s].crossed
        /\ \A t \in Streams \ {s} : job'[t] = job[t]
    BY <1>1, <1>6 DEF Delete, Job
  <2>2. Knows(s)'
    BY <1>1, <1>6, <2>1 DEF Knows, Stored, Delete
  <2> QED
    BY <1>6, <2>1, <2>2, HonestFrame DEF Delete
<1>7. CASE Load(s)
  <2>1. /\ job[s].stage = "load"
        /\ job'[s].stage = "write" /\ job'[s].loaded = row
        /\ job'[s].data = job[s].data /\ job'[s].crossed = job[s].crossed
        /\ \A t \in Streams \ {s} : job'[t] = job[t]
    BY <1>1, <1>7 DEF Load, Job
  <2>2. Knows(s)'
    BY <1>1, <1>7, <2>1 DEF Knows, Stored, Load
  <2> QED
    BY <1>7, <2>1, <2>2, HonestFrame DEF Load
<1>8. CASE Write(s) \/ CallerDrops(s) \/ Crash(s)
  <2>1. /\ job'[s].stage \in {"failed", "commit", "dropped", "queued"}
        /\ job'[s].stage = "commit" => job[s].stage = "write"
        /\ job'[s].data = job[s].data /\ job'[s].crossed = job[s].crossed
        /\ job'[s].loaded = job[s].loaded
        /\ \A t \in Streams \ {s} : job'[t] = job[t]
    BY <1>1, <1>8 DEF Write, CallerDrops, Crash, GoTo, Job
  <2>2. main' = main /\ row' = row /\ settled' = settled
    BY <1>8 DEF Write, CallerDrops, Crash
  <2>3. Knows(s)'
    BY <1>1, <2>1, <2>2 DEF Knows, Stored
  <2> QED
    BY <2>1, <2>2, <2>3, HonestFrame
<1>9. CASE CallerCommits(s)
  <2> DEFINE j == [job[s] EXCEPT !.stage = "done"]
  <2>1. j.stage = "done"
    BY <1>1 DEF Job
  <2>2. /\ job' = Crossing(s, j, {"write", "commit"}) /\ main' = main
        /\ row' = Upserted(s, stream[s].seq) /\ settled' = ~job[s].crossed
        /\ job[s].stage = "commit"
    BY <1>9 DEF CallerCommits
  <2> HIDE DEF j
  <2>3. main # {}
    BY <1>1, <2>2 DEF Knows, Stored
  <2>4. Knows(s)'
    BY <2>1, <2>2, CrossingJobs DEF Knows, Stored
  <2>5. ASSUME NEW t \in Streams \ {s} PROVE Knows(t)'
    BY <2>2, <2>5, CrossingJobs DEF Knows, Honest, Stored
  <2>6. ~job[s].crossed => row'.hash = main /\ row'.size = Cardinality(main)
    BY <1>1, <2>2 DEF Knows, Stored, Upserted, Recorded, Merge
  <2> QED
    BY <2>2, <2>3, <2>4, <2>5, <2>6 DEF Honest
<1> QED
  BY <1>2, <1>3, <1>4, <1>5, <1>6, <1>7, <1>8, <1>9 DEF JobStep

LEMMA HonestStep == Types /\ Honest /\ [AudioNext]_audio => Honest'
<1>1. Honest /\ UNCHANGED audio => Honest'
  BY DEF Honest, Knows, audio
<1> QED
  BY <1>1, HonestStream, HonestJobStep DEF AudioNext

-----------------------------------------------------------------------------
(* While nothing has been disturbed *)

\* main.mp3 is absent or the whole take of a finished stream.
Stitched == main = {} \/ \E s \in Streams : stream[s].stage = "finished" /\ main = Take(s)

Measured == settled => row.duration = Cardinality(main)

LEMMA UndisturbedInit == AudioInit => Undisturbed
<1> SUFFICES ASSUME AudioInit PROVE Undisturbed
  OBVIOUS
<1>1. \A s \in Streams :
        job[s].stage = "none" /\ stream[s].stage = "closed" /\ stream[s].seq = 0
  BY DEF AudioInit, NoJob
<1>2. main = {} /\ ~settled
  BY DEF AudioInit
<1>3. OneBusy /\ \A s \in Streams : Holds(s)
  BY <1>1 DEF OneBusy, Busy, Holds, Active, Stored
<1> QED
  BY <1>1, <1>2, <1>3 DEF Undisturbed

\* A step of the busy stream s or of its job leaves the other streams idle.
LEMMA UndisturbedFrame ==
    ASSUME Undisturbed, NEW s \in Streams, Busy(s),
           \A t \in Streams \ {s} :
               stream'[t] = stream[t] /\ job'[t].stage = job[t].stage,
           stream'[s].stage # "closed",
           job'[s].stage # "none" => stream'[s].stage = "finished",
           disturbed => disturbed',
           ~disturbed => Stitched' /\ Measured' /\ (~disturbed' => Holds(s)')
    PROVE  Undisturbed'
<1>1. \A t \in Streams : /\ stream'[t].stage = "closed" => stream'[t].seq = 0
                         /\ job'[t].stage # "none" => stream'[t].stage = "finished"
  BY DEF Undisturbed
<1> SUFFICES ASSUME ~disturbed'
             PROVE  OneBusy' /\ Stitched' /\ Measured' /\ \A t \in Streams : Holds(t)'
  BY <1>1 DEF Undisturbed, Stitched, Measured
<1>2. ASSUME NEW t \in Streams \ {s} PROVE ~Busy(t)' /\ Holds(t)'
  <2>1. ~Busy(t)
    BY DEF Undisturbed, OneBusy
  <2>2. ~Busy(t)'
    BY <2>1 DEF Busy
  <2> QED
    BY <2>2 DEF Busy, Holds, Active, Stored
<1> QED
  BY <1>2 DEF OneBusy

\* Nothing changes of the takes of streams that do not move.
LEMMA StitchedFrame ==
    ASSUME Undisturbed, ~disturbed, main' = main, settled' = settled, row' = row,
           \A t \in Streams : stream[t].stage = "finished" => stream'[t] = stream[t]
    PROVE  Stitched' /\ Measured'
<1>1. Measured'
  BY DEF Undisturbed, Measured
<1>2. CASE main = {}
  BY <1>1, <1>2 DEF Stitched
<1>3. CASE main # {}
  <2>1. PICK t \in Streams : stream[t].stage = "finished" /\ main = Take(t)
    BY <1>3 DEF Undisturbed
  <2>2. stream'[t] = stream[t]
    BY <2>1
  <2> QED
    BY <1>1, <2>1, <2>2 DEF Stitched, Take
<1> QED
  BY <1>2, <1>3

LEMMA UndisturbedStream ==
    ASSUME Types, Undisturbed, NEW s \in Streams,
           Open(s) \/ PutChunk(s) \/ EmitEnd(s) \/ Enqueue(s) \/ Abandon(s)
    PROVE  Undisturbed'
<1>1. /\ stream \in [Streams -> Pipeline] /\ stream[s] \in Pipeline
      /\ job \in [Streams -> Job] /\ job[s] \in Job
  BY DEF Types, AudioTypeOK
<1>2. main' = main /\ row' = row /\ settled' = settled /\ stream[s].stage # "finished"
  BY DEF Open, PutChunk, EmitEnd, Enqueue, Abandon
<1>3. /\ stream' \in [Streams -> Pipeline]
      /\ \A t \in Streams \ {s} : stream'[t] = stream[t] /\ job'[t] = job[t]
  BY <1>1, TypesStream DEF Open, PutChunk, EmitEnd, Enqueue, Abandon, GoTo, Types, AudioTypeOK
<1>4. ~disturbed => Stitched' /\ Measured'
  BY <1>2, <1>3, StitchedFrame
<1>5. job[s].stage = "none"
  BY <1>2 DEF Undisturbed
<1>6. CASE Open(s)
  <2>1. /\ job' = job /\ store' = store /\ stream'[s].stage = "speaking"
        /\ stream'[s].seq = stream[s].seq /\ disturbed' = (disturbed \/ ~Quiet)
    BY <1>1, <1>6 DEF Open, Pipeline
  <2>2. \A t \in Streams : /\ stream'[t].stage = "closed" => stream'[t].seq = 0
                           /\ job'[t].stage # "none" => stream'[t].stage = "finished"
    BY <1>3, <1>5, <2>1 DEF Undisturbed
  <2> SUFFICES ASSUME ~disturbed'
               PROVE  OneBusy' /\ \A t \in Streams : Holds(t)'
    BY <1>4, <2>1, <2>2 DEF Undisturbed, Stitched, Measured
  <2>3. Quiet
    BY <2>1
  <2>4. \A t \in Streams : ~Busy(t)
    BY <2>3 DEF Quiet, Busy
  <2>5. \A t \in Streams \ {s} : ~Busy(t)'
    BY <1>3, <2>4 DEF Busy
  <2>6. \A t \in Streams \ {s} : Holds(t)'
    BY <2>5 DEF Busy, Holds, Active, Stored
  <2>7. stream[s].stage = "closed" /\ store' = {}
    BY <1>6, <2>1, <2>3 DEF Open, Quiet
  <2>8. Take(s)' = {}
    <3>1. stream'[s].seq = 0
      BY <2>1, <2>7 DEF Undisturbed
    <3> QED
      BY <3>1 DEF Take, Chunk, Seqs
  <2> QED
    BY <1>5, <2>1, <2>5, <2>6, <2>7, <2>8 DEF OneBusy, Holds, Active, Stored
<1>7. CASE PutChunk(s)
  <2> DEFINE c == [seq |-> stream[s].seq, take |-> s]
  <2>1. /\ stream[s].stage = "speaking" /\ stream[s].seq < MaxSeq /\ job' = job
        /\ store' = (store \ ChunkAt(stream[s].seq)) \cup {c} /\ disturbed' = disturbed
        /\ stream'[s].stage = "speaking" /\ stream'[s].seq = stream[s].seq + 1
    BY <1>1, <1>7 DEF PutChunk, Pipeline
  <2>2. Take(s)' = Take(s) \cup {c}
    <3>1. c \in Chunk /\ c.seq < stream'[s].seq
      BY <1>1, <2>1 DEF Chunk, Seqs, Pipeline
    <3>2. \A d \in Chunk : d.seq < stream'[s].seq <=> d.seq < stream[s].seq \/ d.seq = c.seq
      BY <1>1, <2>1 DEF Chunk, Seqs, Pipeline
    <3> QED
      BY <3>1, <3>2 DEF Take, Chunk
  <2>3. ~disturbed => store = Take(s) /\ ChunkAt(stream[s].seq) = {}
    <3> SUFFICES ASSUME ~disturbed PROVE store = Take(s) /\ ChunkAt(stream[s].seq) = {}
      OBVIOUS
    <3>1. store = Take(s)
      BY <2>1 DEF Undisturbed, Holds
    <3> QED
      BY <1>1, <3>1 DEF ChunkAt, Take, Chunk, Seqs, Pipeline
  <2>4. ~disturbed => Holds(s)'
    BY <1>5, <2>1, <2>2, <2>3 DEF Holds, Active, Stored
  <2>5. Busy(s)
    BY <2>1 DEF Busy
  <2> QED
    BY <1>3, <1>4, <1>5, <2>1, <2>4, <2>5, UndisturbedFrame
<1>8. CASE EmitEnd(s) \/ Abandon(s)
  <2>1. /\ stream[s].stage \in {"speaking", "ended"} /\ job' = job /\ store' = store
        /\ disturbed' = disturbed /\ stream'[s].stage \in {"ended", "gone"}
        /\ stream'[s].seq = stream[s].seq
    BY <1>1, <1>8 DEF EmitEnd, Abandon, Pipeline
  <2>2. ~disturbed => Holds(s)'
    BY <1>5, <2>1 DEF Undisturbed, Holds, Take, Active, Stored
  <2>3. Busy(s)
    BY <2>1 DEF Busy
  <2> QED
    BY <1>3, <1>4, <1>5, <2>1, <2>2, <2>3, UndisturbedFrame
<1>9. CASE Enqueue(s)
  <2>1. /\ stream[s].stage = "ended" /\ store' = store
        /\ disturbed' = disturbed /\ stream'[s].stage = "finished"
        /\ stream'[s].seq = stream[s].seq /\ job'[s].stage = "queued"
    BY <1>1, <1>9 DEF Enqueue, GoTo, Pipeline, Job
  <2>2. ~disturbed => Holds(s)'
    BY <2>1 DEF Undisturbed, Holds, Take, Stored
  <2>3. Busy(s)
    BY <2>1 DEF Busy
  <2> QED
    BY <1>3, <1>4, <2>1, <2>2, <2>3, UndisturbedFrame
<1> QED
  BY <1>6, <1>7, <1>8, <1>9

LEMMA UndisturbedJobStep ==
    ASSUME Types, Honest, Undisturbed, NEW s \in Streams, JobStep(s) \/ Crash(s)
    PROVE  Undisturbed'
<1>1. /\ job \in [Streams -> Job] /\ job[s] \in Job /\ row \in AudioRow /\ Knows(s)
  BY DEF Types, AudioTypeOK, Honest
<1>2. stream' = stream /\ (disturbed => disturbed')
  <2>1. CASE Crash(s)
    BY <2>1 DEF Crash
  <2>2. CASE JobStep(s)
    <3>1. stream' = stream /\ disturbed' = disturbed
      BY <2>2 DEF JobStep, List, Read, PutMain, Relist, Delete, Load, Write, CallerCommits, CallerDrops
    <3> QED
      BY <3>1
  <2> QED
    BY <2>1, <2>2
<1>3. Busy(s) /\ job[s].stage # "none"
  BY DEF JobStep, List, Read, PutMain, Relist, Delete, Load, Write, CallerCommits, CallerDrops, Crash, Busy, Active
<1>4. stream[s].stage = "finished" /\ Take(s)' = Take(s)
  BY <1>2, <1>3 DEF Undisturbed, Take
<1>5. ~disturbed => Holds(s)
  BY DEF Undisturbed
<1>6. \A t \in Streams \ {s} : job'[t].stage = job[t].stage
  <2>1. CASE PutMain(s)
    BY <2>1, CrossingJobs DEF PutMain
  <2>2. CASE CallerCommits(s)
    BY <2>2, CrossingJobs DEF CallerCommits
  <2>3. CASE \/ List(s) \/ Read(s) \/ Relist(s) \/ Delete(s) \/ Load(s) \/ Write(s)
             \/ CallerDrops(s) \/ Crash(s)
    BY <1>1, <2>3 DEF List, Read, Relist, Delete, Load, Write, CallerDrops, Crash, GoTo
  <2> QED
    BY <2>1, <2>2, <2>3 DEF JobStep
<1>7. main' = main /\ row' = row /\ settled' = settled => (~disturbed => Stitched' /\ Measured')
  BY <1>2, StitchedFrame
<1> SUFFICES ~disturbed => Stitched' /\ Measured' /\ (~disturbed' => Holds(s)')
  BY <1>2, <1>3, <1>4, <1>6, UndisturbedFrame
<1> SUFFICES ASSUME ~disturbed
             PROVE  Stitched' /\ Measured' /\ (~disturbed' => Holds(s)')
  OBVIOUS
<1>8. CASE List(s)
  <2>1. /\ job[s].stage = "queued" /\ store' = store
        /\ store = {} => job'[s].stage = "failed"
        /\ store # {} => /\ job'[s].stage = "read" /\ job'[s].left = Keys(store)
                         /\ job'[s].data = {}
    BY <1>1, <1>8 DEF List, NoJob
  <2>2. {c \in store : c.seq \notin Keys(store)} = {}
    BY DEF Keys
  <2>3. Holds(s)'
    BY <1>2, <1>4, <1>5, <2>1, <2>2 DEF Holds, Stored
  <2> QED
    BY <1>7, <1>8, <2>3 DEF List
<1>9. CASE Read(s)
  <2> DEFINE k == First(job[s].left)
  <2>1. job[s].stage = "read" /\ store' = store
    BY <1>9 DEF Read
  <2>2. CASE ChunkAt(k) = {}
    <3>1. GoTo(s, "failed")
      BY <1>9, <2>2 DEF Read
    <3>2. job'[s].stage = "failed"
      BY <1>1, <3>1 DEF GoTo, Job
    <3>3. Holds(s)'
      BY <1>2, <1>4, <3>2 DEF Holds, Stored
    <3> QED
      BY <1>7, <1>9, <3>3 DEF Read
  <2>3. CASE ChunkAt(k) # {}
    <3>1. /\ job'[s].left = job[s].left \ {k} /\ job'[s].data = job[s].data \cup ChunkAt(k)
          /\ job'[s].stage = IF job[s].left \ {k} = {} THEN "put" ELSE "read"
      BY <1>1, <1>9, <2>3 DEF Read, Job
    <3> HIDE DEF k
    <3>2. job'[s].data = {c \in store : c.seq \notin job[s].left \ {k}}
      BY <1>5, <2>1, <3>1 DEF Holds, ChunkAt
    <3>3. Holds(s)'
      BY <1>2, <1>4, <1>5, <2>1, <3>1, <3>2 DEF Holds, Stored
    <3> QED
      BY <1>7, <1>9, <3>3 DEF Read
  <2> QED
    BY <2>2, <2>3
<1>10. CASE PutMain(s)
  <2> DEFINE j == [job[s] EXCEPT !.stage = "relist"]
  <2>1. j.stage = "relist" /\ j.data = job[s].data
    BY <1>1 DEF Job
  <2>2. /\ job' = Crossing(s, j, Stored) /\ main' = job[s].data /\ store' = store
        /\ settled' = FALSE /\ job[s].stage = "put"
    BY <1>10 DEF PutMain, Stored
  <2> HIDE DEF j
  <2>3. job'[s].stage = "relist" /\ job'[s].data = job[s].data
    BY <2>1, <2>2, CrossingJobs
  <2>4. main' = Take(s)
    BY <1>5, <2>2 DEF Holds, Stored
  <2>5. Holds(s)'
    BY <1>2, <1>4, <1>5, <2>2, <2>3, <2>4 DEF Holds, Stored
  <2>6. Stitched' /\ Measured'
    BY <1>2, <1>4, <2>2, <2>4 DEF Stitched, Measured
  <2> QED
    BY <2>5, <2>6
<1>11. CASE Relist(s)
  <2>1. /\ job[s].stage = "relist" /\ store' = store /\ main' = main
        /\ job'[s].stage = IF store = {} THEN "load" ELSE "delete"
        /\ job'[s].data = job[s].data /\ job'[s].left = Keys(store)
    BY <1>1, <1>11 DEF Relist, Job
  <2>2. Holds(s)'
    BY <1>2, <1>4, <1>5, <2>1 DEF Holds, Stored, Keys
  <2> QED
    BY <1>7, <1>11, <2>2 DEF Relist
<1>12. CASE Delete(s)
  <2> DEFINE k == First(job[s].left)
  <2>1. /\ job[s].stage = "delete" /\ store' = store \ ChunkAt(k) /\ main' = main
        /\ job'[s].stage = IF job[s].left \ {k} = {} THEN "load" ELSE "delete"
        /\ job'[s].data = job[s].data /\ job'[s].left = job[s].left \ {k}
    BY <1>1, <1>12 DEF Delete, Job
  <2> HIDE DEF k
  <2>2. job'[s].left = Keys(store')
    BY <1>5, <2>1 DEF Holds, Keys, ChunkAt
  <2>3. job'[s].left = {} => store' = {}
    BY <2>2 DEF Keys
  <2>4. Holds(s)'
    BY <1>2, <1>4, <1>5, <2>1, <2>2, <2>3 DEF Holds, Stored, Keys
  <2> QED
    BY <1>7, <1>12, <2>4 DEF Delete
<1>13. CASE Load(s)
  <2>1. /\ job[s].stage = "load" /\ store' = store /\ main' = main
        /\ job'[s].stage = "write" /\ job'[s].data = job[s].data
    BY <1>1, <1>13 DEF Load, Job
  <2>2. Holds(s)'
    BY <1>2, <1>4, <1>5, <2>1 DEF Holds, Stored
  <2> QED
    BY <1>7, <1>13, <2>2 DEF Load
<1>14. CASE Write(s) \/ CallerDrops(s)
  <2>1. /\ job'[s].stage \in {"failed", "commit", "dropped"} /\ store' = store /\ main' = main
        /\ job'[s].stage = "commit" => job[s].stage = "write"
        /\ job'[s].data = job[s].data /\ row' = row /\ settled' = settled
    BY <1>1, <1>14 DEF Write, CallerDrops, GoTo, Job
  <2>2. Holds(s)'
    BY <1>2, <1>4, <1>5, <2>1 DEF Holds, Stored
  <2> QED
    BY <1>7, <2>1, <2>2
<1>15. CASE CallerCommits(s)
  <2> DEFINE j == [job[s] EXCEPT !.stage = "done"]
  <2>1. j.stage = "done"
    BY <1>1 DEF Job
  <2>2. /\ job' = Crossing(s, j, {"write", "commit"}) /\ main' = main
        /\ row' = Upserted(s, stream[s].seq) /\ settled' = ~job[s].crossed
        /\ job[s].stage = "commit"
    BY <1>15 DEF CallerCommits
  <2> HIDE DEF j
  <2>3. job'[s].stage = "done"
    BY <2>1, <2>2, CrossingJobs
  <2>4. Holds(s)'
    BY <1>2, <1>4, <2>3 DEF Holds, Stored
  <2>5. main = Take(s)
    BY <1>5, <2>2 DEF Holds, Stored
  <2>6. ~job[s].crossed => row'.duration = stream[s].seq
    BY <1>1, <2>2 DEF Knows, Upserted, Recorded, Merge
  <2>7. Cardinality(main) = stream[s].seq
    BY <2>5, TakeSize DEF Types
  <2>8. Stitched' /\ Measured'
    BY <1>2, <1>4, <2>2, <2>5, <2>6, <2>7 DEF Stitched, Measured
  <2> QED
    BY <2>4, <2>8
<1>16. CASE Crash(s)
  <2>1. /\ job'[s].stage \in {"queued", "failed"} /\ store' = store /\ main' = main
        /\ job[s].stage \in Active
        /\ ~disturbed' /\ job[s].stage = "delete" => store = job[s].data
    BY <1>1, <1>16 DEF Crash, GoTo, Job
  <2>2. ~disturbed' => store \in {Take(s), {}}
    BY <1>5, <2>1 DEF Holds, Stored, Active
  <2>3. ~disturbed' => Holds(s)'
    BY <1>2, <1>4, <2>1, <2>2 DEF Holds, Stored
  <2> QED
    BY <1>7, <1>16, <2>3 DEF Crash
<1> QED
  BY <1>8, <1>9, <1>10, <1>11, <1>12, <1>13, <1>14, <1>15, <1>16 DEF JobStep

LEMMA InvInit == AudioInit => Inv
BY TypesInit, HonestInit, UndisturbedInit DEF Inv

LEMMA InvStep == Inv /\ [AudioNext]_audio => Inv'
<1>1. Undisturbed /\ UNCHANGED audio => Undisturbed'
  BY DEF Undisturbed, OneBusy, Busy, Holds, Take, ChunkAt, audio
<1> QED
  BY <1>1, TypesStep, HonestStep, UndisturbedStream, UndisturbedJobStep DEF Inv, AudioNext

-----------------------------------------------------------------------------
(* What the promise needs beyond that *)

\* The chunks spoken so far, in any take.
Said == {c \in Chunk : c.seq < stream[c.take].seq}

\* One chunk for each number, and each was spoken.
Plays(blob) == /\ blob \subseteq Said
               /\ \A c, d \in blob : c.seq = d.seq => c = d

\* A job stitches what plays, its session read no row that is gone, nobody
\* crosses it while nothing is disturbed, and it flushes no forbidden length.
Keeps(s) ==
    /\ Plays(job[s].data)
    /\ job[s].stage = "read" => \A c \in job[s].data : c.seq \notin job[s].left
    /\ job[s].loaded # NoAudio => row # NoAudio
    /\ ~disturbed /\ job[s].stage \in Active => ~job[s].crossed
    /\ job[s].stage = "commit" => stream[s].seq \in MinTake .. MaxTake

Replayable ==
    /\ Plays(store)
    /\ Plays(main)
    /\ row # NoAudio => row.duration \in MinTake .. MaxTake
    /\ \A s \in Streams : Keeps(s)

LEMMA ReplayableInit == AudioInit => Replayable
BY DEF AudioInit, Replayable, Plays, Keeps, NoJob, Active

\* A chunk that is put is spoken, and takes the place of what was under its key.
LEMMA ReplayableStream ==
    ASSUME Types, Undisturbed, Replayable, NEW s \in Streams,
           Open(s) \/ PutChunk(s) \/ EmitEnd(s) \/ Enqueue(s) \/ Abandon(s)
    PROVE  Replayable'
<1>1. /\ stream \in [Streams -> Pipeline] /\ stream[s] \in Pipeline
      /\ job \in [Streams -> Job] /\ job[s] \in Job
  BY DEF Types, AudioTypeOK
<1>2. /\ main' = main /\ row' = row /\ (disturbed => disturbed')
      /\ \A t \in Streams \ {s} : stream'[t] = stream[t] /\ job'[t] = job[t]
  <2>1. main' = main /\ row' = row
    BY DEF Open, PutChunk, EmitEnd, Enqueue, Abandon
  <2>2. \A t \in Streams \ {s} : stream'[t] = stream[t] /\ job'[t] = job[t]
    BY <1>1 DEF Open, PutChunk, EmitEnd, Enqueue, Abandon, GoTo
  <2>3. disturbed => disturbed'
    BY Zenon DEF Open, PutChunk, EmitEnd, Enqueue, Abandon
  <2> QED
    BY <2>1, <2>2, <2>3
<1>3. stream'[s].seq \in {stream[s].seq, stream[s].seq + 1}
  BY <1>1 DEF Open, PutChunk, EmitEnd, Enqueue, Abandon, Pipeline
<1>4. Said \subseteq Said'
  <2>1. \A c \in Said : c.seq \in Nat /\ c.take \in Streams /\ c \in Chunk
    BY DEF Said, Chunk, Seqs
  <2>2. stream[s].seq \in Nat /\ \A n \in Nat : n < stream[s].seq => n < stream'[s].seq
    BY <1>1, <1>3 DEF Pipeline
  <2> QED
    BY <1>2, <2>1, <2>2 DEF Said
<1>5. Plays(store)'
  <2>1. CASE PutChunk(s)
    <3> DEFINE c == [seq |-> stream[s].seq, take |-> s]
    <3>1. /\ stream[s].seq \in Seqs /\ stream'[s].seq = stream[s].seq + 1
          /\ store' = (store \ ChunkAt(stream[s].seq)) \cup {c}
      BY <1>1, <2>1 DEF PutChunk, Pipeline, Seqs
    <3>2. c \in Said' /\ c.seq = stream[s].seq
      BY <3>1 DEF Said, Chunk, Seqs
    <3> HIDE DEF c
    <3>3. \A d \in store \ ChunkAt(stream[s].seq) : d.seq # c.seq
      BY <3>2 DEF ChunkAt
    <3> QED
      BY <1>4, <3>1, <3>2, <3>3 DEF Replayable, Plays
  <2>2. CASE ~PutChunk(s)
    <3>1. store' = store
      BY <2>2 DEF Open, EmitEnd, Enqueue, Abandon
    <3> QED
      BY <1>4, <3>1 DEF Replayable, Plays
  <2> QED
    BY <2>1, <2>2
<1>6. ASSUME NEW t \in Streams PROVE Keeps(t)'
  <2> job[s].stage = "none"
    BY DEF Undisturbed, Open, PutChunk, EmitEnd, Enqueue, Abandon
  <2>1. CASE job'[t] = job[t]
    BY <1>2, <1>4, <2>1 DEF Replayable, Keeps, Plays
  <2>2. CASE Enqueue(s) /\ t = s
    <3>1. /\ job'[s].stage = "queued" /\ job'[s].data = job[s].data
          /\ job'[s].loaded = job[s].loaded
      BY <1>1, <2>2 DEF Enqueue, GoTo, Job
    <3> QED
      BY <1>2, <1>4, <2>2, <3>1 DEF Replayable, Keeps, Plays, Active
  <2> QED
    BY <1>2, <2>1, <2>2 DEF Open, PutChunk, EmitEnd, Abandon
<1>7. Plays(main)'
  BY <1>2, <1>4 DEF Replayable, Plays
<1> QED
  BY <1>2, <1>5, <1>6, <1>7 DEF Replayable

\* A job that goes on with the same data, or starts over without.
LEMMA KeepsFrame ==
    ASSUME Replayable, NEW s \in Streams, stream' = stream, row # NoAudio => row' # NoAudio,
           disturbed => disturbed',
           job'[s].data = job[s].data, job'[s].loaded \in {job[s].loaded, row},
           job'[s].stage # "read",
           job'[s].stage = "commit" => stream[s].seq \in MinTake .. MaxTake,
           ~disturbed' /\ job'[s].stage \in Active =>
               job[s].stage \in Active /\ job'[s].crossed = job[s].crossed
    PROVE  Keeps(s)'
BY DEF Replayable, Keeps, Plays, Said

\* An uncrossed job writes the whole record; a crossed one at least keeps the
\* duration inside the window.
LEMMA UpsertedRow ==
    ASSUME Types, Honest, Replayable, NEW s \in Streams, job[s].stage = "commit"
    PROVE  /\ Upserted(s, stream[s].seq) # NoAudio
           /\ Upserted(s, stream[s].seq).duration \in MinTake .. MaxTake
           /\ ~job[s].crossed => Upserted(s, stream[s].seq) =
                 [hash |-> main, size |-> Cardinality(main), duration |-> stream[s].seq]
<1>1. /\ Keeps(s) /\ Knows(s) /\ row \in AudioRow /\ job[s].loaded \in AudioRow
      /\ stream[s].seq \in MinTake .. MaxTake
  BY DEF Types, AudioTypeOK, Job, Honest, Replayable, Keeps
<1>2. stream[s].seq # 0 /\ 0 \notin MinTake .. MaxTake
  BY <1>1
<1>3. Upserted(s, stream[s].seq).duration =
          Merge(job[s].loaded.duration, stream[s].seq, row.duration)
  BY DEF Upserted, Recorded
<1>4. Upserted(s, stream[s].seq).duration \in MinTake .. MaxTake
  <2>1. CASE job[s].loaded = NoAudio
    BY <1>1, <1>2, <1>3, <2>1 DEF Merge, NoAudio
  <2>2. CASE job[s].loaded # NoAudio
    BY <1>1, <1>3, <2>2 DEF Merge, Keeps, Replayable
  <2> QED
    BY <2>1, <2>2
<1>5. Upserted(s, stream[s].seq) # NoAudio
  BY <1>2, <1>4 DEF NoAudio
<1>6. ASSUME ~job[s].crossed
      PROVE  Upserted(s, stream[s].seq) =
                 [hash |-> main, size |-> Cardinality(main), duration |-> stream[s].seq]
  BY <1>1, <1>6 DEF Knows, Stored, Upserted, Recorded, Merge
<1> QED
  BY <1>4, <1>5, <1>6

\* A job reads each key once, and stitches and records what it has read.
LEMMA ReplayableJobStep ==
    ASSUME Types, Honest, Undisturbed, Replayable, NEW s \in Streams, JobStep(s) \/ Crash(s)
    PROVE  Replayable'
<1>1. /\ job \in [Streams -> Job] /\ job[s] \in Job /\ Keeps(s)
      /\ Busy(s) /\ (~disturbed => OneBusy)
  BY DEF Types, AudioTypeOK, Replayable, Undisturbed, JobStep, List, Read, PutMain,
         Relist, Delete, Load, Write, CallerCommits, CallerDrops, Crash, Busy, Active
<1>2. stream' = stream /\ (disturbed => disturbed') /\ store' \subseteq store
  <2>1. stream' = stream /\ store' \subseteq store
    BY DEF JobStep, List, Read, PutMain, Relist, Delete, Load, Write, CallerCommits, CallerDrops, Crash
  <2>2. disturbed => disturbed'
    BY Zenon DEF JobStep, List, Read, PutMain, Relist, Delete, Load, Write, CallerCommits, CallerDrops, Crash
  <2> QED
    BY <2>1, <2>2
<1>3. Said' = Said
  BY <1>2 DEF Said
<1>4. \/ row' = row
      \/ /\ CallerCommits(s) /\ job[s].stage = "commit"
         /\ row' = Upserted(s, stream[s].seq)
  BY DEF JobStep, List, Read, PutMain, Relist, Delete, Load, Write, CallerCommits, CallerDrops, Crash
<1>5. /\ row # NoAudio => row' # NoAudio
      /\ row' # NoAudio => row'.duration \in MinTake .. MaxTake
  BY <1>4, UpsertedRow DEF Replayable
<1>6. Plays(main)'
  <2>1. main' \in {main, job[s].data}
    BY DEF JobStep, List, Read, PutMain, Relist, Delete, Load, Write, CallerCommits, CallerDrops, Crash
  <2> QED
    BY <1>1, <1>3, <2>1 DEF Replayable, Plays, Keeps
<1>7. Plays(store)'
  BY <1>2, <1>3 DEF Replayable, Plays
<1>8. ASSUME NEW t \in Streams \ {s} PROVE Keeps(t)'
  <2>1. Keeps(t) /\ (~disturbed => job[t].stage \notin Active)
    BY <1>1 DEF Replayable, OneBusy, Busy
  <2>2. CASE job'[t] = job[t]
    BY <1>2, <1>3, <1>5, <2>1, <2>2 DEF Keeps, Plays
  <2>3. CASE PutMain(s) \/ CallerCommits(s)
    <3>1. /\ job'[t].stage = job[t].stage /\ job'[t].left = job[t].left
          /\ job'[t].data = job[t].data /\ job'[t].loaded = job[t].loaded
      BY <2>3, CrossingJobs DEF PutMain, CallerCommits
    <3> QED
      BY <1>2, <1>3, <1>5, <2>1, <3>1 DEF Keeps, Plays
  <2>4. CASE \/ List(s) \/ Read(s) \/ Relist(s) \/ Delete(s) \/ Load(s) \/ Crash(s)
             \/ Write(s) \/ CallerDrops(s)
    <3>1. job'[t] = job[t]
      BY <1>1, <2>4 DEF List, Read, Relist, Delete, Load, Write, CallerDrops, Crash, GoTo
    <3> QED
      BY <2>2, <3>1
  <2> QED
    BY <2>3, <2>4 DEF JobStep
<1>9. CASE List(s)
  <2>1. /\ job'[s].data = {} /\ job'[s].loaded = NoAudio /\ job'[s].crossed = FALSE
        /\ job'[s].stage # "commit"
    BY <1>1, <1>9 DEF List, NoJob
  <2>2. Keeps(s)'
    BY <2>1 DEF Keeps, Plays
  <2> QED
    BY <1>5, <1>6, <1>7, <1>8, <2>2 DEF Replayable
<1>10. CASE Read(s)
  <2> DEFINE k == First(job[s].left)
  <2>1. CASE ChunkAt(k) = {}
    <3>1. GoTo(s, "failed")
      BY <1>10, <2>1 DEF Read
    <3>2. /\ job'[s].stage = "failed" /\ job'[s].data = job[s].data
          /\ job'[s].loaded = job[s].loaded
      BY <1>1, <3>1 DEF GoTo, Job
    <3>3. Keeps(s)'
      BY <1>2, <1>5, <3>2, KeepsFrame DEF Active
    <3> QED
      BY <1>5, <1>6, <1>7, <1>8, <3>3 DEF Replayable
  <2>2. CASE ChunkAt(k) # {}
    <3>1. /\ job[s].stage = "read"
          /\ job'[s].left = job[s].left \ {k} /\ job'[s].data = job[s].data \cup ChunkAt(k)
          /\ job'[s].loaded = job[s].loaded /\ job'[s].crossed = job[s].crossed
          /\ job'[s].stage \in {"read", "put"} /\ row' = row
      BY <1>1, <1>10, <2>2 DEF Read, Job
    <3>2. k \in job[s].left
      <4>1. job[s].left # {} /\ job[s].left \subseteq Nat
        BY <1>1, <3>1 DEF Honest, Knows, Job, Seqs
      <4> QED
        BY <4>1, FirstIsOne
    <3> HIDE DEF k
    <3>3. \A c \in ChunkAt(k) : c \in store /\ c.seq = k
      BY DEF ChunkAt
    <3>4. Plays(job[s].data \cup ChunkAt(k))
      BY <1>1, <3>1, <3>2, <3>3 DEF Plays, Keeps, Replayable
    <3>5. \A c \in job'[s].data : c.seq \notin job'[s].left
      BY <1>1, <3>1, <3>3 DEF Keeps
    <3>6. Plays(job[s].data)'
      BY <1>3, <3>1, <3>4 DEF Plays
    <3>7. Keeps(s)'
      BY <1>1, <1>2, <3>1, <3>5, <3>6 DEF Keeps, Active
    <3> QED
      BY <1>5, <1>6, <1>7, <1>8, <3>7 DEF Replayable
  <2> QED
    BY <2>1, <2>2
<1>11. CASE PutMain(s) \/ CallerCommits(s)
  <2>1. PICK stage \in {"relist", "done"}, S \in {Stored, {"write", "commit"}} :
            /\ job' = Crossing(s, [job[s] EXCEPT !.stage = stage], S)
            /\ job[s].stage \in {"put", "commit"}
    BY <1>11 DEF PutMain, CallerCommits, Stored
  <2>2. job'[s] = [job[s] EXCEPT !.stage = stage]
    BY <2>1, CrossingJobs
  <2>3. /\ job'[s].stage \in {"relist", "done"} /\ job'[s].data = job[s].data
        /\ job'[s].loaded = job[s].loaded /\ job'[s].crossed = job[s].crossed
    BY <1>1, <2>2 DEF Job
  <2>4. Keeps(s)'
    BY <1>2, <1>5, <2>1, <2>3, KeepsFrame DEF Active
  <2> QED
    BY <1>5, <1>6, <1>7, <1>8, <2>4 DEF Replayable
<1>12. CASE Relist(s) \/ Delete(s) \/ Load(s)
  <2>1. /\ job'[s].stage \in {"load", "delete", "write"} /\ job'[s].data = job[s].data
        /\ job'[s].loaded \in {job[s].loaded, row} /\ job'[s].crossed = job[s].crossed
        /\ job[s].stage \in {"relist", "delete", "load"}
    BY <1>1, <1>12 DEF Relist, Delete, Load, Job
  <2>2. Keeps(s)'
    BY <1>2, <1>5, <2>1, KeepsFrame DEF Active
  <2> QED
    BY <1>5, <1>6, <1>7, <1>8, <2>2 DEF Replayable
<1>13. CASE Write(s) \/ CallerDrops(s) \/ Crash(s)
  <2>1. /\ job'[s].stage \in {"queued", "failed", "commit", "dropped"}
        /\ job'[s].data = job[s].data /\ job'[s].loaded = job[s].loaded
        /\ job'[s].crossed = job[s].crossed
        /\ job'[s].stage = "commit" => /\ job[s].stage = "write"
                                       /\ ~RowRefused(s, stream[s].seq)
    BY <1>1, <1>13 DEF Crash, Write, CallerDrops, GoTo, Job
  <2>2. Keeps(s)'
    BY <1>2, <1>5, <2>1, KeepsFrame DEF Active, RowRefused
  <2> QED
    BY <1>5, <1>6, <1>7, <1>8, <2>2 DEF Replayable
<1> QED
  BY <1>9, <1>10, <1>11, <1>12, <1>13 DEF JobStep

LEMMA ReplayableStep == Inv /\ Replayable /\ [AudioNext]_audio => Replayable'
<1>1. Replayable /\ UNCHANGED audio => Replayable'
  BY DEF Replayable, Keeps, Plays, Said, audio
<1> QED
  BY <1>1, ReplayableStream, ReplayableJobStep DEF Inv, AudioNext

-----------------------------------------------------------------------------
(* What an ended job leaves *)

\* A job is past its first deletion, or its caller let go of it.
Consuming == {"delete", "load", "write", "commit", "dropped"}

\* Why an ended job may have left no chunk behind.
Excused ==
    \/ row # NoAudio
    \/ crashes > 0
    \/ \E t \in Streams : job[t].stage \in Consuming
    \/ \E t \in Streams : job[t].stage = "failed" /\ stream[t].seq \notin MinTake .. MaxTake

\* Nothing was deleted yet: each take has its keys, a job finds what it listed,
\* and none has ended.
Untouched ==
    \A s \in Streams :
        /\ \A k \in Nat : k < stream[s].seq => k \in Keys(store)
        /\ job[s].stage = "read" => job[s].left \subseteq Keys(store)
        /\ job[s].stage \notin {"done", "failed"}

Ends == Excused \/ Untouched

LEMMA EndsInit == AudioInit => Ends
BY DEF AudioInit, Ends, Untouched, NoJob

\* A pipeline adds keys, and no take that has ended grows.
LEMMA EndsStream ==
    ASSUME Types, Undisturbed, Ends, NEW s \in Streams,
           Open(s) \/ PutChunk(s) \/ EmitEnd(s) \/ Enqueue(s) \/ Abandon(s)
    PROVE  Ends'
<1>1. /\ stream \in [Streams -> Pipeline] /\ stream[s] \in Pipeline
      /\ job \in [Streams -> Job] /\ job[s] \in Job /\ job[s].stage = "none"
  BY DEF Types, AudioTypeOK, Undisturbed, Open, PutChunk, EmitEnd, Enqueue, Abandon
<1>2. /\ row' = row /\ crashes' = crashes
      /\ \A t \in Streams \ {s} : stream'[t] = stream[t] /\ job'[t] = job[t]
      /\ job'[s].stage \in {"none", "queued"}
  BY <1>1 DEF Open, PutChunk, EmitEnd, Enqueue, Abandon, GoTo, Job
<1>3. Excused => Excused'
  BY <1>1, <1>2 DEF Excused, Consuming
<1>4. /\ Keys(store) \subseteq Keys(store')
      /\ \A k \in Nat : k < stream'[s].seq => k < stream[s].seq \/ k \in Keys(store')
  <2>1. CASE PutChunk(s)
    <3> DEFINE c == [seq |-> stream[s].seq, take |-> s]
    <3>1. /\ store' = (store \ ChunkAt(stream[s].seq)) \cup {c} /\ c.seq = stream[s].seq
          /\ stream'[s].seq = stream[s].seq + 1 /\ stream[s].seq \in Nat
      BY <1>1, <2>1 DEF PutChunk, Pipeline
    <3> HIDE DEF c
    <3>2. Keys(store) \subseteq Keys(store') /\ stream[s].seq \in Keys(store')
      BY <3>1 DEF Keys, ChunkAt
    <3>3. \A k \in Nat : k < stream'[s].seq => k < stream[s].seq \/ k = stream[s].seq
      BY <3>1
    <3> QED
      BY <3>2, <3>3
  <2>2. CASE ~PutChunk(s)
    <3>1. store' = store /\ stream'[s].seq = stream[s].seq
      BY <1>1, <2>2 DEF Open, EmitEnd, Enqueue, Abandon, Pipeline
    <3> QED
      BY <3>1
  <2> QED
    BY <2>1, <2>2
<1>5. Untouched => Untouched'
  <2> SUFFICES ASSUME Untouched, NEW t \in Streams
               PROVE  /\ \A k \in Nat : k < stream'[t].seq => k \in Keys(store')
                      /\ job'[t].stage = "read" => job'[t].left \subseteq Keys(store')
                      /\ job'[t].stage \notin {"done", "failed"}
    BY DEF Untouched, Keys
  <2>1. CASE t = s
    BY <1>2, <1>4, <2>1 DEF Untouched
  <2>2. CASE t # s
    <3>1. stream'[t] = stream[t] /\ job'[t] = job[t]
      BY <1>2, <2>2
    <3> QED
      BY <1>4, <3>1 DEF Untouched
  <2> QED
    BY <2>1, <2>2
<1> QED
  BY <1>3, <1>5 DEF Ends

\* What excuses a job stays an excuse: a job that is past deleting ends with the
\* row, with a refusal of its length, or is interrupted or let go of.
LEMMA ExcusedStays ==
    ASSUME Types, Honest, Undisturbed, Replayable, Excused, NEW s \in Streams,
           JobStep(s) \/ Crash(s)
    PROVE  Excused'
<1>1. /\ job \in [Streams -> Job] /\ job[s] \in Job /\ crashes \in Nat
      /\ \A t \in Streams \ {s} : job'[t].stage = job[t].stage
  <2>1. job \in [Streams -> Job] /\ job[s] \in Job /\ crashes \in Nat
    BY DEF Types, AudioTypeOK
  <2>2. CASE PutMain(s) \/ CallerCommits(s)
    <3>1. PICK j, S : job' = Crossing(s, j, S)
      BY <2>2 DEF PutMain, CallerCommits
    <3> QED
      BY <2>1, <3>1, CrossingJobs
  <2>3. CASE \/ List(s) \/ Read(s) \/ Relist(s) \/ Delete(s) \/ Load(s) \/ Write(s)
             \/ CallerDrops(s) \/ Crash(s)
    BY <2>1, <2>3 DEF List, Read, Relist, Delete, Load, Write, CallerDrops, Crash, GoTo
  <2> QED
    BY <2>1, <2>2, <2>3 DEF JobStep
<1>2. stream' = stream
  BY DEF JobStep, List, Read, PutMain, Relist, Delete, Load, Write, CallerCommits, CallerDrops, Crash
<1>3. CASE CallerCommits(s)
  BY <1>3, UpsertedRow DEF CallerCommits, Excused
<1>4. CASE Crash(s)
  BY <1>1, <1>4 DEF Crash, Excused
<1>5. CASE ~CallerCommits(s) /\ ~Crash(s)
  <2>1. row' = row /\ crashes' = crashes
    BY <1>5 DEF JobStep, List, Read, PutMain, Relist, Delete, Load, Write, CallerDrops
  <2>2. row = NoAudio /\ job[s].stage \in Consuming =>
          \/ job'[s].stage \in Consuming
          \/ job'[s].stage = "failed" /\ stream[s].seq \notin MinTake .. MaxTake
    BY <1>1, <1>5 DEF JobStep, List, Read, PutMain, Relist, Delete, Load, Write, CallerDrops,
                      RowRefused, GoTo, Job, Consuming
  <2>3. job[s].stage # "failed"
    BY DEF JobStep, List, Read, PutMain, Relist, Delete, Load, Write, CallerCommits, CallerDrops,
           Crash, Active
  <2> QED
    BY <1>1, <1>2, <2>1, <2>2, <2>3 DEF Excused
<1> QED
  BY <1>3, <1>4, <1>5

\* While nothing was deleted no job ends without an excuse.
LEMMA UntouchedStays ==
    ASSUME Types, Honest, Undisturbed, Untouched, ~Excused, NEW s \in Streams,
           JobStep(s) \/ Crash(s)
    PROVE  Ends'
<1>1. /\ job \in [Streams -> Job] /\ job[s] \in Job /\ crashes \in Nat
      /\ stream[s] \in Pipeline /\ job[s].stage \notin Consuming
  BY DEF Types, AudioTypeOK, Excused
<1>2. CASE Crash(s)
  BY <1>1, <1>2 DEF Crash, Ends, Excused
<1>3. CASE Relist(s)
  <2>1. job'[s].stage \in {"load", "delete"}
    BY <1>1, <1>3 DEF Relist, Job
  <2> QED
    BY <2>1 DEF Ends, Excused, Consuming
<1>4. CASE List(s)
  <2>1. /\ stream' = stream /\ store' = store
        /\ store = {} => job'[s].stage = "failed"
        /\ store # {} => job'[s].stage = "read" /\ job'[s].left = Keys(store)
        /\ \A t \in Streams \ {s} : job'[t] = job[t]
    BY <1>1, <1>4 DEF List, NoJob
  <2>2. CASE store = {}
    <3>1. stream[s].seq = 0
      BY <1>1, <2>2 DEF Untouched, Keys, Pipeline
    <3>2. stream'[s].seq \notin MinTake .. MaxTake
      BY <2>1, <3>1
    <3> QED
      BY <2>1, <2>2, <3>2 DEF Ends, Excused
  <2>3. CASE store # {}
    BY <2>1, <2>3 DEF Ends, Untouched
  <2> QED
    BY <2>2, <2>3
<1>5. CASE Read(s)
  <2> DEFINE k == First(job[s].left)
  <2>1. /\ job[s].stage = "read" /\ stream' = stream /\ store' = store
        /\ \A t \in Streams \ {s} : job'[t] = job[t]
    BY <1>1, <1>5 DEF Read, GoTo
  <2>2. k \in job[s].left
    <3>1. job[s].left # {} /\ job[s].left \subseteq Nat
      BY <1>1, <2>1 DEF Honest, Knows, Job, Seqs
    <3> QED
      BY <3>1, FirstIsOne
  <2>3. ChunkAt(k) # {}
    BY <2>1, <2>2 DEF Untouched, Keys, ChunkAt
  <2>4. job'[s].stage \in {"read", "put"} /\ job'[s].left \subseteq job[s].left
    BY <1>1, <1>5, <2>3 DEF Read, Job
  <2> HIDE DEF k
  <2>5. job'[s].left \subseteq Keys(store)
    BY <2>1, <2>4 DEF Untouched
  <2> QED
    BY <2>1, <2>4, <2>5 DEF Ends, Untouched
<1>6. CASE PutMain(s)
  <2>1. /\ stream' = stream /\ store' = store
        /\ job' = Crossing(s, [job[s] EXCEPT !.stage = "relist"], Stored)
    BY <1>6 DEF PutMain, Stored
  <2>2. job'[s].stage = "relist"
    BY <1>1, <2>1, CrossingJobs DEF Job
  <2>3. \A t \in Streams \ {s} : job'[t].stage = job[t].stage /\ job'[t].left = job[t].left
    BY <2>1, CrossingJobs
  <2> QED
    BY <2>1, <2>2, <2>3 DEF Ends, Untouched
<1> QED
  BY <1>1, <1>2, <1>3, <1>4, <1>5, <1>6
     DEF JobStep, Delete, Load, Write, CallerCommits, CallerDrops, Consuming

LEMMA EndsStep == Inv /\ Replayable /\ Ends /\ [AudioNext]_audio => Ends'
<1>1. Ends /\ UNCHANGED audio => Ends'
  BY DEF Ends, Excused, Untouched, Keys, audio
<1> QED
  BY <1>1, EndsStream, ExcusedStays, UntouchedStays DEF Inv, AudioNext, Ends

-----------------------------------------------------------------------------

\* Every variable keeps its type.
THEOREM TypeCorrect == AudioSpec => []AudioTypeOK
<1>1. Types => AudioTypeOK
  BY DEF Types
<1> QED
  BY <1>1, TypesInit, TypesStep, PTL DEF AudioSpec

\* A recorded file can be replayed, and while the last job to store main.mp3
\* also wrote the row uncrossed, the replay's ETag and length are the file's.
THEOREM ReplayIsHonest == AudioSpec => []ReplayHonest
<1>1. Honest => ReplayHonest
  <2> SUFFICES ASSUME Honest PROVE ReplayHonest
    OBVIOUS
  <2>1. row # NoAudio => Replay.status = 200
    BY DEF Honest, Replay
  <2>2. ASSUME settled
        PROVE  Replay = [status |-> 200, etag |-> main, length |-> Cardinality(main), body |-> main]
    <3>1. main # {} /\ row.hash = main /\ row.size = Cardinality(main)
      BY <2>2 DEF Honest
    <3>2. row # NoAudio
      BY <3>1 DEF NoAudio
    <3> QED
      BY <3>1, <3>2 DEF Replay
  <2> QED
    BY <2>1, <2>2 DEF ReplayHonest
<1> QED
  BY <1>1, TypesInit, HonestInit, TypesStep, HonestStep, PTL DEF AudioSpec

\* While nothing was disturbed main.mp3 is one whole take and its row has the
\* take's duration, for every number of takes, crashes and reruns.
THEOREM WholeTakeKept == AudioSpec => []WholeTake
<1>1. Inv => WholeTake
  BY DEF Inv, Undisturbed, WholeTake, IsTake
<1> QED
  BY <1>1, InvInit, InvStep, PTL DEF AudioSpec

\* A chunk leaves the store only when main.mp3 has it, while nothing was
\* disturbed, in every behaviour.
THEOREM ChunksKept == AudioSpec => DeletedOnlyWhenStitched
<1>1. Inv /\ [AudioNext]_audio => [\A c \in store \ store' : disturbed' \/ c \in main]_audio
  <2> SUFFICES ASSUME Inv, AudioNext, NEW c \in store \ store', ~disturbed'
               PROVE  c \in main
    OBVIOUS
  <2>1. ~disturbed
    BY DEF AudioNext, JobStep, Open, PutChunk, EmitEnd, Enqueue, Abandon,
           List, Read, PutMain, Relist, Delete, Load, Write, CallerCommits, CallerDrops, Crash
  <2>2. PICK s \in Streams : PutChunk(s) \/ Delete(s)
    BY DEF AudioNext, JobStep, Open, EmitEnd, Enqueue, Abandon, List, Read, PutMain,
           Relist, Load, Write, CallerCommits, CallerDrops, Crash
  <2>3. Holds(s)
    BY <2>1 DEF Inv, Undisturbed
  <2>4. CASE PutChunk(s)
    <3>1. store = Take(s) /\ c \in ChunkAt(stream[s].seq) /\ stream[s] \in Pipeline
      BY <2>3, <2>4 DEF PutChunk, Holds, Inv, Types, AudioTypeOK
    <3> QED
      BY <3>1 DEF ChunkAt, Take, Chunk, Seqs, Pipeline
  <2>5. CASE Delete(s)
    BY <2>3, <2>5 DEF Delete, Holds, Stored
  <2> QED
    BY <2>2, <2>4, <2>5
<1> QED
  BY <1>1, InvInit, InvStep, PTL DEF AudioSpec, DeletedOnlyWhenStitched
\* However jobs take chunks from under each other, one that has ended leaves a
\* recorded file, or a job that is past deleting and will record one, unless a
\* worker died, a caller did not commit, or a forbidden length was refused.
THEOREM EndedTakesReplayable == AudioSpec => []EndedTakeReplayable
<1>1. Ends => EndedTakeReplayable
  BY DEF Ends, Excused, Untouched, Consuming, EndedTakeReplayable
<1> QED
  BY <1>1, InvInit, InvStep, ReplayableInit, ReplayableStep, EndsInit, EndsStep, PTL DEF AudioSpec

-----------------------------------------------------------------------------
(* The promise *)

\* A whole take of the promise is the take of that stream.
LEMMA WholeIsTake ==
    ASSUME AudioTypeOK, NEW s \in Streams PROVE Replayed!Whole(s) = Take(s)
<1>1. stream[s].seq \in Nat /\ stream[s].seq <= MaxSeq
  BY DEF AudioTypeOK, Pipeline
<1>2. \A c \in Take(s) : c = [seq |-> c.seq, take |-> s] /\ c.seq \in 0 .. stream[s].seq - 1
  BY <1>1 DEF Take, Chunk, Seqs
<1>3. \A i \in 0 .. stream[s].seq - 1 : [seq |-> i, take |-> s] \in Take(s)
  BY <1>1 DEF Take, Chunk, Seqs
<1> QED
  BY <1>2, <1>3 DEF Replayed!Whole

\* What plays is playable.
LEMMA PlaysIsPlayable ==
    ASSUME AudioTypeOK, NEW blob, Plays(blob), blob # {} PROVE Replayed!Playable(blob)
<1>1. \A c \in Said : c.take \in Streams /\ c \in Take(c.take)
  BY DEF Said, Take, Chunk
<1>2. Said \subseteq UNION {Replayed!Whole(s) : s \in Streams}
  BY <1>1, WholeIsTake
<1> QED
  BY <1>2 DEF Replayed!Playable, Plays

\* Each step is one that ReplayPromise allows, or changes nothing it sees.
LEMMA StepPromise == Inv /\ Replayable /\ [AudioNext]_audio => [Replayed!Next]_(Replayed!vars)
<1> SUFFICES ASSUME Inv, Replayable, AudioNext PROVE [Replayed!Next]_(Replayed!vars)
  BY DEF audio, Replayed!vars
<1>1. PICK s \in Streams : \/ Open(s) \/ PutChunk(s) \/ EmitEnd(s) \/ Enqueue(s) \/ Abandon(s)
                           \/ JobStep(s) \/ Crash(s)
  BY DEF AudioNext
<1>2. /\ AudioTypeOK /\ stream \in [Streams -> Pipeline] /\ stream[s] \in Pipeline
      /\ Keeps(s) /\ Knows(s) /\ (~disturbed => Holds(s))
      /\ job[s].stage # "none" => stream[s].stage = "finished"
      /\ job[s] \in Job
  BY DEF Inv, Types, AudioTypeOK, Replayable, Honest, Undisturbed
<1> DEFINE spoken == [t \in Streams |-> stream[t].seq]
           complete == {t \in Streams : stream[t].stage = "finished"}
<1>3. CASE Open(s) \/ Crash(s)
  <2>1. /\ main' = main /\ row' = row /\ spoken' = spoken /\ complete' = complete
        /\ disturbed' \in {disturbed, TRUE}
    <3>1. \A t \in Streams : stream'[t].seq = stream[t].seq /\ (stream'[t].stage = "finished" <=> stream[t].stage = "finished")
      BY <1>2, <1>3 DEF Open, Crash, Pipeline
    <3>2. main' = main /\ row' = row
      BY <1>3 DEF Open, Crash
    <3>3. (disturbed => disturbed') /\ disturbed' \in BOOLEAN
      BY <1>2, <1>3, Zenon DEF Open, Crash, AudioTypeOK
    <3>4. disturbed' \in {disturbed, TRUE}
      BY <1>2, <3>3, Zenon DEF AudioTypeOK
    <3> QED
      BY <3>1, <3>2, <3>4
  <2> QED
    BY <2>1 DEF Replayed!vars, Replayed!Next, Replayed!Disturb
<1>4. CASE PutChunk(s)
  <2>1. /\ stream' = [stream EXCEPT ![s].seq = @ + 1] /\ stream[s].stage = "speaking"
        /\ main' = main /\ row' = row /\ disturbed' = disturbed
    BY <1>4 DEF PutChunk
  <2>2. spoken' = [spoken EXCEPT ![s] = @ + 1]
    BY <1>2, <2>1 DEF Pipeline
  <2>3. complete' = complete /\ s \notin complete
    BY <1>2, <2>1 DEF Pipeline
  <2> QED
    BY <2>1, <2>2, <2>3 DEF Replayed!Next, Replayed!Speak
<1>5. CASE EmitEnd(s) \/ Abandon(s)
  <2>1. \A t \in Streams : stream'[t].seq = stream[t].seq /\ (stream'[t].stage = "finished" <=> stream[t].stage = "finished")
    BY <1>2, <1>5 DEF EmitEnd, Abandon, Pipeline
  <2>2. main' = main /\ row' = row /\ disturbed' = disturbed
    BY <1>5 DEF EmitEnd, Abandon
  <2> QED
    BY <2>1, <2>2 DEF Replayed!vars
<1>6. CASE Enqueue(s)
  <2>1. /\ stream' = [stream EXCEPT ![s].stage = "finished"]
        /\ main' = main /\ row' = row /\ disturbed' = disturbed
    BY <1>6 DEF Enqueue
  <2>2. spoken' = spoken /\ complete' = complete \cup {s}
    BY <1>2, <2>1 DEF Pipeline
  <2> QED
    BY <2>1, <2>2 DEF Replayed!Next, Replayed!Complete
<1>7. CASE PutMain(s)
  <2>1. /\ job[s].stage = "put" /\ main' = job[s].data
        /\ stream' = stream /\ row' = row /\ disturbed' = disturbed
    BY <1>7 DEF PutMain
  <2>2. Replayed!Playable(main')
    BY <1>2, <2>1, PlaysIsPlayable DEF Knows, Keeps
  <2>3. ~disturbed => s \in complete /\ main' = Replayed!Whole(s)
    BY <1>2, <2>1, WholeIsTake DEF Holds, Stored
  <2> QED
    BY <2>1, <2>2, <2>3 DEF Replayed!Next, Replayed!Store
<1>8. CASE CallerCommits(s)
  <2>1. /\ job[s].stage = "commit" /\ row' = Upserted(s, stream[s].seq)
        /\ main' = main /\ stream' = stream /\ disturbed' = disturbed
    BY <1>8 DEF CallerCommits
  <2>2. main # {} /\ row'.duration \in MinTake .. MaxTake
    BY <1>2, <2>1, UpsertedRow DEF Knows, Stored, Inv
  <2>3. ASSUME ~disturbed
        PROVE  s \in complete /\ main = Replayed!Whole(s) /\ row' = Replayed!RecordOf(s)
    <3>1. ~job[s].crossed /\ main = Take(s) /\ s \in complete
      BY <1>2, <2>1, <2>3 DEF Keeps, Holds, Active, Stored
    <3>2. Cardinality(main) = stream[s].seq
      BY <1>2, <3>1, TakeSize
    <3>3. row' = [hash |-> main, size |-> Cardinality(main), duration |-> stream[s].seq]
      BY <2>1, <3>1, UpsertedRow DEF Inv
    <3> QED
      BY <1>2, <3>1, <3>2, <3>3, WholeIsTake DEF Replayed!RecordOf
  <2> QED
    BY <2>1, <2>2, <2>3 DEF Replayed!Next, Replayed!Record
<1>9. CASE \/ List(s) \/ Read(s) \/ Relist(s) \/ Delete(s) \/ Load(s)
           \/ Write(s) \/ CallerDrops(s)
  BY <1>9 DEF List, Read, Relist, Delete, Load, Write, CallerDrops, Replayed!vars
<1> QED
  BY <1>1, <1>3, <1>4, <1>5, <1>6, <1>7, <1>8, <1>9 DEF JobStep

LEMMA InitPromise == AudioInit => Replayed!Init
BY DEF AudioInit, Replayed!Init, NoAudio, Replayed!NoRecord

\* Streams that are opened again, jobs that run beside each other, die and run
\* again do to the replay only what ReplayPromise allows, in every behaviour:
\* what is stored can be played, what is recorded has a lawful length, and
\* undisturbed it is a whole take and the record describes it.
THEOREM KeepsPromise == AudioSpec => ReplayPromiseKept
BY InvInit, InvStep, ReplayableInit, ReplayableStep, InitPromise, StepPromise, PTL
   DEF AudioSpec, Replayed!Spec, ReplayPromiseKept
=============================================================================
