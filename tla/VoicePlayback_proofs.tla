------------------------ MODULE VoicePlayback_proofs ------------------------
(***************************************************************************)
(* The reading player, proved for takes, sources and faults of any number: *)
(* what the SourceBuffer gets, when the MediaSource is closed, and when    *)
(* the player gives up waiting.                                            *)
(***************************************************************************)
EXTENDS VoicePlayback, TLAPS

-----------------------------------------------------------------------------
(* The inductive invariant *)

queue == source[1].queue

\* What has been fetched and kept: held back, or in the SourceBuffer.
Kept(c) == c \in pending \/ \E n \in 1 .. Len(appended) : appended[n] = c

\* Kept, being fetched, or among the first k events still to be read.
Due(c, k) == \/ Kept(c)
             \/ pump.stage = "fetch" /\ pump.chunk = c
             \/ \E j \in 1 .. k : queue[j] = c

Pred(c) == [take |-> c.take, seq |-> c.seq - 1]
Last    == [take |-> source[1].take, seq |-> source[1].sent - 1]

\* As long as nothing failed a chunk comes behind the chunk before it, through
\* the queue, the pump and the pending chunks.
Consecutive ==
    failures = 0 =>
        /\ \A c \in pending : c.seq > 0 => Kept(Pred(c))
        /\ pump.stage = "fetch" /\ pump.chunk.seq > 0 => Kept(Pred(pump.chunk))
        /\ \A k \in 1 .. Len(queue) :
              queue[k] # End /\ queue[k].seq > 0 => Due(Pred(queue[k]), k - 1)
        /\ source[1].sent > 0 => Due(Last, Len(queue))

\* `end' is the last event of its source.
EndIsLast ==
    /\ \A k \in 1 .. Len(queue) :
          queue[k] = End => k = Len(queue) /\ source[1].conn = "closed"
    /\ endRequested => queue = <<>> /\ source[1].conn = "closed" /\ pump.stage = "wait"

Counted == expected = Len(appended)

Closed == mse = "ended" => endRequested /\ pending = {} /\ ~inFlight

\* The timer is stopped by the first chunk that has been fetched.
Early == timer => appended = <<>> /\ pending = {} /\ ~inFlight /\ pump.stage # "opening"

Sources ==
    /\ ~online => current < MaxSources
    /\ \A i \in 1 .. MaxSources : source[i].conn = "open" => source[i].take \in Takes
    /\ source[1].take \in Takes

Inv ==
    /\ TypeOK /\ Sources
    /\ Counted /\ AppendedInOrder /\ Consecutive
    /\ EndIsLast /\ Closed
    /\ Early

-----------------------------------------------------------------------------
(* What drainPending does, to the pending chunks P *)

Appends(c, P) ==
    /\ pending' = P \ {c} /\ appended' = Append(appended, c)
    /\ expected' = c.seq + 1 /\ inFlight' = TRUE
    /\ failures' = failures /\ mse' = mse

Throws(c, P) ==
    /\ pending' = P \ {c} /\ appended' = appended
    /\ expected' = expected /\ inFlight' = FALSE
    /\ failures' = failures + 1 /\ mse' = mse

Rests(P) ==
    /\ pending' = P /\ appended' = appended
    /\ expected' = expected /\ inFlight' = FALSE
    /\ failures' = failures
    /\ \/ mse' = mse
       \/ mse' = "ended" /\ endRequested /\ P = {} /\ ~Fetching

LEMMA DrainDoes ==
    ASSUME NEW P, Drain(P)
    PROVE  \/ \E c \in P : Ready(c, P) /\ (Appends(c, P) \/ Throws(c, P))
           \/ Rests(P)
<1>1. CASE \E c \in P : Ready(c, P) /\ AppendChunk(c, P)
  BY <1>1 DEF AppendChunk, Appends, Throws
<1>2. CASE ~ \E c \in P : Ready(c, P) /\ AppendChunk(c, P)
  BY <1>2 DEF Drain, Rests, MayFinalize, Finalize
<1> QED
  BY <1>1, <1>2

LEMMA DrainTypes ==
    ASSUME TypeOK, NEW P \in SUBSET Chunk, Drain(P)
    PROVE  /\ pending' \subseteq Chunk /\ appended' \in Seq(Chunk)
           /\ expected' \in 0 .. Chunks /\ inFlight' \in BOOLEAN
           /\ mse' \in {"unsupported", "attached", "failed", "open", "broken", "ended"}
           /\ status' \in Status
           /\ runtime' \in {"streaming", "network_drop", "ended"}
           /\ failures' \in Nat
<1>1. /\ appended \in Seq(Chunk) /\ expected \in 0 .. Chunks /\ failures \in Nat
      /\ mse \in {"unsupported", "attached", "failed", "open", "broken", "ended"}
      /\ status \in Status /\ runtime \in {"streaming", "network_drop", "ended"}
      /\ Chunks \in Nat
  BY VoicePlaybackAssumption DEF TypeOK
<1>2. CASE \E c \in P : Ready(c, P) /\ AppendChunk(c, P)
  <2>1. PICK c \in P : AppendChunk(c, P)
    BY <1>2
  <2>2. c \in Chunk /\ c.seq + 1 \in 0 .. Chunks
    BY <1>1 DEF Chunk, Seqs
  <2>3. Append(appended, c) \in Seq(Chunk)
    BY <1>1, <2>2
  <2>4. pending' \subseteq Chunk /\ mse' = mse /\ runtime' = runtime
    BY <2>1 DEF AppendChunk
  <2>5. /\ inFlight' = TRUE \/ inFlight' = FALSE
        /\ status' \in {status, "playing", "error"}
        /\ failures' \in {failures, failures + 1}
    BY <2>1 DEF AppendChunk
  <2>6. appended' \in Seq(Chunk) /\ expected' \in 0 .. Chunks
    BY <1>1, <2>1, <2>2, <2>3 DEF AppendChunk
  <2>7. inFlight' \in BOOLEAN
    BY <2>5
  <2>8. status' \in Status /\ failures' \in Nat
    BY <1>1, <2>5 DEF Status
  <2> QED
    BY <1>1, <2>4, <2>6, <2>7, <2>8
<1>3. CASE ~ \E c \in P : Ready(c, P) /\ AppendChunk(c, P)
  BY <1>1, <1>3 DEF Drain, Finalize, Status
<1> QED
  BY <1>2, <1>3

-----------------------------------------------------------------------------
(* Types *)

LEMMA Typed == Init => TypeOK /\ Sources
<1> SUFFICES ASSUME Init PROVE TypeOK /\ Sources
  OBVIOUS
<1> USE VoicePlaybackAssumption
<1>1. <<>> \in Seq(Chunk \cup {End}) /\ 0 \in 0 .. Chunks /\ 1 \in Takes /\ Chunks \in Nat
  BY DEF Takes
<1>2. Unopened \in Source
  BY <1>1 DEF Unopened, Source
<1>3. [Unopened EXCEPT !.conn = "open", !.take = 1] \in Source
  BY <1>1, <1>2 DEF Source
<1>4. source \in [1 .. MaxSources -> Source]
  BY <1>2, <1>3 DEF Init
<1>5. pump \in Pump
  BY DEF Init, Pump
<1>6. current \in 1 .. MaxSources /\ appended \in Seq(Chunk)
  BY DEF Init
<1>7. TypeOK
  BY <1>1, <1>4, <1>5, <1>6 DEF Init, TypeOK, Status
<1>8. Sources
  BY <1>1 DEF Init, Sources, Unopened
<1> QED
  BY <1>7, <1>8

\* A source stays a source.
Conns == {"unopened", "open", "retrying", "dead", "closed"}

LEMMA Reconnected ==
    ASSUME NEW r \in Source, NEW conn \in Conns
    PROVE  LET q == [r EXCEPT !.conn = conn]
           IN  q \in Source /\ q.conn = conn /\ q.take = r.take
BY DEF Source, Conns

LEMMA NewTake ==
    ASSUME NEW r \in Source, NEW take \in Takes
    PROVE  LET q == [r EXCEPT !.conn = "open", !.take = take]
           IN  q \in Source /\ q.take = take
BY DEF Source

LEMMA NewTakeFromStart ==
    ASSUME NEW r \in Source, NEW take \in Takes
    PROVE  LET q == [r EXCEPT !.conn = "open", !.take = take, !.sent = 0]
           IN  q \in Source /\ q.take = take
<1>1. 0 \in 0 .. Chunks
  BY VoicePlaybackAssumption
<1> QED
  BY <1>1 DEF Source

LEMMA Ended ==
    ASSUME NEW r \in Source
    PROVE  LET q == [r EXCEPT !.conn = "closed", !.queue = Append(@, End)]
           IN  q \in Source /\ q.conn = "closed" /\ q.take = r.take
<1>1. Append(r.queue, End) \in Seq(Chunk \cup {End})
  BY DEF Source
<1> QED
  BY <1>1 DEF Source

LEMMA Popped ==
    ASSUME NEW r \in Source, r.queue # <<>>
    PROVE  LET q == [r EXCEPT !.queue = Tail(@)]
           IN  /\ q \in Source /\ q.conn = r.conn /\ q.take = r.take
               /\ Head(r.queue) \in Chunk \cup {End}
<1>1. Tail(r.queue) \in Seq(Chunk \cup {End}) /\ Head(r.queue) \in Chunk \cup {End}
  BY DEF Source
<1> QED
  BY <1>1 DEF Source

LEMMA Announced ==
    ASSUME NEW r \in Source, r.sent < Chunks, r.take \in Takes
    PROVE  LET q == [r EXCEPT !.sent = @ + 1,
                              !.queue = Append(@, [take |-> r.take, seq |-> r.sent])]
           IN  /\ q \in Source /\ q.conn = r.conn /\ q.take = r.take
               /\ [take |-> r.take, seq |-> r.sent] \in Chunk
<1>1. Chunks \in Nat /\ r.sent + 1 \in 0 .. Chunks /\ r.sent \in 0 .. Chunks - 1
  BY VoicePlaybackAssumption DEF Source
<1>2. [take |-> r.take, seq |-> r.sent] \in Chunk
  BY <1>1 DEF Chunk, Seqs
<1>3. Append(r.queue, [take |-> r.take, seq |-> r.sent]) \in Seq(Chunk \cup {End})
  BY <1>2 DEF Source
<1> QED
  BY <1>1, <1>2, <1>3 DEF Source

LEMMA TypesKept == TypeOK /\ Sources /\ [Next]_vars => TypeOK' /\ Sources'
<1> SUFFICES ASSUME TypeOK, Sources, [Next]_vars PROVE TypeOK' /\ Sources'
  OBVIOUS
<1> USE VoicePlaybackAssumption
<1>1. /\ source \in [1 .. MaxSources -> Source] /\ takes \in Takes /\ drops \in Nat
      /\ current \in 1 .. MaxSources /\ failures \in Nat /\ 1 \in 1 .. MaxSources
  BY DEF TypeOK
\* What only concerns the network and the page.
<1>2. ASSUME source' \in [1 .. MaxSources -> Source], takes' \in Takes, drops' \in Nat,
             current' \in 1 .. MaxSources, online' \in BOOLEAN,
             runtime' \in {"streaming", "network_drop", "ended"},
             PlayerUnchanged
      PROVE  TypeOK'
  BY <1>2 DEF TypeOK, PlayerUnchanged, buffer
<1>3. ASSUME NEW i \in 1 .. MaxSources, Announce(i)
      PROVE  TypeOK' /\ Sources'
  <2> DEFINE r == [source[i] EXCEPT !.sent = @ + 1,
                                    !.queue = Append(@, [take |-> source[i].take,
                                                         seq |-> source[i].sent])]
  <2>1. source[i].take \in Takes /\ source[i].sent < Chunks
    BY <1>3 DEF Announce, Sources
  <2>2. r \in Source
    BY <2>1, Announced, <1>1
  <2>3. source' = [source EXCEPT ![i] = r]
    BY <1>3 DEF Announce
  <2>4. source' \in [1 .. MaxSources -> Source]
    BY <1>1, <2>2, <2>3
  <2>5. r.conn = source[i].conn /\ r.take = source[i].take
    BY <1>1, <2>1, Announced
  <2>6. \A j \in 1 .. MaxSources :
           source'[j].conn = source[j].conn /\ source'[j].take = source[j].take
    BY <1>1, <2>3, <2>5
  <2>7. TypeOK'
    BY <1>2, <1>3, <2>4 DEF Announce, page, TypeOK
  <2>8. UNCHANGED <<online, current>>
    BY <1>3 DEF Announce, page
  <2> QED
    BY <1>1, <2>6, <2>7, <2>8 DEF Sources
<1>4. ASSUME NEW i \in 1 .. MaxSources, AnnounceEnd(i)
      PROVE  TypeOK' /\ Sources'
  <2> DEFINE r == [source[i] EXCEPT !.conn = "closed", !.queue = Append(@, End)]
  <2>1. r \in Source /\ r.conn = "closed" /\ r.take = source[i].take
    BY <1>1, Ended
  <2>2. source' = [source EXCEPT ![i] = r]
    BY <1>4 DEF AnnounceEnd
  <2>3. source' \in [1 .. MaxSources -> Source]
    BY <1>1, <2>1, <2>2
  <2>4. \A j \in 1 .. MaxSources : source'[j] = IF j = i THEN r ELSE source[j]
    BY <1>1, <2>2
  <2>5. TypeOK'
    BY <1>2, <1>4, <2>3 DEF AnnounceEnd, page, TypeOK
  <2>6. UNCHANGED <<online, current>>
    BY <1>4 DEF AnnounceEnd, page
  <2> QED
    BY <1>1, <2>1, <2>4, <2>5, <2>6 DEF Sources
<1>5. ASSUME NEW i \in 1 .. MaxSources, Drop(i)
      PROVE  TypeOK' /\ Sources'
  <2>1. PICK conn \in {"retrying", "dead"} : source' = [source EXCEPT ![i].conn = conn]
    BY <1>5 DEF Drop
  <2> DEFINE r == [source[i] EXCEPT !.conn = conn]
  <2>2. r \in Source /\ r.conn = conn /\ r.take = source[i].take
    <3>1. source[i] \in Source /\ conn \in Conns
      BY <1>1 DEF Conns
    <3> QED
      BY <3>1, Reconnected
  <2>3. source' = [source EXCEPT ![i] = r]
    BY <2>1
  <2>4. source' \in [1 .. MaxSources -> Source]
    BY <1>1, <2>2, <2>3
  <2>5. \A j \in 1 .. MaxSources : source'[j] = IF j = i THEN r ELSE source[j]
    BY <1>1, <2>3
  <2>6. drops' \in Nat /\ runtime' = "network_drop" /\ UNCHANGED <<online, current, takes>>
        /\ PlayerUnchanged
    BY <1>1, <1>5 DEF Drop
  <2>7. TypeOK'
    BY <1>1, <1>2, <2>4, <2>6 DEF TypeOK
  <2> QED
    BY <1>1, <2>2, <2>5, <2>6, <2>7 DEF Sources
<1>6. ASSUME NEW i \in 1 .. MaxSources, Retry(i)
      PROVE  TypeOK' /\ Sources'
  <2> DEFINE r == [source[i] EXCEPT !.conn = "open", !.take = takes + 1, !.sent = 0]
  <2>1. takes + 1 \in Takes
    BY <1>1 DEF Takes
  <2>2. r \in Source /\ r.take = takes + 1
    BY <1>1, <2>1, NewTakeFromStart
  <2>3. source' = [source EXCEPT ![i] = r]
    BY <1>6 DEF Retry
  <2>4. source' \in [1 .. MaxSources -> Source]
    BY <1>1, <2>2, <2>3
  <2>5. \A j \in 1 .. MaxSources : source'[j] = IF j = i THEN r ELSE source[j]
    BY <1>1, <2>3
  <2>6. UNCHANGED <<page, drops>> /\ takes' = takes + 1 /\ PlayerUnchanged
    BY <1>6 DEF Retry
  <2>7. TypeOK'
    BY <1>2, <2>1, <2>4, <2>6 DEF TypeOK, page
  <2> QED
    BY <1>1, <2>1, <2>2, <2>5, <2>6, <2>7 DEF Sources, page
<1>7. ASSUME Offline PROVE TypeOK' /\ Sources'
  <2> DEFINE r == [source[current] EXCEPT !.conn = "closed"]
  <2>1. r \in Source /\ r.conn = "closed" /\ r.take = source[current].take
    BY <1>1, Reconnected DEF Conns
  <2>2. source' = [source EXCEPT ![current] = r]
    BY <1>7 DEF Offline
  <2>3. source' \in [1 .. MaxSources -> Source]
    BY <1>1, <2>1, <2>2
  <2>4. \A j \in 1 .. MaxSources : source'[j] = IF j = current THEN r ELSE source[j]
    BY <1>1, <2>2
  <2>5. /\ current < MaxSources /\ online' = FALSE /\ runtime' = "network_drop"
        /\ UNCHANGED <<current, takes, drops>> /\ PlayerUnchanged
    BY <1>7 DEF Offline
  <2>6. TypeOK'
    BY <1>1, <1>2, <2>3, <2>5
  <2> QED
    BY <1>1, <2>1, <2>4, <2>5, <2>6 DEF Sources
<1>8. ASSUME Online, runtime = "network_drop" PROVE TypeOK' /\ Sources'
  <2> DEFINE r == [source[current + 1] EXCEPT !.conn = "open", !.take = takes + 1]
  <2>1. takes + 1 \in Takes /\ current + 1 \in 1 .. MaxSources
    BY <1>1, <1>8 DEF Takes, Sources, Online
  <2>2. r \in Source /\ r.take = takes + 1
    BY <1>1, <2>1, NewTake
  <2>3. source' = [source EXCEPT ![current + 1] = r]
    BY <1>8 DEF Online
  <2>4. source' \in [1 .. MaxSources -> Source]
    BY <1>1, <2>2, <2>3
  <2>5. \A j \in 1 .. MaxSources : source'[j] = IF j = current + 1 THEN r ELSE source[j]
    BY <1>1, <2>3
  <2>6. /\ online' = TRUE /\ runtime' = "streaming" /\ current' = current + 1
        /\ takes' = takes + 1 /\ drops' = drops /\ PlayerUnchanged
    BY <1>8 DEF Online
  <2>7. TypeOK'
    BY <1>1, <1>2, <2>1, <2>4, <2>6
  <2> QED
    BY <1>1, <2>1, <2>2, <2>5, <2>6, <2>7 DEF Sources
<1>9. ASSUME Online, runtime # "network_drop" PROVE TypeOK' /\ Sources'
  BY <1>1, <1>2, <1>9 DEF Online, TypeOK, Sources
\* The player takes only from the first source, and opens or closes none.
<1>10. ASSUME UNCHANGED <<online, current, net>> PROVE Sources'
  BY <1>10 DEF Sources, net
<1>11. ASSUME TakeEvent PROVE TypeOK' /\ Sources'
  <2> DEFINE r == [source[1] EXCEPT !.queue = Tail(@)]
             e == Head(source[1].queue)
  <2>1. 1 \in 1 .. MaxSources /\ source[1].queue # <<>>
    BY <1>11 DEF TakeEvent
  <2>2. r \in Source /\ r.conn = source[1].conn /\ r.take = source[1].take
    BY <1>1, <2>1, Popped
  <2>3. source' = [source EXCEPT ![1] = r]
    BY <1>11 DEF TakeEvent
  <2>4. source' \in [1 .. MaxSources -> Source]
    BY <1>1, <2>1, <2>2, <2>3
  <2>5. \A j \in 1 .. MaxSources :
           source'[j].conn = source[j].conn /\ source'[j].take = source[j].take
    BY <1>1, <2>1, <2>2, <2>3
  <2>6. e \in Chunk \cup {End} /\ pump \in Pump
    BY <1>1, <2>1, Popped DEF TypeOK
  <2>7. pump' \in Pump
    <3>1. pump' = pump \/ (e # End /\ pump' = [stage |-> "fetch", chunk |-> e])
      BY <1>11 DEF TakeEvent
    <3>2. e # End => [stage |-> "fetch", chunk |-> e] \in Pump
      BY <2>6 DEF Pump
    <3> QED
      BY <2>6, <3>1, <3>2
  <2>8. /\ mse' \in {mse, "ended"} /\ status' \in {status, "ended"}
        /\ runtime' \in {runtime, "ended"} /\ (endRequested' = endRequested \/ endRequested' = TRUE)
    BY <1>11 DEF TakeEvent, Finalize
  <2>9. UNCHANGED <<online, current, takes, drops, buffer, timer, failures>>
    BY <1>11 DEF TakeEvent
  <2>10. mse' \in {"unsupported", "attached", "failed", "open", "broken", "ended"}
         /\ status' \in Status /\ runtime' \in {"streaming", "network_drop", "ended"}
    BY <2>8 DEF TypeOK, Status
  <2>11. endRequested' \in BOOLEAN
    BY <2>8 DEF TypeOK
  <2>12. TypeOK'
    BY <2>4, <2>7, <2>9, <2>10, <2>11 DEF TypeOK, buffer
  <2> QED
    BY <2>5, <2>9, <2>12 DEF Sources
<1>12. Idle \in Pump
  BY DEF Pump
<1>13. ASSUME NEW P \in SUBSET Chunk, Drain(P),
              UNCHANGED <<online, current, net, endRequested>>, timer' \in BOOLEAN,
              pump' = pump \/ pump' = Idle
       PROVE  TypeOK' /\ Sources'
  BY <1>10, <1>12, <1>13, DrainTypes DEF TypeOK, net
<1>14. ASSUME Fetched PROVE TypeOK' /\ Sources'
  <2>1. pump.chunk \in Chunk /\ pump.stage = "fetch" /\ pump \in Pump
    BY <1>14 DEF Fetched, TypeOK, Pump, Idle
  <2> DEFINE P == pending \cup {pump.chunk}
  <2>2. P \in SUBSET Chunk
    BY <2>1 DEF TypeOK
  <2>3. timer' \in BOOLEAN /\ UNCHANGED <<online, current, net, endRequested>>
    BY <1>14 DEF Fetched
  <2>4. CASE Drain(P) /\ pump' = Idle
    BY <1>13, <2>2, <2>3, <2>4
  <2>5. CASE /\ pump' = Idle \/ pump' = [pump EXCEPT !.stage = "opening"]
             /\ pending' = P
             /\ UNCHANGED <<appended, expected, inFlight, mse, status, runtime, failures>>
    <3>1. pump' \in Pump
      BY <1>12, <2>1, <2>5 DEF Pump, Idle
    <3> QED
      BY <1>10, <2>2, <2>3, <2>5, <3>1 DEF TypeOK, net
  <2> QED
    BY <1>14, <2>4, <2>5 DEF Fetched
<1>15. ASSUME FetchFails PROVE TypeOK' /\ Sources'
  BY <1>1, <1>12, <1>15 DEF FetchFails, TypeOK, Sources, page, net, buffer, Status
<1>16. ASSUME Resume PROVE TypeOK' /\ Sources'
  <2>1. pending \in SUBSET Chunk /\ timer \in BOOLEAN
    BY DEF TypeOK
  <2> QED
    BY <1>13, <1>16, <2>1 DEF Resume
<1>17. ASSUME UpdateEnd PROVE TypeOK' /\ Sources'
  <2>1. pending \in SUBSET Chunk /\ timer \in BOOLEAN
    BY DEF TypeOK
  <2> QED
    BY <1>13, <1>17, <2>1 DEF UpdateEnd
<1>18. ASSUME SourceOpen PROVE TypeOK' /\ Sources'
  BY <1>18 DEF SourceOpen, TypeOK, Sources, page, net, buffer, Status
<1>19. ASSUME DecodeFails PROVE TypeOK' /\ Sources'
  BY <1>1, <1>19 DEF DecodeFails, TypeOK, Sources, page, net, buffer, Status
<1>20. ASSUME FirstChunkTimeout PROVE TypeOK' /\ Sources'
  BY <1>20 DEF FirstChunkTimeout, TypeOK, Sources, page, net, buffer, Status
<1>21. ASSUME User PROVE TypeOK' /\ Sources'
  BY <1>21 DEF User, Pause, Play, Replay, Press, TypeOK, Sources, page, net, buffer, Status
<1>22. ASSUME UNCHANGED vars PROVE TypeOK' /\ Sources'
  BY <1>22 DEF vars, TypeOK, Sources, page, net, buffer
<1>23. ASSUME Network PROVE TypeOK' /\ Sources'
  BY <1>3, <1>4, <1>5, <1>6, <1>7, <1>8, <1>9, <1>23 DEF Network, Speak
<1>24. ASSUME Player PROVE TypeOK' /\ Sources'
  BY <1>11, <1>14, <1>15, <1>16, <1>17, <1>18, <1>19, <1>20, <1>24 DEF Player
<1> QED
  BY <1>21, <1>22, <1>23, <1>24 DEF Next

-----------------------------------------------------------------------------
(* What a step does to the source the player reads *)

Same1  == /\ queue' = queue
          /\ source'[1].sent = source[1].sent /\ source'[1].take = source[1].take
          /\ source[1].conn = "closed" => source'[1].conn = "closed"
Speak1 == /\ source[1].conn = "open" /\ source[1].take \in Takes /\ source[1].sent \in Nat
          /\ queue' = Append(queue, [take |-> source[1].take, seq |-> source[1].sent])
          /\ source'[1].sent = source[1].sent + 1 /\ source'[1].take = source[1].take
End1   == /\ source[1].conn = "open" /\ source'[1].conn = "closed"
          /\ queue' = Append(queue, End)
          /\ source'[1].sent = source[1].sent /\ source'[1].take = source[1].take
Retry1 == /\ source[1].conn = "retrying"
          /\ queue' = queue /\ source'[1].sent = 0

LEMMA NetworkDoes ==
    ASSUME TypeOK, Sources, Network
    PROVE  PlayerUnchanged /\ (Same1 \/ Speak1 \/ End1 \/ Retry1)
<1> USE VoicePlaybackAssumption
<1>1. source \in [1 .. MaxSources -> Source] /\ 1 \in 1 .. MaxSources /\ current \in Nat \ {0}
  BY DEF TypeOK
<1>2. source[1] \in Source
  BY <1>1
<1>3. ASSUME NEW i \in 1 .. MaxSources, Announce(i)
      PROVE  PlayerUnchanged /\ (Same1 \/ Speak1)
  <2>1. CASE i = 1
    BY <1>1, <1>2, <1>3, <2>1 DEF Announce, Speak1, Source, Sources, queue
  <2>2. CASE i # 1
    BY <1>1, <1>3, <2>2 DEF Announce, Same1, queue
  <2> QED
    BY <2>1, <2>2
<1>4. ASSUME NEW i \in 1 .. MaxSources, AnnounceEnd(i)
      PROVE  PlayerUnchanged /\ (Same1 \/ End1)
  <2>1. CASE i = 1
    BY <1>1, <1>2, <1>4, <2>1 DEF AnnounceEnd, End1, Source, queue
  <2>2. CASE i # 1
    BY <1>1, <1>4, <2>2 DEF AnnounceEnd, Same1, queue
  <2> QED
    BY <2>1, <2>2
<1>5. ASSUME NEW i \in 1 .. MaxSources, Drop(i)
      PROVE  PlayerUnchanged /\ Same1
  <2>1. PICK conn \in {"retrying", "dead"} : source' = [source EXCEPT ![i].conn = conn]
    BY <1>5 DEF Drop
  <2>2. source[i].conn = "open" /\ PlayerUnchanged
    BY <1>5 DEF Drop
  <2>3. CASE i = 1
    BY <1>1, <1>2, <2>1, <2>2, <2>3 DEF Same1, Source, queue
  <2>4. CASE i # 1
    BY <1>1, <2>1, <2>2, <2>4 DEF Same1, queue
  <2> QED
    BY <2>3, <2>4
<1>6. ASSUME NEW i \in 1 .. MaxSources, Retry(i)
      PROVE  PlayerUnchanged /\ (Same1 \/ Retry1)
  <2>1. CASE i = 1
    BY <1>1, <1>2, <1>6, <2>1 DEF Retry, Retry1, Source, queue
  <2>2. CASE i # 1
    BY <1>1, <1>6, <2>2 DEF Retry, Same1, queue
  <2> QED
    BY <2>1, <2>2
<1>7. ASSUME Offline PROVE PlayerUnchanged /\ Same1
  <2>1. CASE current = 1
    BY <1>1, <1>2, <1>7, <2>1 DEF Offline, Same1, Source, queue
  <2>2. CASE current # 1
    BY <1>1, <1>7, <2>2 DEF Offline, Same1, queue
  <2> QED
    BY <2>1, <2>2
<1>8. ASSUME Online PROVE PlayerUnchanged /\ Same1
  <2>1. current + 1 # 1
    BY <1>1
  <2> QED
    BY <1>1, <1>8, <2>1 DEF Online, Same1, queue
<1> QED
  BY <1>3, <1>4, <1>5, <1>6, <1>7, <1>8 DEF Network, Speak

-----------------------------------------------------------------------------
(* The end of the stream, and the timer *)

LEMMA EndKept ==
    ASSUME TypeOK, Sources, EndIsLast, Closed, [Next]_vars
    PROVE  EndIsLast' /\ Closed'
<1> USE VoicePlaybackAssumption
<1>1. /\ source \in [1 .. MaxSources -> Source] /\ 1 \in 1 .. MaxSources
      /\ queue \in Seq(Chunk \cup {End})
  BY DEF TypeOK, Source, queue
<1>2. ASSUME Network PROVE EndIsLast' /\ Closed'
  <2>1. PlayerUnchanged /\ (Same1 \/ Speak1 \/ End1 \/ Retry1)
    BY <1>2, NetworkDoes
  <2>2. Closed'
    BY <2>1 DEF PlayerUnchanged, Closed, buffer
  <2>3. pump' = pump /\ endRequested' = endRequested
    BY <2>1 DEF PlayerUnchanged
  <2>4. endRequested' => endRequested
    BY <2>3
  <2>5. CASE Same1
    <3>1. \A k \in 1 .. Len(queue') :
              queue'[k] = End => k = Len(queue') /\ source'[1].conn = "closed"
      BY <2>5 DEF Same1, EndIsLast
    <3>2. endRequested => queue' = <<>> /\ source'[1].conn = "closed" /\ pump'.stage = "wait"
      BY <2>3, <2>5 DEF Same1, EndIsLast
    <3> QED
      BY <2>2, <2>4, <3>1, <3>2 DEF EndIsLast
  <2>6. CASE Speak1
    <3>1. ~endRequested /\ \A k \in 1 .. Len(queue) : queue[k] # End
      BY <2>6 DEF Speak1, EndIsLast
    <3>2. [take |-> source[1].take, seq |-> source[1].sent] # End
      BY <2>6 DEF Speak1, End, Takes
    <3>3. \A k \in 1 .. Len(queue') : queue'[k] # End
      BY <1>1, <2>6, <3>1, <3>2 DEF Speak1
    <3> QED
      BY <2>2, <2>4, <3>1, <3>3 DEF EndIsLast
  <2>7. CASE End1
    <3>1. ~endRequested /\ \A k \in 1 .. Len(queue) : queue[k] # End
      BY <2>7 DEF End1, EndIsLast
    <3>2. \A k \in 1 .. Len(queue') : queue'[k] = End => k = Len(queue')
      BY <1>1, <2>7, <3>1 DEF End1
    <3> QED
      BY <2>2, <2>4, <2>7, <3>1, <3>2 DEF EndIsLast, End1
  <2>8. CASE Retry1
    <3>1. ~endRequested /\ \A k \in 1 .. Len(queue) : queue[k] # End
      BY <2>8 DEF Retry1, EndIsLast
    <3> QED
      BY <2>2, <2>4, <2>8, <3>1 DEF EndIsLast, Retry1
  <2> QED
    BY <2>1, <2>2, <2>5, <2>6, <2>7, <2>8
<1>3. ASSUME TakeEvent PROVE EndIsLast' /\ Closed'
  <2>1. queue # <<>> /\ ~endRequested /\ pump.stage = "wait"
    BY <1>3 DEF TakeEvent, queue, EndIsLast
  <2>2. queue' = Tail(queue) /\ source'[1].conn = source[1].conn
    BY <1>1, <1>3 DEF TakeEvent, queue, Source
  <2>3. \A k \in 1 .. Len(queue') : queue'[k] = queue[k + 1] /\ k + 1 \in 1 .. Len(queue)
    BY <1>1, <2>1, <2>2
  <2>4. Len(queue') = Len(queue) - 1
    BY <1>1, <2>1, <2>2
  <2>5. \A k \in 1 .. Len(queue') :
            queue'[k] = End => k = Len(queue') /\ source'[1].conn = "closed"
    BY <1>1, <2>2, <2>3, <2>4 DEF EndIsLast
  <2>6. CASE Head(queue) = End
    <3>1. queue[1] = End /\ 1 \in 1 .. Len(queue)
      BY <1>1, <2>1, <2>6
    <3>2. Len(queue) = 1 /\ source[1].conn = "closed"
      BY <3>1 DEF EndIsLast
    <3>3. queue' = <<>>
      BY <1>1, <2>2, <3>2
    <3>4. /\ pump' = pump /\ endRequested' /\ UNCHANGED <<pending, inFlight>>
          /\ mse' = mse \/ (pending = {} /\ ~inFlight)
      BY <1>3, <2>6 DEF TakeEvent, Finalize, MayFinalize, queue, buffer
    <3> QED
      BY <2>1, <2>2, <2>5, <3>2, <3>3, <3>4 DEF EndIsLast, Closed
  <2>7. CASE Head(queue) # End
    <3>1. endRequested' = endRequested /\ mse' = mse
      BY <1>3, <2>7 DEF TakeEvent, queue
    <3> QED
      BY <2>1, <2>5, <3>1 DEF EndIsLast, Closed
  <2> QED
    BY <2>6, <2>7
<1>4. ASSUME UNCHANGED <<net, endRequested>>, pump' = pump \/ ~endRequested
      PROVE  EndIsLast'
  BY <1>4 DEF EndIsLast, queue, net
<1>5. ASSUME Fetched PROVE EndIsLast' /\ Closed'
  <2>1. ~endRequested /\ mse # "ended" /\ UNCHANGED <<net, endRequested>>
    BY <1>5 DEF Fetched, EndIsLast, Closed
  <2>2. mse' # "ended"
    <3>1. CASE Drain(pending \cup {pump.chunk})
      BY <2>1, <3>1, DrainDoes DEF Appends, Throws, Rests
    <3> QED
      BY <1>5, <2>1, <3>1 DEF Fetched
  <2> QED
    BY <1>4, <2>1, <2>2 DEF Closed
<1>6. ASSUME Resume PROVE EndIsLast' /\ Closed'
  <2>1. ~endRequested /\ mse # "ended" /\ UNCHANGED <<net, endRequested>> /\ Drain(pending)
    BY <1>6 DEF Resume, EndIsLast, Closed
  <2>2. mse' # "ended"
    BY <2>1, DrainDoes DEF Appends, Throws, Rests
  <2> QED
    BY <1>4, <2>1, <2>2 DEF Closed
<1>7. ASSUME UpdateEnd PROVE EndIsLast' /\ Closed'
  <2>1. mse # "ended" /\ UNCHANGED <<net, endRequested, pump>> /\ Drain(pending)
    BY <1>7 DEF UpdateEnd, Closed
  <2>2. mse' = "ended" => endRequested' /\ pending' = {} /\ ~inFlight'
    BY <2>1, DrainDoes DEF Appends, Throws, Rests
  <2> QED
    BY <1>4, <2>1, <2>2 DEF Closed
<1>8. ASSUME FetchFails PROVE EndIsLast' /\ Closed'
  BY <1>4, <1>8 DEF FetchFails, EndIsLast, Closed, buffer
<1>9. ASSUME SourceOpen \/ DecodeFails \/ FirstChunkTimeout \/ User \/ UNCHANGED vars
      PROVE  EndIsLast' /\ Closed'
  <2>1. UNCHANGED <<net, endRequested, pump, pending, inFlight>> /\ (mse' = mse \/ mse' # "ended")
    BY <1>9 DEF SourceOpen, DecodeFails, FirstChunkTimeout, User, Pause, Play, Replay, Press,
                vars, buffer
  <2> QED
    BY <1>4, <2>1 DEF Closed
<1> QED
  BY <1>2, <1>3, <1>5, <1>6, <1>7, <1>8, <1>9 DEF Next, Player

LEMMA EarlyKept ==
    ASSUME Early, [Next]_vars
    PROVE  Early'
<1>1. ASSUME Network PROVE Early'
  <2>1. PlayerUnchanged
    BY <1>1 DEF Network, Speak, Announce, AnnounceEnd, Drop, Retry, Offline, Online
  <2> QED
    BY <2>1 DEF PlayerUnchanged, Early, buffer
<1>2. ASSUME TakeEvent PROVE Early'
  <2>1. pump.stage = "wait" /\ UNCHANGED <<buffer, timer>>
        /\ (pump' = pump \/ \E c : pump' = [stage |-> "fetch", chunk |-> c])
    BY <1>2 DEF TakeEvent
  <2>2. pump'.stage # "opening"
    BY <2>1
  <2>3. timer' => timer
    BY <2>1
  <2> QED
    BY <2>1, <2>2, <2>3 DEF Early, buffer
<1>3. ASSUME Fetched \/ Resume \/ UpdateEnd PROVE Early'
  BY <1>3 DEF Fetched, Resume, UpdateEnd, Early
<1>4. ASSUME FetchFails PROVE Early'
  BY <1>4 DEF FetchFails, Early, buffer, Idle
<1>5. ASSUME SourceOpen \/ DecodeFails \/ FirstChunkTimeout \/ User \/ UNCHANGED vars
      PROVE  Early'
  BY <1>5 DEF SourceOpen, DecodeFails, FirstChunkTimeout, User, Pause, Play, Replay, Press,
              vars, buffer, Early
<1> QED
  BY <1>1, <1>2, <1>3, <1>4, <1>5 DEF Next, Player

-----------------------------------------------------------------------------
(* The order of the chunks *)

LEMMA DrainInOrder ==
    ASSUME TypeOK, Counted, AppendedInOrder, NEW P \in SUBSET Chunk, Drain(P),
           failures = 0 =>
              \A c \in P : c.seq > 0 =>
                 Pred(c) \in P \/ \E n \in 1 .. Len(appended) : appended[n] = Pred(c)
    PROVE  /\ Counted' /\ AppendedInOrder'
           /\ pending' \subseteq P
           /\ failures' = 0 => failures = 0
           /\ failures' = 0 =>
                 \A c : (c \in P \/ \E n \in 1 .. Len(appended) : appended[n] = c) => Kept(c)'
<1>1. /\ appended \in Seq(Chunk) /\ failures \in Nat /\ expected = Len(appended)
      /\ \A n \in 1 .. Len(appended) : appended[n].seq = n - 1
  BY DEF TypeOK, Counted, AppendedInOrder
<1>2. ASSUME NEW c \in P, Ready(c, P), Appends(c, P)
      PROVE  /\ Counted' /\ AppendedInOrder' /\ pending' \subseteq P /\ failures' = failures
             /\ \A d : (d \in P \/ \E n \in 1 .. Len(appended) : appended[n] = d) => Kept(d)'
  <2>1. /\ appended' = Append(appended, c) /\ expected' = c.seq + 1 /\ failures' = failures
        /\ pending' = P \ {c} /\ c.seq = Len(appended) /\ c \in Chunk
        /\ \A d \in P : Before(c, d)
    BY <1>1, <1>2 DEF Appends, Ready
  <2>2. /\ Len(appended') = Len(appended) + 1 /\ Len(appended) \in Nat
        /\ \A n \in 1 .. Len(appended) : appended'[n] = appended[n]
        /\ appended'[Len(appended) + 1] = c
    BY <1>1, <2>1
  <2>3. \A n \in 1 .. Len(appended') : n \in 1 .. Len(appended) \/ n = Len(appended) + 1
    BY <2>2
  <2>4. Counted'
    BY <2>1, <2>2 DEF Counted
  <2>5. \A n \in 1 .. Len(appended') : appended'[n].seq = n - 1
    BY <1>1, <2>1, <2>2, <2>3
  <2>6. ASSUME failures' = 0, Len(appended) # 0
        PROVE  c.take = appended[1].take
    <3>1. c.seq > 0 /\ c.seq \in Nat /\ c.take \in Nat /\ failures = 0
      BY <2>1, <2>2, <2>6 DEF Chunk, Seqs, Takes
    <3>2. Pred(c).seq = c.seq - 1 /\ Pred(c).take = c.take
      BY DEF Pred
    <3>3. Pred(c) \notin P
      BY <2>1, <3>1, <3>2 DEF Before
    <3>4. PICK n \in 1 .. Len(appended) : appended[n] = Pred(c)
      BY <3>1, <3>3
    <3> QED
      BY <3>1, <3>2, <3>4 DEF AppendedInOrder
  <2>7. ASSUME failures' = 0, NEW n \in 1 .. Len(appended')
        PROVE  appended'[n].take = appended'[1].take
    <3>1. CASE Len(appended) = 0
      BY <2>2, <2>3, <2>7, <3>1
    <3>2. CASE Len(appended) # 0
      <4>1. 1 \in 1 .. Len(appended) /\ failures = 0
        BY <2>1, <2>2, <2>7, <3>2
      <4>2. \A k \in 1 .. Len(appended) : appended[k].take = appended[1].take
        BY <4>1 DEF AppendedInOrder
      <4> QED
        BY <2>2, <2>3, <2>6, <2>7, <3>2, <4>1, <4>2
    <3> QED
      BY <3>1, <3>2
  <2>8. AppendedInOrder'
    BY <2>5, <2>7 DEF AppendedInOrder
  <2>9. ASSUME NEW d, d \in P \/ \E n \in 1 .. Len(appended) : appended[n] = d
        PROVE  Kept(d)'
    <3>1. CASE d = c
      <4>1. Len(appended) + 1 \in 1 .. Len(appended')
        BY <2>2
      <4> QED
        BY <2>2, <3>1, <4>1 DEF Kept
    <3>2. CASE d # c /\ d \in P
      BY <2>1, <3>2 DEF Kept
    <3>3. CASE \E n \in 1 .. Len(appended) : appended[n] = d
      <4>1. PICK n \in 1 .. Len(appended) : appended[n] = d
        BY <3>3
      <4>2. n \in 1 .. Len(appended') /\ appended'[n] = d
        BY <2>2, <4>1
      <4> QED
        BY <4>2 DEF Kept
    <3> QED
      BY <2>9, <3>1, <3>2, <3>3
  <2> QED
    BY <2>1, <2>4, <2>8, <2>9
<1>3. ASSUME NEW c \in P, Throws(c, P)
      PROVE  Counted' /\ AppendedInOrder' /\ pending' \subseteq P /\ failures' # 0
  <2>1. /\ appended' = appended /\ expected' = expected /\ failures' # 0
        /\ pending' \subseteq P
    BY <1>1, <1>3 DEF Throws
  <2> QED
    BY <1>1, <2>1 DEF Counted, AppendedInOrder
<1>4. ASSUME Rests(P)
      PROVE  /\ Counted' /\ AppendedInOrder' /\ pending' \subseteq P /\ failures' = failures
             /\ \A d : (d \in P \/ \E n \in 1 .. Len(appended) : appended[n] = d) => Kept(d)'
  BY <1>4 DEF Rests, Counted, AppendedInOrder, Kept
<1>5. CASE \E c \in P : Ready(c, P) /\ Appends(c, P)
  BY <1>2, <1>5
<1>6. CASE \E c \in P : Throws(c, P)
  BY <1>3, <1>6
<1>7. CASE Rests(P)
  BY <1>4, <1>7
<1> QED
  BY <1>5, <1>6, <1>7, DrainDoes

\* A chunk the pump has read reaches the pending chunks, and no queue moves.
LEMMA PlayerConsecutive ==
    ASSUME TypeOK, Consecutive, NEW P \in SUBSET Chunk,
           source' = source, pending' \subseteq P,
           P = pending \/ (pump.stage = "fetch" /\ P = pending \cup {pump.chunk}),
           pump'.stage # "fetch" \/ pump' = pump,
           pump.stage = "fetch" => pump' = pump \/ pump.chunk \in P,
           failures' = 0 => failures = 0,
           failures' = 0 =>
              \A c : (c \in P \/ \E n \in 1 .. Len(appended) : appended[n] = c) => Kept(c)'
    PROVE  Consecutive'
<1> SUFFICES ASSUME failures' = 0
             PROVE  Consecutive'
  BY DEF Consecutive
<1>1. failures = 0 /\ queue' = queue /\ Last' = Last
  BY DEF queue, Last
<1>2. \A c : Kept(c) => Kept(c)'
  BY DEF Kept
<1>3. \A c \in P : c.seq > 0 => Kept(Pred(c))'
  BY <1>1, <1>2 DEF Consecutive
<1>4. (pump.stage = "fetch" /\ pump.chunk.seq > 0 => Kept(Pred(pump.chunk)))'
  BY <1>1, <1>2 DEF Consecutive
<1>5. \A c, k : Due(c, k) => Due(c, k)'
  <2> SUFFICES ASSUME NEW c, NEW k, Due(c, k)
               PROVE  Due(c, k)'
    OBVIOUS
  <2>1. CASE Kept(c)
    BY <1>2, <2>1 DEF Due
  <2>2. CASE pump.stage = "fetch" /\ pump.chunk = c
    <3>1. CASE pump' = pump
      BY <2>2, <3>1 DEF Due
    <3>2. CASE pump.chunk \in P
      BY <2>2, <3>2 DEF Due
    <3> QED
      BY <2>2, <3>1, <3>2
  <2>3. CASE \E j \in 1 .. k : queue[j] = c
    BY <1>1, <2>3 DEF Due
  <2> QED
    BY <2>1, <2>2, <2>3 DEF Due
<1>6. \A k \in 1 .. Len(queue') :
         (queue[k] # End /\ queue[k].seq > 0 => Due(Pred(queue[k]), k - 1))'
  BY <1>1, <1>5 DEF Consecutive
<1>7. source'[1].sent > 0 => Due(Last, Len(queue))'
  BY <1>1, <1>5 DEF Consecutive
<1> QED
  BY <1>3, <1>4, <1>6, <1>7 DEF Consecutive

\* What the server says to the source comes in behind what is due.
LEMMA NetworkConsecutive ==
    ASSUME TypeOK, Sources, Consecutive, Network
    PROVE  Consecutive'
<1> SUFFICES ASSUME failures' = 0
             PROVE  Consecutive'
  BY DEF Consecutive
<1>1. PlayerUnchanged /\ (Same1 \/ Speak1 \/ End1 \/ Retry1)
  BY NetworkDoes
<1>2. /\ failures = 0 /\ pump' = pump /\ pending' = pending /\ appended' = appended
  BY <1>1 DEF PlayerUnchanged, buffer
<1>3. queue \in Seq(Chunk \cup {End})
  BY VoicePlaybackAssumption DEF TypeOK, Source, queue
<1>4. \A c : Kept(c)' <=> Kept(c)
  BY <1>2 DEF Kept
<1>5. /\ \A c \in pending' : c.seq > 0 => Kept(Pred(c))'
      /\ (pump.stage = "fetch" /\ pump.chunk.seq > 0 => Kept(Pred(pump.chunk)))'
  BY <1>2, <1>4 DEF Consecutive
<1>6. CASE queue' = queue
  <2>1. \A c, k : Due(c, k)' <=> Due(c, k)
    BY <1>2, <1>4, <1>6 DEF Due
  <2>2. \A k \in 1 .. Len(queue') :
           (queue[k] # End /\ queue[k].seq > 0 => Due(Pred(queue[k]), k - 1))'
    BY <1>2, <1>6, <2>1 DEF Consecutive
  <2>3. (source[1].sent > 0 => Due(Last, Len(queue)))'
    <3>1. CASE Same1
      BY <1>2, <1>6, <2>1, <3>1 DEF Consecutive, Last, Same1
    <3>2. CASE Retry1
      BY <3>2 DEF Retry1
    <3>3. CASE Speak1 \/ End1
      <4>1. Len(queue') = Len(queue) + 1
        BY <1>3, <3>3 DEF Speak1, End1
      <4> QED
        BY <1>3, <1>6, <4>1
    <3> QED
      BY <1>1, <3>1, <3>2, <3>3
  <2> QED
    BY <1>5, <2>2, <2>3 DEF Consecutive
<1>7. ASSUME NEW e, queue' = Append(queue, e),
             e # End => e = [take |-> source[1].take, seq |-> source[1].sent]
      PROVE  /\ \A c, k, m : Due(c, k) /\ k \in 0 .. Len(queue) /\ m \in k .. Len(queue')
                                => Due(c, m)'
             /\ \A k \in 1 .. Len(queue') :
                   (queue[k] # End /\ queue[k].seq > 0 => Due(Pred(queue[k]), k - 1))'
             /\ queue'[Len(queue')] = e
             /\ Len(queue') = Len(queue) + 1 /\ Len(queue) \in Nat
  <2>1. /\ Len(queue') = Len(queue) + 1 /\ Len(queue) \in Nat
        /\ \A k \in 1 .. Len(queue) : queue'[k] = queue[k]
        /\ queue'[Len(queue) + 1] = e
    BY <1>3, <1>7
  <2>2. \A c, k, m : Due(c, k) /\ k \in 0 .. Len(queue) /\ m \in k .. Len(queue')
                        => Due(c, m)'
    <3> SUFFICES ASSUME NEW c, NEW k \in 0 .. Len(queue), NEW m \in k .. Len(queue'),
                        Due(c, k)
                 PROVE  Due(c, m)'
      OBVIOUS
    <3>1. \A j \in 1 .. k : queue'[j] = queue[j] /\ j \in 1 .. m
      BY <2>1
    <3> QED
      BY <1>2, <1>4, <3>1 DEF Due
  <2>3. ASSUME NEW k \in 1 .. Len(queue), queue[k] # End, queue[k].seq > 0,
               NEW c, c = Pred(queue[k]), NEW m, m = k - 1
        PROVE  Due(c, m)'
    <3>1. Due(c, m) /\ m \in 0 .. Len(queue) /\ m \in m .. Len(queue')
      BY <1>2, <2>1, <2>3 DEF Consecutive
    <3> QED
      BY <2>2, <3>1
  <2>4. ASSUME e # End, e.seq > 0, NEW c, c = Pred(e), NEW m, m = Len(queue)
        PROVE  Due(c, m)'
    <3>1. c = Last /\ source[1].sent > 0
      BY <1>7, <2>4 DEF Pred, Last
    <3>2. Due(c, m) /\ m \in 0 .. Len(queue) /\ m \in m .. Len(queue')
      BY <1>2, <2>1, <2>4, <3>1 DEF Consecutive
    <3> QED
      BY <2>2, <3>2
  <2>5. ASSUME NEW k \in 1 .. Len(queue'), queue'[k] # End, queue'[k].seq > 0,
               NEW c, c = Pred(queue[k])', NEW m, m = k - 1
        PROVE  Due(c, m)'
    <3>1. CASE k \in 1 .. Len(queue)
      BY <2>1, <2>3, <2>5, <3>1 DEF Pred
    <3>2. CASE k = Len(queue) + 1
      <4>1. c = Pred(e) /\ m = Len(queue)
        BY <2>1, <2>5, <3>2 DEF Pred
      <4> QED
        BY <2>1, <2>4, <2>5, <3>2, <4>1
    <3> QED
      BY <2>1, <3>1, <3>2
  <2> QED
    BY <2>1, <2>2, <2>5
<1>8. CASE Speak1
  <2> DEFINE e == [take |-> source[1].take, seq |-> source[1].sent]
  <2>1. /\ \A k \in 1 .. Len(queue') :
              (queue[k] # End /\ queue[k].seq > 0 => Due(Pred(queue[k]), k - 1))'
        /\ queue'[Len(queue')] = e /\ Len(queue') \in Nat \ {0}
    BY <1>7, <1>8 DEF Speak1
  <2>2. Last' = e
    BY <1>8 DEF Speak1, Last
  <2>3. Due(Last, Len(queue))'
    BY <2>1, <2>2 DEF Due
  <2> QED
    BY <1>5, <2>1, <2>3 DEF Consecutive
<1>9. CASE End1
  <2>1. /\ \A c, k, m : Due(c, k) /\ k \in 0 .. Len(queue) /\ m \in k .. Len(queue')
                           => Due(c, m)'
        /\ \A k \in 1 .. Len(queue') :
              (queue[k] # End /\ queue[k].seq > 0 => Due(Pred(queue[k]), k - 1))'
        /\ Len(queue') = Len(queue) + 1 /\ Len(queue) \in Nat
    BY <1>7, <1>9 DEF End1
  <2>2. Last' = Last /\ source'[1].sent = source[1].sent
    BY <1>9 DEF End1, Last
  <2>3. (source[1].sent > 0 => Due(Last, Len(queue)))'
    <3> SUFFICES ASSUME source[1].sent > 0, NEW c, c = Last, NEW m, m = Len(queue')
                 PROVE  Due(c, m)'
      BY <2>2
    <3>1. Due(c, Len(queue)) /\ m \in Len(queue) .. Len(queue')
      BY <1>2, <2>1 DEF Consecutive
    <3> QED
      BY <2>1, <3>1
  <2> QED
    BY <1>5, <2>1, <2>3 DEF Consecutive
<1> QED
  BY <1>1, <1>6, <1>8, <1>9 DEF Same1, Retry1

\* The event the pump reads is the next one due.
LEMMA TakeConsecutive ==
    ASSUME TypeOK, Sources, Consecutive, TakeEvent
    PROVE  Consecutive'
<1> SUFFICES ASSUME failures' = 0
             PROVE  Consecutive'
  BY DEF Consecutive
<1> DEFINE e == Head(queue)
<1>1. /\ pump.stage = "wait" /\ queue # <<>> /\ failures = 0
      /\ pending' = pending /\ appended' = appended
      /\ (e = End /\ pump' = pump) \/ (e # End /\ pump' = [stage |-> "fetch", chunk |-> e])
  BY DEF TakeEvent, buffer, queue
<1>2. queue \in Seq(Chunk \cup {End})
  BY VoicePlaybackAssumption DEF TypeOK, Source, queue
<1>3. /\ queue' = Tail(queue)
      /\ source'[1].sent = source[1].sent /\ source'[1].take = source[1].take
  BY VoicePlaybackAssumption DEF TakeEvent, TypeOK, Source, queue
<1>4. /\ Len(queue) \in Nat \ {0} /\ Len(queue') = Len(queue) - 1 /\ e = queue[1]
      /\ \A k \in 1 .. Len(queue') : queue'[k] = queue[k + 1]
  BY <1>1, <1>2, <1>3
<1>5. \A c : Kept(c)' <=> Kept(c)
  BY <1>1 DEF Kept
<1>6. ASSUME NEW c, c # End, NEW k \in 1 .. Len(queue), Due(c, k), NEW m, m = k - 1
      PROVE  Due(c, m)'
  <2>1. CASE Kept(c)
    BY <1>5, <2>1 DEF Due
  <2>2. CASE \E j \in 1 .. k : queue[j] = c
    <3>1. PICK j \in 1 .. k : queue[j] = c
      BY <2>2
    <3>2. CASE j = 1
      BY <1>1, <1>4, <1>6, <3>1, <3>2 DEF Due
    <3>3. CASE j # 1
      <4>1. j - 1 \in 1 .. m /\ j - 1 \in 1 .. Len(queue') /\ queue'[j - 1] = c
        BY <1>4, <1>6, <3>1, <3>3
      <4> QED
        BY <4>1 DEF Due
    <3> QED
      BY <3>2, <3>3
  <2> QED
    BY <1>1, <1>6, <2>1, <2>2 DEF Due
<1>7. \A c \in pending' : c.seq > 0 => Kept(Pred(c))'
  BY <1>1, <1>5 DEF Consecutive
<1>8. (pump.stage = "fetch" /\ pump.chunk.seq > 0 => Kept(Pred(pump.chunk)))'
  <2> SUFFICES ASSUME e # End, e.seq > 0, pump' = [stage |-> "fetch", chunk |-> e],
                      NEW c, c = Pred(e)
               PROVE  Kept(c)'
    BY <1>1 DEF Pred
  <2>1. Due(c, 0)
    BY <1>1, <1>4 DEF Consecutive
  <2> QED
    BY <1>1, <1>5, <2>1 DEF Due
<1>9. \A k \in 1 .. Len(queue') :
         (queue[k] # End /\ queue[k].seq > 0 => Due(Pred(queue[k]), k - 1))'
  <2> SUFFICES ASSUME NEW k \in 1 .. Len(queue'), queue'[k] # End, queue'[k].seq > 0,
                      NEW c, c = Pred(queue[k])', NEW m, m = k - 1
               PROVE  Due(c, m)'
    OBVIOUS
  <2>1. queue'[k] = queue[k + 1] /\ k + 1 \in 1 .. Len(queue) /\ k \in 1 .. Len(queue)
    BY <1>4
  <2>2. c = Pred(queue[k + 1]) /\ queue[k + 1] \in Chunk
    BY <1>2, <2>1 DEF Pred
  <2>3. Due(c, k)
    BY <1>1, <2>1, <2>2 DEF Consecutive
  <2>4. c # End
    BY <2>2 DEF Pred, End, Chunk, Takes
  <2> QED
    BY <1>6, <2>1, <2>3, <2>4
<1>10. (source[1].sent > 0 => Due(Last, Len(queue)))'
  <2> SUFFICES ASSUME source[1].sent > 0, NEW c, c = Last, NEW m, m = Len(queue')
               PROVE  Due(c, m)'
    BY <1>3 DEF Last
  <2>1. Due(c, Len(queue))
    BY <1>1 DEF Consecutive
  <2>2. c # End
    BY DEF Sources, Last, End, Takes
  <2> QED
    BY <1>4, <1>6, <2>1, <2>2
<1> QED
  BY <1>7, <1>8, <1>9, <1>10 DEF Consecutive

-----------------------------------------------------------------------------
(* The theorems *)

LEMMA InitHolds == Init => Inv
<1> SUFFICES ASSUME Init PROVE Inv
  OBVIOUS
<1>1. TypeOK /\ Sources
  BY Typed
<1>2. /\ queue = <<>> /\ source[1].sent = 0 /\ pump.stage = "wait" /\ pending = {}
      /\ appended = <<>> /\ expected = 0 /\ mse # "ended" /\ ~endRequested /\ ~inFlight
  BY VoicePlaybackAssumption DEF Init, queue, Idle, Unopened
<1>3. Counted /\ AppendedInOrder
  BY <1>2 DEF Counted, AppendedInOrder
<1>4. Consecutive
  BY <1>2 DEF Consecutive
<1>5. EndIsLast /\ Closed /\ Early
  BY <1>2 DEF EndIsLast, Closed, Early
<1> QED
  BY <1>1, <1>3, <1>4, <1>5 DEF Inv

LEMMA OrderKept ==
    ASSUME TypeOK, Sources, Counted, AppendedInOrder, Consecutive, [Next]_vars
    PROVE  Counted' /\ AppendedInOrder' /\ Consecutive'
<1>1. ASSUME UNCHANGED <<appended, expected>>, failures' = 0 => failures = 0
      PROVE  Counted' /\ AppendedInOrder'
  BY <1>1 DEF Counted, AppendedInOrder
<1>2. ASSUME Network PROVE Counted' /\ AppendedInOrder' /\ Consecutive'
  <2>1. UNCHANGED <<appended, expected, failures>>
    BY <1>2, NetworkDoes DEF PlayerUnchanged, buffer
  <2> QED
    BY <1>1, <1>2, <2>1, NetworkConsecutive
<1>3. ASSUME TakeEvent PROVE Counted' /\ AppendedInOrder' /\ Consecutive'
  <2>1. UNCHANGED <<appended, expected, failures>>
    BY <1>3 DEF TakeEvent, buffer
  <2> QED
    BY <1>1, <1>3, <2>1, TakeConsecutive
<1>4. pending \in SUBSET Chunk /\ failures \in Nat
  BY DEF TypeOK
\* The pump has put its chunk with the pending ones, if it had one.
<1>5. ASSUME NEW P \in SUBSET Chunk, Drain(P), source' = source,
             P = pending \/ (pump.stage = "fetch" /\ P = pending \cup {pump.chunk}),
             pump'.stage # "fetch" \/ pump' = pump,
             pump.stage = "fetch" => pump' = pump \/ pump.chunk \in P
      PROVE  Counted' /\ AppendedInOrder' /\ Consecutive'
  <2>1. failures = 0 =>
           \A c \in P : c.seq > 0 =>
              Pred(c) \in P \/ \E n \in 1 .. Len(appended) : appended[n] = Pred(c)
    BY <1>5 DEF Consecutive, Kept
  <2>2. /\ Counted' /\ AppendedInOrder'
        /\ pending' \subseteq P
        /\ failures' = 0 => failures = 0
        /\ failures' = 0 =>
              \A c : (c \in P \/ \E n \in 1 .. Len(appended) : appended[n] = c) => Kept(c)'
    BY <1>5, <2>1, DrainInOrder
  <2> QED
    BY <1>5, <2>2, PlayerConsecutive
<1>6. ASSUME Fetched PROVE Counted' /\ AppendedInOrder' /\ Consecutive'
  <2> DEFINE P == pending \cup {pump.chunk}
  <2>1. /\ P \in SUBSET Chunk /\ pump.stage = "fetch" /\ source' = source
        /\ pump'.stage # "fetch"
    BY <1>4, <1>6 DEF Fetched, TypeOK, Pump, Idle, net
  <2>2. CASE Drain(P)
    BY <1>5, <2>1, <2>2
  <2>3. CASE pending' = P /\ UNCHANGED <<appended, expected, failures>>
    <3>1. \A c : (c \in P \/ \E n \in 1 .. Len(appended) : appended[n] = c) => Kept(c)'
      BY <2>3 DEF Kept
    <3>2. Consecutive'
      BY <2>1, <2>3, <3>1, PlayerConsecutive
    <3> QED
      BY <1>1, <2>3, <3>2
  <2> QED
    BY <1>6, <2>2, <2>3 DEF Fetched
<1>7. ASSUME Resume PROVE Counted' /\ AppendedInOrder' /\ Consecutive'
  BY <1>4, <1>5, <1>7 DEF Resume, Idle, net
<1>8. ASSUME UpdateEnd PROVE Counted' /\ AppendedInOrder' /\ Consecutive'
  BY <1>4, <1>5, <1>8 DEF UpdateEnd, net
<1>9. ASSUME FetchFails \/ DecodeFails PROVE Counted' /\ AppendedInOrder' /\ Consecutive'
  <2>1. failures' # 0 /\ UNCHANGED <<appended, expected>>
    BY <1>4, <1>9 DEF FetchFails, DecodeFails, buffer
  <2> QED
    BY <1>1, <2>1 DEF Consecutive
<1>10. ASSUME SourceOpen \/ FirstChunkTimeout \/ User \/ UNCHANGED vars
       PROVE  Counted' /\ AppendedInOrder' /\ Consecutive'
  <2>1. UNCHANGED <<source, pump, pending, appended, expected, failures>>
    BY <1>10 DEF SourceOpen, FirstChunkTimeout, User, Pause, Play, Replay, Press,
                 vars, buffer, net
  <2>2. \A c : Kept(c) => Kept(c)'
    BY <2>1 DEF Kept
  <2>3. Consecutive'
    BY <1>4, <2>1, <2>2, PlayerConsecutive DEF Kept
  <2> QED
    BY <1>1, <2>1, <2>3
<1> QED
  BY <1>2, <1>3, <1>6, <1>7, <1>8, <1>9, <1>10 DEF Next, Player

LEMMA Invariance == Spec => []Inv
<1>1. Inv /\ [Next]_vars => Inv'
  BY TypesKept, OrderKept, EndKept, EarlyKept DEF Inv
<1> QED
  BY <1>1, InitHolds, PTL DEF Spec

\* Every variable of the page, the network and the player keeps its type: the
\* counter of handleAudioReady never passes the chunks of a take.
THEOREM PlayerTypeCorrect == Spec => []TypeOK
<1>1. Inv => TypeOK
  BY DEF Inv
<1> QED
  BY <1>1, Invariance, PTL

\* Whatever order fetches, updateend events, drops and reconnections come in,
\* the SourceBuffer gets chunks 0, 1, 2, ... and, unless something failed, all of
\* one take.
THEOREM ChunksInOrder == Spec => []AppendedInOrder
<1>1. Inv => AppendedInOrder
  BY DEF Inv
<1> QED
  BY <1>1, Invariance, PTL

\* endOfStream comes only after `end', with nothing held back and, unless
\* something failed, with every chunk of the last take.
THEOREM TailNotCutOff == Spec => []EndedComplete
<1>1. Inv => EndedComplete
  <2> SUFFICES ASSUME Inv, mse = "ended", failures = 0
               PROVE  Len(appended) >= source[1].sent
    BY DEF Inv, Closed, EndedComplete
  <2>1. queue = <<>> /\ pump.stage = "wait" /\ pending = {}
    BY DEF Inv, Closed, EndIsLast
  <2>2. appended \in Seq(Chunk) /\ source[1].sent \in Nat
    BY VoicePlaybackAssumption DEF Inv, TypeOK, Source
  <2>3. CASE source[1].sent > 0
    <3>1. PICK n \in 1 .. Len(appended) : appended[n] = Last
      BY <2>1, <2>3 DEF Inv, Consecutive, Due, Kept
    <3>2. n - 1 = source[1].sent - 1
      BY <3>1 DEF Inv, AppendedInOrder, Last
    <3> QED
      BY <2>2, <3>2
  <2> QED
    BY <2>2, <2>3
<1> QED
  BY <1>1, Invariance, PTL

\* The first-chunk timer gives up only before any chunk has been fetched.
THEOREM NoLateFallback == Spec => FallbackOnlyBeforeFirstChunk
<1>1. Inv /\ [Next]_vars =>
         [status # "fallback_timeout" /\ status' = "fallback_timeout"
            => appended = <<>> /\ pending = {}]_vars
  <2> SUFFICES ASSUME Inv, Next, status # "fallback_timeout", status' = "fallback_timeout"
               PROVE  appended = <<>> /\ pending = {}
    OBVIOUS
  <2>1. CASE FirstChunkTimeout
    BY <2>1 DEF FirstChunkTimeout, Inv, Early
  <2>2. ASSUME NEW P \in SUBSET Chunk, Drain(P) PROVE status' # "fallback_timeout"
    BY <2>2 DEF Drain, AppendChunk, Finalize
  <2>3. CASE Fetched \/ Resume \/ UpdateEnd
    <3>1. pump.stage = "fetch" => pump.chunk \in Chunk
      BY DEF Inv, TypeOK, Pump, Idle
    <3>2. pending \subseteq Chunk
      BY DEF Inv, TypeOK
    <3> QED
      BY <2>2, <2>3, <3>1, <3>2 DEF Fetched, Resume, UpdateEnd
  <2>4. CASE TakeEvent \/ FetchFails \/ SourceOpen \/ DecodeFails
    BY <2>4 DEF TakeEvent, FetchFails, SourceOpen, DecodeFails, Finalize
  <2>5. CASE Network
    BY <2>5 DEF Network, Speak, Announce, AnnounceEnd, Drop, Retry, Offline, Online,
                PlayerUnchanged
  <2>6. CASE User
    BY <2>6 DEF User, Pause, Play, Replay, Press
  <2> QED
    BY <2>1, <2>3, <2>4, <2>5, <2>6 DEF Next, Player
<1> QED
  BY <1>1, Invariance, PTL DEF Spec, FallbackOnlyBeforeFirstChunk
=============================================================================
