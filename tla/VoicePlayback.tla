---------------------------- MODULE VoicePlayback ----------------------------
(***************************************************************************)
(* The reading player of the web client: the EventSource that announces    *)
(* audio chunks, the page that opens it and reopens it when the network    *)
(* comes back, and the VoicePlayer that pumps one source into a            *)
(* ChunkedPlayer, which fetches each chunk and appends it to a MediaSource. *)
(*                                                                         *)
(* Everything runs on one event loop, so a step is what one callback does  *)
(* between two awaits; callbacks of the network, of the MediaSource, of    *)
(* the timer and of the user come in any order.  The server is external    *)
(* and speaks a new take, from chunk 0, for every connection.  Subtitles   *)
(* pass through the same queue and are left out: they change no state here. *)
(* Leaving the page ends everything and is left out too.                   *)
(***************************************************************************)
EXTENDS Naturals, Sequences

CONSTANTS Chunks,         \* bound: chunks of a take
          MaxSources,     \* bound: sources the page opens
          MaxDrops,       \* bound: connections lost
          MaxFailures     \* bound: fetches and appends that fail

ASSUME VoicePlaybackAssumption ==
    /\ {Chunks, MaxSources, MaxDrops, MaxFailures} \subseteq Nat
    /\ 0 < MaxSources

VARIABLES online,         \* what the browser says of the network
          runtime,        \* the page's runtime state
          current,        \* the source the page opened last
          source,         \* every source: its connection and its queue
          takes,          \* takes the server has begun
          drops,          \* connections lost so far
          pump,           \* the VoicePlayer's loop over source 1
          pending,        \* pendingChunks
          appended,       \* chunks given to appendBuffer, in that order
          expected,       \* nextExpectedSeq
          inFlight,       \* appendInFlight
          endRequested,
          timer,          \* whether the first-chunk timer is set
          mse,            \* the MediaSource
          status,         \* the player's status
          failures        \* fetches and appends that have failed

page   == <<online, runtime, current>>
net    == <<source, takes, drops>>
buffer == <<pending, appended, expected, inFlight>>
vars   == <<page, net, buffer, pump, endRequested, timer, mse, status, failures>>

-----------------------------------------------------------------------------
(* Types *)

Takes == Nat \ {0}
Seqs  == 0 .. Chunks - 1
Chunk == [take : Takes, seq : Seqs]
End   == [take |-> 0, seq |-> 0]

Source == [conn  : {"unopened", "open", "retrying", "dead", "closed"},
           take  : Takes \cup {0},
           sent  : 0 .. Chunks,
           queue : Seq(Chunk \cup {End})]
Unopened == [conn |-> "unopened", take |-> 0, sent |-> 0, queue |-> <<>>]

Status == {"buffering", "playing", "paused", "ended", "fallback_timeout", "error"}
Idle   == [stage |-> "wait", chunk |-> End]
Pump   == {Idle} \cup [stage : {"fetch", "opening"}, chunk : Chunk]

TypeOK ==
    /\ online \in BOOLEAN
    /\ runtime \in {"streaming", "network_drop", "ended"}
    /\ current \in 1 .. MaxSources
    /\ source \in [1 .. MaxSources -> Source]
    /\ takes \in Takes
    /\ drops \in Nat
    /\ pump \in Pump
    /\ pending \subseteq Chunk
    /\ appended \in Seq(Chunk)
    /\ expected \in 0 .. Chunks
    /\ inFlight \in BOOLEAN
    /\ endRequested \in BOOLEAN
    /\ timer \in BOOLEAN
    /\ mse \in {"unsupported", "attached", "failed", "open", "broken", "ended"}
    /\ status \in Status
    /\ failures \in Nat

\* The page has mounted the player on its first source.  Without MediaSource
\* the constructor sets 'error' and then, starting the timer, 'buffering'.
Init ==
    /\ online = TRUE
    /\ runtime = "streaming"
    /\ current = 1
    /\ source = [i \in 1 .. MaxSources |->
                    IF i = 1 THEN [Unopened EXCEPT !.conn = "open", !.take = 1] ELSE Unopened]
    /\ takes = 1
    /\ drops = 0
    /\ pump = Idle
    /\ pending = {}
    /\ appended = <<>>
    /\ expected = 0
    /\ inFlight = FALSE
    /\ endRequested = FALSE
    /\ timer = TRUE
    /\ mse \in {"attached", "unsupported"}
    /\ status = "buffering"
    /\ failures = 0

-----------------------------------------------------------------------------
(* The server (external) and the EventSource *)

PlayerUnchanged == UNCHANGED <<buffer, pump, endRequested, timer, mse, status, failures>>

Announce(i) ==
    /\ source[i].conn = "open"
    /\ source[i].sent < Chunks
    /\ source' = [source EXCEPT ![i].sent = @ + 1,
                                ![i].queue = Append(@, [take |-> source[i].take,
                                                        seq |-> source[i].sent])]
    /\ UNCHANGED <<page, takes, drops>>
    /\ PlayerUnchanged

\* `end' closes the EventSource and completes the iterator.
AnnounceEnd(i) ==
    /\ source[i].conn = "open"
    /\ source' = [source EXCEPT ![i].conn = "closed", ![i].queue = Append(@, End)]
    /\ UNCHANGED <<page, takes, drops>>
    /\ PlayerUnchanged

\* A native error: the page is told, the source stays as it is, and the browser
\* tries again or, after a refusal, gives up.
Drop(i) ==
    /\ source[i].conn = "open"
    /\ drops < MaxDrops
    /\ drops' = drops + 1
    /\ \E conn \in {"retrying", "dead"} : source' = [source EXCEPT ![i].conn = conn]
    /\ runtime' = "network_drop"
    /\ UNCHANGED <<online, current, takes>>
    /\ PlayerUnchanged

\* The browser's own reconnect: the server speaks another take into the source.
Retry(i) ==
    /\ source[i].conn = "retrying"
    /\ online
    /\ takes' = takes + 1
    /\ source' = [source EXCEPT ![i].conn = "open", ![i].take = takes + 1, ![i].sent = 0]
    /\ UNCHANGED <<page, drops>>
    /\ PlayerUnchanged

-----------------------------------------------------------------------------
(* The page *)

Offline ==
    /\ online
    /\ current < MaxSources
    /\ online' = FALSE
    /\ runtime' = "network_drop"
    /\ source' = [source EXCEPT ![current].conn = "closed"]
    /\ UNCHANGED <<current, takes, drops>>
    /\ PlayerUnchanged

Online ==
    /\ ~online
    /\ online' = TRUE
    /\ IF runtime = "network_drop"
       THEN /\ runtime' = "streaming"
            /\ current' = current + 1
            /\ takes' = takes + 1
            /\ source' = [source EXCEPT ![current + 1].conn = "open",
                                        ![current + 1].take = takes + 1]
       ELSE UNCHANGED <<runtime, current, takes, source>>
    /\ UNCHANGED drops
    /\ PlayerUnchanged

-----------------------------------------------------------------------------
(* ChunkedPlayer *)

\* Sorted by sequence number, and then by arrival.
Before(c, d) == c.seq < d.seq \/ (c.seq = d.seq /\ c.take <= d.take)

Fetching == pump.stage \in {"fetch", "opening"}

MayFinalize_Eager(P, flight, requested) == requested /\ ~Fetching

MayFinalize(P, flight, requested) == requested /\ P = {} /\ ~flight /\ ~Fetching

Finalize ==
    IF mse = "open"
    THEN mse' = "ended" /\ status' = "ended" /\ runtime' = "ended"
    ELSE UNCHANGED <<mse, status, runtime>>

AppendChunk(c, P) ==
    /\ pending' = P \ {c}
    /\ \/ /\ mse # "broken"
          /\ appended' = Append(appended, c)
          /\ expected' = c.seq + 1
          /\ inFlight' = TRUE
          /\ status' = IF status = "buffering" THEN "playing" ELSE status
          /\ UNCHANGED failures
       \/ /\ mse = "broken" \/ failures < MaxFailures        \* appendBuffer throws
          /\ failures' = failures + 1
          /\ inFlight' = FALSE
          /\ status' = "error"
          /\ UNCHANGED <<appended, expected>>
    /\ UNCHANGED <<mse, runtime>>

\* Only the first of the sorted chunks is looked at.
Ready_AnyOrder(c, P) == \A d \in P : Before(c, d)

Ready(c, P) == c.seq = expected /\ \A d \in P : Before(c, d)

\* drainPending over the pending chunks P, no append in flight.
Drain(P) ==
    \/ \E c \in P : Ready(c, P) /\ AppendChunk(c, P)
    \/ /\ \A c \in P : ~Ready(c, P)
       /\ pending' = P
       /\ inFlight' = FALSE
       /\ UNCHANGED <<appended, expected, failures>>
       /\ IF MayFinalize(P, FALSE, endRequested) THEN Finalize
          ELSE UNCHANGED <<mse, status, runtime>>

\* The VoicePlayer's loop takes the next event of the source it was mounted on.
TakeEvent ==
    /\ pump.stage = "wait"
    /\ source[1].queue # <<>>
    /\ source' = [source EXCEPT ![1].queue = Tail(@)]
    /\ LET event == Head(source[1].queue)
       IN  IF event = End
           THEN /\ endRequested' = TRUE
                /\ IF MayFinalize(pending, inFlight, TRUE) THEN Finalize
                   ELSE UNCHANGED <<mse, status, runtime>>
                /\ UNCHANGED pump
           ELSE /\ pump' = [stage |-> "fetch", chunk |-> event]
                /\ UNCHANGED <<endRequested, mse, status, runtime>>
    /\ UNCHANGED <<online, current, takes, drops, buffer, timer, failures>>

Fetched ==
    /\ pump.stage = "fetch"
    /\ timer' = FALSE
    /\ LET P == pending \cup {pump.chunk}
       IN  CASE inFlight ->
                  /\ pump' = Idle
                  /\ pending' = P
                  /\ UNCHANGED <<appended, expected, inFlight, mse, status, runtime, failures>>
             [] ~inFlight /\ mse \in {"open", "broken", "ended"} ->
                  /\ pump' = Idle
                  /\ Drain(P)
             [] OTHER ->                      \* no SourceBuffer yet: wait for sourceopen
                  /\ pump' = [pump EXCEPT !.stage = "opening"]
                  /\ pending' = P
                  /\ UNCHANGED <<appended, expected, inFlight, mse, status, runtime, failures>>
    /\ UNCHANGED <<online, current, net, endRequested>>

FetchFails ==
    /\ pump.stage = "fetch"
    /\ failures < MaxFailures
    /\ failures' = failures + 1
    /\ status' = "error"
    /\ pump' = Idle
    /\ UNCHANGED <<page, net, buffer, endRequested, timer, mse>>

\* The pump goes on once the SourceBuffer is there.
Resume ==
    /\ pump.stage = "opening"
    /\ mse \in {"open", "broken"}
    /\ pump' = Idle
    /\ Drain(pending)
    /\ UNCHANGED <<online, current, net, endRequested, timer>>

SourceOpen ==
    /\ mse = "attached"
    /\ \/ mse' = "open" /\ UNCHANGED status
       \/ mse' = "failed" /\ status' = "error"     \* addSourceBuffer throws
    /\ UNCHANGED <<page, net, buffer, pump, endRequested, timer, failures>>

UpdateEnd_NoDrain ==
    /\ inFlight
    /\ inFlight' = FALSE
    /\ UNCHANGED <<page, net, pending, appended, expected, pump, endRequested, timer,
                   mse, status, failures>>

UpdateEnd ==
    /\ inFlight
    /\ Drain(pending)
    /\ UNCHANGED <<online, current, net, pump, endRequested, timer>>

\* The chunk cannot be decoded: the media element is in error, and updateend follows.
DecodeFails ==
    /\ inFlight
    /\ mse = "open"
    /\ failures < MaxFailures
    /\ failures' = failures + 1
    /\ mse' = "broken"
    /\ status' = "error"
    /\ UNCHANGED <<page, net, buffer, pump, endRequested, timer>>

FirstChunkTimeout_Interval ==
    /\ status \in {"buffering", "error"}
    /\ status' = "fallback_timeout"
    /\ UNCHANGED <<page, net, buffer, pump, endRequested, timer, mse, failures>>

FirstChunkTimeout ==
    /\ timer
    /\ timer' = FALSE
    /\ status' = IF status \in {"buffering", "error"} THEN "fallback_timeout" ELSE status
    /\ UNCHANGED <<page, net, buffer, pump, endRequested, mse, failures>>

-----------------------------------------------------------------------------
(* The user: the buttons each status shows *)

Press(statuses, next) ==
    /\ status \in statuses
    /\ status' = next
    /\ UNCHANGED <<page, net, buffer, pump, endRequested, timer, mse, failures>>

Pause_Misspelt == Press({"playing"}, "pause")

Pause  == Press({"playing"}, "paused")
Play   == Press({"paused", "ended"}, "playing")
Replay == Press({"buffering", "playing", "paused", "ended"}, "playing")

-----------------------------------------------------------------------------

Speak(i) == Announce(i) \/ AnnounceEnd(i)
Network  == Offline \/ Online \/ \E i \in 1 .. MaxSources : Speak(i) \/ Drop(i) \/ Retry(i)
Player   == \/ TakeEvent \/ Fetched \/ FetchFails \/ Resume
            \/ SourceOpen \/ UpdateEnd \/ DecodeFails \/ FirstChunkTimeout
User     == Pause \/ Play \/ Replay

Next == Network \/ Player \/ User

Spec == Init /\ [][Next]_vars

\* The event loop runs what is due: the pump, a fetch that answers, the
\* MediaSource's events and the timer.  The server finishes the take it speaks.
FairSpec ==
    /\ Spec
    /\ WF_vars(TakeEvent) /\ WF_vars(Fetched \/ FetchFails) /\ WF_vars(Resume)
    /\ WF_vars(SourceOpen) /\ WF_vars(UpdateEnd) /\ WF_vars(FirstChunkTimeout)
    /\ \A i \in 1 .. MaxSources : WF_vars(Speak(i))
    /\ WF_vars(Online) /\ \A i \in 1 .. MaxSources : WF_vars(Retry(i))

-----------------------------------------------------------------------------
(* Properties *)

\* The SourceBuffer gets chunks 0, 1, 2, ... and, unless a fetch or an append
\* failed, all of one take: whatever order fetches, updateend events, drops and
\* the takes of reconnected streams come in.
AppendedInOrder ==
    /\ \A n \in 1 .. Len(appended) : appended[n].seq = n - 1
    /\ failures = 0 => \A n \in 1 .. Len(appended) : appended[n].take = appended[1].take

\* The MediaSource is closed only after `end', with nothing held back, and,
\* unless something failed, with every chunk of the take that ended: the tail of
\* the audio is never cut off.
EndedComplete ==
    mse = "ended" =>
        /\ endRequested /\ pending = {} /\ ~inFlight
        /\ failures = 0 => Len(appended) >= source[1].sent

\* The player falls back on its timeout only while no chunk has come in at all.
FallbackOnlyBeforeFirstChunk ==
    [][status # "fallback_timeout" /\ status' = "fallback_timeout"
         => appended = <<>> /\ pending = {}]_vars

\* A take of at least one chunk plays to 'ended' when nothing goes wrong,
\* whatever the user presses.
StreamEnds ==
    <>(\/ status = "ended"
       \/ drops > 0 \/ failures > 0 \/ ~online \/ current > 1
       \/ mse \in {"failed", "unsupported"}
       \/ source[1].conn = "closed" /\ source[1].sent = 0)
=============================================================================
