-------------------------------- MODULE Speech --------------------------------
(***************************************************************************)
(* SupertoneClient.synthesize_stream: fragments of text go in, of any      *)
(* size and cut anywhere, and one audio chunk per sentence comes out, in   *)
(* order.  The text not yet cut into sentences waits in a buffer; each     *)
(* sentence is one request, answered with audio, with 429 (wait and try    *)
(* again) or with an error, under a time limit that covers its retries.    *)
(*                                                                         *)
(* A text is a sequence of letters, spaces and stops.  The semaphore is    *)
(* left out: the generator asks for one sentence at a time.                *)
(***************************************************************************)
EXTENDS Naturals, Sequences

CONSTANTS MaxSentenceChars,     \* DEFAULT_MAX_SENTENCE_CHARS
          FirstChunkTimeout, MidStreamTimeout, BackoffBreach,   \* in seconds
          MaxText,              \* bound on the characters of the text
          MaxFragment           \* bound on the characters of a fragment

ASSUME SpeechAssumption ==
    /\ MaxSentenceChars \in Nat \ {0} /\ MaxFragment \in Nat \ {0}
    /\ FirstChunkTimeout \in Nat /\ MidStreamTimeout \in Nat /\ BackoffBreach \in Nat
    /\ MaxText \in Nat

VARIABLES upstream,     \* every fragment received so far, joined
          text_buffer,  \* the text not yet cut into sentences
          sentences,    \* cut, not yet spoken; the first is the one asked for
          chunks,       \* the audio chunks yielded
          speech        \* where the generator is, and the request it awaits

speaking == <<upstream, text_buffer, sentences, chunks, speech>>

-----------------------------------------------------------------------------
(* Types *)

Chars       == {"a", " ", "."}
Terminators == {"."}
Texts(n)    == UNION {[1 .. k -> Chars] : k \in 0 .. n}

Never  == FirstChunkTimeout + MidStreamTimeout + 1
Raised == {"first_chunk_timeout", "mid_stream_timeout", "fallthrough", "http_error"}

\* waited: seconds since the request began; started_at: when its first 429 came.
Asking == [stage : {"asking"}, flush : BOOLEAN, waited : Nat, started_at : Nat]

SpeechTypeOK ==
    /\ upstream \in Texts(MaxText) /\ text_buffer \in Texts(MaxText)
    /\ sentences \in Seq(Texts(MaxText))
    /\ \A i \in DOMAIN chunks : chunks[i].seq = i - 1 /\ chunks[i].sentence \in Texts(MaxText)
    /\ speech \in Asking \cup [stage : {"reading", "done"} \cup Raised]

SpeechInit ==
    /\ upstream = <<>> /\ text_buffer = <<>>
    /\ sentences = <<>> /\ chunks = <<>>
    /\ speech = [stage |-> "reading"]

-----------------------------------------------------------------------------
(* The chunker *)

Strip(text) ==
    LET ink == {i \in DOMAIN text : text[i] # " "} IN
    IF ink = {} THEN <<>>
    ELSE SubSeq(text, CHOOSE i \in ink : \A j \in ink : i <= j,
                      CHOOSE i \in ink : \A j \in ink : j <= i)

\* str.rfind(" "), counted from one; 0 when there is none.
LastSpace(text) ==
    CHOOSE i \in 0 .. Len(text) : /\ i # 0 => text[i] = " "
                                 /\ \A j \in i + 1 .. Len(text) : text[j] # " "

ForceCut_LosesTwo(split) ==
    LET cut == LastSpace(split.buffer) IN
    IF cut > 1
    THEN [split EXCEPT !.sentences = Append(@, SubSeq(split.buffer, 1, cut - 1)),
                       !.buffer = SubSeq(@, cut + 2, Len(@))]
    ELSE [split EXCEPT !.sentences = Append(@, split.buffer), !.buffer = <<>>]

\* A run as long as the limit is cut at its last space, which is dropped, or
\* where it stands if it has none past its first character.
ForceCut(split) ==
    LET cut == LastSpace(split.buffer) IN
    IF cut > 1
    THEN [split EXCEPT !.sentences = Append(@, SubSeq(split.buffer, 1, cut - 1)),
                       !.buffer = SubSeq(@, cut + 1, Len(@))]
    ELSE [split EXCEPT !.sentences = Append(@, split.buffer), !.buffer = <<>>]

\* One character.  A terminator closes the sentence, and so do those that
\* follow it at once: they belong to the sentence just closed.
Take(split, ch) ==
    LET longer == [split EXCEPT !.buffer = Append(@, ch), !.closing = FALSE] IN
    IF ch \in Terminators /\ split.closing
    THEN [split EXCEPT !.sentences[Len(split.sentences)] = Append(@, ch)]
    ELSE IF ch \in Terminators
    THEN [sentences |-> Append(split.sentences, longer.buffer),
          buffer |-> <<>>, closing |-> TRUE]
    ELSE IF Len(longer.buffer) >= MaxSentenceChars THEN ForceCut(longer)
    ELSE longer

\* _split_with_terminator.
SplitWithTerminator(text) ==
    LET split[n \in 0 .. Len(text)] ==
            IF n = 0 THEN [sentences |-> <<>>, buffer |-> <<>>, closing |-> FALSE]
            ELSE Take(split[n - 1], text[n])
    IN  split[Len(text)]

\* The sentences trimmed, without the blank ones.
Cleaned(cut) ==
    LET cleaned[n \in 0 .. Len(cut)] ==
            IF n = 0 THEN <<>>
            ELSE IF Strip(cut[n]) = <<>> THEN cleaned[n - 1]
            ELSE Append(cleaned[n - 1], Strip(cut[n]))
    IN  cleaned[Len(cut)]

\* split_buffer: the remainder is kept as it is.
SplitBuffer(text) ==
    LET split == SplitWithTerminator(text) IN
    [completed |-> Cleaned(split.sentences), remainder |-> split.buffer]

-----------------------------------------------------------------------------
(* The generator *)

Begin(flush) == [stage |-> "asking", flush |-> flush, waited |-> 0, started_at |-> Never]

\* A fragment arrives; the buffer and it are cut again.
Fragment(fragment) ==
    LET split == SplitBuffer(text_buffer \o fragment) IN
    /\ speech.stage = "reading"
    /\ Len(upstream \o fragment) <= MaxText
    /\ upstream' = upstream \o fragment
    /\ text_buffer' = split.remainder
    /\ sentences' = split.completed
    /\ speech' = IF split.completed = <<>> THEN speech ELSE Begin(FALSE)
    /\ UNCHANGED chunks

\* The text ends: what is left in the buffer is spoken too, unless it is blank.
Flush ==
    /\ speech.stage = "reading"
    /\ IF Strip(text_buffer) = <<>>
       THEN speech' = [stage |-> "done"] /\ UNCHANGED <<sentences, text_buffer>>
       ELSE /\ speech' = Begin(TRUE)
            /\ sentences' = <<Strip(text_buffer)>> /\ text_buffer' = <<>>
    /\ UNCHANGED <<upstream, chunks>>

-----------------------------------------------------------------------------
(* One sentence *)

\* is_first: no chunk has been yielded.
Timeout == IF chunks = <<>> THEN FirstChunkTimeout ELSE MidStreamTimeout

\* 200: the chunk is yielded and the next sentence asked for, with a breach
\* window of its own.
Spoken ==
    /\ speech.stage = "asking"
    /\ chunks' = Append(chunks, [seq |-> Len(chunks), sentence |-> Head(sentences)])
    /\ sentences' = Tail(sentences)
    /\ speech' = IF Tail(sentences) # <<>> THEN Begin(speech.flush)
                 ELSE [stage |-> IF speech.flush THEN "done" ELSE "reading"]
    /\ UNCHANGED <<upstream, text_buffer>>

\* 429 after some seconds: wait and ask again, unless the first 429 is too
\* long ago.
TooManyRequests(seconds, backoff) ==
    LET now   == speech.waited + seconds
        since == IF speech.started_at = Never THEN now ELSE speech.started_at IN
    /\ speech.stage = "asking"
    /\ now + backoff <= Timeout
    /\ speech' = IF now - since > BackoffBreach THEN [stage |-> "fallthrough"]
                 ELSE [speech EXCEPT !.waited = now + backoff, !.started_at = since]
    /\ UNCHANGED <<upstream, text_buffer, sentences, chunks>>

\* wait_for runs out, whatever the request is doing.
RunsOut ==
    /\ speech.stage = "asking"
    /\ speech' = [stage |-> IF chunks = <<>> THEN "first_chunk_timeout"
                            ELSE "mid_stream_timeout"]
    /\ UNCHANGED <<upstream, text_buffer, sentences, chunks>>

\* raise_for_status, or the HTTP client gives up (its own read timeout is
\* MidStreamTimeout, for the first chunk too).
RequestFails ==
    /\ speech.stage = "asking"
    /\ speech' = [stage |-> "http_error"]
    /\ UNCHANGED <<upstream, text_buffer, sentences, chunks>>

-----------------------------------------------------------------------------

SpeechNext ==
    \/ \E fragment \in Texts(MaxFragment) \ {<<>>} : Fragment(fragment)
    \/ Flush \/ Spoken \/ RunsOut \/ RequestFails
    \/ \E seconds, backoff \in 0 .. FirstChunkTimeout : TooManyRequests(seconds, backoff)

SpeechSpec == SpeechInit /\ [][SpeechNext]_speaking

-----------------------------------------------------------------------------
(* Properties *)

\* One more character: a letter begins a word or goes on with one.
Heard(words, goes_on, ch) ==
    IF ch # "a" THEN words
    ELSE IF goes_on THEN [words EXCEPT ![Len(words)] = @ + 1]
    ELSE Append(words, 1)

\* The words of a text, by their lengths.
Words(text) ==
    LET words[n \in 0 .. Len(text)] ==
            IF n = 0 THEN <<>>
            ELSE Heard(words[n - 1], n > 1 /\ text[n - 1] = "a", text[n])
    IN  words[Len(text)]

\* No word is as long as the limit.
ShortWords(text) ==
    \A i \in DOMAIN text : \E j \in i .. i + MaxSentenceChars - 1 :
        j \in DOMAIN text => text[j] # "a"

\* Sentences one after the other, a pause after each.
Joined(cut) ==
    LET joined[n \in 0 .. Len(cut)] ==
            IF n = 0 THEN <<>> ELSE joined[n - 1] \o Append(cut[n], " ")
    IN  joined[Len(cut)]

\* What has been said, and what is cut or buffered and still to be said.
Said   == Joined([i \in DOMAIN chunks |-> chunks[i].sentence])
Unsaid == Joined(sentences) \o text_buffer

\* Wherever the text is cut into fragments and wherever the chunker cuts it,
\* no word is lost, split, glued to another or said out of order, as long as
\* every word is shorter than the limit; and when the stream ends in good
\* order every word has been said.
WordsWhole ==
    /\ ShortWords(upstream) => Words(Said \o Unsaid) = Words(upstream)
    /\ speech.stage = "done" => Words(Unsaid) = <<>>
=============================================================================
