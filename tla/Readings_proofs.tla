---------------------------- MODULE Readings_proofs ----------------------------
(***************************************************************************)
(* Readings, proved for any number of members, readings, keys and          *)
(* requests: a retry that follows an answer opens nothing, and a slot is   *)
(* answered once.                                                          *)
(*                                                                         *)
(* The model calls behind them, for any number of calls, attempts and      *)
(* tokens: a call is billed for what its caller hears.                     *)
(*                                                                         *)
(* The lists of a member's rows, for any number of rows and size of page:  *)
(* a walk over the pages misses none.                                      *)
(*                                                                         *)
(* The deny list, proved for any list whose terms of three letters or more *)
(* do not end with the letter they begin with, and every sentence: nothing *)
(* denied is heard or kept.                                                *)
(***************************************************************************)
EXTENDS Readings, LanguageModel, History, Guardrail, FiniteSetTheorems, SequenceTheorems, TLAPS

-----------------------------------------------------------------------------
(* Readings: what is carried along *)

ReadingStages == {"token", "credit", "insert"}
StreamStages  == {"sentence", "save"}

\* A 201 with a key names a reading of that member and key.
NamedTrue ==
    \A u \in Members, k \in Keys, r \in Rids :
        <<u, k, r>> \in named =>
            reading[r].row /\ reading[r].user = u /\ reading[r].key = k

\* No request on its way to an insert was sent after such a 201.
NoneRetried ==
    /\ \A c \in Calls : call[c].stage \in ReadingStages => ~call[c].retry
    /\ \A r \in Rids : reading[r].row => ~reading[r].retried

\* A question is known, and no chunk counted, before its slot is reserved.
Suggested ==
    \A c \in Calls :
        /\ call[c].stage = "reserve" => call[c].question \in {"llm", "bank"}
        /\ call[c].stage \in {"suggest", "reserve"} => call[c].seq = 0

\* Slots whose answer streams have a row, and a slot without a row has had
\* no answer.
SlotTaken ==
    /\ \A c \in Calls : call[c].stage \in StreamStages =>
          followup[<<call[c].rid, call[c].slot>>].row
    /\ \A p \in Rids \X Slots :
          answers[p] <= 1 /\ (~followup[p].row => answers[p] = 0)

\* The first chunk is in the store when a stream has counted one, and when a
\* row names it.
ClipsStored ==
    /\ \A c \in Calls : call[c].stage \in StreamStages /\ call[c].seq > 0 =>
          <<call[c].rid, call[c].slot, 0>> \in clips
    /\ \A p \in Rids \X Slots :
          followup[p].row /\ followup[p].audio_r2_key => <<p[1], p[2], 0>> \in clips

ReadingsInv == ReadingsTypeOK /\ NamedTrue /\ NoneRetried /\ Suggested /\ SlotTaken /\ ClipsStored

-----------------------------------------------------------------------------
(* Readings: what a request holds *)

\* The stage of a request tells of which kind its record is.
LEMMA CallTyped ==
    ASSUME ReadingsTypeOK, NEW c \in Calls
    PROVE  /\ call[c].stage \in ReadingStages => call[c] \in Create
           /\ call[c].stage \in StreamStages \cup {"suggest", "reserve"} => call[c] \in Ask
BY DEF ReadingsTypeOK, Create, Ask, Free, ReadingStages, StreamStages

\* A request whose new record keeps what the invariant says of a record does
\* no harm, as long as it leaves the tables alone.
LEMMA CallMoves ==
    ASSUME ReadingsInv, NEW c \in Calls, NEW n \in Create \cup Ask \cup {Free},
           call' = [call EXCEPT ![c] = n],
           n.stage \in ReadingStages => ~n.retry,
           n.stage = "reserve" => n.question \in {"llm", "bank"},
           n.stage \in {"suggest", "reserve"} => n.seq = 0,
           n.stage \in StreamStages =>
               /\ followup[<<n.rid, n.slot>>].row
               /\ n.seq > 0 => <<n.rid, n.slot, 0>> \in clips,
           UNCHANGED <<token, credit, reading, followup, named, answers, clips>>
    PROVE  ReadingsInv'
<1>1. ReadingsTypeOK'
  BY DEF ReadingsInv, ReadingsTypeOK
<1>2. NamedTrue'
  BY DEF ReadingsInv, NamedTrue
<1>3. NoneRetried'
  BY DEF ReadingsInv, ReadingsTypeOK, NoneRetried
<1>4. SlotTaken' /\ ClipsStored' /\ Suggested'
  BY DEF ReadingsInv, ReadingsTypeOK, SlotTaken, ClipsStored, Suggested
<1> QED
  BY <1>1, <1>2, <1>3, <1>4 DEF ReadingsInv

\* Return is such a move.
LEMMA Returns ==
    ASSUME ReadingsInv, NEW c \in Calls, Return(c),
           UNCHANGED <<token, credit, reading, followup, named, answers, clips>>
    PROVE  ReadingsInv'
<1>1. /\ Free \in Create \cup Ask \cup {Free}
      /\ Free.stage \notin ReadingStages \cup StreamStages \cup {"suggest", "reserve"}
  BY DEF Free, ReadingStages, StreamStages
<1> QED
  BY <1>1, CallMoves DEF Return

-----------------------------------------------------------------------------
(* POST /reading *)

LEMMA FindByKeyKeeps ==
    ASSUME ReadingsInv, NEW c \in Calls, NEW u \in Members, NEW k \in Keys \cup {Null},
           FindByKey(c, u, k)
    PROVE  ReadingsInv'
<1>1. CASE k = Null \/ Opened(u, k) = {}
  <2> DEFINE n == [stage |-> "token", user |-> u, key |-> k, kind |-> "none",
                   retry |-> Named(u, k) # {}]
  <2>1. Named(u, k) = {}
    BY <1>1, ReadingsAssumption DEF ReadingsInv, ReadingsTypeOK, NamedTrue, Named, Opened
  <2>2. n \in Create /\ n.stage = "token" /\ ~n.retry
    BY <2>1 DEF Create, Kinds
  <2>3. call' = [call EXCEPT ![c] = n] /\ named' = named
    BY <1>1 DEF FindByKey
  <2> HIDE DEF n
  <2> QED
    BY <2>2, <2>3, CallMoves DEF FindByKey, StreamStages
<1>2. CASE ~(k = Null \/ Opened(u, k) = {})
  <2>1. call' = call /\ UNCHANGED <<token, credit, reading, followup, answers, clips>>
    BY <1>2 DEF FindByKey
  <2>2. named' = named \/ \E r \in Opened(u, k) : named' = named \cup {<<u, k, r>>}
    BY <1>2 DEF FindByKey, Answer201
  <2>3. NamedTrue' /\ named' \subseteq Members \X Keys \X Rids
    BY <1>2, <2>1, <2>2 DEF ReadingsInv, ReadingsTypeOK, NamedTrue, Opened
  <2> QED
    BY <2>1, <2>3 DEF ReadingsInv, ReadingsTypeOK, NoneRetried, Suggested, SlotTaken, ClipsStored
<1> QED
  BY <1>1, <1>2

LEMMA FindTokenKeeps ==
    ASSUME ReadingsInv, NEW c \in Calls, FindActiveFreeToken(c)
    PROVE  ReadingsInv'
<1> DEFINE n == [call[c] EXCEPT !.stage = "credit",
                    !.kind = IF call[c].user \in token THEN "free_token" ELSE "none"]
<1>1. call[c] \in Create /\ ~call[c].retry
  BY CallTyped DEF FindActiveFreeToken, At, ReadingsInv, NoneRetried, ReadingStages
<1>2. n \in Create /\ n.stage = "credit" /\ n.retry = call[c].retry
  BY <1>1 DEF Create, Kinds
<1>3. call' = [call EXCEPT ![c] = n]
  BY DEF FindActiveFreeToken, ReadingsInv, ReadingsTypeOK
<1> HIDE DEF n
<1> QED
  BY <1>1, <1>2, <1>3, CallMoves DEF FindActiveFreeToken, StreamStages

LEMMA FindSubscriptionKeeps ==
    ASSUME ReadingsInv, NEW c \in Calls, FindActiveSubscription(c)
    PROVE  ReadingsInv'
<1> DEFINE kind == IF call[c].kind = "free_token" THEN "free_token"
                   ELSE IF credit[call[c].user] = "left" THEN "subscription" ELSE "none"
           n == [call[c] EXCEPT !.stage = "insert", !.kind = kind]
<1>1. call[c] \in Create /\ ~call[c].retry
  BY CallTyped DEF FindActiveSubscription, At, ReadingsInv, NoneRetried, ReadingStages
<1>2. n \in Create /\ n.stage = "insert" /\ n.retry = call[c].retry
  BY <1>1 DEF Create, Kinds
<1>3. Return(c) \/ call' = [call EXCEPT ![c] = n]
  BY DEF FindActiveSubscription, ReadingsInv, ReadingsTypeOK
<1> HIDE DEF n
<1> QED
  BY <1>1, <1>2, <1>3, CallMoves, Returns DEF FindActiveSubscription, StreamStages

LEMMA InsertReadingKeeps ==
    ASSUME ReadingsInv, NEW c \in Calls, InsertReading(c)
    PROVE  ReadingsInv'
<1>1. call[c] \in Create /\ ~call[c].retry
  BY CallTyped DEF InsertReading, At, ReadingsInv, NoneRetried, ReadingStages
<1>2. Return(c) /\ UNCHANGED <<token, credit, followup, answers, clips>>
  BY DEF InsertReading
<1>3. CASE UNCHANGED <<reading, named>>
  BY <1>2, <1>3, Returns
<1>4. CASE ~UNCHANGED <<reading, named>>
  <2> DEFINE row == [row |-> TRUE, user |-> call[c].user, key |-> call[c].key,
                     entitlement_kind |-> call[c].kind, retried |-> call[c].retry]
  <2>1. PICK r \in Rids : /\ ~reading[r].row
                          /\ reading' = [reading EXCEPT ![r] = row]
                          /\ Answer201(call[c].user, call[c].key, r)
    BY <1>4 DEF InsertReading
  <2>2. call[c].kind = "free_token"
    BY <1>4 DEF InsertReading, EntitlementChk
  <2>3. row \in Reading /\ row.row /\ ~row.retried /\ row.user = call[c].user /\ row.key = call[c].key
    BY <1>1, <2>2 DEF Create, Reading
  <2> HIDE DEF row
  <2>4. reading' \in [Rids -> Reading \cup {NoReading}]
    BY <2>1, <2>3 DEF ReadingsInv, ReadingsTypeOK
  <2>5. call' = [call EXCEPT ![c] = Free]
    BY <1>2 DEF Return
  <2>6. named' \subseteq Members \X Keys \X Rids
    BY <1>1, <2>1 DEF ReadingsInv, ReadingsTypeOK, Answer201, Create
  <2>7. ReadingsTypeOK'
    BY <1>2, <2>4, <2>5, <2>6 DEF ReadingsInv, ReadingsTypeOK
  <2>8. NamedTrue'
    BY <2>1, <2>3 DEF ReadingsInv, ReadingsTypeOK, NamedTrue, Answer201
  <2>9. NoneRetried'
    BY <2>1, <2>3, <2>5 DEF ReadingsInv, ReadingsTypeOK, NoneRetried, Free, ReadingStages
  <2>10. Suggested' /\ SlotTaken' /\ ClipsStored'
    BY <1>2, <2>5 DEF ReadingsInv, ReadingsTypeOK, Suggested, SlotTaken, ClipsStored, Free, StreamStages
  <2> QED
    BY <2>7, <2>8, <2>9, <2>10 DEF ReadingsInv
<1> QED
  BY <1>3, <1>4

-----------------------------------------------------------------------------
(* POST /reading/{reading_id}/followups/{slot_index} *)

LEMMA StartFollowupKeeps ==
    ASSUME ReadingsInv, NEW c \in Calls, NEW r \in Rids, NEW s \in Slots, StartFollowup(c, r, s)
    PROVE  ReadingsInv'
<1> DEFINE n == [stage |-> "suggest", rid |-> r, slot |-> s, question |-> "none", seq |-> 0]
<1>1. n \in Ask /\ n.stage = "suggest" /\ n.seq = 0
  BY ReadingsAssumption DEF Ask
<1>2. call' = [call EXCEPT ![c] = n]
  BY DEF StartFollowup
<1> HIDE DEF n
<1> QED
  BY <1>1, <1>2, CallMoves DEF StartFollowup, ReadingStages, StreamStages

LEMMA SuggestKeeps ==
    ASSUME ReadingsInv, NEW c \in Calls, SuggestFollowups(c)
    PROVE  ReadingsInv'
<1>1. PICK source \in {"llm", "bank"} :
          call' = [call EXCEPT ![c].stage = "reserve", ![c].question = source]
  BY DEF SuggestFollowups
<1> DEFINE n == [call[c] EXCEPT !.stage = "reserve", !.question = source]
<1>2. call[c] \in Ask /\ call[c].seq = 0
  BY CallTyped DEF SuggestFollowups, At, ReadingsInv, Suggested
<1>3. n \in Ask /\ n.stage = "reserve" /\ n.question = source /\ n.seq = 0
  BY <1>2 DEF Ask
<1>4. call' = [call EXCEPT ![c] = n]
  BY <1>1 DEF ReadingsInv, ReadingsTypeOK
<1> HIDE DEF n
<1> QED
  BY <1>3, <1>4, CallMoves DEF SuggestFollowups, ReadingStages, StreamStages

LEMMA ReserveSlotKeeps ==
    ASSUME ReadingsInv, NEW c \in Calls, ReserveSlot(c)
    PROVE  ReadingsInv'
<1> DEFINE p == <<call[c].rid, call[c].slot>>
           n == [call[c] EXCEPT !.stage = "sentence"]
           row == [row |-> TRUE, question |-> call[c].question,
                   answered |-> FALSE, audio_r2_key |-> FALSE]
<1>1. call[c] \in Ask /\ p \in Rids \X Slots
  BY CallTyped DEF ReserveSlot, At, ReadingsInv, Ask
<1>2. UNCHANGED <<token, credit, reading, named, clips>>
  BY DEF ReserveSlot
<1>3. CASE followup[p].row
  BY <1>3, Returns DEF ReserveSlot
<1>4. CASE ~followup[p].row
  <2>1. /\ followup' = [followup EXCEPT ![p] = row]
        /\ answers' = [answers EXCEPT ![p] = @ + 1]
        /\ call' = [call EXCEPT ![c] = n]
    BY <1>4 DEF ReserveSlot, ReadingsInv, ReadingsTypeOK
  <2>2. /\ n \in Ask /\ n.stage = "sentence" /\ n.seq = 0
        /\ n.rid = call[c].rid /\ n.slot = call[c].slot
    BY <1>1 DEF Ask, ReserveSlot, At, ReadingsInv, Suggested
  <2>3. row \in Followup /\ row.row /\ ~row.audio_r2_key
    BY <1>1 DEF ReserveSlot, At, ReadingsInv, Suggested, Followup
  <2> HIDE DEF n, row, p
  <2>4. ReadingsTypeOK'
    BY <1>1, <1>2, <2>1, <2>2, <2>3 DEF ReadingsInv, ReadingsTypeOK
  <2>5. NamedTrue'
    BY <1>2 DEF ReadingsInv, NamedTrue
  <2>6. NoneRetried' /\ Suggested'
    BY <1>2, <2>1, <2>2 DEF ReadingsInv, ReadingsTypeOK, NoneRetried, Suggested, ReadingStages
  <2>7. SlotTaken'
    BY <1>1, <1>2, <1>4, <2>1, <2>2, <2>3 DEF ReadingsInv, ReadingsTypeOK, SlotTaken, StreamStages, p
  <2>8. ClipsStored'
    BY <1>1, <1>2, <2>1, <2>2, <2>3 DEF ReadingsInv, ReadingsTypeOK, ClipsStored, StreamStages, p
  <2> QED
    BY <2>4, <2>5, <2>6, <2>7, <2>8 DEF ReadingsInv
<1> QED
  BY <1>3, <1>4

LEMMA StoreClipKeeps ==
    ASSUME ReadingsInv, NEW c \in Calls, StoreClip(c)
    PROVE  ReadingsInv'
<1> DEFINE n == [call[c] EXCEPT !.seq = @ + 1]
<1>1. call[c] \in Ask /\ call[c].seq < MaxClips /\ call[c].stage = "sentence"
  BY CallTyped DEF StoreClip, At, ReadingsInv, StreamStages
<1>2. /\ n \in Ask /\ n.stage = "sentence" /\ n.seq = call[c].seq + 1
      /\ n.rid = call[c].rid /\ n.slot = call[c].slot
  BY <1>1, ReadingsAssumption DEF Ask
<1>3. call' = [call EXCEPT ![c] = n]
  BY DEF StoreClip, ReadingsInv, ReadingsTypeOK
<1>4. /\ clips' = clips \cup {<<call[c].rid, call[c].slot, call[c].seq>>}
      /\ UNCHANGED <<token, credit, reading, followup, named, answers>>
  BY DEF StoreClip
<1>5. call[c].rid \in Rids /\ call[c].slot \in Slots /\ call[c].seq \in Nat
  BY <1>1, ReadingsAssumption DEF Ask
<1> HIDE DEF n
<1>6. ReadingsTypeOK'
  BY <1>2, <1>3, <1>4, <1>5 DEF ReadingsInv, ReadingsTypeOK
<1>7. NamedTrue'
  BY <1>4 DEF ReadingsInv, NamedTrue
<1>8. NoneRetried' /\ Suggested'
  BY <1>2, <1>3, <1>4 DEF ReadingsInv, ReadingsTypeOK, NoneRetried, Suggested, ReadingStages
<1>9. SlotTaken'
  BY <1>1, <1>2, <1>3, <1>4 DEF ReadingsInv, ReadingsTypeOK, SlotTaken, StreamStages
<1>10. ClipsStored'
  <2>1. <<call[c].rid, call[c].slot, 0>> \in clips'
    BY <1>1, <1>4, <1>5 DEF ReadingsInv, ClipsStored, StreamStages
  <2> QED
    BY <1>1, <1>2, <1>3, <1>4, <2>1 DEF ReadingsInv, ReadingsTypeOK, ClipsStored, StreamStages
<1> QED
  BY <1>6, <1>7, <1>8, <1>9, <1>10 DEF ReadingsInv

LEMMA EndAnswerKeeps ==
    ASSUME ReadingsInv, NEW c \in Calls, EndAnswer(c)
    PROVE  ReadingsInv'
<1> DEFINE n == [call[c] EXCEPT !.stage = "save"]
<1>1. call[c] \in Ask /\ call[c].stage = "sentence"
  BY CallTyped DEF EndAnswer, At, ReadingsInv, StreamStages
<1>2. /\ n \in Ask /\ n.stage = "save" /\ n.seq = call[c].seq
      /\ n.rid = call[c].rid /\ n.slot = call[c].slot
  BY <1>1 DEF Ask
<1>3. call' = [call EXCEPT ![c] = n]
  BY DEF EndAnswer, ReadingsInv, ReadingsTypeOK
<1>4. followup[<<n.rid, n.slot>>].row /\ (n.seq > 0 => <<n.rid, n.slot, 0>> \in clips)
  BY <1>1, <1>2 DEF ReadingsInv, SlotTaken, ClipsStored, StreamStages
<1> HIDE DEF n
<1> QED
  BY <1>2, <1>3, <1>4, CallMoves DEF EndAnswer, ReadingStages

LEMMA SaveAnswerKeeps ==
    ASSUME ReadingsInv, NEW c \in Calls, SaveAnswer(c)
    PROVE  ReadingsInv'
<1> DEFINE p == <<call[c].rid, call[c].slot>>
           row == [followup[p] EXCEPT !.answered = TRUE, !.audio_r2_key = call[c].seq > 0]
<1>1. call[c] \in Ask /\ call[c].stage = "save" /\ p \in Rids \X Slots
  BY CallTyped DEF SaveAnswer, At, ReadingsInv, Ask, StreamStages
<1>2. followup[p].row /\ (call[c].seq > 0 => <<p[1], p[2], 0>> \in clips)
  BY <1>1 DEF ReadingsInv, SlotTaken, ClipsStored, StreamStages
<1>3. followup[p] \in Followup
  BY <1>1, <1>2 DEF ReadingsInv, ReadingsTypeOK, NoFollowup
<1>4. /\ followup' = [followup EXCEPT ![p] = row]
      /\ call' = [call EXCEPT ![c] = Free]
      /\ UNCHANGED <<token, credit, reading, named, answers, clips>>
  BY <1>1 DEF SaveAnswer, Return, ReadingsInv, ReadingsTypeOK
<1>5. row \in Followup /\ row.row /\ row.audio_r2_key = (call[c].seq > 0)
  <2>1. (call[c].seq > 0) \in BOOLEAN
    OBVIOUS
  <2> QED
    BY <1>3, <2>1 DEF Followup
<1> HIDE DEF row, p
<1>6. ReadingsTypeOK'
  BY <1>1, <1>4, <1>5 DEF ReadingsInv, ReadingsTypeOK
<1>7. NamedTrue'
  BY <1>4 DEF ReadingsInv, NamedTrue
<1>8. NoneRetried' /\ Suggested'
  BY <1>4 DEF ReadingsInv, ReadingsTypeOK, NoneRetried, Suggested, Free, ReadingStages
<1>9. SlotTaken'
  BY <1>1, <1>2, <1>4, <1>5 DEF ReadingsInv, ReadingsTypeOK, SlotTaken, StreamStages, Free
<1>10. ClipsStored'
  BY <1>1, <1>2, <1>4, <1>5 DEF ReadingsInv, ReadingsTypeOK, ClipsStored, StreamStages, Free
<1> QED
  BY <1>6, <1>7, <1>8, <1>9, <1>10 DEF ReadingsInv

-----------------------------------------------------------------------------
(* Readings: what follows *)

LEMMA ReadingsStart == ReadingsInit => ReadingsInv
BY ReadingsAssumption
   DEF ReadingsInit, ReadingsInv, ReadingsTypeOK, NamedTrue, NoneRetried, Suggested, SlotTaken,
       ClipsStored, NoReading, NoFollowup, Free, Credits, ReadingStages, StreamStages

LEMMA ReadingsStep == ReadingsInv /\ [ReadingsNext]_readings => ReadingsInv'
<1> SUFFICES ASSUME ReadingsInv, [ReadingsNext]_readings PROVE ReadingsInv'
  OBVIOUS
<1>1. ASSUME NEW u \in Members, GrantToken(u) PROVE ReadingsInv'
  BY <1>1 DEF GrantToken, ReadingsInv, ReadingsTypeOK, NamedTrue, NoneRetried, Suggested, SlotTaken,
              ClipsStored
<1>2. ASSUME NEW u \in Members, TurnSubscription(u) PROVE ReadingsInv'
  BY <1>2 DEF TurnSubscription, ReadingsInv, ReadingsTypeOK, NamedTrue, NoneRetried, Suggested,
              SlotTaken, ClipsStored
<1>3. ASSUME NEW c \in Calls, LeaveAnswer(c) PROVE ReadingsInv'
  BY <1>3, Returns DEF LeaveAnswer
<1>4. CASE UNCHANGED readings
  BY <1>4 DEF readings, ReadingsInv, ReadingsTypeOK, NamedTrue, NoneRetried, Suggested, SlotTaken,
              ClipsStored
<1> QED
  BY <1>1, <1>2, <1>3, <1>4, FindByKeyKeeps, FindTokenKeeps, FindSubscriptionKeeps,
     InsertReadingKeeps, StartFollowupKeeps, SuggestKeeps, ReserveSlotKeeps, StoreClipKeeps,
     EndAnswerKeeps, SaveAnswerKeeps DEF ReadingsNext

LEMMA ReadingsInvariant == ReadingsSpec => []ReadingsInv
BY ReadingsStart, ReadingsStep, PTL DEF ReadingsSpec

\* Requests, rows and chunks keep their shape: a request is on its way to a
\* reading or to an answer and holds what that stage needs.
THEOREM ReadingsTypeCorrect == ReadingsSpec => []ReadingsTypeOK
<1>1. ReadingsInv => ReadingsTypeOK
  BY DEF ReadingsInv
<1> QED
  BY <1>1, ReadingsInvariant, PTL

\* A retry sent after a 201 with its Idempotency-Key opens no second reading
\* (create_reading looks the key up first), for any number of requests.
THEOREM RetriesOpenNothing == ReadingsSpec => []RetryOpensNothing
<1>1. ReadingsInv => RetryOpensNothing
  BY DEF ReadingsInv, NoneRetried, RetryOpensNothing
<1> QED
  BY <1>1, ReadingsInvariant, PTL

\* The unique index on (reading, slot) lets one racing request answer, and
\* save_answer names a chunk that is in the store.
THEOREM SlotsAnsweredOnce == ReadingsSpec => []AnsweredOnce
<1>1. ReadingsInv => AnsweredOnce
  BY DEF ReadingsInv, SlotTaken, ClipsStored, AnsweredOnce
<1> QED
  BY <1>1, ReadingsInvariant, PTL

-----------------------------------------------------------------------------
(* LanguageModel: what is carried along *)

\* All of a sequence comes from one attempt.
OfAttempt(s, a) == \A i \in DOMAIN s : s[i] = a

\* The one record of a call covers a sequence of n tokens.
Covers(c, n) ==
    \E i \in RecordsOf(c) :
        /\ RecordsOf(c) = {i}
        /\ cost_records[i].model = llm[c].model
        /\ cost_records[i].output_tokens >= n

\* What has been collected is the attempt's own, nothing is heard or billed
\* before an attempt is complete, and what is heard is a part of what was billed.
CallTrue(c) ==
    LET q == llm[c] IN
    /\ OfAttempt(q.tokens, q.attempt) /\ OfAttempt(q.yielded, q.attempt)
    /\ q.stage \in {"idle"} \cup Running \cup Failed => RecordsOf(c) = {} /\ q.yielded = <<>>
    /\ q.stage = "idle" => q.tokens = <<>>
    /\ q.stage \in Running => q.attempt # 0
    /\ q.stage = "pausing" => q.attempt # MaxTries
    /\ q.stage = "yielding" => Covers(c, Len(q.tokens)) /\ Len(q.yielded) <= Len(q.tokens)
    /\ q.stage = "closed" /\ q.yielded # <<>> => Covers(c, Len(q.yielded))

LlmInv == LlmTypeOK /\ \A c \in LlmCalls : CallTrue(c)

-----------------------------------------------------------------------------
(* LanguageModel: the steps of a call *)

LEMMA AppendedOf ==
    ASSUME NEW S, NEW s \in Seq(S), NEW a \in S, OfAttempt(s, a)
    PROVE  Append(s, a) \in Seq(S) /\ OfAttempt(Append(s, a), a) /\ Len(Append(s, a)) = Len(s) + 1
BY DEF OfAttempt

LEMMA EmptyOf == \A a : OfAttempt(<<>>, a)
BY DEF OfAttempt

LEMMA ElementOf ==
    ASSUME NEW S, NEW s \in Seq(S), NEW i \in DOMAIN s
    PROVE  s[i] \in S
<1>1. DOMAIN s = 1 .. Len(s)
  OBVIOUS
<1> QED
  BY <1>1

LEMMA RecordsTyped ==
    ASSUME LlmTypeOK, NEW c, NEW i \in RecordsOf(c)
    PROVE  cost_records[i].output_tokens \in Nat
<1> DEFINE R == [call : LlmCalls, model : {SONNET_4_6, HAIKU_4_5}, output_tokens : Nat]
<1>1. cost_records \in Seq(R) /\ i \in DOMAIN cost_records
  BY DEF LlmTypeOK, RecordsOf
<1>2. cost_records[i] \in R
  BY <1>1, ElementOf
<1> QED
  BY <1>2

\* A call moves on, and nothing is billed.
LEMMA LlmMoves ==
    ASSUME LlmInv, NEW c \in LlmCalls, NEW q \in LlmCall, llm' = [llm EXCEPT ![c] = q],
           UNCHANGED cost_records, q.model = llm[c].model \/ RecordsOf(c) = {},
           OfAttempt(q.tokens, q.attempt), OfAttempt(q.yielded, q.attempt),
           q.stage \in {"idle"} \cup Running \cup Failed => RecordsOf(c) = {} /\ q.yielded = <<>>,
           q.stage = "idle" => q.tokens = <<>>,
           q.stage \in Running => q.attempt # 0,
           q.stage = "pausing" => q.attempt # MaxTries,
           q.stage = "yielding" => Covers(c, Len(q.tokens)) /\ Len(q.yielded) <= Len(q.tokens),
           q.stage = "closed" /\ q.yielded # <<>> => Covers(c, Len(q.yielded))
    PROVE  LlmInv'
<1>1. \A d \in LlmCalls : llm'[d] = IF d = c THEN q ELSE llm[d]
  BY DEF LlmInv, LlmTypeOK
<1>2. LlmTypeOK'
  BY DEF LlmInv, LlmTypeOK
<1>3. \A d \in LlmCalls : RecordsOf(d)' = RecordsOf(d)
  BY DEF RecordsOf
<1>4. \A d \in LlmCalls, n \in Nat : Covers(d, n) => Covers(d, n)'
  BY <1>1, <1>3 DEF Covers
<1>5. CallTrue(c)'
  <2>1. Len(q.tokens) \in Nat /\ Len(q.yielded) \in Nat
    BY DEF LlmCall
  <2> QED
    BY <1>1, <1>3, <1>4, <2>1 DEF CallTrue, OfAttempt
<1>6. ASSUME NEW d \in LlmCalls, d # c PROVE CallTrue(d)'
  <2>1. Len(llm[d].tokens) \in Nat /\ Len(llm[d].yielded) \in Nat
    BY DEF LlmInv, LlmTypeOK, LlmCall
  <2> QED
    BY <1>1, <1>3, <1>4, <1>6, <2>1 DEF CallTrue, OfAttempt, LlmInv
<1> QED
  BY <1>2, <1>5, <1>6 DEF LlmInv

LEMMA StreamTextKeeps ==
    ASSUME LlmInv, NEW c \in LlmCalls, NEW category \in Categories, StreamText(c, category)
    PROVE  LlmInv'
<1> DEFINE q == [llm[c] EXCEPT !.stage = "opening", !.attempt = 1, !.model = SelectModel(category)]
<1>1. /\ llm[c] \in LlmCall /\ llm[c].tokens = <<>> /\ llm[c].yielded = <<>> /\ RecordsOf(c) = {}
  BY DEF StreamText, LlmAt, LlmInv, LlmTypeOK, CallTrue
<1>2. /\ q \in LlmCall /\ q.stage = "opening" /\ q.attempt = 1 /\ q.tokens = <<>> /\ q.yielded = <<>>
  <2>1. 1 \in 0 .. MaxTries /\ SelectModel(category) \in {SONNET_4_6, HAIKU_4_5}
    BY LlmAssumption DEF SelectModel
  <2> QED
    BY <1>1, <2>1 DEF LlmCall, LlmStages, Running
<1>3. llm' = [llm EXCEPT ![c] = q] /\ UNCHANGED cost_records
  BY DEF StreamText, LlmInv, LlmTypeOK, LlmCall
<1> HIDE DEF q
<1> QED
  <2>1. OfAttempt(q.tokens, q.attempt) /\ OfAttempt(q.yielded, q.attempt)
    BY <1>2, EmptyOf
  <2>2. /\ q.stage \in Running => q.attempt # 0
        /\ q.stage \notin {"idle", "pausing", "yielding", "closed"}
    BY <1>2
  <2> QED
    BY <1>1, <1>2, <1>3, <2>1, <2>2, LlmMoves

LEMMA CollectTokenKeeps ==
    ASSUME LlmInv, NEW c \in LlmCalls, CollectToken(c)
    PROVE  LlmInv'
<1> DEFINE a == llm[c].attempt
           q == [llm[c] EXCEPT !.stage = "streaming", !.tokens = Append(@, a)]
<1>1. /\ llm[c] \in LlmCall /\ a \in 1 .. MaxTries /\ llm[c].yielded = <<>> /\ RecordsOf(c) = {}
      /\ OfAttempt(llm[c].tokens, a)
  BY LlmAssumption DEF CollectToken, LlmAt, LlmInv, LlmTypeOK, CallTrue, LlmCall, Running
<1>2. Append(llm[c].tokens, a) \in Seq(1 .. MaxTries) /\ OfAttempt(Append(llm[c].tokens, a), a)
  BY <1>1, AppendedOf DEF LlmCall
<1>3. /\ q \in LlmCall /\ q.stage = "streaming" /\ q.attempt = a /\ q.yielded = <<>>
      /\ q.tokens = Append(llm[c].tokens, a)
  BY <1>1, <1>2 DEF LlmCall, LlmStages, Running
<1>4. llm' = [llm EXCEPT ![c] = q] /\ UNCHANGED cost_records
  BY DEF CollectToken, LlmInv, LlmTypeOK, LlmCall
<1>5. a # 0
  BY <1>1
<1> HIDE DEF q, a
<1> QED
  BY <1>1, <1>2, <1>3, <1>4, <1>5, EmptyOf, LlmMoves

LEMMA CompleteStreamKeeps ==
    ASSUME LlmInv, NEW c \in LlmCalls, CompleteStream(c)
    PROVE  LlmInv'
<1> DEFINE r == [call |-> c, model |-> llm[c].model, output_tokens |-> Len(llm[c].tokens)]
           k == Len(cost_records) + 1
           q == [llm[c] EXCEPT !.stage = "yielding"]
<1>1. /\ llm[c] \in LlmCall /\ llm[c].yielded = <<>> /\ RecordsOf(c) = {}
      /\ OfAttempt(llm[c].tokens, llm[c].attempt)
  BY DEF CompleteStream, LlmAt, LlmInv, LlmTypeOK, CallTrue, LlmCall, Running
<1>2. r \in [call : LlmCalls, model : {SONNET_4_6, HAIKU_4_5}, output_tokens : Nat]
  BY <1>1 DEF LlmCall
<1>3. /\ q \in LlmCall /\ q.stage = "yielding" /\ q.attempt = llm[c].attempt /\ q.yielded = <<>>
      /\ q.tokens = llm[c].tokens /\ q.model = llm[c].model
  BY <1>1 DEF LlmCall, LlmStages
<1>4. llm' = [llm EXCEPT ![c] = q] /\ cost_records' = Append(cost_records, r)
  BY DEF CompleteStream, RecordCost, LlmInv, LlmTypeOK, LlmCall
<1>5. \A d \in LlmCalls : llm'[d] = IF d = c THEN q ELSE llm[d]
  BY <1>4 DEF LlmInv, LlmTypeOK
<1>6. cost_records \in Seq([call : LlmCalls, model : {SONNET_4_6, HAIKU_4_5}, output_tokens : Nat])
  BY DEF LlmInv, LlmTypeOK
<1> HIDE DEF q, r
<1>7. /\ DOMAIN cost_records' = DOMAIN cost_records \cup {k} /\ cost_records'[k] = r
      /\ \A i \in DOMAIN cost_records : i # k /\ cost_records'[i] = cost_records[i]
      /\ cost_records' \in Seq([call : LlmCalls, model : {SONNET_4_6, HAIKU_4_5}, output_tokens : Nat])
  BY <1>2, <1>4, <1>6
<1>8. LlmTypeOK'
  BY <1>3, <1>4, <1>7 DEF LlmInv, LlmTypeOK
<1>9. CallTrue(c)'
  <2>1. r.call = c /\ r.model = q.model /\ r.output_tokens = Len(q.tokens) /\ Len(q.tokens) \in Nat
    BY <1>1, <1>3 DEF r, LlmCall
  <2>2. RecordsOf(c)' = {k}
    BY <1>1, <1>7, <2>1 DEF RecordsOf
  <2>3. \A n : n = Len(q.tokens) => Covers(c, n)'
    BY <1>5, <1>7, <2>1, <2>2 DEF Covers
  <2>4. Len(q.yielded) <= Len(q.tokens)
    BY <1>3, <2>1
  <2>5. llm'[c] = q /\ q.stage \notin {"idle", "pausing", "closed"} \cup Running \cup Failed
    BY <1>3, <1>5 DEF Running, Failed
  <2>6. OfAttempt(q.tokens, q.attempt) /\ OfAttempt(q.yielded, q.attempt)
    BY <1>1, <1>3, EmptyOf
  <2> QED
    BY <1>3, <2>3, <2>4, <2>5, <2>6 DEF CallTrue
<1>10. ASSUME NEW d \in LlmCalls, d # c PROVE CallTrue(d)'
  <2>1. RecordsOf(d)' = RecordsOf(d)
    BY <1>7, <1>10 DEF RecordsOf, r
  <2>2. \A n \in Nat : Covers(d, n) => Covers(d, n)'
    BY <1>5, <1>7, <1>10, <2>1 DEF Covers, RecordsOf
  <2>3. Len(llm[d].tokens) \in Nat /\ Len(llm[d].yielded) \in Nat
    BY DEF LlmInv, LlmTypeOK, LlmCall
  <2> QED
    BY <1>5, <1>10, <2>1, <2>2, <2>3 DEF LlmInv, CallTrue, OfAttempt
<1> QED
  BY <1>8, <1>9, <1>10 DEF LlmInv

LEMMA TryAgainKeeps ==
    ASSUME LlmInv, NEW c \in LlmCalls, TryAgain(c)
    PROVE  LlmInv'
<1> DEFINE q == [llm[c] EXCEPT !.stage = "opening", !.attempt = @ + 1, !.tokens = <<>>]
<1>1. /\ llm[c] \in LlmCall /\ llm[c].yielded = <<>> /\ RecordsOf(c) = {}
      /\ llm[c].attempt \in 0 .. MaxTries /\ llm[c].attempt # MaxTries
  BY DEF TryAgain, LlmAt, LlmInv, LlmTypeOK, CallTrue, LlmCall, Running
<1>2. llm[c].attempt + 1 \in 0 .. MaxTries /\ llm[c].attempt + 1 # 0
  BY <1>1, LlmAssumption
<1>3. /\ q \in LlmCall /\ q.stage = "opening" /\ q.attempt # 0 /\ q.tokens = <<>>
      /\ q.yielded = <<>> /\ q.model = llm[c].model
  BY <1>1, <1>2 DEF LlmCall, LlmStages, Running
<1>4. llm' = [llm EXCEPT ![c] = q] /\ UNCHANGED cost_records
  BY DEF TryAgain, LlmInv, LlmTypeOK, LlmCall
<1> HIDE DEF q
<1> QED
  BY <1>1, <1>3, <1>4, EmptyOf, LlmMoves

\* A call pauses or fails.
LEMMA AttemptEnds ==
    ASSUME LlmInv, NEW c \in LlmCalls, LlmAt(c, {"opening", "streaming"}),
           NEW st \in {"pausing"} \cup Failed, st = "pausing" => llm[c].attempt # MaxTries,
           llm' = [llm EXCEPT ![c].stage = st], UNCHANGED cost_records
    PROVE  LlmInv'
<1> DEFINE q == [llm[c] EXCEPT !.stage = st]
<1>1. /\ llm[c] \in LlmCall /\ llm[c].yielded = <<>> /\ RecordsOf(c) = {} /\ llm[c].attempt # 0
      /\ OfAttempt(llm[c].tokens, llm[c].attempt)
  BY DEF LlmAt, LlmInv, LlmTypeOK, CallTrue, Running
<1>2. /\ q \in LlmCall /\ q.stage = st /\ q.attempt = llm[c].attempt /\ q.tokens = llm[c].tokens
      /\ q.yielded = llm[c].yielded /\ q.model = llm[c].model
  BY <1>1 DEF LlmCall, LlmStages, Running
<1>3. llm' = [llm EXCEPT ![c] = q]
  BY DEF LlmInv, LlmTypeOK, LlmCall
<1>4. st \notin {"idle", "yielding", "closed"}
  BY DEF Failed
<1>5. OfAttempt(q.tokens, q.attempt) /\ OfAttempt(q.yielded, q.attempt)
  BY <1>1, <1>2, EmptyOf
<1>6. /\ q.stage \in Running => q.attempt # 0
      /\ q.stage = "pausing" => q.attempt # MaxTries
      /\ q.stage \notin {"idle", "yielding", "closed"}
      /\ q.yielded = <<>> /\ q.model = llm[c].model
  BY <1>1, <1>2, <1>4
<1> HIDE DEF q
<1> QED
  BY <1>1, <1>2, <1>3, <1>5, <1>6, LlmMoves

LEMMA YieldTokenKeeps ==
    ASSUME LlmInv, NEW c \in LlmCalls, YieldToken(c)
    PROVE  LlmInv'
<1> DEFINE a == llm[c].attempt
           n == Len(llm[c].yielded) + 1
           q == [llm[c] EXCEPT !.yielded = Append(@, a)]
<1>1. /\ llm[c] \in LlmCall /\ llm[c].stage = "yielding" /\ Covers(c, Len(llm[c].tokens))
      /\ OfAttempt(llm[c].tokens, a) /\ OfAttempt(llm[c].yielded, a)
      /\ llm[c].tokens \in Seq(1 .. MaxTries) /\ llm[c].yielded \in Seq(1 .. MaxTries)
  BY DEF YieldToken, LlmAt, LlmInv, LlmTypeOK, CallTrue, LlmCall
<1>2. n \in DOMAIN llm[c].tokens /\ n <= Len(llm[c].tokens)
  BY <1>1 DEF YieldToken
<1>3. llm[c].tokens[n] = a /\ a \in 1 .. MaxTries
  <2>1. llm[c].tokens[n] \in 1 .. MaxTries
    BY <1>1, <1>2, ElementOf
  <2> QED
    BY <1>1, <1>2, <2>1 DEF OfAttempt
<1>4. /\ Append(llm[c].yielded, a) \in Seq(1 .. MaxTries) /\ OfAttempt(Append(llm[c].yielded, a), a)
      /\ Len(Append(llm[c].yielded, a)) = n
  BY <1>1, <1>3, AppendedOf
<1>5. /\ q \in LlmCall /\ q.stage = "yielding" /\ q.attempt = a /\ q.tokens = llm[c].tokens
      /\ q.yielded = Append(llm[c].yielded, a) /\ q.model = llm[c].model
  BY <1>1, <1>4 DEF LlmCall
<1>6. llm' = [llm EXCEPT ![c] = q] /\ UNCHANGED cost_records
  BY <1>3 DEF YieldToken, LlmInv, LlmTypeOK, LlmCall
<1>7. q.stage \notin {"idle", "pausing", "closed"} \cup Running \cup Failed
  BY <1>5 DEF Running, Failed
<1> HIDE DEF q, a
<1> QED
  BY <1>1, <1>2, <1>4, <1>5, <1>6, <1>7, LlmMoves

LEMMA CloseStreamKeeps ==
    ASSUME LlmInv, NEW c \in LlmCalls, CloseStream(c)
    PROVE  LlmInv'
<1> DEFINE q == [llm[c] EXCEPT !.stage = "closed"]
<1>1. /\ llm[c] \in LlmCall /\ CallTrue(c) /\ llm[c].stage \in Running \cup {"yielding"}
      /\ llm[c].tokens \in Seq(1 .. MaxTries) /\ llm[c].yielded \in Seq(1 .. MaxTries)
  BY DEF CloseStream, LlmAt, LlmInv, LlmTypeOK, LlmCall
<1>2. /\ q \in LlmCall /\ q.stage = "closed" /\ q.attempt = llm[c].attempt /\ q.tokens = llm[c].tokens
      /\ q.yielded = llm[c].yielded /\ q.model = llm[c].model
  BY <1>1 DEF LlmCall, LlmStages
<1>3. llm' = [llm EXCEPT ![c] = q] /\ UNCHANGED cost_records
  BY DEF CloseStream, LlmInv, LlmTypeOK, LlmCall
<1>4. OfAttempt(llm[c].tokens, llm[c].attempt) /\ OfAttempt(llm[c].yielded, llm[c].attempt)
  BY <1>1 DEF CallTrue
<1>5. llm[c].yielded # <<>> => Covers(c, Len(llm[c].yielded))
  <2>1. CASE llm[c].stage \in Running
    BY <1>1, <2>1 DEF CallTrue
  <2>2. CASE llm[c].stage = "yielding"
    <3>1. Covers(c, Len(llm[c].tokens)) /\ Len(llm[c].yielded) <= Len(llm[c].tokens)
      BY <1>1, <2>2 DEF CallTrue
    <3>2. \A i \in RecordsOf(c) : cost_records[i].output_tokens \in Nat
      BY RecordsTyped DEF LlmInv
    <3> QED
      BY <1>1, <3>1, <3>2 DEF Covers
  <2> QED
    BY <1>1, <2>1, <2>2
<1>6. q.stage \notin {"idle", "pausing", "yielding"} \cup Running \cup Failed
  BY <1>2 DEF Running, Failed
<1> HIDE DEF q
<1> QED
  BY <1>2, <1>3, <1>4, <1>5, <1>6, LlmMoves

-----------------------------------------------------------------------------
(* LanguageModel: what follows *)

LEMMA LlmStarts == LlmInit => LlmInv
<1> SUFFICES ASSUME LlmInit PROVE LlmInv
  OBVIOUS
<1>1. LlmTypeOK
  BY LlmAssumption DEF LlmInit, LlmTypeOK, LlmCall, LlmStages
<1>2. \A c \in LlmCalls : RecordsOf(c) = {}
  <2>1. DOMAIN cost_records = {}
    BY DEF LlmInit
  <2> QED
    BY <2>1 DEF RecordsOf
<1> QED
  BY <1>1, <1>2 DEF LlmInit, LlmInv, CallTrue, OfAttempt, Running

LEMMA LlmSteps == LlmInv /\ [LlmNext]_llmState => LlmInv'
<1> SUFFICES ASSUME LlmInv, [LlmNext]_llmState PROVE LlmInv'
  OBVIOUS
<1>1. ASSUME NEW c \in LlmCalls, NEW category \in Categories, StreamText(c, category) PROVE LlmInv'
  BY <1>1, StreamTextKeeps
<1>2. ASSUME NEW c \in LlmCalls, NEW timeout \in BOOLEAN, RetryableError(c, timeout) PROVE LlmInv'
  <2> DEFINE st == IF llm[c].attempt < MaxTries THEN "pausing"
                   ELSE IF timeout THEN "LLMTimeoutError" ELSE "LLMClientError"
  <2>1. st \in {"pausing"} \cup Failed /\ (st = "pausing" => llm[c].attempt # MaxTries)
    BY LlmAssumption DEF Failed
  <2> QED
    BY <1>2, <2>1, AttemptEnds DEF RetryableError
<1>3. ASSUME NEW c \in LlmCalls, NEW error \in Failed, FinalError(c, error) PROVE LlmInv'
  BY <1>3, AttemptEnds DEF FinalError, Failed
<1>4. ASSUME NEW c \in LlmCalls, CollectToken(c) \/ CompleteStream(c) \/ TryAgain(c) PROVE LlmInv'
  BY <1>4, CollectTokenKeeps, CompleteStreamKeeps, TryAgainKeeps
<1>5. ASSUME NEW c \in LlmCalls, YieldToken(c) \/ CloseStream(c) PROVE LlmInv'
  BY <1>5, YieldTokenKeeps, CloseStreamKeeps
<1>6. CASE UNCHANGED llmState
  BY <1>6 DEF llmState, LlmInv, LlmTypeOK, CallTrue, Covers, RecordsOf, OfAttempt
<1> QED
  BY <1>1, <1>2, <1>3, <1>4, <1>5, <1>6 DEF LlmNext

\* Calls and cost records keep their types.
THEOREM LlmTypeCorrect == LlmSpec => []LlmTypeOK
<1>1. LlmInv => LlmTypeOK
  BY DEF LlmInv
<1> QED
  BY <1>1, LlmStarts, LlmSteps, PTL DEF LlmSpec

\* For any number of calls, attempts and tokens: a caller hears one attempt, and
\* the call has one cost record that covers it, or none when it failed.
THEOREM BillsAreForWhatIsHeard == LlmSpec => []BilledForWhatIsHeard
<1>1. LlmInv => BilledForWhatIsHeard
  <2> SUFFICES ASSUME LlmInv, NEW c \in LlmCalls
               PROVE  /\ \A i \in DOMAIN llm[c].yielded : llm[c].yielded[i] = llm[c].attempt
                      /\ llm[c].yielded # <<>> => Covers(c, Len(llm[c].yielded))
                      /\ llm[c].stage \in Running \cup Failed => RecordsOf(c) = {}
    BY DEF BilledForWhatIsHeard, Covers
  <2>1. CallTrue(c) /\ llm[c] \in LlmCall
    BY DEF LlmInv, LlmTypeOK
  <2>2. CASE llm[c].stage = "yielding"
    <3>1. /\ Covers(c, Len(llm[c].tokens)) /\ Len(llm[c].yielded) <= Len(llm[c].tokens)
          /\ Len(llm[c].yielded) \in Nat /\ Len(llm[c].tokens) \in Nat
      BY <2>1, <2>2 DEF CallTrue, LlmCall
    <3>2. \A i \in RecordsOf(c) : cost_records[i].output_tokens \in Nat
      BY RecordsTyped DEF LlmInv
    <3>3. Covers(c, Len(llm[c].yielded))
      BY <3>1, <3>2 DEF Covers
    <3> QED
      BY <2>1, <2>2, <3>3 DEF CallTrue, OfAttempt, Running, Failed
  <2>3. CASE llm[c].stage # "yielding"
    BY <2>1, <2>3 DEF CallTrue, OfAttempt, LlmCall, LlmStages
  <2> QED
    BY <2>2, <2>3
<1> QED
  BY <1>1, LlmStarts, LlmSteps, PTL DEF LlmSpec

-----------------------------------------------------------------------------
(* History: the places of the rows *)

\* The rows in the table and the clock: no two of one instant.
RowsTimed ==
    /\ HistoryTypeOK
    /\ settled \subseteq Inserted
    /\ \A q, r \in Inserted : created_at[q] = created_at[r] => q = r

\* Every instant a row can have is a number.
LEMMA RowInstants ==
    ASSUME HistoryTypeOK
    PROVE  \A r \in Entries : created_at[r] \in Nat
<1>1. \A i \in Instants \cup {0} : i \in Nat
  BY HistoryAssumption
<1>. QED BY <1>1 DEF HistoryTypeOK

\* A row has fewer rows before it than there are rows.
LEMMA PlaceBounded ==
    ASSUME HistoryTypeOK, NEW r \in settled
    PROVE  /\ IsFiniteSet(NewerThan(r)) /\ Place(r) \in Nat
           /\ Cardinality(settled) \in Nat /\ Place(r) < Cardinality(settled)
<1>1. IsFiniteSet(settled) /\ r \in Entries
  BY DEF HistoryTypeOK
<1>2. NewerThan(r) \subseteq settled /\ r \notin NewerThan(r)
  BY <1>1, RowInstants DEF NewerThan
<1>3. IsFiniteSet(NewerThan(r)) /\ Cardinality(NewerThan(r)) <= Cardinality(settled)
      /\ (Cardinality(settled) = Cardinality(NewerThan(r)) => settled = NewerThan(r))
  BY <1>1, <1>2, FS_Subset
<1>4. Cardinality(NewerThan(r)) \in Nat /\ Cardinality(settled) \in Nat
  BY <1>1, <1>3, FS_CardinalityType
<1>. QED BY <1>2, <1>3, <1>4 DEF Place

\* The younger of two rows comes first.
LEMMA YoungerFirst ==
    ASSUME HistoryTypeOK, NEW q \in settled, NEW r \in settled,
           created_at[q] > created_at[r]
    PROVE  Place(q) < Place(r)
<1>1. created_at[q] \in Nat /\ created_at[r] \in Nat /\ \A s \in settled : created_at[s] \in Nat
  BY RowInstants DEF HistoryTypeOK
<1>2. NewerThan(q) \subseteq NewerThan(r) /\ q \in NewerThan(r) /\ q \notin NewerThan(q)
  BY <1>1 DEF NewerThan
<1>3. /\ IsFiniteSet(NewerThan(r)) /\ Place(r) \in Nat /\ Place(q) \in Nat
  BY PlaceBounded
<1>4. /\ Cardinality(NewerThan(q)) <= Cardinality(NewerThan(r))
      /\ Cardinality(NewerThan(r)) = Cardinality(NewerThan(q)) => NewerThan(r) = NewerThan(q)
  BY <1>2, <1>3, FS_Subset
<1>. QED BY <1>2, <1>3, <1>4 DEF Place

\* The rows are at the places 0, 1, 2, ... without a gap.
LEMMA PlacesWithoutGap ==
    ASSUME RowsTimed, NEW r \in settled, NEW k \in 0 .. Place(r)
    PROVE  \E q \in settled : Place(q) = k
<1>. DEFINE n == Cardinality(settled)  f == [q \in settled |-> Place(q)]
<1>1. HistoryTypeOK /\ IsFiniteSet(settled)
  BY DEF RowsTimed, HistoryTypeOK
<1>2. /\ n \in Nat /\ Place(r) \in Nat /\ Place(r) < n
      /\ \A q \in settled : Place(q) \in 0 .. n - 1
  BY <1>1, PlaceBounded
<1>3. ASSUME NEW p \in settled, NEW q \in settled, Place(p) = Place(q) PROVE p = q
  <2>1. created_at[p] \in Nat /\ created_at[q] \in Nat
    BY <1>1, RowInstants DEF HistoryTypeOK
  <2>2. ~(created_at[p] > created_at[q]) /\ ~(created_at[q] > created_at[p])
    BY <1>1, <1>2, <1>3, YoungerFirst
  <2>3. created_at[p] = created_at[q]
    BY <2>1, <2>2
  <2>. QED BY <2>3 DEF RowsTimed
<1>4. f \in Injection(settled, 0 .. n - 1)
  BY <1>2, <1>3 DEF Injection, IsInjective
<1>5. IsFiniteSet(0 .. n - 1) /\ Cardinality(0 .. n - 1) = n
  BY <1>2, FS_Interval
<1>. HIDE DEF n
<1>6. f \in Surjection(settled, 0 .. n - 1)
  BY <1>4, <1>5, FS_Injection DEF n
<1>7. k \in 0 .. n - 1
  BY <1>2
<1>. QED BY <1>6, <1>7 DEF Surjection

\* A page is not full only when no row comes after it.
LEMMA ShortPageIsLast ==
    ASSUME RowsTimed, NEW page \in Nat \ {0}, Cardinality(Page(page)) < PAGE_SIZE,
           NEW r \in settled
    PROVE  Place(r) < page * PAGE_SIZE
<1>. DEFINE lo == (page - 1) * PAGE_SIZE  hi == page * PAGE_SIZE - 1
<1>1. lo \in Nat /\ hi \in Int /\ hi - lo + 1 = PAGE_SIZE /\ PAGE_SIZE \in Nat \ {0}
  <2>1. PAGE_SIZE \in Nat \ {0} /\ page - 1 \in Nat /\ page = (page - 1) + 1
    BY HistoryAssumption
  <2>2. page * PAGE_SIZE = (page - 1) * PAGE_SIZE + PAGE_SIZE
    BY <2>1
  <2>3. (page - 1) * PAGE_SIZE \in Nat
    BY <2>1
  <2>. QED BY <2>1, <2>2, <2>3
<1>2. HistoryTypeOK /\ IsFiniteSet(settled) /\ \A q \in settled : Place(q) \in Nat
  BY PlaceBounded DEF RowsTimed, HistoryTypeOK
<1>3. SUFFICES ASSUME Place(r) > hi PROVE FALSE
  BY <1>1, <1>2
<1>. DEFINE f == [q \in Page(page) |-> Place(q)]
<1>4. Page(page) = {q \in settled : lo <= Place(q) /\ Place(q) <= hi}
  BY <1>1, <1>2 DEF Page
<1>5. IsFiniteSet(Page(page))
  BY <1>2, <1>4, FS_Subset
<1>. HIDE DEF lo, hi
<1>6. f \in [Page(page) -> lo .. hi]
  BY <1>1, <1>2, <1>4
<1>7. ASSUME NEW k \in lo .. hi PROVE \E q \in Page(page) : f[q] = k
  <2>1. k \in 0 .. Place(r)
    BY <1>1, <1>2, <1>3
  <2>2. PICK q \in settled : Place(q) = k
    BY <2>1, PlacesWithoutGap
  <2>. QED BY <1>4, <2>2
<1>8. f \in Surjection(Page(page), lo .. hi)
  BY <1>6, <1>7 DEF Surjection
<1>9. Cardinality(lo .. hi) <= Cardinality(Page(page))
  BY <1>5, <1>8, FS_Surjection
<1>10. Cardinality(lo .. hi) = PAGE_SIZE
  BY <1>1, FS_Interval
<1>11. Cardinality(Page(page)) \in Nat
  BY <1>5, FS_CardinalityType
<1>. QED BY <1>1, <1>9, <1>10, <1>11

-----------------------------------------------------------------------------
(* History: the walk *)

\* What a walk that goes on has seen: of the rows it owes, those on the pages it
\* has listed, wherever the rows committed since have pushed them.
SeenSoFar ==
    /\ walk.page > 0 => /\ walk.owed \subseteq settled
                        /\ \A r \in walk.owed :
                              Place(r) < walk.page * PAGE_SIZE => r \in walk.seen
    /\ walk.page = 0 => walk = NoWalk

HistoryInv == RowsTimed /\ SeenSoFar /\ PagesMissNothing

\* A row that is committed only moves the others down.
LEMMA PlacesGrow ==
    ASSUME HistoryTypeOK, HistoryTypeOK', NEW r \in settled, settled \subseteq settled',
           \A q \in settled : created_at'[q] = created_at[q]
    PROVE  Place(r) <= Place(r)'
<1>1. NewerThan(r) \subseteq NewerThan(r)'
  BY DEF NewerThan
<1>2. /\ IsFiniteSet(NewerThan(r)') /\ Place(r)' \in Nat
      /\ Place(r) \in Nat
  <2>1. Place(r) \in Nat
    BY PlaceBounded
  <2>2. IsFiniteSet(settled') /\ NewerThan(r)' \subseteq settled'
    BY DEF HistoryTypeOK, NewerThan
  <2>3. IsFiniteSet(NewerThan(r)')
    BY <2>2, FS_Subset
  <2>. QED BY <2>1, <2>3, FS_CardinalityType DEF Place
<1>. QED BY <1>1, <1>2, FS_Subset DEF Place

\* The walk is where it was and the rows it has seen are no nearer the top.
LEMMA WalkWaits ==
    ASSUME HistoryInv, RowsTimed', UNCHANGED walk, settled \subseteq settled',
           \A q \in settled : created_at'[q] = created_at[q]
    PROVE  HistoryInv'
<1>1. PagesMissNothing'
  BY DEF HistoryInv, PagesMissNothing
<1>2. SeenSoFar'
  <2>1. walk.page = 0 => walk = NoWalk
    BY DEF HistoryInv, SeenSoFar
  <2>2. ASSUME walk.page > 0 PROVE walk.owed \subseteq settled'
    BY <2>2 DEF HistoryInv, SeenSoFar
  <2>3. ASSUME walk.page > 0, NEW r \in walk.owed, Place(r)' < walk.page * PAGE_SIZE
        PROVE  r \in walk.seen
    <3>1. r \in settled /\ (Place(r) < walk.page * PAGE_SIZE => r \in walk.seen)
      BY <2>3 DEF HistoryInv, SeenSoFar
    <3>2. Place(r) <= Place(r)' /\ Place(r) \in Nat
      BY <3>1, PlacesGrow, PlaceBounded DEF HistoryInv, RowsTimed
    <3>3. Place(r)' \in Nat
      <4>1. HistoryTypeOK' /\ r \in settled'
        BY <3>1 DEF RowsTimed
      <4>2. IsFiniteSet(settled') /\ NewerThan(r)' \subseteq settled'
        BY <4>1 DEF HistoryTypeOK, NewerThan
      <4>3. IsFiniteSet(NewerThan(r)')
        BY <4>2, FS_Subset
      <4>. QED BY <4>3, FS_CardinalityType DEF Place
    <3>4. walk.page * PAGE_SIZE \in Nat
      <4>1. walk.page \in Nat /\ PAGE_SIZE \in Nat
        BY HistoryAssumption DEF HistoryInv, RowsTimed, HistoryTypeOK, Walk
      <4>. QED BY <4>1
    <3>. QED BY <2>3, <3>1, <3>2, <3>3, <3>4
  <2>. QED BY <2>1, <2>2, <2>3 DEF SeenSoFar
<1>. QED BY <1>1, <1>2 DEF HistoryInv

LEMMA OpenEntryKeeps ==
    ASSUME HistoryInv, NEW r \in Entries, OpenEntry(r) PROVE HistoryInv'
<1>1. PICK now \in Instants :
         /\ \A q \in Entries : created_at[q] < now
         /\ created_at' = [created_at EXCEPT ![r] = now]
  BY DEF OpenEntry
<1>2. created_at[r] = 0 /\ UNCHANGED <<settled, walk>> /\ HistoryTypeOK /\ RowsTimed
  BY DEF OpenEntry, HistoryInv, RowsTimed
<1>3. now \in Nat /\ now # 0 /\ \A q \in Entries : created_at[q] \in Nat
  BY <1>2, HistoryAssumption, RowInstants
<1>4. /\ created_at' \in [Entries -> Instants \cup {0}]
      /\ created_at'[r] = now /\ \A q \in Entries \ {r} : created_at'[q] = created_at[q]
  BY <1>1, <1>2 DEF HistoryTypeOK
<1>5. HistoryTypeOK'
  BY <1>2, <1>4 DEF HistoryTypeOK
<1>6. settled \subseteq Inserted' /\ r \notin settled
  BY <1>2, <1>3, <1>4 DEF RowsTimed, Inserted
<1>7. ASSUME NEW p \in Inserted', NEW q \in Inserted', created_at'[p] = created_at'[q] PROVE p = q
  BY <1>1, <1>2, <1>3, <1>4, <1>7 DEF RowsTimed, Inserted
<1>8. RowsTimed'
  BY <1>2, <1>5, <1>6, <1>7 DEF RowsTimed
<1>9. \A q \in settled : created_at'[q] = created_at[q]
  BY <1>2, <1>4, <1>6 DEF HistoryTypeOK
<1>. QED BY <1>2, <1>8, <1>9, WalkWaits

LEMMA SettleEntryKeeps ==
    ASSUME HistoryInv, NEW r \in Entries, SettleEntry(r) PROVE HistoryInv'
<1>1. /\ r \in Inserted /\ settled' = settled \cup {r} /\ UNCHANGED <<created_at, walk>>
      /\ RowsTimed /\ HistoryTypeOK
  BY DEF SettleEntry, HistoryInv, RowsTimed
<1>2. IsFiniteSet(settled')
  BY <1>1, FS_AddElement DEF HistoryTypeOK
<1>3. HistoryTypeOK'
  BY <1>1, <1>2 DEF HistoryTypeOK, Inserted
<1>4. Inserted' = Inserted
  BY <1>1 DEF Inserted
<1>5. RowsTimed'
  BY <1>1, <1>3, <1>4 DEF RowsTimed
<1>. QED BY <1>1, <1>5, WalkWaits

LEMMA DropEntryKeeps ==
    ASSUME HistoryInv, NEW r \in Entries, DropEntry(r) PROVE HistoryInv'
<1>1. /\ r \notin settled /\ created_at' = [created_at EXCEPT ![r] = 0]
      /\ UNCHANGED <<settled, walk>> /\ RowsTimed /\ HistoryTypeOK
  BY DEF DropEntry, HistoryInv, RowsTimed
<1>2. /\ created_at' \in [Entries -> Instants \cup {0}]
      /\ created_at'[r] = 0 /\ \A q \in Entries \ {r} : created_at'[q] = created_at[q]
  BY <1>1 DEF HistoryTypeOK
<1>3. HistoryTypeOK'
  BY <1>1, <1>2 DEF HistoryTypeOK
<1>4. Inserted' = Inserted \ {r}
  BY <1>2 DEF Inserted
<1>5. \A q \in settled \cup Inserted' : created_at'[q] = created_at[q]
  BY <1>1, <1>2, <1>4 DEF HistoryTypeOK, Inserted
<1>6. RowsTimed'
  BY <1>1, <1>3, <1>4, <1>5 DEF RowsTimed
<1>. QED BY <1>1, <1>5, <1>6, WalkWaits

\* A page adds the rows at its places, and the last one has them all.
LEMMA ListPageKeeps ==
    ASSUME HistoryInv, ListPage PROVE HistoryInv'
<1>. DEFINE page == walk.page + 1
<1>1. /\ RowsTimed /\ HistoryTypeOK /\ SeenSoFar /\ walk \in Walk
      /\ UNCHANGED <<created_at, settled>>
  BY DEF ListPage, HistoryInv, RowsTimed, HistoryTypeOK
<1>2. walk' = [page  |-> page, seen |-> walk.seen \cup Page(page),
               owed  |-> IF page = 1 THEN settled ELSE walk.owed,
               ended |-> Cardinality(Page(page)) < PAGE_SIZE]
  BY DEF ListPage
<1>3. /\ walk.page \in Nat /\ page \in Nat \ {0} /\ walk.seen \subseteq Entries
      /\ walk.owed \subseteq Entries
  BY <1>1 DEF Walk
<1>4. settled \subseteq Entries /\ Page(page) \subseteq settled
  BY <1>1 DEF HistoryTypeOK, Page
<1>5. walk' \in Walk
  BY <1>2, <1>3, <1>4 DEF Walk
<1>6. RowsTimed'
  <2>1. HistoryTypeOK'
    BY <1>1, <1>5 DEF HistoryTypeOK
  <2>2. Inserted' = Inserted
    BY <1>1 DEF Inserted
  <2>. QED BY <1>1, <2>1, <2>2 DEF RowsTimed
<1>7. \A r \in settled : Place(r)' = Place(r) /\ Place(r) \in Nat
  BY <1>1, PlaceBounded DEF Place, NewerThan
<1>8. walk'.owed \subseteq settled
  BY <1>1, <1>2, <1>3 DEF SeenSoFar
<1>9. ASSUME NEW r \in walk'.owed, Place(r) < page * PAGE_SIZE
      PROVE  r \in walk'.seen
  <2>1. r \in settled
    BY <1>8
  <2>2. CASE (page - 1) * PAGE_SIZE <= Place(r)
    BY <1>2, <1>9, <2>1, <2>2 DEF Page
  <2>3. CASE ~((page - 1) * PAGE_SIZE <= Place(r))
    <3>1. page - 1 = walk.page /\ Place(r) \in Nat /\ PAGE_SIZE \in Nat
      BY <1>3, <1>7, <2>1, HistoryAssumption
    <3>2. Place(r) < walk.page * PAGE_SIZE
      BY <1>3, <2>3, <3>1
    <3>3. walk.page # 0
      BY <3>1, <3>2
    <3>4. r \in walk.seen
      BY <1>1, <1>2, <1>3, <1>9, <3>2, <3>3 DEF SeenSoFar
    <3>. QED BY <1>2, <3>4
  <2>. QED BY <2>2, <2>3
<1>10. SeenSoFar'
  BY <1>1, <1>2, <1>3, <1>7, <1>8, <1>9 DEF SeenSoFar
<1>11. PagesMissNothing'
  <2>1. SUFFICES ASSUME Cardinality(Page(page)) < PAGE_SIZE, NEW r \in walk'.owed
                 PROVE  r \in walk'.seen
    BY <1>2 DEF PagesMissNothing
  <2>2. Place(r) < page * PAGE_SIZE
    BY <1>1, <1>3, <1>8, <2>1, ShortPageIsLast
  <2>. QED BY <1>9, <2>2
<1>. QED BY <1>6, <1>10, <1>11 DEF HistoryInv

LEMMA HistoryStarts == HistoryInit => HistoryInv
<1>1. SUFFICES ASSUME HistoryInit PROVE HistoryInv
  OBVIOUS
<1>2. NoWalk \in Walk
  BY DEF NoWalk, Walk
<1>3. RowsTimed
  BY <1>1, <1>2, FS_EmptySet DEF HistoryInit, RowsTimed, HistoryTypeOK, Inserted
<1>4. SeenSoFar /\ PagesMissNothing
  BY <1>1 DEF HistoryInit, SeenSoFar, PagesMissNothing, NoWalk
<1>. QED BY <1>3, <1>4 DEF HistoryInv

LEMMA HistorySteps == HistoryInv /\ [HistoryNext]_listings => HistoryInv'
<1>1. SUFFICES ASSUME HistoryInv, [HistoryNext]_listings PROVE HistoryInv'
  OBVIOUS
<1>2. ASSUME NEW r \in Entries, OpenEntry(r) \/ SettleEntry(r) \/ DropEntry(r)
      PROVE  HistoryInv'
  BY <1>1, <1>2, OpenEntryKeeps, SettleEntryKeeps, DropEntryKeeps
<1>3. CASE ListPage
  BY <1>1, <1>3, ListPageKeeps
<1>4. CASE BeginWalk
  <2>1. walk' = NoWalk /\ UNCHANGED <<created_at, settled>> /\ NoWalk \in Walk
    BY <1>4 DEF BeginWalk, NoWalk, Walk
  <2>2. RowsTimed'
    BY <1>1, <2>1 DEF HistoryInv, RowsTimed, HistoryTypeOK, Inserted
  <2>3. SeenSoFar' /\ PagesMissNothing'
    BY <2>1 DEF SeenSoFar, PagesMissNothing, NoWalk
  <2>. QED BY <2>2, <2>3 DEF HistoryInv
<1>5. CASE UNCHANGED listings
  <2>1. UNCHANGED <<created_at, settled, walk>>
    BY <1>5 DEF listings
  <2>2. RowsTimed'
    BY <1>1, <2>1 DEF HistoryInv, RowsTimed, HistoryTypeOK, Inserted
  <2>. QED BY <1>1, <2>1, <2>2, WalkWaits
<1>. QED BY <1>1, <1>2, <1>3, <1>4, <1>5 DEF HistoryNext

\* The rows, their order and the walk stay of their type: a row that is
\* committed is in the table.
THEOREM HistoryTypeCorrect == HistorySpec => []HistoryTypeOK
<1>1. HistoryInv => HistoryTypeOK
  BY DEF HistoryInv, RowsTimed
<1>. QED BY <1>1, HistoryStarts, HistorySteps, PTL DEF HistorySpec

\* For any number of rows, of clients' walks and any size of a page, a walk that
\* has come to a page that is not full has seen every row there was when it
\* began, whatever was opened, committed and rolled back on the way.
THEOREM WalksMissNothing == HistorySpec => []PagesMissNothing
<1>1. HistoryInv => PagesMissNothing
  BY DEF HistoryInv
<1>. QED BY <1>1, HistoryStarts, HistorySteps, PTL DEF HistorySpec

-----------------------------------------------------------------------------
(* Induction, stated of a set: numbers, folds and sequences *)

\* A set of naturals with zero and with each successor is all of them.
LEMMA NatSet ==
    ASSUME NEW T \in SUBSET Nat, 0 \in T, \A n \in T : n + 1 \in T
    PROVE  T = Nat
<1>. DEFINE R == OpToRel(<, Nat)
<1>1. SUFFICES ASSUME Nat \ T # {} PROVE FALSE
  OBVIOUS
<1>2. \A x, y \in Nat : y < x => <<y, x>> \in R
  BY Zenon DEF OpToRel
<1>3. IsWellFoundedOn(R, Nat)
  BY NatLessThanWellFounded, Zenon
<1>. HIDE DEF R
<1>4. PICK x \in Nat \ T : \A y \in Nat \ T : ~(<<y, x>> \in R)
  BY <1>1, <1>3, WFMin, Zenon
<1>5. x # 0 /\ x - 1 \in Nat /\ x - 1 < x
  OBVIOUS
<1>6. x - 1 \in T
  BY <1>2, <1>4, <1>5
<1>. QED BY <1>5, <1>6

\* Steps from a base can be folded up to any length.
LEMMA FoldExists ==
    ASSUME NEW S, NEW base \in S, NEW L \in Nat, NEW step \in [1 .. L -> [S -> S]]
    PROVE  \E f \in [0 .. L -> S] :
              f[0] = base /\ \A n \in 1 .. L : f[n] = step[n][f[n - 1]]
<1>. DEFINE Upto(n) == \E f \in [0 .. n -> S] :
                          f[0] = base /\ \A k \in 1 .. n : f[k] = step[k][f[k - 1]]
            T == {n \in Nat : n <= L => Upto(n)}
<1>1. Upto(0)
  <2>1. [i \in 0 .. 0 |-> base] \in [0 .. 0 -> S] /\ [i \in 0 .. 0 |-> base][0] = base
    OBVIOUS
  <2>2. 1 .. 0 = {}
    OBVIOUS
  <2>. QED BY <2>1, <2>2
<1>2. ASSUME NEW n \in T PROVE n + 1 \in T
  <2>1. SUFFICES ASSUME n + 1 <= L PROVE Upto(n + 1)
    OBVIOUS
  <2>2. n \in Nat /\ n <= L /\ n + 1 \in 1 .. L
    BY <2>1
  <2>3. PICK f \in [0 .. n -> S] : f[0] = base /\ \A k \in 1 .. n : f[k] = step[k][f[k - 1]]
    BY <2>2
  <2>. DEFINE g == [i \in 0 .. n + 1 |-> IF i = n + 1 THEN step[n + 1][f[n]] ELSE f[i]]
  <2>4. step[n + 1][f[n]] \in S
    BY <2>2
  <2>5. g \in [0 .. n + 1 -> S] /\ g[n + 1] = step[n + 1][f[n]] /\ \A i \in 0 .. n : g[i] = f[i]
    BY <2>2, <2>4
  <2>. HIDE DEF g
  <2>6. ASSUME NEW k \in 1 .. n + 1 PROVE g[k] = step[k][g[k - 1]]
    <3>1. CASE k = n + 1
      <4>1. k - 1 = n /\ n \in 0 .. n
        BY <2>2, <3>1
      <4>. QED BY <2>5, <3>1, <4>1
    <3>2. CASE k # n + 1
      <4>1. k \in 1 .. n /\ k \in 0 .. n /\ k - 1 \in 0 .. n
        BY <2>2, <3>2
      <4>. QED BY <2>3, <2>5, <4>1
    <3>. QED BY <3>1, <3>2
  <2>7. g[0] = base
    BY <2>2, <2>3, <2>5
  <2>. QED BY <2>5, <2>6, <2>7
<1>3. T \in SUBSET Nat /\ 0 \in T
  BY <1>1
<1>. HIDE DEF T
<1>4. T = Nat
  BY <1>2, <1>3, NatSet
<1>5. L \in T
  BY <1>4
<1>. QED BY <1>5 DEF T

\* The function f is that fold.
IsFold(f, S, base, L, step) ==
    /\ f \in [0 .. L -> S] /\ f[0] = base
    /\ \A n \in 1 .. L : f[n] = step[n][f[n - 1]]

\* That fold, by its name.
LEMMA FoldIs ==
    ASSUME NEW S, NEW base \in S, NEW L \in Nat, NEW step \in [1 .. L -> [S -> S]]
    PROVE  \E f : IsFold(f, S, base, L, step)
<1>1. PICK f \in [0 .. L -> S] : f[0] = base /\ \A n \in 1 .. L : f[n] = step[n][f[n - 1]]
  BY FoldExists, SMT
<1>. QED BY <1>1 DEF IsFold

\* What is built element by element stays of its type.
LEMMA FoldTyped ==
    ASSUME NEW S, NEW L \in Nat, NEW w, DOMAIN w = 0 .. L, w = [n \in 0 .. L |-> w[n]],
           w[0] \in S, \A n \in 1 .. L : w[n - 1] \in S => w[n] \in S
    PROVE  w \in [0 .. L -> S]
<1>. DEFINE T == {n \in Nat : n <= L => w[n] \in S}
<1>1. 0 \in T /\ T \in SUBSET Nat
  OBVIOUS
<1>2. ASSUME NEW n \in T PROVE n + 1 \in T
  <2>1. CASE n + 1 <= L
    <3>1. n + 1 \in 1 .. L /\ (n + 1) - 1 = n /\ w[n] \in S
      BY <2>1
    <3>. QED BY <3>1
  <2>. QED BY <2>1
<1>. HIDE DEF T
<1>3. T = Nat
  BY <1>1, <1>2, NatSet
<1>4. \A n \in 0 .. L : w[n] \in S
  BY <1>3 DEF T
<1>. QED BY <1>4

\* Two folds that start alike and step alike end alike.
LEMMA FoldsAgree ==
    ASSUME NEW L \in Nat, NEW v, NEW w, v[0] = w[0],
           \A n \in 1 .. L : v[n - 1] = w[n - 1] => v[n] = w[n]
    PROVE  v[L] = w[L]
<1>. DEFINE T == {n \in Nat : n <= L => v[n] = w[n]}
<1>1. 0 \in T /\ T \in SUBSET Nat
  OBVIOUS
<1>2. ASSUME NEW n \in T PROVE n + 1 \in T
  <2>1. CASE n + 1 <= L
    <3>1. n + 1 \in 1 .. L /\ (n + 1) - 1 = n /\ v[n] = w[n]
      BY <2>1
    <3>. QED BY <3>1
  <2>. QED BY <2>1
<1>. HIDE DEF T
<1>3. L \in T
  BY <1>1, <1>2, NatSet
<1>. QED BY <1>3 DEF T

\* What holds of the empty sequence and goes on holding when an element is
\* appended holds of every sequence.
LEMMA SequenceSet ==
    ASSUME NEW S, NEW T \in SUBSET Seq(S), <<>> \in T,
           \A t \in T : \A c \in S : Append(t, c) \in T
    PROVE  T = Seq(S)
<1>. DEFINE N == {n \in Nat : \A t \in Seq(S) : Len(t) = n => t \in T}
<1>1. 0 \in N /\ N \in SUBSET Nat
  <2>1. \A t \in Seq(S) : Len(t) = 0 => t = <<>>
    OBVIOUS
  <2>. QED BY <2>1
<1>2. ASSUME NEW n \in N PROVE n + 1 \in N
  <2>1. ASSUME NEW t \in Seq(S), Len(t) = n + 1 PROVE t \in T
    <3>1. t # <<>>
      BY <2>1
    <3>2. PICK s \in Seq(S), c \in S : t = Append(s, c)
      BY <3>1, SequenceEmptyOrAppend
    <3>3. Len(s) = n
      BY <2>1, <3>2, AppendProperties
    <3>. QED BY <3>2, <3>3
  <2>. QED BY <2>1
<1>. HIDE DEF N
<1>3. N = Nat
  BY <1>1, <1>2, NatSet
<1>4. ASSUME NEW t \in Seq(S) PROVE t \in T
  <2>1. Len(t) \in N
    BY <1>3
  <2>. QED BY <2>1 DEF N
<1>. QED BY <1>4

\* A set of naturals has a least element.
LEMMA Smallest ==
    ASSUME NEW I \in SUBSET Nat, I # {}
    PROVE  \E i \in I : \A j \in I : i <= j
<1>. DEFINE T == {n \in Nat : \A j \in I : n <= j}
<1>1. SUFFICES ASSUME ~ \E i \in I : \A j \in I : i <= j PROVE FALSE
  OBVIOUS
<1>2. 0 \in T /\ T \in SUBSET Nat
  OBVIOUS
<1>3. ASSUME NEW n \in T PROVE n + 1 \in T
  <2>1. n \notin I
    BY <1>1
  <2>. QED BY <2>1
<1>. HIDE DEF T
<1>4. T = Nat
  BY <1>2, <1>3, NatSet
<1>5. PICK j \in I : TRUE
  OBVIOUS
<1>6. j + 1 \in T
  BY <1>4
<1>. QED BY <1>6 DEF T

\* A bounded one has a greatest.
LEMMA Largest ==
    ASSUME NEW L \in Nat, NEW I \in SUBSET (0 .. L), I # {}
    PROVE  \E i \in I : \A j \in I : j <= i
<1>. DEFINE J == {L - i : i \in I}
<1>1. J \in SUBSET Nat /\ J # {}
  <2>1. \A i \in I : L - i \in Nat
    OBVIOUS
  <2>. QED BY <2>1
<1>2. PICK k \in J : \A j \in J : k <= j
  BY <1>1, Smallest
<1>3. PICK i \in I : k = L - i
  OBVIOUS
<1>4. \A j \in I : L - j \in J
  OBVIOUS
<1>5. \A j \in I : j <= i
  BY <1>2, <1>3, <1>4
<1>. QED BY <1>5

\* Appending to the second of two sequences appends to both.
LEMMA AppendJoins ==
    ASSUME NEW S, NEW x \in Seq(S), NEW y \in Seq(S), NEW e \in S
    PROVE  x \o Append(y, e) = Append(x \o y, e)
<1>1. x \o y \in Seq(S) /\ <<e>> \in Seq(S)
  BY ConcatProperties
<1>2. Append(y, e) = y \o <<e>>
  BY AppendIsConcat
<1>3. Append(x \o y, e) = (x \o y) \o <<e>>
  BY <1>1, AppendIsConcat
<1>4. (x \o y) \o <<e>> = x \o (y \o <<e>>)
  BY <1>1, ConcatAssociative
<1>. QED BY <1>2, <1>3, <1>4

-----------------------------------------------------------------------------
(* The deny list: spans in order *)

Pairs == Nat \X Nat

\* How many spans come before s.
Rank(spans, s) == Cardinality({t \in spans : Before(t, s)})

\* The spans are ranked from zero, one at each rank.
LEMMA Ranks ==
    ASSUME NEW S \in SUBSET Pairs, IsFiniteSet(S)
    PROVE  /\ \A s \in S : Rank(S, s) \in 0 .. Cardinality(S) - 1
           /\ \A s, t \in S : Before(s, t) => Rank(S, s) < Rank(S, t)
           /\ \A s, t \in S : Rank(S, s) = Rank(S, t) => s = t
           /\ \A r \in 0 .. Cardinality(S) - 1 : \E s \in S : Rank(S, s) = r
<1>. DEFINE Below(s) == {t \in S : Before(t, s)}
<1>1. /\ \A s \in S : ~Before(s, s)
      /\ \A s, t, u \in S : Before(s, t) /\ Before(t, u) => Before(s, u)
      /\ \A s, t \in S : Before(s, t) \/ Before(t, s) \/ s = t
  <2>1. \A s \in S : s[1] \in Nat /\ s[2] \in Nat /\ s = <<s[1], s[2]>>
    BY DEF Pairs
  <2>. QED BY <2>1 DEF Before
<1>2. Cardinality(S) \in Nat
  BY FS_CardinalityType
<1>3. ASSUME NEW s \in S PROVE Cardinality(Below(s)) \in 0 .. Cardinality(S) - 1
  <2>1. Below(s) \in SUBSET S /\ Below(s) # S
    BY <1>1
  <2>. HIDE DEF Below
  <2>2. IsFiniteSet(Below(s)) /\ Cardinality(Below(s)) <= Cardinality(S)
        /\ Cardinality(Below(s)) # Cardinality(S)
    BY <2>1, FS_Subset
  <2>3. Cardinality(Below(s)) \in Nat
    BY <2>2, FS_CardinalityType
  <2>. QED BY <1>2, <2>2, <2>3
<1>4. ASSUME NEW s \in S, NEW t \in S, Before(s, t)
      PROVE  Cardinality(Below(s)) < Cardinality(Below(t))
  <2>1. Below(t) \in SUBSET S /\ Below(s) \in SUBSET Below(t) /\ Below(s) # Below(t)
    BY <1>1, <1>4
  <2>. HIDE DEF Below
  <2>2. IsFiniteSet(Below(t))
    BY <2>1, FS_Subset
  <2>3. Cardinality(Below(s)) <= Cardinality(Below(t))
        /\ Cardinality(Below(s)) # Cardinality(Below(t))
    BY <2>1, <2>2, FS_Subset
  <2>. QED BY <1>2, <1>3, <2>3
<1>5. \A s \in S : Rank(S, s) = Cardinality(Below(s))
  BY DEF Rank
<1>. HIDE DEF Below
<1>6. \A s \in S : Rank(S, s) \in 0 .. Cardinality(S) - 1
  BY <1>3, <1>5
<1>7. \A s, t \in S : Before(s, t) => Rank(S, s) < Rank(S, t)
  BY <1>4, <1>5
<1>8. \A s, t \in S : Rank(S, s) = Rank(S, t) => s = t
  BY <1>1, <1>2, <1>6, <1>7
<1>. DEFINE R == 0 .. Cardinality(S) - 1
            f == [s \in S |-> Rank(S, s)]
<1>9. f \in Injection(S, R)
  <2>1. f \in [S -> R] /\ \A s \in S : f[s] = Rank(S, s)
    BY <1>6
  <2>. HIDE DEF f, R
  <2>2. \A s, t \in S : f[s] = f[t] => s = t
    BY <1>8, <2>1
  <2>. QED BY <2>1, <2>2 DEF Injection, IsInjective
<1>10. IsFiniteSet(R) /\ Cardinality(R) = Cardinality(S)
  <2>1. PICK n \in Nat : n = Cardinality(S)
    BY <1>2
  <2>2. IsFiniteSet(0 .. n - 1) /\ Cardinality(0 .. n - 1) = IF 0 > n - 1 THEN 0 ELSE n - 1 - 0 + 1
    BY FS_Interval
  <2>3. Cardinality(0 .. n - 1) = n
    BY <2>2
  <2>. QED BY <2>1, <2>2, <2>3
<1>11. f \in Surjection(S, R)
  <2>. HIDE DEF f, R
  <2>. QED BY <1>9, <1>10, FS_Injection
<1>12. \A r \in R : \E s \in S : f[s] = r
  <2>. HIDE DEF f, R
  <2>. QED BY <1>11 DEF Surjection
<1>. QED BY <1>6, <1>7, <1>8, <1>12

\* Sorted lists every span, once, those that start earlier first.
LEMMA SortedLists ==
    ASSUME NEW S \in SUBSET Pairs, IsFiniteSet(S)
    PROVE  /\ Sorted(S) \in Seq(S) /\ Len(Sorted(S)) = Cardinality(S)
           /\ \A s \in S : \E n \in 1 .. Len(Sorted(S)) : Sorted(S)[n] = s
           /\ \A n \in 1 .. Len(Sorted(S)), m \in 1 .. Len(Sorted(S)) :
                 m < n => Sorted(S)[m][1] <= Sorted(S)[n][1]
<1>1. PICK L \in Nat : L = Cardinality(S)
  BY FS_CardinalityType
<1>. DEFINE q == Sorted(S)
<1>2. q = [n \in 1 .. L |-> CHOOSE s \in S : Rank(S, s) = n - 1]
  BY <1>1 DEF Sorted, Rank
<1>3. ASSUME NEW n \in 1 .. L PROVE q[n] \in S /\ Rank(S, q[n]) = n - 1
  <2>1. n - 1 \in 0 .. L - 1
    OBVIOUS
  <2>2. \E s \in S : Rank(S, s) = n - 1
    BY <1>1, <2>1, Ranks
  <2>. HIDE DEF q
  <2>. QED BY <1>2, <2>2
<1>. HIDE DEF q
<1>4. q \in Seq(S) /\ Len(q) = L
  <2>1. q \in [1 .. L -> S]
    BY <1>2, <1>3
  <2>. QED BY <2>1
<1>5. ASSUME NEW s \in S PROVE \E n \in 1 .. L : q[n] = s
  <2>1. Rank(S, s) \in 0 .. L - 1
    BY <1>1, Ranks
  <2>2. PICK n \in 1 .. L : n = Rank(S, s) + 1
    BY <2>1
  <2>3. q[n] \in S /\ Rank(S, q[n]) = Rank(S, s)
    BY <1>3, <2>1, <2>2
  <2>4. q[n] = s
    BY <2>3, Ranks
  <2>. QED BY <2>4
<1>6. ASSUME NEW n \in 1 .. L, NEW m \in 1 .. L, m < n PROVE q[m][1] <= q[n][1]
  <2>1. q[m] \in S /\ q[n] \in S /\ ~(Rank(S, q[n]) < Rank(S, q[m]))
    BY <1>3, <1>6
  <2>2. ~Before(q[n], q[m])
    BY <2>1, Ranks
  <2>3. q[m][1] \in Nat /\ q[n][1] \in Nat
    BY <2>1 DEF Pairs
  <2>. QED BY <2>2, <2>3 DEF Before
<1>. QED BY <1>1, <1>4, <1>5, <1>6 DEF q

-----------------------------------------------------------------------------
(* The deny list: hits, and the merge loop *)

\* Every term has a letter.
LEMMA TermsNonempty ==
    \A k \in DOMAIN Terms : Terms[k] \in Seq(Letters) /\ Len(Terms[k]) \in Nat \ {0}
<1>. SUFFICES ASSUME NEW k \in DOMAIN Terms
              PROVE  Terms[k] \in Seq(Letters) /\ Len(Terms[k]) \in Nat \ {0}
  OBVIOUS
<1>1. Terms[k] \in Seq(Letters) /\ Terms[k] # <<>>
  BY GuardrailAssumption, SMT
<1>. QED BY <1>1

\* A hit is where a term occurs, inside the text.
LEMMA HitsAre ==
    ASSUME NEW S, NEW text \in Seq(S)
    PROVE  /\ \A h \in Hits(text) : \E k \in DOMAIN Terms : \E i \in DOMAIN text :
                 /\ Occurs(Terms[k], text, i)
                 /\ h = <<i, i + Len(Terms[k]) - 1>>
                 /\ i <= i + Len(Terms[k]) - 1 /\ i + Len(Terms[k]) - 1 \in DOMAIN text
           /\ \A k \in DOMAIN Terms : \A i \in DOMAIN text :
                 Occurs(Terms[k], text, i) => <<i, i + Len(Terms[k]) - 1>> \in Hits(text)
<1>. DEFINE HitsOf(k) == {<<i, i + Len(Terms[k]) - 1>> : i \in {j \in DOMAIN text : Occurs(Terms[k], text, j)}}
<1>1. Hits(text) = UNION {HitsOf(k) : k \in DOMAIN Terms}
  BY DEF Hits
<1>2. ASSUME NEW h \in Hits(text)
      PROVE  \E k \in DOMAIN Terms : \E i \in DOMAIN text :
                 /\ Occurs(Terms[k], text, i)
                 /\ h = <<i, i + Len(Terms[k]) - 1>>
                 /\ i <= i + Len(Terms[k]) - 1 /\ i + Len(Terms[k]) - 1 \in DOMAIN text
  <2>1. PICK k \in DOMAIN Terms : h \in HitsOf(k)
    BY <1>1
  <2>2. PICK i \in DOMAIN text : Occurs(Terms[k], text, i) /\ h = <<i, i + Len(Terms[k]) - 1>>
    BY <2>1
  <2>3. PICK n \in Nat \ {0} : n = Len(Terms[k])
    BY TermsNonempty
  <2>4. i + n - 1 <= Len(text)
    BY <2>2, <2>3 DEF Occurs
  <2>5. i \in 1 .. Len(text) /\ i <= i + n - 1 /\ i + n - 1 \in DOMAIN text
    BY <2>4
  <2>. QED BY <2>2, <2>3, <2>5
<1>3. ASSUME NEW k \in DOMAIN Terms, NEW i \in DOMAIN text, Occurs(Terms[k], text, i)
      PROVE  <<i, i + Len(Terms[k]) - 1>> \in Hits(text)
  <2>1. <<i, i + Len(Terms[k]) - 1>> \in HitsOf(k)
    BY <1>3
  <2>. HIDE DEF HitsOf
  <2>. QED BY <1>1, <2>1
<1>. QED BY <1>2, <1>3

\* The hits are finitely many spans inside the text.
LEMMA HitsFinite ==
    ASSUME NEW S, NEW text \in Seq(S)
    PROVE  /\ Hits(text) \in SUBSET Pairs /\ IsFiniteSet(Hits(text))
           /\ \A h \in Hits(text) : h[1] <= h[2] /\ h[1] \in 1 .. Len(text) /\ h[2] \in 1 .. Len(text)
<1>1. \A h \in Hits(text) : /\ h = <<h[1], h[2]>> /\ h[1] <= h[2]
                            /\ h[1] \in 1 .. Len(text) /\ h[2] \in 1 .. Len(text)
  <2>1. SUFFICES ASSUME NEW h \in Hits(text)
                 PROVE  /\ h = <<h[1], h[2]>> /\ h[1] <= h[2]
                        /\ h[1] \in 1 .. Len(text) /\ h[2] \in 1 .. Len(text)
    OBVIOUS
  <2>2. PICK k \in DOMAIN Terms, i \in DOMAIN text :
           /\ h = <<i, i + Len(Terms[k]) - 1>>
           /\ i <= i + Len(Terms[k]) - 1 /\ i + Len(Terms[k]) - 1 \in DOMAIN text
    BY HitsAre
  <2>. QED BY <2>2
<1>. DEFINE P == 1 .. Len(text)
<1>2. Hits(text) \in SUBSET (P \X P)
  BY <1>1
<1>3. IsFiniteSet(P \X P)
  <2>1. IsFiniteSet(P)
    BY FS_Interval
  <2>. HIDE DEF P
  <2>. QED BY <2>1, FS_Product
<1>4. IsFiniteSet(Hits(text))
  BY <1>2, <1>3, FS_Subset
<1>5. Hits(text) \in SUBSET Pairs
  BY <1>2 DEF Pairs
<1>. QED BY <1>1, <1>4, <1>5

\* The letters covered are letters of the text.
LEMMA CoveredInside ==
    ASSUME NEW S, NEW text \in Seq(S)
    PROVE  Covered(text) \in SUBSET (1 .. Len(text))
<1>1. \A h \in Hits(text) : h[1] .. h[2] \in SUBSET (1 .. Len(text))
  BY HitsFinite
<1>. QED BY <1>1 DEF Covered

\* The places the first n spans of a sequence cover.
Over(spans, n) == {p \in Nat : \E k \in 1 .. n : p \in spans[k][1] .. spans[k][2]}

\* Spans in order, a letter apart at least.
Spaced(merged) ==
    /\ \A k \in 1 .. Len(merged) : merged[k][1] \in Nat \ {0} /\ merged[k][1] <= merged[k][2]
    /\ \A k \in 1 .. Len(merged) - 1 : merged[k][2] + 1 < merged[k + 1][1]

\* What merging a span that starts no earlier than the last one does.
LEMMA MergeSpan ==
    ASSUME NEW merged \in Seq(Pairs), NEW span \in Pairs, Spaced(merged),
           span[1] # 0, span[1] <= span[2],
           merged # <<>> => merged[Len(merged)][1] <= span[1]
    PROVE  LET m == Merge(merged, span) IN
           /\ m \in Seq(Pairs) /\ Spaced(m) /\ m # <<>>
           /\ m[Len(m)][1] <= span[1]
           /\ Over(m, Len(m)) = Over(merged, Len(merged)) \cup (span[1] .. span[2])
<1>. DEFINE m == Merge(merged, span)
<1>1. span[1] \in Nat /\ span[2] \in Nat /\ Len(merged) \in Nat
  BY DEF Pairs
<1>2. \A k \in 1 .. Len(merged) : merged[k] \in Pairs /\ merged[k][1] \in Nat /\ merged[k][2] \in Nat
  BY DEF Pairs
<1>3. CASE merged # <<>> /\ span[1] <= merged[Len(merged)][2] + 1
  <2>1. PICK L \in Nat \ {0} : L = Len(merged)
    BY <1>1, <1>3
  <2>2. PICK last : last = merged[L]
    OBVIOUS
  <2>3. /\ last[1] \in Nat \ {0} /\ last[2] \in Nat /\ last[1] <= last[2]
        /\ last[1] <= span[1] /\ span[1] <= last[2] + 1
    BY <1>2, <1>3, <2>1, <2>2 DEF Spaced
  <2>4. PICK wider : wider = <<last[1], IF span[2] > last[2] THEN span[2] ELSE last[2]>>
    OBVIOUS
  <2>5. /\ wider \in Pairs /\ wider[1] = last[1] /\ wider[1] <= wider[2]
        /\ wider[2] = IF span[2] > last[2] THEN span[2] ELSE last[2]
    BY <1>1, <2>3, <2>4 DEF Pairs
  <2>6. m = [merged EXCEPT ![L] = wider]
    BY <1>3, <2>1, <2>2, <2>4 DEF Merge
  <2>7. /\ m \in Seq(Pairs) /\ Len(m) = L
        /\ \A k \in 1 .. L : m[k] = IF k = L THEN wider ELSE merged[k]
    BY <2>1, <2>5, <2>6
  <2>. HIDE DEF m
  <2>8. Spaced(m)
    <3>1. ASSUME NEW k \in 1 .. L PROVE m[k][1] \in Nat \ {0} /\ m[k][1] <= m[k][2]
      BY <2>1, <2>3, <2>5, <2>7 DEF Spaced
    <3>2. ASSUME NEW k \in 1 .. L - 1 PROVE m[k][2] + 1 < m[k + 1][1]
      <4>1. k \in 1 .. L /\ k # L /\ k + 1 \in 1 .. L /\ merged[k][2] + 1 < merged[k + 1][1]
        BY <2>1 DEF Spaced
      <4>2. m[k] = merged[k] /\ m[k + 1][1] = merged[k + 1][1]
        BY <2>2, <2>5, <2>7, <4>1
      <4>. QED BY <4>1, <4>2
    <3>. QED BY <2>7, <3>1, <3>2 DEF Spaced
  <2>9. ASSUME NEW p \in Nat
        PROVE  p \in Over(m, L) <=> p \in Over(merged, L) \/ p \in span[1] .. span[2]
    <3>1. p \in m[L][1] .. m[L][2] <=> p \in last[1] .. last[2] \/ p \in span[1] .. span[2]
      BY <1>1, <2>3, <2>5, <2>7
    <3>2. \A k \in 1 .. L : k # L => m[k] = merged[k]
      BY <2>7
    <3>. QED BY <2>2, <3>1, <3>2 DEF Over
  <2>10. Over(m, L) = Over(merged, L) \cup (span[1] .. span[2])
    <3>1. Over(m, L) \in SUBSET Nat /\ Over(merged, L) \in SUBSET Nat
      BY DEF Over
    <3>2. span[1] .. span[2] \in SUBSET Nat
      BY <1>1
    <3>. QED BY <2>9, <3>1, <3>2
  <2>11. m # <<>> /\ m[Len(m)][1] <= span[1]
    <3>1. L \in 1 .. L
      OBVIOUS
    <3>. QED BY <2>3, <2>5, <2>7, <3>1
  <2>. QED BY <2>1, <2>7, <2>8, <2>10, <2>11 DEF m
<1>4. CASE ~(merged # <<>> /\ span[1] <= merged[Len(merged)][2] + 1)
  <2>1. PICK L \in Nat : L = Len(merged)
    BY <1>1
  <2>2. m = Append(merged, span)
    BY <1>4 DEF Merge
  <2>3. /\ m \in Seq(Pairs) /\ Len(m) = L + 1 /\ m[L + 1] = span
        /\ \A k \in 1 .. L : m[k] = merged[k]
    BY <2>1, <2>2
  <2>. HIDE DEF m
  <2>4. L # 0 => merged[L][2] + 1 < span[1]
    <3>1. L # 0 => L \in 1 .. Len(merged) /\ merged # <<>>
      BY <2>1
    <3>. QED BY <1>1, <1>2, <1>4, <2>1, <3>1
  <2>5. Spaced(m)
    <3>1. ASSUME NEW k \in 1 .. L + 1 PROVE m[k][1] \in Nat \ {0} /\ m[k][1] <= m[k][2]
      <4>1. CASE k = L + 1
        BY <1>1, <2>3, <4>1
      <4>2. CASE k # L + 1
        <5>1. k \in 1 .. L
          BY <4>2
        <5>. QED BY <2>1, <2>3, <5>1 DEF Spaced
      <4>. QED BY <4>1, <4>2
    <3>2. ASSUME NEW k \in 1 .. L PROVE m[k][2] + 1 < m[k + 1][1]
      <4>1. CASE k = L
        BY <2>3, <2>4, <4>1
      <4>2. CASE k # L
        <5>1. k \in 1 .. L - 1 /\ k + 1 \in 1 .. L
          BY <4>2
        <5>. QED BY <2>1, <2>3, <5>1 DEF Spaced
      <4>. QED BY <4>1, <4>2
    <3>. QED BY <2>3, <3>1, <3>2 DEF Spaced
  <2>6. ASSUME NEW p \in Nat
        PROVE  p \in Over(m, L + 1) <=> p \in Over(merged, L) \/ p \in span[1] .. span[2]
    <3>1. \A k \in 1 .. L + 1 : k \in 1 .. L \/ k = L + 1
      OBVIOUS
    <3>2. \A k \in 1 .. L : k \in 1 .. L + 1
      OBVIOUS
    <3>3. L + 1 \in 1 .. L + 1
      OBVIOUS
    <3>. QED BY <2>3, <3>1, <3>2, <3>3 DEF Over
  <2>7. Over(m, L + 1) = Over(merged, L) \cup (span[1] .. span[2])
    <3>1. Over(m, L + 1) \in SUBSET Nat /\ Over(merged, L) \in SUBSET Nat
      BY DEF Over
    <3>2. span[1] .. span[2] \in SUBSET Nat
      BY <1>1
    <3>. QED BY <2>6, <3>1, <3>2
  <2>8. m # <<>> /\ m[Len(m)][1] <= span[1]
    BY <1>1, <2>3
  <2>. QED BY <2>1, <2>3, <2>5, <2>7, <2>8 DEF m
<1>. QED BY <1>3, <1>4

\* Merging leaves a sequence of spans.
LEMMA MergeType ==
    ASSUME NEW merged \in Seq(Pairs), NEW span \in Pairs
    PROVE  Merge(merged, span) \in Seq(Pairs)
<1>1. CASE merged # <<>> /\ span[1] <= merged[Len(merged)][2] + 1
  <2>1. PICK L \in 1 .. Len(merged) : L = Len(merged)
    BY <1>1
  <2>2. <<merged[L][1], IF span[2] > merged[L][2] THEN span[2] ELSE merged[L][2]>> \in Pairs
    <3>1. merged[L] \in Pairs
      BY <2>1
    <3>. QED BY <3>1 DEF Pairs
  <2>. QED BY <1>1, <2>1, <2>2 DEF Merge
<1>2. CASE ~(merged # <<>> /\ span[1] <= merged[Len(merged)][2] + 1)
  BY <1>2 DEF Merge
<1>. QED BY <1>1, <1>2

\* MergedSpans is the fold its definition says.
LEMMA MergedFold ==
    ASSUME NEW S, NEW text \in Seq(S), NEW spans, spans = Sorted(Hits(text))
    PROVE  \E w \in [0 .. Len(spans) -> Seq(Pairs)] :
              /\ w[0] = <<>>
              /\ \A n \in 1 .. Len(spans) : w[n] = Merge(w[n - 1], spans[n])
              /\ MergedSpans(text) = w[Len(spans)]
<1>1. spans \in Seq(Pairs)
  <2>1. spans \in Seq(Hits(text)) /\ Hits(text) \in SUBSET Pairs
    BY HitsFinite, SortedLists
  <2>. QED BY <2>1
<1>2. PICK L \in Nat : L = Len(spans)
  BY <1>1
<1>3. \A n \in 1 .. L : spans[n] \in Pairs
  BY <1>1, <1>2
<1>. DEFINE Def(f) == [n \in 0 .. L |-> IF n = 0 THEN <<>> ELSE Merge(f[n - 1], spans[n])]
<1>4. \E f : f = Def(f)
  <2>. DEFINE step == [n \in 1 .. L |-> [w \in Seq(Pairs) |-> Merge(w, spans[n])]]
  <2>1. step \in [1 .. L -> [Seq(Pairs) -> Seq(Pairs)]]
    BY <1>3, MergeType
  <2>2. \A n \in 1 .. L, w \in Seq(Pairs) : step[n][w] = Merge(w, spans[n])
    OBVIOUS
  <2>. HIDE DEF step
  <2>3. PICK f \in [0 .. L -> Seq(Pairs)] :
           f[0] = <<>> /\ \A n \in 1 .. L : f[n] = step[n][f[n - 1]]
    <3>1. PICK T, e : T = Seq(Pairs) /\ e = <<>>
      OBVIOUS
    <3>2. e \in T /\ step \in [1 .. L -> [T -> T]]
      BY <2>1, <3>1
    <3>3. \E f \in [0 .. L -> T] : f[0] = e /\ \A n \in 1 .. L : f[n] = step[n][f[n - 1]]
      BY <3>2, FoldExists, SMT
    <3>. QED BY <3>1, <3>3
  <2>4. ASSUME NEW n \in 1 .. L PROVE f[n] = Merge(f[n - 1], spans[n])
    <3>1. n - 1 \in 0 .. L
      OBVIOUS
    <3>. QED BY <2>2, <2>3, <3>1
  <2>5. \A n \in 0 .. L : f[n] = IF n = 0 THEN <<>> ELSE Merge(f[n - 1], spans[n])
    BY <2>3, <2>4
  <2>6. f = [n \in 0 .. L |-> f[n]]
    BY <2>3
  <2>7. f = Def(f)
    BY <2>5, <2>6, Zenon
  <2>. QED BY <2>7
<1>. DEFINE w == CHOOSE g : g = Def(g)
<1>5. w = Def(w)
  BY <1>4
<1>6. MergedSpans(text) = w[L]
  BY <1>2 DEF MergedSpans
<1>. HIDE DEF w
<1>7. w[0] = <<>> /\ \A n \in 1 .. L : w[n] = Merge(w[n - 1], spans[n])
  BY <1>5
<1>8. DOMAIN w = 0 .. L /\ w = [n \in 0 .. L |-> w[n]]
  BY <1>5
<1>. HIDE DEF Def
<1>9. \A n \in 1 .. L : w[n - 1] \in Seq(Pairs) => w[n] \in Seq(Pairs)
  BY <1>3, <1>7, MergeType
<1>10. w[0] \in Seq(Pairs)
  BY <1>7
<1>11. w \in [0 .. L -> Seq(Pairs)]
  BY <1>8, <1>9, <1>10, FoldTyped
<1>. QED BY <1>2, <1>6, <1>7, <1>11

\* What the merge loop has after n spans.
MergedTo(merged, spans, n) ==
    /\ merged \in Seq(Pairs) /\ Spaced(merged)
    /\ Over(merged, Len(merged)) = Over(spans, n)
    /\ n = 0 => merged = <<>>
    /\ n # 0 => merged # <<>> /\ merged[Len(merged)][1] <= spans[n][1]

\* The merged spans are in order, apart, and cover what the hits cover.
LEMMA MergedSpansCover ==
    ASSUME NEW S, NEW text \in Seq(S)
    PROVE  LET merged == MergedSpans(text) IN
           /\ merged \in Seq(Pairs) /\ Spaced(merged)
           /\ Over(merged, Len(merged)) = Covered(text)
<1>1. PICK spans : spans = Sorted(Hits(text))
  OBVIOUS
<1>2. /\ spans \in Seq(Hits(text))
      /\ \A s \in Hits(text) : \E n \in 1 .. Len(spans) : spans[n] = s
      /\ \A n \in 1 .. Len(spans), m \in 1 .. Len(spans) : m < n => spans[m][1] <= spans[n][1]
  BY <1>1, HitsFinite, SortedLists
<1>3. PICK L \in Nat : L = Len(spans)
  BY <1>2
<1>4. \A n \in 1 .. L : /\ spans[n] \in Hits(text) /\ spans[n] \in Pairs
                        /\ spans[n][1] \in Nat \ {0} /\ spans[n][2] \in Nat
                        /\ spans[n][1] <= spans[n][2]
  BY <1>2, <1>3, HitsFinite
<1>5. PICK w \in [0 .. L -> Seq(Pairs)] :
         /\ w[0] = <<>>
         /\ \A n \in 1 .. L : w[n] = Merge(w[n - 1], spans[n])
         /\ MergedSpans(text) = w[L]
  BY <1>1, <1>3, MergedFold
<1>. DEFINE T == {n \in Nat : n <= L => MergedTo(w[n], spans, n)}
<1>6. 0 \in T /\ T \in SUBSET Nat
  <2>1. Over(spans, 0) = {} /\ Over(<<>>, 0) = {}
    BY DEF Over
  <2>2. <<>> \in Seq(Pairs) /\ Len(<<>>) = 0
    OBVIOUS
  <2>3. Spaced(<<>>)
    BY DEF Spaced
  <2>. QED BY <1>5, <2>1, <2>2, <2>3 DEF MergedTo
<1>7. ASSUME NEW n \in T PROVE n + 1 \in T
  <2>1. SUFFICES ASSUME n + 1 <= L PROVE MergedTo(w[n + 1], spans, n + 1)
    OBVIOUS
  <2>2. n \in Nat /\ n + 1 \in 1 .. L /\ n \in 0 .. L /\ (n + 1) - 1 = n
    BY <2>1
  <2>3. MergedTo(w[n], spans, n)
    BY <2>1, <2>2
  <2>4. PICK span \in Pairs : span = spans[n + 1]
    BY <1>4, <2>2
  <2>5. span[1] \in Nat \ {0} /\ span[2] \in Nat /\ span[1] <= span[2]
    BY <1>4, <2>2, <2>4
  <2>6. PICK merged \in Seq(Pairs) : merged = w[n]
    BY <1>5, <2>2
  <2>7. merged # <<>> => merged[Len(merged)][1] <= span[1]
    <3>1. SUFFICES ASSUME merged # <<>> PROVE merged[Len(merged)][1] <= span[1]
      OBVIOUS
    <3>2. n # 0 /\ merged[Len(merged)][1] <= spans[n][1]
      BY <2>3, <2>6, <3>1 DEF MergedTo
    <3>3. n \in 1 .. L /\ spans[n][1] <= spans[n + 1][1] /\ spans[n][1] \in Nat
      BY <1>2, <1>3, <1>4, <2>2, <3>2
    <3>4. Len(merged) \in 1 .. Len(merged)
      BY <3>1
    <3>5. merged[Len(merged)] \in Pairs
      BY <3>4
    <3>6. merged[Len(merged)][1] \in Nat
      BY <3>5 DEF Pairs
    <3>7. \A a, b, c \in Nat : a <= b /\ b <= c => a <= c
      OBVIOUS
    <3>. QED BY <2>4, <2>5, <3>2, <3>3, <3>6, <3>7
  <2>8. PICK m : m = Merge(merged, span)
    OBVIOUS
  <2>9. Spaced(merged) /\ Over(merged, Len(merged)) = Over(spans, n)
    BY <2>3, <2>6 DEF MergedTo
  <2>10. /\ m \in Seq(Pairs) /\ Spaced(m) /\ m # <<>> /\ m[Len(m)][1] <= span[1]
         /\ Over(m, Len(m)) = Over(merged, Len(merged)) \cup (span[1] .. span[2])
    BY <2>5, <2>7, <2>8, <2>9, MergeSpan
  <2>11. Over(spans, n + 1) = Over(spans, n) \cup (span[1] .. span[2])
    <3>1. \A k \in 1 .. n + 1 : k \in 1 .. n \/ k = n + 1
      BY <2>2
    <3>2. (\A k \in 1 .. n : k \in 1 .. n + 1) /\ n + 1 \in 1 .. n + 1
      BY <2>2
    <3>3. \A p \in Nat : p \in Over(spans, n + 1) <=> p \in Over(spans, n) \/ p \in span[1] .. span[2]
      BY <2>4, <3>1, <3>2 DEF Over
    <3>4. Over(spans, n + 1) \in SUBSET Nat /\ Over(spans, n) \in SUBSET Nat
      BY DEF Over
    <3>5. span[1] .. span[2] \in SUBSET Nat
      BY <2>5
    <3>. QED BY <3>3, <3>4, <3>5
  <2>12. w[n + 1] = m
    BY <1>5, <2>2, <2>4, <2>6, <2>8
  <2>13. Over(m, Len(m)) = Over(spans, n + 1)
    BY <2>9, <2>10, <2>11
  <2>14. MergedTo(m, spans, n + 1)
    BY <2>2, <2>4, <2>10, <2>13 DEF MergedTo
  <2>. QED BY <2>12, <2>14
<1>. HIDE DEF T
<1>8. L \in T
  BY <1>6, <1>7, NatSet
<1>9. MergedTo(w[L], spans, L)
  BY <1>8 DEF T
<1>10. Over(spans, L) = Covered(text)
  <2>1. ASSUME NEW p \in Over(spans, L) PROVE p \in Covered(text)
    BY <1>4 DEF Over, Covered
  <2>2. ASSUME NEW p \in Covered(text) PROVE p \in Over(spans, L)
    <3>1. PICK h \in Hits(text) : p \in h[1] .. h[2]
      BY DEF Covered
    <3>2. PICK n \in 1 .. L : spans[n] = h
      BY <1>2, <1>3
    <3>3. p \in Nat
      BY <1>4, <3>1, <3>2
    <3>. QED BY <3>1, <3>2, <3>3 DEF Over
  <2>. QED BY <2>1, <2>2
<1>. QED BY <1>5, <1>9, <1>10 DEF MergedTo

-----------------------------------------------------------------------------
(* The deny list: what is said *)

\* What a sentence is rewritten with: its letters and the safe phrase.
Sayable == Letters \cup {SafePhrase}

\* s holds what is to be said of each beginning of the text.
IsSaid(s, text) ==
    /\ s \in [0 .. Len(text) -> Seq(Sayable)] /\ s[0] = <<>>
    /\ \A n \in 1 .. Len(text) :
          s[n] = IF n \notin Covered(text) THEN Append(s[n - 1], text[n])
                 ELSE IF n - 1 \in Covered(text) THEN s[n - 1]
                 ELSE Append(s[n - 1], SafePhrase)

\* Softened is the fold its definition says.
LEMMA SoftenedFold ==
    ASSUME NEW text \in Seq(Letters)
    PROVE  \E s : IsSaid(s, text) /\ Softened(text) = s[Len(text)]
<1>1. PICK L \in Nat : L = Len(text)
  OBVIOUS
<1>. DEFINE Next(n, t) == IF n \notin Covered(text) THEN Append(t, text[n])
                          ELSE IF n - 1 \in Covered(text) THEN t
                          ELSE Append(t, SafePhrase)
            Def(f) == [n \in 0 .. L |-> IF n = 0 THEN <<>> ELSE Next(n, f[n - 1])]
<1>2. ASSUME NEW n \in 1 .. L, NEW t \in Seq(Sayable) PROVE Next(n, t) \in Seq(Sayable)
  <2>1. text[n] \in Sayable /\ SafePhrase \in Sayable
    BY <1>1 DEF Sayable
  <2>. QED BY <2>1
<1>3. Softened(text) = (CHOOSE g : g = Def(g))[L]
  BY <1>1 DEF Softened
<1>. HIDE DEF Next
<1>4. \E f : f = Def(f)
  <2>. DEFINE step == [n \in 1 .. L |-> [t \in Seq(Sayable) |-> Next(n, t)]]
  <2>1. step \in [1 .. L -> [Seq(Sayable) -> Seq(Sayable)]]
    BY <1>2
  <2>2. \A n \in 1 .. L, t \in Seq(Sayable) : step[n][t] = Next(n, t)
    OBVIOUS
  <2>. HIDE DEF step
  <2>3. PICK f \in [0 .. L -> Seq(Sayable)] :
           f[0] = <<>> /\ \A n \in 1 .. L : f[n] = step[n][f[n - 1]]
    <3>1. PICK T, e : T = Seq(Sayable) /\ e = <<>>
      OBVIOUS
    <3>2. e \in T /\ step \in [1 .. L -> [T -> T]]
      BY <2>1, <3>1
    <3>3. \E f \in [0 .. L -> T] : f[0] = e /\ \A n \in 1 .. L : f[n] = step[n][f[n - 1]]
      BY <3>2, FoldExists, SMT
    <3>. QED BY <3>1, <3>3
  <2>4. ASSUME NEW n \in 1 .. L PROVE f[n] = Next(n, f[n - 1])
    <3>1. n - 1 \in 0 .. L
      OBVIOUS
    <3>. QED BY <2>2, <2>3, <3>1
  <2>5. \A n \in 0 .. L : f[n] = IF n = 0 THEN <<>> ELSE Next(n, f[n - 1])
    BY <2>3, <2>4
  <2>6. f = [n \in 0 .. L |-> f[n]]
    BY <2>3
  <2>7. f = Def(f)
    BY <2>5, <2>6, Zenon
  <2>. QED BY <2>7
<1>. DEFINE s == CHOOSE g : g = Def(g)
<1>5. s = Def(s)
  BY <1>4
<1>. HIDE DEF s
<1>6. s[0] = <<>> /\ \A n \in 1 .. L : s[n] = Next(n, s[n - 1])
  BY <1>5
<1>7. DOMAIN s = 0 .. L /\ s = [n \in 0 .. L |-> s[n]]
  BY <1>5
<1>. HIDE DEF Def
<1>8. \A n \in 1 .. L : s[n - 1] \in Seq(Sayable) => s[n] \in Seq(Sayable)
  BY <1>2, <1>6
<1>9. s[0] \in Seq(Sayable)
  BY <1>6
<1>10. s \in [0 .. L -> Seq(Sayable)]
  BY <1>7, <1>8, <1>9, FoldTyped
<1>11. IsSaid(s, text)
  BY <1>1, <1>6, <1>10 DEF IsSaid, Next
<1>12. Softened(text) = s[L]
  BY <1>3 DEF s, Def
<1>. QED BY <1>1, <1>11, <1>12

\* One more element of a part of a sequence.
LEMMA SubSeqGrows ==
    ASSUME NEW S, NEW t \in Seq(S), NEW a \in 1 .. Len(t) + 1, NEW b \in a - 1 .. Len(t)
    PROVE  /\ SubSeq(t, a, b) \in Seq(S) /\ SubSeq(t, a, a - 1) = <<>>
           /\ b < Len(t) => SubSeq(t, a, b + 1) = Append(SubSeq(t, a, b), t[b + 1])
<1>1. PICK n \in Nat : n = Len(t)
  OBVIOUS
<1>2. a \in Nat /\ b \in Int /\ a >= 1 /\ a <= n + 1 /\ b >= a - 1 /\ b <= n /\ b \in Nat
  BY <1>1
<1>3. SubSeq(t, a, b) \in Seq(S)
  BY <1>1, <1>2
<1>4. SubSeq(t, a, a - 1) = <<>>
  BY <1>2
<1>5. ASSUME b < n PROVE SubSeq(t, a, b + 1) = Append(SubSeq(t, a, b), t[b + 1])
  <2>1. PICK u : u = SubSeq(t, a, b)
    OBVIOUS
  <2>2. u \in Seq(S) /\ Len(u) = b - a + 1 /\ \A i \in 1 .. b - a + 1 : u[i] = t[a + i - 1]
    BY <1>1, <1>2, <2>1
  <2>3. PICK v : v = SubSeq(t, a, b + 1)
    OBVIOUS
  <2>4. /\ v \in Seq(S) /\ Len(v) = b - a + 2 /\ \A i \in 1 .. b - a + 2 : v[i] = t[a + i - 1]
    BY <1>1, <1>2, <1>5, <2>3
  <2>5. t[b + 1] \in S
    BY <1>1, <1>2, <1>5
  <2>6. PICK x : x = Append(u, t[b + 1])
    OBVIOUS
  <2>7. /\ x \in Seq(S) /\ Len(x) = b - a + 2 /\ x[b - a + 2] = t[b + 1]
        /\ \A i \in 1 .. b - a + 1 : x[i] = u[i]
    <3>1. PICK k \in Nat : k = Len(u)
      BY <2>2
    <3>2. x \in Seq(S) /\ Len(x) = k + 1 /\ x[k + 1] = t[b + 1] /\ \A i \in 1 .. k : x[i] = u[i]
      <4>1. PICK d \in S : d = t[b + 1]
        BY <2>5
      <4>2. x = Append(u, d) /\ u \in Seq(S)
        BY <2>2, <2>6, <4>1
      <4>3. x \in Seq(S) /\ Len(x) = k + 1 /\ x[k + 1] = d /\ \A i \in 1 .. k : x[i] = u[i]
        BY <3>1, <4>2, AppendProperties
      <4>. QED BY <4>1, <4>3
    <3>3. k = b - a + 1 /\ k + 1 = b - a + 2
      BY <1>2, <2>2, <3>1
    <3>. QED BY <3>2, <3>3
  <2>8. ASSUME NEW i \in 1 .. b - a + 2 PROVE x[i] = v[i]
    <3>1. CASE i = b - a + 2
      <4>1. a + i - 1 = b + 1
        BY <1>2, <3>1
      <4>. QED BY <2>4, <2>7, <3>1, <4>1
    <3>2. CASE i # b - a + 2
      <4>1. i \in 1 .. b - a + 1
        BY <1>2, <3>2
      <4>. QED BY <2>2, <2>4, <2>7, <4>1
    <3>. QED BY <3>1, <3>2
  <2>9. x = v
    BY <2>4, <2>7, <2>8, SeqEqual
  <2>. QED BY <2>1, <2>3, <2>6, <2>9
<1>. QED BY <1>1, <1>3, <1>4, <1>5

\* Over letters no term covers, what is said is the letters.
LEMMA SaidUncovered ==
    ASSUME NEW text \in Seq(Letters), NEW s, IsSaid(s, text),
           NEW a \in 0 .. Len(text), NEW b \in a .. Len(text),
           \A p \in a + 1 .. b : p \notin Covered(text)
    PROVE  s[b] = s[a] \o SubSeq(text, a + 1, b)
<1>. DEFINE Q(q) == s[q] = s[a] \o SubSeq(text, a + 1, q)
            T == {q \in Nat : a <= q /\ q <= b => Q(q)}
<1>1. PICK L \in Nat : L = Len(text)
  OBVIOUS
<1>2. a \in Nat /\ b \in Nat /\ a <= b /\ b <= L
  BY <1>1
<1>3. s[a] \in Seq(Sayable)
  BY DEF IsSaid
<1>4. Q(a)
  <2>1. SubSeq(text, a + 1, a) = <<>>
    BY <1>2
  <2>2. s[a] \o <<>> = s[a]
    BY <1>3
  <2>. QED BY <2>1, <2>2
<1>5. ASSUME NEW q \in Nat, a <= q, q + 1 <= b, Q(q) PROVE Q(q + 1)
  <2>1. q + 1 \in 1 .. L /\ q + 1 \in a + 1 .. b /\ (q + 1) - 1 = q /\ q < L
    BY <1>2, <1>5
  <2>2. q + 1 \notin Covered(text)
    BY <2>1
  <2>3. s[q + 1] = Append(s[q], text[q + 1])
    BY <1>1, <2>1, <2>2 DEF IsSaid
  <2>4. /\ SubSeq(text, a + 1, q) \in Seq(Letters)
        /\ SubSeq(text, a + 1, q + 1) = Append(SubSeq(text, a + 1, q), text[q + 1])
    <3>1. a + 1 \in 1 .. Len(text) + 1 /\ q \in (a + 1) - 1 .. Len(text) /\ q < Len(text)
      BY <1>1, <1>2, <1>5, <2>1
    <3>. QED BY <3>1, SubSeqGrows
  <2>5. PICK x, y, c : x = s[a] /\ y = SubSeq(text, a + 1, q) /\ c = text[q + 1]
    OBVIOUS
  <2>6. x \in Seq(Sayable) /\ y \in Seq(Sayable) /\ c \in Sayable
    <3>1. text[q + 1] \in Letters
      BY <1>1, <2>1
    <3>. QED BY <1>3, <2>4, <2>5, <3>1 DEF Sayable
  <2>7. PICK W : W = Sayable
    OBVIOUS
  <2>8. x \in Seq(W) /\ y \in Seq(W) /\ c \in W
    BY <2>6, <2>7
  <2>9. x \o Append(y, c) = Append(x \o y, c)
    BY <2>8, AppendJoins
  <2>10. s[q] = x \o y
    BY <1>5, <2>5
  <2>. QED BY <2>3, <2>4, <2>5, <2>9, <2>10
<1>. HIDE DEF Q
<1>6. ASSUME NEW q \in T PROVE q + 1 \in T
  <2>1. CASE q + 1 = a
    BY <1>4, <2>1
  <2>2. CASE q + 1 # a
    BY <1>2, <1>5, <2>2
  <2>. QED BY <2>1, <2>2
<1>7. 0 \in T /\ T \in SUBSET Nat
  BY <1>2, <1>4
<1>. HIDE DEF T
<1>8. b \in T
  BY <1>2, <1>6, <1>7, NatSet
<1>9. Q(b)
  BY <1>2, <1>8 DEF T
<1>. QED BY <1>9 DEF Q

\* Over a run of covered letters, one safe phrase is.
LEMMA SaidCovered ==
    ASSUME NEW text \in Seq(Letters), NEW s, IsSaid(s, text),
           NEW a \in 1 .. Len(text), NEW b \in a .. Len(text),
           \A p \in a .. b : p \in Covered(text), a - 1 \notin Covered(text)
    PROVE  s[b] = Append(s[a - 1], SafePhrase)
<1>. DEFINE Q(q) == s[q] = Append(s[a - 1], SafePhrase)
            T == {q \in Nat : a <= q /\ q <= b => Q(q)}
<1>1. PICK L \in Nat : L = Len(text)
  OBVIOUS
<1>2. a \in Nat /\ b \in Nat /\ a <= b /\ b <= L /\ a # 0
  BY <1>1
<1>3. Q(a)
  <2>1. a \in Covered(text)
    BY <1>2
  <2>. QED BY <2>1 DEF IsSaid
<1>4. ASSUME NEW q \in Nat, a <= q, q + 1 <= b, Q(q) PROVE Q(q + 1)
  <2>1. q + 1 \in 1 .. L /\ q + 1 \in a .. b /\ q \in a .. b /\ (q + 1) - 1 = q
    BY <1>2, <1>4
  <2>2. q + 1 \in Covered(text) /\ q \in Covered(text)
    BY <2>1
  <2>3. s[q + 1] = s[q]
    BY <1>1, <2>1, <2>2 DEF IsSaid
  <2>. QED BY <1>4, <2>3
<1>. HIDE DEF Q
<1>5. ASSUME NEW q \in T PROVE q + 1 \in T
  <2>1. CASE q + 1 = a
    BY <1>3, <2>1
  <2>2. CASE q + 1 # a
    BY <1>2, <1>4, <2>2
  <2>. QED BY <2>1, <2>2
<1>6. 0 \in T /\ T \in SUBSET Nat
  BY <1>2
<1>. HIDE DEF T
<1>7. b \in T
  BY <1>2, <1>5, <1>6, NatSet
<1>8. Q(b)
  BY <1>2, <1>7 DEF T
<1>. QED BY <1>8 DEF Q

\* Spans in order are in order however far from each other.
LEMMA SpacedFar ==
    ASSUME NEW m \in Seq(Pairs), Spaced(m)
    PROVE  \A j, k \in 1 .. Len(m) : j < k => m[j][2] < m[k][1]
<1>1. PICK L \in Nat : L = Len(m)
  OBVIOUS
<1>2. \A k \in 1 .. L : m[k][1] \in Nat /\ m[k][2] \in Nat /\ m[k][1] <= m[k][2]
  <2>1. \A k \in 1 .. L : m[k] \in Pairs
    BY <1>1
  <2>. QED BY <1>1, <2>1 DEF Spaced, Pairs
<1>. DEFINE T == {k \in Nat : k \in 1 .. L => \A j \in 1 .. L : j < k => m[j][2] < m[k][1]}
<1>3. 0 \in T /\ T \in SUBSET Nat
  OBVIOUS
<1>4. ASSUME NEW k \in T PROVE k + 1 \in T
  <2>1. SUFFICES ASSUME k + 1 \in 1 .. L, NEW j \in 1 .. L, j < k + 1 PROVE m[j][2] < m[k + 1][1]
    BY <1>3
  <2>2. k \in 1 .. L /\ k \in 1 .. L - 1
    BY <2>1
  <2>3. m[k][2] + 1 < m[k + 1][1]
    BY <1>1, <2>2 DEF Spaced
  <2>4. CASE j = k
    BY <1>2, <2>1, <2>2, <2>3, <2>4
  <2>5. CASE j # k
    <3>1. j < k
      BY <2>1, <2>2, <2>5
    <3>2. m[j][2] < m[k][1]
      BY <2>1, <2>2, <3>1
    <3>3. m[j][2] \in Nat /\ m[k][1] \in Nat /\ m[k][2] \in Nat /\ m[k + 1][1] \in Nat /\ m[k][1] <= m[k][2]
      BY <1>2, <2>1, <2>2
    <3>4. \A a, b, c, d \in Nat : a < b /\ b <= c /\ c + 1 < d => a < d
      OBVIOUS
    <3>. QED BY <2>3, <3>2, <3>3, <3>4
  <2>. QED BY <2>4, <2>5
<1>. HIDE DEF T
<1>5. T = Nat
  BY <1>3, <1>4, NatSet
<1>6. \A k \in 1 .. L : k \in T
  BY <1>5
<1>. QED BY <1>1, <1>6 DEF T

\* Where the text after the first n merged spans begins, less one.
Cut(merged, n) == IF n = 0 THEN 0 ELSE merged[n][2]

\* Between two merged spans, before the first and after the last, no letter is
\* covered; within one, every letter is.
LEMMA Between ==
    ASSUME NEW text \in Seq(Letters), NEW m, m = MergedSpans(text)
    PROVE  /\ \A n \in 1 .. Len(m) :
                 /\ m[n][1] \in 1 .. Len(text) /\ m[n][2] \in m[n][1] .. Len(text)
                 /\ Cut(m, n - 1) + 1 \in 1 .. m[n][1]
                 /\ \A p \in m[n][1] .. m[n][2] : p \in Covered(text)
                 /\ \A p \in Cut(m, n - 1) + 1 .. m[n][1] - 1 : p \notin Covered(text)
                 /\ m[n][1] - 1 \notin Covered(text)
           /\ Cut(m, Len(m)) \in 0 .. Len(text)
           /\ \A p \in Cut(m, Len(m)) + 1 .. Len(text) : p \notin Covered(text)
<1>1. m \in Seq(Pairs) /\ Spaced(m) /\ Over(m, Len(m)) = Covered(text)
  BY MergedSpansCover
<1>2. PICK L \in Nat : L = Len(m)
  BY <1>1
<1>3. PICK N \in Nat : N = Len(text)
  OBVIOUS
<1>4. \A n \in 1 .. L : m[n][1] \in Nat \ {0} /\ m[n][2] \in Nat /\ m[n][1] <= m[n][2]
  <2>1. \A k \in 1 .. L : m[k] \in Pairs
    BY <1>1, <1>2
  <2>. QED BY <1>1, <1>2, <2>1 DEF Spaced, Pairs
<1>5. \A j, k \in 1 .. L : j < k => m[j][2] < m[k][1]
  BY <1>1, <1>2, SpacedFar
<1>6. Covered(text) \in SUBSET (1 .. N)
  BY <1>3, CoveredInside
<1>7. ASSUME NEW n \in 1 .. L, NEW p \in m[n][1] .. m[n][2] PROVE p \in Covered(text)
  <2>1. p \in Nat
    BY <1>4
  <2>2. p \in Over(m, L)
    BY <2>1 DEF Over
  <2>. QED BY <1>1, <1>2, <2>2
<1>8. \A p \in Covered(text) : \E k \in 1 .. L : p \in m[k][1] .. m[k][2]
  BY <1>1, <1>2 DEF Over
<1>9. ASSUME NEW n \in 1 .. L
      PROVE  m[n][1] \in 1 .. N /\ m[n][2] \in m[n][1] .. N
  <2>1. m[n][1] \in m[n][1] .. m[n][2] /\ m[n][2] \in m[n][1] .. m[n][2]
    BY <1>4
  <2>2. m[n][1] \in 1 .. N /\ m[n][2] \in 1 .. N
    BY <1>6, <1>7, <2>1
  <2>. QED BY <1>4, <2>2
<1>10. ASSUME NEW n \in 1 .. L
       PROVE  /\ Cut(m, n - 1) \in Nat /\ Cut(m, n - 1) + 1 <= m[n][1]
              /\ n # 1 => Cut(m, n - 1) + 1 < m[n][1]
              /\ \A k \in 1 .. L : k < n => m[k][2] <= Cut(m, n - 1)
  <2>1. CASE n = 1
    <3>1. Cut(m, n - 1) = 0
      BY <2>1 DEF Cut
    <3>2. \A k \in 1 .. L : ~(k < n)
      BY <2>1
    <3>. QED BY <1>4, <2>1, <3>1, <3>2
  <2>2. CASE n # 1
    <3>1. PICK j \in 1 .. L - 1 : n = j + 1 /\ n - 1 = j
      BY <2>2
    <3>2. Cut(m, n - 1) = m[j][2] /\ j \in 1 .. L
      BY <3>1 DEF Cut
    <3>3. m[j][2] + 1 < m[n][1]
      BY <1>1, <1>2, <3>1 DEF Spaced
    <3>4. ASSUME NEW k \in 1 .. L, k < n PROVE m[k][2] <= m[j][2]
      <4>1. CASE k = j
        BY <1>4, <3>2, <4>1
      <4>2. CASE k # j
        <5>1. k < j
          BY <3>1, <3>4, <4>2
        <5>2. m[k][2] < m[j][1] /\ m[j][1] <= m[j][2]
          BY <1>4, <1>5, <3>2, <5>1
        <5>3. m[k][2] \in Nat /\ m[j][1] \in Nat /\ m[j][2] \in Nat
          BY <1>4, <3>2
        <5>. QED BY <5>2, <5>3
      <4>. QED BY <4>1, <4>2
    <3>5. m[j][2] \in Nat /\ m[n][1] \in Nat
      BY <1>4, <3>2
    <3>. QED BY <3>2, <3>3, <3>4, <3>5
  <2>. QED BY <2>1, <2>2
<1>11. ASSUME NEW n \in 1 .. L, NEW p \in Cut(m, n - 1) + 1 .. m[n][1] - 1
       PROVE  p \notin Covered(text)
  <2>1. SUFFICES ASSUME p \in Covered(text) PROVE FALSE
    OBVIOUS
  <2>2. PICK k \in 1 .. L : p \in m[k][1] .. m[k][2]
    BY <1>8, <2>1
  <2>3. PICK c, d, e, f \in Nat : c = Cut(m, n - 1) /\ d = m[n][1] /\ e = m[k][1] /\ f = m[k][2]
    BY <1>4, <1>10
  <2>4. p \in c + 1 .. d - 1 /\ p \in e .. f
    BY <2>2, <2>3
  <2>5. CASE k < n
    <3>1. f <= c
      BY <1>10, <2>3, <2>5
    <3>. QED BY <2>4, <3>1
  <2>6. CASE k = n
    BY <2>3, <2>4, <2>6
  <2>7. CASE n < k
    <3>1. m[n][2] < e /\ d <= m[n][2] /\ m[n][2] \in Nat
      BY <1>4, <1>5, <2>3, <2>7
    <3>. QED BY <2>4, <3>1
  <2>. QED BY <2>5, <2>6, <2>7
<1>12. ASSUME NEW n \in 1 .. L PROVE m[n][1] - 1 \notin Covered(text)
  <2>1. CASE n = 1
    <3>1. CASE m[n][1] = 1
      BY <1>6, <3>1
    <3>2. CASE m[n][1] # 1
      <4>1. Cut(m, n - 1) = 0
        BY <2>1 DEF Cut
      <4>2. m[n][1] - 1 \in Cut(m, n - 1) + 1 .. m[n][1] - 1
        BY <1>4, <3>2, <4>1
      <4>. QED BY <1>11, <4>2
    <3>. QED BY <3>1, <3>2
  <2>2. CASE n # 1
    <3>1. Cut(m, n - 1) \in Nat /\ m[n][1] \in Nat /\ Cut(m, n - 1) + 1 < m[n][1]
      BY <1>4, <1>10, <2>2
    <3>2. \A c, d \in Nat : c + 1 < d => d - 1 \in c + 1 .. d - 1
      OBVIOUS
    <3>3. m[n][1] - 1 \in Cut(m, n - 1) + 1 .. m[n][1] - 1
      BY <3>1, <3>2
    <3>. QED BY <1>11, <3>3
  <2>. QED BY <2>1, <2>2
<1>13. Cut(m, L) \in 0 .. N /\ \A k \in 1 .. L : m[k][2] <= Cut(m, L)
  <2>1. CASE L = 0
    <3>1. Cut(m, L) = 0
      BY <2>1 DEF Cut
    <3>. QED BY <2>1, <3>1
  <2>2. CASE L # 0
    <3>1. L \in 1 .. L /\ Cut(m, L) = m[L][2]
      BY <2>2 DEF Cut
    <3>2. Cut(m, L) \in 0 .. N
      BY <1>4, <1>9, <3>1
    <3>3. ASSUME NEW k \in 1 .. L PROVE m[k][2] <= m[L][2]
      <4>1. CASE k = L
        BY <1>4, <4>1
      <4>2. CASE k # L
        <5>1. k < L
          BY <4>2
        <5>2. m[k][2] < m[L][1] /\ m[L][1] <= m[L][2]
          BY <1>4, <1>5, <3>1, <5>1
        <5>3. m[k][2] \in Nat /\ m[L][1] \in Nat /\ m[L][2] \in Nat
          BY <1>4, <3>1
        <5>. QED BY <5>2, <5>3
      <4>. QED BY <4>1, <4>2
    <3>. QED BY <3>1, <3>2, <3>3
  <2>. QED BY <2>1, <2>2
<1>14. ASSUME NEW p \in Cut(m, L) + 1 .. N PROVE p \notin Covered(text)
  <2>1. SUFFICES ASSUME p \in Covered(text) PROVE FALSE
    OBVIOUS
  <2>2. PICK k \in 1 .. L : p \in m[k][1] .. m[k][2]
    BY <1>8, <2>1
  <2>. QED BY <1>4, <1>13, <2>2
<1>15. \A n \in 1 .. L : Cut(m, n - 1) + 1 \in 1 .. m[n][1]
  <2>1. \A c, d \in Nat : c + 1 <= d => c + 1 \in 1 .. d
    OBVIOUS
  <2>. QED BY <1>4, <1>10, <2>1
<1>. QED BY <1>2, <1>3, <1>7, <1>9, <1>11, <1>12, <1>13, <1>14, <1>15

\* The rewritten text is the text softened.
LEMMA SubstitutedIsSoftened ==
    ASSUME NEW text \in Seq(Letters)
    PROVE  ApplySubstitutions(text) = Softened(text)
<1>1. PICK s : IsSaid(s, text) /\ Softened(text) = s[Len(text)]
  BY SoftenedFold
<1>2. PICK m : m = MergedSpans(text)
  OBVIOUS
<1>3. m \in Seq(Pairs)
  BY <1>2, MergedSpansCover
<1>4. PICK L \in Nat : L = Len(m)
  BY <1>3
<1>5. PICK N \in Nat : N = Len(text)
  OBVIOUS
<1>6. \A n \in 1 .. L :
         /\ m[n][1] \in 1 .. N /\ m[n][2] \in m[n][1] .. N
         /\ Cut(m, n - 1) + 1 \in 1 .. m[n][1]
         /\ \A p \in m[n][1] .. m[n][2] : p \in Covered(text)
         /\ \A p \in Cut(m, n - 1) + 1 .. m[n][1] - 1 : p \notin Covered(text)
         /\ m[n][1] - 1 \notin Covered(text)
  BY <1>2, <1>4, <1>5, Between
<1>7. /\ Cut(m, L) \in 0 .. N
      /\ \A p \in Cut(m, L) + 1 .. N : p \notin Covered(text)
  BY <1>2, <1>4, <1>5, Between
<1>. DEFINE cursor(n) == IF n = 0 THEN 1 ELSE m[n][2] + 1
            Put(n, t) == Append(t \o SubSeq(text, cursor(n - 1), m[n][1] - 1), SafePhrase)
            Def(f) == [n \in 0 .. L |-> IF n = 0 THEN <<>> ELSE Put(n, f[n - 1])]
            out == CHOOSE f : f = Def(f)
            u == [n \in 0 .. L |-> s[Cut(m, n)]]
<1>8. ApplySubstitutions(text) = out[L] \o SubSeq(text, cursor(L), N)
  BY <1>2, <1>4, <1>5 DEF ApplySubstitutions
<1>9. \A n \in 0 .. L : cursor(n) = Cut(m, n) + 1
  BY DEF Cut
<1>10. ASSUME NEW n \in 1 .. L
       PROVE  u[n] = Put(n, u[n - 1])
  <2>1. PICK a, b, c \in Nat : a = m[n][1] /\ b = m[n][2] /\ c = Cut(m, n - 1)
    <3>1. m[n][1] \in Nat /\ m[n][2] \in Nat
      BY <1>6
    <3>2. Cut(m, n - 1) \in Nat
      <4>1. CASE n = 1
        BY <4>1 DEF Cut
      <4>2. CASE n # 1
        <5>1. PICK k \in 1 .. L : k = n - 1 /\ k # 0
          BY <4>2
        <5>2. m[k][1] \in 1 .. N /\ m[k][2] \in m[k][1] .. N
          BY <1>6
        <5>3. m[k][2] \in Nat
          BY <5>2
        <5>. QED BY <5>1, <5>3 DEF Cut
      <4>. QED BY <4>1, <4>2
    <3>. QED BY <3>1, <3>2
  <2>2. a \in 1 .. N /\ b \in a .. N /\ c + 1 \in 1 .. a
    BY <1>6, <2>1
  <2>3. /\ \A p \in a .. b : p \in Covered(text)
        /\ \A p \in c + 1 .. a - 1 : p \notin Covered(text)
        /\ a - 1 \notin Covered(text)
    BY <1>6, <2>1
  <2>4. c \in 0 .. N /\ a - 1 \in c .. N
    BY <2>2
  <2>5. s[a - 1] = s[c] \o SubSeq(text, c + 1, a - 1)
    <3>1. PICK d \in c .. Len(text) : d = a - 1
      BY <1>5, <2>4
    <3>2. s[d] = s[c] \o SubSeq(text, c + 1, d)
      BY <1>1, <1>5, <2>3, <2>4, <3>1, SaidUncovered
    <3>. QED BY <3>1, <3>2
  <2>6. s[b] = Append(s[a - 1], SafePhrase)
    BY <1>1, <1>5, <2>2, <2>3, SaidCovered
  <2>7. u[n] = s[b]
    <3>1. n \in 0 .. L /\ Cut(m, n) = b
      BY <2>1 DEF Cut
    <3>. QED BY <3>1
  <2>8. u[n - 1] = s[c] /\ cursor(n - 1) = c + 1
    <3>1. n - 1 \in 0 .. L
      OBVIOUS
    <3>. QED BY <1>9, <2>1, <3>1
  <2>. HIDE DEF u, cursor
  <2>. QED BY <2>1, <2>5, <2>6, <2>7, <2>8
<1>11. u[0] = <<>>
  <2>1. Cut(m, 0) = 0
    BY DEF Cut
  <2>. QED BY <1>1, <2>1 DEF IsSaid
<1>12. u = [n \in 0 .. L |-> u[n]]
  OBVIOUS
<1>. HIDE DEF u, Put
<1>13. \A n \in 0 .. L : u[n] = IF n = 0 THEN <<>> ELSE Put(n, u[n - 1])
  BY <1>10, <1>11
<1>14. u = Def(u)
  BY <1>12, <1>13, Zenon
<1>15. out = Def(out)
  BY <1>14
<1>. HIDE DEF out
<1>16. out[0] = <<>> /\ \A n \in 1 .. L : out[n] = Put(n, out[n - 1])
  BY <1>15
<1>. HIDE DEF Def
<1>17. out[L] = u[L]
  <2>1. \A n \in 1 .. L : out[n - 1] = u[n - 1] => out[n] = u[n]
    BY <1>10, <1>16
  <2>2. out[0] = u[0]
    BY <1>11, <1>16
  <2>. QED BY <2>1, <2>2, FoldsAgree
<1>18. u[L] = s[Cut(m, L)] /\ cursor(L) = Cut(m, L) + 1
  BY <1>9 DEF u
<1>19. s[N] = s[Cut(m, L)] \o SubSeq(text, Cut(m, L) + 1, N)
  <2>1. PICK c \in 0 .. N : c = Cut(m, L)
    BY <1>7
  <2>2. \A p \in c + 1 .. N : p \notin Covered(text)
    BY <1>7, <2>1
  <2>3. N \in c .. Len(text) /\ c \in 0 .. Len(text)
    BY <1>5, <2>1
  <2>4. s[N] = s[c] \o SubSeq(text, c + 1, N)
    BY <1>1, <2>2, <2>3, SaidUncovered
  <2>. QED BY <2>1, <2>4
<1>. QED BY <1>1, <1>5, <1>8, <1>17, <1>18, <1>19

\* A text without a hit is what is said of it.
LEMMA UnhitIsSoftened ==
    ASSUME NEW text \in Seq(Letters), Hits(text) = {}
    PROVE  Softened(text) = text
<1>1. PICK s : IsSaid(s, text) /\ Softened(text) = s[Len(text)]
  BY SoftenedFold
<1>2. Covered(text) = {}
  BY DEF Covered
<1>3. PICK N \in Nat : N = Len(text)
  OBVIOUS
<1>4. s[N] = s[0] \o SubSeq(text, 0 + 1, N)
  <2>1. 0 \in 0 .. Len(text) /\ N \in 0 .. Len(text)
    BY <1>3
  <2>2. \A p \in 0 + 1 .. N : p \notin Covered(text)
    BY <1>2
  <2>. QED BY <1>1, <2>1, <2>2, SaidUncovered
<1>5. SubSeq(text, 1, N) = text
  BY <1>3
<1>6. <<>> \o text = text
  OBVIOUS
<1>. QED BY <1>1, <1>3, <1>4, <1>5, <1>6 DEF IsSaid

-----------------------------------------------------------------------------
(* The deny list: no term in what is said *)

\* Every stretch of letters in what is said is a stretch of letters of the text
\* that no term covers; one at the end is at the end of the text.
Lettered(t, i, j) == \A q \in i .. j : t[q] # SafePhrase

\* The letters from i to j are letters of the first n of the text, d further on.
Traces(t, text, i, j, n, d) ==
    \A q \in i .. j : q + d \in 1 .. n /\ q + d \notin Covered(text) /\ t[q] = text[q + d]

Traced(t, text, n) ==
    \A i, j \in 1 .. Len(t) :
        i <= j /\ Lettered(t, i, j) =>
            \E d \in Int : Traces(t, text, i, j, n, d) /\ (j = Len(t) => j + d = n)

\* What the first n letters explain, the first n + 1 do, of any text alike.
LEMMA TracesOn ==
    ASSUME NEW t, NEW u, NEW text, NEW i, NEW j, NEW n \in Nat, NEW d,
           Traces(t, text, i, j, n, d), \A q \in i .. j : u[q] = t[q]
    PROVE  Traces(u, text, i, j, n + 1, d)
<1>1. \A x \in 1 .. n : x \in 1 .. n + 1
  OBVIOUS
<1>. QED BY <1>1 DEF Traces

\* Saying one more thing keeps it.
LEMMA SaidTraced ==
    ASSUME NEW text \in Seq(Letters), NEW s, IsSaid(s, text)
    PROVE  Traced(s[Len(text)], text, Len(text))
<1>. DEFINE T == {n \in Nat : n <= Len(text) => Traced(s[n], text, n)}
<1>1. PICK N \in Nat : N = Len(text)
  OBVIOUS
<1>2. 0 \in T /\ T \in SUBSET Nat
  <2>1. s[0] = <<>> /\ Len(<<>>) = 0
    BY DEF IsSaid
  <2>2. Traced(<<>>, text, 0)
    BY DEF Traced
  <2>. QED BY <2>1, <2>2
<1>3. ASSUME NEW n \in T PROVE n + 1 \in T
  <2>1. SUFFICES ASSUME n + 1 <= N PROVE Traced(s[n + 1], text, n + 1)
    BY <1>1, <1>2
  <2>2. n \in Nat /\ n \in 0 .. N /\ n + 1 \in 1 .. N /\ (n + 1) - 1 = n
    BY <1>2, <2>1
  <2>3. Traced(s[n], text, n)
    BY <1>1, <2>2
  <2>4. PICK t \in Seq(Sayable) : t = s[n]
    BY <1>1, <2>2 DEF IsSaid
  <2>5. PICK u : u = s[n + 1]
    OBVIOUS
  <2>6. PICK L \in Nat : L = Len(t)
    OBVIOUS
  <2>7. ASSUME NEW i \in 1 .. L, NEW j \in 1 .. L, i <= j, Lettered(t, i, j)
        PROVE  \E d \in Int : Traces(t, text, i, j, n, d) /\ (j = L => j + d = n)
    BY <2>3, <2>4, <2>6, <2>7 DEF Traced
  <2>8. CASE n + 1 \notin Covered(text)
    <3>1. text[n + 1] \in Letters /\ text[n + 1] \in Sayable /\ text[n + 1] # SafePhrase
      BY <1>1, <2>2, GuardrailAssumption DEF Sayable
    <3>2. u = Append(t, text[n + 1])
      BY <1>1, <2>2, <2>4, <2>5, <2>8 DEF IsSaid
    <3>3. Len(u) = L + 1 /\ u[L + 1] = text[n + 1] /\ \A q \in 1 .. L : u[q] = t[q]
      BY <2>6, <3>1, <3>2
    <3>4. ASSUME NEW i \in 1 .. L + 1, NEW j \in 1 .. L + 1, i <= j,
                 Lettered(u, i, j)
          PROVE  \E d \in Int : Traces(u, text, i, j, n + 1, d) /\ (j = L + 1 => j + d = n + 1)
      <4>1. CASE j = L + 1 /\ i = L + 1
        <5>1. PICK d \in Int : d = n - L
          BY <2>2
        <5>2. (\A q \in i .. j : q + d = n + 1 /\ q = L + 1) /\ j + d = n + 1
          BY <2>2, <4>1, <5>1
        <5>3. n + 1 \in 1 .. n + 1
          BY <2>2
        <5>4. Traces(u, text, i, j, n + 1, d)
          BY <2>8, <3>3, <5>2, <5>3 DEF Traces
        <5>. QED BY <5>2, <5>4
      <4>2. CASE j = L + 1 /\ i # L + 1
        <5>1. L \in 1 .. L /\ i \in 1 .. L /\ i <= L /\ \A q \in i .. L : q \in i .. j /\ q \in 1 .. L
          BY <3>4, <4>2
        <5>2. Lettered(t, i, L)
          BY <3>3, <3>4, <5>1 DEF Lettered
        <5>3. PICK d \in Int : Traces(t, text, i, L, n, d) /\ (L + d = n)
          BY <2>7, <5>1, <5>2
        <5>4. ASSUME NEW q \in i .. j
              PROVE  q + d \in 1 .. n + 1 /\ q + d \notin Covered(text) /\ u[q] = text[q + d]
          <6>1. CASE q = L + 1
            <7>1. q + d = n + 1
              BY <5>3, <6>1
            <7>. QED BY <2>2, <2>8, <3>3, <6>1, <7>1
          <6>2. CASE q # L + 1
            <7>1. q \in i .. L
              BY <4>2, <6>2
            <7>2. q + d \in 1 .. n /\ q + d \notin Covered(text) /\ t[q] = text[q + d]
              BY <5>3, <7>1 DEF Traces
            <7>3. q + d \in 1 .. n + 1
              BY <2>2, <7>2
            <7>. QED BY <3>3, <5>1, <7>1, <7>2, <7>3
          <6>. QED BY <6>1, <6>2
        <5>5. j + d = n + 1
          BY <4>2, <5>3
        <5>6. Traces(u, text, i, j, n + 1, d)
          BY <5>4 DEF Traces
        <5>. QED BY <5>5, <5>6
      <4>3. CASE j # L + 1
        <5>1. j \in 1 .. L /\ i \in 1 .. L /\ \A q \in i .. j : q \in 1 .. L
          BY <3>4, <4>3
        <5>2. Lettered(t, i, j)
          BY <3>3, <3>4, <5>1 DEF Lettered
        <5>3. PICK d \in Int : Traces(t, text, i, j, n, d)
          BY <2>7, <3>4, <5>1, <5>2
        <5>4. \A q \in i .. j : u[q] = t[q]
          BY <3>3, <5>1
        <5>5. Traces(u, text, i, j, n + 1, d)
          BY <2>2, <5>3, <5>4, TracesOn
        <5>. QED BY <4>3, <5>5
      <4>. QED BY <4>1, <4>2, <4>3
    <3>5. Traced(u, text, n + 1)
      BY <3>3, <3>4 DEF Traced
    <3>. QED BY <2>5, <3>5
  <2>9. CASE n + 1 \in Covered(text) /\ n \in Covered(text)
    <3>1. u = t
      BY <1>1, <2>2, <2>4, <2>5, <2>9 DEF IsSaid
    <3>2. ASSUME NEW i \in 1 .. L, NEW j \in 1 .. L, i <= j,
                 Lettered(t, i, j)
          PROVE  \E d \in Int : Traces(t, text, i, j, n + 1, d) /\ (j = L => j + d = n + 1)
      <4>1. PICK d \in Int : Traces(t, text, i, j, n, d) /\ (j = L => j + d = n)
        BY <2>7, <3>2
      <4>2. j \in i .. j
        BY <3>2
      <4>3. j # L
        BY <2>9, <4>1, <4>2 DEF Traces
      <4>4. Traces(t, text, i, j, n + 1, d)
        BY <2>2, <4>1, TracesOn
      <4>. QED BY <4>3, <4>4
    <3>3. Traced(u, text, n + 1)
      BY <2>6, <3>1, <3>2 DEF Traced
    <3>. QED BY <2>5, <3>3
  <2>10. CASE n + 1 \in Covered(text) /\ n \notin Covered(text)
    <3>1. SafePhrase \in Sayable
      BY DEF Sayable
    <3>2. u = Append(t, SafePhrase)
      BY <1>1, <2>2, <2>4, <2>5, <2>10 DEF IsSaid
    <3>3. Len(u) = L + 1 /\ u[L + 1] = SafePhrase /\ \A q \in 1 .. L : u[q] = t[q]
      BY <2>6, <3>1, <3>2
    <3>4. ASSUME NEW i \in 1 .. L + 1, NEW j \in 1 .. L + 1, i <= j,
                 Lettered(u, i, j)
          PROVE  \E d \in Int : Traces(u, text, i, j, n + 1, d) /\ (j = L + 1 => j + d = n + 1)
      <4>1. j \in i .. j
        BY <3>4
      <4>2. j # L + 1
        BY <3>3, <3>4, <4>1 DEF Lettered
      <4>3. j \in 1 .. L /\ i \in 1 .. L /\ \A q \in i .. j : q \in 1 .. L
        BY <3>4, <4>2
      <4>4. Lettered(t, i, j)
        BY <3>3, <3>4, <4>3 DEF Lettered
      <4>5. PICK d \in Int : Traces(t, text, i, j, n, d)
        BY <2>7, <3>4, <4>3, <4>4
      <4>6. \A q \in i .. j : u[q] = t[q]
        BY <3>3, <4>3
      <4>7. Traces(u, text, i, j, n + 1, d)
        BY <2>2, <4>5, <4>6, TracesOn
      <4>. QED BY <4>2, <4>7
    <3>5. Traced(u, text, n + 1)
      BY <3>3, <3>4 DEF Traced
    <3>. QED BY <2>5, <3>5
  <2>. QED BY <2>8, <2>9, <2>10
<1>. HIDE DEF T
<1>4. N \in T
  BY <1>2, <1>3, NatSet
<1>. QED BY <1>1, <1>4 DEF T

\* A term occurs where its letters are, one after the other.
LEMMA OccursAre ==
    ASSUME NEW S, NEW text \in Seq(S), NEW term \in Seq(Letters), NEW n \in Nat \ {0},
           n = Len(term), NEW i \in 1 .. Len(text)
    PROVE  Occurs(term, text, i) <=>
              i + n - 1 <= Len(text) /\ \A q \in 1 .. n : text[i + q - 1] = term[q]
<1>1. PICK L \in Nat : L = Len(text)
  OBVIOUS
<1>2. i \in 1 .. L
  BY <1>1
<1>3. ASSUME i + n - 1 <= L
      PROVE  SubSeq(text, i, i + n - 1) = term <=>
                \A q \in 1 .. n : text[i + q - 1] = term[q]
  <2>1. PICK u : u = SubSeq(text, i, i + n - 1)
    OBVIOUS
  <2>2. u \in Seq(S) /\ Len(u) = n /\ \A q \in 1 .. n : u[q] = text[i + q - 1]
    <3>1. PICK j \in Nat : j = i + n - 1 /\ j <= L /\ i <= j + 1
      BY <1>2, <1>3
    <3>2. /\ u \in Seq(S) /\ Len(u) = j - i + 1
          /\ \A q \in 1 .. j - i + 1 : u[q] = text[i + q - 1]
      BY <1>1, <1>2, <2>1, <3>1
    <3>3. j - i + 1 = n
      BY <1>2, <3>1
    <3>. QED BY <3>2, <3>3
  <2>3. (\A q \in 1 .. n : u[q] = term[q]) => u = term
    <3>1. u = [q \in 1 .. n |-> u[q]] /\ term = [q \in 1 .. n |-> term[q]]
      BY <2>2
    <3>. QED BY <3>1
  <2>. QED BY <2>1, <2>2, <2>3
<1>. QED BY <1>1, <1>3 DEF Occurs

\* The text softened has no term in it.
LEMMA SoftenedUnhit ==
    ASSUME NEW text \in Seq(Letters)
    PROVE  Softened(text) \in Seq(Sayable) /\ Hits(Softened(text)) = {}
<1>1. PICK s : IsSaid(s, text) /\ Softened(text) = s[Len(text)]
  BY SoftenedFold
<1>2. PICK t \in Seq(Sayable) : t = Softened(text)
  BY <1>1 DEF IsSaid
<1>3. Traced(t, text, Len(text))
  BY <1>1, <1>2, SaidTraced
<1>4. ASSUME NEW k \in DOMAIN Terms, NEW i \in DOMAIN t, Occurs(Terms[k], t, i) PROVE FALSE
  <2>1. PICK term \in Seq(Letters), n \in Nat \ {0} : term = Terms[k] /\ n = Len(term)
    BY TermsNonempty
  <2>2. i + n - 1 <= Len(t) /\ \A q \in 1 .. n : t[i + q - 1] = term[q]
    <3>1. i \in 1 .. Len(t) /\ Occurs(term, t, i)
      BY <1>4, <2>1
    <3>. QED BY <2>1, <3>1, OccursAre
  <2>3. PICK j \in 1 .. Len(t) : j = i + n - 1 /\ i <= j
    BY <2>2
  <2>4. \A q \in i .. j : q - i + 1 \in 1 .. n /\ i + (q - i + 1) - 1 = q
    BY <2>3
  <2>5. \A q \in i .. j : t[q] = term[q - i + 1] /\ term[q - i + 1] \in Letters
    BY <2>1, <2>2, <2>4
  <2>6. Lettered(t, i, j)
    BY <2>5, GuardrailAssumption DEF Lettered
  <2>7. PICK d \in Int : Traces(t, text, i, j, Len(text), d)
    BY <1>3, <2>3, <2>6 DEF Traced
  <2>8. i \in i .. j /\ j \in i .. j
    BY <2>3
  <2>9. PICK p \in 1 .. Len(text) : p = i + d
    BY <2>7, <2>8 DEF Traces
  <2>10. p + n - 1 <= Len(text)
    <3>1. p + n - 1 = j + d
      BY <2>3, <2>9
    <3>2. j + d \in 1 .. Len(text)
      BY <2>7, <2>8 DEF Traces
    <3>. QED BY <3>1, <3>2
  <2>11. ASSUME NEW q \in 1 .. n PROVE text[p + q - 1] = term[q]
    <3>1. PICK x \in i .. j : x = i + q - 1
      <4>1. i \in 1 .. Len(t)
        OBVIOUS
      <4>2. i + q - 1 \in i .. j
        BY <2>3, <4>1
      <4>. QED BY <4>2
    <3>2. x + d = p + q - 1
      BY <2>9, <3>1
    <3>3. t[x] = text[x + d] /\ t[x] = term[q]
      BY <2>2, <2>7, <3>1 DEF Traces
    <3>. QED BY <3>2, <3>3
  <2>12. Occurs(term, text, p)
    BY <2>1, <2>10, <2>11, OccursAre
  <2>13. <<p, p + n - 1>> \in Hits(text)
    <3>1. p \in DOMAIN text /\ Occurs(Terms[k], text, p)
      BY <2>1, <2>12
    <3>2. <<p, p + Len(Terms[k]) - 1>> \in Hits(text)
      BY <3>1, HitsAre
    <3>. QED BY <2>1, <3>2
  <2>14. p \in p .. p + n - 1
    OBVIOUS
  <2>15. p \in Covered(text)
    BY <2>13, <2>14 DEF Covered
  <2>. QED BY <2>7, <2>8, <2>9, <2>15 DEF Traces
<1>5. Hits(t) = {}
  BY <1>4, HitsAre
<1>. QED BY <1>2, <1>5

-----------------------------------------------------------------------------
(* The deny list: audit rows *)

\* What an audit row is written with.
Marks == Letters \cup {Mask}

\* A text with some letters masked, in their places.
IsMasked(u, t) == /\ u \in Seq(Marks) /\ Len(u) = Len(t)
                  /\ \A i \in 1 .. Len(t) : u[i] = t[i] \/ u[i] = Mask

\* The same, of a text with letters masked.
LEMMA OccursMarked ==
    ASSUME NEW text \in Seq(Marks), NEW term \in Seq(Letters), NEW n \in Nat \ {0},
           n = Len(term)
    PROVE  \A i \in 1 .. Len(text) : Occurs(term, text, i) <=>
              i + n - 1 <= Len(text) /\ \A q \in 1 .. n : text[i + q - 1] = term[q]
<1>1. PICK S : S = Marks
  OBVIOUS
<1>2. text \in Seq(S)
  BY <1>1
<1>. QED BY <1>2, OccursAre

\* The places replaced are places of the term, and none of them is left out but
\* for one replaced just before it.
LEMMA ReplacedAre ==
    ASSUME NEW text \in Seq(Marks), NEW term \in Seq(Letters), NEW n \in Nat \ {0}, n = Len(term)
    PROVE  /\ Replaced(text, term) \in SUBSET (1 .. Len(text))
           /\ \A j \in Replaced(text, term) : Occurs(term, text, j)
           /\ \A i \in 1 .. Len(text) : Occurs(term, text, i) =>
                 \E j \in Replaced(text, term) : j <= i /\ i < j + n
<1>1. PICK L \in Nat : L = Len(text)
  OBVIOUS
<1>. DEFINE Next(i, z) == IF Occurs(term, text, i) /\ \A j \in z : j + n <= i THEN z \cup {i} ELSE z
            Def(f) == [i \in 0 .. L |-> IF i = 0 THEN {} ELSE Next(i, f[i - 1])]
            P == SUBSET (1 .. L)
<1>2. ASSUME NEW i \in 1 .. L, NEW z \in P PROVE Next(i, z) \in P
  OBVIOUS
<1>3. Replaced(text, term) = (CHOOSE g : g = Def(g))[L]
  BY <1>1 DEF Replaced
<1>. HIDE DEF Next
<1>4. \E f : f = Def(f)
  <2>. DEFINE step == [i \in 1 .. L |-> [z \in P |-> Next(i, z)]]
  <2>. HIDE DEF P
  <2>1. step \in [1 .. L -> [P -> P]]
    BY <1>2
  <2>2. \A i \in 1 .. L, z \in P : step[i][z] = Next(i, z)
    OBVIOUS
  <2>3. {} \in P
    BY DEF P
  <2>. HIDE DEF step
  <2>4. PICK f \in [0 .. L -> P] : f[0] = {} /\ \A i \in 1 .. L : f[i] = step[i][f[i - 1]]
    <3>1. PICK W, e : W = P /\ e = {}
      OBVIOUS
    <3>2. e \in W /\ step \in [1 .. L -> [W -> W]]
      BY <2>1, <2>3, <3>1
    <3>3. PICK f : IsFold(f, W, e, L, step)
      BY <3>2, FoldIs
    <3>. QED BY <3>1, <3>3 DEF IsFold
  <2>5. ASSUME NEW i \in 1 .. L PROVE f[i] = Next(i, f[i - 1])
    <3>1. i - 1 \in 0 .. L
      OBVIOUS
    <3>. QED BY <2>2, <2>4, <3>1
  <2>6. \A i \in 0 .. L : f[i] = IF i = 0 THEN {} ELSE Next(i, f[i - 1])
    BY <2>4, <2>5
  <2>7. f = [i \in 0 .. L |-> f[i]]
    BY <2>4
  <2>8. f = Def(f)
    BY <2>6, <2>7, Zenon
  <2>. QED BY <2>8
<1>. DEFINE s == CHOOSE g : g = Def(g)
<1>5. s = Def(s)
  BY <1>4
<1>. HIDE DEF s
<1>6. s[0] = {} /\ \A i \in 1 .. L : s[i] = Next(i, s[i - 1])
  <2>1. \A i \in 0 .. L : s[i] = IF i = 0 THEN {} ELSE Next(i, s[i - 1])
    BY <1>5, Zenon
  <2>2. 0 \in 0 .. L /\ \A i \in 1 .. L : i \in 0 .. L /\ i # 0
    OBVIOUS
  <2>. QED BY <2>1, <2>2, Zenon
<1>. HIDE DEF Def, P
<1>. DEFINE Good(i) == /\ s[i] \in SUBSET (1 .. i) /\ \A j \in s[i] : Occurs(term, text, j)
                       /\ \A p \in 1 .. i : Occurs(term, text, p) =>
                             \E j \in s[i] : j <= p /\ p < j + n
            T == {i \in Nat : i <= L => Good(i)}
<1>7. 0 \in T /\ T \in SUBSET Nat
  BY <1>6
<1>. HIDE DEF Good
<1>8. ASSUME NEW i \in T PROVE i + 1 \in T
  <2>1. SUFFICES ASSUME i + 1 <= L PROVE Good(i + 1)
    BY <1>7
  <2>2. i \in Nat /\ i + 1 \in 1 .. L /\ (i + 1) - 1 = i
    BY <1>7, <2>1
  <2>3. Good(i)
    BY <2>2
  <2>4. s[i + 1] = Next(i + 1, s[i])
    BY <1>6, <2>2
  <2>5. (\A x \in 1 .. i : x \in 1 .. i + 1) /\ \A x \in 1 .. i + 1 : x \in 1 .. i \/ x = i + 1
    BY <2>2
  <2>6. CASE Occurs(term, text, i + 1) /\ \A j \in s[i] : j + n <= i + 1
    <3>1. s[i + 1] = s[i] \cup {i + 1}
      BY <2>4, <2>6 DEF Next
    <3>2. s[i + 1] \in SUBSET (1 .. i + 1)
      BY <2>2, <2>3, <2>5, <3>1 DEF Good
    <3>3. i + 1 <= i + 1 /\ i + 1 < i + 1 + n
      BY <2>2
    <3>4. \A j \in s[i + 1] : Occurs(term, text, j)
      BY <2>3, <2>6, <3>1 DEF Good
    <3>5. \A p \in 1 .. i + 1 : Occurs(term, text, p) => \E j \in s[i + 1] : j <= p /\ p < j + n
      BY <2>3, <2>5, <3>1, <3>3 DEF Good
    <3>. QED BY <3>2, <3>4, <3>5 DEF Good
  <2>7. CASE ~(Occurs(term, text, i + 1) /\ \A j \in s[i] : j + n <= i + 1)
    <3>1. s[i + 1] = s[i]
      BY <2>4, <2>7 DEF Next
    <3>2. s[i + 1] \in SUBSET (1 .. i + 1)
      BY <2>3, <2>5, <3>1 DEF Good
    <3>3. Occurs(term, text, i + 1) => \E j \in s[i] : j <= i + 1 /\ i + 1 < j + n
      <4>1. SUFFICES ASSUME Occurs(term, text, i + 1)
                     PROVE  \E j \in s[i] : j <= i + 1 /\ i + 1 < j + n
        OBVIOUS
      <4>2. PICK j \in s[i] : ~(j + n <= i + 1)
        BY <2>7, <4>1
      <4>3. j \in 1 .. i
        BY <2>3 DEF Good
      <4>4. j <= i + 1 /\ i + 1 < j + n
        BY <2>2, <4>2, <4>3
      <4>. QED BY <4>4
    <3>4. \A j \in s[i + 1] : Occurs(term, text, j)
      BY <2>3, <3>1 DEF Good
    <3>5. \A p \in 1 .. i + 1 : Occurs(term, text, p) => \E j \in s[i + 1] : j <= p /\ p < j + n
      BY <2>3, <2>5, <3>1, <3>3 DEF Good
    <3>. QED BY <3>2, <3>4, <3>5 DEF Good
  <2>. QED BY <2>6, <2>7
<1>. HIDE DEF T
<1>9. L \in T
  BY <1>7, <1>8, NatSet
<1>10. Good(L)
  BY <1>9 DEF T
<1>11. Replaced(text, term) = s[L]
  BY <1>3 DEF s
<1>. QED BY <1>1, <1>10, <1>11 DEF Good

\* Replacing a term masks letters of the text, and leaves the term nowhere.
LEMMA ReplaceMasks ==
    ASSUME NEW text \in Seq(Marks), NEW k \in DOMAIN Terms
    PROVE  LET u == ReplaceTerm(text, Terms[k]) IN
           /\ IsMasked(u, text)
           /\ \A i \in 1 .. Len(u) : ~Occurs(Terms[k], u, i)
<1>1. PICK term \in Seq(Letters), n \in Nat \ {0} : term = Terms[k] /\ n = Len(term)
  BY TermsNonempty
<1>2. PICK L \in Nat : L = Len(text)
  OBVIOUS
<1>3. PICK z : z = Replaced(text, term)
  OBVIOUS
<1>4. z \in SUBSET (1 .. L) /\ \A j \in z : Occurs(term, text, j)
  BY <1>1, <1>2, <1>3, ReplacedAre
<1>5. \A i \in 1 .. L : Occurs(term, text, i) => \E j \in z : j <= i /\ i < j + n
  BY <1>1, <1>2, <1>3, ReplacedAre
<1>6. PICK u : u = ReplaceTerm(text, term)
  OBVIOUS
<1>7. u = [i \in 1 .. L |-> IF \E j \in z : i - j + 1 \in Hidden(term) THEN Mask ELSE text[i]]
  BY <1>2, <1>3, <1>6 DEF ReplaceTerm
<1>8. IsMasked(u, text)
  <2>1. \A i \in 1 .. L : u[i] \in Marks /\ (u[i] = text[i] \/ u[i] = Mask)
    BY <1>2, <1>7 DEF Marks
  <2>2. u \in [1 .. L -> Marks]
    BY <1>7, <2>1
  <2>. QED BY <1>2, <2>1, <2>2 DEF IsMasked
<1>9. ASSUME NEW i \in 1 .. L, Occurs(term, u, i) PROVE FALSE
  <2>1. u \in Seq(Marks) /\ Len(u) = L /\ \A q \in 1 .. L : u[q] = text[q] \/ u[q] = Mask
    BY <1>2, <1>8 DEF IsMasked
  <2>2. i + n - 1 <= L /\ \A q \in 1 .. n : u[i + q - 1] = term[q]
    <3>1. i \in 1 .. Len(u)
      BY <2>1
    <3>2. u \in Seq(Marks)
      BY <2>1
    <3>3. \A p \in 1 .. Len(u) : Occurs(term, u, p) <=>
             p + n - 1 <= Len(u) /\ \A q \in 1 .. n : u[p + q - 1] = term[q]
      BY <1>1, <3>2, OccursMarked
    <3>. QED BY <1>9, <2>1, <3>1, <3>3
  <2>3. \A q \in 1 .. n : term[q] \in Letters /\ term[q] # Mask
    BY <1>1, GuardrailAssumption
  <2>4. \A q \in 1 .. n : i + q - 1 \in 1 .. L
    BY <2>2
  <2>5. \A q \in 1 .. n : text[i + q - 1] = term[q] /\ u[i + q - 1] # Mask
    BY <2>1, <2>2, <2>3, <2>4
  <2>6. Occurs(term, text, i)
    <3>1. \A p \in 1 .. Len(text) : Occurs(term, text, p) <=>
             p + n - 1 <= Len(text) /\ \A q \in 1 .. n : text[p + q - 1] = term[q]
      BY <1>1, OccursMarked
    <3>. QED BY <1>2, <2>2, <2>5, <3>1
  <2>7. PICK j \in z : j <= i /\ i < j + n
    BY <1>5, <2>6
  <2>8. j \in 1 .. L /\ Occurs(term, text, j)
    BY <1>4
  <2>9. j + n - 1 <= L /\ \A q \in 1 .. n : text[j + q - 1] = term[q]
    <3>1. j \in 1 .. Len(text)
      BY <1>2, <2>8
    <3>2. \A p \in 1 .. Len(text) : Occurs(term, text, p) <=>
             p + n - 1 <= Len(text) /\ \A q \in 1 .. n : text[p + q - 1] = term[q]
      BY <1>1, OccursMarked
    <3>. QED BY <1>2, <2>8, <3>1, <3>2
  <2>10. ASSUME NEW p \in 1 .. L, p - j + 1 \in Hidden(term) PROVE u[p] = Mask
    BY <1>7, <2>10
  <2>11. ASSUME NEW q \in 1 .. n, i + q - 1 - j + 1 \in Hidden(term) PROVE FALSE
    <3>1. i + q - 1 \in 1 .. L /\ u[i + q - 1] # Mask
      BY <2>4, <2>5
    <3>2. PICK p \in 1 .. L : p = i + q - 1
      BY <3>1
    <3>3. u[p] # Mask /\ p - j + 1 \in Hidden(term)
      <4>1. i + q - 1 - j + 1 = p - j + 1
        BY <2>8, <3>2
      <4>. QED BY <2>11, <3>1, <3>2, <4>1
    <3>. QED BY <2>10, <3>3
  <2>12. CASE n = 1
    <3>1. 1 \in 1 .. n /\ i + 1 - 1 - j + 1 = 1
      BY <2>7, <2>8, <2>12
    <3>2. 1 \in Hidden(term)
      BY <1>1, <2>12 DEF Hidden
    <3>. QED BY <2>11, <3>1, <3>2
  <2>13. CASE n = 2
    <3>1. 2 \in Hidden(term)
      BY <1>1, <2>13 DEF Hidden
    <3>2. CASE i = j
      <4>1. 2 \in 1 .. n /\ i + 2 - 1 - j + 1 = 2
        BY <2>8, <2>13, <3>2
      <4>. QED BY <2>11, <3>1, <4>1
    <3>3. CASE i # j
      <4>1. 1 \in 1 .. n /\ i + 1 - 1 - j + 1 = 2
        BY <2>7, <2>8, <2>13, <3>3
      <4>. QED BY <2>11, <3>1, <4>1
    <3>. QED BY <3>2, <3>3
  <2>14. CASE n >= 3
    <3>1. \A h \in 2 .. n - 1 : h \in Hidden(term)
      BY <1>1, <2>14 DEF Hidden
    <3>2. CASE i = j
      <4>1. 2 \in 1 .. n /\ i + 2 - 1 - j + 1 \in 2 .. n - 1
        BY <2>8, <2>14, <3>2
      <4>. QED BY <2>11, <3>1, <4>1
    <3>3. CASE i # j /\ i # j + n - 1
      <4>1. 1 \in 1 .. n /\ i + 1 - 1 - j + 1 \in 2 .. n - 1
        BY <2>7, <2>8, <3>3
      <4>. QED BY <2>11, <3>1, <4>1
    <3>4. CASE i = j + n - 1
      <4>1. 1 \in 1 .. n /\ n \in 1 .. n /\ i + 1 - 1 = i
        OBVIOUS
      <4>2. text[i] = term[n] /\ text[i] = term[1]
        BY <2>5, <2>9, <3>4, <4>1
      <4>3. term[1] # term[n]
        BY <1>1, <2>14, GuardrailAssumption
      <4>. QED BY <4>2, <4>3
    <3>. QED BY <3>2, <3>3, <3>4
  <2>. QED BY <2>12, <2>13, <2>14
<1>10. Len(u) = L
  BY <1>2, <1>8 DEF IsMasked
<1>. QED BY <1>1, <1>6, <1>8, <1>9, <1>10

\* A term that is in a text with letters masked is in the text.
LEMMA MaskedOccurs ==
    ASSUME NEW t \in Seq(Marks), NEW u, IsMasked(u, t), NEW k \in DOMAIN Terms,
           NEW i \in 1 .. Len(u), Occurs(Terms[k], u, i)
    PROVE  i \in 1 .. Len(t) /\ Occurs(Terms[k], t, i)
<1>1. PICK term \in Seq(Letters), n \in Nat \ {0} : term = Terms[k] /\ n = Len(term)
  BY TermsNonempty
<1>2. PICK L \in Nat : L = Len(t)
  OBVIOUS
<1>3. u \in Seq(Marks) /\ Len(u) = L /\ \A q \in 1 .. L : u[q] = t[q] \/ u[q] = Mask
  BY <1>2 DEF IsMasked
<1>4. i \in 1 .. L
  BY <1>3
<1>5. i + n - 1 <= L /\ \A q \in 1 .. n : u[i + q - 1] = term[q]
  <2>1. i \in 1 .. Len(u) /\ u \in Seq(Marks)
    BY <1>3
  <2>2. \A p \in 1 .. Len(u) : Occurs(term, u, p) <=>
           p + n - 1 <= Len(u) /\ \A q \in 1 .. n : u[p + q - 1] = term[q]
    BY <1>1, <2>1, OccursMarked
  <2>3. Occurs(term, u, i)
    BY <1>1
  <2>. QED BY <1>3, <2>1, <2>2, <2>3
<1>6. \A q \in 1 .. n : term[q] \in Letters /\ term[q] # Mask
  BY <1>1, GuardrailAssumption
<1>7. \A q \in 1 .. n : i + q - 1 \in 1 .. L
  BY <1>4, <1>5
<1>8. \A q \in 1 .. n : t[i + q - 1] = term[q]
  BY <1>3, <1>5, <1>6, <1>7
<1>9. Occurs(term, t, i)
  <2>1. \A p \in 1 .. Len(t) : Occurs(term, t, p) <=>
           p + n - 1 <= Len(t) /\ \A q \in 1 .. n : t[p + q - 1] = term[q]
    BY <1>1, OccursMarked
  <2>. QED BY <1>2, <1>4, <1>5, <1>8, <2>1
<1>. QED BY <1>1, <1>2, <1>4, <1>9

\* Once a term has been masked it is nowhere, and no later mask brings it back.
LEMMA SanitizedUnhit ==
    ASSUME NEW text \in Seq(Letters)
    PROVE  Hits(SanitizeEvidence(text)) = {}
<1>1. PICK K \in Nat : K = Len(Terms)
  BY GuardrailAssumption
<1>2. DOMAIN Terms = 1 .. K
  BY <1>1, GuardrailAssumption
<1>3. text \in Seq(Marks)
  BY DEF Marks
<1>. DEFINE Masking(k, t) == ReplaceTerm(t, Terms[k])
            Def(f) == [k \in 0 .. K |-> IF k = 0 THEN text ELSE Masking(k, f[k - 1])]
<1>4. ASSUME NEW k \in 1 .. K, NEW t \in Seq(Marks)
      PROVE  /\ Masking(k, t) \in Seq(Marks) /\ IsMasked(Masking(k, t), t)
             /\ \A i \in 1 .. Len(Masking(k, t)) : ~Occurs(Terms[k], Masking(k, t), i)
  BY <1>2, ReplaceMasks DEF IsMasked
<1>5. SanitizeEvidence(text) = (CHOOSE g : g = Def(g))[K]
  BY <1>1 DEF SanitizeEvidence
<1>. HIDE DEF Masking
<1>6. \E f : f = Def(f)
  <2>. DEFINE step == [k \in 1 .. K |-> [t \in Seq(Marks) |-> Masking(k, t)]]
  <2>1. step \in [1 .. K -> [Seq(Marks) -> Seq(Marks)]]
    BY <1>4
  <2>2. \A k \in 1 .. K, t \in Seq(Marks) : step[k][t] = Masking(k, t)
    OBVIOUS
  <2>. HIDE DEF step
  <2>3. PICK W : W = Seq(Marks)
    OBVIOUS
  <2>4. text \in W /\ step \in [1 .. K -> [W -> W]]
    BY <1>3, <2>1, <2>3
  <2>5. PICK f : IsFold(f, W, text, K, step)
    BY <2>4, FoldIs
  <2>6. /\ f \in [0 .. K -> Seq(Marks)] /\ f[0] = text
        /\ \A k \in 1 .. K : f[k] = step[k][f[k - 1]]
    BY <2>3, <2>5 DEF IsFold
  <2>7. ASSUME NEW k \in 1 .. K PROVE f[k] = Masking(k, f[k - 1])
    <3>1. k - 1 \in 0 .. K
      OBVIOUS
    <3>. QED BY <2>2, <2>6, <3>1
  <2>8. \A k \in 0 .. K : f[k] = IF k = 0 THEN text ELSE Masking(k, f[k - 1])
    BY <2>6, <2>7
  <2>9. f = [k \in 0 .. K |-> f[k]]
    BY <2>6
  <2>10. f = Def(f)
    BY <2>8, <2>9, Zenon
  <2>. QED BY <2>10
<1>. DEFINE s == CHOOSE g : g = Def(g)
<1>7. s = Def(s)
  BY <1>6
<1>. HIDE DEF s
<1>8. s[0] = text /\ \A k \in 1 .. K : s[k] = Masking(k, s[k - 1])
  <2>1. \A k \in 0 .. K : s[k] = IF k = 0 THEN text ELSE Masking(k, s[k - 1])
    BY <1>7, Zenon
  <2>2. 0 \in 0 .. K /\ \A k \in 1 .. K : k \in 0 .. K /\ k # 0
    OBVIOUS
  <2>. QED BY <2>1, <2>2, Zenon
<1>. HIDE DEF Def
<1>. DEFINE Clean(k) == /\ s[k] \in Seq(Marks)
                        /\ \A m \in 1 .. k : \A i \in 1 .. Len(s[k]) : ~Occurs(Terms[m], s[k], i)
            T == {k \in Nat : k <= K => Clean(k)}
<1>9. Clean(0)
  BY <1>3, <1>8
<1>10. ASSUME NEW k \in Nat, k + 1 <= K, Clean(k) PROVE Clean(k + 1)
  <2>1. k + 1 \in 1 .. K /\ (k + 1) - 1 = k
    BY <1>10
  <2>2. PICK t \in Seq(Marks) : t = s[k]
    BY <1>10
  <2>3. \A m \in 1 .. k : \A i \in 1 .. Len(t) : ~Occurs(Terms[m], t, i)
    BY <1>10, <2>2
  <2>4. PICK u : u = Masking(k + 1, t)
    OBVIOUS
  <2>5. s[k + 1] = u
    BY <1>8, <2>1, <2>2, <2>4
  <2>6. u \in Seq(Marks) /\ IsMasked(u, t) /\ \A i \in 1 .. Len(u) : ~Occurs(Terms[k + 1], u, i)
    BY <1>4, <2>1, <2>4
  <2>7. ASSUME NEW m \in 1 .. k + 1, NEW i \in 1 .. Len(u) PROVE ~Occurs(Terms[m], u, i)
    <3>1. CASE m = k + 1
      BY <2>6, <3>1
    <3>2. CASE m # k + 1
      <4>1. m \in 1 .. k /\ m \in DOMAIN Terms
        BY <1>2, <1>10, <3>2
      <4>. QED BY <2>3, <2>6, <4>1, MaskedOccurs
    <3>. QED BY <3>1, <3>2
  <2>. QED BY <2>5, <2>6, <2>7
<1>. HIDE DEF Clean
<1>11. 0 \in T /\ T \in SUBSET Nat
  BY <1>9
<1>12. ASSUME NEW k \in T PROVE k + 1 \in T
  BY <1>10
<1>. HIDE DEF T
<1>13. K \in T
  BY <1>11, <1>12, NatSet
<1>14. Clean(K)
  BY <1>13 DEF T
<1>15. PICK t \in Seq(Marks) : t = SanitizeEvidence(text)
  BY <1>5, <1>14 DEF Clean, s
<1>16. \A m \in 1 .. K : \A i \in DOMAIN t : ~Occurs(Terms[m], t, i)
  BY <1>5, <1>14, <1>15 DEF Clean, s
<1>17. Hits(t) = {}
  BY <1>2, <1>16, HitsAre
<1>. QED BY <1>15, <1>17

-----------------------------------------------------------------------------
(* The deny list: the filter *)

\* Whatever the sentence, what is made of it is free of the terms.
LEMMA Filtered ==
    ASSUME NEW text \in Seq(Letters)
    PROVE  /\ ~HasDenylistHit(FilterChunk(text).text)
           /\ FilterChunk(text).action # "block" => FilterChunk(text).text = Softened(text)
<1>1. CASE Hits(text) = {}
  <2>1. FilterChunk(text).text = text
    BY <1>1 DEF FilterChunk
  <2>. QED BY <1>1, <2>1, UnhitIsSoftened DEF HasDenylistHit
<1>2. CASE Hits(text) # {} /\ 10 * Cardinality(Covered(text)) >= BlockTenths * Len(text)
  <2>1. FilterChunk(text).text = <<>> /\ FilterChunk(text).action = "block"
    BY <1>2 DEF FilterChunk
  <2>2. Hits(<<>>) = {}
    <3>1. <<>> \in Seq(Letters) /\ DOMAIN <<>> = {}
      OBVIOUS
    <3>. QED BY <3>1, HitsAre
  <2>. QED BY <2>1, <2>2 DEF HasDenylistHit
<1>3. CASE Hits(text) # {} /\ ~(10 * Cardinality(Covered(text)) >= BlockTenths * Len(text))
  <2>1. FilterChunk(text).text = ApplySubstitutions(text)
    BY <1>3 DEF FilterChunk
  <2>. QED BY <2>1, SubstitutedIsSoftened, SoftenedUnhit DEF HasDenylistHit
<1>. QED BY <1>1, <1>2, <1>3

\* A sentence stays a sequence of letters, no longer than the bound.
LEMMA SentenceSteps == GuardrailTypeOK /\ [NextSentence]_sentence => GuardrailTypeOK'
<1>1. SUFFICES ASSUME GuardrailTypeOK, [NextSentence]_sentence PROVE GuardrailTypeOK'
  OBVIOUS
<1>2. CASE UNCHANGED sentence
  BY <1>1, <1>2 DEF GuardrailTypeOK
<1>3. ASSUME NEW c \in Letters, Len(sentence) < MaxSentence, sentence' = Append(sentence, c)
      PROVE  GuardrailTypeOK'
  <2>1. sentence' \in Seq(Letters) /\ Len(sentence') = Len(sentence) + 1 /\ Len(sentence) \in Nat
    BY <1>1, <1>3 DEF GuardrailTypeOK
  <2>. QED BY <1>3, <2>1, GuardrailAssumption DEF GuardrailTypeOK
<1>. QED BY <1>1, <1>2, <1>3 DEF NextSentence

\* No sentence a listener gets and no audit row has a denied term in it.
THEOREM NothingDenied == GuardrailSpec => []NothingDeniedIsHeard
<1>1. GuardrailInit => GuardrailTypeOK
  BY GuardrailAssumption DEF GuardrailInit, GuardrailTypeOK
<1>2. GuardrailTypeOK => NothingDeniedIsHeard
  <2>1. SUFFICES ASSUME GuardrailTypeOK PROVE NothingDeniedIsHeard
    OBVIOUS
  <2>2. PICK text \in Seq(Letters) : text = sentence
    BY <2>1 DEF GuardrailTypeOK
  <2>3. /\ ~HasDenylistHit(FilterChunk(text).text)
        /\ FilterChunk(text).action # "block" => FilterChunk(text).text = Softened(text)
    BY Filtered
  <2>4. ~HasDenylistHit(SanitizeEvidence(text))
    BY SanitizedUnhit DEF HasDenylistHit
  <2>. QED BY <2>2, <2>3, <2>4 DEF NothingDeniedIsHeard
<1>. QED BY <1>1, <1>2, SentenceSteps, PTL DEF GuardrailSpec
=============================================================================
