------------------------------- MODULE Readings -------------------------------
(***************************************************************************)
(* Opening a reading and asking about it.  POST /reading looks for a row   *)
(* of the same Idempotency-Key, reads the caller's free token and then     *)
(* subscription, and inserts.  POST /reading/{id}/followups/{slot} makes   *)
(* up the question again, reserves the slot under a unique index, streams  *)
(* the answer and saves it when the stream is over.  Each handler is split *)
(* at its awaits; the client may leave in the middle of a stream.          *)
(*                                                                         *)
(* The stream of the reading itself is ReadingAudio.                       *)
(***************************************************************************)
EXTENDS Naturals

CONSTANTS Members,                  \* users.id values
          Rids,                     \* readings.id values
          Keys,                     \* Idempotency-Key headers
          Null,                     \* no header, no reading
          Calls,                    \* tasks of the web process
          FOLLOWUP_SUGGEST_COUNT,
          MaxClips                  \* bound on the audio chunks of an answer

ASSUME ReadingsAssumption ==
    /\ FOLLOWUP_SUGGEST_COUNT \in Nat /\ MaxClips \in Nat
    /\ Null \notin Keys

VARIABLES token,        \* members with an unconsumed free token
          credit,       \* the active subscription's monthly_saju_remaining
          reading,      \* the readings table
          followup,     \* the reading_followups table
          call,         \* what each request has read and where it is
          named,        \* readings answered 201, by member and key
          answers,      \* answer streams begun, by reading and slot
          clips         \* stored audio chunks of answers

readings == <<token, credit, reading, followup, call, named, answers, clips>>

-----------------------------------------------------------------------------
(* Types *)

Credits == {"no_subscription", "used_up", "left"}
Kinds   == {"free_token", "subscription", "none"}
Slots   == 0 .. FOLLOWUP_SUGGEST_COUNT - 1

NoReading == [row |-> FALSE]
Reading   == [row : {TRUE}, user : Members, key : Keys \cup {Null},
              entitlement_kind : {"free_token", "subscription"}, retried : BOOLEAN]

\* The question is the language model's or the fallback bank's.
NoFollowup == [row |-> FALSE]
Followup   == [row : {TRUE}, question : {"llm", "bank"}, answered : BOOLEAN,
               audio_r2_key : BOOLEAN]

Free   == [stage |-> "free"]
Create == [stage : {"token", "credit", "insert"}, user : Members,
           key : Keys \cup {Null}, kind : Kinds, retry : BOOLEAN]
Ask    == [stage : {"suggest", "reserve", "sentence", "save"}, rid : Rids,
           slot : Slots, question : {"none", "llm", "bank"}, seq : 0 .. MaxClips]

ReadingsTypeOK ==
    /\ token \subseteq Members
    /\ credit \in [Members -> Credits]
    /\ reading \in [Rids -> Reading \cup {NoReading}]
    /\ followup \in [Rids \X Slots -> Followup \cup {NoFollowup}]
    /\ call \in [Calls -> Create \cup Ask \cup {Free}]
    /\ named \subseteq Members \X Keys \X Rids
    /\ answers \in [Rids \X Slots -> Nat]
    /\ clips \subseteq Rids \X Slots \X Nat

ReadingsInit ==
    /\ token = {}
    /\ credit = [u \in Members |-> "no_subscription"]
    /\ reading = [r \in Rids |-> NoReading]
    /\ followup = [p \in Rids \X Slots |-> NoFollowup]
    /\ call = [c \in Calls |-> Free]
    /\ named = {}
    /\ answers = [p \in Rids \X Slots |-> 0]
    /\ clips = {}

-----------------------------------------------------------------------------
(* Helpers *)

At(c, stage) == call[c].stage = stage
Return(c)    == call' = [call EXCEPT ![c] = Free]

Opened(u, k) == {r \in Rids : reading[r].row /\ reading[r].user = u /\ reading[r].key = k}
Named(u, k)  == {r \in Rids : <<u, k, r>> \in named}

Answer201(u, k, r) == named' = IF k = Null THEN named ELSE named \cup {<<u, k, r>>}

\* readings_entitlement_chk: the kind comes with the id of what it is.
EntitlementChk(kind, free_token_id, subscription_id) ==
    \/ kind = "free_token" /\ free_token_id
    \/ kind = "subscription" /\ subscription_id

-----------------------------------------------------------------------------
(* What others do to the tables read here *)

\* A sign-up bonus or the compensation for a failed reading.
GrantToken(u) ==
    /\ token' = token \cup {u}
    /\ UNCHANGED <<credit, reading, followup, call, named, answers, clips>>

\* The subscription begins, is renewed, is used up or ends.
TurnSubscription(u) ==
    /\ \E s \in Credits : credit' = [credit EXCEPT ![u] = s]
    /\ UNCHANGED <<token, reading, followup, call, named, answers, clips>>

-----------------------------------------------------------------------------
(* POST /reading *)

FindByKey_NoLookup(c, u, k) ==
    /\ call[c] = Free
    /\ call' = [call EXCEPT ![c] = [stage |-> "token", user |-> u, key |-> k,
                                    kind |-> "none", retry |-> Named(u, k) # {}]]
    /\ UNCHANGED <<token, credit, reading, followup, named, answers, clips>>

\* One row of this key is the answer; two are more than scalar_one_or_none
\* takes, a 500.
FindByKey(c, u, k) ==
    /\ call[c] = Free
    /\ IF k = Null \/ Opened(u, k) = {}
       THEN /\ call' = [call EXCEPT ![c] = [stage |-> "token", user |-> u, key |-> k,
                                            kind |-> "none", retry |-> Named(u, k) # {}]]
            /\ UNCHANGED named
       ELSE /\ IF \E r \in Rids : Opened(u, k) = {r}
               THEN \E r \in Opened(u, k) : Answer201(u, k, r)
               ELSE UNCHANGED named
            /\ UNCHANGED call
    /\ UNCHANGED <<token, credit, reading, followup, answers, clips>>

\* The oldest unconsumed token of the user; expires_at is not looked at.
FindActiveFreeToken(c) ==
    /\ At(c, "token")
    /\ call' = [call EXCEPT ![c].stage = "credit",
                            ![c].kind  = IF call[c].user \in token THEN "free_token" ELSE "none"]
    /\ UNCHANGED <<token, credit, reading, followup, named, answers, clips>>

\* A token is preferred to a subscription; neither is a 402.
FindActiveSubscription(c) ==
    LET kind == IF call[c].kind = "free_token" THEN "free_token"
                ELSE IF credit[call[c].user] = "left" THEN "subscription" ELSE "none"
    IN  /\ At(c, "credit")
        /\ IF kind = "none" THEN Return(c)
           ELSE call' = [call EXCEPT ![c].stage = "insert", ![c].kind = kind]
        /\ UNCHANGED <<token, credit, reading, followup, named, answers, clips>>

\* The row carries the token's id and never that of a subscription; neither
\* the token nor the subscription is drawn on.
InsertReading(c) ==
    LET q == call[c] IN
    /\ At(c, "insert")
    /\ IF EntitlementChk(q.kind, q.kind = "free_token", FALSE)
       THEN \E r \in Rids :
              /\ ~reading[r].row
              /\ reading' = [reading EXCEPT ![r] =
                    [row |-> TRUE, user |-> q.user, key |-> q.key,
                     entitlement_kind |-> q.kind, retried |-> q.retry]]
              /\ Answer201(q.user, q.key, r)
       ELSE UNCHANGED <<reading, named>>
    /\ Return(c)
    /\ UNCHANGED <<token, credit, followup, answers, clips>>

-----------------------------------------------------------------------------
(* POST /reading/{reading_id}/followups/{slot_index} *)

\* 400 and 404 change nothing; a slot that has its row is a 409.
StartFollowup(c, r, s) ==
    /\ call[c] = Free
    /\ reading[r].row
    /\ ~followup[<<r, s>>].row
    /\ call' = [call EXCEPT ![c] = [stage |-> "suggest", rid |-> r, slot |-> s,
                                    question |-> "none", seq |-> 0]]
    /\ UNCHANGED <<token, credit, reading, followup, named, answers, clips>>

\* Three questions of the language model, or the bank's when it raises, does
\* not parse or falls short.
SuggestFollowups(c) ==
    /\ At(c, "suggest")
    /\ \E source \in {"llm", "bank"} :
         call' = [call EXCEPT ![c].stage = "reserve", ![c].question = source]
    /\ UNCHANGED <<token, credit, reading, followup, named, answers, clips>>

ReserveSlot_NoIndex(c) ==
    LET p == <<call[c].rid, call[c].slot>> IN
    /\ At(c, "reserve")
    /\ followup' = [followup EXCEPT ![p] =
          [row |-> TRUE, question |-> call[c].question,
           answered |-> FALSE, audio_r2_key |-> FALSE]]
    /\ answers' = [answers EXCEPT ![p] = @ + 1]
    /\ call' = [call EXCEPT ![c].stage = "sentence"]
    /\ UNCHANGED <<token, credit, reading, named, clips>>

\* The loser of reading_followups_reading_slot_uq gets the 409 as well.
ReserveSlot(c) ==
    LET p == <<call[c].rid, call[c].slot>> IN
    /\ At(c, "reserve")
    /\ IF followup[p].row
       THEN Return(c) /\ UNCHANGED <<followup, answers>>
       ELSE /\ followup' = [followup EXCEPT ![p] =
                  [row |-> TRUE, question |-> call[c].question,
                   answered |-> FALSE, audio_r2_key |-> FALSE]]
            /\ answers' = [answers EXCEPT ![p] = @ + 1]
            /\ call' = [call EXCEPT ![c].stage = "sentence"]
    /\ UNCHANGED <<token, credit, reading, named, clips>>

\* A sentence that passes the guardrail is spoken: its chunks are stored one
\* after another under the slot's prefix and announced.
StoreClip(c) ==
    /\ At(c, "sentence")
    /\ call[c].seq < MaxClips
    /\ clips' = clips \cup {<<call[c].rid, call[c].slot, call[c].seq>>}
    /\ call' = [call EXCEPT ![c].seq = @ + 1]
    /\ UNCHANGED <<token, credit, reading, followup, named, answers>>

\* The model has no more sentences: the end event.
EndAnswer(c) ==
    /\ At(c, "sentence")
    /\ call' = [call EXCEPT ![c].stage = "save"]
    /\ UNCHANGED <<token, credit, reading, followup, named, answers, clips>>

\* The text, and the key of the first chunk if there was one, after the last
\* event has been taken by the client.
SaveAnswer(c) ==
    /\ At(c, "save")
    /\ followup' = [followup EXCEPT ![<<call[c].rid, call[c].slot>>] =
                       [@ EXCEPT !.answered = TRUE, !.audio_r2_key = call[c].seq > 0]]
    /\ Return(c)
    /\ UNCHANGED <<token, credit, reading, named, answers, clips>>

\* The client leaves, or an adapter raises, before the answer is saved: the
\* generator ends where it is and the slot stays taken.
LeaveAnswer(c) ==
    /\ At(c, "sentence") \/ At(c, "save")
    /\ Return(c)
    /\ UNCHANGED <<token, credit, reading, followup, named, answers, clips>>

-----------------------------------------------------------------------------

ReadingsNext ==
    \/ \E u \in Members : GrantToken(u) \/ TurnSubscription(u)
    \/ \E c \in Calls :
         \/ \E u \in Members, k \in Keys \cup {Null} : FindByKey(c, u, k)
         \/ FindActiveFreeToken(c) \/ FindActiveSubscription(c) \/ InsertReading(c)
         \/ \E r \in Rids, s \in Slots : StartFollowup(c, r, s)
         \/ SuggestFollowups(c) \/ ReserveSlot(c)
         \/ StoreClip(c) \/ EndAnswer(c) \/ SaveAnswer(c) \/ LeaveAnswer(c)

ReadingsSpec == ReadingsInit /\ [][ReadingsNext]_readings

-----------------------------------------------------------------------------
(* Properties *)

\* A request that was sent when an earlier one with the same Idempotency-Key
\* had been answered opens no reading, whatever happened to the token and the
\* subscription in between.
RetryOpensNothing == \A r \in Rids : reading[r].row => ~reading[r].retried

\* However many requests race for a slot, one answer is streamed for it; and
\* a saved answer that names audio names a chunk that was stored.
AnsweredOnce ==
    \A r \in Rids, s \in Slots :
        /\ answers[<<r, s>>] <= 1
        /\ followup[<<r, s>>].row /\ followup[<<r, s>>].audio_r2_key => <<r, s, 0>> \in clips

(* What the documents say and the code does not do. *)

\* "when Idempotency-Key is present and matches an existing Reading for the
\* caller, the existing reading is returned (no second row created)".
OneReadingPerKey ==
    \A u \in Members, k \in Keys : \A r1, r2 \in Opened(u, k) : r1 = r2
=============================================================================
