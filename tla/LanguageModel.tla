----------------------------- MODULE LanguageModel -----------------------------
(***************************************************************************)
(* AnthropicLLMClient.stream, as ClaudeAdapter calls it.  A call makes at  *)
(* most three attempts.  An attempt collects the tokens of one provider    *)
(* stream and, once the stream is complete, appends a CostRecord to the    *)
(* tracker its caller shares between calls; only then does the caller get  *)
(* the tokens, one by one.  An attempt that fails with a retryable error   *)
(* throws its tokens away and is made again after a pause; any other       *)
(* failure is raised.  The limit of time is an attempt's own.              *)
(***************************************************************************)
EXTENDS Naturals, Sequences

CONSTANTS LlmCalls,             \* calls of stream that share a CostTracker
          MaxTries,             \* 3
          MaxTokens             \* bound on the tokens of a provider stream

ASSUME LlmAssumption == MaxTries \in Nat \ {0} /\ MaxTokens \in Nat

VARIABLES llm,          \* where each call is
          cost_records  \* CostTracker.records

llmState == <<llm, cost_records>>

-----------------------------------------------------------------------------
(* Types *)

SONNET_4_6 == "sonnet"
HAIKU_4_5  == "haiku"
Categories == {"saju", "followup", "tarot", "other"}

\* _route_category and select_model.
SelectModel(category) == IF category = "saju" THEN SONNET_4_6 ELSE HAIKU_4_5

Running == {"opening", "streaming", "pausing"}
Failed  == {"LLMTimeoutError", "LLMClientError", "sdk_error"}
LlmStages == {"idle", "yielding", "closed"} \cup Running \cup Failed

\* attempt: which attempt is under way; tokens: what it has collected, each
\* token named by the attempt that streamed it; yielded: what the caller got.
LlmCall == [stage : LlmStages, model : {SONNET_4_6, HAIKU_4_5}, attempt : 0 .. MaxTries,
            tokens : Seq(1 .. MaxTries), yielded : Seq(1 .. MaxTries)]

LlmTypeOK ==
    /\ llm \in [LlmCalls -> LlmCall]
    /\ cost_records \in Seq([call : LlmCalls, model : {SONNET_4_6, HAIKU_4_5},
                             output_tokens : Nat])

LlmInit ==
    /\ llm = [c \in LlmCalls |->
          [stage |-> "idle", model |-> HAIKU_4_5, attempt |-> 0,
           tokens |-> <<>>, yielded |-> <<>>]]
    /\ cost_records = <<>>

-----------------------------------------------------------------------------
(* Actions *)

LlmAt(c, stages) == llm[c].stage \in stages

StreamText(c, category) ==
    /\ LlmAt(c, {"idle"})
    /\ llm' = [llm EXCEPT ![c].stage = "opening", ![c].attempt = 1,
                          ![c].model = SelectModel(category)]
    /\ UNCHANGED cost_records

\* The provider's stream opens and brings a token.
CollectToken(c) ==
    /\ LlmAt(c, {"opening", "streaming"})
    /\ Len(llm[c].tokens) < MaxTokens
    /\ llm' = [llm EXCEPT ![c].stage = "streaming", ![c].tokens = Append(@, llm[c].attempt)]
    /\ UNCHANGED cost_records

RecordCost(c) ==
    cost_records' = Append(cost_records,
        [call |-> c, model |-> llm[c].model, output_tokens |-> Len(llm[c].tokens)])

\* _consume_stream: the final message has come; the cost is recorded and the
\* tokens are handed on.
CompleteStream(c) ==
    /\ LlmAt(c, {"opening", "streaming"})
    /\ RecordCost(c)
    /\ llm' = [llm EXCEPT ![c].stage = "yielding"]

TryAgain_KeepsTokens(c) ==
    /\ LlmAt(c, {"pausing"})
    /\ llm' = [llm EXCEPT ![c].stage = "opening", ![c].attempt = @ + 1]
    /\ UNCHANGED cost_records

\* The pause is over: the next attempt starts from nothing.
TryAgain(c) ==
    /\ LlmAt(c, {"pausing"})
    /\ llm' = [llm EXCEPT ![c].stage = "opening", ![c].attempt = @ + 1, ![c].tokens = <<>>]
    /\ UNCHANGED cost_records

\* _is_retryable and the last attempt: a status of 500 and more, or the
\* connection lost.  The SDK's own timeout is a connection error too: it is
\* tried again, and raised as LLMTimeoutError in the end.
RetryableError(c, timeout) ==
    /\ LlmAt(c, {"opening", "streaming"})
    /\ llm' = [llm EXCEPT ![c].stage =
          IF llm[c].attempt < MaxTries THEN "pausing"
          ELSE IF timeout THEN "LLMTimeoutError" ELSE "LLMClientError"]
    /\ UNCHANGED cost_records

\* Another status, an error the SDK does not wrap, or the attempt's limit of
\* time (wait_for): none is tried again.
FinalError(c, error) ==
    /\ LlmAt(c, {"opening", "streaming"})
    /\ llm' = [llm EXCEPT ![c].stage = error]
    /\ UNCHANGED cost_records

YieldToken(c) ==
    LET next == Len(llm[c].yielded) + 1 IN
    /\ LlmAt(c, {"yielding"})
    /\ next <= Len(llm[c].tokens)
    /\ llm' = [llm EXCEPT ![c].yielded = Append(@, llm[c].tokens[next])]
    /\ UNCHANGED cost_records

\* The caller has all the tokens; or it leaves, at any time, and the attempt
\* under way is cancelled.
CloseStream(c) ==
    /\ LlmAt(c, Running \cup {"yielding"})
    /\ llm' = [llm EXCEPT ![c].stage = "closed"]
    /\ UNCHANGED cost_records

LlmNext ==
    \E c \in LlmCalls :
        \/ \E category \in Categories : StreamText(c, category)
        \/ CollectToken(c) \/ CompleteStream(c) \/ TryAgain(c)
        \/ \E timeout \in BOOLEAN : RetryableError(c, timeout)
        \/ \E error \in Failed : FinalError(c, error)
        \/ YieldToken(c) \/ CloseStream(c)

LlmSpec == LlmInit /\ [][LlmNext]_llmState

-----------------------------------------------------------------------------
(* Properties *)

RecordsOf(c) == {i \in DOMAIN cost_records : cost_records[i].call = c}

\* What a caller hears comes from one attempt, the last one; a call whose
\* caller heard anything has exactly one CostRecord, under the model it asked
\* for and for all the tokens of that attempt; a call that raised has none,
\* however many attempts it made.
BilledForWhatIsHeard ==
    \A c \in LlmCalls :
        /\ \A i \in DOMAIN llm[c].yielded : llm[c].yielded[i] = llm[c].attempt
        /\ llm[c].yielded # <<>> =>
              \E i \in RecordsOf(c) :
                  /\ RecordsOf(c) = {i}
                  /\ cost_records[i].model = llm[c].model
                  /\ cost_records[i].output_tokens >= Len(llm[c].yielded)
        /\ llm[c].stage \in Running \cup Failed => RecordsOf(c) = {}
=============================================================================
