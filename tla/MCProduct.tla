------------------------------ MODULE MCProduct ------------------------------
(***************************************************************************)
(* Small instances of the modules a member's readings, cards and shares    *)
(* come from, for TLC.  They share no variable, so one run explores them   *)
(* one at a time: the initial state chooses which of them moves.           *)
(***************************************************************************)
EXTENDS Readings, Tarot, ShareCards, SajuEngine, Speech, LanguageModel,
        Guardrail, RateLimit, History, TLC

CONSTANTS ma, mb, mc, md        \* letters of the denied terms

MCTerms == <<<<ma, mb, mc>>, <<ma, mb>>, <<mb, mc>>, <<md>>>>

VARIABLE focus

vars == <<readings, tarot, shares, born, speaking, llmState, sentence, rates, listings, focus>>

Init ==
    /\ ReadingsInit /\ TarotInit /\ SharesInit /\ BornInit
    /\ SpeechInit /\ LlmInit /\ GuardrailInit /\ RateInit /\ HistoryInit
    /\ focus \in {"readings", "tarot", "shares", "saju", "speech", "llm", "guardrail", "rates",
                  "history"}

Next ==
    \/ /\ focus = "readings" /\ ReadingsNext
       /\ UNCHANGED <<tarot, shares, born, speaking, llmState, sentence, rates, listings, focus>>
    \/ /\ focus = "tarot" /\ TarotNext
       /\ UNCHANGED <<readings, shares, born, speaking, llmState, sentence, rates, listings, focus>>
    \/ /\ focus = "shares" /\ SharesNext
       /\ UNCHANGED <<readings, tarot, born, speaking, llmState, sentence, rates, listings, focus>>
    \/ /\ focus = "saju" /\ BornNext
       /\ UNCHANGED <<readings, tarot, shares, speaking, llmState, sentence, rates, listings, focus>>
    \/ /\ focus = "speech" /\ SpeechNext
       /\ UNCHANGED <<readings, tarot, shares, born, llmState, sentence, rates, listings, focus>>
    \/ /\ focus = "llm" /\ LlmNext
       /\ UNCHANGED <<readings, tarot, shares, born, speaking, sentence, rates, listings, focus>>
    \/ /\ focus = "guardrail" /\ NextSentence
       /\ UNCHANGED <<readings, tarot, shares, born, speaking, llmState, rates, listings, focus>>
    \/ /\ focus = "rates" /\ RateNext
       /\ UNCHANGED <<readings, tarot, shares, born, speaking, llmState, sentence, listings, focus>>
    \/ /\ focus = "history" /\ HistoryNext
       /\ UNCHANGED <<readings, tarot, shares, born, speaking, llmState, sentence, rates, focus>>

Spec == Init /\ [][Next]_vars

\* Every row, request, buffer and counter of the module that moves stays of its
\* type, and every pillar of a chart is one of the sixty there are.
TypeOK ==
    /\ focus = "readings"  => ReadingsTypeOK
    /\ focus = "tarot"     => TarotTypeOK
    /\ focus = "shares"    => SharesTypeOK
    /\ focus = "saju"      => BornTypeOK
    /\ focus = "speech"    => SpeechTypeOK
    /\ focus = "llm"       => LlmTypeOK
    /\ focus = "guardrail" => GuardrailTypeOK
    /\ focus = "rates"     => RateTypeOK
    /\ focus = "history"   => HistoryTypeOK

\* The modules take their tasks, rows and jobs from the same model values, so
\* that each permutation serves all of them.
Symmetry == Permutations(Makers) \cup Permutations(Cards) \cup Permutations(Bakers)
=============================================================================
