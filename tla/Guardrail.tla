------------------------------- MODULE Guardrail -------------------------------
(***************************************************************************)
(* The deny list.  filter_chunk finds every occurrence of every term, the  *)
(* overlapping ones included, and passes the sentence, rewrites it with    *)
(* one safe phrase for each run of occurrences, or blocks it when too much *)
(* of it is covered.  sanitize_evidence masks the terms, one after the     *)
(* other, in the text of an audit row.                                     *)
(*                                                                         *)
(* The terms are sequences of a few letters that overlap the way the       *)
(* list's do (a term that begins another, one that ends it).  The state is *)
(* a sentence that grows a letter at a time.                               *)
(***************************************************************************)
EXTENDS Naturals, Sequences, FiniteSets

CONSTANTS Letters,              \* what sentences are written with
          Terms,                \* _DENYLIST_TERMS, in its order
          SafePhrase, Mask,     \* the substitute, and the character that masks
          BlockTenths,          \* _BLOCK_DENSITY_THRESHOLD, in tenths
          MaxSentence           \* bound on the letters of a sentence

\* sanitize_evidence keeps the first letter of a term and, of three or more, the
\* last one.  Where the two are the same a term could overlap itself in the
\* letter that is kept, and survive; no term of the list is like that.
ASSUME GuardrailAssumption ==
    /\ Terms \in Seq(Seq(Letters) \ {<<>>})
    /\ \A k \in DOMAIN Terms : Len(Terms[k]) >= 3 => Terms[k][1] # Terms[k][Len(Terms[k])]
    /\ SafePhrase \notin Letters /\ Mask \notin Letters /\ SafePhrase # Mask
    /\ BlockTenths \in 1 .. 10 /\ MaxSentence \in Nat

VARIABLE sentence

-----------------------------------------------------------------------------
(* Helpers *)

Occurs(term, text, i) ==
    /\ i + Len(term) - 1 <= Len(text)
    /\ SubSeq(text, i, i + Len(term) - 1) = term

\* The spans of the automaton's hits.
Hits(text) ==
    UNION {{<<i, i + Len(Terms[k]) - 1>> : i \in {j \in DOMAIN text : Occurs(Terms[k], text, j)}} :
             k \in DOMAIN Terms}

\* _matched_char_count: the characters a hit covers.
Covered(text) == UNION {h[1] .. h[2] : h \in Hits(text)}

\* The merge loop of _apply_substitutions.
Merge_KeepsAdjacent(merged, span) ==
    IF merged # <<>> /\ span[1] <= merged[Len(merged)][2]
    THEN [merged EXCEPT ![Len(merged)] = <<@[1], IF span[2] > @[2] THEN span[2] ELSE @[2]>>]
    ELSE Append(merged, span)

Merge(merged, span) ==
    IF merged # <<>> /\ span[1] <= merged[Len(merged)][2] + 1
    THEN [merged EXCEPT ![Len(merged)] = <<@[1], IF span[2] > @[2] THEN span[2] ELSE @[2]>>]
    ELSE Append(merged, span)

Before(s, t) == s[1] < t[1] \/ (s[1] = t[1] /\ s[2] < t[2])

\* sorted: the n-th span has n - 1 before it.
Sorted(spans) ==
    [n \in 1 .. Cardinality(spans) |->
        CHOOSE s \in spans : Cardinality({t \in spans : Before(t, s)}) = n - 1]

MergedSpans(text) ==
    LET spans == Sorted(Hits(text))
        merged[n \in 0 .. Len(spans)] ==
            IF n = 0 THEN <<>> ELSE Merge(merged[n - 1], spans[n])
    IN  merged[Len(spans)]

\* _apply_substitutions: the text between the merged spans, and one safe
\* phrase for each.
ApplySubstitutions(text) ==
    LET merged    == MergedSpans(text)
        cursor(n) == IF n = 0 THEN 1 ELSE merged[n][2] + 1
        out[n \in 0 .. Len(merged)] ==
            IF n = 0 THEN <<>>
            ELSE Append(out[n - 1] \o SubSeq(text, cursor(n - 1), merged[n][1] - 1), SafePhrase)
    IN  out[Len(merged)] \o SubSeq(text, cursor(Len(merged)), Len(text))

FilterChunk(text) ==
    IF Hits(text) = {} THEN [action |-> "pass", text |-> text]
    ELSE IF 10 * Cardinality(Covered(text)) >= BlockTenths * Len(text)
    THEN [action |-> "block", text |-> <<>>]
    ELSE [action |-> "substitute", text |-> ApplySubstitutions(text)]

\* The places of a term that are masked: the first letter is kept, and the
\* last one of three or more.
Hidden(term) ==
    IF Len(term) >= 3 THEN 2 .. Len(term) - 1
    ELSE IF Len(term) = 2 THEN {2} ELSE {1}

\* Where out.replace(term, masked) replaces: from the left, and on from where a
\* match ends.
Replaced(text, term) ==
    LET starts[i \in 0 .. Len(text)] ==
            IF i = 0 THEN {}
            ELSE IF Occurs(term, text, i) /\ \A j \in starts[i - 1] : j + Len(term) <= i
            THEN starts[i - 1] \cup {i}
            ELSE starts[i - 1]
    IN  starts[Len(text)]

\* A masked term is as long as the term, so that every letter keeps its place.
ReplaceTerm(text, term) ==
    [i \in DOMAIN text |->
        IF \E j \in Replaced(text, term) : i - j + 1 \in Hidden(term) THEN Mask ELSE text[i]]

SanitizeEvidence(text) ==
    LET out[k \in 0 .. Len(Terms)] ==
            IF k = 0 THEN text ELSE ReplaceTerm(out[k - 1], Terms[k])
    IN  out[Len(Terms)]

-----------------------------------------------------------------------------

GuardrailInit == sentence = <<>>

\* A sentence one letter longer comes to the filter.
NextSentence ==
    \E c \in Letters : Len(sentence) < MaxSentence /\ sentence' = Append(sentence, c)

\* The sentences that come to the filter.
GuardrailSpec == GuardrailInit /\ [][NextSentence]_sentence

GuardrailTypeOK == sentence \in Seq(Letters) /\ Len(sentence) <= MaxSentence

-----------------------------------------------------------------------------
(* Properties *)

HasDenylistHit(text) == Hits(text) # {}

\* What a listener should get: every letter no term covers, in order, and one
\* safe phrase where a run of covered letters begins.
Softened(text) ==
    LET said[n \in 0 .. Len(text)] ==
            IF n = 0 THEN <<>>
            ELSE IF n \notin Covered(text) THEN Append(said[n - 1], text[n])
            ELSE IF n - 1 \in Covered(text) THEN said[n - 1]
            ELSE Append(said[n - 1], SafePhrase)
    IN  said[Len(text)]

\* What a listener gets has no term in it, however the terms overlap, touch or
\* come together where one was taken out; a sentence that is not blocked loses
\* nothing but its terms, and each run of letters they cover is one safe phrase,
\* in its place (terms that a space sets apart are two runs).  What an audit row
\* keeps has no term in it either.
NothingDeniedIsHeard ==
    LET result == FilterChunk(sentence) IN
    /\ ~HasDenylistHit(result.text)
    /\ result.action # "block" => result.text = Softened(sentence)
    /\ ~HasDenylistHit(SanitizeEvidence(sentence))
=============================================================================
