----------------------------- MODULE MCGuardrail -----------------------------
(***************************************************************************)
(* A small instance of Guardrail for TLC in which words are set apart by   *)
(* spaces, and a sentence is blocked at the density the code blocks it at. *)
(***************************************************************************)
EXTENDS Guardrail

CONSTANTS denied, plain, Space

MCTerms == <<<<denied>>>>

(* What a comment and a test say and the code does not do. *)

\* denylist.py: adjacent terms, and the two of its example are set apart by a
\* space, are not rendered as two safe phrases in a row.
OnePhraseForAdjacentTerms ==
    LET text == FilterChunk(sentence).text IN
    \A i \in DOMAIN text : ~Occurs(<<SafePhrase, Space, SafePhrase>>, text, i)
=============================================================================
