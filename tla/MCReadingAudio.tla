--------------------------- MODULE MCReadingAudio ---------------------------
(* Small instances of ReadingAudio for TLC. *)
EXTENDS ReadingAudio
=============================================================================
