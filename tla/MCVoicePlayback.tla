--------------------------- MODULE MCVoicePlayback ---------------------------
(* Small instances of VoicePlayback for TLC. *)
EXTENDS VoicePlayback
=============================================================================
