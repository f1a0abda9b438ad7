----------------------- MODULE MCTranscriptionQueue -------------------------
(* TranscriptionQueue on a long and a brief recording.                     *)
EXTENDS TranscriptionQueue, TLC
=============================================================================
