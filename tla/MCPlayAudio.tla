----------------------------- MODULE MCPlayAudio -----------------------------
(* Instances of PlayAudio for TLC.                                         *)
EXTENDS PlayAudio
=============================================================================
