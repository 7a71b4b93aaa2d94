---------------------------- MODULE MCFramePlan ----------------------------
(* Frames of three samples, two to a file; rates that are no multiples of  *)
(* a frame, so that requests begin and end anywhere in one.                *)
EXTENDS FramePlan

SomeRecordings == [end : {2, 5}, rate : {1, 4, 7, 11}, freq : {10}]

SomeAsked ==
  [start : -1 .. 4, end : 0 .. 5, freq : {8, 10, 13}, band : {-1, 0, 1, 3}]
=============================================================================
