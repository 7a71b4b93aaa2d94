---------------------------- MODULE MCAudioPath ----------------------------
(* The sizes of the code, and rates with and without averaging, with       *)
(* blocks longer and shorter than the delay of the filter.                 *)
EXTENDS AudioPath
=============================================================================
