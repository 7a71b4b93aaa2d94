--------------------------- MODULE MCWatchProcess ---------------------------
(* Levels below, at and above the threshold and a higher peak; two batches *)
(* a second; the shortest continue time of whole seconds, a hold of three. *)
EXTENDS WatchProcess

MCLevels == 0..3
=============================================================================
