----------------------------- MODULE MCSpscRing -----------------------------
(* A ring of four slots whose counters wrap at eight, so that both the     *)
(* array and the counters wrap within a few calls.                         *)
EXTENDS SpscRing

CONSTANTS b1, b2

MCData == {b1, b2}

(* Up to three of the four slots at once, two distinguishable values.      *)
MCChunks == {<<b1>>, <<b2>>, <<b1, b2>>, <<b2, b1, b2>>}
=============================================================================
