------------------------- MODULE MCExtractContainer -------------------------
(* An extract job and two watch jobs: enough for two jobs to end together, *)
(* and for the command on one to meet the completion of another under      *)
(* _mtx.  Liveness is checked for one job of each kind.                    *)
EXTENDS ExtractContainer

CONSTANTS e1, w1, w2

MCExtracts == {e1}
MCWatches == {w1, w2}
OneWatch == {w1}

(* The bandwidth of one watch job is one the code cannot serve.            *)
OneUnsound == {w2}
=============================================================================
