---------------------------- MODULE FrameStream ----------------------------
(***************************************************************************)
(* What an executor promises the job that uses it, whatever its threads    *)
(* do: frame after frame of the request, all of them unless somebody       *)
(* deletes the job or nothing because it could not start, nothing after    *)
(* that, and no end of the process but by a deletion or by a request that  *)
(* cannot be served, before its first frame.                               *)
(*                                                                         *)
(* DDCExecutor implements this specification; WatchProcess, whose clock is *)
(* the number of the batch it is given, is built on it.                    *)
(***************************************************************************)
EXTENDS Naturals, Sequences

CONSTANTS
  Request,     (* the units that were asked for, in order                  *)
  FrameUnits   (* units in a frame                                         *)

VARIABLES
  intact,      (* the recording has all of the request                     *)
  servable,    (* nothing is wrong with the request                        *)
  deleted,     (* somebody has come to delete the job                      *)
  status,      (* "open", "over" or "crashed"                              *)
  handed       (* the units handed over so far                             *)

svars == <<intact, servable, deleted, status, handed>>

IsStart(s, t) == Len(s) <= Len(t) /\ \A n \in 1..Len(s) : t[n] = s[n]

Init == /\ intact \in BOOLEAN
        /\ servable \in BOOLEAN
        /\ deleted = FALSE
        /\ status = "open"
        /\ handed = <<>>

(* One more frame; from an intact recording, the next of the request.      *)
HandOver == /\ status = "open"
            /\ IsStart(handed, handed')
            /\ Len(handed') = Len(handed) + FrameUnits
            /\ intact => IsStart(handed', Request)
            /\ UNCHANGED <<intact, servable, deleted, status>>

Delete == /\ ~deleted
          /\ deleted' = TRUE
          /\ UNCHANGED <<intact, servable, status, handed>>

End == /\ status = "open"
       /\ status' = "over"
       /\ intact /\ ~deleted => handed \in {<<>>, Request}
       /\ UNCHANGED <<intact, servable, deleted, handed>>

(* Two threads join the reader, or one that is no more; or nobody had      *)
(* checked the request.                                                    *)
Crash == /\ deleted \/ (~servable /\ handed = <<>>)
         /\ status' = "crashed"
         /\ UNCHANGED <<intact, servable, deleted, handed>>

Next == HandOver \/ Delete \/ End \/ Crash

Spec == Init /\ [][Next]_svars
=============================================================================
