------------------------------ MODULE ByteFifo ------------------------------
(***************************************************************************)
(* What the header of SpscRing.h promises its two callers: a bounded FIFO  *)
(* of bytes.  write(src, n) appends a prefix of src, as long as fits;      *)
(* read(dst, n) takes the oldest bytes and hands them over unchanged.      *)
(*                                                                         *)
(* SpscRing implements this specification; DDCExecutor, which only calls   *)
(* write() after it has seen room for the whole frame, is built on it.     *)
(***************************************************************************)
EXTENDS Naturals, Sequences

CONSTANTS
  Data,   (* the values an element of the ring can have              *)
  Room    (* the most elements queued at once: capacity() - 1        *)

VARIABLES
  queue,  (* the bytes written and not yet read, oldest first        *)
  offer,  (* what the write() in progress, if any, will append       *)
  taken   (* what the last read() handed to its caller               *)

fvars == <<queue, offer, taken>>

Init == /\ queue = <<>>
        /\ offer = <<>>
        /\ taken = <<>>

(* What writable() returns when nobody is in the middle of a call.         *)
Free == Room - Len(queue)

(* A write() that accepted the elements of s appends them.                 *)
Put(s) == /\ Len(s) <= Free
          /\ queue' = queue \o s
          /\ UNCHANGED taken

(* A read() that returned n elements.                                      *)
Take(n) == /\ n <= Len(queue)
           /\ taken' = SubSeq(queue, 1, n)
           /\ queue' = SubSeq(queue, n + 1, Len(queue))

(* A write() decides what it accepts before it appends it; a read() in     *)
(* between only makes more room.                                           *)
Offer(s) == /\ offer = <<>>
            /\ Len(s) <= Free
            /\ offer' = s
            /\ UNCHANGED <<queue, taken>>

Accept == /\ Put(offer)
          /\ offer' = <<>>

Next == \/ \E n \in 0..Free : \E s \in [1..n -> Data] : Offer(s)
        \/ Accept
        \/ \E n \in 0..Len(queue) : Take(n) /\ UNCHANGED offer

Spec == Init /\ [][Next]_fvars
=============================================================================
