------------------------------ MODULE SpscRing ------------------------------
(***************************************************************************)
(* The lock-free single-producer single-consumer ring of SpscRing.h, one   *)
(* step per access to memory the two threads share.                        *)
(*                                                                         *)
(* The producer is the reader thread of DDCExecutor, the consumer the job  *)
(* thread that calls executeDDC().  Each publishes its counter only after  *)
(* its copy: nothing but that order keeps the two memcpys apart.           *)
(*                                                                         *)
(* head and tail are size_t counters that are never masked, so they wrap   *)
(* at Mod (2^64 in the code) and only their low bits select a slot.        *)
(***************************************************************************)
EXTENDS Integers, Sequences

CONSTANTS
  Cap,       (* _cap, a power of two, at least 2                           *)
  Mod,       (* 2 ^ width of size_t, a multiple of _cap                    *)
  Data,      (* the values of T                                            *)
  Chunks     (* the arrays callers pass to write(), as sequences over Data *)

ASSUME RingAssumption ==
  /\ Cap \in Nat /\ Cap >= 2
  /\ Mod \in Nat /\ Mod >= 2 * Cap /\ Mod % Cap = 0
  /\ Chunks \subseteq Seq(Data)

VARIABLES
  head,   (* _head: where the producer writes next                       *)
  tail,   (* _tail: where the consumer reads next                        *)
  buf,    (* _buf: its elements are uninitialised until first written    *)
  prod,   (* the producer: its pc and the elements it is writing         *)
  cons,   (* the consumer: its pc, how many it reads, what it has copied *)
  taken   (* what the last finished read() left in dst                   *)

vars == <<head, tail, buf, prod, cons, taken>>

Slots == 0..Cap - 1
Least(a, b) == IF a <= b THEN a ELSE b

Slot(i) == i % Cap

(* Mutant: a counter that is not of unsigned arithmetic.                   *)
AdvanceUnwrapped(i, n) == i + n

Advance(i, n) == (i + n) % Mod

(* readable() and writable().                                              *)
Readable == (head - tail) % Mod

Writable == Cap - 1 - Readable

(* How much of a copy of n elements from counter i fits before the end of  *)
(* the array; the rest goes to its start.                                  *)
BeforeWrap(i, n) == Least(n, Cap - Slot(i))

IdleProducer == [pc |-> "idle", at |-> 0, src |-> <<>>]
IdleConsumer == [pc |-> "idle", at |-> 0, n |-> 0, dst |-> <<>>]

Init ==
  /\ head = 0
  /\ tail = 0
  /\ buf \in [Slots -> Data]
  /\ prod = IdleProducer
  /\ cons = IdleConsumer
  /\ taken = <<>>
-----------------------------------------------------------------------------
(* Mutant: the counter is published before the copy.                       *)
WriteBeginPublishing(src) ==
  /\ prod.pc = "idle"
  /\ prod' = [pc  |-> "first", at |-> head,
              src |-> SubSeq(src, 1, Least(Len(src), Writable))]
  /\ head' = Advance(head, Len(prod'.src))
  /\ UNCHANGED <<tail, buf, cons, taken>>

(* write(src, n).  _head is the producer's own, so the only shared read of *)
(* writable() is that of _tail.                                            *)
WriteBegin(src) ==
  /\ prod.pc = "idle"
  /\ prod' = [pc  |-> "first", at |-> head,
              src |-> SubSeq(src, 1, Least(Len(src), Writable))]
  /\ UNCHANGED <<head, tail, buf, cons, taken>>

WriteFirst ==
  LET n     == Len(prod.src)
      slot  == Slot(prod.at)
      first == BeforeWrap(prod.at, n)
  IN  /\ prod.pc = "first"
      /\ buf' = [i \in Slots |-> IF i \in slot..slot + first - 1
                                 THEN prod.src[i - slot + 1] ELSE buf[i]]
      /\ prod' = [prod EXCEPT !.pc = IF n > first THEN "rest" ELSE "publish"]
      /\ UNCHANGED <<head, tail, cons, taken>>

(* Mutant: the second memcpy starts at src again.                          *)
WriteRestFromStart ==
  LET n     == Len(prod.src)
      first == BeforeWrap(prod.at, n)
  IN  /\ prod.pc = "rest"
      /\ buf' = [i \in Slots |-> IF i \in 0..n - first - 1
                                 THEN prod.src[i + 1] ELSE buf[i]]
      /\ prod' = [prod EXCEPT !.pc = "publish"]
      /\ UNCHANGED <<head, tail, cons, taken>>

WriteRest ==
  LET n     == Len(prod.src)
      first == BeforeWrap(prod.at, n)
  IN  /\ prod.pc = "rest"
      /\ buf' = [i \in Slots |-> IF i \in 0..n - first - 1
                                 THEN prod.src[first + i + 1] ELSE buf[i]]
      /\ prod' = [prod EXCEPT !.pc = "publish"]
      /\ UNCHANGED <<head, tail, cons, taken>>

WritePublish ==
  /\ prod.pc = "publish"
  /\ head' = Advance(prod.at, Len(prod.src))
  /\ prod' = IdleProducer
  /\ UNCHANGED <<tail, buf, cons, taken>>
-----------------------------------------------------------------------------
(* read(dst, n).  _tail is the consumer's own, so the only shared read of  *)
(* readable() is that of _head.                                            *)
ReadBegin(n) ==
  /\ cons.pc = "idle"
  /\ cons' = [pc |-> "first", at |-> tail, n |-> Least(n, Readable), dst |-> <<>>]
  /\ UNCHANGED <<head, tail, buf, prod, taken>>

ReadFirst ==
  LET first == BeforeWrap(cons.at, cons.n)
  IN  /\ cons.pc = "first"
      /\ cons' = [cons EXCEPT
                    !.pc  = IF cons.n > first THEN "rest" ELSE "release",
                    !.dst = [k \in 1..first |-> buf[Slot(cons.at) + k - 1]]]
      /\ UNCHANGED <<head, tail, buf, prod, taken>>

ReadRest ==
  LET first == BeforeWrap(cons.at, cons.n)
  IN  /\ cons.pc = "rest"
      /\ cons' = [cons EXCEPT
                    !.pc  = "release",
                    !.dst = @ \o [k \in 1..cons.n - first |-> buf[k - 1]]]
      /\ UNCHANGED <<head, tail, buf, prod, taken>>

ReadRelease ==
  /\ cons.pc = "release"
  /\ tail' = Advance(cons.at, cons.n)
  /\ taken' = cons.dst
  /\ cons' = IdleConsumer
  /\ UNCHANGED <<head, buf, prod>>
-----------------------------------------------------------------------------
Producer == \/ \E src \in Chunks : WriteBegin(src)
            \/ WriteFirst \/ WriteRest \/ WritePublish

Consumer == \/ \E n \in 1..Cap : ReadBegin(n)
            \/ ReadFirst \/ ReadRest \/ ReadRelease

Next == Producer \/ Consumer

Spec == Init /\ [][Next]_vars
-----------------------------------------------------------------------------
(* The counters stay within their width and every thread at a known step   *)
(* (the class invariant of SpscRing.h:81-85 and the locals of 47-71).      *)
TypeOK ==
  /\ head \in 0..Mod - 1
  /\ tail \in 0..Mod - 1
  /\ buf \in [Slots -> Data]
  /\ prod \in [pc : {"idle", "first", "rest", "publish"}, at : 0..Mod - 1,
               src : Seq(Data)]
  /\ cons \in [pc : {"idle", "first", "rest", "release"}, at : 0..Mod - 1,
               n : 0..Cap - 1, dst : Seq(Data)]
  /\ taken \in Seq(Data)

(* The slots a thread's memcpys are about to touch.                        *)
Window(at, n) == {Slot(at + k) : k \in 0..n - 1}
Writing == IF prod.pc \in {"first", "rest"}
           THEN Window(prod.at, Len(prod.src)) ELSE {}
Unread  == Window(tail, Readable)

(* The producer's memcpys (SpscRing.h:52-55) never touch a slot that holds *)
(* a byte not yet released: the consumer's memcpys (65-68) only read such  *)
(* slots, so the two threads never race on the array without a lock.       *)
NoDataRace == Writing \cap Unread = {}

(* The bytes between the two counters, oldest first.                       *)
Contents == [k \in 1..Readable |-> buf[Slot(tail + k - 1)]]

Fifo == INSTANCE ByteFifo
          WITH Room <- Cap - 1, queue <- Contents, offer <- prod.src

(* Whatever the interleaving and wherever the array or a counter wraps,    *)
(* the two calls behave as one FIFO (the API of SpscRing.h:12-20).         *)
ImplementsFifo == Fifo!Spec
=============================================================================
