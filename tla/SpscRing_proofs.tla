--------------------------- MODULE SpscRing_proofs ---------------------------
(***************************************************************************)
(* For every capacity, counter width and set of values: the ring's types,  *)
(* the bound on what each thread claims, freedom from data races, and that *)
(* the ring implements ByteFifo.                                           *)
(*                                                                         *)
(* The argument: a thread's own counter is stable while it is in a call,   *)
(* and the other thread can only enlarge the space it has seen (the        *)
(* consumer raises Writable, the producer raises Readable).  So ClaimsFit  *)
(* is inductive, and under it the slots being written and the slots not    *)
(* yet released are disjoint stretches of less than one turn of the array. *)
(* Hence neither thread disturbs what the other has copied (Copied), and   *)
(* a publication appends to the queue what a release takes from its front. *)
(***************************************************************************)
EXTENDS SpscRing, SequenceTheorems, TLAPS

(* --------------------------- the counters ------------------------------ *)

(* The distance between two counters that may have wrapped.                *)
Dist(h, t) == (h - t) % Mod

(* Division with remainder.                                                *)
LEMMA DivMod ==
  ASSUME NEW a \in Int, NEW c \in Nat, c > 0
  PROVE  /\ a \div c \in Int
         /\ a % c \in 0..c - 1
         /\ a = c * (a \div c) + (a % c)
BY SMT

(* Quotient and remainder are determined by any such decomposition.        *)
LEMMA DivUnique ==
  ASSUME NEW a \in Int, NEW c \in Nat, c > 0,
         NEW q \in Int, NEW r \in 0..c - 1, a = c * q + r
  PROVE  a \div c = q /\ a % c = r
<1> DEFINE d == (a \div c) - q
<1>1. /\ a \div c \in Int /\ a % c \in 0..c - 1
      /\ c * d = r - (a % c) /\ d \in Int
  BY DivMod
<1>2. CASE d >= 1
  <2>1. c * d >= c
    BY <1>1, <1>2
  <2>2. QED  BY <1>1, <2>1
<1>3. CASE d <= -1
  <2>1. c * d <= -c
    BY <1>1, <1>3
  <2>2. QED  BY <1>1, <2>1
<1>4. QED  BY <1>1, <1>2, <1>3

(* Whole turns do not change the slot.                                     *)
LEMMA ModShift ==
  ASSUME NEW a \in Int, NEW c \in Nat, c > 0, NEW k \in Int
  PROVE  (a + c * k) % c = a % c
<1>1. /\ a \div c \in Int
      /\ a % c \in 0..c - 1
      /\ a = c * (a \div c) + (a % c)
  BY DivMod
<1>2. /\ a + c * k = c * ((a \div c) + k) + (a % c)
      /\ a + c * k \in Int
      /\ (a \div c) + k \in Int
  BY <1>1
<1>3. QED  BY <1>1, <1>2, DivUnique

(* Less than a turn does.                                                  *)
LEMMA ModApart ==
  ASSUME NEW a \in Int, NEW c \in Nat, c > 0, NEW d \in 1..c - 1
  PROVE  (a + d) % c # a % c
<1>1. /\ a \div c \in Int
      /\ a % c \in 0..c - 1
      /\ a = c * (a \div c) + (a % c)
  BY DivMod
<1>2. CASE (a % c) + d < c
  <2>1. /\ a + d = c * (a \div c) + ((a % c) + d)
        /\ a + d \in Int
        /\ (a % c) + d \in 0..c - 1
    BY <1>1, <1>2
  <2>2. (a + d) % c = (a % c) + d
    BY <2>1, <1>1, DivUnique
  <2>3. QED  BY <2>2, <1>1
<1>3. CASE (a % c) + d >= c
  <2>1. /\ a + d = c * ((a \div c) + 1) + ((a % c) + d - c)
        /\ a + d \in Int
        /\ (a % c) + d - c \in 0..c - 1
        /\ (a \div c) + 1 \in Int
    BY <1>1, <1>3
  <2>2. (a + d) % c = (a % c) + d - c
    BY <2>1, DivUnique
  <2>3. QED  BY <2>2, <1>1
<1>4. QED  BY <1>1, <1>2, <1>3

(* The assumption on the constants, in pieces.                             *)
LEMMA Sizes == /\ Cap \in Nat /\ Cap >= 2
               /\ Mod \in Nat /\ Mod >= 2 * Cap
               /\ Mod % Cap = 0 /\ Chunks \subseteq Seq(Data)
BY RingAssumption

(* Unsigned subtraction, case by case.                                     *)
LEMMA DistCases ==
  ASSUME NEW h \in 0..Mod - 1, NEW t \in 0..Mod - 1
  PROVE  Dist(h, t) = IF h >= t THEN h - t ELSE h - t + Mod
<1>1. Mod \in Nat /\ Mod > 0
  BY Sizes
<1>2. CASE h >= t
  <2>1. h - t \in Int /\ h - t \in 0..Mod - 1 /\ h - t = Mod * 0 + (h - t)
    BY <1>1, <1>2
  <2>2. QED  BY <2>1, <1>1, <1>2, DivUnique DEF Dist
<1>3. CASE h < t
  <2>1. /\ h - t \in Int /\ h - t + Mod \in 0..Mod - 1
        /\ h - t = Mod * (-1) + (h - t + Mod)
    BY <1>1, <1>3
  <2>2. (h - t) % Mod = h - t + Mod
    BY <2>1, <1>1, DivUnique
  <2>3. QED  BY <2>2, <1>1, <1>3 DEF Dist
<1>4. QED  BY <1>1, <1>2, <1>3

(* Unsigned addition, case by case.                                        *)
LEMMA AdvanceCases ==
  ASSUME NEW i \in 0..Mod - 1, NEW n \in 0..Cap - 1
  PROVE  /\ Advance(i, n) = IF i + n < Mod THEN i + n ELSE i + n - Mod
         /\ Advance(i, n) \in 0..Mod - 1
<1>1. Mod \in Nat /\ Mod > 0 /\ Cap \in Nat /\ Cap < Mod
  BY Sizes
<1>2. CASE i + n < Mod
  <2>1. i + n \in Int /\ i + n \in 0..Mod - 1 /\ i + n = Mod * 0 + (i + n)
    BY <1>1, <1>2
  <2>2. (i + n) % Mod = i + n
    BY <2>1, <1>1, DivUnique
  <2>3. QED  BY <2>1, <2>2, <1>2 DEF Advance
<1>3. CASE i + n >= Mod
  <2>1. /\ i + n \in Int /\ i + n - Mod \in 0..Mod - 1
        /\ i + n = Mod * 1 + (i + n - Mod)
    BY <1>1, <1>3
  <2>2. (i + n) % Mod = i + n - Mod
    BY <2>1, <1>1, DivUnique
  <2>3. QED  BY <2>1, <2>2, <1>3, <1>1 DEF Advance
<1>4. QED  BY <1>1, <1>2, <1>3

(* Publishing n bytes moves the counters n further apart, releasing n      *)
(* brings them n closer, whether or not a counter wraps on the way.        *)
LEMMA DistAdvance ==
  ASSUME NEW h \in 0..Mod - 1, NEW t \in 0..Mod - 1, NEW n \in 0..Cap - 1
  PROVE  /\ Dist(h, t) \in 0..Mod - 1
         /\ Dist(h, t) + n <= Cap - 1 => Dist(Advance(h, n), t) = Dist(h, t) + n
         /\ n <= Dist(h, t) => Dist(h, Advance(t, n)) = Dist(h, t) - n
<1>1. Mod \in Nat /\ Cap \in Nat /\ Cap < Mod
  BY Sizes
<1>2. Dist(h, t) = IF h >= t THEN h - t ELSE h - t + Mod
  BY DistCases
<1>3. /\ Advance(h, n) = IF h + n < Mod THEN h + n ELSE h + n - Mod
      /\ Advance(t, n) = IF t + n < Mod THEN t + n ELSE t + n - Mod
      /\ Advance(h, n) \in 0..Mod - 1
      /\ Advance(t, n) \in 0..Mod - 1
  BY AdvanceCases
<1>4. /\ Dist(Advance(h, n), t) = IF Advance(h, n) >= t THEN Advance(h, n) - t
                                  ELSE Advance(h, n) - t + Mod
      /\ Dist(h, Advance(t, n)) = IF h >= Advance(t, n) THEN h - Advance(t, n)
                                  ELSE h - Advance(t, n) + Mod
  BY <1>3, DistCases
<1>5. QED  BY <1>1, <1>2, <1>3, <1>4

(* Every counter value selects a slot of the array.                        *)
LEMMA SlotInRange ==
  ASSUME NEW i \in Int
  PROVE  Slot(i) \in Slots
BY Sizes, DivMod DEF Slot, Slots

(* The slot of a counter is that of any other counter plus their distance. *)
LEMMA SlotOfDist ==
  ASSUME NEW h \in 0..Mod - 1, NEW t \in 0..Mod - 1, NEW j \in Nat
  PROVE  Slot(h + j) = Slot(t + Dist(h, t) + j)
<1>1. Mod \in Nat /\ Cap \in Nat /\ Cap > 0 /\ Mod % Cap = 0
  BY Sizes
<1>2. PICK k \in Int : Mod = Cap * k
  <2>1. Mod \div Cap \in Int /\ Mod = Cap * (Mod \div Cap) + (Mod % Cap)
    BY <1>1, DivMod
  <2>2. QED  BY <2>1, <1>1
<1>3. CASE h >= t
  BY <1>1, <1>3, DistCases
<1>4. CASE h < t
  <2>1. t + Dist(h, t) + j = (h + j) + Cap * k /\ h + j \in Int
    BY <1>1, <1>2, <1>4, DistCases
  <2>2. QED  BY <2>1, <1>1, ModShift DEF Slot
<1>5. QED  BY <1>1, <1>3, <1>4
-----------------------------------------------------------------------------
(* ---------------------------- the invariant ---------------------------- *)

(* The counters never get further apart than the ring can tell, and what   *)
(* each thread has claimed still fits however far the other has moved on   *)
(* since it loaded the other's counter (SpscRing.h:48-49 and 61-62).       *)
ClaimsFit ==
  /\ Readable <= Cap - 1
  /\ prod.pc # "idle" => prod.at = head /\ Len(prod.src) <= Writable
  /\ cons.pc # "idle" => cons.at = tail /\ cons.n <= Readable

IInv == TypeOK /\ ClaimsFit

(* What the two threads see is the distance of the counters.               *)
LEMMA ReadableRange ==
  ASSUME TypeOK
  PROVE  /\ Readable \in Nat
         /\ Readable = Dist(head, tail)
         /\ Writable = Cap - 1 - Dist(head, tail)
<1>1. head \in 0..Mod - 1 /\ tail \in 0..Mod - 1 /\ Cap \in Nat /\ Cap >= 2
  BY Sizes DEF TypeOK
<1>2. Dist(head, tail) \in 0..Mod - 1
  BY <1>1, DistAdvance, 0 \in 0..Cap - 1
<1>3. QED  BY <1>2 DEF Readable, Writable, Dist

(* A piece of a copy fits between its slot and the end of the array.       *)
LEMMA BeforeWrapFits ==
  ASSUME NEW i \in Int, NEW n \in Nat
  PROVE  /\ BeforeWrap(i, n) \in 0..n
         /\ BeforeWrap(i, n) <= Cap - Slot(i)
         /\ Slot(i) \in 0..Cap - 1
<1>1. Cap \in Nat /\ Slot(i) \in 0..Cap - 1
  BY Sizes, SlotInRange DEF Slots
<1>2. QED  BY <1>1 DEF BeforeWrap, Least

(* The empty ring satisfies the invariant.                                 *)
LEMMA InitIInv == Init => IInv
<1> SUFFICES ASSUME Init PROVE IInv
  OBVIOUS
<1>1. TypeOK
  BY Sizes DEF Init, TypeOK, IdleProducer, IdleConsumer, Slots
<1>2. ClaimsFit
  <2>1. Dist(0, 0) = 0
    BY Sizes, DistCases, 0 \in 0..Mod - 1
  <2>2. QED  BY <2>1, <1>1, ReadableRange, Sizes
             DEF Init, ClaimsFit, IdleProducer, IdleConsumer
<1>3. QED  BY <1>1, <1>2 DEF IInv

(* Every step of either thread keeps the types.                            *)
LEMMA NextTypeOK == TypeOK /\ ClaimsFit /\ [Next]_vars => TypeOK'
<1> SUFFICES ASSUME TypeOK, ClaimsFit, [Next]_vars PROVE TypeOK'
  OBVIOUS
<1>s. /\ Cap \in Nat /\ Cap >= 2 /\ Mod \in Nat /\ Mod >= 2 * Cap
      /\ Slots = 0..Cap - 1
      /\ head \in Int /\ tail \in Int /\ 0 \in 0..Mod - 1
  BY Sizes DEF Slots, TypeOK
<1>r. Readable \in Nat /\ Readable <= Cap - 1 /\ Writable \in 0..Cap - 1
  BY ReadableRange, <1>s DEF ClaimsFit, Writable
<1>1. ASSUME NEW src \in Chunks, WriteBegin(src) PROVE TypeOK'
  <2>1. src \in Seq(Data) /\ Len(src) \in Nat
    BY Sizes
  <2>2. Least(Len(src), Writable) \in 0..Len(src)
    BY <2>1, <1>r DEF Least
  <2>3. SubSeq(src, 1, Least(Len(src), Writable)) \in Seq(Data)
    BY <2>1, <2>2
  <2>4. QED  BY <1>1, <2>3 DEF WriteBegin, TypeOK
<1>2. ASSUME WriteFirst PROVE TypeOK'
  <2> DEFINE n     == Len(prod.src)
             slot  == Slot(prod.at)
             first == BeforeWrap(prod.at, n)
  <2>1. prod.src \in Seq(Data) /\ n \in Nat /\ prod.at \in Int
    BY DEF TypeOK
  <2>2. first \in 0..n /\ slot \in 0..Cap - 1
    BY <2>1, BeforeWrapFits
  <2>3. ASSUME NEW i \in slot..slot + first - 1
        PROVE  prod.src[i - slot + 1] \in Data
    <3>1. i - slot + 1 \in 1..n
      BY <2>2, <2>1, <1>s
    <3>2. QED  BY <3>1, <2>1
  <2>4. buf' \in [Slots -> Data]
    BY <1>2, <2>3 DEF WriteFirst, TypeOK
  <2>5. QED  BY <1>2, <2>4 DEF WriteFirst, TypeOK
<1>3. ASSUME WriteRest PROVE TypeOK'
  <2> DEFINE n     == Len(prod.src)
             first == BeforeWrap(prod.at, n)
  <2>1. prod.src \in Seq(Data) /\ n \in Nat /\ prod.at \in Int
    BY DEF TypeOK
  <2>2. first \in 0..n
    BY <2>1, BeforeWrapFits
  <2>3. ASSUME NEW i \in 0..n - first - 1
        PROVE  prod.src[first + i + 1] \in Data
    <3>1. first + i + 1 \in 1..n
      BY <2>2, <2>1
    <3>2. QED  BY <3>1, <2>1
  <2>4. buf' \in [Slots -> Data]
    BY <1>3, <2>3 DEF WriteRest, TypeOK
  <2>5. QED  BY <1>3, <2>4 DEF WriteRest, TypeOK
<1>4. ASSUME WritePublish PROVE TypeOK'
  <2>1. Len(prod.src) \in 0..Cap - 1 /\ prod.at \in 0..Mod - 1
    BY <1>4, <1>r, <1>s DEF WritePublish, ClaimsFit, TypeOK
  <2>2. head' \in 0..Mod - 1
    BY <1>4, <2>1, AdvanceCases DEF WritePublish
  <2>3. QED  BY <1>4, <2>2, <1>s DEF WritePublish, TypeOK, IdleProducer
<1>5. ASSUME NEW n \in 1..Cap, ReadBegin(n) PROVE TypeOK'
  <2>1. Least(n, Readable) \in 0..Cap - 1
    BY <1>r, <1>s DEF Least
  <2>2. QED  BY <1>5, <2>1 DEF ReadBegin, TypeOK
<1>6. ASSUME ReadFirst PROVE TypeOK'
  <2> DEFINE slot  == Slot(cons.at)
             first == BeforeWrap(cons.at, cons.n)
  <2>1. cons.n \in Nat /\ cons.at \in Int /\ buf \in [Slots -> Data]
    BY <1>s DEF TypeOK
  <2>2. first \in 0..cons.n /\ first <= Cap - slot /\ slot \in 0..Cap - 1
    BY <2>1, BeforeWrapFits
  <2>3. ASSUME NEW k \in 1..first
        PROVE  buf[slot + k - 1] \in Data
    <3>1. slot + k - 1 \in Slots
      BY <2>2, <1>s
    <3>2. QED  BY <3>1, <2>1
  <2>4. [k \in 1..first |-> buf[slot + k - 1]] \in Seq(Data)
    BY <2>2, <2>3
  <2>5. QED  BY <1>6, <2>4 DEF ReadFirst, TypeOK
<1>7. ASSUME ReadRest PROVE TypeOK'
  <2> DEFINE first == BeforeWrap(cons.at, cons.n)
             rest  == [k \in 1..cons.n - first |-> buf[k - 1]]
  <2>1. /\ cons.n \in 0..Cap - 1 /\ cons.n \in Nat
        /\ cons.at \in Int /\ buf \in [Slots -> Data]
        /\ cons.dst \in Seq(Data)
    BY <1>s DEF TypeOK
  <2>2. first \in 0..cons.n
    BY <2>1, BeforeWrapFits
  <2>3. ASSUME NEW k \in 1..cons.n - first
        PROVE  buf[k - 1] \in Data
    <3>1. k - 1 \in Slots
      BY <2>1, <2>2, <1>s
    <3>2. QED  BY <3>1, <2>1
  <2>4. rest \in Seq(Data)
    BY <2>1, <2>2, <2>3
  <2>5. cons.dst \o rest \in Seq(Data)
    BY <2>1, <2>4
  <2>6. QED  BY <1>7, <2>5 DEF ReadRest, TypeOK
<1>8. ASSUME ReadRelease PROVE TypeOK'
  <2>1. tail' \in 0..Mod - 1
    BY <1>8, AdvanceCases DEF ReadRelease, TypeOK
  <2>2. QED  BY <1>8, <2>1, <1>s DEF ReadRelease, TypeOK, IdleConsumer
<1>9. CASE UNCHANGED vars
  BY <1>9 DEF vars, TypeOK
<1>10. QED
  BY <1>1, <1>2, <1>3, <1>4, <1>5, <1>6, <1>7, <1>8, <1>9
  DEF Next, Producer, Consumer

(* Every step of either thread keeps the claims within the ring.           *)
LEMMA NextClaimsFit == TypeOK /\ ClaimsFit /\ [Next]_vars => ClaimsFit'
<1> SUFFICES ASSUME TypeOK, ClaimsFit, [Next]_vars PROVE ClaimsFit'
  OBVIOUS
<1> DEFINE d == Dist(head, tail)
<1>s. /\ Cap \in Nat /\ Cap >= 2 /\ Mod \in Nat
      /\ head \in 0..Mod - 1 /\ tail \in 0..Mod - 1
      /\ Len(prod.src) \in Nat /\ cons.n \in Nat /\ d \in Nat
  BY Sizes, ReadableRange DEF TypeOK
<1>t. TypeOK'
  BY NextTypeOK
<1>d. /\ d <= Cap - 1
      /\ prod.pc # "idle" => prod.at = head /\ Len(prod.src) <= Cap - 1 - d
      /\ cons.pc # "idle" => cons.at = tail /\ cons.n <= d
  BY ReadableRange DEF ClaimsFit
<1>e. ASSUME Dist(head, tail)' <= Cap - 1,
             prod'.pc # "idle" =>
               prod'.at = head' /\ Len(prod'.src) <= Cap - 1 - Dist(head, tail)',
             cons'.pc # "idle" => cons'.at = tail' /\ cons'.n <= Dist(head, tail)'
      PROVE  ClaimsFit'
  BY <1>e, <1>t, ReadableRange DEF ClaimsFit, Readable, Writable, Dist
<1> HIDE DEF d
<1>q. ASSUME UNCHANGED <<head, tail>> PROVE Dist(head, tail)' = d
  BY <1>q DEF Dist, d
<1>1. ASSUME NEW src \in Chunks, WriteBegin(src) PROVE ClaimsFit'
  <2>1. src \in Seq(Data) /\ Len(src) \in Nat /\ Writable = Cap - 1 - d
    BY Sizes, ReadableRange DEF d
  <2>2. Least(Len(src), Writable) \in 0..Len(src)
    BY <2>1, <1>d, <1>s DEF Least
  <2>3. /\ Len(SubSeq(src, 1, Least(Len(src), Writable))) = Least(Len(src), Writable)
        /\ Least(Len(src), Writable) <= Cap - 1 - d
    BY <2>1, <2>2, <1>d, <1>s DEF Least
  <2>4. QED  BY <1>1, <2>3, <1>d, <1>e, <1>q DEF WriteBegin
<1>2. ASSUME WriteFirst PROVE ClaimsFit'
  BY <1>2, <1>d, <1>e, <1>q DEF WriteFirst, TypeOK
<1>3. ASSUME WriteRest PROVE ClaimsFit'
  BY <1>3, <1>d, <1>e, <1>q DEF WriteRest, TypeOK
<1>4. ASSUME WritePublish PROVE ClaimsFit'
  <2> DEFINE n == Len(prod.src)
  <2>1. prod.at = head /\ n \in 0..Cap - 1 /\ d + n <= Cap - 1
    BY <1>4, <1>d, <1>s DEF WritePublish
  <2>2. Dist(Advance(head, n), tail) = d + n
    BY <2>1, <1>s, DistAdvance DEF d
  <2>3. Dist(head, tail)' = d + n
    BY <1>4, <2>1, <2>2 DEF WritePublish, Dist
  <2>4. cons' = cons /\ tail' = tail /\ prod'.pc = "idle"
    BY <1>4 DEF WritePublish, IdleProducer
  <2>5. QED  BY <2>1, <2>3, <2>4, <1>d, <1>e, <1>s
<1>5. ASSUME NEW n \in 1..Cap, ReadBegin(n) PROVE ClaimsFit'
  <2>1. Least(n, Readable) <= d
    BY ReadableRange, <1>s DEF Least, d
  <2>2. QED  BY <1>5, <2>1, <1>d, <1>e, <1>q DEF ReadBegin
<1>6. ASSUME ReadFirst PROVE ClaimsFit'
  BY <1>6, <1>d, <1>e, <1>q DEF ReadFirst, TypeOK
<1>7. ASSUME ReadRest PROVE ClaimsFit'
  BY <1>7, <1>d, <1>e, <1>q DEF ReadRest, TypeOK
<1>8. ASSUME ReadRelease PROVE ClaimsFit'
  <2> DEFINE n == cons.n
  <2>1. cons.at = tail /\ n \in 0..Cap - 1 /\ n <= d
    BY <1>8, <1>d, <1>s DEF ReadRelease
  <2>2. Dist(head, Advance(tail, n)) = d - n
    BY <2>1, <1>s, DistAdvance DEF d
  <2>3. Dist(head, tail)' = d - n
    BY <1>8, <2>1, <2>2 DEF ReadRelease, Dist
  <2>4. prod' = prod /\ head' = head /\ cons'.pc = "idle"
    BY <1>8 DEF ReadRelease, IdleConsumer
  <2>5. QED  BY <2>1, <2>3, <2>4, <1>d, <1>e, <1>s
<1>9. CASE UNCHANGED vars
  BY <1>9, <1>d, <1>e, <1>q DEF vars
<1>10. QED
  BY <1>1, <1>2, <1>3, <1>4, <1>5, <1>6, <1>7, <1>8, <1>9
  DEF Next, Producer, Consumer

(* Types and claims hold in every reachable state of the two threads.      *)
THEOREM InvariantHolds == Spec => []IInv
<1>1. Init => IInv
  BY InitIInv
<1>2. IInv /\ [Next]_vars => IInv'
  BY NextTypeOK, NextClaimsFit DEF IInv
<1>3. QED  BY <1>1, <1>2, PTL DEF Spec

(* The counters keep their width and the copies stay inside the array, for *)
(* every capacity and width (SpscRing.h:37-71).                            *)
THEOREM TypeCorrect == Spec => []TypeOK
<1>1. IInv => TypeOK
  BY DEF IInv
<1>2. QED  BY <1>1, InvariantHolds, PTL

(* The counters never drift apart by more than capacity() - 1, and each    *)
(* thread's claim still fits after every step of the other one, although   *)
(* it was computed from a counter that has moved (SpscRing.h:48, 61).      *)
THEOREM ClaimsAlwaysFit == Spec => []ClaimsFit
<1>1. IInv => ClaimsFit
  BY DEF IInv
<1>2. QED  BY <1>1, InvariantHolds, PTL
-----------------------------------------------------------------------------
(* Two stretches that follow each other and together are shorter than one  *)
(* turn share no slot.                                                     *)
LEMMA WindowsApart ==
  ASSUME NEW h \in 0..Mod - 1, NEW t \in 0..Mod - 1, NEW n \in Nat,
         Dist(h, t) + n <= Cap - 1
  PROVE  Window(h, n) \cap Window(t, Dist(h, t)) = {}
<1> DEFINE d == Dist(h, t)
<1>1. d \in Nat /\ Cap \in Nat /\ Cap > 0 /\ Mod \in Nat
  BY Sizes, DistAdvance, 0 \in 0..Cap - 1
<1> HIDE DEF d
<1>2. SUFFICES ASSUME NEW j \in 0..n - 1, NEW k \in 0..d - 1,
                      Slot(h + j) = Slot(t + k)
               PROVE  FALSE
  BY DEF Window, d
<1>3. Slot(h + j) = Slot(t + d + j)
  BY SlotOfDist DEF d
<1>4. /\ t + k \in Int /\ d + j - k \in 1..Cap - 1
      /\ t + d + j = (t + k) + (d + j - k)
  BY <1>1 DEF d
<1>5. Slot(t + d + j) # Slot(t + k)
  BY <1>1, <1>4, ModApart DEF Slot
<1>6. QED  BY <1>2, <1>3, <1>5

(* No interleaving of write() and read() lets the producer's memcpys touch *)
(* a slot the consumer has still to read, for every capacity, counter      *)
(* width and call sequence: the reason the ring needs no lock.             *)
THEOREM RaceFree == Spec => []NoDataRace
<1>1. IInv => NoDataRace
  <2> SUFFICES ASSUME IInv PROVE NoDataRace
    OBVIOUS
  <2>1. TypeOK /\ ClaimsFit
    BY DEF IInv
  <2>2. CASE prod.pc \in {"first", "rest"}
    <3>1. /\ head \in 0..Mod - 1 /\ tail \in 0..Mod - 1
          /\ Len(prod.src) \in Nat /\ Cap \in Nat
          /\ Dist(head, tail) \in Nat /\ Readable = Dist(head, tail)
      BY <2>1, Sizes, ReadableRange DEF TypeOK
    <3>2. prod.at = head /\ Dist(head, tail) + Len(prod.src) <= Cap - 1
      BY <2>1, <2>2, <3>1, ReadableRange DEF ClaimsFit
    <3>3. Window(head, Len(prod.src)) \cap Window(tail, Readable) = {}
      BY <3>1, <3>2, WindowsApart
    <3>4. QED  BY <3>2, <3>3, <2>2 DEF NoDataRace, Writing, Unread
  <2>3. CASE prod.pc \notin {"first", "rest"}
    BY <2>3 DEF NoDataRace, Writing
  <2>4. QED  BY <2>2, <2>3
<1>2. QED  BY <1>1, InvariantHolds, PTL
-----------------------------------------------------------------------------
(* ---------------------- the ring is a byte queue ----------------------- *)

(* The n slots from counter at hold the first n elements of s.             *)
Stored(at, s, n) == \A k \in 1..n : buf[Slot(at + (k - 1))] = s[k]

(* How far each thread has got with its copy: what the producer is about   *)
(* to publish is in the array, and what the consumer is about to hand over *)
(* is what the array still holds.                                          *)
Copied ==
  /\ prod.pc = "idle" => prod.src = <<>>
  /\ prod.pc = "rest" =>
       /\ Len(prod.src) > BeforeWrap(prod.at, Len(prod.src))
       /\ Stored(prod.at, prod.src, BeforeWrap(prod.at, Len(prod.src)))
  /\ prod.pc = "publish" => Stored(prod.at, prod.src, Len(prod.src))
  /\ cons.pc = "rest" =>
       /\ cons.n > BeforeWrap(cons.at, cons.n)
       /\ Len(cons.dst) = BeforeWrap(cons.at, cons.n)
       /\ Stored(cons.at, cons.dst, BeforeWrap(cons.at, cons.n))
  /\ cons.pc = "release" =>
       /\ Len(cons.dst) = cons.n
       /\ Stored(cons.at, cons.dst, cons.n)

(* What is left of a sequence without its first n elements.                *)
LEMMA RestOf ==
  ASSUME NEW s \in Seq(Data), NEW n \in 0..Len(s)
  PROVE  /\ SubSeq(s, n + 1, Len(s)) \in Seq(Data)
         /\ Len(SubSeq(s, n + 1, Len(s))) = Len(s) - n
         /\ \A k \in 1..Len(s) - n : SubSeq(s, n + 1, Len(s))[k] = s[n + k]
<1>1. /\ SubSeq(s, n + 1, Len(s)) \in Seq(Data)
      /\ Len(SubSeq(s, n + 1, Len(s))) = Len(s) - n
  OBVIOUS
<1>2. ASSUME NEW k \in 1..Len(s) - n
      PROVE  SubSeq(s, n + 1, Len(s))[k] = s[n + k]
  OBVIOUS
<1>3. QED  BY <1>1, <1>2

(* The first n elements of a sequence.                                     *)
LEMMA StartOf ==
  ASSUME NEW s \in Seq(Data), NEW n \in 0..Len(s)
  PROVE  /\ SubSeq(s, 1, n) \in Seq(Data)
         /\ SubSeq(s, 1, n) \in [1..n -> Data]
         /\ Len(SubSeq(s, 1, n)) = n
         /\ \A k \in 1..n : SubSeq(s, 1, n)[k] = s[k]
<1>1. SubSeq(s, 1, n) = [k \in 1..n |-> s[k]]
  OBVIOUS
<1>2. n \in Nat /\ \A k \in 1..n : s[k] \in Data
  OBVIOUS
<1>3. [k \in 1..n |-> s[k]] \in Seq(Data) /\ Len([k \in 1..n |-> s[k]]) = n
  BY <1>2
<1>4. QED  BY <1>1, <1>2, <1>3

(* The slots after a slot follow it, to the end of the array and from its  *)
(* start on.                                                               *)
LEMMA SlotStep ==
  ASSUME NEW i \in Int, NEW k \in Nat
  PROVE  /\ Slot(i) + k < Cap => Slot(i + k) = Slot(i) + k
         /\ Slot(i) + k >= Cap /\ Slot(i) + k < 2 * Cap
              => Slot(i + k) = Slot(i) + k - Cap
<1>1. Cap \in Nat /\ Cap > 0
  BY Sizes
<1>2. /\ i \div Cap \in Int /\ Slot(i) \in 0..Cap - 1
      /\ i = Cap * (i \div Cap) + Slot(i)
  BY <1>1, DivMod DEF Slot
<1> DEFINE q == i \div Cap
           r == Slot(i)
<1>3. q \in Int /\ r \in 0..Cap - 1 /\ i = Cap * q + r
  BY <1>2
<1> HIDE DEF q, r
<1>4. ASSUME r + k < Cap PROVE (i + k) % Cap = r + k
  <2>1. r + k \in 0..Cap - 1 /\ i + k \in Int /\ i + k = Cap * q + (r + k)
    BY <1>1, <1>3, <1>4
  <2>2. QED  BY <2>1, <1>1, <1>3, DivUnique
<1>5. ASSUME r + k >= Cap, r + k < 2 * Cap PROVE (i + k) % Cap = r + k - Cap
  <2>1. /\ r + k - Cap \in 0..Cap - 1 /\ i + k \in Int /\ q + 1 \in Int
    BY <1>1, <1>3, <1>5
  <2>2. Cap * (q + 1) = Cap * q + Cap
    BY <1>1, <1>3
  <2>3. i + k = Cap * (q + 1) + (r + k - Cap)
    BY <1>1, <1>3, <2>2
  <2>4. QED  BY <2>1, <2>3, <1>1, DivUnique
<1>6. QED  BY <1>4, <1>5 DEF Slot, r

(* A slot of the stretch from at is one of its window.                     *)
LEMMA InWindow ==
  ASSUME NEW at \in Int, NEW n \in Nat, NEW k \in 1..n
  PROVE  Slot(at + (k - 1)) \in Window(at, n) /\ Slot(at + (k - 1)) \in Slots
<1>1. k - 1 \in 0..n - 1 /\ at + (k - 1) \in Int
  OBVIOUS
<1>2. QED  BY <1>1, SlotInRange DEF Window

(* What the counters say in a state of the invariant.                      *)
LEMMA Counters ==
  ASSUME IInv
  PROVE  /\ Cap \in Nat /\ Cap >= 2 /\ Mod \in Nat
         /\ head \in 0..Mod - 1 /\ tail \in 0..Mod - 1
         /\ Readable \in Nat /\ Readable = Dist(head, tail)
         /\ Readable <= Cap - 1 /\ Writable = Cap - 1 - Readable
         /\ prod.src \in Seq(Data) /\ Len(prod.src) \in Nat
         /\ cons.n \in Nat /\ cons.dst \in Seq(Data)
         /\ buf \in [Slots -> Data]
         /\ prod.at \in Int /\ cons.at \in Int
BY Sizes, ReadableRange DEF IInv, TypeOK, ClaimsFit

(* The queue has as many elements as readable() says.                      *)
LEMMA ContentsLen ==
  ASSUME IInv
  PROVE  /\ Contents \in Seq(Data)
         /\ Len(Contents) = Readable
         /\ \A k \in 1..Readable : Contents[k] = buf[Slot(tail + k - 1)]
<1>1. Readable \in Nat /\ tail \in Int /\ buf \in [Slots -> Data]
  BY Counters
<1>2. ASSUME NEW k \in 1..Readable PROVE buf[Slot(tail + k - 1)] \in Data
  BY <1>1, SlotInRange
<1>3. QED  BY <1>1, <1>2 DEF Contents

(* Both of a write's memcpys stay in its window, and together they put the *)
(* whole of src into the array.                                            *)
LEMMA FirstStores ==
  ASSUME IInv, WriteFirst
  PROVE  /\ Stored(prod.at, prod.src, BeforeWrap(prod.at, Len(prod.src)))'
         /\ \A i \in Slots \ Window(prod.at, Len(prod.src)) : buf'[i] = buf[i]
<1> DEFINE n     == Len(prod.src)
           slot  == Slot(prod.at)
           first == BeforeWrap(prod.at, n)
<1>1. /\ Cap \in Nat /\ Slots = 0..Cap - 1 /\ prod.at \in Int /\ n \in Nat
      /\ first \in 0..n /\ slot \in 0..Cap - 1 /\ first <= Cap - slot
  BY Counters, BeforeWrapFits DEF Slots
<1>2. buf' = [i \in Slots |-> IF i \in slot..slot + first - 1
                              THEN prod.src[i - slot + 1] ELSE buf[i]]
  BY DEF WriteFirst
<1>3. prod'.at = prod.at /\ prod'.src = prod.src
  BY DEF WriteFirst, IInv, TypeOK
<1> HIDE DEF n, slot, first
<1>4. ASSUME NEW k \in 1..first
      PROVE  buf'[Slot(prod.at + (k - 1))] = prod.src[k]
  <2>1. k - 1 \in Nat /\ slot + (k - 1) < Cap
    BY <1>1
  <2> DEFINE j == slot + (k - 1)
  <2>2. Slot(prod.at + (k - 1)) = j
    BY <2>1, <1>1, SlotStep DEF slot
  <2>3. j \in Slots /\ j \in slot..slot + first - 1 /\ j - slot + 1 = k
    BY <1>1, <2>1
  <2> HIDE DEF j
  <2>4. buf'[j] = prod.src[j - slot + 1]
    BY <1>2, <2>3
  <2>5. QED  BY <2>2, <2>3, <2>4
<1>5. ASSUME NEW i \in Slots, i \notin Window(prod.at, n)
      PROVE  buf'[i] = buf[i]
  <2>1. ASSUME i \in slot..slot + first - 1 PROVE FALSE
    <3>1. /\ i - slot \in Nat /\ i - slot \in 0..n - 1
          /\ slot + (i - slot) < Cap /\ slot + (i - slot) = i
      BY <2>1, <1>1
    <3>2. Slot(prod.at + (i - slot)) = i
      BY <3>1, <1>1, SlotStep DEF slot
    <3>3. QED  BY <3>1, <3>2, <1>5 DEF Window
  <2>2. QED  BY <2>1, <1>2
<1>6. QED  BY <1>3, <1>4, <1>5 DEF Stored, n, first

(* The second memcpy starts where the first one stopped.                   *)
LEMMA RestStores ==
  ASSUME IInv, Copied, WriteRest
  PROVE  /\ Stored(prod.at, prod.src, Len(prod.src))'
         /\ \A i \in Slots \ Window(prod.at, Len(prod.src)) : buf'[i] = buf[i]
<1> DEFINE n     == Len(prod.src)
           slot  == Slot(prod.at)
           first == BeforeWrap(prod.at, n)
<1>1. /\ Cap \in Nat /\ Slots = 0..Cap - 1 /\ prod.at \in Int /\ n \in Nat
      /\ slot \in 0..Cap - 1 /\ first \in 0..n
  BY Counters, BeforeWrapFits DEF Slots
<1>2. n > first /\ Stored(prod.at, prod.src, first)
  BY DEF WriteRest, Copied
<1>3. first = Cap - slot
  BY <1>1, <1>2 DEF BeforeWrap, Least
<1>n. n <= Cap - 1
  BY Counters DEF WriteRest, IInv, ClaimsFit
<1>4. buf' = [i \in Slots |-> IF i \in 0..n - first - 1
                              THEN prod.src[first + i + 1] ELSE buf[i]]
  BY DEF WriteRest
<1>5. prod'.at = prod.at /\ prod'.src = prod.src
  BY DEF WriteRest, IInv, TypeOK
<1> HIDE DEF n, slot, first
<1>6. ASSUME NEW k \in 1..n
      PROVE  buf'[Slot(prod.at + (k - 1))] = prod.src[k]
  <2>1. CASE k <= first
    <3>1. k - 1 \in Nat /\ slot + (k - 1) < Cap /\ k \in 1..first
      BY <1>1, <1>3, <2>1
    <3>2. Slot(prod.at + (k - 1)) = slot + (k - 1)
      BY <3>1, <1>1, SlotStep DEF slot
    <3>3. slot + (k - 1) \in Slots /\ slot + (k - 1) \notin 0..n - first - 1
      BY <1>1, <1>3, <1>n, <3>1
    <3>4. buf[Slot(prod.at + (k - 1))] = prod.src[k]
      BY <1>2, <3>1 DEF Stored
    <3>5. QED  BY <1>4, <3>2, <3>3, <3>4
  <2>2. CASE k > first
    <3>1. /\ k - 1 \in Nat /\ slot + (k - 1) >= Cap
          /\ slot + (k - 1) < 2 * Cap /\ slot + (k - 1) - Cap = k - 1 - first
      BY <1>1, <1>3, <1>n, <2>2
    <3>2. Slot(prod.at + (k - 1)) = k - 1 - first
      BY <3>1, <1>1, SlotStep DEF slot
    <3>3. /\ k - 1 - first \in Slots /\ k - 1 - first \in 0..n - first - 1
          /\ first + (k - 1 - first) + 1 = k
      BY <1>1, <1>3, <1>n, <2>2
    <3>4. buf'[k - 1 - first] = prod.src[first + (k - 1 - first) + 1]
      BY <1>4, <3>3
    <3>5. QED  BY <3>2, <3>3, <3>4
  <2>3. QED  BY <2>1, <2>2, <1>1
<1>7. ASSUME NEW i \in Slots, i \notin Window(prod.at, n)
      PROVE  buf'[i] = buf[i]
  <2>1. ASSUME i \in 0..n - first - 1 PROVE FALSE
    <3>1. /\ first + i \in Nat /\ first + i \in 0..n - 1
          /\ slot + (first + i) >= Cap /\ slot + (first + i) < 2 * Cap
          /\ slot + (first + i) - Cap = i
      BY <2>1, <1>1, <1>3, <1>n
    <3>2. Slot(prod.at + (first + i)) = i
      BY <3>1, <1>1, SlotStep DEF slot
    <3>3. QED  BY <3>1, <3>2, <1>7 DEF Window
  <2>2. QED  BY <2>1, <1>4
<1>8. QED  BY <1>5, <1>6, <1>7 DEF Stored, n

(* While the producer copies, the queue and what the consumer has copied   *)
(* of it stay what they were.                                              *)
LEMMA CopyLeavesUnread ==
  ASSUME IInv, prod.pc \in {"first", "rest"}, UNCHANGED <<head, tail, cons>>,
         buf' \in [Slots -> Data],
         \A i \in Slots \ Window(prod.at, Len(prod.src)) : buf'[i] = buf[i]
  PROVE  /\ Contents' = Contents
         /\ cons.pc # "idle" =>
              \A n \in 0..cons.n :
                Stored(cons.at, cons.dst, n) => Stored(cons.at, cons.dst, n)'
<1>1. /\ Readable \in Nat /\ tail \in Int
      /\ cons.n \in Nat /\ cons.at \in Int
  BY Counters
<1>2. Window(prod.at, Len(prod.src)) \cap Window(tail, Readable) = {}
  <2>1. prod.at = head /\ Dist(head, tail) + Len(prod.src) <= Cap - 1
    BY Counters DEF IInv, ClaimsFit
  <2>2. QED  BY <2>1, Counters, WindowsApart
<1>3. ASSUME NEW k \in 1..Readable
      PROVE  buf'[Slot(tail + (k - 1))] = buf[Slot(tail + (k - 1))]
  BY <1>1, <1>2, InWindow
<1>4. Readable' = Readable
  BY DEF Readable
<1>5. Contents' = Contents
  <2>1. ASSUME NEW k \in 1..Readable
        PROVE  buf'[Slot(tail + k - 1)] = buf[Slot(tail + k - 1)]
    <3>1. tail + k - 1 = tail + (k - 1)
      BY <1>1
    <3>2. QED  BY <3>1, <1>3
  <2>2. QED  BY <2>1, <1>4 DEF Contents
<1>6. ASSUME cons.pc # "idle", NEW n \in 0..cons.n, Stored(cons.at, cons.dst, n)
      PROVE  Stored(cons.at, cons.dst, n)'
  <2>1. cons.at = tail /\ cons.n <= Readable
    BY <1>6 DEF IInv, ClaimsFit
  <2>2. ASSUME NEW k \in 1..n
        PROVE  buf'[Slot(cons.at + (k - 1))] = cons.dst[k]
    <3>1. k \in 1..Readable
      BY <2>1, <1>1
    <3>2. QED  BY <3>1, <2>1, <1>3, <1>6 DEF Stored
  <2>3. QED  BY <2>2 DEF Stored
<1>7. QED  BY <1>5, <1>6

(* The empty ring has copied nothing.                                      *)
LEMMA InitCopied == Init => Copied
BY DEF Init, Copied, IdleProducer, IdleConsumer

(* Whatever either thread does, both copies stay faithful.                 *)
LEMMA NextCopied ==
  IInv /\ Copied /\ [Next]_vars => Copied'
<1> SUFFICES ASSUME IInv, Copied, [Next]_vars PROVE Copied'
  OBVIOUS
<1>i. IInv'
  BY NextTypeOK, NextClaimsFit DEF IInv
<1>t. /\ buf \in [Slots -> Data] /\ buf' \in [Slots -> Data]
      /\ cons.n \in Nat /\ cons.at \in Int /\ cons.dst \in Seq(Data)
  BY <1>i, Counters DEF IInv, TypeOK
<1>1. ASSUME NEW src \in Chunks, WriteBegin(src) PROVE Copied'
  BY <1>1 DEF WriteBegin, Copied, Stored
<1>c. ASSUME prod.pc \in {"first", "rest"}, UNCHANGED <<head, tail, cons>>,
             \A i \in Slots \ Window(prod.at, Len(prod.src)) : buf'[i] = buf[i]
      PROVE  /\ cons.pc = "rest" => Stored(cons.at, cons.dst, BeforeWrap(cons.at, cons.n))'
             /\ cons.pc = "release" => Stored(cons.at, cons.dst, cons.n)'
  <2>1. BeforeWrap(cons.at, cons.n) \in 0..cons.n
    BY <1>t, BeforeWrapFits
  <2>n. cons.n \in 0..cons.n
    BY <1>t
  <2>2. \A n \in 0..cons.n : cons.pc # "idle" /\ Stored(cons.at, cons.dst, n)
                               => Stored(cons.at, cons.dst, n)'
    BY <1>c, <1>t, CopyLeavesUnread
  <2>3. BeforeWrap(cons.at, cons.n)' = BeforeWrap(cons.at, cons.n) /\ cons' = cons
    BY <1>c DEF BeforeWrap, Least, Slot
  <2>4. QED  BY <2>1, <2>n, <2>2, <2>3 DEF Copied, Stored
<1>2. ASSUME WriteFirst PROVE Copied'
  <2>1. /\ Stored(prod.at, prod.src, BeforeWrap(prod.at, Len(prod.src)))'
        /\ \A i \in Slots \ Window(prod.at, Len(prod.src)) : buf'[i] = buf[i]
    BY <1>2, FirstStores
  <2>2. /\ prod.pc = "first" /\ UNCHANGED <<head, tail, cons>>
        /\ prod'.at = prod.at /\ prod'.src = prod.src
        /\ prod'.pc = IF Len(prod.src) > BeforeWrap(prod.at, Len(prod.src))
                      THEN "rest" ELSE "publish"
    BY <1>2 DEF WriteFirst, IInv, TypeOK
  <2>3. /\ cons.pc = "rest" => Stored(cons.at, cons.dst, BeforeWrap(cons.at, cons.n))'
        /\ cons.pc = "release" => Stored(cons.at, cons.dst, cons.n)'
    BY <2>1, <2>2, <1>c
  <2>w. BeforeWrap(prod.at, Len(prod.src)) \in 0..Len(prod.src)
    BY Counters, BeforeWrapFits
  <2>4. prod'.pc = "publish" => BeforeWrap(prod.at, Len(prod.src)) = Len(prod.src)
    BY <2>2, <2>w, Counters
  <2>5. QED  BY <2>1, <2>2, <2>3, <2>4 DEF Copied, Stored
<1>3. ASSUME WriteRest PROVE Copied'
  <2>1. /\ Stored(prod.at, prod.src, Len(prod.src))'
        /\ \A i \in Slots \ Window(prod.at, Len(prod.src)) : buf'[i] = buf[i]
    BY <1>3, RestStores
  <2>2. /\ prod.pc = "rest" /\ UNCHANGED <<head, tail, cons>>
        /\ prod'.pc = "publish"
    BY <1>3 DEF WriteRest, IInv, TypeOK
  <2>3. /\ cons.pc = "rest" => Stored(cons.at, cons.dst, BeforeWrap(cons.at, cons.n))'
        /\ cons.pc = "release" => Stored(cons.at, cons.dst, cons.n)'
    BY <2>1, <2>2, <1>c
  <2>4. QED  BY <2>1, <2>2, <2>3 DEF Copied
<1>4. ASSUME WritePublish PROVE Copied'
  BY <1>4 DEF WritePublish, Copied, Stored, IdleProducer
<1>5. ASSUME NEW n \in 1..Cap, ReadBegin(n) PROVE Copied'
  BY <1>5 DEF ReadBegin, Copied, Stored
<1>6. ASSUME ReadFirst PROVE Copied'
  <2> DEFINE first == BeforeWrap(cons.at, cons.n)
             slot  == Slot(cons.at)
  <2>1. /\ Cap \in Nat /\ first \in 0..cons.n /\ first <= Cap - slot
        /\ slot \in 0..Cap - 1
    BY <1>t, BeforeWrapFits, Sizes
  <2>2. /\ UNCHANGED <<head, tail, buf, prod>>
        /\ cons'.at = cons.at /\ cons'.n = cons.n
        /\ cons'.dst = [k \in 1..first |-> buf[slot + k - 1]]
        /\ cons'.pc = IF cons.n > first THEN "rest" ELSE "release"
    BY <1>6 DEF ReadFirst, IInv, TypeOK
  <2> HIDE DEF first, slot
  <2>3. Len(cons'.dst) = first
    BY <2>1, <2>2, <1>t
  <2>4. ASSUME NEW k \in 1..first
        PROVE  buf'[Slot(cons'.at + (k - 1))] = cons'.dst[k]
    <3>1. k - 1 \in Nat /\ slot + (k - 1) < Cap /\ slot + k - 1 = slot + (k - 1)
      BY <2>1, <1>t
    <3>2. Slot(cons.at + (k - 1)) = slot + (k - 1)
      BY <3>1, <1>t, SlotStep DEF slot
    <3>3. cons'.dst[k] = buf[slot + k - 1]
      BY <2>2
    <3>4. QED  BY <3>1, <3>2, <3>3, <2>2
  <2>5. Stored(cons.at, cons.dst, first)'
    <3>1. first' = first
      BY <2>2 DEF first, BeforeWrap, Least, Slot
    <3>2. QED  BY <2>4, <3>1 DEF Stored
  <2>6. cons'.pc = "release" => first = cons.n
    BY <2>1, <2>2, <1>t
  <2>7. QED
    BY <2>2, <2>3, <2>5, <2>6 DEF Copied, Stored, first, BeforeWrap, Least, Slot
<1>7. ASSUME ReadRest PROVE Copied'
  <2> DEFINE first == BeforeWrap(cons.at, cons.n)
             slot  == Slot(cons.at)
             rest  == [k \in 1..cons.n - first |-> buf[k - 1]]
  <2>1. /\ Cap \in Nat /\ first \in 0..cons.n /\ slot \in 0..Cap - 1
        /\ cons.n > first /\ Len(cons.dst) = first
        /\ Stored(cons.at, cons.dst, first)
    BY <1>7, <1>t, BeforeWrapFits, Sizes DEF ReadRest, Copied
  <2>2. first = Cap - slot /\ cons.n <= Cap - 1
    BY <2>1, <1>t, <1>7, Counters
    DEF BeforeWrap, Least, ReadRest, IInv, ClaimsFit
  <2>3. /\ UNCHANGED <<head, tail, buf, prod>>
        /\ cons'.at = cons.at /\ cons'.n = cons.n
        /\ cons'.dst = cons.dst \o rest
        /\ cons'.pc = "release"
    BY <1>7 DEF ReadRest, IInv, TypeOK
  <2> HIDE DEF first, slot
  <2>4. /\ rest \in Seq(Data) /\ Len(rest) = cons.n - first
        /\ \A k \in 1..cons.n - first : rest[k] = buf[k - 1]
    <3>1. ASSUME NEW k \in 1..cons.n - first PROVE buf[k - 1] \in Data
      <4>1. k - 1 \in Slots
        BY <2>1, <2>2, <1>t DEF Slots
      <4>2. QED  BY <4>1, <1>t
    <3>2. QED  BY <3>1, <2>1, <1>t
  <2> HIDE DEF rest
  <2>5. Len(cons'.dst) = cons.n
    <3>1. Len(cons.dst \o rest) = Len(cons.dst) + Len(rest)
      BY <2>4, <1>t, ConcatProperties
    <3>2. QED  BY <3>1, <2>1, <2>3, <2>4, <1>t
  <2>6. ASSUME NEW k \in 1..cons.n
        PROVE  buf'[Slot(cons'.at + (k - 1))] = cons'.dst[k]
    <3>1. CASE k <= first
      <4>1. cons'.dst[k] = cons.dst[k] /\ k \in 1..first
        BY <3>1, <2>1, <2>3, <2>4, <1>t
      <4>2. QED  BY <4>1, <2>1, <2>3 DEF Stored
    <3>2. CASE k > first
      <4>1. /\ k - first \in 1..cons.n - first /\ k - first - 1 = k - 1 - first
            /\ k - 1 \in Nat /\ slot + (k - 1) >= Cap
            /\ slot + (k - 1) < 2 * Cap /\ slot + (k - 1) - Cap = k - 1 - first
        BY <3>2, <2>1, <2>2, <1>t
      <4>2. Slot(cons.at + (k - 1)) = k - 1 - first
        BY <4>1, <1>t, SlotStep DEF slot
      <4>3. cons'.dst[k] = rest[k - first]
        BY <3>2, <2>1, <2>3, <2>4, <1>t
      <4>4. rest[k - first] = buf[k - first - 1]
        BY <4>1, <2>4
      <4>5. QED  BY <4>1, <4>2, <4>3, <4>4, <2>3
    <3>3. QED  BY <3>1, <3>2, <2>1, <1>t
  <2>7. QED
    BY <2>3, <2>5, <2>6 DEF Copied, Stored
<1>8. ASSUME ReadRelease PROVE Copied'
  BY <1>8 DEF ReadRelease, Copied, Stored, IdleConsumer
<1>9. CASE UNCHANGED vars
  BY <1>9 DEF vars, Copied, Stored, BeforeWrap, Least, Slot
<1>10. QED
  BY <1>1, <1>2, <1>3, <1>4, <1>5, <1>6, <1>7, <1>8, <1>9
  DEF Next, Producer, Consumer

(* ------------------------ every step of the ring ----------------------- *)

(* The queue depends on the two counters and the array alone.              *)
LEMMA ContentsSame ==
  ASSUME UNCHANGED <<head, tail, buf>>
  PROVE  Contents' = Contents
BY DEF Contents, Readable, Slot

(* Publishing appends to the queue what the producer had claimed.          *)
LEMMA PublishAppends ==
  ASSUME IInv, Copied, WritePublish
  PROVE  Contents' = Contents \o prod.src
<1> DEFINE n == Len(prod.src)
           d == Readable
<1>1. /\ n \in 0..Cap - 1 /\ d \in Nat /\ d + n <= Cap - 1
      /\ prod.at = head /\ d = Dist(head, tail)
      /\ head \in 0..Mod - 1 /\ tail \in 0..Mod - 1
      /\ Cap \in Nat /\ Mod \in Nat
      /\ prod.src \in Seq(Data)
  <2>1. n \in Nat /\ prod.at = head /\ n <= Writable
    BY Counters DEF WritePublish, IInv, ClaimsFit
  <2>2. QED  BY <2>1, Counters
<1>2. d' = d + n
  <2>1. Dist(Advance(head, n), tail) = d + n
    BY <1>1, DistAdvance
  <2>2. QED  BY <2>1, <1>1 DEF WritePublish, Readable, Dist
<1>3. tail' = tail /\ buf' = buf
  BY DEF WritePublish
<1>4. Stored(head, prod.src, n)
  BY <1>1 DEF WritePublish, Copied
<1>5. /\ Contents \in Seq(Data) /\ Len(Contents) = d
      /\ \A k \in 1..d : Contents[k] = buf[Slot(tail + k - 1)]
  BY ContentsLen
<1>6. /\ Contents' \in Seq(Data) /\ Len(Contents') = d + n
      /\ \A k \in 1..d + n : Contents'[k] = buf[Slot(tail + k - 1)]
  <2>1. Contents' = [k \in 1..d + n |-> buf[Slot(tail + k - 1)]]
    BY <1>2, <1>3 DEF Contents, Slot
  <2>2. ASSUME NEW k \in 1..d + n PROVE buf[Slot(tail + k - 1)] \in Data
    <3>1. tail + k - 1 \in Int /\ buf \in [Slots -> Data]
      BY <1>1, Counters
    <3>2. QED  BY <3>1, SlotInRange
  <2>3. d + n \in Nat
    BY <1>1
  <2> HIDE DEF n, d
  <2>4. QED  BY <2>1, <2>2, <2>3
<1> HIDE DEF n, d
<1>7. ASSUME NEW k \in 1..d + n
      PROVE  Contents'[k] = (Contents \o prod.src)[k]
  <2>j. /\ k <= d => (Contents \o prod.src)[k] = Contents[k]
        /\ k > d => (Contents \o prod.src)[k] = prod.src[k - d]
    <3>1. k \in 1..Len(Contents) + Len(prod.src)
      BY <1>5 DEF n
    <3>2. (Contents \o prod.src)[k] = IF k <= Len(Contents) THEN Contents[k]
                                      ELSE prod.src[k - Len(Contents)]
      BY <3>1, <1>1, <1>5, ConcatProperties
    <3>3. QED  BY <3>2, <1>1, <1>5
  <2>k. k <= d \/ k > d
    BY <1>1
  <2>1. CASE k <= d
    <3>1. k \in 1..d
      BY <2>1, <1>1
    <3>2. QED  BY <3>1, <2>1, <2>j, <1>5, <1>6
  <2>2. CASE k > d
    <3>1. /\ k - d \in 1..n /\ k - d - 1 \in Nat
          /\ tail + d + (k - d - 1) = tail + k - 1
      BY <2>2, <1>1
    <3>j. (Contents \o prod.src)[k] = prod.src[k - d]
      BY <2>2, <2>j
    <3>2. Slot(head + (k - d - 1)) = Slot(tail + d + (k - d - 1))
      BY <3>1, <1>1, SlotOfDist
    <3>3. buf[Slot(head + (k - d - 1))] = prod.src[k - d]
      BY <3>1, <1>4 DEF Stored
    <3>4. QED  BY <3>1, <3>j, <3>2, <3>3, <1>6
  <2>3. QED  BY <2>k, <2>1, <2>2
<1>8. /\ Contents \o prod.src \in Seq(Data)
      /\ Len(Contents \o prod.src) = d + n
  <2>1. Len(Contents \o prod.src) = Len(Contents) + Len(prod.src)
    BY <1>1, <1>5, ConcatProperties
  <2>2. QED  BY <2>1, <1>1, <1>5 DEF n
<1>9. QED  BY <1>6, <1>7, <1>8

(* Releasing takes from the front of the queue what the consumer copied.   *)
LEMMA ReleaseTakes ==
  ASSUME IInv, Copied, ReadRelease
  PROVE  /\ cons.n \in 0..Len(Contents)
         /\ taken' = SubSeq(Contents, 1, cons.n)
         /\ Contents' = SubSeq(Contents, cons.n + 1, Len(Contents))
<1> DEFINE n == cons.n
           d == Readable
<1>1. /\ n \in 0..Cap - 1 /\ n \in Nat /\ d \in Nat /\ n <= d
      /\ cons.at = tail /\ d = Dist(head, tail)
      /\ head \in 0..Mod - 1 /\ tail \in 0..Mod - 1
      /\ Cap \in Nat /\ Mod \in Nat
      /\ cons.dst \in Seq(Data)
  <2>1. n \in Nat /\ cons.at = tail /\ n <= Readable
    BY Counters DEF ReadRelease, IInv, ClaimsFit
  <2>2. QED  BY <2>1, Counters
<1>2. d' = d - n
  <2>1. Dist(head, Advance(tail, n)) = d - n
    BY <1>1, DistAdvance
  <2>2. QED  BY <2>1, <1>1 DEF ReadRelease, Readable, Dist
<1>3. tail' = Advance(tail, n) /\ buf' = buf /\ taken' = cons.dst
  BY <1>1 DEF ReadRelease
<1>4. Stored(tail, cons.dst, n) /\ Len(cons.dst) = n
  BY <1>1 DEF ReadRelease, Copied
<1>5. /\ Contents \in Seq(Data) /\ Len(Contents) = d
      /\ \A k \in 1..d : Contents[k] = buf[Slot(tail + k - 1)]
  BY ContentsLen
<1>6. /\ Contents' \in Seq(Data) /\ Len(Contents') = d - n
      /\ \A k \in 1..d - n : Contents'[k] = buf[Slot(Advance(tail, n) + k - 1)]
  <2>1. Contents' = [k \in 1..d - n |-> buf[Slot(Advance(tail, n) + k - 1)]]
    BY <1>2, <1>3 DEF Contents, Slot
  <2>2. ASSUME NEW k \in 1..d - n
        PROVE  buf[Slot(Advance(tail, n) + k - 1)] \in Data
    <3>1. Advance(tail, n) \in Int
      BY <1>1, AdvanceCases
    <3>2. Advance(tail, n) + k - 1 \in Int /\ buf \in [Slots -> Data]
      BY <3>1, Counters
    <3>3. QED  BY <3>2, SlotInRange
  <2>3. d - n \in Nat
    BY <1>1
  <2> HIDE DEF n, d
  <2>4. QED  BY <2>1, <2>2, <2>3
<1> HIDE DEF n, d
<1>7. ASSUME NEW k \in 1..n PROVE cons.dst[k] = Contents[k]
  <2>1. k \in 1..d /\ tail + k - 1 = tail + (k - 1)
    BY <1>1
  <2>2. QED  BY <2>1, <1>4, <1>5 DEF Stored
<1>8. cons.dst = SubSeq(Contents, 1, n)
  <2>1. /\ SubSeq(Contents, 1, n) \in Seq(Data) /\ Len(SubSeq(Contents, 1, n)) = n
        /\ \A k \in 1..n : SubSeq(Contents, 1, n)[k] = Contents[k]
    BY <1>1, <1>5, StartOf
  <2>2. QED  BY <2>1, <1>1, <1>4, <1>7
<1>9. ASSUME NEW k \in 1..d - n PROVE Contents'[k] = Contents[n + k]
  <2>1. /\ n + k \in 1..d /\ k - 1 \in Nat
        /\ Advance(tail, n) + k - 1 = Advance(tail, n) + (k - 1)
        /\ tail + (n + k) - 1 = tail + n + (k - 1)
    BY <1>1, AdvanceCases
  <2>2. Slot(Advance(tail, n) + (k - 1)) = Slot(tail + n + (k - 1))
    <3>1. Advance(tail, n) \in 0..Mod - 1
      BY <1>1, AdvanceCases
    <3>2. Dist(tail, tail) = 0
      BY <1>1, DistCases
    <3>3. Dist(tail, tail) + n <= Cap - 1 /\ Dist(tail, tail) + n = n
      BY <3>2, <1>1
    <3>4. Dist(Advance(tail, n), tail) = n
      BY <3>3, <1>1, DistAdvance
    <3>5. Slot(Advance(tail, n) + (k - 1))
            = Slot(tail + Dist(Advance(tail, n), tail) + (k - 1))
      BY <3>1, <2>1, <1>1, SlotOfDist
    <3>6. QED  BY <3>4, <3>5
  <2>3. QED  BY <2>1, <2>2, <1>5, <1>6
<1>10. Contents' = SubSeq(Contents, n + 1, d)
  <2>1. /\ SubSeq(Contents, n + 1, d) \in Seq(Data)
        /\ Len(SubSeq(Contents, n + 1, d)) = d - n
        /\ \A k \in 1..d - n : SubSeq(Contents, n + 1, d)[k] = Contents[n + k]
    <3>1. n \in 0..Len(Contents)
      BY <1>1, <1>5
    <3>2. QED  BY <3>1, <1>5, RestOf
  <2>2. QED  BY <2>1, <1>6, <1>9, SeqEqual
<1>11. QED  BY <1>1, <1>3, <1>5, <1>8, <1>10 DEF n, d

(* The initial ring is the empty queue.                                    *)
LEMMA InitFifo == Init => Fifo!Init
<1> SUFFICES ASSUME Init PROVE Fifo!Init
  OBVIOUS
<1>1. Readable = 0
  BY Sizes, DistCases, 0 \in 0..Mod - 1 DEF Init, Readable, Dist
<1>2. Contents = <<>>
  BY <1>1 DEF Contents
<1>3. QED  BY <1>2 DEF Init, IdleProducer, Fifo!Init

(* Every step of the ring is one of the queue, or leaves it alone.         *)
LEMMA StepFifo ==
  IInv /\ Copied /\ [Next]_vars => [Fifo!Next]_<<Contents, prod.src, taken>>
<1> SUFFICES ASSUME IInv, Copied, [Next]_vars
             PROVE  [Fifo!Next]_<<Contents, prod.src, taken>>
  OBVIOUS
<1>s. ASSUME Contents' = Contents, prod'.src = prod.src, taken' = taken
      PROVE  [Fifo!Next]_<<Contents, prod.src, taken>>
  BY <1>s
<1>1. ASSUME NEW src \in Chunks, WriteBegin(src)
      PROVE  [Fifo!Next]_<<Contents, prod.src, taken>>
  <2> DEFINE s == SubSeq(src, 1, Least(Len(src), Writable))
             n == Least(Len(src), Writable)
  <2>1. src \in Seq(Data) /\ Len(src) \in Nat /\ Writable \in Nat
    BY Sizes, Counters
  <2>2. n \in Nat /\ n <= Len(src) /\ n <= Writable
    BY <2>1 DEF Least
  <2>3. s \in [1..n -> Data]
    BY <2>1, <2>2, StartOf
  <2>n. Len(s) = n
    BY <2>1, <2>2, StartOf
  <2>4. /\ prod.src = <<>> /\ prod'.src = s
        /\ taken' = taken /\ Contents' = Contents
    BY <1>1, ContentsSame DEF WriteBegin, Copied
  <2> HIDE DEF s, n
  <2>5. n \in 0..Cap - 1 - Len(Contents)
    BY <2>2, Counters, ContentsLen
  <2>6. Fifo!Free = Cap - 1 - Len(Contents)
    BY DEF Fifo!Free
  <2>7. Fifo!Offer(s)
    BY <2>n, <2>4, <2>5, <2>6 DEF Fifo!Offer
  <2>8. QED  BY <2>3, <2>5, <2>6, <2>7 DEF Fifo!Next
<1>2. ASSUME WriteFirst PROVE [Fifo!Next]_<<Contents, prod.src, taken>>
  <2>1. buf' \in [Slots -> Data]
    BY NextTypeOK DEF IInv, TypeOK
  <2>2. /\ prod.pc = "first" /\ UNCHANGED <<head, tail, cons, taken>>
        /\ prod'.src = prod.src
    BY <1>2 DEF WriteFirst, IInv, TypeOK
  <2>3. Contents' = Contents
    BY <1>2, <2>1, <2>2, FirstStores, CopyLeavesUnread
  <2>4. QED  BY <2>2, <2>3, <1>s
<1>3. ASSUME WriteRest PROVE [Fifo!Next]_<<Contents, prod.src, taken>>
  <2>1. buf' \in [Slots -> Data]
    BY NextTypeOK DEF IInv, TypeOK
  <2>2. /\ prod.pc = "rest" /\ UNCHANGED <<head, tail, cons, taken>>
        /\ prod'.src = prod.src
    BY <1>3 DEF WriteRest, IInv, TypeOK
  <2>3. Contents' = Contents
    BY <1>3, <2>1, <2>2, RestStores, CopyLeavesUnread
  <2>4. QED  BY <2>2, <2>3, <1>s
<1>4. ASSUME WritePublish PROVE [Fifo!Next]_<<Contents, prod.src, taken>>
  <2>1. Contents' = Contents \o prod.src
    BY <1>4, PublishAppends
  <2>2. prod'.src = <<>> /\ taken' = taken
    BY <1>4 DEF WritePublish, IdleProducer
  <2>3. Len(prod.src) <= Cap - 1 - Len(Contents)
    BY <1>4, Counters, ContentsLen DEF WritePublish, IInv, ClaimsFit
  <2>4. QED  BY <2>1, <2>2, <2>3 DEF Fifo!Next, Fifo!Accept, Fifo!Put, Fifo!Free
<1>5. ASSUME NEW n \in 1..Cap, ReadBegin(n)
      PROVE  [Fifo!Next]_<<Contents, prod.src, taken>>
  BY <1>5, <1>s, ContentsSame DEF ReadBegin
<1>6. ASSUME ReadFirst PROVE [Fifo!Next]_<<Contents, prod.src, taken>>
  BY <1>6, <1>s, ContentsSame DEF ReadFirst
<1>7. ASSUME ReadRest PROVE [Fifo!Next]_<<Contents, prod.src, taken>>
  BY <1>7, <1>s, ContentsSame DEF ReadRest
<1>8. ASSUME ReadRelease PROVE [Fifo!Next]_<<Contents, prod.src, taken>>
  <2>1. /\ cons.n \in 0..Len(Contents)
        /\ taken' = SubSeq(Contents, 1, cons.n)
        /\ Contents' = SubSeq(Contents, cons.n + 1, Len(Contents))
    BY <1>8, ReleaseTakes
  <2>2. prod'.src = prod.src
    BY <1>8 DEF ReadRelease
  <2>3. cons.n <= Len(Contents)
    BY <2>1, ContentsLen, Counters
  <2>4. Fifo!Take(cons.n) /\ prod'.src = prod.src
    BY <2>1, <2>2, <2>3 DEF Fifo!Take
  <2>5. QED  BY <2>1, <2>4 DEF Fifo!Next
<1>9. CASE UNCHANGED vars
  BY <1>9, <1>s, ContentsSame DEF vars
<1>10. QED
  BY <1>1, <1>2, <1>3, <1>4, <1>5, <1>6, <1>7, <1>8, <1>9
  DEF Next, Producer, Consumer

(* For every capacity, counter width, set of values and call sequence, the *)
(* interleaved steps of write() and read() are those of one FIFO of        *)
(* capacity() - 1 bytes: nothing is lost, repeated or reordered, wherever  *)
(* the array or a counter wraps (SpscRing.h:12-20 and 45-75).              *)
THEOREM RingImplementsFifo == Spec => ImplementsFifo
<1>1. Init => IInv /\ Copied
  BY InitIInv, InitCopied
<1>2. IInv /\ Copied /\ [Next]_vars => IInv' /\ Copied'
  BY NextTypeOK, NextClaimsFit, NextCopied DEF IInv
<1>3. Spec => [](IInv /\ Copied)
  BY <1>1, <1>2, PTL DEF Spec
<1>4. QED
  BY <1>3, InitFifo, StepFifo, PTL DEF Spec, ImplementsFifo, Fifo!Spec, Fifo!fvars
=============================================================================
