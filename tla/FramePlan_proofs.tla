-------------------------- MODULE FramePlan_proofs --------------------------
(***************************************************************************)
(* For every size of frames and files, every recording and every request:  *)
(* the frames that are planned and read are those of the request, and the  *)
(* channel is as wide as the band.                                         *)
(***************************************************************************)
EXTENDS FramePlan, TLAPS

FirstFrame == StartN \div FrameSamples
Planned    == Quotient(EndN - StartN, FrameSamples)

(* The frames read and those still to be read are the planned ones.        *)
OnPlan ==
  /\ file * FramesPerFile + frame + toCollect = FirstFrame + Planned
  /\ file * FramesPerFile + frame >= FirstFrame
  /\ toCollect >= 0 \/ toCollect = Planned

Inside == 0 <= ask.start /\ ask.end < rec.end

IInv ==
  /\ rec \in Recordings /\ ask \in Asked
  /\ file \in Int /\ frame \in Int /\ toCollect \in Int
  /\ decirate \in Nat \ {0}
  /\ decirate > 1 => rec.rate \div decirate > ask.band
  /\ phase \in {"halve", "read", "done"} => Inside
  /\ phase \in {"read", "done"} => OnPlan /\ ~TooFast
  /\ phase = "trapped" => ask.band < 0
  /\ phase = "done" => toCollect <= 0
-----------------------------------------------------------------------------
(* Division with remainder.                                                *)
LEMMA DivMod ==
  ASSUME NEW a \in Int, NEW c \in Nat, c > 0
  PROVE  /\ a \div c \in Int
         /\ a % c \in 0..c - 1
         /\ a = c * (a \div c) + (a % c)
BY SMT

(* A non-negative dividend has a non-negative quotient.                    *)
LEMMA DivNat ==
  ASSUME NEW a \in Nat, NEW c \in Nat, c > 0 PROVE a \div c \in Nat
<1>1. /\ a \div c \in Int /\ a % c \in 0..c - 1
      /\ a = c * (a \div c) + (a % c)
  BY DivMod
<1> DEFINE q == a \div c
<1> HIDE DEF q
<1>2. q \in Int /\ a % c \in Int /\ a % c <= c - 1 /\ a = c * q + (a % c)
  BY <1>1 DEF q
<1>3. ASSUME q <= -1 PROVE FALSE
  <2>1. c * q <= -c
    BY <1>2, <1>3
  <2>2. QED  BY <1>2, <2>1
<1>4. q \in Nat
  BY <1>2, <1>3
<1>5. QED  BY <1>4 DEF q

(* Quotient and remainder are determined by any such decomposition.        *)
LEMMA DivUnique ==
  ASSUME NEW a \in Int, NEW c \in Nat, c > 0,
         NEW q \in Int, NEW r \in 0..c - 1, a = c * q + r
  PROVE  a \div c = q /\ a % c = r
<1> DEFINE d == (a \div c) - q
<1>1. /\ a \div c \in Int /\ a % c \in 0..c - 1
      /\ c * d = r - (a % c) /\ d \in Int
  BY DivMod
<1>2. CASE d >= 1
  <2>1. c * d >= c
    BY <1>1, <1>2
  <2>2. QED  BY <1>1, <2>1
<1>3. CASE d <= -1
  <2>1. c * d <= -c
    BY <1>1, <1>3
  <2>2. QED  BY <1>1, <2>1
<1>4. QED  BY <1>1, <1>2, <1>3

(* Halving a quotient is dividing by twice the divisor.                    *)
LEMMA DivHalf ==
  ASSUME NEW a \in Int, NEW c \in Nat, c > 0
  PROVE  (a \div c) \div 2 = a \div (2 * c)
<1> DEFINE q == a \div c
           s == q \div 2
           t == q % 2
           r == a % c
<1>1. q \in Int /\ r \in 0..c - 1 /\ a = c * q + r
  BY DivMod
<1>2. s \in Int /\ t \in 0..1 /\ q = 2 * s + t
  BY <1>1, DivMod
<1>3. a = (2 * c) * s + (c * t + r) /\ c * t + r \in 0..2 * c - 1
  <2>1. c * t \in 0..c
    BY <1>2
  <2>2. c * q = (2 * c) * s + c * t
    BY <1>2, <1>1
  <2>3. QED  BY <2>1, <2>2, <1>1
<1>4. 2 * c \in Nat /\ 2 * c > 0
  OBVIOUS
<1> HIDE DEF q, s, t, r
<1>5. a \div (2 * c) = s
  BY <1>2, <1>3, <1>4, DivUnique
<1>6. QED  BY <1>5 DEF q, s

(* Whole files and the frames of the last one make up the frames.          *)
LEMMA DivTwice ==
  ASSUME NEW a \in Int, NEW n \in Nat, n > 0, NEW c \in Nat, c > 0
  PROVE  (a \div (n * c)) * n + (a % (n * c)) \div c = a \div c
<1> DEFINE f == a \div (n * c)
           m == a % (n * c)
           s == m \div c
           t == m % c
<1>1. n * c \in Nat /\ n * c > 0
  OBVIOUS
<1>2. f \in Int /\ m \in 0..(n * c) - 1 /\ a = (n * c) * f + m
  BY <1>1, DivMod
<1>3. s \in Int /\ t \in 0..c - 1 /\ m = c * s + t
  BY <1>1, <1>2, DivMod
<1> HIDE DEF f, m, s, t
<1>4. a = c * (f * n + s) + t /\ f * n + s \in Int
  <2>1. (n * c) * f = c * (f * n)
    BY <1>2
  <2>2. c * (f * n + s) = c * (f * n) + c * s
    BY <1>2, <1>3
  <2>3. QED  BY <2>1, <2>2, <1>2, <1>3
<1>5. a \div c = f * n + s
  BY <1>3, <1>4, DivUnique
<1>6. QED  BY <1>5 DEF f, m, s

(* What the quotient rounds to, towards zero.                              *)
LEMMA QuotientBounds ==
  ASSUME NEW a \in Int, NEW c \in Nat, c > 0
  PROVE  /\ Quotient(a, c) \in Int
         /\ a >= 0 => Quotient(a, c) >= 0 /\ c * Quotient(a, c) <= a
                        /\ a - c < c * Quotient(a, c)
         /\ Quotient(a, c) > 0 => a >= 0
<1>1. CASE a >= 0
  <2>1. /\ a \div c \in Int
        /\ a % c \in 0..c - 1
        /\ a = c * (a \div c) + (a % c)
    BY DivMod
  <2>2. a \div c >= 0
    <3>1. CASE a \div c <= -1
      <4>1. c * (a \div c) <= -c
        BY <3>1, <2>1
      <4>2. QED  BY <4>1, <2>1, <1>1
    <3>2. QED  BY <3>1, <2>1
  <2>3. QED  BY <1>1, <2>1, <2>2 DEF Quotient
<1>2. CASE a < 0
  <2>1. /\ (-a) \div c \in Int
        /\ (-a) % c \in 0..c - 1
        /\ -a = c * ((-a) \div c) + ((-a) % c)
    BY DivMod
  <2>2. (-a) \div c >= 0
    <3>1. CASE (-a) \div c <= -1
      <4>1. c * ((-a) \div c) <= -c
        BY <3>1, <2>1
      <4>2. QED  BY <4>1, <2>1, <1>2
    <3>2. QED  BY <3>1, <2>1
  <2>3. QED  BY <1>2, <2>1, <2>2 DEF Quotient
<1>3. QED  BY <1>1, <1>2

(* A reader on plan, in samples: s and e are the first sample asked for    *)
(* and the one after the last, p counts the frames before the next one.    *)
LEMMA PlanInSamples ==
  ASSUME NEW s \in Int, NEW e \in Int, NEW c \in Nat, c > 0,
         NEW p \in Int, NEW t \in Int,
         p + t = (s \div c) + Quotient(e - s, c),
         p >= s \div c,
         t >= 0 \/ t = Quotient(e - s, c)
  PROVE  /\ t > 0 => s - c < p * c /\ p * c + t * c <= e
         /\ t <= 0 /\ s <= e => e - 2 * c < p * c
<1> DEFINE f == s \div c
           q == Quotient(e - s, c)
<1>1. f \in Int /\ c * f <= s /\ s - c < c * f
  <2>1. /\ s \div c \in Int
        /\ s % c \in 0..c - 1
        /\ s = c * (s \div c) + (s % c)
    BY DivMod
  <2>2. QED  BY <2>1
<1>2. /\ q \in Int
      /\ e - s >= 0 => q >= 0 /\ c * q <= e - s /\ (e - s) - c < c * q
      /\ q > 0 => e - s >= 0
  BY QuotientBounds
<1>3. p + t = f + q /\ p >= f /\ (t >= 0 \/ t = q)
  OBVIOUS
<1> HIDE DEF f, q
<1>4. c * f <= p * c
  BY <1>1, <1>3
<1>5. p * c + t * c = c * f + c * q
  <2>1. (p + t) * c = p * c + t * c /\ (f + q) * c = c * f + c * q
    BY <1>1, <1>2
  <2>2. QED  BY <2>1, <1>3
<1>6. ASSUME t > 0 PROVE s - c < p * c /\ p * c + t * c <= e
  <2>1. q > 0
    BY <1>3, <1>6, <1>1, <1>2
  <2>2. QED  BY <2>1, <1>1, <1>2, <1>4, <1>5
<1>7. ASSUME t <= 0, s <= e PROVE e - 2 * c < p * c
  <2>1. q >= 0
    BY <1>2, <1>7
  <2>2. t = 0
    BY <2>1, <1>3, <1>7
  <2>3. t * c = 0
    BY <2>2
  <2>4. QED  BY <2>3, <1>1, <1>2, <1>5, <1>7
<1>8. QED  BY <1>6, <1>7
-----------------------------------------------------------------------------
(* Requests and recordings have the fields of their types.                 *)
LEMMA Fields ==
  ASSUME rec \in Recordings, ask \in Asked
  PROVE  /\ rec.end \in Nat /\ rec.rate \in Nat \ {0} /\ rec.freq \in Int
         /\ IntLimit \in Nat /\ rec.rate < IntLimit
         /\ ask.start \in Int /\ ask.end \in Int /\ ask.band \in Int
         /\ StartN \in Int /\ EndN \in Int
         /\ FrameSamples \in Nat /\ FrameSamples > 0
         /\ FramesPerFile \in Nat /\ FramesPerFile > 0
<1>1. rec \in [end : Nat, rate : 1 .. IntLimit - 1, freq : Int]
  BY PlanAssumption
<1>2. ask \in [start : Int, end : Int, freq : Int, band : Int]
  BY PlanAssumption
<1>3. QED  BY <1>1, <1>2, PlanAssumption DEF StartN, EndN

LEMMA InitIInv == Init => IInv
BY DEF Init, IInv

(* One more halving keeps the channel wider than the band.                 *)
LEMMA HalveIInv == ASSUME IInv, Halve PROVE IInv'
<1>1. rec.rate \in Int /\ decirate \in Nat /\ decirate > 0
  BY Fields DEF IInv
<1>2. (rec.rate \div decirate) \div 2 = rec.rate \div (2 * decirate)
  BY <1>1, DivHalf
<1>3. rec.rate \div decirate' > ask.band
  BY <1>2 DEF Halve, TooFast
<1>4. decirate' \in Nat \ {0}
  BY <1>1 DEF Halve
<1>5. phase = "halve" /\ phase' = "halve"
  BY DEF Halve
<1>6. QED  BY <1>3, <1>4, <1>5 DEF IInv, Halve, Inside

(* Only a negative band is exceeded by a rate that is halved to nothing.   *)
LEMMA TrapIInv == ASSUME IInv, Trap PROVE IInv'
<1>1. /\ rec.rate \in Nat /\ rec.rate < IntLimit /\ IntLimit \in Nat /\ ask.band \in Int
      /\ decirate \in Nat /\ decirate > 0
  BY Fields DEF IInv
<1>2. ask.band < 0
  <2> DEFINE q == rec.rate \div (2 * decirate)
  <2>1. (rec.rate \div decirate) \div 2 = q
    BY <1>1, DivHalf
  <2>2. 2 * decirate \in Nat /\ 2 * decirate > 0 /\ rec.rate < 2 * decirate
    BY <1>1 DEF Trap, Fits
  <2>3. q = 0
    <3>1. rec.rate \in 0 .. 2 * decirate - 1 /\ rec.rate = (2 * decirate) * 0 + rec.rate
      BY <1>1, <2>2
    <3>2. QED  BY <1>1, <2>2, <3>1, DivUnique
  <2>4. QED  BY <1>1, <2>1, <2>3 DEF Trap, TooFast
<1>3. phase = "halve" /\ phase' = "trapped"
  BY DEF Trap
<1>4. QED  BY <1>2, <1>3 DEF IInv, Trap

(* The file and the frame in it are those of the first sample.             *)
LEMMA PlanIInv == ASSUME IInv, Plan PROVE IInv'
<1>1. /\ StartN \in Int /\ EndN \in Int
      /\ FrameSamples \in Nat /\ FrameSamples > 0
      /\ FramesPerFile \in Nat /\ FramesPerFile > 0
  BY Fields DEF IInv
<1>2. file' * FramesPerFile + frame' = FirstFrame
  BY <1>1, DivTwice DEF Plan, FileSamples, FirstFrame
<1>3. file' \in Int /\ frame' \in Int /\ toCollect' \in Int /\ FirstFrame \in Int
  <2>1. FileSamples \in Nat /\ FileSamples > 0
    BY <1>1 DEF FileSamples
  <2>2. StartN \div FileSamples \in Int /\ StartN % FileSamples \in Int
    BY <2>1, <1>1, DivMod
  <2>3. /\ (StartN % FileSamples) \div FrameSamples \in Int
        /\ StartN \div FrameSamples \in Int
    BY <2>2, <1>1, DivMod
  <2>4. Quotient(EndN - StartN, FrameSamples) \in Int
    BY <1>1, QuotientBounds
  <2>5. QED  BY <2>2, <2>3, <2>4 DEF Plan, FirstFrame
<1>4. FirstFrame' = FirstFrame /\ Planned' = Planned /\ toCollect' = Planned
  BY DEF Plan, FirstFrame, Planned, StartN, EndN
<1>5. OnPlan'
  BY <1>2, <1>3, <1>4 DEF OnPlan
<1>6. ~TooFast' /\ phase = "halve" /\ phase' = "read"
  BY DEF Plan, TooFast
<1>7. QED  BY <1>3, <1>5, <1>6 DEF IInv, Plan, Inside

(* A frame read is one less to read; a new file begins where the last one  *)
(* ended.                                                                  *)
LEMMA ReadIInv == ASSUME IInv, ReadFrame \/ NextFile PROVE IInv'
<1>1. /\ FramesPerFile \in Nat
      /\ file \in Int /\ frame \in Int /\ toCollect \in Int
  BY Fields DEF IInv
<1>2. phase = "read" /\ phase' = "read" /\ toCollect > 0
  BY DEF ReadFrame, NextFile
<1>3. UNCHANGED <<rec, ask, decirate>>
  BY DEF ReadFrame, NextFile
<1>4. FirstFrame' = FirstFrame /\ Planned' = Planned
  BY <1>3 DEF FirstFrame, Planned, StartN, EndN
<1>5. FirstFrame \in Int /\ Planned \in Int
  <2>1. /\ StartN \in Int /\ EndN \in Int
        /\ FrameSamples \in Nat /\ FrameSamples > 0
    BY Fields DEF IInv
  <2>2. QED  BY <2>1, DivMod, QuotientBounds DEF FirstFrame, Planned
<1>6. OnPlan
  BY <1>2 DEF IInv
<1>7. CASE ReadFrame
  <2>1. file' = file /\ frame' = frame + 1 /\ toCollect' = toCollect - 1
    BY <1>7 DEF ReadFrame
  <2>2. OnPlan'
    BY <2>1, <1>1, <1>2, <1>4, <1>5, <1>6 DEF OnPlan
  <2>3. QED  BY <2>1, <2>2, <1>1, <1>2, <1>3 DEF IInv, Inside, TooFast
<1>8. CASE NextFile
  <2>1. file' = file + 1 /\ frame' = 0 /\ toCollect' = toCollect /\ frame = FramesPerFile
    BY <1>8 DEF NextFile
  <2>2. file' * FramesPerFile + frame' = file * FramesPerFile + frame
    BY <2>1, <1>1
  <2>3. OnPlan'
    BY <2>1, <2>2, <1>4, <1>6 DEF OnPlan
  <2>4. QED  BY <2>1, <2>3, <1>1, <1>2, <1>3 DEF IInv, Inside, TooFast
<1>9. QED  BY <1>7, <1>8

(* The steps that change nothing but the phase.                            *)
LEMMA PhaseIInv ==
  ASSUME IInv, Search \/ EndOfPlan \/ UNCHANGED vars PROVE IInv'
<1>1. UNCHANGED <<rec, ask, decirate, file, frame, toCollect>>
  BY DEF Search, EndOfPlan, vars
<1>2. /\ FirstFrame' = FirstFrame /\ Planned' = Planned
      /\ TooFast' = TooFast /\ Inside' = Inside /\ OnPlan' = OnPlan
  BY <1>1 DEF FirstFrame, Planned, StartN, EndN, TooFast, Inside, OnPlan
<1>3. CASE Search
  <2>1. phase' = "refused" \/ (phase' = "halve" /\ Inside)
    BY <1>3 DEF Search, Covers, Inside
  <2>2. QED  BY <2>1, <1>1, <1>2 DEF IInv
<1>4. CASE EndOfPlan
  <2>1. phase = "read" /\ phase' = "done" /\ toCollect <= 0
    BY <1>4 DEF EndOfPlan
  <2>2. QED  BY <2>1, <1>1, <1>2 DEF IInv
<1>5. CASE UNCHANGED vars
  BY <1>5, <1>1, <1>2 DEF IInv, vars
<1>6. QED  BY <1>3, <1>4, <1>5

LEMMA InductiveIInv == IInv /\ [Next]_vars => IInv'
BY HalveIInv, TrapIInv, PlanIInv, ReadIInv, PhaseIInv DEF Next, Finished
-----------------------------------------------------------------------------
LEMMA IInvReads == IInv => ReadsTheRequest
<1> SUFFICES ASSUME IInv, phase \in {"read", "done"} PROVE ReadsTheRequest
  BY DEF ReadsTheRequest
<1> DEFINE p == file * FramesPerFile + frame
<1>1. /\ rec.end \in Nat /\ rec.rate \in Nat /\ rec.rate > 0
      /\ ask.start \in Int /\ ask.end \in Int
      /\ StartN \in Int /\ EndN \in Int
      /\ FrameSamples \in Nat /\ FrameSamples > 0 /\ FramesPerFile \in Nat
      /\ file \in Int /\ frame \in Int /\ toCollect \in Int
  BY Fields DEF IInv
<1>2. OnPlan /\ Inside /\ (phase = "done" => toCollect <= 0)
  BY DEF IInv
<1>3. /\ p \in Int
      /\ p + toCollect = FirstFrame + Planned
      /\ p >= FirstFrame
      /\ toCollect >= 0 \/ toCollect = Planned
  BY <1>1, <1>2 DEF OnPlan
<1>4. Position = p * FrameSamples
  BY DEF Position
<1> HIDE DEF p
<1>5. /\ toCollect > 0 => /\ StartN - FrameSamples < p * FrameSamples
                          /\ p * FrameSamples + toCollect * FrameSamples <= EndN
      /\ toCollect <= 0 /\ StartN <= EndN => EndN - 2 * FrameSamples < p * FrameSamples
  BY <1>1, <1>3, PlanInSamples DEF FirstFrame, Planned
<1>6. EndN < rec.end * rec.rate
  <2>1. (rec.end - ask.end) * rec.rate > 0
    BY <1>1, <1>2 DEF Inside
  <2>2. (rec.end - ask.end) * rec.rate = rec.end * rec.rate - ask.end * rec.rate
    BY <1>1
  <2>3. QED  BY <2>1, <2>2, <1>1 DEF EndN
<1>7. ask.start <= ask.end => StartN <= EndN
  BY <1>1 DEF StartN, EndN
<1>8. QED  BY <1>2, <1>4, <1>5, <1>6, <1>7 DEF ReadsTheRequest

LEMMA IInvChannel == IInv => ChannelHoldsBand
<1>1. ASSUME IInv, phase \in {"read", "done"}
      PROVE  0 <= ask.band /\ rec.rate \div decirate <= 2 * ask.band + 1
  <2> DEFINE r == rec.rate \div decirate
  <2>1. rec.rate \in Nat /\ ask.band \in Int /\ decirate \in Nat /\ decirate > 0
    BY <1>1, Fields DEF IInv
  <2>2. r \in Nat
    BY <2>1, DivNat
  <2>3. r \div 2 \in Nat
    BY <2>2, DivNat
  <2>4. r \div 2 <= ask.band
    <3>1. ~TooFast
      BY <1>1 DEF IInv
    <3>2. QED  BY <3>1, <2>1, <2>3 DEF TooFast
  <2> HIDE DEF r
  <2>5. r % 2 \in 0..1 /\ r = 2 * (r \div 2) + (r % 2)
    BY <2>2, DivMod
  <2>6. 0 <= ask.band /\ r <= 2 * ask.band + 1
    BY <2>1, <2>2, <2>3, <2>4, <2>5
  <2>7. QED  BY <2>6 DEF r
<1>2. IInv => (decirate > 1 => rec.rate \div decirate > ask.band)
              /\ (phase = "trapped" => ask.band < 0) /\ ask.band \in Int
  BY Fields DEF IInv
<1>3. QED  BY <1>1, <1>2 DEF ChannelHoldsBand
-----------------------------------------------------------------------------
LEMMA SpecIInv == Spec => []IInv
BY InitIInv, InductiveIInv, PTL DEF Spec

(* initDDC() and the reader read nothing past what was asked for, less     *)
(* than a frame before it, and miss less than two frames of its end,       *)
(* whatever the sizes.                                                     *)
THEOREM SpecReadsTheRequest == Spec => []ReadsTheRequest
BY SpecIInv, IInvReads, PTL

(* createDDCIQComplex() leaves a channel that holds the band, unless the   *)
(* band is negative: then, and only then, it divides by zero.              *)
THEOREM SpecChannelHoldsBand == Spec => []ChannelHoldsBand
BY SpecIInv, IInvChannel, PTL
-----------------------------------------------------------------------------
(* A remainder in units of c is less than the units in the divisor.        *)
LEMMA DivBelow ==
  ASSUME NEW m \in Nat, NEW n \in Nat, NEW c \in Nat, c > 0, m < n * c
  PROVE  m \div c \in 0..n - 1
<1> DEFINE q == m \div c
<1>1. q \in Nat
  BY DivNat
<1>2. c * q <= m
  BY DivMod
<1> HIDE DEF q
<1>3. ASSUME q >= n PROVE FALSE
  <2>1. c * q >= c * n
    BY <1>1, <1>3
  <2>2. QED  BY <1>1, <1>2, <2>1
<1>4. q \in 0..n - 1
  BY <1>1, <1>3
<1>5. QED  BY <1>4 DEF q

(* What initDDC() hands to the reader thread is what DDCAssumption asks of *)
(* FirstOffset and Wanted: a frame within its file, in a file that is not  *)
(* before the first, and a number of frames, unless the request ends       *)
(* before it begins.                                                       *)
PlanFits ==
  Plan => /\ file' \in Nat /\ frame' \in 0..FramesPerFile - 1
          /\ ask.start <= ask.end => toCollect' \in Nat

LEMMA PlanFitsStep == ASSUME IInv, Plan PROVE PlanFits
<1>1. /\ ask.start \in Int /\ ask.end \in Int
      /\ StartN \in Int /\ EndN \in Int /\ rec.rate \in Nat
      /\ FrameSamples \in Nat /\ FrameSamples > 0
      /\ FramesPerFile \in Nat /\ FramesPerFile > 0
  BY Fields DEF IInv
<1>2. 0 <= ask.start
  BY DEF IInv, Plan, Inside
<1>3. StartN \in Nat
  BY <1>1, <1>2 DEF StartN
<1>4. FileSamples \in Nat /\ FileSamples > 0
  BY <1>1 DEF FileSamples
<1>5. file' \in Nat
  BY <1>3, <1>4, DivNat DEF Plan
<1>6. StartN % FileSamples \in 0..FileSamples - 1
  BY <1>1, <1>4, DivMod
<1>7. frame' \in 0..FramesPerFile - 1
  <2> DEFINE m == StartN % FileSamples
  <2>1. m \in Nat /\ m < FramesPerFile * FrameSamples
    BY <1>4, <1>6 DEF FileSamples
  <2>2. frame' = m \div FrameSamples
    BY DEF Plan
  <2> HIDE DEF m
  <2>3. QED  BY <1>1, <2>1, <2>2, DivBelow
<1>8. ASSUME ask.start <= ask.end PROVE toCollect' \in Nat
  <2>1. EndN - StartN \in Int /\ EndN - StartN >= 0
    <3>1. ask.end * rec.rate >= ask.start * rec.rate
      BY <1>1, <1>8
    <3>2. QED  BY <1>1, <3>1 DEF StartN, EndN
  <2>2. /\ Quotient(EndN - StartN, FrameSamples) \in Int
        /\ Quotient(EndN - StartN, FrameSamples) >= 0
    BY <1>1, <2>1, QuotientBounds
  <2>3. QED  BY <2>2 DEF Plan
<1>9. QED  BY <1>5, <1>7, <1>8 DEF PlanFits

(* For every size, recording and request the plan of initDDC() is one that *)
(* the theorems about DDCExecutor cover (DDCExecutor.cpp:234-241).         *)
THEOREM SpecPlanFits == Spec => [][PlanFits]_vars
<1>1. IInv => PlanFits
  BY PlanFitsStep DEF PlanFits
<1>2. QED  BY <1>1, SpecIInv, PTL
=============================================================================
