-------------------------- MODULE AudioPath_proofs --------------------------
(***************************************************************************)
(* For every decimation rate, block and filter length: the buffers of a    *)
(* single sideband demodulator stay the same distance apart.               *)
(*                                                                         *)
(* The invariant follows the two buffers through the first calls.  A block *)
(* longer than the delay: the first call leaves one block of in-phase and  *)
(* less of quadrature samples, and every later one takes a block of both.  *)
(* A shorter one: the first call drops all of the quadrature samples, and  *)
(* only the third finds more than a block of them.                         *)
(***************************************************************************)
EXTENDS AudioPath, TLAPS

Numbers ==
  /\ decirate \in Decirates /\ ssb \in BOOLEAN /\ delayed \in BOOLEAN
  /\ blocks \in Nat /\ fed \in Nat /\ inphase \in Nat /\ quad \in Nat /\ paired \in Nat

Apart ==
  ssb =>
    /\ paired = inphase
    /\ ~delayed => fed = 0 /\ inphase = 0 /\ quad = 0
    /\ delayed /\ Block > Delay => quad = inphase + Delay /\ fed = inphase + Block
    /\ delayed /\ Block <= Delay =>
         /\ quad = inphase + Block
         /\ fed = inphase + Block \/ fed = inphase + 2 * Block

IInv == Numbers /\ Apart
-----------------------------------------------------------------------------
(* The quotient of natural numbers is one.                                 *)
LEMMA DivNat == ASSUME NEW a \in Nat, NEW c \in Nat \ {0} PROVE a \div c \in Nat
<1>1. a \div c \in Int /\ a % c \in 0..c - 1 /\ a = c * (a \div c) + (a % c)
  BY SMT
<1>2. CASE a \div c <= -1
  <2>1. c * (a \div c) <= -c
    BY <1>1, <1>2
  <2>2. QED  BY <1>1, <1>2, <2>1
<1>3. QED  BY <1>1, <1>2

LEMMA BlockNat == ASSUME Numbers PROVE Block \in Nat
<1>1. FrameSamples \in Nat /\ decirate \in Nat \ {0}
  BY AudioAssumption DEF Numbers
<1>2. FrameSamples \div decirate \in Nat
  BY <1>1, DivNat
<1>3. PostM \in Nat \ {0}
  BY DEF PostM
<1>4. QED  BY <1>2, <1>3, DivNat DEF Block

LEMMA InitIInv == Init => IInv
<1> SUFFICES ASSUME Init PROVE IInv
  OBVIOUS
<1>1. Numbers
  BY DEF Init, Numbers
<1>2. Apart
  BY DEF Init, Apart
<1>3. QED  BY <1>1, <1>2 DEF IInv

(* A call of a single sideband demodulator.                                *)
LEMMA SidebandIInv == ASSUME IInv, Sideband PROVE IInv'
<1> DEFINE first == DropDelay(fed')
<1>1. /\ Block \in Nat /\ Delay \in Nat /\ Block' = Block
      /\ fed \in Nat /\ inphase \in Nat /\ quad \in Nat /\ paired \in Nat
      /\ blocks \in Nat /\ decirate \in Decirates /\ ssb /\ delayed \in BOOLEAN
  BY AudioAssumption, BlockNat DEF IInv, Numbers, Sideband, Block, PostM
<1>2. /\ fed' = fed + Block /\ blocks' = blocks + 1 /\ delayed' /\ ssb' /\ decirate' = decirate
      /\ delayed' \in BOOLEAN /\ ssb' \in BOOLEAN
  BY <1>1 DEF Sideband
<1>3. /\ fed' - first > Block =>
           /\ paired' = paired + Block
           /\ inphase' = Consume(inphase, Block, fed')
           /\ quad' = Consume(first, Block, fed')
      /\ ~ (fed' - first > Block) =>
           quad' = first /\ inphase' = inphase /\ paired' = paired
  BY DEF Sideband
<1>4. Apart
  BY DEF IInv
<1>5. CASE ~delayed
  <2>1. first = (IF Delay <= Block THEN Delay ELSE Block) /\ fed = 0 /\ inphase = 0 /\ paired = 0
    BY <1>1, <1>2, <1>4, <1>5 DEF Apart, DropDelay, Consume
  <2> HIDE DEF first
  <2>2. ~ (fed' - first > Block)
    BY <1>1, <1>2, <2>1
  <2>3. quad' = first /\ inphase' = 0 /\ paired' = 0 /\ fed' = Block
    BY <1>1, <1>2, <1>3, <2>1, <2>2
  <2>4. Numbers'
    BY <1>1, <1>2, <2>1, <2>3 DEF Numbers
  <2>5. Apart'
    BY <1>1, <1>2, <2>1, <2>3 DEF Apart
  <2>6. QED  BY <2>4, <2>5 DEF IInv
<1>6. CASE delayed /\ Block > Delay
  <2>1. first = quad /\ quad = inphase + Delay /\ fed = inphase + Block /\ paired = inphase
    BY <1>1, <1>4, <1>6 DEF Apart, DropDelay
  <2> HIDE DEF first
  <2>2. fed' - first > Block
    BY <1>1, <1>2, <1>6, <2>1
  <2>3. /\ Consume(inphase, Block, fed') = inphase + Block
        /\ Consume(first, Block, fed') = inphase + Delay + Block
    BY <1>1, <1>2, <1>6, <2>1 DEF Consume
  <2>4. /\ quad' = inphase + Delay + Block /\ inphase' = inphase + Block
        /\ paired' = inphase + Block /\ fed' = inphase + 2 * Block
    BY <1>1, <1>2, <1>3, <2>1, <2>2, <2>3
  <2>5. Numbers'
    BY <1>1, <1>2, <2>4 DEF Numbers
  <2>6. Apart'
    BY <1>1, <1>2, <1>6, <2>4 DEF Apart
  <2>7. QED  BY <2>5, <2>6 DEF IInv
<1>7. CASE delayed /\ Block <= Delay
  <2>1. /\ first = quad /\ quad = inphase + Block /\ paired = inphase
        /\ fed = inphase + Block \/ fed = inphase + 2 * Block
    BY <1>1, <1>4, <1>7 DEF Apart, DropDelay
  <2> HIDE DEF first
  <2>2. CASE fed' - first > Block
    <3>1. fed = inphase + 2 * Block
      BY <1>1, <1>2, <2>1, <2>2
    <3>2. /\ Consume(inphase, Block, fed') = inphase + Block
          /\ Consume(first, Block, fed') = inphase + 2 * Block
      BY <1>1, <1>2, <2>1, <3>1 DEF Consume
    <3>3. /\ quad' = inphase + 2 * Block /\ inphase' = inphase + Block
          /\ paired' = inphase + Block /\ fed' = inphase + 3 * Block
      BY <1>1, <1>2, <1>3, <2>1, <2>2, <3>1, <3>2
    <3>4. Numbers'
      BY <1>1, <1>2, <3>3 DEF Numbers
    <3>5. Apart'
      BY <1>1, <1>2, <1>7, <3>3 DEF Apart
    <3>6. QED  BY <3>4, <3>5 DEF IInv
  <2>3. CASE ~ (fed' - first > Block)
    <3>1. fed = inphase + Block
      BY <1>1, <1>2, <2>1, <2>3
    <3>2. /\ quad' = inphase + Block /\ inphase' = inphase
          /\ paired' = inphase /\ fed' = inphase + 2 * Block
      BY <1>1, <1>2, <1>3, <2>1, <2>3, <3>1
    <3>3. Numbers'
      BY <1>1, <1>2, <3>2 DEF Numbers
    <3>4. Apart'
      BY <1>1, <1>2, <1>7, <3>2 DEF Apart
    <3>5. QED  BY <3>3, <3>4 DEF IInv
  <2>4. QED  BY <2>2, <2>3
<1>8. QED  BY <1>1, <1>5, <1>6, <1>7

LEMMA InductiveIInv == IInv /\ [Next]_vars => IInv'
<1> SUFFICES ASSUME IInv, [Next]_vars PROVE IInv'
  OBVIOUS
<1>1. CASE Sideband
  BY <1>1, SidebandIInv
<1>2. CASE Silence
  <2>1. Numbers'
    BY <1>2 DEF IInv, Numbers, Silence
  <2>2. Apart'
    BY <1>2 DEF IInv, Apart, Silence, Block, PostM
  <2>3. QED  BY <2>1, <2>2 DEF IInv
<1>3. CASE Direct
  <2>1. Block \in Nat
    BY BlockNat DEF IInv
  <2>2. Numbers'
    BY <1>3, <2>1 DEF IInv, Numbers, Direct
  <2>3. Apart'
    BY <1>3 DEF Apart, Direct
  <2>4. QED  BY <2>2, <2>3 DEF IInv
<1>4. CASE UNCHANGED vars
  BY <1>4 DEF IInv, Numbers, Apart, Block, PostM, vars
<1>5. QED  BY <1>1, <1>2, <1>3, <1>4 DEF Next, Done

(* Whatever the rate and the filter, the samples paired by a single        *)
(* sideband demodulator are apart by the filter's delay, or by the block   *)
(* if that is shorter, none is left out, and little is held back.          *)
THEOREM SpecPairsAligned == Spec => []PairsAligned
<1>1. IInv => PairsAligned
  <2> SUFFICES ASSUME IInv, ssb, fed > 0 PROVE
        /\ paired = inphase
        /\ quad - inphase = IF Block > Delay THEN Delay ELSE Block
        /\ fed - inphase <= IF Block > Delay THEN Block ELSE 2 * Block
    BY DEF PairsAligned
  <2>1. /\ Block \in Nat /\ Delay \in Nat /\ fed \in Nat /\ inphase \in Nat /\ quad \in Nat
    BY AudioAssumption, BlockNat DEF IInv, Numbers
  <2>2. delayed /\ paired = inphase
    BY <2>1 DEF IInv, Apart
  <2>3. \/ Block > Delay /\ quad = inphase + Delay /\ fed = inphase + Block
        \/ /\ Block <= Delay /\ quad = inphase + Block
           /\ fed = inphase + Block \/ fed = inphase + 2 * Block
    BY <2>1, <2>2 DEF IInv, Apart
  <2>4. QED  BY <2>1, <2>2, <2>3
<1>2. QED  BY <1>1, InitIInv, InductiveIInv, PTL DEF Spec
=============================================================================
