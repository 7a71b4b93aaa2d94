----------------------------- MODULE AudioPath -----------------------------
(***************************************************************************)
(* DemodConduit: each block of DDC output is averaged down, silenced by    *)
(* the squelch or demodulated, and queued for the RTSP client.  The single *)
(* sideband demodulators keep two buffers between calls: the in-phase      *)
(* samples as they came, and the quadrature samples through a filter that  *)
(* delays them, of which they drop the delay once, in the first call.      *)
(*                                                                         *)
(* Samples are numbered as they are fed to the demodulator; the samples of *)
(* a buffer are those from a number on up to the last one fed.             *)
(***************************************************************************)
EXTENDS Integers

CONSTANTS
  FrameSamples,    (* samples of the DDC's input, 131072                   *)
  Delay,           (* half the length of the filter, 61 \div 2             *)
  Decirates,       (* the decimation rates looked at                       *)
  MaxBlocks        (* how many blocks are received, a bound                *)

ASSUME AudioAssumption ==
  /\ FrameSamples \in Nat /\ Delay \in Nat /\ MaxBlocks \in Nat
  /\ Decirates \subseteq Nat \ {0}

VARIABLES
  decirate, ssb,   (* the decimation rate; a USB or LSB demodulator        *)
  blocks,          (* history: how many blocks were received               *)
  fed,             (* samples the demodulator was given                    *)
  delayed,         (* _delayed                                             *)
  inphase, quad,   (* the first sample of either buffer                    *)
  paired           (* history: samples demodulated and queued              *)

vars == <<decirate, ssb, blocks, fed, delayed, inphase, quad, paired>>

(* What is left to average, for rates the table of work() has.             *)
PostM == IF decirate \in {1, 2, 4, 8, 16, 32, 64} THEN 128 \div decirate ELSE 1

Block == (FrameSamples \div decirate) \div PostM

Init ==
  /\ decirate \in Decirates /\ ssb \in BOOLEAN
  /\ blocks = 0 /\ fed = 0
  /\ delayed = FALSE
  /\ inphase = 0 /\ quad = 0 /\ paired = 0
-----------------------------------------------------------------------------
(* streambuf::consume() drops what there is.                               *)
Consume(first, n, last) == IF first + n <= last THEN first + n ELSE last

(* Mutant: the delay is dropped in every call.                             *)
DropDelayAlways(last) == Consume(quad, Delay, last)

(* The quadrature buffer begins with a sample of the filter's transient,   *)
(* as long as the delay, which is dropped once.                            *)
DropDelay(last) == IF delayed THEN quad ELSE Consume(quad, Delay, last)

(* The level is below the threshold: silence of a block's length.  The     *)
(* demodulator is not told.                                                *)
Silence ==
  /\ blocks < MaxBlocks
  /\ blocks' = blocks + 1
  /\ UNCHANGED <<decirate, ssb, fed, delayed, inphase, quad, paired>>

(* FM and AM demodulate the block as it is.                                *)
Direct ==
  /\ blocks < MaxBlocks /\ ~ssb
  /\ blocks' = blocks + 1
  /\ fed' = fed + Block /\ paired' = paired + Block
  /\ inphase' = fed' /\ quad' = fed'
  /\ UNCHANGED <<decirate, ssb, delayed>>

(* A block is demodulated when the quadrature buffer has more than one;    *)
(* otherwise nothing is queued.                                            *)
Sideband ==
  /\ blocks < MaxBlocks /\ ssb
  /\ blocks' = blocks + 1
  /\ fed' = fed + Block
  /\ delayed' = TRUE
  /\ LET first == DropDelay(fed')
     IN  IF fed' - first > Block
         THEN /\ paired' = paired + Block
              /\ inphase' = Consume(inphase, Block, fed')
              /\ quad' = Consume(first, Block, fed')
         ELSE quad' = first /\ UNCHANGED <<inphase, paired>>
  /\ UNCHANGED <<decirate, ssb>>

Done == blocks = MaxBlocks /\ UNCHANGED vars

Next == Silence \/ Direct \/ Sideband \/ Done

Spec == Init /\ [][Next]_vars
-----------------------------------------------------------------------------
(* A single sideband is demodulated from pairs of the same instant, each   *)
(* once and without a gap, at most one block behind, wherever the squelch  *)
(* was closed - for blocks longer than the delay.  Shorter ones (from rate *)
(* 8192 on) have less to drop in the first call than the delay, and are    *)
(* paired that much apart ever after (NpuPlayAudioJob.cpp:302-329).        *)
PairsAligned ==
  ssb /\ fed > 0 =>
    /\ paired = inphase
    /\ quad - inphase = IF Block > Delay THEN Delay ELSE Block
    /\ fed - inphase <= IF Block > Delay THEN Block ELSE 2 * Block
=============================================================================
