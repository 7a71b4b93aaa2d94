----------------------------- MODULE FramePlan -----------------------------
(***************************************************************************)
(* The arithmetic of a request: DataStorageSearcher::search() finds a      *)
(* recording that covers it, createDDCIQComplex() halves the sample rate   *)
(* down to the band, initDDC() works out which frames to read, and the     *)
(* reader goes through them, file by file.                                 *)
(*                                                                         *)
(* Times are seconds, a recording starts at 0 with its first file; sample  *)
(* n is in frame n \div FrameSamples of the recording, and every frame is  *)
(* there and holds IQ data (what DDCExecutor does otherwise is there).     *)
(* DDCExecutor's constants FirstOffset and Wanted are what Plan computes.  *)
(*                                                                         *)
(* Nobody checks the bandwidth of a request: it may be negative.           *)
(***************************************************************************)
EXTENDS Integers

CONSTANTS
  FrameSamples,    (* frame_samples, 131072                                *)
  FramesPerFile,   (* frame_count_in_file, 256                             *)
  IntLimit,        (* the least integer an int cannot hold, 2^31           *)
  Recordings,      (* [end, rate, freq] of the recordings                  *)
  Asked            (* [start, end, freq, band] of the requests             *)

ASSUME PlanAssumption ==
  /\ FrameSamples \in Nat \ {0} /\ FramesPerFile \in Nat \ {0}
  /\ IntLimit \in Nat
  /\ Recordings \subseteq [end : Nat, rate : 1 .. IntLimit - 1, freq : Int]
  /\ Asked \subseteq [start : Int, end : Int, freq : Int, band : Int]

FileSamples == FramesPerFile * FrameSamples

VARIABLES
  rec, ask,        (* the recording and the request                        *)
  phase,           (* "search", "halve", "read", "done", "refused", and    *)
                   (* "trapped" for a division by zero                     *)
  decirate,        (* _decirate                                            *)
  file, frame,     (* _file_index, and the next frame of the file          *)
  toCollect        (* _frames_to_collect                                   *)

vars == <<rec, ask, phase, decirate, file, frame, toCollect>>

StartN == ask.start * rec.rate
EndN   == ask.end * rec.rate

(* Where the reader stands, in samples of the recording.                   *)
Position == (file * FramesPerFile + frame) * FrameSamples

Init ==
  /\ rec \in Recordings /\ ask \in Asked
  /\ phase = "search"
  /\ decirate = 1 /\ file = 0 /\ frame = 0 /\ toCollect = 0
-----------------------------------------------------------------------------
(* Mutant: a request need only begin within the recording.                 *)
CoversStart ==
  /\ 0 <= ask.start /\ ask.start < rec.end
  /\ rec.freq - (rec.rate \div 2) <= ask.freq /\ ask.freq < rec.freq + (rec.rate \div 2)

(* The band of the request is not looked at, only its middle.              *)
Covers ==
  /\ 0 <= ask.start /\ ask.end < rec.end
  /\ rec.freq - (rec.rate \div 2) <= ask.freq /\ ask.freq < rec.freq + (rec.rate \div 2)

Search ==
  /\ phase = "search"
  /\ phase' = IF Covers THEN "halve" ELSE "refused"
  /\ UNCHANGED <<rec, ask, decirate, file, frame, toCollect>>

(* Mutant: the rate itself is compared with the band, a stage too many.    *)
TooFastUnhalved == (rec.rate \div decirate) > ask.band

(* Half the rate is still more than the band: one more stage.              *)
TooFast == ((rec.rate \div decirate) \div 2) > ask.band

Fits == 2 * decirate < IntLimit

Halve ==
  /\ phase = "halve" /\ TooFast /\ Fits
  /\ decirate' = 2 * decirate
  /\ UNCHANGED <<rec, ask, phase, file, frame, toCollect>>

(* The int that no longer fits wraps to the least one and then to zero.    *)
(* Divided by the first the rate is zero, still more than a negative band; *)
(* then the loop divides by zero.                                          *)
Trap ==
  /\ phase = "halve" /\ TooFast /\ ~Fits
  /\ phase' = "trapped"
  /\ UNCHANGED <<rec, ask, decirate, file, frame, toCollect>>

(* The quotient of integers in C++ is rounded towards zero, and ceil() has *)
(* nothing left to round up.                                               *)
Quotient(a, b) == IF a >= 0 THEN a \div b ELSE -((-a) \div b)

Plan ==
  /\ phase = "halve" /\ ~TooFast
  /\ file' = StartN \div FileSamples
  /\ frame' = (StartN % FileSamples) \div FrameSamples
  /\ toCollect' = Quotient(EndN - StartN, FrameSamples)
  /\ phase' = "read"
  /\ UNCHANGED <<rec, ask, decirate>>
-----------------------------------------------------------------------------
ReadFrame ==
  /\ phase = "read" /\ toCollect > 0 /\ frame < FramesPerFile
  /\ frame' = frame + 1
  /\ toCollect' = toCollect - 1
  /\ UNCHANGED <<rec, ask, phase, decirate, file>>

NextFile ==
  /\ phase = "read" /\ toCollect > 0 /\ frame = FramesPerFile
  /\ file' = file + 1 /\ frame' = 0
  /\ UNCHANGED <<rec, ask, phase, decirate, toCollect>>

EndOfPlan ==
  /\ phase = "read" /\ toCollect <= 0
  /\ phase' = "done"
  /\ UNCHANGED <<rec, ask, decirate, file, frame, toCollect>>

Finished == phase \in {"done", "refused", "trapped"} /\ UNCHANGED vars

Next == Search \/ Halve \/ Trap \/ Plan \/ ReadFrame \/ NextFile \/ EndOfPlan \/ Finished

Spec == Init /\ [][Next]_vars
-----------------------------------------------------------------------------
(* What is still to be read lies within the recording and the request, but *)
(* for the part of its first frame before the start, and when all is read  *)
(* less than two frames at the end of the request are missing: rounding    *)
(* the start down to a frame and the number of frames down to an integer   *)
(* never reads past the end, nor skips the beginning                       *)
(* (DDCExecutor.cpp:234-241 and 509-519).                                  *)
ReadsTheRequest ==
  phase \in {"read", "done"} =>
    /\ toCollect > 0 => /\ StartN - FrameSamples < Position
                        /\ Position + toCollect * FrameSamples <= EndN
                        /\ EndN < rec.end * rec.rate
    /\ phase = "done" /\ ask.start <= ask.end => EndN - 2 * FrameSamples < Position

(* Decimation leaves a channel that is wider than the band that was asked  *)
(* for, unless the recording itself is not, and less than twice as wide    *)
(* and a little; it ends the process for a negative band, always and for   *)
(* no other (DDCExecutor.cpp:153-165).                                     *)
ChannelHoldsBand ==
  /\ phase \in {"read", "done"} =>
       /\ ask.band >= 0
       /\ decirate > 1 => rec.rate \div decirate > ask.band
       /\ rec.rate \div decirate <= 2 * ask.band + 1
  /\ phase = "trapped" => ask.band < 0
=============================================================================
