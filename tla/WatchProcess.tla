---------------------------- MODULE WatchProcess ----------------------------
(***************************************************************************)
(* NpuWatchProcess: the signal detector of a watch job.  Each batch of     *)
(* samples that executeDDC() hands over is judged by its power and, while  *)
(* a signal lasts, recorded; a file is rolled over when it gets too long   *)
(* and ends when the signal has been gone for the hold time.  Each file    *)
(* that ends is entered in the database by two inserts.                    *)
(*                                                                         *)
(* A batch is the unit of time: batch n has time stamp n (DDCExecutor's    *)
(* ExactStream).  All times below are in batches, PerSecond of which make  *)
(* the second that names of files and rows of the database are rounded to. *)
(***************************************************************************)
EXTENDS Integers, Sequences

CONSTANTS
  Levels,        (* the power levels a batch may have                      *)
  Threshold,     (* _watch_req.threshold                                   *)
  HoldTime,      (* _watch_req.holdtime                                    *)
  ContinueTime,  (* _watch_req.continuetime                                *)
  PerSecond,     (* batches in a second                                    *)
  MaxBatches     (* bound: the batches of the request                      *)

(* Both times are whole seconds, at least one (NpuWatchCreateCommand.cpp   *)
(* sets them to 1 and 9999).                                               *)
ASSUME WatchAssumption ==
  /\ Levels \subseteq Int /\ Threshold \in Int
  /\ PerSecond \in Nat \ {0} /\ MaxBatches \in Nat
  /\ HoldTime \in Nat /\ HoldTime >= PerSecond
  /\ ContinueTime \in Nat /\ ContinueTime >= PerSecond

VARIABLES
  state,               (* _state                                           *)
  holdtime,            (* _holdtime                                        *)
  max_channel_power,   (* _max_channel_power                               *)
  starttime, endttime, (* of _watchFileSaveInfo                            *)
  outFile,             (* _outDDCFile: "closed", "good", or "bad"          *)
  content,             (* the batches written to it since it was opened    *)
  disk,                (* history: the files that were opened and closed   *)
  rows,                (* history: what saveDatabase() tried to insert     *)
  batches,             (* history: the levels of all batches received      *)
  faulty,              (* history: an open or a write has failed           *)
  ended                (* close() was called                               *)

file == <<starttime, endttime, outFile, content, disk, faulty>>
vars == <<state, holdtime, max_channel_power, file, rows, batches, ended>>

Greater(a, b) == IF a >= b THEN a ELSE b
Second(t) == t \div PerSecond

Init ==
  /\ state = "DEAD"
  /\ holdtime = 0
  /\ max_channel_power = Threshold - 1
  /\ starttime = 0 /\ endttime = 0
  /\ outFile = "closed"
  /\ content = <<>>
  /\ disk = <<>> /\ rows = <<>> /\ batches = <<>>
  /\ faulty = FALSE /\ ended = FALSE
-----------------------------------------------------------------------------
Now == Len(batches)

(* closeFile(): a file that could never be opened leaves nothing behind.   *)
Closed ==
  IF outFile = "closed" THEN disk
  ELSE Append(disk, [start |-> starttime, whole |-> outFile = "good",
                     content |-> content])

(* saveDatabase(): what it tries to enter.  That an insert fails changes   *)
(* nothing here: nobody looks at its result.                               *)
SaveDatabase(peak) ==
  rows' = Append(rows, [start |-> Second(starttime), end |-> Second(endttime),
                        peak |-> peak])

(* initFileSaveInfo() and initFile(), then the first write: either may     *)
(* fail, which nobody looks at.                                            *)
OpenAndWrite(level) ==
  /\ starttime' = Now /\ endttime' = Now
  /\ \/ outFile' = "good" /\ content' = <<level>> /\ UNCHANGED faulty
     \/ outFile' \in {"closed", "bad"} /\ content' = <<>> /\ faulty' = TRUE

(* writeToFile() and updateFileSaveInfo(): a write that fails, on a full   *)
(* disk, leaves the stream bad and later writes without effect.            *)
WriteOn(level) ==
  /\ endttime' = Now
  /\ UNCHANGED <<starttime, disk>>
  /\ \/ outFile = "good" /\ content' = Append(content, level)
        /\ UNCHANGED <<outFile, faulty>>
     \/ outFile = "good" /\ outFile' = "bad" /\ faulty' = TRUE
        /\ UNCHANGED content
     \/ outFile # "good" /\ UNCHANGED <<outFile, content, faulty>>

Receive(level) ==
  /\ ~ended /\ Now < MaxBatches
  /\ batches' = Append(batches, level)
  /\ UNCHANGED ended

(* No signal and none begins.                                              *)
StayDead(level) ==
  /\ Receive(level)
  /\ state = "DEAD" /\ level <= Threshold
  /\ UNCHANGED <<state, holdtime, max_channel_power, file, rows>>

(* A signal begins: a new file.                                            *)
BecomeAlive(level) ==
  /\ Receive(level)
  /\ state = "DEAD" /\ level > Threshold
  /\ state' = "ALIVE"
  /\ holdtime' = 0
  /\ max_channel_power' = level
  /\ OpenAndWrite(level)
  /\ UNCHANGED <<disk, rows>>

(* While the signal lasts: note that it has gone, keep its peak.           *)
Judge(level) ==
  IF level < Threshold
  THEN /\ state' = "HOLD" /\ holdtime' = holdtime + 1
       /\ UNCHANGED max_channel_power
  ELSE /\ max_channel_power' = Greater(max_channel_power, level)
       /\ UNCHANGED <<state, holdtime>>

(* Mutant: the age of a file counts from its last batch.                   *)
TooLongSinceUpdate == Now - endttime > ContinueTime

(* Mutant: seconds are compared with milliseconds.                         *)
TooLongUnscaled == Now - starttime > ContinueTime \div 1000

TooLong == Now - starttime > ContinueTime

Continue(level) ==
  /\ Receive(level)
  /\ state = "ALIVE" /\ ~TooLong
  /\ Judge(level)
  /\ WriteOn(level)
  /\ UNCHANGED rows

(* A file that got too long is closed and saved, the batch goes to a new   *)
(* one; the peak, which the batch has already raised, carries over.        *)
RollOver(level) ==
  /\ Receive(level)
  /\ state = "ALIVE" /\ TooLong
  /\ Judge(level)
  /\ disk' = Closed
  /\ SaveDatabase(max_channel_power')
  /\ OpenAndWrite(level)

(* Mutant: a batch with the signal back resumes without being written.     *)
ReturnUnwritten(level) ==
  /\ Receive(level)
  /\ state = "HOLD" /\ level > Threshold
  /\ state' = "ALIVE"
  /\ holdtime' = 0
  /\ max_channel_power' = Greater(max_channel_power, level)
  /\ UNCHANGED <<file, rows>>

(* Mutant: the peak of a signal that returns is not looked at.             *)
ReturnPeakless(level) ==
  /\ Receive(level)
  /\ state = "HOLD" /\ level > Threshold
  /\ state' = "ALIVE"
  /\ holdtime' = 0
  /\ WriteOn(level)
  /\ UNCHANGED <<rows, max_channel_power>>

(* Mutant: the hold time keeps running when the signal returns.            *)
ReturnNoReset(level) ==
  /\ Receive(level)
  /\ state = "HOLD" /\ level > Threshold
  /\ state' = "ALIVE"
  /\ max_channel_power' = Greater(max_channel_power, level)
  /\ WriteOn(level)
  /\ UNCHANGED <<rows, holdtime>>

(* In HOLD the signal returns, is still awaited, or is given up: then the  *)
(* batch is dropped and the file saved and closed.                         *)
Return(level) ==
  /\ Receive(level)
  /\ state = "HOLD" /\ level > Threshold
  /\ state' = "ALIVE"
  /\ holdtime' = 0
  /\ max_channel_power' = Greater(max_channel_power, level)
  /\ WriteOn(level)
  /\ UNCHANGED rows

HoldOn(level) ==
  /\ Receive(level)
  /\ state = "HOLD" /\ level <= Threshold
  /\ holdtime' = holdtime + 1
  /\ holdtime' < HoldTime
  /\ WriteOn(level)
  /\ UNCHANGED <<state, max_channel_power, rows>>

(* Mutant: a file given up is saved but not closed.                        *)
DieOpen(level) ==
  /\ Receive(level)
  /\ state = "HOLD" /\ level <= Threshold
  /\ holdtime' = holdtime + 1
  /\ holdtime' >= HoldTime
  /\ state' = "DEAD"
  /\ SaveDatabase(max_channel_power)
  /\ UNCHANGED <<file, max_channel_power>>

Die(level) ==
  /\ Receive(level)
  /\ state = "HOLD" /\ level <= Threshold
  /\ holdtime' = holdtime + 1
  /\ holdtime' >= HoldTime
  /\ state' = "DEAD"
  /\ SaveDatabase(max_channel_power)
  /\ disk' = Closed
  /\ outFile' = "closed"
  /\ content' = <<>>
  /\ UNCHANGED <<starttime, endttime, faulty, max_channel_power>>

(* close(), after the last batch: only a stream that is good and open is   *)
(* closed and saved.                                                       *)
Close ==
  /\ ~ended
  /\ ended' = TRUE
  /\ \/ /\ outFile = "good"
        /\ disk' = Closed
        /\ SaveDatabase(max_channel_power)
        /\ outFile' = "closed" /\ content' = <<>>
     \/ /\ outFile # "good"
        /\ UNCHANGED <<disk, rows, outFile, content>>
  /\ UNCHANGED <<state, holdtime, max_channel_power, starttime, endttime, faulty,
                 batches>>

OnIQDataReceived(level) ==
  \/ StayDead(level) \/ BecomeAlive(level)
  \/ Continue(level) \/ RollOver(level)
  \/ Return(level) \/ HoldOn(level) \/ Die(level)

(* The job is over.                                                        *)
Terminated == ended /\ UNCHANGED vars

Next == (\E level \in Levels : OnIQDataReceived(level)) \/ Close \/ Terminated

Spec == Init /\ [][Next]_vars
-----------------------------------------------------------------------------
(* The detector's fields keep their types and a hold never outlasts the    *)
(* hold time, or the batch it begins with and the one that ends it         *)
(* (NpuWatchProcess.h:62-88).                                              *)
TypeOK ==
  /\ state \in {"DEAD", "ALIVE", "HOLD"}
  /\ holdtime \in 0..Greater(HoldTime, 2)
  /\ state = "HOLD" => holdtime >= 1
  /\ max_channel_power \in Levels \cup {Threshold - 1}
  /\ batches \in Seq(Levels) /\ Now <= MaxBatches
  /\ starttime \in 0..MaxBatches /\ endttime \in starttime..MaxBatches
  /\ outFile \in {"closed", "good", "bad"}
  /\ faulty \in BOOLEAN /\ ended \in BOOLEAN

(* A file's batches: those received from its start on, without a gap.      *)
Recording(start, n) == SubSeq(batches, start + 1, start + n)

(* A batch that is in the file that is open or in one on disk.             *)
Covered(t) ==
  \/ outFile = "good" /\ starttime <= t
  \/ \E i \in 1..Len(disk) :
       disk[i].start <= t /\ t < disk[i].start + Len(disk[i].content)

(* What is written is the received stream, gapless from the batch that     *)
(* opened the file to its end, however DEAD, ALIVE, HOLD and roll-overs    *)
(* alternate; and as long as files can be opened and written, no batch     *)
(* louder than the threshold is left out (NpuWatchProcess.cpp:317-375).    *)
NoSignalLost ==
  /\ \A i \in 1..Len(disk) :
       disk[i].content = Recording(disk[i].start, Len(disk[i].content))
  /\ outFile = "good" => content = Recording(starttime, Now - starttime)
  /\ ~faulty => \A t \in 0..Now - 1 : batches[t + 1] > Threshold => Covered(t)

(* No two files of a watch overlap or get the same name, so none           *)
(* overwrites another: the hold and continue times outlast the second      *)
(* names are rounded to (NpuWatchProcess.cpp:298-303).                     *)
NamesDistinct ==
  \A i, j \in 1..Len(disk) :
    i < j => /\ Second(disk[i].start) < Second(disk[j].start)
             /\ disk[i].start + Len(disk[i].content) <= disk[j].start

(* Every file that was opened, and could be written, is saved when it      *)
(* ends, once, with its own second and its last batch's: roll-over, the    *)
(* end of a signal and the end of the job do not save twice                *)
(* (NpuWatchProcess.cpp:338-343, 364-369, 403-408).  A row is what         *)
(* saveDatabase() tried to insert: the database may still refuse it, which *)
(* nobody looks at.                                                        *)
RowOf(f, row) ==
  /\ row.start = Second(f.start)
  /\ row.end = Second(f.start + Len(f.content) - 1)

SavedOnce ==
  \A i \in 1..Len(disk) :
    disk[i].whole =>
      \E k \in 1..Len(rows) :
        /\ RowOf(disk[i], rows[k])
        /\ \A m \in 1..Len(rows) : rows[m].start = rows[k].start => m = k

(* A row's power level is at least that of every batch of its file, and    *)
(* some batch received up to then has it (NpuWatchProcess.cpp:174).        *)
PeakCovers ==
  \A i \in 1..Len(disk), k \in 1..Len(rows) :
    rows[k].start = Second(disk[i].start) =>
      /\ \A b \in 1..Len(disk[i].content) : disk[i].content[b] <= rows[k].peak
      /\ \E b \in 1..Now : batches[b] = rows[k].peak

(* A file never gets much longer than the continue time: only a hold, in   *)
(* which the age is not looked at, can delay the roll-over, by less than   *)
(* the hold time and the batch that ends it (NpuWatchProcess.cpp:338-376). *)
DurationBounded ==
  /\ \A i \in 1..Len(disk) :
       Len(disk[i].content) <= ContinueTime + Greater(HoldTime, 2)
  /\ Len(content) <= ContinueTime + Greater(HoldTime, 2)
=============================================================================
