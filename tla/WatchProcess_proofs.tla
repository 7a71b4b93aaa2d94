------------------------ MODULE WatchProcess_proofs ------------------------
(***************************************************************************)
(* For every threshold, hold time, continue time and sequence of levels:   *)
(* the detector's types, how long a file gets, that no two files overlap   *)
(* or have one name, that files hold the received stream and leave out no  *)
(* signal, and that each is entered once, with a peak that covers it.      *)
(*                                                                         *)
(* The argument is about time.  While a file is open its last batch is the *)
(* latest one (Clock), so its age says how far HOLD has delayed the        *)
(* roll-over (Ages) and that a file which is closed has lasted a second at *)
(* least: hold and continue time are not shorter.  The next file starts a  *)
(* second or more after it (Spacing), so rows are told apart by the second *)
(* they start with (Entered), and a row and a file with the same second    *)
(* belong together (Loudest).  Faithful and Loud follow the batches.       *)
(***************************************************************************)
EXTENDS WatchProcess, SequenceTheorems, TLAPS

File == [start : Nat, whole : BOOLEAN, content : Seq(Levels)]

(* The longest hold, and the most batches a file may have.                 *)
Hold == Greater(HoldTime, 2)
Longest == ContinueTime + Hold

Fields ==
  /\ TypeOK
  /\ content \in Seq(Levels)
  /\ disk \in Seq(File)

(* The open file, if any, has been kept up to date.                        *)
Clock ==
  /\ state = "DEAD" => outFile = "closed" /\ endttime <= Now
  /\ state # "DEAD" => endttime = Now - 1
  /\ state = "ALIVE" => holdtime = 0
  /\ outFile = "closed" => content = <<>>
  /\ Len(content) <= endttime - starttime + 1

(* How old a file may be in each state.                                    *)
Ages ==
  /\ state = "ALIVE" => endttime - starttime <= ContinueTime + Hold - 1
  /\ state = "HOLD" => /\ endttime - starttime <= ContinueTime + holdtime - 1
                       /\ starttime + holdtime <= endttime + 1
                       /\ holdtime = 1 \/ holdtime < HoldTime
  /\ \A i \in 1..Len(disk) : Len(disk[i].content) <= Longest

(* A file f is over by the time t, a second or more after its start.       *)
Over(f, t) == f.start + PerSecond <= t /\ f.start + Len(f.content) <= t

(* Where the next file may start, at the earliest.                         *)
NextStart == IF state = "DEAD" THEN Now ELSE starttime

Spacing ==
  /\ \A i, j \in 1..Len(disk) : i < j => Over(disk[i], disk[j].start)
  /\ ~ended => \A i \in 1..Len(disk) : Over(disk[i], NextStart)

IInv == Fields /\ Clock /\ Ages /\ Spacing
-----------------------------------------------------------------------------
(* Division with remainder.                                                *)
LEMMA DivMod ==
  ASSUME NEW a \in Int, NEW c \in Nat, c > 0
  PROVE  /\ a \div c \in Int
         /\ a % c \in 0..c - 1
         /\ a = c * (a \div c) + (a % c)
BY SMT

(* Numbers at least a divisor apart have different quotients.              *)
LEMMA QuotientsApart ==
  ASSUME NEW a \in Nat, NEW b \in Nat, NEW c \in Nat, c > 0, a + c <= b
  PROVE  a \div c < b \div c
<1>1. /\ a \div c \in Int /\ b \div c \in Int
      /\ a % c \in 0..c - 1 /\ b % c \in 0..c - 1
      /\ a = c * (a \div c) + (a % c)
      /\ b = c * (b \div c) + (b % c)
  BY DivMod
<1> DEFINE d == (b \div c) - (a \div c)
<1>2. c * d = b - a - (b % c) + (a % c) /\ d \in Int
  BY <1>1
<1>3. c * d > 0
  BY <1>1, <1>2
<1>4. d > 0
  <2>1. CASE d <= 0
    <3>1. c * d <= 0
      BY <2>1, <1>2
    <3>2. QED  BY <3>1, <1>3
  <2>2. QED  BY <2>1, <1>2
<1>5. QED  BY <1>4, <1>1

(* The assumption on the constants, in pieces.                             *)
LEMMA Constants ==
  /\ Levels \subseteq Int /\ Threshold \in Int
  /\ PerSecond \in Nat /\ PerSecond >= 1 /\ MaxBatches \in Nat
  /\ HoldTime \in Nat /\ HoldTime >= PerSecond
  /\ ContinueTime \in Nat /\ ContinueTime >= PerSecond
  /\ Hold \in Nat /\ Hold >= HoldTime /\ Hold >= 2
  /\ Longest = ContinueTime + Hold /\ Longest \in Nat
BY WatchAssumption DEF Hold, Longest, Greater

(* The types in pieces.                                                    *)
LEMMA Types ==
  ASSUME Fields
  PROVE  /\ state \in {"DEAD", "ALIVE", "HOLD"} /\ holdtime \in 0..Hold
         /\ state = "HOLD" => holdtime >= 1
         /\ max_channel_power \in Levels \cup {Threshold - 1}
         /\ starttime \in Nat /\ starttime <= MaxBatches
         /\ endttime \in Nat /\ endttime <= MaxBatches /\ starttime <= endttime
         /\ outFile \in {"closed", "good", "bad"}
         /\ faulty \in BOOLEAN /\ ended \in BOOLEAN
         /\ content \in Seq(Levels) /\ Len(content) \in Nat
         /\ batches \in Seq(Levels) /\ Now \in Nat /\ Now <= MaxBatches
         /\ disk \in Seq(File) /\ Len(disk) \in Nat
         /\ NextStart \in Nat
BY Constants DEF Fields, TypeOK, Hold, Now, NextStart

(* A file on disk has a start and batches.                                 *)
LEMMA DiskFiles ==
  ASSUME Fields, NEW i \in 1..Len(disk)
  PROVE  disk[i].start \in Nat /\ Len(disk[i].content) \in Nat
<1>1. disk[i] \in File
  BY Types
<1>2. QED  BY <1>1 DEF File

(* What closeFile() leaves on disk: the files that were there and, if one  *)
(* was open, that one.                                                     *)
LEMMA ClosedFiles ==
  ASSUME Fields
  PROVE  /\ Closed \in Seq(File)
         /\ \A i \in 1..Len(Closed) :
              \/ i \in 1..Len(disk) /\ Closed[i] = disk[i]
              \/ /\ i = Len(disk) + 1 /\ outFile # "closed"
                 /\ Closed[i].start = starttime /\ Closed[i].content = content
<1>1. CASE outFile = "closed"
  BY <1>1 DEF Fields, Closed
<1>2. CASE outFile # "closed"
  <2> DEFINE f == [start |-> starttime, whole |-> outFile = "good", content |-> content]
  <2>1. f \in File
    BY Constants DEF Fields, TypeOK, File
  <2>2. disk \in Seq(File) /\ Closed = Append(disk, f)
    BY <1>2 DEF Fields, Closed
  <2>3. f.start = starttime /\ f.content = content
    OBVIOUS
  <2> HIDE DEF f
  <2>4. QED  BY <2>1, <2>2, <2>3, <1>2
<1>3. QED  BY <1>1, <1>2

(* One more batch.                                                         *)
LEMMA OneMore ==
  ASSUME Fields, NEW level \in Levels, Receive(level)
  PROVE  /\ batches' \in Seq(Levels) /\ Now \in Nat /\ Now' = Now + 1
         /\ Now < MaxBatches /\ Now' <= MaxBatches
         /\ ~ended /\ ended' = ended
BY Constants DEF Fields, TypeOK, Receive, Now

(* A closed file that lasted a second and ended before t leaves all files  *)
(* over by t, and in order.                                                *)
LEMMA ClosedSpacing ==
  ASSUME Fields, Clock, Spacing, ~ended, state # "DEAD",
         NEW t \in Nat, outFile # "closed" => starttime + PerSecond <= t,
         starttime <= t, starttime + Len(content) <= t
  PROVE  /\ \A i, j \in 1..Len(Closed) : i < j => Over(Closed[i], Closed[j].start)
         /\ \A i \in 1..Len(Closed) : Over(Closed[i], t)
<1>1. /\ \A i \in 1..Len(disk) : /\ disk[i].start \in Nat
                                 /\ Len(disk[i].content) \in Nat
                                 /\ Over(disk[i], starttime)
      /\ \A i, j \in 1..Len(disk) : i < j => Over(disk[i], disk[j].start)
      /\ starttime \in Nat /\ Len(content) \in Nat /\ Len(disk) \in Nat
      /\ PerSecond \in Nat
  BY Constants, Types, DiskFiles DEF Spacing, NextStart
<1>2. \A i \in 1..Len(Closed) :
        \/ i \in 1..Len(disk) /\ Closed[i] = disk[i]
        \/ /\ i = Len(disk) + 1 /\ outFile # "closed"
           /\ Closed[i].start = starttime /\ Closed[i].content = content
  BY ClosedFiles
<1>3. ASSUME NEW i \in 1..Len(Closed) PROVE Over(Closed[i], t)
  <2>1. CASE i \in 1..Len(disk) /\ Closed[i] = disk[i]
    BY <2>1, <1>1 DEF Over
  <2>2. CASE /\ outFile # "closed"
             /\ Closed[i].start = starttime /\ Closed[i].content = content
    BY <2>2 DEF Over
  <2>3. QED  BY <2>1, <2>2, <1>2
<1>4. ASSUME NEW i \in 1..Len(Closed), NEW j \in 1..Len(Closed), i < j
      PROVE  Over(Closed[i], Closed[j].start)
  <2>1. i \in 1..Len(disk) /\ Closed[i] = disk[i]
    BY <1>1, <1>2, <1>4
  <2>2. CASE j \in 1..Len(disk) /\ Closed[j] = disk[j]
    BY <2>1, <2>2, <1>1, <1>4
  <2>3. CASE Closed[j].start = starttime
    BY <2>1, <2>3, <1>1
  <2>4. QED  BY <2>2, <2>3, <1>2
<1>5. QED  BY <1>3, <1>4

(* No file on disk is too long if the one that is closed is not.           *)
LEMMA ClosedAges ==
  ASSUME Fields, Ages, Len(content) <= Longest
  PROVE  \A i \in 1..Len(Closed) : Len(Closed[i].content) <= Longest
BY ClosedFiles DEF Ages
-----------------------------------------------------------------------------
(* Files that stay as they are stay apart if no earlier start can follow.  *)
LEMMA SameDisk ==
  ASSUME Fields, Spacing, disk' = disk, ended' = ended,
         NextStart' \in Nat, NextStart <= NextStart'
  PROVE  Spacing'
<1>1. /\ \A i \in 1..Len(disk) : disk[i].start \in Nat /\ Len(disk[i].content) \in Nat
      /\ NextStart \in Nat /\ PerSecond \in Nat
  BY Constants, Types, DiskFiles
<1>2. ~ended => \A i \in 1..Len(disk) : Over(disk[i], NextStart')
  BY <1>1 DEF Spacing, Over
<1>3. QED  BY <1>2 DEF Spacing, Over

(* Nothing is open at the start.                                           *)
LEMMA InitIInv == Init => IInv
<1> SUFFICES ASSUME Init PROVE IInv
  OBVIOUS
<1>1. /\ Len(batches) = 0 /\ Len(disk) = 0 /\ Len(content) = 0
      /\ batches \in Seq(Levels) /\ disk \in Seq(File) /\ content \in Seq(Levels)
  BY DEF Init
<1>2. Fields
  <2>1. /\ state = "DEAD" /\ holdtime = 0 /\ max_channel_power = Threshold - 1
        /\ starttime = 0 /\ endttime = 0 /\ outFile = "closed"
        /\ faulty \in BOOLEAN /\ ended \in BOOLEAN /\ Now = 0
    BY <1>1 DEF Init, Now
  <2>2. holdtime \in 0..Greater(HoldTime, 2) /\ 0 <= MaxBatches
    BY <2>1, Constants DEF Hold
  <2>3. TypeOK
    BY <2>1, <2>2, <1>1 DEF TypeOK
  <2>4. QED  BY <2>3, <1>1 DEF Fields
<1>3. Clock /\ Ages /\ Spacing
  BY <1>1 DEF Init, Clock, Ages, Spacing, Now
<1>4. QED  BY <1>2, <1>3 DEF IInv
-----------------------------------------------------------------------------
(* What the write of a batch does to the open file.                        *)
LEMMA WriteOnFile ==
  ASSUME Fields, Clock, NEW level \in Levels, WriteOn(level)
  PROVE  /\ endttime' = Now /\ starttime' = starttime /\ disk' = disk
         /\ outFile' \in {"closed", "good", "bad"} /\ faulty' \in BOOLEAN
         /\ content' \in Seq(Levels) /\ Len(content') \in Nat
         /\ Len(content') <= Len(content) + 1
         /\ outFile' = "closed" => content' = <<>>
<1>1. CASE outFile = "good" /\ content' = Append(content, level)
           /\ UNCHANGED <<outFile, faulty>>
  BY <1>1, Types DEF WriteOn
<1>2. CASE outFile = "good" /\ outFile' = "bad" /\ faulty' = TRUE /\ UNCHANGED content
  BY <1>2, Types DEF WriteOn
<1>3. CASE outFile # "good" /\ UNCHANGED <<outFile, content, faulty>>
  BY <1>3, Types DEF WriteOn, Clock
<1>4. QED  BY <1>1, <1>2, <1>3 DEF WriteOn

(* What a new file starts with.                                            *)
LEMMA OpenAndWriteFile ==
  ASSUME Fields, NEW level \in Levels, OpenAndWrite(level)
  PROVE  /\ starttime' = Now /\ endttime' = Now
         /\ outFile' \in {"closed", "good", "bad"} /\ faulty' \in BOOLEAN
         /\ content' \in Seq(Levels) /\ Len(content') \in Nat /\ Len(content') <= 1
         /\ outFile' = "closed" => content' = <<>>
<1>1. CASE outFile' = "good" /\ content' = <<level>> /\ UNCHANGED faulty
  <2>1. content' \in Seq(Levels) /\ Len(content') = 1
    BY <1>1
  <2>2. QED  BY <1>1, <2>1, Types DEF OpenAndWrite
<1>2. CASE outFile' \in {"closed", "bad"} /\ content' = <<>> /\ faulty' = TRUE
  <2>1. content' \in Seq(Levels) /\ Len(content') = 0
    BY <1>2
  <2>2. QED  BY <1>2, <2>1, Types DEF OpenAndWrite
<1>3. QED  BY <1>1, <1>2 DEF OpenAndWrite

(* The verdict on a batch while the signal lasts.                          *)
LEMMA Judgement ==
  ASSUME Fields, Clock, NEW level \in Levels, state = "ALIVE", Judge(level)
  PROVE  /\ max_channel_power' \in Levels \cup {Threshold - 1}
         /\ \/ state' = "HOLD" /\ holdtime' = 1
            \/ state' = "ALIVE" /\ holdtime' = 0
BY Types DEF Judge, Clock, Greater

(* A batch that is received while a file is open, and what it leaves: the  *)
(* invariant's parts follow from the age the file then has.                *)
LEMMA KeptFile ==
  ASSUME IInv, NEW level \in Levels, Receive(level), WriteOn(level),
         state # "DEAD", state' \in {"ALIVE", "HOLD"},
         max_channel_power' \in Levels \cup {Threshold - 1},
         holdtime' \in 0..Hold, state' = "HOLD" => holdtime' >= 1,
         state' = "ALIVE" => holdtime' = 0,
         state' = "ALIVE" => Now - starttime <= ContinueTime + Hold - 1,
         state' = "HOLD" => /\ Now - starttime <= ContinueTime + holdtime' - 1
                            /\ starttime + holdtime' <= Now + 1
                            /\ holdtime' = 1 \/ holdtime' < HoldTime
  PROVE  IInv'
<1>c. Fields /\ Clock /\ Ages /\ Spacing
  BY DEF IInv
<1>1. /\ batches' \in Seq(Levels) /\ Now \in Nat /\ Now' = Now + 1
      /\ Now < MaxBatches /\ Now' <= MaxBatches /\ ended' = ended
  BY <1>c, OneMore
<1>2. /\ endttime' = Now /\ starttime' = starttime /\ disk' = disk
      /\ outFile' \in {"closed", "good", "bad"} /\ faulty' \in BOOLEAN
      /\ content' \in Seq(Levels) /\ Len(content') \in Nat
      /\ Len(content') <= Len(content) + 1
      /\ outFile' = "closed" => content' = <<>>
  BY <1>c, WriteOnFile
<1>3. endttime = Now - 1 /\ starttime <= endttime /\ starttime \in Nat
      /\ Len(content) \in Nat /\ Len(content) <= endttime - starttime + 1
  BY <1>c, Types DEF Clock
<1>4. Fields'
  <2>1. holdtime' \in 0..Greater(HoldTime, 2) /\ ended' \in BOOLEAN
    <3>1. ended' \in BOOLEAN
      BY <1>1, <1>c DEF Fields, TypeOK
    <3>2. QED  BY <3>1 DEF Hold
  <2>2. starttime' \in 0..MaxBatches /\ endttime' \in starttime'..MaxBatches
    BY <1>1, <1>2, <1>3, Constants
  <2>3. TypeOK'
    BY <1>1, <1>2, <2>1, <2>2 DEF TypeOK
  <2>4. QED  BY <1>2, <1>c, <2>3 DEF Fields
<1>5. Clock'
  BY <1>1, <1>2, <1>3 DEF Clock
<1>6. Ages'
  BY <1>2, <1>c DEF Ages
<1>7. Spacing'
  BY <1>1, <1>2, <1>3, <1>c, SameDisk, Types DEF NextStart
<1>8. QED  BY <1>4, <1>5, <1>6, <1>7 DEF IInv
-----------------------------------------------------------------------------
(* Every batch, and close(), keeps the invariant.                          *)
LEMMA NextIInv == IInv /\ [Next]_vars => IInv'
<1> SUFFICES ASSUME IInv, [Next]_vars PROVE IInv'
  OBVIOUS
<1>c. Fields /\ Clock /\ Ages /\ Spacing
  BY DEF IInv
<1>k. /\ Levels \subseteq Int /\ PerSecond \in Nat /\ PerSecond >= 1
      /\ HoldTime \in Nat /\ HoldTime >= PerSecond
      /\ ContinueTime \in Nat /\ ContinueTime >= PerSecond
      /\ Hold \in Nat /\ Hold >= HoldTime /\ Hold >= 2
      /\ Longest = ContinueTime + Hold
  BY Constants
<1>1. ASSUME NEW level \in Levels, StayDead(level) PROVE IInv'
  <2>1. /\ Receive(level) /\ state = "DEAD"
        /\ UNCHANGED <<state, holdtime, max_channel_power, starttime, endttime,
                       outFile, content, disk, faulty>>
    BY <1>1 DEF StayDead, file
  <2>2. /\ batches' \in Seq(Levels) /\ Now \in Nat /\ Now' = Now + 1
        /\ Now' <= MaxBatches /\ ended' = ended
    BY <2>1, <1>c, OneMore
  <2>3. Fields'
    BY <2>1, <2>2, <1>c DEF Fields, TypeOK
  <2>4. Clock'
    BY <2>1, <2>2, <1>c, Types DEF Clock
  <2>5. Ages'
    BY <2>1, <1>c DEF Ages
  <2>6. Spacing'
    BY <2>1, <2>2, <1>c, SameDisk DEF NextStart
  <2>7. QED  BY <2>3, <2>4, <2>5, <2>6 DEF IInv
<1>2. ASSUME NEW level \in Levels, BecomeAlive(level) PROVE IInv'
  <2>1. /\ Receive(level) /\ state = "DEAD" /\ state' = "ALIVE" /\ holdtime' = 0
        /\ max_channel_power' = level /\ disk' = disk /\ OpenAndWrite(level)
    BY <1>2 DEF BecomeAlive
  <2>2. /\ batches' \in Seq(Levels) /\ Now \in Nat /\ Now' = Now + 1
        /\ Now' <= MaxBatches /\ ended' = ended
    BY <2>1, <1>c, OneMore
  <2>3. /\ starttime' = Now /\ endttime' = Now
        /\ outFile' \in {"closed", "good", "bad"} /\ faulty' \in BOOLEAN
        /\ content' \in Seq(Levels) /\ Len(content') \in Nat /\ Len(content') <= 1
        /\ outFile' = "closed" => content' = <<>>
    BY <2>1, <1>c, OpenAndWriteFile
  <2>4. Fields'
    BY <2>1, <2>2, <2>3, <1>c, <1>k DEF Fields, TypeOK, Hold
  <2>5. Clock'
    <3>1. endttime' = Now' - 1 /\ Len(content') <= endttime' - starttime' + 1
      BY <2>2, <2>3
    <3>2. QED  BY <2>1, <2>3, <3>1 DEF Clock
  <2>6. Ages'
    BY <2>1, <2>2, <2>3, <1>c, <1>k DEF Ages
  <2>7. Spacing'
    BY <2>1, <2>2, <2>3, <1>c, SameDisk DEF NextStart
  <2>8. QED  BY <2>4, <2>5, <2>6, <2>7 DEF IInv
<1>3. ASSUME NEW level \in Levels, Continue(level) PROVE IInv'
  <2>1. /\ Receive(level) /\ state = "ALIVE" /\ WriteOn(level)
        /\ Now - starttime <= ContinueTime
    BY <1>3, <1>c, <1>k, Types DEF Continue, TooLong
  <2>2. /\ max_channel_power' \in Levels \cup {Threshold - 1}
        /\ \/ state' = "HOLD" /\ holdtime' = 1
           \/ state' = "ALIVE" /\ holdtime' = 0
    BY <1>3, <1>c, Judgement DEF Continue
  <2>3. starttime <= Now /\ starttime \in Nat /\ Now \in Nat
    BY <2>1, <1>c, Types DEF Clock
  <2>4. QED  BY <2>1, <2>2, <2>3, <1>k, KeptFile
<1>4. ASSUME NEW level \in Levels, RollOver(level) PROVE IInv'
  <2>1. /\ Receive(level) /\ state = "ALIVE" /\ OpenAndWrite(level)
        /\ Now - starttime > ContinueTime /\ disk' = Closed
    BY <1>4, <1>c, <1>k, Types DEF RollOver, TooLong
  <2>2. /\ max_channel_power' \in Levels \cup {Threshold - 1}
        /\ \/ state' = "HOLD" /\ holdtime' = 1
           \/ state' = "ALIVE" /\ holdtime' = 0
    BY <1>4, <1>c, Judgement DEF RollOver
  <2>3. /\ batches' \in Seq(Levels) /\ Now \in Nat /\ Now' = Now + 1
        /\ Now < MaxBatches /\ Now' <= MaxBatches /\ ~ended /\ ended' = ended
    BY <2>1, <1>c, OneMore
  <2>4. /\ starttime' = Now /\ endttime' = Now
        /\ outFile' \in {"closed", "good", "bad"} /\ faulty' \in BOOLEAN
        /\ content' \in Seq(Levels) /\ Len(content') \in Nat /\ Len(content') <= 1
        /\ outFile' = "closed" => content' = <<>>
    BY <2>1, <1>c, OpenAndWriteFile
  <2>5. /\ endttime = Now - 1 /\ starttime \in Nat /\ Len(content) \in Nat
        /\ starttime + Len(content) <= Now /\ Len(content) <= Longest
    BY <2>1, <2>3, <1>c, <1>k, Types DEF Clock, Ages
  <2>6. Fields'
    <3>1. holdtime' \in 0..Greater(HoldTime, 2) /\ ended' \in BOOLEAN
      <4>1. holdtime' \in 0..Hold
        BY <2>2, <1>k
      <4>2. ended' \in BOOLEAN
        BY <2>3, <1>c DEF Fields, TypeOK
      <4>3. QED  BY <4>1, <4>2 DEF Hold
    <3>2. starttime' \in 0..MaxBatches /\ endttime' \in starttime'..MaxBatches
      BY <2>3, <2>4, Constants
    <3>3. TypeOK'
      BY <2>2, <2>3, <2>4, <3>1, <3>2 DEF TypeOK
    <3>4. QED  BY <2>1, <2>4, <1>c, <3>3, ClosedFiles DEF Fields
  <2>7. Clock'
    <3>1. endttime' = Now' - 1 /\ Len(content') <= endttime' - starttime' + 1
      BY <2>3, <2>4
    <3>2. QED  BY <2>2, <2>4, <3>1 DEF Clock
  <2>8. Ages'
    <3>1. \A i \in 1..Len(disk') : Len(disk'[i].content) <= Longest
      BY <2>1, <2>5, <1>c, ClosedAges
    <3>2. QED  BY <2>2, <2>3, <2>4, <3>1, <1>k DEF Ages
  <2>9. Spacing'
    <3>1. NextStart' = Now
      BY <2>2, <2>4 DEF NextStart
    <3>2. starttime + PerSecond <= Now /\ starttime <= Now
      BY <2>1, <2>3, <2>5, <1>k
    <3>3. /\ \A i, j \in 1..Len(Closed) : i < j => Over(Closed[i], Closed[j].start)
          /\ \A i \in 1..Len(Closed) : Over(Closed[i], Now)
      BY <2>1, <2>3, <2>5, <3>2, <1>c, ClosedSpacing
    <3>4. QED  BY <2>1, <3>1, <3>3 DEF Spacing, Over
  <2>10. QED  BY <2>6, <2>7, <2>8, <2>9 DEF IInv
<1>5. ASSUME NEW level \in Levels, Return(level) PROVE IInv'
  <2>1. /\ Receive(level) /\ state = "HOLD" /\ WriteOn(level)
        /\ state' = "ALIVE" /\ holdtime' = 0
        /\ max_channel_power' \in Levels \cup {Threshold - 1}
    BY <1>5, <1>c, Types DEF Return, Greater
  <2>2. /\ endttime = Now - 1 /\ endttime - starttime <= ContinueTime + holdtime - 1
        /\ holdtime = 1 \/ holdtime < HoldTime
        /\ starttime \in Nat /\ Now \in Nat /\ holdtime \in Nat
    BY <2>1, <1>c, <1>k, Types DEF Clock, Ages
  <2>3. QED  BY <2>1, <2>2, <1>k, KeptFile
<1>6. ASSUME NEW level \in Levels, HoldOn(level) PROVE IInv'
  <2>1. /\ Receive(level) /\ state = "HOLD" /\ WriteOn(level)
        /\ state' = "HOLD" /\ holdtime' = holdtime + 1 /\ holdtime' < HoldTime
        /\ max_channel_power' \in Levels \cup {Threshold - 1}
    BY <1>6, <1>c, Types DEF HoldOn
  <2>2. /\ endttime = Now - 1 /\ endttime - starttime <= ContinueTime + holdtime - 1
        /\ starttime + holdtime <= endttime + 1
        /\ starttime \in Nat /\ Now \in Nat /\ holdtime \in Nat
    BY <2>1, <1>c, <1>k, Types DEF Clock, Ages
  <2>3. QED  BY <2>1, <2>2, <1>k, KeptFile
<1>7. ASSUME NEW level \in Levels, Die(level) PROVE IInv'
  <2>1. /\ Receive(level) /\ state = "HOLD" /\ state' = "DEAD"
        /\ holdtime' = holdtime + 1 /\ holdtime' >= HoldTime
        /\ disk' = Closed /\ outFile' = "closed" /\ content' = <<>>
        /\ UNCHANGED <<starttime, endttime, faulty, max_channel_power>>
    BY <1>7 DEF Die
  <2>2. /\ batches' \in Seq(Levels) /\ Now \in Nat /\ Now' = Now + 1
        /\ Now < MaxBatches /\ Now' <= MaxBatches /\ ~ended /\ ended' = ended
    BY <2>1, <1>c, OneMore
  <2>3. /\ endttime = Now - 1 /\ endttime - starttime <= ContinueTime + holdtime - 1
        /\ starttime + holdtime <= endttime + 1 /\ starttime <= endttime
        /\ holdtime = 1 \/ holdtime < HoldTime
        /\ starttime \in Nat /\ holdtime \in Nat
        /\ Len(content) \in Nat /\ Len(content) <= endttime - starttime + 1
    BY <2>1, <1>c, <1>k, Types DEF Clock, Ages
  <2>4. Fields'
    <3>1. holdtime' \in 0..Greater(HoldTime, 2) /\ ended' \in BOOLEAN
      <4>1. Hold \in Nat /\ Hold >= HoldTime /\ Hold >= 2 /\ HoldTime \in Nat
        BY Constants
      <4>2. holdtime + 1 <= Hold
        BY <2>3, <4>1
      <4>3. holdtime' \in 0..Hold
        BY <2>1, <2>3, <4>1, <4>2
      <4>4. ended' \in BOOLEAN
        BY <2>2, <1>c DEF Fields, TypeOK
      <4>5. QED  BY <4>3, <4>4 DEF Hold
    <3>2. TypeOK'
      BY <2>1, <2>2, <3>1, <1>c DEF TypeOK, Fields
    <3>3. content' \in Seq(Levels)
      BY <2>1
    <3>4. QED  BY <2>1, <1>c, <3>2, <3>3, ClosedFiles DEF Fields
  <2>5. Clock'
    <3>1. Len(content') = 0
      BY <2>1
    <3>2. QED  BY <2>1, <2>2, <2>3, <3>1 DEF Clock
  <2>6. Ages'
    <3>1. Len(content) <= Longest
      BY <2>3, <1>k
    <3>2. \A i \in 1..Len(disk') : Len(disk'[i].content) <= Longest
      BY <2>1, <3>1, <1>c, ClosedAges
    <3>3. QED  BY <2>1, <3>2 DEF Ages
  <2>7. Spacing'
    <3>1. NextStart' = Now + 1
      BY <2>1, <2>2 DEF NextStart
    <3>2. /\ starttime + PerSecond <= Now + 1 /\ starttime <= Now + 1
          /\ starttime + Len(content) <= Now + 1
      BY <2>1, <2>2, <2>3, <1>k
    <3>3. /\ \A i, j \in 1..Len(Closed) : i < j => Over(Closed[i], Closed[j].start)
          /\ \A i \in 1..Len(Closed) : Over(Closed[i], Now + 1)
      BY <2>1, <2>2, <2>3, <3>2, <1>c, ClosedSpacing
    <3>4. QED  BY <2>1, <3>1, <3>3 DEF Spacing, Over
  <2>8. QED  BY <2>4, <2>5, <2>6, <2>7 DEF IInv
<1>8. CASE Close
  <2>1. /\ ended' = TRUE /\ ~ended
        /\ UNCHANGED <<state, holdtime, max_channel_power, starttime, endttime,
                       faulty, batches>>
    BY <1>8 DEF Close
  <2>2. CASE outFile # "good" /\ UNCHANGED <<disk, outFile, content>>
    <3>1. Fields'
      BY <2>1, <2>2, <1>c DEF Fields, TypeOK, Now
    <3>2. Clock' /\ Ages'
      BY <2>1, <2>2, <1>c DEF Clock, Ages, Now
    <3>3. Spacing'
      BY <2>1, <2>2, <1>c DEF Spacing, Over
    <3>4. QED  BY <3>1, <3>2, <3>3 DEF IInv
  <2>3. CASE outFile = "good" /\ disk' = Closed /\ outFile' = "closed" /\ content' = <<>>
    <3>1. state # "DEAD" /\ Len(content) <= endttime - starttime + 1
          /\ starttime \in Nat /\ endttime \in Nat /\ Len(content) \in Nat
          /\ starttime <= endttime /\ holdtime \in Nat
      BY <2>3, <1>c, <1>k, Types DEF Clock
    <3>2. Len(content') = 0 /\ content' \in Seq(Levels)
      BY <2>3
    <3>3. Fields'
      <4>1. TypeOK'
        BY <2>1, <2>3, <1>c DEF Fields, TypeOK, Now
      <4>2. QED  BY <2>3, <3>2, <4>1, <1>c, ClosedFiles DEF Fields
    <3>4. Clock'
      BY <2>1, <2>3, <3>1, <3>2, <1>c DEF Clock, Now
    <3>5. Ages'
      <4>1. Len(content) <= Longest
        BY <3>1, <1>c, <1>k, Types DEF Ages
      <4>2. \A i \in 1..Len(disk') : Len(disk'[i].content) <= Longest
        BY <2>3, <4>1, <1>c, ClosedAges
      <4>3. QED  BY <2>1, <4>2, <1>c DEF Ages
    <3>6. Spacing'
      <4> DEFINE t == starttime + PerSecond + Len(content)
      <4>1. t \in Nat /\ starttime + PerSecond <= t /\ starttime <= t
            /\ starttime + Len(content) <= t
        BY <3>1, <1>k
      <4> HIDE DEF t
      <4>2. \A i, j \in 1..Len(Closed) : i < j => Over(Closed[i], Closed[j].start)
        BY <2>1, <3>1, <4>1, <1>c, ClosedSpacing
      <4>3. QED  BY <2>1, <2>3, <4>2 DEF Spacing, Over
    <3>7. QED  BY <3>3, <3>4, <3>5, <3>6 DEF IInv
  <2>4. QED  BY <1>8, <2>2, <2>3 DEF Close
<1>9. CASE UNCHANGED vars
  <2>1. Fields'
    BY <1>9, <1>c DEF vars, file, Fields, TypeOK, Now
  <2>2. Clock' /\ Ages'
    BY <1>9, <1>c DEF vars, file, Clock, Ages, Now
  <2>3. Spacing'
    BY <1>9, <1>c DEF vars, file, Spacing, Over, NextStart, Now
  <2>4. QED  BY <2>1, <2>2, <2>3 DEF IInv
<1>10. QED
  BY <1>1, <1>2, <1>3, <1>4, <1>5, <1>6, <1>7, <1>8, <1>9
  DEF Next, OnIQDataReceived, Terminated

(* Time, ages and spacing hold in every state of the detector.             *)
THEOREM InvariantHolds == Spec => []IInv
<1>1. IInv /\ [Next]_vars => IInv'
  BY NextIInv
<1>2. QED  BY InitIInv, <1>1, PTL DEF Spec

(* The detector's fields keep their types, whatever arrives and whatever   *)
(* open or write fails (NpuWatchProcess.cpp:313-408).                      *)
THEOREM TypeCorrect == Spec => []TypeOK
<1>1. IInv => TypeOK
  BY DEF IInv, Fields
<1>2. QED  BY <1>1, InvariantHolds, PTL

(* However ALIVE and HOLD alternate around the roll-over, a file gets no   *)
(* longer than the continue time and one hold (lines 338-376).             *)
THEOREM FilesBounded == Spec => []DurationBounded
<1>1. IInv => DurationBounded
  <2> SUFFICES ASSUME IInv PROVE DurationBounded
    OBVIOUS
  <2>1. Fields /\ Clock /\ Ages
    BY DEF IInv
  <2>2. /\ Longest = ContinueTime + Greater(HoldTime, 2) /\ Hold \in Nat
        /\ Longest = ContinueTime + Hold /\ ContinueTime \in Nat /\ HoldTime \in Nat
        /\ Hold >= 2 /\ Hold >= HoldTime
    BY Constants DEF Hold
  <2>3. Len(content) <= Longest
    <3>1. CASE state = "DEAD"
      <4>1. Len(content) = 0
        BY <3>1, <2>1 DEF Clock
      <4>2. QED  BY <4>1, <2>2
    <3>2. CASE state # "DEAD"
      <4>1. /\ starttime \in Nat /\ endttime \in Nat /\ holdtime \in Nat
            /\ Len(content) \in Nat /\ Len(content) <= endttime - starttime + 1
        BY <2>1, <2>2, Types DEF Clock
      <4>2. \/ endttime - starttime <= ContinueTime + Hold - 1
            \/ /\ endttime - starttime <= ContinueTime + holdtime - 1
               /\ holdtime = 1 \/ holdtime < HoldTime
        BY <3>2, <2>1, Types DEF Ages
      <4>3. QED  BY <4>1, <4>2, <2>2
    <3>3. QED  BY <3>1, <3>2
  <2>4. QED  BY <2>1, <2>2, <2>3 DEF Ages, DurationBounded
<1>2. QED  BY <1>1, InvariantHolds, PTL

(* No file of a watch overlaps another or gets its name, since hold and    *)
(* continue time are not shorter than the second that names are rounded    *)
(* to (lines 298-303): no recording is overwritten.                        *)
THEOREM NamesNeverClash == Spec => []NamesDistinct
<1>1. IInv => NamesDistinct
  <2> SUFFICES ASSUME IInv, NEW i \in 1..Len(disk), NEW j \in 1..Len(disk), i < j
               PROVE  /\ Second(disk[i].start) < Second(disk[j].start)
                      /\ disk[i].start + Len(disk[i].content) <= disk[j].start
    BY DEF NamesDistinct
  <2>1. Over(disk[i], disk[j].start)
    BY DEF IInv, Spacing
  <2>2. disk[i].start \in Nat /\ disk[j].start \in Nat
    BY DiskFiles DEF IInv
  <2>3. Second(disk[i].start) < Second(disk[j].start)
    <3>1. disk[i].start + PerSecond <= disk[j].start
      BY <2>1 DEF Over
    <3>2. PerSecond \in Nat /\ PerSecond > 0
      BY Constants
    <3>3. disk[i].start \div PerSecond < disk[j].start \div PerSecond
      BY <2>2, <3>1, <3>2, QuotientsApart
    <3>4. QED  BY <3>3 DEF Second
  <2>4. QED  BY <2>1, <2>3 DEF Over
<1>2. QED  BY <1>1, InvariantHolds, PTL
-----------------------------------------------------------------------------
(* ------------------- what the files and rows contain ------------------- *)

(* A piece of content was received from s on, of the batches bs.           *)
Kept(bs, s, c) ==
  /\ s + Len(c) <= Len(bs)
  /\ \A b \in 1..Len(c) : c[b] = bs[s + b]

(* What is in the files is what was received from their start on, and a    *)
(* file that is well has everything since then.                            *)
Faithful ==
  /\ \A i \in 1..Len(disk) : Kept(batches, disk[i].start, disk[i].content)
  /\ outFile # "closed" => Kept(batches, starttime, content)
  /\ outFile = "good" => starttime + Len(content) = Now

(* Without faults a file is open while there is a signal, and none of its  *)
(* batches is missing.                                                     *)
Loud ==
  ~faulty =>
    /\ outFile # "bad"
    /\ state # "DEAD" /\ ~ended => outFile = "good"
    /\ \A t \in 0..Now - 1 : batches[t + 1] > Threshold => Covered(t)

(* More batches leave what was kept as it was, and the next one continues  *)
(* a piece that is up to date.                                             *)
LEMMA KeptMore ==
  ASSUME NEW bs \in Seq(Levels), NEW l \in Levels,
         NEW s \in Nat, NEW c \in Seq(Levels), Kept(bs, s, c)
  PROVE  /\ Kept(Append(bs, l), s, c)
         /\ s + Len(c) = Len(bs) => Kept(Append(bs, l), s, Append(c, l))
<1>1. /\ Append(bs, l) \in Seq(Levels) /\ Len(Append(bs, l)) = Len(bs) + 1
      /\ \A b \in 1..Len(bs) : Append(bs, l)[b] = bs[b]
      /\ Append(bs, l)[Len(bs) + 1] = l
      /\ Len(bs) \in Nat
  OBVIOUS
<1>2. /\ Append(c, l) \in Seq(Levels) /\ Len(Append(c, l)) = Len(c) + 1
      /\ \A b \in 1..Len(c) : Append(c, l)[b] = c[b]
      /\ Append(c, l)[Len(c) + 1] = l
      /\ Len(c) \in Nat
  OBVIOUS
<1>3. /\ s + Len(c) <= Len(bs)
      /\ \A b \in 1..Len(c) : c[b] = bs[s + b]
  BY DEF Kept
<1>4. \A b \in 1..Len(c) : c[b] = Append(bs, l)[s + b]
  <2> SUFFICES ASSUME NEW b \in 1..Len(c) PROVE c[b] = Append(bs, l)[s + b]
    OBVIOUS
  <2>1. s + b \in 1..Len(bs)
    BY <1>1, <1>2, <1>3
  <2>2. QED  BY <2>1, <1>1, <1>3
<1>5. Kept(Append(bs, l), s, c)
  BY <1>1, <1>2, <1>3, <1>4 DEF Kept
<1>6. ASSUME s + Len(c) = Len(bs) PROVE Kept(Append(bs, l), s, Append(c, l))
  <2>1. ASSUME NEW b \in 1..Len(c) + 1
        PROVE  Append(c, l)[b] = Append(bs, l)[s + b]
    <3>1. CASE b \in 1..Len(c)
      BY <3>1, <1>2, <1>4
    <3>2. CASE b = Len(c) + 1
      <4>1. s + b = Len(bs) + 1
        BY <3>2, <1>6, <1>2
      <4>2. QED  BY <4>1, <3>2, <1>1, <1>2
    <3>3. b \in 1..Len(c) \/ b = Len(c) + 1
      <4>1. Len(c) \in Nat
        BY <1>2
      <4>2. QED  BY <4>1
    <3>4. QED  BY <3>1, <3>2, <3>3
  <2>2. s + (Len(c) + 1) <= Len(bs) + 1
    BY <1>6, <1>1, <1>2
  <2>3. QED  BY <2>1, <2>2, <1>1, <1>2 DEF Kept
<1>7. QED  BY <1>5, <1>6

(* A new piece begins with the batch that is received, or with none.       *)
LEMMA KeptNew ==
  ASSUME NEW bs \in Seq(Levels), NEW l \in Levels
  PROVE  /\ Kept(Append(bs, l), Len(bs), <<l>>)
         /\ Kept(Append(bs, l), Len(bs), <<>>)
<1>1. /\ Len(Append(bs, l)) = Len(bs) + 1 /\ Len(bs) \in Nat
      /\ Append(bs, l)[Len(bs) + 1] = l
  OBVIOUS
<1>2. Len(<<l>>) = 1 /\ <<l>>[1] = l
  OBVIOUS
<1>3. Kept(Append(bs, l), Len(bs), <<l>>)
  BY <1>1, <1>2 DEF Kept
<1>4. Kept(Append(bs, l), Len(bs), <<>>)
  BY <1>1 DEF Kept
<1>5. QED  BY <1>3, <1>4

(* The batch that is received is the last one.                             *)
LEMMA Received ==
  ASSUME Fields, NEW level \in Levels, Receive(level)
  PROVE  /\ batches \in Seq(Levels) /\ batches' \in Seq(Levels)
         /\ batches' = Append(batches, level)
         /\ Now = Len(batches) /\ Now \in Nat /\ Now' = Now + 1
         /\ \A b \in 1..Now : batches'[b] = batches[b]
         /\ batches'[Now + 1] = level
         /\ ~ended /\ ended' = ended
<1>1. batches \in Seq(Levels) /\ batches' = Append(batches, level) /\ ended' = ended /\ ~ended
  BY DEF Fields, TypeOK, Receive
<1>2. Now = Len(batches) /\ Now' = Len(batches')
  BY DEF Now
<1>3. QED  BY <1>1, <1>2

(* Which file closeFile() adds.                                            *)
LEMMA ClosedAt ==
  ASSUME Fields, outFile # "closed"
  PROVE  /\ Len(Closed) = Len(disk) + 1
         /\ \A i \in 1..Len(disk) : Closed[i] = disk[i]
         /\ Closed[Len(disk) + 1] = [start |-> starttime, whole |-> outFile = "good",
                                     content |-> content]
BY DEF Fields, Closed

(* Closing changes nothing in what was written.                            *)
LEMMA ClosedKept ==
  ASSUME Fields, Faithful
  PROVE  \A i \in 1..Len(Closed) :
           Kept(batches, Closed[i].start, Closed[i].content)
<1> SUFFICES ASSUME NEW i \in 1..Len(Closed)
             PROVE  Kept(batches, Closed[i].start, Closed[i].content)
  OBVIOUS
<1>1. \/ i \in 1..Len(disk) /\ Closed[i] = disk[i]
      \/ /\ outFile # "closed"
         /\ Closed[i].start = starttime /\ Closed[i].content = content
  BY ClosedFiles
<1>2. QED  BY <1>1 DEF Faithful

(* A new file has what was received since it was opened.                   *)
LEMMA OpenKept ==
  ASSUME Fields, NEW level \in Levels, Receive(level), OpenAndWrite(level)
  PROVE  /\ Kept(batches', starttime', content')
         /\ outFile' = "good" => starttime' + Len(content') = Now'
         /\ outFile' # "good" => faulty'
<1>1. /\ batches \in Seq(Levels) /\ batches' = Append(batches, level)
      /\ Now = Len(batches) /\ Now \in Nat /\ Now' = Now + 1
  BY Received
<1>2. starttime' = Len(batches)
  BY <1>1 DEF OpenAndWrite
<1>3. \/ outFile' = "good" /\ content' = <<level>>
      \/ outFile' # "good" /\ content' = <<>> /\ faulty'
  BY DEF OpenAndWrite
<1>4. Kept(batches', starttime', content')
  BY <1>1, <1>2, <1>3, KeptNew
<1>5. content' = <<level>> => Len(content') = 1
  OBVIOUS
<1>6. QED  BY <1>1, <1>2, <1>3, <1>4, <1>5

(* An open file that is written to has what it had and the new batch.      *)
LEMMA WriteOnKept ==
  ASSUME Fields, Clock, Faithful, NEW level \in Levels, Receive(level), WriteOn(level)
  PROVE  /\ outFile' # "closed" => Kept(batches', starttime', content')
         /\ outFile' = "good" => starttime' + Len(content') = Now'
<1>1. /\ batches \in Seq(Levels) /\ batches' = Append(batches, level)
      /\ Now = Len(batches) /\ Now \in Nat /\ Now' = Now + 1
  BY Received
<1>2. starttime \in Nat /\ content \in Seq(Levels) /\ starttime' = starttime
  BY Types DEF WriteOn, Fields
<1>3. /\ outFile # "closed" => Kept(batches, starttime, content)
      /\ outFile = "good" => starttime + Len(content) = Len(batches)
  BY <1>1 DEF Faithful
<1>4. CASE outFile = "good" /\ content' = Append(content, level) /\ outFile' = outFile
  <2>1. Kept(batches', starttime, Append(content, level))
    BY <1>1, <1>2, <1>3, <1>4, KeptMore
  <2>2. Len(content') = Len(content) + 1 /\ Len(content) \in Nat
    BY <1>2, <1>4
  <2>3. starttime' + Len(content') = Now'
    <3>1. starttime + Len(content) = Now
      BY <1>1, <1>3, <1>4
    <3>2. starttime \in Nat /\ Now \in Nat /\ starttime' = starttime /\ Now' = Now + 1
      BY <1>1, <1>2
    <3>3. QED  BY <3>1, <3>2, <2>2
  <2>4. Kept(batches', starttime', content')
    BY <2>1, <1>2, <1>4
  <2>5. QED  BY <2>3, <2>4
<1>5. CASE outFile' # "good" /\ content' = content /\ (outFile' # "closed" => outFile # "closed")
  BY <1>1, <1>2, <1>3, <1>5, KeptMore
<1>6. QED  BY <1>4, <1>5 DEF WriteOn

(* Every step keeps the files faithful.                                    *)
LEMMA NextFaithful == IInv /\ Faithful /\ [Next]_vars => Faithful'
<1> SUFFICES ASSUME IInv, Faithful, [Next]_vars PROVE Faithful'
  OBVIOUS
<1>c. Fields /\ Clock
  BY DEF IInv
<1>d. ASSUME NEW level \in Levels, Receive(level), NEW d \in Seq(File),
             \A i \in 1..Len(d) : Kept(batches, d[i].start, d[i].content)
      PROVE  \A i \in 1..Len(d) : Kept(batches', d[i].start, d[i].content)
  <2> SUFFICES ASSUME NEW i \in 1..Len(d)
               PROVE  Kept(batches', d[i].start, d[i].content)
    OBVIOUS
  <2>1. d[i] \in File
    BY <1>d
  <2>2. d[i].start \in Nat /\ d[i].content \in Seq(Levels)
    BY <2>1 DEF File
  <2>3. batches \in Seq(Levels) /\ batches' = Append(batches, level)
    BY <1>c, <1>d, Received
  <2>4. QED  BY <2>2, <2>3, <1>d, KeptMore
<1>s. disk \in Seq(File) /\ Closed \in Seq(File)
  BY <1>c, ClosedFiles DEF Fields
<1>o. ASSUME NEW level \in Levels, Receive(level), disk' = disk
      PROVE  \A i \in 1..Len(disk') : Kept(batches', disk'[i].start, disk'[i].content)
  BY <1>o, <1>s, <1>d DEF Faithful
<1>n. ASSUME NEW level \in Levels, Receive(level), disk' = Closed
      PROVE  \A i \in 1..Len(disk') : Kept(batches', disk'[i].start, disk'[i].content)
  BY <1>n, <1>c, <1>s, <1>d, ClosedKept
<1>w. ASSUME NEW level \in Levels, Receive(level), WriteOn(level)
      PROVE  Faithful'
  BY <1>w, <1>c, <1>o, WriteOnKept DEF Faithful, WriteOn
<1>1. ASSUME NEW level \in Levels, StayDead(level) PROVE Faithful'
  <2>1. Receive(level) /\ outFile' = "closed" /\ disk' = disk
    BY <1>1, <1>c DEF StayDead, file, Clock
  <2>2. QED  BY <2>1, <1>o DEF Faithful
<1>2. ASSUME NEW level \in Levels, BecomeAlive(level) PROVE Faithful'
  <2>1. Receive(level) /\ OpenAndWrite(level) /\ disk' = disk
    BY <1>2 DEF BecomeAlive
  <2>2. QED  BY <2>1, <1>c, <1>o, OpenKept DEF Faithful
<1>3. ASSUME NEW level \in Levels, Continue(level) PROVE Faithful'
  BY <1>3, <1>w DEF Continue
<1>4. ASSUME NEW level \in Levels, RollOver(level) PROVE Faithful'
  <2>1. Receive(level) /\ OpenAndWrite(level) /\ disk' = Closed
    BY <1>4 DEF RollOver
  <2>2. QED  BY <2>1, <1>c, <1>n, OpenKept DEF Faithful
<1>5. ASSUME NEW level \in Levels, Return(level) PROVE Faithful'
  BY <1>5, <1>w DEF Return
<1>6. ASSUME NEW level \in Levels, HoldOn(level) PROVE Faithful'
  BY <1>6, <1>w DEF HoldOn
<1>7. ASSUME NEW level \in Levels, Die(level) PROVE Faithful'
  <2>1. Receive(level) /\ outFile' = "closed" /\ disk' = Closed
    BY <1>7 DEF Die
  <2>2. QED  BY <2>1, <1>n DEF Faithful
<1>8. CASE Close
  <2>1. CASE disk' = Closed /\ outFile' = "closed" /\ batches' = batches
    BY <2>1, <1>c, ClosedKept DEF Faithful
  <2>2. CASE UNCHANGED <<disk, outFile, content, starttime, batches>>
    BY <2>2 DEF Faithful, Now
  <2>3. QED  BY <1>8, <2>1, <2>2 DEF Close
<1>9. CASE UNCHANGED vars
  BY <1>9 DEF vars, file, Faithful, Now
<1>10. QED
  BY <1>1, <1>2, <1>3, <1>4, <1>5, <1>6, <1>7, <1>8, <1>9
  DEF Next, OnIQDataReceived, Terminated

(* A batch in the open file is in a file on disk once it is closed.        *)
LEMMA ClosedCovers ==
  ASSUME Fields, Faithful, outFile # "bad", NEW t \in 0..Now - 1, Covered(t)
  PROVE  \E i \in 1..Len(Closed) :
           Closed[i].start <= t /\ t < Closed[i].start + Len(Closed[i].content)
<1>0. disk \in Seq(File) /\ Len(disk) \in Nat
  BY DEF Fields
<1>1. CASE outFile = "good" /\ starttime <= t
  <2>1. /\ Len(Closed) = Len(disk) + 1
        /\ Closed[Len(disk) + 1].start = starttime
        /\ Closed[Len(disk) + 1].content = content
    BY <1>1, ClosedAt
  <2>2. starttime + Len(content) = Now /\ Now \in Nat
    BY <1>1, Types DEF Faithful
  <2>3. t < starttime + Len(content)
    BY <2>2
  <2>4. Len(disk) + 1 \in 1..Len(Closed)
    BY <2>1, <1>0
  <2>5. QED  BY <1>1, <2>1, <2>3, <2>4
<1>2. CASE \E i \in 1..Len(disk) :
             disk[i].start <= t /\ t < disk[i].start + Len(disk[i].content)
  <2>1. PICK i \in 1..Len(disk) :
          disk[i].start <= t /\ t < disk[i].start + Len(disk[i].content)
    BY <1>2
  <2>2. i \in 1..Len(Closed) /\ Closed[i] = disk[i]
    <3>1. CASE outFile = "closed"
      BY <3>1 DEF Closed
    <3>2. CASE outFile # "closed"
      BY <3>2, <1>0, ClosedAt
    <3>3. QED  BY <3>1, <3>2
  <2>3. QED  BY <2>1, <2>2
<1>3. QED  BY <1>1, <1>2 DEF Covered

(* What was covered stays so, and so no loud batch is missing if the new   *)
(* one is not.                                                             *)
LEMMA LoudMore ==
  ASSUME Fields, NEW level \in Levels, Receive(level), Loud, ~faulty,
         \A t \in 0..Now - 1 : Covered(t) => Covered(t)',
         level > Threshold => \A t \in Nat : t = Now => Covered(t)'
  PROVE  \A t \in 0..Now' - 1 : batches'[t + 1] > Threshold => Covered(t)'
<1>1. /\ Now \in Nat /\ Now' = Now + 1
      /\ \A b \in 1..Now : batches'[b] = batches[b]
      /\ batches'[Now + 1] = level
  BY Received
<1> SUFFICES ASSUME NEW t \in 0..Now' - 1, batches'[t + 1] > Threshold
             PROVE  Covered(t)'
  OBVIOUS
<1>2. CASE t \in 0..Now - 1
  <2>1. t + 1 \in 1..Now
    BY <1>1, <1>2
  <2>2. batches[t + 1] > Threshold
    BY <2>1, <1>1
  <2>3. QED  BY <2>2, <1>2 DEF Loud
<1>3. CASE t = Now
  BY <1>1, <1>3
<1>4. QED  BY <1>1, <1>2, <1>3

(* Every step keeps loud batches from being left out.                      *)
LEMMA NextLoud == IInv /\ Faithful /\ Loud /\ [Next]_vars => Loud'
<1> SUFFICES ASSUME IInv, Faithful, Loud, [Next]_vars, ~faulty' PROVE Loud'
  BY DEF Loud
<1>c. Fields /\ Clock
  BY DEF IInv
<1>l. ASSUME ~faulty
      PROVE  /\ outFile # "bad"
             /\ state # "DEAD" /\ ~ended => outFile = "good"
             /\ \A t \in 0..Now - 1 : batches[t + 1] > Threshold => Covered(t)
  BY <1>l DEF Loud
<1>n. ASSUME disk' = Closed, ~faulty
      PROVE  \A t \in 0..Now - 1 : Covered(t) => Covered(t)'
  BY <1>n, <1>c, <1>l, ClosedCovers DEF Covered
<1>w. ASSUME NEW level \in Levels, Receive(level), WriteOn(level), state # "DEAD"
      PROVE  Loud'
  <2>1. ~ended /\ ended' = ended /\ Now \in Nat
    BY <1>c, <1>w, Received
  <2>2. ~faulty /\ outFile = "good" /\ outFile' = "good"
        /\ starttime' = starttime /\ disk' = disk
    BY <1>w, <1>l, <2>1 DEF WriteOn
  <2>3. \A t \in 0..Now - 1 : Covered(t) => Covered(t)'
    BY <2>2 DEF Covered
  <2>4. \A t \in Nat : t = Now => Covered(t)'
    <3>1. starttime <= Now
      BY <1>c, <1>w, <2>1, Types DEF Clock
    <3>2. QED  BY <3>1, <2>2 DEF Covered
  <2>5. QED  BY <1>c, <1>w, <2>2, <2>3, <2>4, LoudMore DEF Loud
<1>1. ASSUME NEW level \in Levels, StayDead(level) PROVE Loud'
  <2>1. /\ Receive(level) /\ level <= Threshold /\ outFile = "closed"
        /\ UNCHANGED <<state, outFile, starttime, disk, faulty, content>>
    BY <1>1, <1>c DEF StayDead, file, Clock
  <2>2. \A t \in 0..Now - 1 : Covered(t) => Covered(t)'
    BY <2>1 DEF Covered
  <2>3. ~(level > Threshold)
    BY <2>1, Constants
  <2>4. state' = "DEAD"
    BY <1>1 DEF StayDead
  <2>5. QED  BY <1>c, <2>1, <2>2, <2>3, <2>4, LoudMore DEF Loud
<1>2. ASSUME NEW level \in Levels, BecomeAlive(level) PROVE Loud'
  <2>1. /\ Receive(level) /\ OpenAndWrite(level) /\ disk' = disk
        /\ outFile = "closed"
    BY <1>2, <1>c DEF BecomeAlive, Clock
  <2>2. outFile' = "good" /\ starttime' = Now /\ ~faulty /\ Now \in Nat
    BY <2>1, <1>c, Received DEF OpenAndWrite
  <2>3. \A t \in 0..Now - 1 : Covered(t) => Covered(t)'
    BY <2>1 DEF Covered
  <2>4. \A t \in Nat : t = Now => Covered(t)'
    BY <2>2 DEF Covered
  <2>5. QED  BY <1>c, <2>1, <2>2, <2>3, <2>4, LoudMore DEF Loud
<1>3. ASSUME NEW level \in Levels, Continue(level) PROVE Loud'
  BY <1>3, <1>w DEF Continue
<1>4. ASSUME NEW level \in Levels, RollOver(level) PROVE Loud'
  <2>1. /\ Receive(level) /\ OpenAndWrite(level) /\ disk' = Closed
    BY <1>4 DEF RollOver
  <2>2. outFile' = "good" /\ starttime' = Now /\ ~faulty /\ Now \in Nat
    BY <2>1, <1>c, Received DEF OpenAndWrite
  <2>3. \A t \in Nat : t = Now => Covered(t)'
    BY <2>2 DEF Covered
  <2>4. QED  BY <1>c, <1>n, <2>1, <2>2, <2>3, LoudMore DEF Loud
<1>5. ASSUME NEW level \in Levels, Return(level) PROVE Loud'
  BY <1>5, <1>w DEF Return
<1>6. ASSUME NEW level \in Levels, HoldOn(level) PROVE Loud'
  BY <1>6, <1>w DEF HoldOn
<1>7. ASSUME NEW level \in Levels, Die(level) PROVE Loud'
  <2>1. /\ Receive(level) /\ level <= Threshold /\ outFile' = "closed"
        /\ disk' = Closed /\ faulty' = faulty /\ state' = "DEAD"
    BY <1>7 DEF Die
  <2>2. ~(level > Threshold)
    BY <2>1, Constants
  <2>3. QED  BY <1>c, <1>n, <2>1, <2>2, LoudMore DEF Loud
<1>8. CASE Close
  <2>1. ended' /\ batches' = batches /\ faulty' = faulty /\ Now' = Now
        /\ starttime' = starttime
    BY <1>8 DEF Close, Now
  <2>2. CASE disk' = Closed /\ outFile' = "closed"
    BY <2>1, <2>2, <1>l, <1>n DEF Loud
  <2>3. CASE UNCHANGED <<disk, outFile>>
    <3>1. \A t \in 0..Now - 1 : Covered(t) => Covered(t)'
      BY <2>1, <2>3 DEF Covered
    <3>2. QED  BY <2>1, <2>3, <3>1, <1>l DEF Loud
  <2>4. QED  BY <1>8, <2>2, <2>3 DEF Close
<1>9. CASE UNCHANGED vars
  BY <1>9 DEF vars, file, Loud, Covered, Now
<1>10. QED
  BY <1>1, <1>2, <1>3, <1>4, <1>5, <1>6, <1>7, <1>8, <1>9
  DEF Next, OnIQDataReceived, Terminated

(* However DEAD, ALIVE, HOLD and roll-overs alternate, every file is the   *)
(* received stream without a gap, and without faults no batch with a       *)
(* signal is left out (NpuWatchProcess.cpp:317-375).                       *)
THEOREM SignalsKept == Spec => []NoSignalLost
<1>1. Init => Faithful /\ Loud
  BY DEF Init, Faithful, Loud, Now
<1>2. IInv /\ Faithful /\ Loud => NoSignalLost
  <2> SUFFICES ASSUME IInv, Faithful, Loud PROVE NoSignalLost
    OBVIOUS
  <2>c. Fields /\ batches \in Seq(Levels) /\ Len(batches) = Now /\ Now \in Nat
    BY DEF IInv, Fields, TypeOK, Now
  <2>1. ASSUME NEW s \in Nat, NEW c \in Seq(Levels), Kept(batches, s, c)
        PROVE  c = Recording(s, Len(c))
    <3> DEFINE r == SubSeq(batches, s + 1, s + Len(c))
    <3>1. /\ Len(c) \in Nat /\ s + Len(c) <= Len(batches)
          /\ \A b \in 1..Len(c) : c[b] = batches[s + b]
      BY <2>1 DEF Kept
    <3>2. \A i \in s + 1..s + Len(c) : batches[i] \in Levels
      BY <2>c, <3>1
    <3>3. /\ r \in Seq(Levels)
          /\ Len(r) = IF s + 1 <= s + Len(c) THEN s + Len(c) - (s + 1) + 1 ELSE 0
          /\ \A i \in 1..s + Len(c) - (s + 1) + 1 : r[i] = batches[s + 1 + i - 1]
      BY <3>1, <3>2, SubSeqProperties
    <3> HIDE DEF r
    <3>4. Len(r) = Len(c)
      BY <3>1, <3>3
    <3>5. ASSUME NEW b \in 1..Len(c) PROVE c[b] = r[b]
      <4>1. b \in 1..s + Len(c) - (s + 1) + 1 /\ s + 1 + b - 1 = s + b
        BY <3>1
      <4>2. QED  BY <4>1, <3>1, <3>3
    <3>6. c = r
      BY <3>3, <3>4, <3>5, SeqEqual
    <3>7. QED  BY <3>6 DEF Recording, r
  <2>2. ASSUME NEW i \in 1..Len(disk)
        PROVE  disk[i].content = Recording(disk[i].start, Len(disk[i].content))
    <3>1. disk[i] \in File
      BY <2>c, Types
    <3>2. disk[i].start \in Nat /\ disk[i].content \in Seq(Levels)
      BY <3>1 DEF File
    <3>3. QED  BY <3>2, <2>1 DEF Faithful
  <2>3. ASSUME outFile = "good"
        PROVE  content = Recording(starttime, Now - starttime)
    <3>1. /\ starttime \in Nat /\ content \in Seq(Levels)
          /\ Kept(batches, starttime, content)
          /\ starttime + Len(content) = Now
      BY <2>3, <2>c, Types DEF Faithful, Fields
    <3>2. Len(content) = Now - starttime
      BY <3>1, <2>c
    <3>3. content = Recording(starttime, Len(content))
      BY <3>1, <2>1
    <3>4. QED  BY <3>2, <3>3
  <2>4. ~faulty => \A t \in 0..Now - 1 : batches[t + 1] > Threshold => Covered(t)
    BY DEF Loud
  <2>5. QED  BY <2>2, <2>3, <2>4 DEF NoSignalLost
<1>3. IInv /\ Faithful /\ Loud /\ [Next]_vars => Faithful' /\ Loud' /\ IInv'
  BY NextIInv, NextFaithful, NextLoud
<1>4. QED  BY InitIInv, <1>1, <1>2, <1>3, PTL DEF Spec

-----------------------------------------------------------------------------
(* ------------------------------ the rows ------------------------------- *)

Row == [start : Nat, end : Int, peak : Int]

(* The rows are of different files, in their order, and a file that is     *)
(* well has one.                                                           *)
Entered ==
  /\ rows \in Seq(Row)
  /\ \A k, m \in 1..Len(rows) : k < m => rows[k].start < rows[m].start
  /\ ~ended => \A k \in 1..Len(rows) : rows[k].start < Second(NextStart)
  /\ \A i \in 1..Len(disk) :
       disk[i].whole => \E k \in 1..Len(rows) : RowOf(disk[i], rows[k])

(* The peak is that of a batch, louder than the threshold, and no batch of *)
(* the file it will be entered for, or was entered for, is louder.         *)
Loudest ==
  /\ state # "DEAD" =>
       /\ max_channel_power > Threshold
       /\ \E b \in 1..Now : batches[b] = max_channel_power
       /\ \A b \in 1..Len(content) : content[b] <= max_channel_power
  /\ PeakCovers

(* Seconds go with times, and differ when those are a second apart.        *)
LEMMA Seconds ==
  ASSUME NEW s \in Nat, NEW t \in Nat
  PROVE  /\ Second(s) \in Nat
         /\ s <= t => Second(s) <= Second(t)
         /\ s + PerSecond <= t => Second(s) < Second(t)
<1>1. PerSecond \in Nat /\ PerSecond > 0
  BY Constants
<1>2. /\ Second(s) \in Int /\ Second(t) \in Int
      /\ s % PerSecond \in 0..PerSecond - 1 /\ t % PerSecond \in 0..PerSecond - 1
      /\ s = PerSecond * Second(s) + (s % PerSecond)
      /\ t = PerSecond * Second(t) + (t % PerSecond)
  BY <1>1, DivMod DEF Second
<1>3. Second(s) \in Nat
  <2>1. CASE Second(s) <= -1
    <3>1. PerSecond * Second(s) <= -PerSecond
      BY <2>1, <1>1, <1>2
    <3>2. QED  BY <3>1, <1>1, <1>2
  <2>2. QED  BY <2>1, <1>2
<1>4. ASSUME s <= t PROVE Second(s) <= Second(t)
  <2>1. CASE Second(s) >= Second(t) + 1
    <3>1. PerSecond * Second(s) >= PerSecond * (Second(t) + 1)
      BY <2>1, <1>1, <1>2
    <3>2. PerSecond * (Second(t) + 1) = PerSecond * Second(t) + PerSecond
      BY <1>1, <1>2
    <3>3. QED  BY <3>1, <3>2, <1>1, <1>2, <1>4
  <2>2. QED  BY <2>1, <1>2
<1>5. ASSUME s + PerSecond <= t PROVE Second(s) < Second(t)
  BY <1>1, <1>5, QuotientsApart DEF Second
<1>6. QED  BY <1>3, <1>4, <1>5

(* Appending a row leaves the earlier ones.                                *)
LEMMA RowAppended ==
  ASSUME NEW rs \in Seq(Row), NEW r \in Row
  PROVE  /\ Append(rs, r) \in Seq(Row) /\ Len(Append(rs, r)) = Len(rs) + 1
         /\ \A k \in 1..Len(rs) : Append(rs, r)[k] = rs[k]
         /\ Append(rs, r)[Len(rs) + 1] = r
         /\ Len(rs) \in Nat
OBVIOUS

(* The field of a file that says whether it is well.                       *)
LEMMA WholeOf ==
  ASSUME NEW f, NEW s, NEW g, NEW c, f = [start |-> s, whole |-> g, content |-> c]
  PROVE  f.whole = g
OBVIOUS

(* The peak is a number.                                                   *)
LEMMA PowerInt ==
  ASSUME Fields
  PROVE  max_channel_power \in Int
<1>1. max_channel_power \in Levels \cup {Threshold - 1}
  BY Types
<1>2. Levels \subseteq Int /\ Threshold - 1 \in Int
  BY Constants
<1>3. QED  BY <1>1, <1>2

(* Saving enters a row for the file that is being closed, later than all   *)
(* other rows, and every file that is well then has one.                   *)
LEMMA SavedRow ==
  ASSUME Fields, Clock, Faithful, Entered, ~ended, state # "DEAD",
         NEW p \in Int, SaveDatabase(p)
  PROVE  /\ rows' \in Seq(Row) /\ Len(rows') = Len(rows) + 1 /\ Len(rows) \in Nat
         /\ \A k \in 1..Len(rows) : rows'[k] = rows[k]
         /\ rows'[Len(rows) + 1].start = Second(starttime)
         /\ rows'[Len(rows) + 1].peak = p
         /\ \A k, m \in 1..Len(rows') : k < m => rows'[k].start < rows'[m].start
         /\ \A k \in 1..Len(rows') : rows'[k].start <= Second(starttime)
         /\ \A i \in 1..Len(Closed) :
              Closed[i].whole => \E k \in 1..Len(rows') : RowOf(Closed[i], rows'[k])
<1> DEFINE r == [start |-> Second(starttime), end |-> Second(endttime), peak |-> p]
           n == Len(rows)
<1>1. starttime \in Nat /\ endttime \in Nat /\ endttime = Now - 1
      /\ Len(content) \in Nat /\ Now \in Nat
  BY Types DEF Clock
<1>2. Second(starttime) \in Nat /\ Second(endttime) \in Nat
  BY <1>1, Seconds
<1>3. r \in Row /\ r.start = Second(starttime) /\ r.end = Second(endttime) /\ r.peak = p
  BY <1>2 DEF Row
<1>4. rows' = Append(rows, r)
  BY DEF SaveDatabase
<1> HIDE DEF r
<1>5. rows \in Seq(Row)
  BY DEF Entered
<1>6. /\ rows' \in Seq(Row) /\ Len(rows') = n + 1 /\ n \in Nat
      /\ \A k \in 1..n : rows'[k] = rows[k]
      /\ rows'[n + 1] = r
  BY <1>3, <1>4, <1>5, RowAppended
<1> HIDE DEF n
<1>7. /\ \A k, m \in 1..n : k < m => rows[k].start < rows[m].start
      /\ \A k \in 1..n : rows[k].start < Second(starttime)
  BY DEF Entered, NextStart, n
<1>8. \A k \in 1..n : rows[k].start \in Nat
  <2> SUFFICES ASSUME NEW k \in 1..n PROVE rows[k].start \in Nat
    OBVIOUS
  <2>1. rows[k] \in Row
    BY <1>5 DEF n
  <2>2. QED  BY <2>1 DEF Row
<1>9. ASSUME NEW k \in 1..Len(rows') PROVE k \in 1..n \/ k = n + 1
  BY <1>6
<1>10. ASSUME NEW k \in 1..Len(rows'), NEW m \in 1..Len(rows'), k < m
       PROVE  rows'[k].start < rows'[m].start
  <2>1. k \in 1..n
    BY <1>6, <1>10
  <2>2. CASE m \in 1..n
    BY <2>1, <2>2, <1>6, <1>7, <1>10
  <2>3. CASE m = n + 1
    BY <2>1, <2>3, <1>3, <1>6, <1>7
  <2>4. QED  BY <2>2, <2>3, <1>9
<1>11. ASSUME NEW k \in 1..Len(rows') PROVE rows'[k].start <= Second(starttime)
  <2>1. CASE k \in 1..n
    BY <2>1, <1>2, <1>6, <1>7, <1>8
  <2>2. CASE k = n + 1
    BY <2>2, <1>2, <1>3, <1>6
  <2>3. QED  BY <2>1, <2>2, <1>9
<1>12. ASSUME NEW i \in 1..Len(Closed), Closed[i].whole
       PROVE  \E k \in 1..Len(rows') : RowOf(Closed[i], rows'[k])
  <2>0. disk \in Seq(File) /\ Len(disk) \in Nat
    BY DEF Fields
  <2>1. CASE i \in 1..Len(disk) /\ Closed[i] = disk[i]
    <3>1. PICK k \in 1..n : RowOf(disk[i], rows[k])
      BY <2>1, <1>12 DEF Entered, n
    <3>2. k \in 1..Len(rows') /\ rows'[k] = rows[k]
      BY <1>6
    <3>3. QED  BY <3>1, <3>2, <2>1
  <2>2. CASE i = Len(disk) + 1 /\ outFile # "closed"
    <3>1. Closed[i] = [start |-> starttime, whole |-> outFile = "good",
                       content |-> content]
      BY <2>2, ClosedAt
    <3>w. Closed[i].whole = (outFile = "good")
      BY <3>1, WholeOf
    <3>g. outFile = "good"
      BY <3>w, <1>12
    <3>2. Closed[i].start = starttime /\ Closed[i].content = content /\ outFile = "good"
      BY <3>1, <3>g
    <3>3. starttime + Len(content) - 1 = endttime
      BY <3>2, <1>1 DEF Faithful
    <3>4. RowOf(Closed[i], r)
      BY <3>2, <3>3, <1>3 DEF RowOf
    <3>5. n + 1 \in 1..Len(rows')
      BY <1>6
    <3>6. QED  BY <3>4, <3>5, <1>6
  <2>3. QED  BY <2>1, <2>2, ClosedFiles
<1>13. QED  BY <1>3, <1>6, <1>10, <1>11, <1>12 DEF n

(* Rows and files that stay as they are agree as before.                   *)
LEMMA SameRows ==
  ASSUME Fields, Entered, disk' = disk, rows' = rows, ended' = ended,
         NextStart' \in Nat, NextStart <= NextStart'
  PROVE  Entered'
<1>1. rows \in Seq(Row) /\ NextStart \in Nat
  BY Types DEF Entered
<1>2. Second(NextStart) <= Second(NextStart') /\ Second(NextStart) \in Nat
      /\ Second(NextStart') \in Nat
  BY <1>1, Seconds
<1>3. ~ended => \A k \in 1..Len(rows) : rows[k].start < Second(NextStart')
  <2> SUFFICES ASSUME ~ended, NEW k \in 1..Len(rows)
               PROVE  rows[k].start < Second(NextStart')
    OBVIOUS
  <2>1. rows[k] \in Row /\ rows[k].start < Second(NextStart)
    BY <1>1 DEF Entered
  <2>2. rows[k].start \in Nat
    BY <2>1 DEF Row
  <2>3. QED  BY <2>1, <2>2, <1>2
<1>4. Second(NextStart)' = Second(NextStart')
  BY DEF Second
<1>5. QED  BY <1>3, <1>4 DEF Entered

(* Every step keeps the rows in order and complete.                        *)
LEMMA NextEntered == IInv /\ Faithful /\ Entered /\ [Next]_vars => Entered'
<1> SUFFICES ASSUME IInv, Faithful, Entered, [Next]_vars PROVE Entered'
  OBVIOUS
<1>c. Fields /\ Clock /\ Ages
  BY DEF IInv
<1>k. /\ PerSecond \in Nat /\ HoldTime \in Nat /\ HoldTime >= PerSecond
      /\ ContinueTime \in Nat /\ ContinueTime >= PerSecond /\ Levels \subseteq Int
      /\ Threshold \in Int
  BY Constants
<1>t. /\ Now \in Nat /\ starttime \in Nat /\ starttime <= endttime /\ endttime \in Nat
      /\ holdtime \in Nat
      /\ max_channel_power \in Int /\ (state # "DEAD" => endttime = Now - 1)
  <2>1. /\ max_channel_power \in Levels \cup {Threshold - 1} /\ holdtime \in 0..Hold
        /\ starttime \in Nat /\ starttime <= endttime /\ endttime \in Nat
        /\ Now \in Nat
    BY <1>c, Types
  <2>2. state # "DEAD" => endttime = Now - 1
    BY <1>c DEF Clock
  <2>3. max_channel_power \in Int
    BY <2>1, <1>k
  <2>4. holdtime \in Nat
    BY <2>1, Constants
  <2>5. QED  BY <2>1, <2>2, <2>3, <2>4
<1>u. ASSUME UNCHANGED <<disk, rows, starttime, state>>,
             NEW level \in Levels, Receive(level)
      PROVE  Entered'
  <2>1. ended' = ended /\ Now' = Now + 1
    BY <1>c, <1>u, Received
  <2>2. NextStart' \in Nat /\ NextStart <= NextStart'
    BY <2>1, <1>u, <1>t DEF NextStart
  <2>3. QED  BY <2>1, <2>2, <1>c, <1>u, SameRows
<1>w. ASSUME NEW level \in Levels, Receive(level), WriteOn(level),
             state # "DEAD", state' # "DEAD", rows' = rows
      PROVE  Entered'
  <2>1. ended' = ended
    BY <1>c, <1>w, Received
  <2>2. starttime' = starttime /\ disk' = disk
    BY <1>w DEF WriteOn
  <2>3. NextStart' \in Nat /\ NextStart <= NextStart'
    BY <2>2, <1>w, <1>t DEF NextStart
  <2>4. QED  BY <2>1, <2>2, <2>3, <1>c, <1>w, SameRows
<1>v. ASSUME NEW p \in Int, SaveDatabase(p), disk' = Closed, ~ended, state # "DEAD",
             NextStart' \in Nat, ~ended' => starttime + PerSecond <= NextStart'
      PROVE  Entered'
  <2>1. /\ rows' \in Seq(Row)
        /\ \A k, m \in 1..Len(rows') : k < m => rows'[k].start < rows'[m].start
        /\ \A k \in 1..Len(rows') : rows'[k].start <= Second(starttime)
        /\ \A i \in 1..Len(Closed) :
             Closed[i].whole => \E k \in 1..Len(rows') : RowOf(Closed[i], rows'[k])
    BY <1>v, <1>c, SavedRow
  <2>2. ~ended' => \A k \in 1..Len(rows') : rows'[k].start < Second(NextStart')
    <3> SUFFICES ASSUME ~ended', NEW k \in 1..Len(rows')
                 PROVE  rows'[k].start < Second(NextStart')
      OBVIOUS
    <3>1. rows'[k] \in Row /\ rows'[k].start <= Second(starttime)
      BY <2>1
    <3>2. rows'[k].start \in Nat
      BY <3>1 DEF Row
    <3>3. Second(starttime) < Second(NextStart') /\ Second(starttime) \in Nat
          /\ Second(NextStart') \in Nat
      BY <1>v, <1>t, Seconds
    <3>4. QED  BY <3>1, <3>2, <3>3
  <2>3. Second(NextStart)' = Second(NextStart')
    BY DEF Second
  <2>4. QED  BY <2>1, <2>2, <2>3, <1>v DEF Entered, RowOf, Second
<1>1. ASSUME NEW level \in Levels, StayDead(level) PROVE Entered'
  BY <1>1, <1>u DEF StayDead, file
<1>2. ASSUME NEW level \in Levels, BecomeAlive(level) PROVE Entered'
  <2>1. /\ Receive(level) /\ state = "DEAD" /\ state' = "ALIVE"
        /\ disk' = disk /\ rows' = rows /\ starttime' = Now
    BY <1>2 DEF BecomeAlive, OpenAndWrite
  <2>2. ended' = ended
    BY <2>1, <1>c, Received
  <2>3. NextStart' \in Nat /\ NextStart <= NextStart'
    BY <2>1, <1>t DEF NextStart
  <2>4. QED  BY <2>1, <2>2, <2>3, <1>c, SameRows
<1>3. ASSUME NEW level \in Levels, Continue(level) PROVE Entered'
  <2>1. state' \in {"ALIVE", "HOLD"}
    BY <1>3 DEF Continue, Judge
  <2>2. QED  BY <1>3, <2>1, <1>w DEF Continue
<1>4. ASSUME NEW level \in Levels, RollOver(level) PROVE Entered'
  <2>1. /\ Receive(level) /\ state = "ALIVE" /\ state' \in {"ALIVE", "HOLD"}
        /\ disk' = Closed /\ SaveDatabase(max_channel_power')
        /\ starttime' = Now /\ Now - starttime > ContinueTime
    BY <1>4, <1>t, <1>k DEF RollOver, OpenAndWrite, Judge, TooLong
  <2>2. max_channel_power' \in Int
    BY <1>4, <1>t, <1>k DEF RollOver, Judge, Greater
  <2>3. ~ended
    BY <2>1, <1>c, Received
  <2>4. NextStart' = Now /\ starttime + PerSecond <= Now
    BY <2>1, <1>t, <1>k DEF NextStart
  <2>5. QED  BY <2>1, <2>2, <2>3, <2>4, <1>t, <1>v
<1>5. ASSUME NEW level \in Levels, Return(level) PROVE Entered'
  BY <1>5, <1>w DEF Return
<1>6. ASSUME NEW level \in Levels, HoldOn(level) PROVE Entered'
  BY <1>6, <1>w DEF HoldOn
<1>7. ASSUME NEW level \in Levels, Die(level) PROVE Entered'
  <2>1. /\ Receive(level) /\ state = "HOLD" /\ state' = "DEAD"
        /\ disk' = Closed /\ SaveDatabase(max_channel_power)
        /\ holdtime + 1 >= HoldTime
    BY <1>7 DEF Die
  <2>2. ~ended /\ Now' = Now + 1
    BY <2>1, <1>c, Received
  <2>3. starttime + holdtime <= endttime + 1
    BY <2>1, <1>c DEF Ages
  <2>4. NextStart' = Now + 1 /\ starttime + PerSecond <= Now + 1
    BY <2>1, <2>2, <2>3, <1>t, <1>k DEF NextStart
  <2>5. NextStart' \in Nat
    BY <2>4, <1>t
  <2>6. QED  BY <2>1, <2>2, <2>4, <2>5, <1>t, <1>v
<1>8. CASE Close
  <2>1. ~ended /\ ended' = TRUE /\ UNCHANGED <<state, starttime, batches>>
    BY <1>8 DEF Close
  <2>n. NextStart' = NextStart /\ NextStart \in Nat
    BY <2>1, <1>c, Types DEF NextStart, Now
  <2>2. CASE outFile = "good" /\ disk' = Closed /\ SaveDatabase(max_channel_power)
    <3>1. state # "DEAD"
      BY <2>2, <1>c DEF Clock
    <3>2. QED  BY <2>1, <2>n, <2>2, <3>1, <1>t, <1>v
  <2>3. CASE UNCHANGED <<disk, rows>>
    BY <2>1, <2>3 DEF Entered, RowOf
  <2>4. QED  BY <1>8, <2>2, <2>3 DEF Close
<1>9. CASE UNCHANGED vars
  BY <1>9 DEF vars, file, Entered, RowOf, NextStart, Now
<1>10. QED
  BY <1>1, <1>2, <1>3, <1>4, <1>5, <1>6, <1>7, <1>8, <1>9
  DEF Next, OnIQDataReceived, Terminated

(* Saving and closing keep the peaks above what is in the files.           *)
LEMMA SavedPeaks ==
  ASSUME Fields, Clock, Spacing, Faithful, Entered, Loudest, ~ended, state # "DEAD",
         NEW p \in Int, SaveDatabase(p), disk' = Closed, max_channel_power <= p,
         \E b \in 1..Now' : batches'[b] = p,
         \A b \in 1..Now : batches'[b] = batches[b], Now <= Now', Now' \in Nat
  PROVE  PeakCovers'
<1> DEFINE n == Len(rows)
<1>1. /\ rows' \in Seq(Row) /\ Len(rows') = n + 1 /\ n \in Nat
      /\ \A k \in 1..n : rows'[k] = rows[k]
      /\ rows'[n + 1].start = Second(starttime)
      /\ rows'[n + 1].peak = p
  BY SavedRow
<1>2. rows \in Seq(Row)
  BY DEF Entered
<1> HIDE DEF n
<1>3. ASSUME NEW i \in 1..Len(Closed), NEW k \in 1..Len(rows'),
             rows'[k].start = Second(Closed[i].start)
      PROVE  /\ \A b \in 1..Len(Closed[i].content) : Closed[i].content[b] <= rows'[k].peak
             /\ \E b \in 1..Now' : batches'[b] = rows'[k].peak
  <2>0. Now \in Nat /\ starttime \in Nat
    BY Types
  <2>1. \/ i \in 1..Len(disk) /\ Closed[i] = disk[i]
        \/ Closed[i].start = starttime /\ Closed[i].content = content
    BY ClosedFiles
  <2>2. k \in 1..n \/ k = n + 1
    BY <1>1
  <2>3. CASE k \in 1..n
    <3>1. rows'[k] = rows[k] /\ rows[k] \in Row
      BY <2>3, <1>1, <1>2 DEF n
    <3>2. rows[k].start < Second(starttime) /\ rows[k].start \in Nat
      BY <2>3, <3>1 DEF Entered, NextStart, Row, n
    <3>3. Second(starttime) \in Nat
      BY <2>0, Seconds
    <3>4. i \in 1..Len(disk) /\ Closed[i] = disk[i]
      <4>1. rows[k].start # Second(starttime)
        BY <3>2, <3>3
      <4>2. QED  BY <4>1, <2>1, <1>3, <3>1
    <3>5. /\ \A b \in 1..Len(disk[i].content) : disk[i].content[b] <= rows[k].peak
          /\ \E b \in 1..Now : batches[b] = rows[k].peak
      BY <2>3, <3>1, <3>4, <1>3 DEF Loudest, PeakCovers, n
    <3>6. \E b \in 1..Now' : batches'[b] = rows[k].peak
      <4>1. PICK b \in 1..Now : batches[b] = rows[k].peak
        BY <3>5
      <4>2. b \in 1..Now' /\ batches'[b] = batches[b]
        BY <2>0
      <4>3. QED  BY <4>1, <4>2
    <3>7. QED  BY <3>1, <3>4, <3>5, <3>6
  <2>4. CASE k = n + 1
    <3>1. rows'[k].start = Second(starttime) /\ rows'[k].peak = p
      BY <2>4, <1>1
    <3>2. Closed[i].content = content
      <4>1. ASSUME i \in 1..Len(disk), Closed[i] = disk[i] PROVE FALSE
        <5>1. disk[i].start \in Nat /\ disk[i].start + PerSecond <= starttime
          BY <4>1, DiskFiles DEF Spacing, Over, NextStart
        <5>2. Second(disk[i].start) < Second(starttime)
          BY <5>1, <2>0, Seconds
        <5>3. Second(disk[i].start) \in Nat /\ Second(starttime) \in Nat
          BY <5>1, <2>0, Seconds
        <5>4. Second(disk[i].start) = Second(starttime)
          BY <4>1, <1>3, <3>1
        <5>5. QED  BY <5>2, <5>3, <5>4
      <4>2. QED  BY <4>1, <2>1
    <3>3. ASSUME NEW b \in 1..Len(content) PROVE content[b] <= p
      <4>1. content[b] <= max_channel_power
        BY DEF Loudest
      <4>2. content[b] \in Int
        <5>1. content[b] \in Levels
          BY DEF Fields
        <5>2. QED  BY <5>1, Constants
      <4>3. max_channel_power \in Int
        BY PowerInt
      <4>4. QED  BY <4>1, <4>2, <4>3
    <3>4. QED  BY <3>1, <3>2, <3>3
  <2>5. QED  BY <2>2, <2>3, <2>4
<1>4. \A i \in 1..Len(disk'), k \in 1..Len(rows') :
        rows'[k].start = Second(disk'[i].start) =>
          /\ \A b \in 1..Len(disk'[i].content) : disk'[i].content[b] <= rows'[k].peak
          /\ \E b \in 1..Now' : batches'[b] = rows'[k].peak
  BY <1>3
<1>5. QED  BY <1>4 DEF PeakCovers, Second

(* Rows and files that stay as they are do so while batches arrive.        *)
LEMMA SamePeaks ==
  ASSUME Loudest, disk' = disk, rows' = rows, Now \in Nat, Now' \in Nat, Now <= Now',
         \A b \in 1..Now : batches'[b] = batches[b]
  PROVE  PeakCovers'
<1>1. ASSUME NEW i \in 1..Len(disk), NEW k \in 1..Len(rows),
             rows[k].start = Second(disk[i].start)
      PROVE  /\ \A b \in 1..Len(disk[i].content) : disk[i].content[b] <= rows[k].peak
             /\ \E b \in 1..Now' : batches'[b] = rows[k].peak
  <2>1. /\ \A b \in 1..Len(disk[i].content) : disk[i].content[b] <= rows[k].peak
        /\ \E b \in 1..Now : batches[b] = rows[k].peak
    BY <1>1 DEF Loudest, PeakCovers
  <2>2. PICK b \in 1..Now : batches[b] = rows[k].peak
    BY <2>1
  <2>3. b \in 1..Now' /\ batches'[b] = batches[b]
    OBVIOUS
  <2>4. QED  BY <2>1, <2>2, <2>3
<1>2. QED  BY <1>1 DEF PeakCovers, Second

(* The loudest batch so far and the new one.                               *)
LEMMA NewPeak ==
  ASSUME Fields, Loudest, NEW level \in Levels, Receive(level), state # "DEAD",
         \/ level <= Threshold /\ max_channel_power' = max_channel_power
         \/ max_channel_power' = Greater(max_channel_power, level)
  PROVE  /\ max_channel_power' \in Int /\ max_channel_power' > Threshold
         /\ max_channel_power <= max_channel_power' /\ level <= max_channel_power'
         /\ \E b \in 1..Now' : batches'[b] = max_channel_power'
<1>1. /\ level \in Int /\ Threshold \in Int /\ max_channel_power \in Int
      /\ max_channel_power > Threshold
  <2>1. level \in Int /\ Threshold \in Int
    BY Constants
  <2>2. QED  BY <2>1, PowerInt DEF Loudest
<1>2. /\ max_channel_power' \in Int /\ max_channel_power' > Threshold
      /\ max_channel_power <= max_channel_power' /\ level <= max_channel_power'
      /\ max_channel_power' = max_channel_power \/ max_channel_power' = level
  BY <1>1 DEF Greater
<1>3. /\ Now \in Nat /\ Now' = Now + 1
      /\ \A b \in 1..Now : batches'[b] = batches[b]
      /\ batches'[Now + 1] = level
  BY Received
<1>4. CASE max_channel_power' = max_channel_power
  <2>1. PICK b \in 1..Now : batches[b] = max_channel_power
    BY DEF Loudest
  <2>2. b \in 1..Now' /\ batches'[b] = batches[b]
    BY <1>3
  <2>3. QED  BY <2>1, <2>2, <1>2, <1>4
<1>5. CASE max_channel_power' = level
  <2>1. Now + 1 \in 1..Now'
    BY <1>3
  <2>2. QED  BY <2>1, <1>2, <1>3, <1>5
<1>6. QED  BY <1>2, <1>4, <1>5

(* Every step keeps the peaks.                                             *)
LEMMA NextLoudest ==
  IInv /\ Faithful /\ Entered /\ Loudest /\ [Next]_vars => Loudest'
<1> SUFFICES ASSUME IInv, Faithful, Entered, Loudest, [Next]_vars PROVE Loudest'
  OBVIOUS
<1>c. Fields /\ Clock /\ Spacing
  BY DEF IInv
<1>k. Levels \subseteq Int /\ Threshold \in Int
  BY Constants
<1>t. /\ Now \in Nat /\ max_channel_power \in Int /\ content \in Seq(Levels)
  <2>1. Now \in Nat /\ max_channel_power \in Levels \cup {Threshold - 1}
    BY <1>c, Types
  <2>2. QED  BY <2>1, <1>c, <1>k DEF Fields
<1>o. ASSUME NEW level \in Levels, Receive(level), OpenAndWrite(level),
             level <= max_channel_power', max_channel_power' > Threshold,
             \E b \in 1..Now' : batches'[b] = max_channel_power', PeakCovers'
      PROVE  Loudest'
  <2>1. content' = <<level>> \/ content' = <<>>
    BY <1>o DEF OpenAndWrite
  <2>2. \A b \in 1..Len(content') : content'[b] <= max_channel_power'
    BY <2>1, <1>o
  <2>3. QED  BY <2>2, <1>o DEF Loudest
<1>w. ASSUME NEW level \in Levels, Receive(level), WriteOn(level), state # "DEAD",
             rows' = rows,
             \/ level <= Threshold /\ max_channel_power' = max_channel_power
             \/ max_channel_power' = Greater(max_channel_power, level)
      PROVE  Loudest'
  <2>1. /\ max_channel_power' \in Int /\ max_channel_power' > Threshold
        /\ max_channel_power <= max_channel_power' /\ level <= max_channel_power'
        /\ \E b \in 1..Now' : batches'[b] = max_channel_power'
    BY <1>c, <1>w, NewPeak
  <2>2. /\ Now' = Now + 1 /\ \A b \in 1..Now : batches'[b] = batches[b]
    BY <1>c, <1>w, Received
  <2>3. disk' = disk
    BY <1>w DEF WriteOn
  <2>4. PeakCovers'
    BY <1>t, <1>w, <2>2, <2>3, SamePeaks
  <2>5. \A b \in 1..Len(content) : content[b] <= max_channel_power'
    <3> SUFFICES ASSUME NEW b \in 1..Len(content)
                 PROVE  content[b] <= max_channel_power'
      OBVIOUS
    <3>1. content[b] <= max_channel_power
      BY <1>w DEF Loudest
    <3>2. content[b] \in Int
      <4>1. content[b] \in Levels
        BY <1>t
      <4>2. QED  BY <4>1, <1>k
    <3>3. QED  BY <3>1, <3>2, <2>1, <1>t
  <2>6. content' = content \/ content' = Append(content, level)
    BY <1>w DEF WriteOn
  <2>7. \A b \in 1..Len(content') : content'[b] <= max_channel_power'
    <3>1. CASE content' = content
      BY <3>1, <2>5
    <3>2. CASE content' = Append(content, level)
      <4> SUFFICES ASSUME NEW b \in 1..Len(content')
                   PROVE  content'[b] <= max_channel_power'
        OBVIOUS
      <4>1. Len(content') = Len(content) + 1 /\ Len(content) \in Nat
        BY <3>2, <1>t
      <4>2. CASE b \in 1..Len(content)
        <5>1. content'[b] = content[b]
          BY <4>2, <3>2, <1>t
        <5>2. QED  BY <5>1, <4>2, <2>5
      <4>3. CASE b = Len(content) + 1
        <5>1. content'[b] = level
          BY <4>3, <3>2, <1>t
        <5>2. QED  BY <5>1, <2>1
      <4>4. QED  BY <4>1, <4>2, <4>3
    <3>3. QED  BY <2>6, <3>1, <3>2
  <2>8. QED  BY <2>1, <2>4, <2>7 DEF Loudest
<1>j. ASSUME NEW level \in Levels, Judge(level)
      PROVE  \/ level <= Threshold /\ max_channel_power' = max_channel_power
             \/ max_channel_power' = Greater(max_channel_power, level)
  BY <1>j, <1>k DEF Judge
<1>1. ASSUME NEW level \in Levels, StayDead(level) PROVE Loudest'
  <2>1. Receive(level) /\ disk' = disk /\ rows' = rows /\ state' = "DEAD"
    BY <1>1 DEF StayDead, file
  <2>2. /\ Now' = Now + 1 /\ \A b \in 1..Now : batches'[b] = batches[b]
    BY <1>c, <2>1, Received
  <2>3. PeakCovers'
    BY <1>t, <2>1, <2>2, SamePeaks
  <2>4. QED  BY <2>1, <2>3 DEF Loudest
<1>2. ASSUME NEW level \in Levels, BecomeAlive(level) PROVE Loudest'
  <2>1. /\ Receive(level) /\ OpenAndWrite(level) /\ disk' = disk /\ rows' = rows
        /\ level > Threshold /\ max_channel_power' = level
    BY <1>2 DEF BecomeAlive
  <2>2. /\ Now' = Now + 1 /\ \A b \in 1..Now : batches'[b] = batches[b]
        /\ batches'[Now + 1] = level
    BY <1>c, <2>1, Received
  <2>3. PeakCovers'
    BY <1>t, <2>1, <2>2, SamePeaks
  <2>4. Now + 1 \in 1..Now' /\ level <= level
    BY <1>t, <1>k, <2>2
  <2>5. \E b \in 1..Now' : batches'[b] = max_channel_power'
    BY <2>1, <2>2, <2>4
  <2>6. QED  BY <2>1, <2>3, <2>4, <2>5, <1>o
<1>3. ASSUME NEW level \in Levels, Continue(level) PROVE Loudest'
  BY <1>3, <1>j, <1>w DEF Continue
<1>4. ASSUME NEW level \in Levels, RollOver(level) PROVE Loudest'
  <2>1. /\ Receive(level) /\ OpenAndWrite(level) /\ disk' = Closed
        /\ SaveDatabase(max_channel_power') /\ state = "ALIVE"
    BY <1>4 DEF RollOver
  <2>2. /\ max_channel_power' \in Int /\ max_channel_power' > Threshold
        /\ max_channel_power <= max_channel_power' /\ level <= max_channel_power'
        /\ \E b \in 1..Now' : batches'[b] = max_channel_power'
    BY <1>4, <1>c, <1>j, <2>1, NewPeak DEF RollOver
  <2>3. /\ ~ended /\ Now' = Now + 1
        /\ \A b \in 1..Now : batches'[b] = batches[b]
    BY <1>c, <2>1, Received
  <2>4. Now <= Now' /\ Now' \in Nat
    BY <2>3, <1>t
  <2>5. PeakCovers'
    <3>1. state # "DEAD"
      BY <2>1
    <3>2. QED  BY <1>c, <2>1, <2>2, <2>3, <2>4, <3>1, SavedPeaks
  <2>6. QED  BY <2>1, <2>2, <2>5, <1>o
<1>5. ASSUME NEW level \in Levels, Return(level) PROVE Loudest'
  BY <1>5, <1>w DEF Return
<1>6. ASSUME NEW level \in Levels, HoldOn(level) PROVE Loudest'
  BY <1>6, <1>w DEF HoldOn
<1>7. ASSUME NEW level \in Levels, Die(level) PROVE Loudest'
  <2>1. /\ Receive(level) /\ disk' = Closed /\ state = "HOLD" /\ state' = "DEAD"
        /\ SaveDatabase(max_channel_power)
    BY <1>7 DEF Die
  <2>2. /\ ~ended /\ Now' = Now + 1
        /\ \A b \in 1..Now : batches'[b] = batches[b]
    BY <1>c, <2>1, Received
  <2>3. Now <= Now' /\ Now' \in Nat /\ max_channel_power <= max_channel_power
    BY <2>2, <1>t
  <2>4. \E b \in 1..Now' : batches'[b] = max_channel_power
    <3>1. PICK b \in 1..Now : batches[b] = max_channel_power
      BY <2>1 DEF Loudest
    <3>2. b \in 1..Now' /\ batches'[b] = batches[b]
      BY <2>2, <1>t
    <3>3. QED  BY <3>1, <3>2
  <2>5. PeakCovers'
    <3>1. state # "DEAD"
      BY <2>1
    <3>2. QED  BY <1>c, <1>t, <2>1, <2>2, <2>3, <2>4, <3>1, SavedPeaks
  <2>6. QED  BY <2>1, <2>5 DEF Loudest
<1>8. CASE Close
  <2>1. /\ ~ended /\ batches' = batches /\ Now' = Now
        /\ max_channel_power' = max_channel_power /\ state' = state
    BY <1>8 DEF Close, Now
  <2>2. CASE /\ outFile = "good" /\ disk' = Closed /\ content' = <<>>
             /\ SaveDatabase(max_channel_power)
    <3>1. state # "DEAD"
      BY <2>2, <1>c DEF Clock
    <3>2. \E b \in 1..Now' : batches'[b] = max_channel_power
      BY <2>1, <3>1 DEF Loudest
    <3>3. max_channel_power <= max_channel_power /\ Now <= Now' /\ Now' \in Nat
      BY <2>1, <1>t
    <3>4. \A b \in 1..Now : batches'[b] = batches[b]
      BY <2>1
    <3>5. PeakCovers'
      BY <1>c, <1>t, <2>1, <2>2, <3>1, <3>2, <3>3, <3>4, SavedPeaks
    <3>6. QED  BY <2>1, <2>2, <3>2, <3>5 DEF Loudest
  <2>3. CASE UNCHANGED <<disk, rows, content>>
    <3>1. PeakCovers'
      BY <2>1, <2>3 DEF Loudest, PeakCovers, Second
    <3>2. QED  BY <2>1, <2>3, <3>1 DEF Loudest
  <2>4. QED  BY <1>8, <2>2, <2>3 DEF Close
<1>9. CASE UNCHANGED vars
  BY <1>9 DEF vars, file, Loudest, PeakCovers, Now, Second
<1>10. QED
  BY <1>1, <1>2, <1>3, <1>4, <1>5, <1>6, <1>7, <1>8, <1>9
  DEF Next, OnIQDataReceived, Terminated

(* Contents, rows and peaks, in every state of the detector.               *)
THEOREM RowsHold == Spec => [](Entered /\ Loudest)
<1>1. Init => Faithful /\ Entered /\ Loudest
  <2> SUFFICES ASSUME Init PROVE Faithful /\ Entered /\ Loudest
    OBVIOUS
  <2>1. Len(rows) = 0 /\ Len(disk) = 0 /\ rows \in Seq(Row) /\ state = "DEAD"
    BY DEF Init
  <2>2. QED  BY <2>1 DEF Init, Faithful, Entered, Loudest, PeakCovers
<1>2. IInv /\ Faithful /\ Entered /\ Loudest /\ [Next]_vars
        => IInv' /\ Faithful' /\ Entered' /\ Loudest'
  BY NextIInv, NextFaithful, NextEntered, NextLoudest
<1>3. QED  BY InitIInv, <1>1, <1>2, PTL DEF Spec

(* Whatever way a file ends (roll-over, end of the signal, end of the job) *)
(* its insertion into the database is tried once, with its own times       *)
(* (lines 338-343, 364-369 and 403-408).                                   *)
THEOREM EnteredOnce == Spec => []SavedOnce
<1>1. Entered => SavedOnce
  <2> SUFFICES ASSUME Entered, NEW i \in 1..Len(disk), disk[i].whole
               PROVE  \E k \in 1..Len(rows) :
                        /\ RowOf(disk[i], rows[k])
                        /\ \A m \in 1..Len(rows) :
                             rows[m].start = rows[k].start => m = k
    BY DEF SavedOnce
  <2>1. PICK k \in 1..Len(rows) : RowOf(disk[i], rows[k])
    BY DEF Entered
  <2>2. ASSUME NEW m \in 1..Len(rows), rows[m].start = rows[k].start PROVE m = k
    <3>1. /\ m < k => rows[m].start < rows[k].start
          /\ k < m => rows[k].start < rows[m].start
      BY DEF Entered
    <3>2. rows[m] \in Row /\ rows[k] \in Row
      BY DEF Entered
    <3>3. rows[m].start \in Nat /\ rows[k].start \in Nat
      BY <3>2 DEF Row
    <3>4. QED  BY <3>1, <3>3, <2>2
  <2>3. QED  BY <2>1, <2>2
<1>2. QED  BY <1>1, RowsHold, PTL

(* The power level of a row is that of a received batch, and none of its   *)
(* file is louder (NpuWatchProcess.cpp:174).                               *)
THEOREM PeaksCover == Spec => []PeakCovers
<1>1. Loudest => PeakCovers
  BY DEF Loudest
<1>2. QED  BY <1>1, RowsHold, PTL
=============================================================================
