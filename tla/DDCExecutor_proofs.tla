------------------------ MODULE DDCExecutor_proofs -------------------------
(***************************************************************************)
(* For any sizes, any storage and any request: what the invariants of      *)
(* DDCExecutor rest on, and that no step of the reader, the worker or the  *)
(* stopper breaks it.  The step that matters is PutFrame: the frame it     *)
(* writes is the next one of the request because the open file, the place  *)
(* in it and what was collected add up (Place).  On a damaged storage what *)
(* remains is order: what travels lies before the place the reader has     *)
(* reached, which only moves on (Forward).  One lemma per action.          *)
(***************************************************************************)
EXTENDS DDCExecutor, SequenceTheorems, TLAPS

(* The worker has not started a reader yet.                                *)
Before == wpc \in {"init", "setup", "start"}

(* It has, and has not ended before its loop was over.                     *)
Started == wpc \in {"prepare", "outer", "exec", "wait", "tail", "process", "return",
                    "recheck", "close", "join", "finished"}

Unit == Int \X Int \X Int

(* The reader holds files open only between its first open and its exit,   *)
(* raises _ioDone last, and is joinable until somebody has joined it.      *)
Reading ==
  /\ rpc \in {"none", "open", "done"} => ~curOpen /\ ~nextOpen
  /\ Before => rpc = "none" /\ ~joinable
  /\ Started => rpc # "none"
  /\ ~joinable => rpc \in {"none", "done"}
  /\ ioDone => rpc = "done"
  /\ Over => ~joinable

(* An open file exists, and what is left of it is within it.               *)
Handles ==
  /\ storage \in [0..Files - 1 -> Seq(STRING)]
  /\ next_file_index \in Int /\ nth \in Nat
  /\ rpc # "none" /\ curOpen => Exists(file_index)
  /\ nextOpen => next_file_index \in Nat /\ Exists(next_file_index)
  /\ pos + frames_in_file_left <= FramesPerFile
  /\ rpc \in {"bulk", "put"} => curOpen /\ frames_in_file_left > 0
  /\ rpc = "put" => frames_to_collect > 0 /\ FrameAt(pos) \in {"iq", "short"}

(* What travels is units; a batch is in hand only while it is processed.   *)
Units ==
  /\ ring \in Seq(Unit) /\ batch \in Seq(Unit) /\ delivered \in Seq(Unit)
  /\ wpc \notin {"process", "threw"} => batch = <<>>
  /\ wpc = "process" => Len(batch) > 0

(* Nothing has travelled before the reader was started.                    *)
Dry == rpc = "none" => ring = <<>> /\ batch = <<>> /\ delivered = <<>>

(* The frames the reader has put into the ring.                            *)
Got == Wanted - frames_to_collect

(* From an intact recording what travels is whole frames, as many as were  *)
(* collected, and while more are wanted the reader stands on the next one, *)
(* with the file after the open one at hand.                               *)
Place ==
  Intact =>
    /\ rpc # "none" =>
         /\ Len(delivered) + Len(batch) + Len(ring) = Got * FrameUnits
         /\ Len(ring) % FrameUnits = 0
         /\ wpc = "process" => Len(batch) = FrameUnits
    /\ wpc = "start" \/ rpc = "open" => frames_to_collect = Wanted /\ file_index = 0
    /\ rpc \in {"loop", "bulk", "put", "swap"} /\ frames_to_collect > 0 =>
         /\ curOpen
         /\ FramesPerFile * file_index + pos = FirstOffset + Got
         /\ frames_in_file_left = Least(FramesPerFile - pos, frames_to_collect)
         /\ nextOpen => next_file_index = file_index + 1

(* A job nobody stops keeps running until its reader is through, which is  *)
(* when an intact recording has given all that was wanted; it leaves its   *)
(* loop when _ioDone is up and the ring is empty.                          *)
Unstopped ==
  spc = "ready" =>
    /\ jobRunning
    /\ wpc \in {"start", "prepare", "outer", "exec", "wait", "tail", "process", "return",
                "recheck"} => running
    /\ wpc \in {"recheck", "close", "join", "finished"} => ioDone /\ ring = <<>>
    /\ Intact /\ rpc \in {"exit", "done"}
         /\ wpc \notin {"failed", "dtorJoin", "destroyed", "threw"}
         => frames_to_collect = 0

IInv == /\ TypeOK /\ Reading /\ Handles /\ Units /\ Dry
        /\ Place /\ ExactStream /\ Unstopped
-----------------------------------------------------------------------------
(* Division with remainder.                                                *)
LEMMA DivMod ==
  ASSUME NEW a \in Int, NEW c \in Nat, c > 0
  PROVE  /\ a \div c \in Int
         /\ a % c \in 0..c - 1
         /\ a = c * (a \div c) + (a % c)
BY SMT

(* Quotient and remainder are determined by any such decomposition.        *)
LEMMA DivUnique ==
  ASSUME NEW a \in Int, NEW c \in Nat, c > 0,
         NEW q \in Int, NEW r \in 0..c - 1, a = c * q + r
  PROVE  a \div c = q /\ a % c = r
<1> DEFINE d == (a \div c) - q
<1>1. /\ a \div c \in Int /\ a % c \in 0..c - 1
      /\ c * d = r - (a % c) /\ d \in Int
  BY DivMod
<1>2. CASE d >= 1
  <2>1. c * d >= c
    BY <1>1, <1>2
  <2>2. QED  BY <1>1, <2>1
<1>3. CASE d <= -1
  <2>1. c * d <= -c
    BY <1>1, <1>3
  <2>2. QED  BY <1>1, <2>1
<1>4. QED  BY <1>1, <1>2, <1>3

(* Whole turns do not change the slot.                                     *)
LEMMA ModShift ==
  ASSUME NEW a \in Int, NEW c \in Nat, c > 0, NEW k \in Int
  PROVE  (a + c * k) % c = a % c
<1>1. /\ a \div c \in Int
      /\ a % c \in 0..c - 1
      /\ a = c * (a \div c) + (a % c)
  BY DivMod
<1>2. /\ a + c * k = c * ((a \div c) + k) + (a % c)
      /\ a + c * k \in Int
      /\ (a \div c) + k \in Int
  BY <1>1
<1>3. QED  BY <1>1, <1>2, DivUnique

(* A place within the request is in a file that an intact recording has.   *)
LEMMA Covered ==
  ASSUME Intact, NEW f \in Nat, NEW p \in 0..FramesPerFile - 1,
         FramesPerFile * f + p <= FirstOffset + Wanted - 1
  PROVE  Exists(f) /\ storage[f] = [q \in 1..FramesPerFile |-> "iq"]
<1> DEFINE last == FirstOffset + Wanted - 1
           d == last \div FramesPerFile
<1>1. /\ FramesPerFile \in Nat /\ FramesPerFile > 0
      /\ last \in Int
  BY DDCAssumption
<1>2. /\ d \in Int /\ last % FramesPerFile \in 0..FramesPerFile - 1
      /\ last = FramesPerFile * d + (last % FramesPerFile)
  BY <1>1, DivMod
<1>3. FramesPerFile * f < FramesPerFile * (d + 1)
  <2> HIDE DEF d, last
  <2>1. FramesPerFile * (d + 1) = FramesPerFile * d + FramesPerFile
    BY <1>1, <1>2
  <2>2. FramesPerFile * f <= last
    BY <1>1 DEF last
  <2>3. FramesPerFile * f \in Int /\ FramesPerFile * d \in Int
    BY <1>1, <1>2
  <2>4. QED  BY <2>1, <2>2, <2>3, <1>1, <1>2
<1>4. f <= d
  <2> HIDE DEF d, last
  <2>1. CASE f >= d + 1
    <3>1. FramesPerFile * f >= FramesPerFile * (d + 1)
      BY <2>1, <1>1, <1>2
    <3>2. QED  BY <3>1, <1>1, <1>2, <1>3
  <2>2. QED  BY <2>1, <1>2
<1>5. f \in 0..d
  BY <1>4, <1>2
<1>6. QED  BY <1>5 DEF Intact

(* The units of the frame after k frames of the request.                   *)
LEMMA ExpectedUnit ==
  ASSUME NEW k \in Nat, NEW u \in 1..FrameUnits, NEW f \in Nat,
         NEW p \in 0..FramesPerFile - 1, FramesPerFile * f + p = FirstOffset + k
  PROVE  Expected(k * FrameUnits + u) = <<f, p, u>>
<1> DEFINE n == k * FrameUnits + u - 1
<1>1. /\ FrameUnits \in Nat /\ FrameUnits > 0
      /\ FramesPerFile \in Nat /\ FramesPerFile > 0
      /\ FirstOffset \in Nat
  BY DDCAssumption
<1>2. n \in Int /\ u - 1 \in 0..FrameUnits - 1 /\ n = FrameUnits * k + (u - 1)
  BY <1>1
<1>3. n \div FrameUnits = k /\ n % FrameUnits = u - 1
  BY <1>1, <1>2, DivUnique
<1>4. (FirstOffset + k) \div FramesPerFile = f /\ (FirstOffset + k) % FramesPerFile = p
  BY <1>1, DivUnique
<1>5. (k * FrameUnits + u) - 1 = n
  BY <1>1
<1> HIDE DEF n
<1>6. QED  BY <1>3, <1>4, <1>5 DEF Expected

(* The body of a frame, and what is filled up with zeros.                  *)
LEMMA BodyUnits ==
  ASSUME NEW f \in Int, NEW p \in Int, NEW size \in Nat
  PROVE  /\ Body(f, p, size) \in Seq(Unit) /\ Len(Body(f, p, size)) = size
         /\ \A u \in 1..size : Body(f, p, size)[u] = <<f, p, u>>
BY DEF Body, Unit

LEMMA PaddedUnits ==
  ASSUME NEW b \in Seq(Unit), Len(b) <= FrameUnits
  PROVE  /\ Padded(b) \in Seq(Unit) /\ Len(Padded(b)) = FrameUnits
         /\ Len(b) = FrameUnits => Padded(b) = b
<1> DEFINE fill == [u \in 1..FrameUnits - Len(b) |-> Pad]
<1>1. FrameUnits - Len(b) \in Nat /\ Len(b) \in Nat /\ FrameUnits \in Nat
  BY DDCAssumption
<1>2. fill \in Seq(Unit) /\ Len(fill) = FrameUnits - Len(b)
  BY <1>1 DEF Unit, Pad
<1> HIDE DEF fill
<1>3. b \o fill \in Seq(Unit) /\ Len(b \o fill) = FrameUnits
  BY <1>1, <1>2, ConcatProperties
<1>4. ASSUME Len(b) = FrameUnits PROVE b \o fill = b
  <2>1. fill = <<>>
    BY <1>2, <1>4, <1>1, EmptySeq
  <2>2. QED  BY <2>1, ConcatEmptySeq
<1>5. QED  BY <1>3, <1>4 DEF Padded, fill

(* Taking n elements off a sequence loses none.                            *)
LEMMA TakeUnits ==
  ASSUME NEW s \in Seq(Unit), NEW n \in 0..Len(s)
  PROVE  /\ SubSeq(s, 1, n) \in Seq(Unit) /\ Len(SubSeq(s, 1, n)) = n
         /\ SubSeq(s, n + 1, Len(s)) \in Seq(Unit)
         /\ Len(SubSeq(s, n + 1, Len(s))) = Len(s) - n
         /\ SubSeq(s, 1, n) \o SubSeq(s, n + 1, Len(s)) = s
<1>1. /\ Len(s) \in Nat /\ n \in Int /\ 0 <= n /\ n <= Len(s)
      /\ \A i \in 1..Len(s) : s[i] \in Unit
  BY LenProperties, ElementOfSeq
<1>2. SubSeq(s, 1, n) \in Seq(Unit) /\ Len(SubSeq(s, 1, n)) = n
  BY <1>1, SubSeqProperties
<1>3. /\ SubSeq(s, n + 1, Len(s)) \in Seq(Unit)
      /\ Len(SubSeq(s, n + 1, Len(s))) = Len(s) - n
  BY <1>1, SubSeqProperties
<1>4. SubSeq(s, 1, n) \o SubSeq(s, n + 1, Len(s)) = SubSeq(s, 1, Len(s))
  <2>1. 1 \in 1..Len(s) + 1 /\ n \in 1 - 1..Len(s) /\ Len(s) \in n..Len(s)
    BY <1>1
  <2>2. QED  BY <2>1, ConcatAdjacentSubSeq
<1>5. SubSeq(s, 1, Len(s)) = s
  BY SubSeqFull
<1>6. QED  BY <1>2, <1>3, <1>4, <1>5

(* A frame more or less leaves a number of whole frames.                   *)
LEMMA WholeFrames ==
  ASSUME NEW n \in Int, n % FrameUnits = 0
  PROVE  (n + FrameUnits) % FrameUnits = 0 /\ (n - FrameUnits) % FrameUnits = 0
<1>1. FrameUnits \in Nat /\ FrameUnits > 0
  BY DDCAssumption
<1>2. n + FrameUnits = n + FrameUnits * 1 /\ n - FrameUnits = n + FrameUnits * (-1)
  BY <1>1
<1>3. QED  BY <1>1, <1>2, ModShift


(* Two sequences of units behind each other, element by element.           *)
LEMMA ConcatUnits ==
  ASSUME NEW s \in Seq(Unit), NEW t \in Seq(Unit)
  PROVE  /\ s \o t \in Seq(Unit) /\ Len(s \o t) = Len(s) + Len(t)
         /\ Len(s) \in Nat /\ Len(t) \in Nat
         /\ \A n \in 1..Len(s) : (s \o t)[n] = s[n]
         /\ \A n \in 1..Len(t) : (s \o t)[Len(s) + n] = t[n]
<1>1. Len(s) \in Nat /\ Len(t) \in Nat
  BY LenProperties
<1>2. /\ s \o t \in Seq(Unit) /\ Len(s \o t) = Len(s) + Len(t)
      /\ \A i \in 1..Len(s) + Len(t) :
           (s \o t)[i] = IF i <= Len(s) THEN s[i] ELSE t[i - Len(s)]
  BY ConcatProperties, Zenon
<1>3. ASSUME NEW n \in 1..Len(s) PROVE (s \o t)[n] = s[n]
  <2>1. n \in 1..Len(s) + Len(t) /\ n <= Len(s)
    BY <1>1
  <2>2. QED  BY <1>2, <2>1
<1>4. ASSUME NEW n \in 1..Len(t) PROVE (s \o t)[Len(s) + n] = t[n]
  <2>1. Len(s) + n \in 1..Len(s) + Len(t) /\ ~(Len(s) + n <= Len(s)) /\ (Len(s) + n) - Len(s) = n
    BY <1>1
  <2>2. QED  BY <1>2, <2>1
<1>5. QED  BY <1>1, <1>2, <1>3, <1>4

LEMMA Rejoin ==
  ASSUME NEW s \in Seq(Unit), NEW t \in Seq(Unit), NEW u \in Seq(Unit)
  PROVE  (s \o t) \o u = s \o (t \o u)
OBVIOUS
-----------------------------------------------------------------------------
(* Counting up stays in the natural numbers.                               *)
LEMMA Successor ==
  ASSUME NEW n \in Nat PROVE n + 1 \in Nat
OBVIOUS

(* The part of a recording the reader stands on while it collects.         *)
LEMMA OnFrame ==
  ASSUME IInv, Intact, rpc \in {"bulk", "put"}, frames_to_collect > 0
  PROVE  /\ pos \in 0..FramesPerFile - 1 /\ FrameAt(pos) = "iq"
         /\ FramesPerFile * file_index + pos = FirstOffset + Got
<1>1. /\ FramesPerFile \in Nat /\ FramesPerFile > 0 /\ Wanted \in Nat /\ FirstOffset \in Nat
      /\ file_index \in Nat /\ pos \in 0..FramesPerFile
      /\ frames_to_collect \in Int /\ frames_in_file_left \in Int
  BY DDCAssumption DEF IInv, TypeOK
<1>2. pos + frames_in_file_left <= FramesPerFile /\ frames_in_file_left > 0
  BY DEF IInv, Handles
<1>3. pos \in 0..FramesPerFile - 1
  BY <1>1, <1>2
<1>4. FramesPerFile * file_index + pos = FirstOffset + Got
  BY DEF IInv, Place
<1>5. FramesPerFile * file_index + pos <= FirstOffset + Wanted - 1
  BY <1>1, <1>4 DEF Got
<1>6. storage[file_index] = [q \in 1..FramesPerFile |-> "iq"]
  BY <1>1, <1>3, <1>5, Covered
<1>7. Len(storage[file_index]) = FramesPerFile
  BY <1>1, <1>6
<1>8. FrameAt(pos) = "iq"
  BY <1>1, <1>3, <1>6, <1>7 DEF FrameAt
<1>9. QED  BY <1>3, <1>4, <1>8

LEMMA ReadFrameHandles ==
  ASSUME IInv, ReadFrame PROVE TypeOK' /\ Handles' /\ Place'
<1>1. /\ FramesPerFile \in Nat /\ FramesPerFile > 0 /\ Wanted \in Nat
      /\ file_index \in Nat /\ pos \in 0..FramesPerFile /\ nth \in Nat
      /\ frames_to_collect \in 0..Wanted /\ frames_in_file_left \in 0..FramesPerFile
      /\ rpc = "bulk" /\ curOpen /\ frames_in_file_left > 0
      /\ pos + frames_in_file_left <= FramesPerFile
  BY DDCAssumption DEF IInv, TypeOK, Handles, ReadFrame
<1>2. /\ pos' \in 0..FramesPerFile /\ nth' \in Nat
      /\ frames_in_file_left' \in 0..FramesPerFile
      /\ pos' + frames_in_file_left' <= FramesPerFile
      /\ rpc' \in {"bulk", "put"} => frames_in_file_left' > 0
      /\ rpc' = "put" => UNCHANGED files /\ frames_to_collect > 0 /\ FrameAt(pos) \in {"iq", "short"}
      /\ rpc' \in {"bulk", "put", "swap"}
  <2>1. CASE UNCHANGED files /\ rpc' \in {"swap", "put"}
    <3>1. rpc' = "put" => frames_to_collect > 0 /\ FrameAt(pos) \in {"iq", "short"}
      BY DEF ReadFrame, NextFrame
    <3>2. QED  BY <1>1, <2>1, <3>1 DEF files
  <2>2. CASE NextFrame /\ UNCHANGED <<file_index, frames_to_collect>>
    BY <1>1, <2>2 DEF NextFrame
  <2>3. CASE frames_in_file_left' = 0 /\ rpc' = "swap" /\ UNCHANGED <<pos, nth>>
    BY <1>1, <2>3
  <2>4. QED  BY <2>1, <2>2, <2>3 DEF ReadFrame
<1>3. TypeOK'
  BY <1>2 DEF IInv, TypeOK, ReadFrame, files, flow, worker
<1>4. Handles'
  <2>1. UNCHANGED <<file_index, curOpen, nextOpen, next_file_index, storage>>
    BY DEF ReadFrame, files, fixed
  <2>2. rpc' = "put" => UNCHANGED <<frames_to_collect, pos>>
    BY <1>2 DEF files
  <2>3. (nextOpen => next_file_index \in Nat /\ Exists(next_file_index))'
    BY <2>1 DEF IInv, Handles, Exists
  <2>4. Exists(file_index)'
    BY <1>1, <2>1 DEF IInv, Handles, Exists
  <2>5. (rpc = "put" => frames_to_collect > 0 /\ FrameAt(pos) \in {"iq", "short"})'
    BY <1>2, <2>1, <2>2 DEF FrameAt
  <2>6. curOpen' /\ next_file_index' \in Int /\ storage' \in [0..Files - 1 -> Seq(STRING)]
    BY <1>1, <2>1 DEF IInv, Handles
  <2>7. QED  BY <1>2, <2>3, <2>4, <2>5, <2>6 DEF Handles
<1>5. Place'
  <2>1. SUFFICES ASSUME Intact PROVE Place'
    BY DEF Place, Intact, Exists, ReadFrame, fixed
  <2>2. ASSUME frames_to_collect > 0 PROVE FrameAt(pos) = "iq"
    BY <1>1, <2>1, <2>2, OnFrame
  <2>3. UNCHANGED files
    BY <2>2 DEF ReadFrame
  <2>4. QED
    BY <1>1, <1>2, <2>1, <2>3 DEF IInv, Place, ReadFrame, files, flow, worker, fixed, Intact, Exists, Got, Least
<1>6. QED  BY <1>3, <1>4, <1>5

LEMMA SwapFileHandles ==
  ASSUME IInv, SwapFile PROVE TypeOK' /\ Handles' /\ Place'
<1>1. /\ FramesPerFile \in Nat /\ FramesPerFile > 0 /\ Wanted \in Nat /\ FirstOffset \in Nat
      /\ Files \in Nat /\ file_index \in 0..Files /\ pos \in 0..FramesPerFile
      /\ frames_to_collect \in 0..Wanted /\ frames_in_file_left \in 0..FramesPerFile
      /\ rpc = "swap" /\ rpc' = "loop"
  BY DDCAssumption DEF IInv, TypeOK, SwapFile
<1>2. nextOpen => next_file_index \in Nat /\ next_file_index < Files /\ Exists(next_file_index)
  BY DEF IInv, Handles, Exists
<1>3. CASE frames_in_file_left > 0
  <2>1. UNCHANGED files
    BY <1>1, <1>3 DEF SwapFile
  <2>2. TypeOK'
    BY <1>1, <2>1 DEF IInv, TypeOK, SwapFile, files, flow, worker
  <2>3. Handles'
    BY <1>1, <2>1 DEF IInv, Handles, SwapFile, files, flow, worker, fixed, Exists
  <2>4. Place'
    BY <1>1, <2>1 DEF IInv, Place, SwapFile, files, flow, worker, fixed, Intact, Exists, Got
  <2>5. QED  BY <2>2, <2>3, <2>4
<1>4. CASE frames_in_file_left <= 0
  <2>1. file_index' \in 0..Files
    BY <1>1, <1>2, <1>4 DEF SwapFile, After, Least
  <2>2. /\ pos' \in 0..FramesPerFile /\ frames_in_file_left' \in 0..FramesPerFile
        /\ pos' + frames_in_file_left' <= FramesPerFile
    BY <1>1, <1>4 DEF SwapFile, Least
  <2>12. ~(frames_in_file_left > 0)
    BY <1>1, <1>4
  <2>9. curOpen' <=> (nextOpen \/ Exists(file_index'))
    BY <2>12, Zenon DEF SwapFile
  <2>10. curOpen' => pos' = 0 /\ frames_in_file_left' = Least(FramesPerFile, frames_to_collect)
    BY <2>12, Zenon DEF SwapFile
  <2>11. nextOpen => file_index' = next_file_index
    BY <2>12, Zenon DEF SwapFile
  <2>3. curOpen' => Exists(file_index')
    BY <1>2, <2>9, <2>11
  <2>4. /\ nextOpen' <=> Exists(file_index' + 1)
        /\ next_file_index' = file_index' + 1
        /\ UNCHANGED <<storage, frames_to_collect, nth>>
    BY <1>1, <1>4 DEF SwapFile, Preopen, fixed
  <2>5. TypeOK'
    BY <1>1, <2>1, <2>2, <2>4 DEF IInv, TypeOK, SwapFile, flow, worker
  <2>6. Handles'
    <3>1. (nextOpen => next_file_index \in Nat /\ Exists(next_file_index))'
      <4>1. storage' = storage
        BY DEF SwapFile, fixed
      <4>2. next_file_index' \in Nat
        <5>3. file_index' \in Nat
          BY <1>1, <2>1
        <5>1. file_index' + 1 \in Nat
          BY <5>3, Successor
        <5>2. QED  BY <2>4, <5>1, Zenon
      <4>3. QED  BY <2>4, <4>1, <4>2 DEF Exists
    <3>2. (curOpen => Exists(file_index))'
      BY <2>3, <2>4 DEF Exists
    <3>3. next_file_index' \in Int /\ nth' \in Nat /\ storage' \in [0..Files - 1 -> Seq(STRING)]
      BY <1>1, <2>1, <2>4 DEF IInv, Handles
    <3>4. QED  BY <1>1, <2>2, <3>1, <3>2, <3>3 DEF Handles
  <2>7. Place'
    <3>1. SUFFICES ASSUME Intact PROVE Place'
      BY <2>4 DEF Place, Intact, Exists
    <3>2. ASSUME frames_to_collect > 0
          PROVE  /\ curOpen' /\ FramesPerFile * file_index' + pos' = FirstOffset + Got
                 /\ frames_in_file_left' = Least(FramesPerFile - pos', frames_to_collect)
      <4>1. /\ FramesPerFile * file_index + pos = FirstOffset + Got
            /\ frames_in_file_left = Least(FramesPerFile - pos, frames_to_collect)
            /\ nextOpen => next_file_index = file_index + 1
        BY <1>1, <3>1, <3>2 DEF IInv, Place
      <4>2. pos = FramesPerFile
        BY <1>1, <1>4, <3>2, <4>1 DEF Least
      <4>3. FramesPerFile * (file_index + 1) = FirstOffset + Got
        BY <1>1, <4>1, <4>2
      <4>4. FramesPerFile * (file_index + 1) + 0 <= FirstOffset + Wanted - 1
        BY <1>1, <3>2, <4>3 DEF Got
      <4>5. file_index + 1 \in Nat /\ 0 \in 0..FramesPerFile - 1
        BY <1>1
      <4>6. Exists(file_index + 1)
        BY <3>1, <4>4, <4>5, Covered
      <4>7. file_index' = file_index + 1
        BY <1>1, <1>4, <4>1, <4>6 DEF SwapFile, After, Least, Exists
      <4>8. curOpen'
        BY <2>9, <4>6, <4>7
      <4>9. pos' = 0 /\ frames_in_file_left' = Least(FramesPerFile, frames_to_collect)
        BY <2>10, <4>8
      <4>10. FramesPerFile * file_index' + pos' = FirstOffset + Got
        BY <1>1, <4>3, <4>7, <4>9
      <4>11. FramesPerFile - pos' = FramesPerFile
        BY <1>1, <4>9
      <4>12. QED  BY <4>8, <4>9, <4>10, <4>11
    <3>3. QED
      <4>1. UNCHANGED <<delivered, batch, ring, wpc, frames_to_collect>> /\ Got' = Got
        BY <2>4 DEF SwapFile, flow, worker, Got
      <4>2. nextOpen' => next_file_index' = file_index' + 1
        BY <2>4
      <4>3. (wpc = "start")' => frames_to_collect' = Wanted /\ file_index' = 0
        BY <1>1, <4>1 DEF IInv, Reading, Before
      <4>4. QED
        BY <1>1, <2>4, <3>1, <3>2, <4>1, <4>2, <4>3 DEF IInv, Place, Intact, Exists
  <2>8. QED  BY <2>5, <2>6, <2>7
<1>5. QED  BY <1>1, <1>3, <1>4

LEMMA OpenFirstHandles ==
  ASSUME IInv, OpenFirst PROVE TypeOK' /\ Handles' /\ Place' /\ Unstopped'
<1>1. /\ FramesPerFile \in Nat /\ FramesPerFile > 0 /\ Wanted \in Nat
      /\ FirstOffset \in 0..FramesPerFile - 1
      /\ Files \in Nat /\ file_index \in 0..Files /\ pos \in 0..FramesPerFile
      /\ frames_to_collect \in 0..Wanted /\ frames_in_file_left \in 0..FramesPerFile
      /\ rpc = "open"
  BY DDCAssumption DEF IInv, TypeOK, OpenFirst
<1>2. ASSUME Intact PROVE frames_to_collect = Wanted /\ file_index = 0
  BY <1>1, <1>2 DEF IInv, Place
<1>3. CASE ~Exists(file_index)
  <2>1. UNCHANGED files /\ rpc' = "done" /\ ioDone' = TRUE
    BY <1>3 DEF OpenFirst
  <2>2. TypeOK'
    BY <1>1, <2>1 DEF IInv, TypeOK, OpenFirst, files, worker
  <2>3. Handles'
    BY <1>1, <1>3, <2>1 DEF IInv, Handles, OpenFirst, Reading, files, fixed, worker, Exists
  <2>4. Place'
    BY <1>1, <2>1 DEF IInv, Place, OpenFirst, files, fixed, worker, Intact, Exists, Got
  <2>5. ASSUME Intact PROVE frames_to_collect = 0
    <3>1. CASE Wanted > 0
      <4>1. FramesPerFile * 0 + FirstOffset <= FirstOffset + Wanted - 1
        BY <1>1, <3>1
      <4>2. Exists(0)
        BY <1>1, <2>5, <4>1, Covered
      <4>3. QED  BY <1>2, <1>3, <2>5, <4>2
    <3>2. QED  BY <1>1, <3>1
  <2>6. Unstopped'
    BY <1>1, <2>1, <2>5 DEF IInv, Unstopped, OpenFirst, files, fixed, worker, Intact, Exists
  <2>7. QED  BY <2>2, <2>3, <2>4, <2>6
<1>4. CASE Exists(file_index)
  <2>1. /\ curOpen' = TRUE /\ pos' = FirstOffset /\ rpc' = "loop"
        /\ frames_in_file_left' = Least(FramesPerFile - FirstOffset, frames_to_collect)
        /\ nextOpen' <=> Exists(file_index + 1)
        /\ next_file_index' = file_index + 1
        /\ UNCHANGED <<ioDone, file_index, frames_to_collect, nth>>
    BY <1>4 DEF OpenFirst, Preopen
  <2>2. /\ pos' \in 0..FramesPerFile /\ frames_in_file_left' \in 0..FramesPerFile
        /\ pos' + frames_in_file_left' <= FramesPerFile
    BY <1>1, <2>1 DEF Least
  <2>3. TypeOK'
    BY <1>1, <2>1, <2>2 DEF IInv, TypeOK, OpenFirst, worker
  <2>4. Handles'
    <3>1. UNCHANGED storage /\ file_index \in Nat
      BY <1>1 DEF OpenFirst, fixed
    <3>2. (nextOpen => next_file_index \in Nat /\ Exists(next_file_index))'
      BY <1>1, <2>1, <3>1 DEF Exists
    <3>3. Exists(file_index)'
      BY <1>4, <2>1, <3>1 DEF Exists
    <3>4. QED  BY <1>1, <2>1, <2>2, <3>1, <3>2, <3>3 DEF IInv, Handles
  <2>5. Place'
    <3>1. ASSUME Intact
          PROVE  FramesPerFile * file_index + FirstOffset = FirstOffset + Got
      BY <1>1, <1>2, <3>1 DEF Got
    <3>2. QED
      BY <1>1, <1>2, <2>1, <3>1 DEF IInv, Place, OpenFirst, fixed, worker, Intact, Exists, Got
  <2>6. Unstopped'
    BY <1>1, <2>1 DEF IInv, Unstopped, OpenFirst, fixed, worker, Intact, Exists
  <2>7. QED  BY <2>3, <2>4, <2>5, <2>6
<1>5. QED  BY <1>3, <1>4

(* The frame put into the ring is the next one of the request.             *)
LEMMA PutFrameUnits ==
  ASSUME IInv, PutFrame PROVE TypeOK' /\ Units' /\ Place' /\ ExactStream'
<1>1. /\ FramesPerFile \in Nat /\ FramesPerFile > 0 /\ Wanted \in Nat
      /\ FrameUnits \in Nat /\ FrameUnits > 0 /\ RingCap \in Nat /\ RingCap > FrameUnits
      /\ file_index \in Nat /\ pos \in 0..FramesPerFile /\ nth \in Nat
      /\ frames_to_collect \in 0..Wanted /\ frames_in_file_left \in 0..FramesPerFile
      /\ rpc = "put" /\ curOpen /\ frames_in_file_left > 0 /\ frames_to_collect > 0
      /\ pos + frames_in_file_left <= FramesPerFile
      /\ Len(ring) <= RingCap - 1
  BY DDCAssumption DEF IInv, TypeOK, Handles, PutFrame
<1>2. ring \in Seq(Unit) /\ batch \in Seq(Unit) /\ delivered \in Seq(Unit)
  BY DEF IInv, Units
<1>3. CASE running
  <2> DEFINE size == SizeOf(FrameAt(pos))
             body == Body(file_index, pos, size)
             stream == delivered \o batch \o ring
  <2>1. size \in Nat /\ size > 0 /\ size <= FrameUnits
    BY <1>1 DEF SizeOf, ShortUnits
  <2>2. /\ body \in Seq(Unit) /\ Len(body) = size
        /\ \A u \in 1..size : body[u] = <<file_index, pos, u>>
    <3>1. file_index \in Int /\ pos \in Int
      BY <1>1
    <3> HIDE DEF size
    <3>2. QED  BY <2>1, <3>1, BodyUnits
  <2>3. /\ ring' = ring \o body /\ batch' = batch /\ Len(body) <= RingCap - 1 - Len(ring)
        /\ UNCHANGED <<delivered, wpc, storage>> /\ running' = running
        /\ frames_to_collect' = frames_to_collect - 1
        /\ file_index' = file_index /\ curOpen' = curOpen
        /\ nextOpen' = nextOpen /\ next_file_index' = next_file_index
        /\ pos' = pos + 1 /\ frames_in_file_left' = frames_in_file_left - 1
        /\ rpc' \in {"swap", "bulk"}
    BY <1>3 DEF PutFrame, Ring!Put, Ring!Free, NextFrame, fixed
  <2> HIDE DEF body, size
  <2>4. ring' \in Seq(Unit) /\ Len(ring') = Len(ring) + size
    BY <1>2, <2>2, <2>3, ConcatProperties
  <2>5. TypeOK'
    <3>1. Len(ring') <= RingCap - 1
      <4>1. Len(ring) \in Nat
        BY <1>2, LenProperties
      <4>2. RingCap \in Nat
        BY <1>1
      <4>3. size <= RingCap - 1 - Len(ring)
        BY <2>2, <2>3
      <4>4. Len(ring') = Len(ring) + size /\ size \in Nat
        BY <2>1, <2>4
      <4> HIDE DEF stream
      <4>5. QED  BY <4>1, <4>2, <4>3, <4>4
    <3>2. /\ pos' \in 0..FramesPerFile /\ frames_in_file_left' \in 0..FramesPerFile
          /\ frames_to_collect' \in 0..Wanted
      BY <1>1, <2>3
    <3>3. QED
      BY <2>3, <3>1, <3>2 DEF IInv, TypeOK, PutFrame
  <2>6. Units'
    BY <1>2, <2>3, <2>4 DEF IInv, Units
  <2>7. ASSUME Intact
        PROVE  /\ size = FrameUnits
               /\ FramesPerFile * file_index + pos = FirstOffset + Got
               /\ pos \in 0..FramesPerFile - 1
               /\ Len(delivered) + Len(batch) + Len(ring) = Got * FrameUnits
               /\ Len(ring) % FrameUnits = 0
               /\ frames_in_file_left = Least(FramesPerFile - pos, frames_to_collect)
               /\ nextOpen => next_file_index = file_index + 1
    <3>1. pos \in 0..FramesPerFile - 1 /\ FrameAt(pos) = "iq"
          /\ FramesPerFile * file_index + pos = FirstOffset + Got
      BY <1>1, <2>7, OnFrame
    <3>2. QED  BY <1>1, <2>7, <3>1 DEF IInv, Place, size, SizeOf
  <2>8. /\ Got \in Nat /\ Got + 1 <= Wanted /\ Got' = Got + 1
        /\ Got' * FrameUnits = Got * FrameUnits + FrameUnits
        /\ Got' * FrameUnits <= Wanted * FrameUnits
    <3>1. Got \in Nat /\ Got + 1 <= Wanted /\ Got' = Got + 1
      BY <1>1, <2>3 DEF Got
    <3>2. (Got + 1) * FrameUnits = Got * FrameUnits + FrameUnits
      BY <1>1, <3>1
    <3>3. (Got + 1) * FrameUnits <= Wanted * FrameUnits
      BY <1>1, <3>1
    <3>4. QED  BY <3>1, <3>2, <3>3
  <2>9. Place'
    <3>1. SUFFICES ASSUME Intact PROVE Place'
      BY <2>3 DEF Place, Intact, Exists
    <3>2. (Len(delivered) + Len(batch) + Len(ring) = Got * FrameUnits)'
      <4>1. Len(ring) \in Nat /\ Len(batch) \in Nat /\ Len(delivered) \in Nat
        BY <1>2, LenProperties
      <4>2. Len(delivered') = Len(delivered) /\ Len(batch') = Len(batch)
        BY <2>3
      <4>3. Got * FrameUnits \in Int
        BY <1>1, <2>8
      <4>4. Len(ring') = Len(ring) + FrameUnits
        BY <2>4, <2>7, <3>1
      <4>5. Len(delivered') + Len(batch') + Len(ring')
              = Len(delivered) + Len(batch) + (Len(ring) + FrameUnits)
        BY <4>2, <4>4, Zenon
      <4>6. Len(delivered) + Len(batch) + (Len(ring) + FrameUnits)
              = (Len(delivered) + Len(batch) + Len(ring)) + FrameUnits
        BY <1>1, <4>1
      <4>7. QED  BY <2>7, <2>8, <3>1, <4>5, <4>6, Zenon
    <3>3. Len(ring') % FrameUnits = 0
      <4>1. Len(ring) \in Int
        BY <1>2, LenProperties
      <4>2. QED  BY <2>4, <2>7, <3>1, <4>1, WholeFrames
    <3>4. FramesPerFile * file_index' + pos' = FirstOffset + Got'
      BY <1>1, <2>3, <2>7, <2>8, <3>1, DDCAssumption
    <3>5. frames_in_file_left' = Least(FramesPerFile - pos', frames_to_collect')
      BY <1>1, <2>3, <2>7, <3>1 DEF Least
    <3>6. (wpc = "process")' => Len(batch') = FrameUnits
      BY <1>1, <2>3, <3>1 DEF IInv, Place
    <3>7. wpc' # "start"
      BY <1>1, <2>3 DEF IInv, Reading, Before
    <3>8. QED
      BY <1>1, <2>3, <2>7, <3>1, <3>2, <3>3, <3>4, <3>5, <3>6, <3>7 DEF Place
  <2>10. ExactStream'
    <3>1. SUFFICES ASSUME Intact
                   PROVE  LET s == (delivered \o batch \o ring)'
                          IN  /\ Len(s) <= Wanted * FrameUnits
                              /\ \A n \in 1..Len(s) : s[n] = Expected(n)
      BY <2>3 DEF ExactStream, Intact, Exists
    <3>2. delivered \o batch \in Seq(Unit) /\ stream \in Seq(Unit)
          /\ Len(stream) = Len(delivered) + Len(batch) + Len(ring)
      BY <1>2, ConcatProperties
    <3>3. (delivered \o batch \o ring)' = stream \o body
      <4>1. (delivered \o batch) \o (ring \o body) = stream \o body
        <5>1. /\ ring \in Seq(Unit) /\ body \in Seq(Unit)
              /\ delivered \o batch \in Seq(Unit)
          BY <1>2, <2>2, <3>2
        <5>2. QED  BY <5>1, Rejoin, Zenon
      <4>2. ring' = ring \o body /\ delivered' = delivered /\ batch' = batch
        BY <2>3
      <4>3. QED  BY <4>1, <4>2, Zenon
    <3>4. /\ \A n \in 1..Len(stream) : stream[n] = Expected(n)
          /\ Len(stream) = Got * FrameUnits
      BY <2>7, <3>1, <3>2 DEF IInv, ExactStream
    <3> HIDE DEF stream, Got
    <3>5. Len(stream \o body) = Got' * FrameUnits
      <4>1. Len(stream \o body) = Len(stream) + Len(body)
        BY <2>2, <3>2, ConcatUnits
      <4>2. QED  BY <2>2, <2>7, <2>8, <3>1, <3>4, <4>1, Zenon
    <3>6. ASSUME NEW n \in 1..Len(stream \o body)
          PROVE  (stream \o body)[n] = Expected(n)
      <4>1. /\ Len(stream \o body) = Len(stream) + FrameUnits
            /\ Len(stream) \in Nat /\ Len(body) = FrameUnits
            /\ \A m \in 1..Len(stream) : (stream \o body)[m] = stream[m]
            /\ \A m \in 1..FrameUnits : (stream \o body)[Len(stream) + m] = body[m]
        <5>1. Len(body) = FrameUnits
          BY <2>2, <2>7, <3>1, Zenon
        <5>2. /\ Len(stream \o body) = Len(stream) + Len(body)
              /\ Len(stream) \in Nat
              /\ \A m \in 1..Len(stream) : (stream \o body)[m] = stream[m]
              /\ \A m \in 1..Len(body) : (stream \o body)[Len(stream) + m] = body[m]
          BY <2>2, <3>2, ConcatUnits, Zenon
        <5>3. QED  BY <5>1, <5>2, Zenon
      <4>2. CASE n \in 1..Len(stream)
        BY <3>4, <4>1, <4>2
      <4>3. CASE n \notin 1..Len(stream)
        <5>1. PICK u \in 1..FrameUnits : n = Len(stream) + u
          <6>1. n - Len(stream) \in 1..FrameUnits /\ n = Len(stream) + (n - Len(stream))
            BY <1>1, <4>1, <4>3
          <6>2. QED  BY <6>1
        <5>2. (stream \o body)[n] = body[u]
          BY <4>1, <5>1
        <5>3. body[u] = <<file_index, pos, u>>
          BY <2>2, <2>7, <3>1, <5>1
        <5>4. Expected(Got * FrameUnits + u) = <<file_index, pos, u>>
          <6>1. /\ Got \in Nat /\ file_index \in Nat /\ pos \in 0..FramesPerFile - 1
                /\ FramesPerFile * file_index + pos = FirstOffset + Got
            BY <1>1, <2>7, <2>8, <3>1, Zenon
          <6>2. QED  BY <5>1, <6>1, ExpectedUnit, Zenon
        <5>5. n = Got * FrameUnits + u
          BY <3>4, <5>1
        <5>6. QED  BY <5>2, <5>3, <5>4, <5>5, Zenon
      <4>4. QED  BY <4>2, <4>3
    <3>7. QED  BY <2>8, <3>3, <3>5, <3>6
  <2>11. QED  BY <2>5, <2>6, <2>9, <2>10
<1>4. CASE ~running
  <2>1. /\ UNCHANGED <<ring, batch, delivered, storage, wpc, running, ioDone, joinable, spc>>
        /\ UNCHANGED <<file_index, curOpen, pos, nextOpen, next_file_index,
                       frames_in_file_left, frames_to_collect, nth>>
        /\ rpc' = "swap"
    BY <1>4 DEF PutFrame, files, fixed
  <2>2. TypeOK'
    BY <2>1 DEF IInv, TypeOK
  <2>3. Units'
    BY <2>1 DEF IInv, Units
  <2>4. Place'
    BY <1>1, <2>1 DEF IInv, Place, Intact, Exists, Got
  <2>5. ExactStream'
    BY <2>1 DEF IInv, ExactStream, Intact, Exists
  <2>6. QED  BY <2>2, <2>3, <2>4, <2>5
<1>5. QED  BY <1>3, <1>4

(* What a read takes off the ring stays in the stream.                     *)
LEMMA TakenUnits ==
  ASSUME IInv, NEW n \in 0..Len(ring), Ring!Take(n), batch = <<>>,
         UNCHANGED <<delivered, storage>>
  PROVE  /\ ring' \in Seq(Unit) /\ batch' \in Seq(Unit)
         /\ Len(batch') = n /\ Len(ring') = Len(ring) - n
         /\ ExactStream'
<1>1. ring \in Seq(Unit) /\ delivered \in Seq(Unit)
  BY DEF IInv, Units
<1>2. batch' = SubSeq(ring, 1, n) /\ ring' = SubSeq(ring, n + 1, Len(ring))
  BY DEF Ring!Take
<1>3. /\ batch' \in Seq(Unit) /\ Len(batch') = n
      /\ ring' \in Seq(Unit) /\ Len(ring') = Len(ring) - n /\ batch' \o ring' = ring
  BY <1>1, <1>2, TakeUnits
<1>4. (delivered \o batch \o ring)' = delivered \o batch \o ring
  <2>1. delivered \o batch = delivered
    BY <1>1, ConcatEmptySeq
  <2>2. (delivered \o batch') \o ring' = delivered \o (batch' \o ring')
    BY <1>1, <1>3, Rejoin, Zenon
  <2>3. QED  BY <1>3, <2>1, <2>2
<1>5. ExactStream'
  BY <1>4 DEF IInv, ExactStream, Intact, Exists
<1>6. QED  BY <1>3, <1>5

LEMMA ReadBatchUnits ==
  ASSUME IInv, ReadBatch PROVE Units' /\ Place' /\ ExactStream'
<1>1. FrameUnits \in Nat /\ FrameUnits > 0 /\ Len(ring) \in Nat
      /\ batch = <<>> /\ rpc # "none" /\ wpc = "wait"
  BY DDCAssumption, LenProperties DEF IInv, Units, ReadBatch, Reading, Started
<1>2. UNCHANGED <<delivered, storage, rpc, file_index, curOpen, pos, nextOpen, next_file_index,
                  frames_in_file_left, frames_to_collect, nth>>
  BY DEF ReadBatch, files, fixed
<1>3. CASE Len(ring) >= FrameUnits
  <2>1. Ring!Take(FrameUnits) /\ wpc' = "process" /\ FrameUnits \in 0..Len(ring)
    BY <1>1, <1>3 DEF ReadBatch
  <2>2. /\ ring' \in Seq(Unit) /\ batch' \in Seq(Unit) /\ ExactStream'
        /\ Len(batch') = FrameUnits /\ Len(ring') = Len(ring) - FrameUnits
    BY <1>1, <1>2, <2>1, TakenUnits
  <2>3. Units'
    BY <1>1, <1>2, <2>1, <2>2 DEF IInv, Units
  <2>4. Place'
    <3>1. SUFFICES ASSUME Intact PROVE Place'
      BY <1>2 DEF Place, Intact, Exists
    <3>2. /\ Len(delivered) + Len(batch) + Len(ring) = Got * FrameUnits
          /\ Len(ring) % FrameUnits = 0
      BY <1>1, <3>1 DEF IInv, Place
    <3>3. Len(ring') % FrameUnits = 0
      BY <1>1, <2>2, <3>2, WholeFrames
    <3>4. Len(delivered') + Len(batch') + Len(ring') = Len(delivered) + Len(batch) + Len(ring)
      <4>1. Len(batch) = 0 /\ Len(delivered) \in Nat
        BY <1>1, LenProperties DEF IInv, Units
      <4>2. Len(delivered') = Len(delivered)
        BY <1>2
      <4>3. QED  BY <1>1, <2>2, <4>1, <4>2
    <3>5. QED
      BY <1>1, <1>2, <2>1, <2>2, <3>1, <3>2, <3>3, <3>4 DEF IInv, Place, Got
  <2>5. QED  BY <2>2, <2>3, <2>4
<1>4. CASE Len(ring) < FrameUnits
  <2>1. UNCHANGED <<ring, batch>> /\ wpc' = "tail"
    BY <1>1, <1>4 DEF ReadBatch
  <2>2. QED
    BY <1>1, <1>2, <2>1 DEF IInv, Units, Place, ExactStream, Intact, Exists, Got
<1>5. QED  BY <1>1, <1>3, <1>4

LEMMA ReadTailUnits ==
  ASSUME IInv, ReadTail PROVE Units' /\ Place' /\ ExactStream'
<1>1. FrameUnits \in Nat /\ FrameUnits > 0 /\ Len(ring) \in Nat
      /\ batch = <<>> /\ rpc # "none" /\ wpc = "tail"
  BY DDCAssumption, LenProperties DEF IInv, Units, ReadTail, Reading, Started
<1>2. UNCHANGED <<delivered, storage, rpc, file_index, curOpen, pos, nextOpen, next_file_index,
                  frames_in_file_left, frames_to_collect, nth>>
  BY DEF ReadTail, files, fixed
<1>3. CASE Len(ring) \in 1..FrameUnits - 1 /\ Ring!Take(Len(ring)) /\ wpc' = "process"
  <2>1. Len(ring) \in 0..Len(ring)
    BY <1>1
  <2>2. /\ ring' \in Seq(Unit) /\ batch' \in Seq(Unit) /\ ExactStream'
        /\ Len(batch') = Len(ring)
    BY <1>1, <1>2, <1>3, <2>1, TakenUnits
  <2>3. Units'
    BY <1>1, <1>2, <1>3, <2>2 DEF IInv, Units
  <2>4. Len(ring) % FrameUnits # 0
    <3>1. Len(ring) = FrameUnits * 0 + Len(ring) /\ Len(ring) \in 0..FrameUnits - 1
      BY <1>1, <1>3
    <3>2. Len(ring) % FrameUnits = Len(ring)
      BY <1>1, <3>1, DivUnique
    <3>3. QED  BY <1>1, <1>3, <3>2
  <2>5. ~Intact
    BY <1>1, <2>4 DEF IInv, Place
  <2>6. QED  BY <1>2, <2>2, <2>3, <2>5 DEF Place, Intact, Exists
<1>4. CASE UNCHANGED <<ring, batch>> /\ wpc' \in {"exec", "return"}
  BY <1>1, <1>2, <1>4 DEF IInv, Units, Place, ExactStream, Intact, Exists, Got
<1>5. QED  BY <1>3, <1>4 DEF ReadTail

(* A batch of an intact recording is a whole frame, so nothing is filled.  *)
LEMMA ProcessUnits ==
  ASSUME IInv, Process, defect # "narrow"
  PROVE  TypeOK' /\ Units' /\ Dry' /\ Place' /\ ExactStream'
<1>1. FrameUnits \in Nat /\ FrameUnits > 0 /\ rpc # "none" /\ wpc = "process"
      /\ ring \in Seq(Unit) /\ batch \in Seq(Unit) /\ delivered \in Seq(Unit)
      /\ Len(batch) <= FrameUnits
  BY DDCAssumption DEF IInv, TypeOK, Units, Process, Reading, Started
<1>2. /\ delivered' = delivered \o Padded(batch) /\ batch' = <<>> /\ wpc' = "exec"
      /\ UNCHANGED <<ring, storage, rpc, file_index, curOpen, pos, nextOpen, next_file_index,
                     frames_in_file_left, frames_to_collect, nth, running, ioDone,
                     joinable, spc>>
  BY DEF Process, files, fixed, flow
<1>3. /\ Padded(batch) \in Seq(Unit) /\ Len(Padded(batch)) = FrameUnits
      /\ Len(batch) = FrameUnits => Padded(batch) = batch
  BY <1>1, PaddedUnits
<1>4. delivered' \in Seq(Unit) /\ Len(delivered') = Len(delivered) + FrameUnits
      /\ Len(delivered) \in Nat /\ Len(ring) \in Nat
  BY <1>1, <1>2, <1>3, ConcatProperties, LenProperties
<1>5. batch' \in Seq(Unit) /\ Len(batch') = 0
  BY <1>2
<1>6. TypeOK'
  <2>1. Len(delivered') % FrameUnits = 0
    BY <1>4, WholeFrames DEF IInv, TypeOK
  <2>2. Len(batch') <= FrameUnits
    BY <1>1, <1>5
  <2>3. QED  BY <1>2, <2>1, <2>2 DEF IInv, TypeOK
<1>7. Units'
  BY <1>1, <1>2, <1>4, <1>5 DEF Units
<1>8. Dry'
  BY <1>1, <1>2 DEF Dry
<1>9. ASSUME Intact PROVE Len(batch) = FrameUnits
  BY <1>1, <1>9 DEF IInv, Place
<1>10. Place'
  <2>1. SUFFICES ASSUME Intact PROVE Place'
    BY <1>2 DEF Place, Intact, Exists
  <2>2. Len(delivered') + Len(batch') + Len(ring') = Len(delivered) + Len(batch) + Len(ring)
    <3>1. Len(batch) = FrameUnits /\ Len(ring') = Len(ring)
      BY <1>2, <1>9, <2>1
    <3>2. QED  BY <1>1, <1>4, <1>5, <3>1
  <2>3. QED  BY <1>1, <1>2, <2>1, <2>2 DEF IInv, Place, Got
<1>11. ExactStream'
  <2>1. SUFFICES ASSUME Intact PROVE ExactStream'
    BY <1>2 DEF ExactStream, Intact, Exists
  <2>2. delivered' = delivered \o batch
    BY <1>2, <1>3, <1>9, <2>1
  <2>3. delivered' \o batch' = delivered'
    BY <1>2, <1>4, ConcatEmptySeq
  <2>4. (delivered \o batch \o ring)' = delivered \o batch \o ring
    BY <1>2, <2>2, <2>3
  <2>5. QED  BY <1>2, <2>1, <2>4 DEF IInv, ExactStream, Intact, Exists
<1>12. QED  BY <1>6, <1>7, <1>8, <1>10, <1>11
-----------------------------------------------------------------------------
LEMMA OpenFirstIInv == ASSUME IInv, OpenFirst PROVE IInv'
<1> USE DEF OpenFirst, Least, Exists, Preopen, files, worker, fixed, IInv
<1>1. TypeOK' /\ Handles' /\ Place' /\ Unstopped'
  BY OpenFirstHandles
<1>2. Reading' /\ Dry'
  BY DEF Reading, Before, Started, Over, Dry
<1>3. Units' /\ ExactStream'
  BY DEF Units, Unit, ExactStream, Intact, Expected
<1>4. QED  BY <1>1, <1>2, <1>3

(* Nobody stopped it and there is more to collect, or it is through.       *)
LEMMA ReaderLoopIInv == ASSUME IInv, ReaderLoop PROVE IInv'
<1> USE DEF ReaderLoop, flow, worker, fixed, IInv
<1>1. TypeOK'
  BY DEF TypeOK
<1>2. Reading' /\ Dry'
  BY DEF Reading, Before, Started, Over, Dry
<1>3. Handles' /\ Units' /\ ExactStream'
  BY DEF Handles, Exists, FrameAt, Units, Unit, ExactStream, Intact,
     Expected
<1>4. Place'
  BY DEF Place, Intact, Got, Least, Exists
<1>5. Unstopped'
  BY DDCAssumption DEF Unstopped, Intact, Exists, TypeOK, Reading, Before,
     Started, Over
<1>6. QED  BY <1>1, <1>2, <1>3, <1>4, <1>5

LEMMA ReadFrameIInv == ASSUME IInv, ReadFrame PROVE IInv'
<1> USE DEF ReadFrame, FrameAt, NextFrame, flow, files, worker, fixed, IInv
<1>1. TypeOK' /\ Handles' /\ Place'
  BY ReadFrameHandles
<1>2. Reading' /\ Dry'
  BY DEF Reading, Before, Started, Over, Dry
<1>3. Units' /\ ExactStream'
  BY DEF Units, Unit, ExactStream, Intact, Expected, Exists
<1>4. Unstopped'
  BY DEF Unstopped, Intact, Exists
<1>5. QED  BY <1>1, <1>2, <1>3, <1>4

(* The frame in hand leaves its file open, and one frame shorter.          *)
LEMMA PutFrameHandles == ASSUME IInv, PutFrame PROVE Handles'
<1>1. /\ rpc = "put" /\ Handles /\ pos \in Int /\ frames_in_file_left \in Int
      /\ nth \in Nat /\ FramesPerFile \in Int
  BY DDCAssumption DEF IInv, TypeOK, Handles, PutFrame
<1>2. UNCHANGED <<storage, file_index, curOpen, nextOpen, next_file_index>>
  BY DEF PutFrame, files, fixed
<1>3. CASE running
  <2>1. /\ pos' = pos + 1 /\ frames_in_file_left' = frames_in_file_left - 1
        /\ nth' = nth + 1 /\ rpc' \in {"swap", "bulk"}
        /\ rpc' = "bulk" => ~(frames_in_file_left' <= 0)
    BY <1>3 DEF PutFrame, NextFrame
  <2>2. /\ pos' + frames_in_file_left' <= FramesPerFile /\ nth' \in Nat
        /\ rpc' = "bulk" => frames_in_file_left' > 0
    BY <1>1, <2>1 DEF Handles
  <2>3. QED  BY <1>1, <1>2, <2>1, <2>2 DEF Handles, Exists
<1>4. CASE ~running
  <2>1. rpc' = "swap" /\ UNCHANGED <<pos, frames_in_file_left, nth>>
    BY <1>4 DEF PutFrame, files
  <2>2. QED  BY <1>1, <1>2, <2>1 DEF Handles, Exists
<1>5. QED  BY <1>3, <1>4

LEMMA PutFrameIInv == ASSUME IInv, PutFrame PROVE IInv'
<1> USE DEF PutFrame, FrameAt, SizeOf, Body, NextFrame, files, fixed,
            Ring!Put, Ring!Free, IInv
<1>1. TypeOK' /\ Units' /\ Place' /\ ExactStream'
  BY PutFrameUnits
<1>2. Reading' /\ Dry'
  BY DEF Reading, Before, Started, Over, Dry
<1>3. Handles'
  BY PutFrameHandles
<1>4. Unstopped'
  BY DDCAssumption DEF Unstopped, Intact, Exists, TypeOK, Reading, Before,
     Started, Over
<1>5. QED  BY <1>1, <1>2, <1>3, <1>4

LEMMA SwapFileIInv == ASSUME IInv, SwapFile PROVE IInv'
<1> USE DEF SwapFile, Least, Exists, Preopen, After, flow, files, worker,
            fixed, IInv
<1>1. TypeOK' /\ Handles' /\ Place'
  BY SwapFileHandles
<1>2. Reading' /\ Dry'
  BY DEF Reading, Before, Started, Over, Dry
<1>3. Units' /\ ExactStream'
  BY DEF Units, Unit, ExactStream, Intact, Expected
<1>4. Unstopped'
  BY DEF Unstopped, Intact
<1>5. QED  BY <1>1, <1>2, <1>3, <1>4

(* The reader says it is done when it has closed both files.               *)
LEMMA ReaderExitIInv == ASSUME IInv, ReaderExit PROVE IInv'
<1> USE DEF ReaderExit, worker, fixed, IInv
<1>1. TypeOK'
  BY DEF TypeOK
<1>2. Reading' /\ Dry'
  BY DEF Reading, Before, Started, Over, Dry
<1>3. Handles' /\ Units' /\ ExactStream'
  BY DEF Handles, Exists, FrameAt, Units, Unit, ExactStream, Intact,
     Expected
<1>4. Place'
  BY DEF Place, Intact, Got, Least, Exists
<1>5. Unstopped'
  BY DEF Unstopped, Intact, Exists
<1>6. QED  BY <1>1, <1>2, <1>3, <1>4, <1>5

LEMMA StartWorkIInv == ASSUME IInv, StartWork PROVE IInv'
<1> USE DEF StartWork, flow, files, fixed, IInv
<1>1. TypeOK'
  BY DEF TypeOK
<1>2. Reading' /\ Dry'
  BY DEF Reading, Before, Started, Over, Dry
<1>3. Handles' /\ Units' /\ ExactStream'
  BY DEF Handles, Exists, FrameAt, Units, Unit, ExactStream, Intact,
     Expected
<1>4. Place'
  BY DEF Place, Intact, Got, Least, Exists
<1>5. Unstopped'
  BY DEF Unstopped, Intact, Exists
<1>6. QED  BY <1>1, <1>2, <1>3, <1>4, <1>5

(* The job starts from its first frame.                                    *)
LEMMA InitDDCIInv == ASSUME IInv, InitDDC PROVE IInv'
<1> USE DEF InitDDC, fixed, IInv
<1>1. TypeOK'
  <2>1. 0 \in 0..Files /\ Wanted \in 0..Wanted
    BY DDCAssumption
  <2>2. file_index' \in 0..Files /\ frames_to_collect' \in 0..Wanted /\ running' \in BOOLEAN
    BY <2>1 DEF TypeOK
  <2>3. QED  BY <2>2 DEF TypeOK
<1>2. Reading' /\ Dry'
  BY DEF Reading, Before, Started, Over, Dry
<1>3. Handles' /\ Units' /\ ExactStream'
  BY DDCAssumption DEF Handles, Exists, FrameAt, TypeOK, Reading, Before,
     Started, Over, Units, Unit, ExactStream, Intact, Expected
<1>4. Place'
  BY DDCAssumption DEF Place, Intact, Got, Least, Exists, TypeOK, Reading,
     Before, Started, Over
<1>5. Unstopped'
  BY DDCAssumption DEF Unstopped, Intact, Exists, TypeOK, Reading, Before,
     Started, Over
<1>6. QED  BY <1>1, <1>2, <1>3, <1>4, <1>5

LEMMA StartReaderIInv == ASSUME IInv, StartReader PROVE IInv'
<1> USE DEF StartReader, files, fixed, IInv
<1>1. TypeOK'
  <2>1. Len(ring') <= RingCap - 1
    BY DDCAssumption
  <2>2. QED  BY <2>1 DEF TypeOK
<1>2. Reading' /\ Dry'
  BY DEF Reading, Before, Started, Over, Dry
<1>3. Handles' /\ Units' /\ ExactStream'
  BY DDCAssumption DEF Handles, Exists, FrameAt, TypeOK, Reading, Before,
     Started, Over, Units, Unit, ExactStream, Intact, Expected, Dry,
     Unstopped
<1>4. Place'
  BY DDCAssumption DEF Place, Intact, Got, Least, Exists, TypeOK, Handles,
     FrameAt, Reading, Before, Started, Over, Dry, Unstopped
<1>5. Unstopped'
  BY DEF Unstopped, Intact, Exists
<1>6. QED  BY <1>1, <1>2, <1>3, <1>4, <1>5

LEMMA PrepareIInv == ASSUME IInv, Prepare PROVE IInv'
<1> USE DEF Prepare, flow, files, fixed, IInv
<1>1. TypeOK'
  BY DEF TypeOK
<1>2. Reading' /\ Dry'
  BY DEF Reading, Before, Started, Over, Dry
<1>3. Handles' /\ Units' /\ ExactStream'
  BY DEF Handles, Exists, FrameAt, Units, Unit, ExactStream, Intact,
     Expected
<1>4. Place'
  BY DEF Place, Intact, Got, Least, Exists
<1>5. Unstopped'
  BY DEF Unstopped, Intact, Exists
<1>6. QED  BY <1>1, <1>2, <1>3, <1>4, <1>5

LEMMA OuterLoopIInv == ASSUME IInv, OuterLoop PROVE IInv'
<1> USE DEF OuterLoop, flow, files, fixed, IInv
<1>1. TypeOK'
  BY DEF TypeOK
<1>2. Reading' /\ Dry'
  BY DEF Reading, Before, Started, Over, Dry
<1>3. Handles' /\ Units' /\ ExactStream'
  BY DEF Handles, Exists, FrameAt, Units, Unit, ExactStream, Intact,
     Expected
<1>4. Place'
  BY DEF Place, Intact, Got, Least, Exists
<1>5. Unstopped'
  BY DEF Unstopped, Intact, Exists
<1>6. QED  BY <1>1, <1>2, <1>3, <1>4, <1>5

LEMMA ExecLoopIInv == ASSUME IInv, ExecLoop PROVE IInv'
<1> USE DEF ExecLoop, flow, files, fixed, IInv
<1>1. TypeOK'
  BY DEF TypeOK
<1>2. Reading' /\ Dry'
  BY DEF Reading, Before, Started, Over, Dry
<1>3. Handles' /\ Units' /\ ExactStream'
  BY DEF Handles, Exists, FrameAt, Units, Unit, ExactStream, Intact,
     Expected
<1>4. Place'
  BY DEF Place, Intact, Got, Least, Exists
<1>5. Unstopped'
  BY DEF Unstopped, Intact, Exists
<1>6. QED  BY <1>1, <1>2, <1>3, <1>4, <1>5

LEMMA ReadBatchIInv == ASSUME IInv, ReadBatch PROVE IInv'
<1> USE DEF ReadBatch, files, fixed, Ring!Take, IInv
<1>1. Units' /\ Place' /\ ExactStream'
  BY ReadBatchUnits
<1>2. TypeOK'
  BY DDCAssumption DEF TypeOK
<1>3. Reading' /\ Dry'
  BY DDCAssumption DEF Reading, Before, Started, Over, Dry, TypeOK
<1>4. Handles'
  BY DEF Handles, Exists, FrameAt
<1>5. Unstopped'
  BY DEF Unstopped, Intact, Exists
<1>6. QED  BY <1>1, <1>2, <1>3, <1>4, <1>5

LEMMA ReadTailIInv == ASSUME IInv, ReadTail PROVE IInv'
<1> USE DEF ReadTail, files, fixed, Ring!Take, IInv
<1>1. Units' /\ Place' /\ ExactStream'
  BY ReadTailUnits
<1>2. TypeOK'
  BY DDCAssumption DEF TypeOK
<1>3. Reading' /\ Dry'
  BY DEF Reading, Before, Started, Over, Dry
<1>4. Handles'
  BY DEF Handles, Exists, FrameAt
<1>5. Unstopped'
  BY DEF Unstopped, Intact, Exists
<1>6. QED  BY <1>1, <1>2, <1>3, <1>4, <1>5

LEMMA HandedOverIInv == ASSUME IInv, Process, defect # "narrow" PROVE IInv'
<1> USE DEF Process, Padded, flow, files, fixed, IInv
<1>1. TypeOK' /\ Units' /\ Dry' /\ Place' /\ ExactStream'
  BY ProcessUnits
<1>2. Reading'
  BY DEF Reading, Before, Started, Over
<1>3. Handles'
  BY DEF Handles, Exists, FrameAt
<1>4. Unstopped'
  BY DEF Unstopped, Intact, Exists
<1>5. QED  BY <1>1, <1>2, <1>3, <1>4

(* A batch of a bandwidth too narrow for it ends the process.              *)
LEMMA NarrowIInv == ASSUME IInv, Process, defect = "narrow" PROVE IInv'
<1> USE DEF Process, flow, files, fixed, IInv
<1>1. /\ wpc = "process" /\ wpc' = "threw" /\ UNCHANGED <<fixed, jobRunning, flow, rpc, files>>
      /\ UNCHANGED <<delivered, batch, processed, spc>>
  OBVIOUS
<1>2. TypeOK'
  BY <1>1 DEF TypeOK
<1>3. Reading' /\ Dry'
  BY <1>1 DEF Reading, Before, Started, Over, Dry
<1>4. /\ Handles' /\ Units'
      /\ ExactStream'
  <2>1. UNCHANGED <<storage, ring, delivered, batch>>
    BY <1>1
  <2>2. Handles'
    BY <1>1, <2>1 DEF Handles, Exists, FrameAt
  <2>3. Units'
    BY <1>1, <2>1 DEF Units
  <2>4. ExactStream'
    BY <2>1 DEF ExactStream, Intact, Exists, Expected
  <2>5. QED  BY <2>2, <2>3, <2>4
<1>5. Place'
  <2>1. /\ wpc = "process" /\ wpc' = "threw"
        /\ UNCHANGED <<storage, ring, delivered, batch, rpc, file_index, curOpen, pos, nextOpen,
                       next_file_index, frames_in_file_left, frames_to_collect, nth, ioDone,
                       running, joinable, jobRunning, processed, spc>>
    BY <1>1
  <2>2. Place
    OBVIOUS
  <2>3. QED  BY ONLY <2>1, <2>2 DEF Place, Intact, Exists, Got, Least
<1>6. Unstopped'
  BY <1>1 DEF Unstopped, Intact, Exists
<1>7. QED  BY <1>2, <1>3, <1>4, <1>5, <1>6

LEMMA ProcessIInv == ASSUME IInv, Process PROVE IInv'
BY HandedOverIInv, NarrowIInv

(* An idle return with the reader finished and nothing in the ring.        *)
LEMMA AfterExecIInv == ASSUME IInv, AfterExec PROVE IInv'
<1> USE DEF AfterExec, flow, files, fixed, IInv
<1>1. TypeOK'
  BY DEF TypeOK
<1>2. Reading' /\ Dry'
  BY DEF Reading, Before, Started, Over, Dry
<1>3. Handles' /\ Units' /\ ExactStream'
  BY DEF Handles, Exists, FrameAt, Units, Unit, ExactStream, Intact,
     Expected
<1>4. Place'
  BY DEF Place, Intact, Got, Least, Exists
<1>5. Unstopped'
  BY DEF Unstopped, Intact, Exists
<1>6. QED  BY <1>1, <1>2, <1>3, <1>4, <1>5

LEMMA RecheckIInv == ASSUME IInv, Recheck PROVE IInv'
<1> USE DEF Recheck, flow, files, fixed, IInv
<1>1. TypeOK'
  BY DEF TypeOK
<1>2. Reading' /\ Dry'
  BY DEF Reading, Before, Started, Over, Dry
<1>3. Handles' /\ Units' /\ ExactStream'
  BY DEF Handles, Exists, FrameAt, Units, Unit, ExactStream, Intact,
     Expected
<1>4. Place'
  BY DEF Place, Intact, Got, Least, Exists
<1>5. Unstopped'
  BY DEF Unstopped, Intact, Exists
<1>6. QED  BY <1>1, <1>2, <1>3, <1>4, <1>5

LEMMA WorkerCloseIInv == ASSUME IInv, WorkerClose PROVE IInv'
<1> USE DEF WorkerClose, files, fixed, IInv
<1>1. TypeOK'
  BY DEF TypeOK
<1>2. Reading' /\ Dry'
  BY DEF Reading, Before, Started, Over, Dry
<1>3. Handles' /\ Units' /\ ExactStream'
  BY DEF Handles, Exists, FrameAt, Units, Unit, ExactStream, Intact,
     Expected
<1>4. Place'
  BY DEF Place, Intact, Got, Least, Exists
<1>5. Unstopped'
  BY DEF Unstopped, Intact, Exists
<1>6. QED  BY <1>1, <1>2, <1>3, <1>4, <1>5

(* Whoever joins the reader finds it ended.                                *)
LEMMA WorkerJoinIInv == ASSUME IInv, WorkerJoin PROVE IInv'
<1> USE DEF WorkerJoin, CanJoin, Taken, files, fixed, IInv
<1>1. TypeOK'
  BY DEF TypeOK
<1>2. Reading' /\ Dry'
  BY DEF Reading, Before, Started, Over, Dry
<1>3. Handles' /\ Units' /\ ExactStream'
  BY DEF Handles, Exists, FrameAt, Units, Unit, ExactStream, Intact,
     Expected
<1>4. Place'
  BY DEF Place, Intact, Got, Least, Exists
<1>5. Unstopped'
  BY DEF Unstopped, Intact, Exists
<1>6. QED  BY <1>1, <1>2, <1>3, <1>4, <1>5

LEMMA DestroyIInv == ASSUME IInv, Destroy PROVE IInv'
<1> USE DEF Destroy, files, fixed, IInv
<1>1. TypeOK'
  BY DEF TypeOK
<1>2. Reading' /\ Dry'
  BY DEF Reading, Before, Started, Over, Dry
<1>3. Handles' /\ Units' /\ ExactStream'
  BY DEF Handles, Exists, FrameAt, Units, Unit, ExactStream, Intact,
     Expected
<1>4. Place'
  BY DEF Place, Intact, Got, Least, Exists
<1>5. Unstopped'
  BY DEF Unstopped, Intact, Exists
<1>6. QED  BY <1>1, <1>2, <1>3, <1>4, <1>5

LEMMA DestroyJoinIInv == ASSUME IInv, DestroyJoin PROVE IInv'
<1> USE DEF DestroyJoin, CanJoin, Taken, files, fixed, IInv
<1>1. TypeOK'
  BY DEF TypeOK
<1>2. Reading' /\ Dry'
  BY DEF Reading, Before, Started, Over, Dry
<1>3. Handles' /\ Units' /\ ExactStream'
  BY DEF Handles, Exists, FrameAt, Units, Unit, ExactStream, Intact,
     Expected
<1>4. Place'
  BY DEF Place, Intact, Got, Least, Exists
<1>5. Unstopped'
  BY DEF Unstopped, Intact, Exists
<1>6. QED  BY <1>1, <1>2, <1>3, <1>4, <1>5

LEMMA StopJobIInv == ASSUME IInv, StopJob PROVE IInv'
<1> USE DEF StopJob, Reachable, flow, files, worker, fixed, IInv
<1>1. TypeOK'
  BY DEF TypeOK
<1>2. Reading' /\ Dry'
  BY DEF Reading, Before, Started, Over, Dry
<1>3. Handles' /\ Units' /\ ExactStream'
  BY DEF Handles, Exists, FrameAt, Units, Unit, ExactStream, Intact,
     Expected
<1>4. Place'
  BY DEF Place, Intact, Got, Least, Exists
<1>5. Unstopped'
  BY DEF Unstopped, Intact, Exists
<1>6. QED  BY <1>1, <1>2, <1>3, <1>4, <1>5

(* From here on nothing is promised about what is left to read.            *)
LEMMA StopIInv == ASSUME IInv, Stop PROVE IInv'
<1> USE DEF Stop, Reachable, files, worker, fixed, IInv
<1>1. TypeOK'
  BY DEF TypeOK
<1>2. Reading' /\ Dry'
  BY DEF Reading, Before, Started, Over, Dry
<1>3. Handles' /\ Units' /\ ExactStream'
  BY DEF Handles, Exists, FrameAt, Units, Unit, ExactStream, Intact,
     Expected
<1>4. Place'
  BY DEF Place, Intact, Got, Least, Exists
<1>5. Unstopped'
  BY DEF Unstopped, Intact, Exists
<1>6. QED  BY <1>1, <1>2, <1>3, <1>4, <1>5

LEMMA StopperCloseIInv == ASSUME IInv, StopperClose PROVE IInv'
<1> USE DEF StopperClose, flow, files, worker, fixed, IInv
<1>1. TypeOK'
  BY DEF TypeOK
<1>2. Reading' /\ Dry'
  BY DEF Reading, Before, Started, Over, Dry
<1>3. Handles' /\ Units' /\ ExactStream'
  BY DEF Handles, Exists, FrameAt, Units, Unit, ExactStream, Intact,
     Expected
<1>4. Place'
  BY DEF Place, Intact, Got, Least, Exists
<1>5. Unstopped'
  BY DEF Unstopped, Intact, Exists
<1>6. QED  BY <1>1, <1>2, <1>3, <1>4, <1>5

LEMMA StopperJoinIInv == ASSUME IInv, StopperJoin PROVE IInv'
<1> USE DEF StopperJoin, CanJoin, Taken, files, worker, fixed, IInv
<1>1. TypeOK'
  BY DEF TypeOK
<1>2. Reading' /\ Dry'
  BY DEF Reading, Before, Started, Over, Dry
<1>3. Handles' /\ Units' /\ ExactStream'
  BY DEF Handles, Exists, FrameAt, Units, Unit, ExactStream, Intact,
     Expected
<1>4. Place'
  BY DEF Place, Intact, Got, Least, Exists
<1>5. Unstopped'
  BY DEF Unstopped, Intact, Exists
<1>6. QED  BY <1>1, <1>2, <1>3, <1>4, <1>5
-----------------------------------------------------------------------------
LEMMA InitIInv == Init => IInv
<1> SUFFICES ASSUME Init PROVE IInv
  OBVIOUS
<1> USE DDCAssumption DEF Init
<1>1. TypeOK
  <2>1. /\ 0 \in 0..Files /\ 0 \in 0..FramesPerFile /\ 0 \in 0..Wanted
        /\ 0 \in 0..FrameUnits - 1 /\ 0 <= RingCap - 1 /\ 0 <= FrameUnits
        /\ 0 = FrameUnits * 0 + 0
    OBVIOUS
  <2>2. 0 % FrameUnits = 0
    BY <2>1, DivUnique
  <2>3. Len(ring) = 0 /\ Len(batch) = 0 /\ Len(delivered) = 0
    OBVIOUS
  <2>4. QED  BY <2>1, <2>2, <2>3 DEF TypeOK
<1>2. Reading /\ Handles /\ Units /\ Dry
  BY DEF Reading, Before, Started, Over, Handles, Units, Dry
<1>3. ExactStream
  BY DEF ExactStream
<1>4. Place /\ Unstopped
  BY DEF Place, Unstopped
<1>5. QED  BY <1>1, <1>2, <1>3, <1>4 DEF IInv

LEMMA SameIInv == ASSUME IInv, UNCHANGED vars PROVE IInv'
<1> USE DEF vars, flow, files, worker, fixed, IInv
<1>1. TypeOK' /\ Reading' /\ Units' /\ Dry'
  BY DEF TypeOK, Reading, Before, Started, Over, Units, Dry
<1>2. Handles'
  BY DEF Handles, Exists, FrameAt
<1>3. Place' /\ ExactStream'
  BY DEF Place, ExactStream, Intact, Exists, Got
<1>4. Unstopped'
  BY DEF Unstopped, Intact, Exists
<1>5. QED  BY <1>1, <1>2, <1>3, <1>4

LEMMA NextIInv == ASSUME IInv, [Next]_vars PROVE IInv'
<1>1. ASSUME Reader PROVE IInv'
  BY <1>1, OpenFirstIInv, ReaderLoopIInv, ReadFrameIInv, PutFrameIInv, SwapFileIInv,
     ReaderExitIInv DEF Reader
<1>2. ASSUME Worker PROVE IInv'
  BY <1>2, StartWorkIInv, InitDDCIInv, StartReaderIInv, PrepareIInv, OuterLoopIInv,
     ExecLoopIInv, ReadBatchIInv, ReadTailIInv, ProcessIInv, AfterExecIInv, RecheckIInv,
     WorkerCloseIInv, WorkerJoinIInv, DestroyIInv, DestroyJoinIInv DEF Worker
<1>3. ASSUME Stopper PROVE IInv'
  BY <1>3, StopJobIInv, StopIInv, StopperCloseIInv, StopperJoinIInv DEF Stopper, StopIt
<1>4. QED  BY <1>1, <1>2, <1>3, SameIInv DEF Next

LEMMA SpecIInv == Spec => []IInv
BY InitIInv, NextIInv, PTL DEF Spec

(* The ring never overflows, a batch is at most a frame and the handler is *)
(* given whole frames, whatever the sizes and the storage.                 *)
THEOREM SpecTypeOK == Spec => []TypeOK
<1>1. IInv => TypeOK
  BY DEF IInv
<1>2. QED  BY <1>1, SpecIInv, PTL

(* From an intact recording of any length the handler receives the         *)
(* request's frames, each once, in order and aligned.                      *)
THEOREM SpecExactStream == Spec => []ExactStream
<1>1. IInv => ExactStream
  BY DEF IInv
<1>2. QED  BY <1>1, SpecIInv, PTL

(* The end of the loop, when nobody has come to delete the job.            *)
LEMMA Complete ==
  ASSUME IInv, wpc = "finished", spc = "ready"
  PROVE  ring = <<>> /\ batch = <<>> /\ (Intact => Len(delivered) = Wanted * FrameUnits)
<1>1. ring = <<>> /\ batch = <<>>
  BY DEF IInv, Unstopped, Units
<1>2. ASSUME Intact PROVE Len(delivered) = Wanted * FrameUnits
  <2>1. rpc = "done"
    BY DEF IInv, Reading, Started, Over
  <2>2. frames_to_collect = 0
    BY <1>2, <2>1 DEF IInv, Unstopped
  <2>3. Len(delivered) + Len(batch) + Len(ring) = Got * FrameUnits
    BY <1>2, <2>1 DEF IInv, Place
  <2>4. Got = Wanted
    BY <2>2, DDCAssumption DEF Got
  <2>5. Len(batch) = 0 /\ Len(ring) = 0 /\ Len(delivered) \in Nat
    BY <1>1, LenProperties DEF IInv, Units
  <2>6. Len(delivered) + Len(batch) + Len(ring) = Len(delivered)
    BY <2>5
  <2>7. QED  BY <2>3, <2>4, <2>6
<1>3. QED  BY <1>1, <1>2

(* A job nobody stopped has handed over all the reader brought, which is   *)
(* all of the request if the recording was intact.                         *)
THEOREM SpecCompleteWhenUnstopped == Spec => []CompleteWhenUnstopped
<1>1. IInv => CompleteWhenUnstopped
  BY Complete DEF CompleteWhenUnstopped
<1>2. QED  BY <1>1, SpecIInv, PTL

(* The frame of the request that comes after k others.                     *)
FrameOfRequest(k) == Body((FirstOffset + k) \div FramesPerFile,
                          (FirstOffset + k) % FramesPerFile, FrameUnits)

(* executeDDC() numbers its batches by what it has handed over: on an      *)
(* intact recording that number is the place of the batch in the request,  *)
(* so that its time stamp is the time of its samples, which is the clock   *)
(* of WatchProcess (DDCExecutor.cpp:446-450).                              *)
BatchIsNumbered ==
  Intact /\ wpc = "process" => batch = FrameOfRequest(Len(delivered) \div FrameUnits)

LEMMA Numbered == IInv => BatchIsNumbered
<1> SUFFICES ASSUME IInv, Intact, wpc = "process"
             PROVE  batch = FrameOfRequest(Len(delivered) \div FrameUnits)
  BY DEF BatchIsNumbered
<1> DEFINE k == Len(delivered) \div FrameUnits
           f == (FirstOffset + k) \div FramesPerFile
           p == (FirstOffset + k) % FramesPerFile
           part == delivered \o batch
           whole == part \o ring
<1>1. /\ FrameUnits \in Nat /\ FrameUnits > 0 /\ FirstOffset \in Nat
      /\ FramesPerFile \in Nat /\ FramesPerFile > 0
      /\ ring \in Seq(Unit) /\ batch \in Seq(Unit) /\ delivered \in Seq(Unit)
  BY DDCAssumption DEF IInv, Units
<1>2. Len(batch) = FrameUnits
  BY DEF IInv, Place, Reading, Started
<1>3. /\ k \in Nat /\ Len(delivered) = k * FrameUnits /\ Len(delivered) \in Nat
  <2>1. Len(delivered) \in Nat
    BY <1>1, LenProperties
  <2>2. Len(delivered) % FrameUnits = 0
    BY DEF IInv, TypeOK
  <2>3. k \in Int /\ Len(delivered) = FrameUnits * k
    BY <1>1, <2>1, <2>2, DivMod
  <2>4. k >= 0
    BY <1>1, <2>1, <2>3
  <2>5. QED  BY <1>1, <2>1, <2>3, <2>4
<1> HIDE DEF k
<1>4. f \in Nat /\ p \in 0..FramesPerFile - 1 /\ FramesPerFile * f + p = FirstOffset + k
  <2>1. FirstOffset + k \in Nat
    BY <1>1, <1>3
  <2>2. /\ f \in Int /\ p \in 0..FramesPerFile - 1
        /\ FirstOffset + k = FramesPerFile * f + p
    <3> DEFINE a == FirstOffset + k
    <3>1. a \in Int
      BY <2>1
    <3> HIDE DEF a
    <3>2. /\ a \div FramesPerFile \in Int
          /\ a % FramesPerFile \in 0..FramesPerFile - 1
          /\ a = FramesPerFile * (a \div FramesPerFile) + (a % FramesPerFile)
      BY <1>1, <3>1, DivMod
    <3>3. QED  BY <3>2 DEF a
  <2> HIDE DEF f, p
  <2>3. f >= 0
    <3>1. SUFFICES ASSUME f <= -1 PROVE FALSE
      BY <2>2
    <3>2. FramesPerFile * f <= -FramesPerFile
      BY <1>1, <2>2, <3>1
    <3>3. QED  BY <1>1, <2>1, <2>2, <3>2
  <2>4. QED  BY <2>2, <2>3
<1> HIDE DEF f, p
<1>5. ASSUME NEW u \in 1..FrameUnits PROVE batch[u] = <<f, p, u>>
  <2> DEFINE n == k * FrameUnits + u
  <2>1. /\ part \in Seq(Unit) /\ Len(part) = Len(delivered) + Len(batch)
        /\ part[Len(delivered) + u] = batch[u]
    BY <1>1, <1>2, <1>5, ConcatUnits
  <2> HIDE DEF part
  <2>2. /\ Len(whole) = Len(part) + Len(ring) /\ Len(ring) \in Nat
        /\ \A m \in 1..Len(part) : whole[m] = part[m]
    BY <1>1, <2>1, ConcatUnits
  <2>3. \A m \in 1..Len(whole) : whole[m] = Expected(m)
    BY DEF IInv, ExactStream, part
  <2> HIDE DEF whole
  <2>4. n = Len(delivered) + u /\ n \in 1..Len(part) /\ n \in 1..Len(whole)
    BY <1>1, <1>2, <1>3, <1>5, <2>1, <2>2
  <2>5. Expected(n) = <<f, p, u>>
    BY <1>3, <1>4, <1>5, ExpectedUnit
  <2> HIDE DEF n
  <2>6. QED  BY <2>1, <2>2, <2>3, <2>4, <2>5
<1>6. Body(f, p, FrameUnits) \in Seq(Unit) /\ Len(Body(f, p, FrameUnits)) = FrameUnits
      /\ \A u \in 1..FrameUnits : Body(f, p, FrameUnits)[u] = <<f, p, u>>
  <2>1. f \in Int /\ p \in Int
    BY <1>1, <1>4
  <2>2. QED  BY <1>1, <2>1, BodyUnits, Zenon
<1>7. batch = Body(f, p, FrameUnits)
  BY <1>1, <1>2, <1>5, <1>6, SeqEqual
<1>8. QED  BY <1>7 DEF FrameOfRequest, f, p, k

(* For any sizes: the time stamp of a batch of an intact recording is the  *)
(* time of the samples in it (DDCExecutor.cpp:446).                        *)
THEOREM SpecBatchIsNumbered == Spec => []BatchIsNumbered
BY Numbered, SpecIInv, PTL

(* When close() or the destructor has returned the reader is gone.         *)
THEOREM SpecNoReaderAfterClose == Spec => []NoReaderAfterClose
<1>1. IInv => NoReaderAfterClose
  BY DEF IInv, Reading, NoReaderAfterClose
<1>2. QED  BY <1>1, SpecIInv, PTL

(* Nothing is written to the ring after _ioDone: of all steps only that of *)
(* a reader with a frame in hand makes it longer, and that one is not done. *)
THEOREM SpecNoFillAfterDone == Spec => NoFillAfterDone
<1> DEFINE NoFill == ioDone => Len(ring') <= Len(ring)
<1>1. ASSUME IInv PROVE Len(ring) \in Nat /\ ring \in Seq(Unit)
  BY <1>1, LenProperties DEF IInv, Units
<1>2. ASSUME IInv, ring' = ring PROVE NoFill
  BY <1>1, <1>2
<1>3. ASSUME IInv, NEW n \in 0..Len(ring), Ring!Take(n) PROVE NoFill
  <2>1. Len(ring') = Len(ring) - n
    BY <1>1, <1>3, TakeUnits DEF Ring!Take
  <2>2. QED  BY <1>1, <1>3, <2>1
<1>4. ASSUME IInv, Reader PROVE NoFill
  <2>1. ASSUME PutFrame PROVE ~ioDone
    BY <1>4, <2>1 DEF IInv, Reading, PutFrame
  <2>2. ASSUME ~PutFrame PROVE ring' = ring
    BY <1>4, <2>2 DEF Reader, OpenFirst, ReaderLoop, ReadFrame, SwapFile, ReaderExit, flow
  <2>3. QED  BY <1>2, <1>4, <2>1, <2>2
<1>5. ASSUME IInv, ReadBatch \/ ReadTail PROVE NoFill
  <2>1. FrameUnits \in Nat
    BY DDCAssumption
  <2>2. \/ ring' = ring
        \/ Len(ring) >= FrameUnits /\ Ring!Take(FrameUnits)
        \/ Ring!Take(Len(ring))
    BY <1>5 DEF ReadBatch, ReadTail
  <2>3. QED  BY <1>1, <1>2, <1>3, <1>5, <2>1, <2>2
<1>6. ASSUME IInv, StartReader PROVE NoFill
  BY <1>1, <1>6 DEF StartReader
<1>7. ASSUME IInv, Worker, ~ReadBatch, ~ReadTail, ~StartReader PROVE NoFill
  BY <1>2, <1>7 DEF Worker, StartWork, InitDDC, Prepare, OuterLoop, ExecLoop, Process,
     AfterExec, Recheck, WorkerClose, WorkerJoin, Destroy, DestroyJoin, flow
<1>8. ASSUME IInv, Stopper PROVE NoFill
  BY <1>2, <1>8 DEF Stopper, StopIt, StopJob, Stop, StopperClose, StopperJoin, flow
<1>9. ASSUME IInv, Worker PROVE NoFill
  BY <1>5, <1>6, <1>7, <1>9
<1>10. ASSUME Next PROVE Reader \/ Worker \/ Stopper \/ UNCHANGED vars
  BY <1>10 DEF Next
<1>11. ASSUME IInv, [Next]_vars PROVE [NoFill]_vars
  <2> HIDE DEF NoFill
  <2>1. QED  BY <1>4, <1>8, <1>9, <1>10, <1>11, Zenon
<1>12. QED  BY <1>11, SpecIInv, PTL DEF Spec, NoFillAfterDone
-----------------------------------------------------------------------------
(* Order on any storage, however damaged.  Data in a sequence is ordered;  *)
(* data of one sequence comes before data of another.                      *)
Ordered(s) ==
  \A m, n \in 1..Len(s) : m < n /\ IsData(s[m]) /\ IsData(s[n]) => Precedes(s[m], s[n])

Ahead(s, t) ==
  \A m \in 1..Len(s), n \in 1..Len(t) : IsData(s[m]) /\ IsData(t[n]) => Precedes(s[m], t[n])

(* What is on its way to the handler or there, and the frame the reader    *)
(* would read next.                                                        *)
Stream == delivered \o batch \o ring
Mark == << <<file_index, pos, 1>> >>

(* Nothing travels before the first file was opened; while the reader is   *)
(* in its loop all that travels is from before the place it has reached.   *)
Forward ==
  /\ rpc = "open" => ring = <<>> /\ batch = <<>> /\ delivered = <<>>
  /\ rpc \in {"loop", "bulk", "put", "swap"} =>
       /\ Ahead(Stream, Mark)
       /\ next_file_index = file_index + 1

OInv == Ordered(Stream) /\ Forward

LEMMA OrderedConcat ==
  ASSUME NEW s \in Seq(Unit), NEW t \in Seq(Unit)
  PROVE  Ordered(s \o t) <=> Ordered(s) /\ Ordered(t) /\ Ahead(s, t)
<1> DEFINE st == s \o t
<1>1. /\ st \in Seq(Unit) /\ Len(st) = Len(s) + Len(t)
      /\ Len(s) \in Nat /\ Len(t) \in Nat
      /\ \A n \in 1..Len(s) : st[n] = s[n]
      /\ \A n \in 1..Len(t) : st[Len(s) + n] = t[n]
  BY ConcatUnits
<1>2. \A n \in 1..Len(st) : n \in 1..Len(s) \/ \E k \in 1..Len(t) : n = Len(s) + k
  <2>1. ASSUME NEW n \in 1..Len(st), n \notin 1..Len(s)
        PROVE  n - Len(s) \in 1..Len(t) /\ n = Len(s) + (n - Len(s))
    BY <1>1, <2>1
  <2>2. QED  BY <2>1
<1> HIDE DEF st
<1>3. ASSUME Ordered(st) PROVE Ordered(s) /\ Ordered(t) /\ Ahead(s, t)
  <2>1. ASSUME NEW m \in 1..Len(s), NEW n \in 1..Len(s), m < n, IsData(s[m]), IsData(s[n])
        PROVE  Precedes(s[m], s[n])
    <3>1. m \in 1..Len(st) /\ n \in 1..Len(st)
      BY <1>1
    <3>2. st[m] = s[m] /\ st[n] = s[n]
      BY <1>1
    <3>3. QED  BY <1>3, <2>1, <3>1, <3>2 DEF Ordered
  <2>2. ASSUME NEW m \in 1..Len(t), NEW n \in 1..Len(t), m < n, IsData(t[m]), IsData(t[n])
        PROVE  Precedes(t[m], t[n])
    <3>1. /\ Len(s) + m \in 1..Len(st) /\ Len(s) + n \in 1..Len(st)
          /\ Len(s) + m < Len(s) + n
      BY <1>1, <2>2
    <3>2. st[Len(s) + m] = t[m] /\ st[Len(s) + n] = t[n]
      BY <1>1
    <3>3. QED  BY <1>3, <2>2, <3>1, <3>2 DEF Ordered
  <2>3. ASSUME NEW m \in 1..Len(s), NEW n \in 1..Len(t), IsData(s[m]), IsData(t[n])
        PROVE  Precedes(s[m], t[n])
    <3>1. m \in 1..Len(st) /\ Len(s) + n \in 1..Len(st) /\ m < Len(s) + n
      BY <1>1
    <3>2. st[m] = s[m] /\ st[Len(s) + n] = t[n]
      BY <1>1
    <3>3. QED  BY <1>3, <2>3, <3>1, <3>2 DEF Ordered
  <2>4. QED  BY <2>1, <2>2, <2>3 DEF Ordered, Ahead
<1>4. ASSUME Ordered(s), Ordered(t), Ahead(s, t) PROVE Ordered(st)
  <2>1. SUFFICES ASSUME NEW m \in 1..Len(st), NEW n \in 1..Len(st), m < n,
                        IsData(st[m]), IsData(st[n])
                 PROVE  Precedes(st[m], st[n])
    BY DEF Ordered
  <2>2. CASE m \in 1..Len(s) /\ n \in 1..Len(s)
    <3>1. st[m] = s[m] /\ st[n] = s[n]
      BY <1>1, <2>2
    <3>2. QED  BY <1>4, <2>1, <2>2, <3>1 DEF Ordered
  <2>3. CASE m \in 1..Len(s) /\ n \notin 1..Len(s)
    <3>1. PICK k \in 1..Len(t) : n = Len(s) + k
      BY <1>2, <2>3
    <3>2. st[m] = s[m] /\ st[n] = t[k]
      BY <1>1, <2>3, <3>1
    <3>3. QED  BY <1>4, <2>1, <2>3, <3>1, <3>2 DEF Ahead
  <2>4. CASE m \notin 1..Len(s)
    <3>1. PICK j \in 1..Len(t) : m = Len(s) + j
      BY <1>2, <2>4
    <3>2. n \notin 1..Len(s)
      BY <1>1, <2>1, <3>1
    <3>3. PICK k \in 1..Len(t) : n = Len(s) + k
      BY <1>2, <3>2
    <3>4. st[m] = t[j] /\ st[n] = t[k] /\ j < k
      BY <1>1, <2>1, <3>1, <3>3
    <3>5. QED  BY <1>4, <2>1, <3>4 DEF Ordered
  <2>5. QED  BY <2>2, <2>3, <2>4
<1>5. QED  BY <1>3, <1>4 DEF st

LEMMA AheadConcat ==
  ASSUME NEW s \in Seq(Unit), NEW t \in Seq(Unit), NEW u \in Seq(Unit)
  PROVE  /\ Ahead(s \o t, u) <=> Ahead(s, u) /\ Ahead(t, u)
         /\ Ahead(u, s \o t) <=> Ahead(u, s) /\ Ahead(u, t)
<1> DEFINE st == s \o t
<1>1. /\ Len(st) = Len(s) + Len(t)
      /\ Len(s) \in Nat /\ Len(t) \in Nat /\ Len(u) \in Nat
      /\ \A n \in 1..Len(s) : st[n] = s[n]
      /\ \A n \in 1..Len(t) : st[Len(s) + n] = t[n]
  BY ConcatUnits
<1> HIDE DEF st
<1>2. ASSUME NEW n \in 1..Len(st)
      PROVE  \/ n \in 1..Len(s) /\ st[n] = s[n]
             \/ \E k \in 1..Len(t) : st[n] = t[k]
  <2>1. CASE n \in 1..Len(s)
    BY <1>1, <2>1
  <2>2. CASE n \notin 1..Len(s)
    <3>1. n - Len(s) \in 1..Len(t) /\ n = Len(s) + (n - Len(s))
      BY <1>1, <2>2
    <3>2. QED  BY <1>1, <3>1
  <2>3. QED  BY <2>1, <2>2
<1>3. \A n \in 1..Len(s) : n \in 1..Len(st) /\ st[n] = s[n]
  BY <1>1
<1>4. \A n \in 1..Len(t) : Len(s) + n \in 1..Len(st) /\ st[Len(s) + n] = t[n]
  BY <1>1
<1>5. Ahead(st, u) => Ahead(s, u) /\ Ahead(t, u)
  BY <1>3, <1>4, Zenon DEF Ahead
<1>6. Ahead(u, st) => Ahead(u, s) /\ Ahead(u, t)
  BY <1>3, <1>4, Zenon DEF Ahead
<1>7. Ahead(s, u) /\ Ahead(t, u) => Ahead(st, u)
  BY <1>2, Zenon DEF Ahead
<1>8. Ahead(u, s) /\ Ahead(u, t) => Ahead(u, st)
  BY <1>2, Zenon DEF Ahead
<1>9. QED  BY <1>5, <1>6, <1>7, <1>8 DEF st

(* Zeros filled in behind a short batch change the order of no data.       *)
LEMMA PadInside ==
  ASSUME NEW d \in Seq(Unit), NEW b \in Seq(Unit), NEW r \in Seq(Unit),
         NEW mark \in Seq(Unit), Len(b) <= FrameUnits
  PROVE  /\ Ordered(d \o b \o r) => Ordered(d \o Padded(b) \o r)
         /\ Ahead(d \o b \o r, mark) => Ahead(d \o Padded(b) \o r, mark)
<1> DEFINE fill == [u \in 1..FrameUnits - Len(b) |-> Pad]
<1>1. /\ fill \in Seq(Unit)
      /\ \A n \in 1..Len(fill) : ~IsData(fill[n])
  <2>1. FrameUnits - Len(b) \in Nat /\ Len(b) \in Nat /\ FrameUnits \in Nat
    BY DDCAssumption, LenProperties
  <2>2. fill \in Seq(Unit) /\ Len(fill) = FrameUnits - Len(b)
    BY <2>1 DEF Unit, Pad
  <2>3. \A n \in 1..FrameUnits - Len(b) : fill[n] = Pad
    OBVIOUS
  <2>4. QED  BY <2>2, <2>3, Zenon DEF IsData
<1> HIDE DEF fill
<1>2. Ordered(fill) /\ \A s \in Seq(Unit) : Ahead(fill, s) /\ Ahead(s, fill)
  BY <1>1, Zenon DEF Ordered, Ahead
<1>3. /\ d \o b \in Seq(Unit) /\ b \o fill \in Seq(Unit)
      /\ d \o (b \o fill) \in Seq(Unit)
  BY <1>1, ConcatUnits
<1>4. ASSUME Ordered(d \o b \o r) PROVE Ordered(d \o (b \o fill) \o r)
  <2>1. Ordered(d \o b) /\ Ordered(r) /\ Ahead(d \o b, r)
    BY <1>3, <1>4, OrderedConcat
  <2>2. Ordered(d) /\ Ordered(b) /\ Ahead(d, b) /\ Ahead(d, r) /\ Ahead(b, r)
    BY <2>1, OrderedConcat, AheadConcat
  <2>3. Ordered(b \o fill) /\ Ahead(d, b \o fill) /\ Ahead(b \o fill, r)
    BY <1>1, <1>2, <2>2, OrderedConcat, AheadConcat
  <2>4. Ordered(d \o (b \o fill)) /\ Ahead(d \o (b \o fill), r)
    BY <1>3, <2>2, <2>3, OrderedConcat, AheadConcat
  <2>5. QED  BY <1>3, <2>1, <2>4, OrderedConcat
<1>5. ASSUME Ahead(d \o b \o r, mark) PROVE Ahead(d \o (b \o fill) \o r, mark)
  <2>1. Ahead(d, mark) /\ Ahead(b, mark) /\ Ahead(r, mark)
    BY <1>3, <1>5, AheadConcat
  <2>2. Ahead(b \o fill, mark)
    BY <1>1, <1>2, <2>1, AheadConcat
  <2>3. Ahead(d \o (b \o fill), mark)
    BY <1>3, <2>1, <2>2, AheadConcat
  <2>4. QED  BY <1>3, <2>1, <2>3, AheadConcat
<1>6. QED  BY <1>4, <1>5 DEF Padded, fill

(* A mark further on is still ahead of everything.                         *)
LEMMA Later ==
  ASSUME NEW s \in Seq(Unit), NEW f \in Int, NEW p \in Int, NEW g \in Int, NEW q \in Int,
         Ahead(s, << <<f, p, 1>> >>), g > f \/ (g = f /\ q >= p)
  PROVE  Ahead(s, << <<g, q, 1>> >>)
<1>1. ASSUME NEW m \in 1..Len(s), IsData(s[m]) PROVE Precedes(s[m], <<g, q, 1>>)
  <2>1. s[m] \in Unit
    BY ElementOfSeq
  <2>2. Precedes(s[m], <<f, p, 1>>)
    <3>1. IsData(<<f, p, 1>>)
      BY DEF IsData, Pad
    <3>2. QED  BY <1>1, <3>1 DEF Ahead
  <2>3. QED  BY <2>1, <2>2 DEF Precedes, Unit
<1>2. QED  BY <1>1 DEF Ahead

LEMMA MarkUnits == ASSUME IInv PROVE Mark \in Seq(Unit) /\ file_index \in Nat /\ pos \in Nat
BY DDCAssumption DEF IInv, TypeOK, Mark, Unit

LEMMA StreamUnits ==
  ASSUME IInv
  PROVE  /\ Stream \in Seq(Unit) /\ delivered \o batch \in Seq(Unit)
         /\ delivered \in Seq(Unit) /\ batch \in Seq(Unit) /\ ring \in Seq(Unit)
<1>1. delivered \in Seq(Unit) /\ batch \in Seq(Unit) /\ ring \in Seq(Unit)
  BY DEF IInv, Units
<1>2. QED  BY <1>1, ConcatUnits DEF Stream

(* The frame in hand comes after all that travels, and before the next.    *)
LEMMA PutFrameOrder == ASSUME IInv, OInv, PutFrame PROVE OInv'
<1>1. rpc = "put" /\ Ahead(Stream, Mark) /\ next_file_index = file_index + 1 /\ Ordered(Stream)
  BY DEF OInv, Forward, PutFrame
<1>2. CASE ~running
  BY <1>1, <1>2 DEF OInv, Forward, PutFrame, Stream, Mark, files
<1>3. CASE running
  <2> DEFINE size == SizeOf(FrameAt(pos))
             body == Body(file_index, pos, size)
             mark == << <<file_index, pos + 1, 1>> >>
  <2>1. size \in Nat
    BY DDCAssumption DEF SizeOf, ShortUnits
  <2>2. file_index \in Int /\ pos \in Int /\ pos + 1 \in Int /\ mark \in Seq(Unit)
    BY MarkUnits DEF Unit
  <2>3. /\ body \in Seq(Unit) /\ Len(body) = size
        /\ \A u \in 1..size : body[u] = <<file_index, pos, u>>
    <3> HIDE DEF size
    <3>1. QED  BY <2>1, <2>2, BodyUnits
  <2>4. /\ ring' = ring \o body /\ UNCHANGED <<batch, delivered, file_index, next_file_index>>
        /\ pos' = pos + 1 /\ rpc' \in {"swap", "bulk"}
    BY <1>3 DEF PutFrame, Ring!Put, NextFrame
  <2>5. Mark' = mark
    BY <2>4 DEF Mark
  <2> HIDE DEF body, size
  <2>6. Ordered(body)
    BY <2>1, <2>2, <2>3 DEF Ordered, Precedes
  <2>7. Ahead(Stream, body)
    <3>1. ASSUME NEW m \in 1..Len(Stream), NEW u \in 1..size, IsData(Stream[m])
          PROVE  Precedes(Stream[m], <<file_index, pos, u>>)
      <4>1. Stream[m] \in Unit
        BY StreamUnits, ElementOfSeq
      <4>2. Precedes(Stream[m], <<file_index, pos, 1>>)
        <5>1. IsData(<<file_index, pos, 1>>)
          BY DEF IsData, Pad
        <5>2. QED  BY <1>1, <3>1, <5>1 DEF Ahead, Mark
      <4>3. QED  BY <2>1, <2>2, <4>1, <4>2 DEF Precedes, Unit
    <3>2. QED  BY <2>3, <3>1 DEF Ahead
  <2>8. Ahead(body, mark)
    BY <2>1, <2>2, <2>3 DEF Ahead, Precedes
  <2>9. Ahead(Stream, mark)
    <3>1. Ahead(Stream, << <<file_index, pos, 1>> >>) /\ Stream \in Seq(Unit)
      BY <1>1, StreamUnits DEF Mark
    <3>2. pos + 1 >= pos
      BY <2>2
    <3>3. QED  BY <2>2, <3>1, <3>2, Later
  <2>10. Stream' = Stream \o body
    <3>1. (delivered \o batch) \o (ring \o body) = Stream \o body
      <4>1. /\ delivered \o batch \in Seq(Unit) /\ ring \in Seq(Unit)
            /\ body \in Seq(Unit)
        BY <2>3, StreamUnits
      <4>2. ((delivered \o batch) \o ring) \o body = (delivered \o batch) \o (ring \o body)
        BY ONLY <4>1, Rejoin, Zenon
      <4>3. QED  BY ONLY <4>2, Zenon DEF Stream
    <3>2. QED  BY <2>4, <3>1, Zenon DEF Stream
  <2>11. Ordered(Stream \o body) /\ Ahead(Stream \o body, mark)
    <3>1. Stream \in Seq(Unit) /\ body \in Seq(Unit) /\ mark \in Seq(Unit)
      BY <2>2, <2>3, StreamUnits
    <3>2. Ordered(Stream \o body)
      BY <1>1, <2>6, <2>7, <3>1, OrderedConcat
    <3> HIDE DEF mark
    <3>3. Ahead(Stream \o body, mark)
      BY <2>8, <2>9, <3>1, AheadConcat
    <3>4. QED  BY <3>2, <3>3
  <2>12. QED  BY <1>1, <2>4, <2>5, <2>10, <2>11 DEF OInv, Forward
<1>4. QED  BY <1>2, <1>3

(* The other steps of the reader put nothing into the ring, and what they  *)
(* do to the place in the storage leads forward.                           *)
LEMMA ReaderOrder == ASSUME IInv, OInv, Reader PROVE OInv'
<1>1. ASSUME ~PutFrame PROVE Stream' = Stream /\ UNCHANGED <<ring, batch, delivered>>
  BY <1>1 DEF Reader, OpenFirst, ReaderLoop, ReadFrame, SwapFile, ReaderExit, flow, worker, Stream
<1>2. file_index \in Nat /\ pos \in Nat /\ Stream \in Seq(Unit)
  BY MarkUnits, StreamUnits
<1>3. ASSUME OpenFirst PROVE OInv'
  <2>1. ring = <<>> /\ batch = <<>> /\ delivered = <<>> /\ rpc' \in {"done", "loop"}
    BY <1>3 DEF OInv, Forward, OpenFirst
  <2>2. Stream' = <<>> /\ Stream = <<>>
    BY <1>3, <2>1 DEF Stream, OpenFirst, worker
  <2>3. Len(Stream') = 0
    BY <2>2
  <2>4. Ordered(Stream') /\ Ahead(Stream', Mark')
    BY <2>3 DEF Ordered, Ahead
  <2>5. rpc' = "loop" => next_file_index' = file_index' + 1
    BY <1>3 DEF OpenFirst, Preopen
  <2>6. QED  BY <2>1, <2>4, <2>5 DEF OInv, Forward
<1>4. ASSUME ReaderLoop \/ ReadFrame PROVE OInv'
  <2>1. /\ rpc \in {"loop", "bulk"} /\ rpc' \in {"exit", "swap", "bulk", "put"}
        /\ UNCHANGED <<file_index, next_file_index>>
        /\ pos' = pos \/ pos' = pos + 1
        /\ UNCHANGED <<ring, batch, delivered>>
    BY <1>4 DEF ReaderLoop, ReadFrame, NextFrame, files, flow, worker
  <2>2. Stream' = Stream /\ Mark' = << <<file_index, pos', 1>> >>
    BY <2>1 DEF Stream, Mark
  <2>3. Ahead(Stream, << <<file_index, pos, 1>> >>) /\ pos' \in Int /\ pos' >= pos
    BY <1>2, <2>1 DEF OInv, Forward, Mark
  <2>4. Ahead(Stream, Mark')
    BY <1>2, <2>2, <2>3, Later
  <2>5. QED  BY <2>1, <2>2, <2>4 DEF OInv, Forward
<1>5. ASSUME SwapFile PROVE OInv'
  <2>1. /\ rpc = "swap" /\ rpc' = "loop" /\ UNCHANGED <<ring, batch, delivered, storage>>
        /\ Ahead(Stream, << <<file_index, pos, 1>> >>) /\ next_file_index = file_index + 1
    BY <1>5 DEF SwapFile, OInv, Forward, Mark, flow, worker, fixed
  <2>2. Stream' = Stream
    BY <2>1 DEF Stream
  <2>3. CASE frames_in_file_left > 0
    <3>1. UNCHANGED <<file_index, pos, next_file_index>>
      BY <1>5, <2>3 DEF SwapFile, files, IInv, TypeOK
    <3>2. QED  BY <2>1, <2>2, <3>1 DEF OInv, Forward, Mark
  <2>4. CASE ~(frames_in_file_left > 0)
    <3>1. /\ file_index' = IF nextOpen THEN next_file_index ELSE After(file_index)
          /\ curOpen' = (nextOpen \/ Exists(file_index'))
          /\ IF curOpen' THEN pos' = 0 ELSE pos' = pos
          /\ next_file_index' = file_index' + 1
      BY <1>5, <2>4, Zenon DEF SwapFile, Preopen
    <3>2. Files \in Nat /\ file_index \in 0..Files
      BY DDCAssumption DEF IInv, TypeOK
    <3>3. \/ file_index' = file_index + 1
          \/ file_index' = file_index /\ file_index = Files /\ ~nextOpen
      BY <2>1, <3>1, <3>2 DEF After, Least
    <3>4. ASSUME file_index' = file_index, file_index = Files, ~nextOpen PROVE pos' = pos
      <4>1. ~Exists(file_index')
        BY <3>2, <3>4 DEF Exists
      <4>2. QED  BY <3>1, <3>4, <4>1
    <3>5. pos' \in Int /\ file_index' \in Int
      BY <1>2, <3>1, <3>3
    <3>6. file_index' > file_index \/ (file_index' = file_index /\ pos' >= pos)
      BY <1>2, <3>3, <3>4
    <3>7. Ahead(Stream, << <<file_index', pos', 1>> >>)
      BY <1>2, <2>1, <3>5, <3>6, Later
    <3>8. QED  BY <2>1, <2>2, <3>1, <3>7 DEF OInv, Forward, Mark
  <2>5. QED  BY <2>3, <2>4
<1>6. ASSUME ReaderExit PROVE OInv'
  <2>1. rpc' = "done" /\ Stream' = Stream
    BY <1>6 DEF ReaderExit, Stream, worker
  <2>2. QED  BY <2>1 DEF OInv, Forward
<1>7. QED  BY <1>3, <1>4, <1>5, <1>6, PutFrameOrder DEF Reader

(* The worker moves what travels along, and fills short batches up.        *)
LEMMA WorkerOrder == ASSUME IInv, OInv, Worker PROVE OInv'
<1>1. Stream \in Seq(Unit) /\ Mark \in Seq(Unit) /\ FrameUnits \in Nat /\ FrameUnits > 0
  BY StreamUnits, MarkUnits, DDCAssumption
<1>2. ASSUME UNCHANGED <<rpc, file_index, pos, next_file_index>>,
             Ordered(Stream'), Ahead(Stream, Mark) => Ahead(Stream', Mark),
             rpc # "open"
      PROVE  OInv'
  BY <1>2 DEF OInv, Forward, Mark
<1>3. ASSUME UNCHANGED <<ring, batch, delivered, rpc, file_index, pos, next_file_index>>
      PROVE  OInv'
  BY <1>3 DEF OInv, Forward, Mark, Stream
<1>4. ASSUME InitDDC PROVE OInv'
  <2>1. rpc' = "none" /\ Stream' = Stream
    BY <1>4 DEF InitDDC, IInv, Reading, Before, Stream
  <2>2. QED  BY <2>1 DEF OInv, Forward
<1>5. ASSUME StartReader PROVE OInv'
  <2>1. /\ ring' = <<>> /\ batch' = <<>> /\ delivered' = <<>> /\ rpc' = "open"
    BY <1>5 DEF StartReader, IInv, Reading, Before, Dry
  <2>2. Len(Stream') = 0
    BY <2>1 DEF Stream
  <2>3. QED  BY <2>1, <2>2 DEF OInv, Forward, Ordered
<1>6. ASSUME NEW n \in 0..Len(ring), Ring!Take(n), batch = <<>>, n > 0, UNCHANGED delivered,
             UNCHANGED <<rpc, file_index, pos, next_file_index>>
      PROVE  OInv'
  <2>1. ring' = SubSeq(ring, n + 1, Len(ring)) /\ batch' = SubSeq(ring, 1, n)
    BY <1>6 DEF Ring!Take
  <2>2. /\ batch' \in Seq(Unit) /\ ring' \in Seq(Unit) /\ batch' \o ring' = ring
        /\ delivered \in Seq(Unit)
    BY <2>1, StreamUnits, TakeUnits
  <2>3. delivered \o batch = delivered
    BY <1>6, StreamUnits, ConcatEmptySeq
  <2>4. (delivered \o batch') \o ring' = delivered \o (batch' \o ring')
    BY <2>2, Rejoin
  <2>5. Stream' = Stream
    BY <1>6, <2>2, <2>3, <2>4 DEF Stream
  <2>6. rpc # "open"
    <3>1. Len(ring) > 0
      BY <1>6
    <3>2. ring # <<>>
      BY <3>1
    <3>3. QED  BY <3>2 DEF OInv, Forward
  <2>7. QED  BY <1>2, <1>6, <2>5, <2>6 DEF OInv
<1>7. ASSUME ReadBatch PROVE OInv'
  <2>1. UNCHANGED <<delivered, rpc, file_index, pos, next_file_index>> /\ batch = <<>>
    BY <1>7 DEF ReadBatch, files, IInv, Units
  <2>2. CASE UNCHANGED <<ring, batch>>
    BY <1>3, <2>1, <2>2
  <2>3. CASE Len(ring) >= FrameUnits /\ Ring!Take(FrameUnits)
    <3>1. Len(ring) \in Nat
      BY StreamUnits, LenProperties
    <3>2. FrameUnits \in 0..Len(ring)
      BY <1>1, <2>3, <3>1
    <3>3. QED  BY <1>1, <1>6, <2>1, <2>3, <3>2
  <2>4. QED  BY <1>7, <2>2, <2>3 DEF ReadBatch
<1>8. ASSUME ReadTail PROVE OInv'
  <2>1. UNCHANGED <<delivered, rpc, file_index, pos, next_file_index>> /\ batch = <<>>
    BY <1>8 DEF ReadTail, files, IInv, Units
  <2>2. CASE UNCHANGED <<ring, batch>>
    BY <1>3, <2>1, <2>2
  <2>3. CASE Len(ring) \in 1..FrameUnits - 1 /\ Ring!Take(Len(ring))
    <3>1. Len(ring) \in 0..Len(ring) /\ Len(ring) > 0
      BY <1>1, <2>3, StreamUnits, LenProperties
    <3>2. QED  BY <1>6, <2>1, <2>3, <3>1
  <2>4. QED  BY <1>8, <2>2, <2>3 DEF ReadTail
<1>9. ASSUME Process, defect # "narrow" PROVE OInv'
  <2>1. /\ delivered' = delivered \o Padded(batch) /\ batch' = <<>> /\ ring' = ring
        /\ UNCHANGED <<rpc, file_index, pos, next_file_index>>
        /\ Len(batch) > 0 /\ Len(batch) <= FrameUnits
    BY <1>9 DEF Process, files, flow, IInv, Units, TypeOK
  <2>2. delivered \o Padded(batch) \in Seq(Unit)
    BY <2>1, StreamUnits, PaddedUnits, ConcatUnits
  <2>3. (delivered \o Padded(batch)) \o <<>> = delivered \o Padded(batch)
    BY <2>2, ConcatEmptySeq
  <2>4. Stream' = delivered \o Padded(batch) \o ring
    BY <2>1, <2>3 DEF Stream
  <2>5. Ordered(Stream')
    BY <1>1, <2>1, <2>4, StreamUnits, PadInside DEF OInv, Stream
  <2>6. Ahead(Stream, Mark) => Ahead(Stream', Mark)
    BY <1>1, <2>1, <2>4, StreamUnits, PadInside DEF Stream
  <2>7. rpc # "open"
    <3>1. batch # <<>>
      BY <2>1
    <3>2. QED  BY <3>1 DEF OInv, Forward
  <2>8. QED  BY <1>2, <2>1, <2>5, <2>6, <2>7
<1>10. ASSUME \/ Process /\ defect = "narrow"
              \/ StartWork \/ Prepare \/ OuterLoop \/ ExecLoop \/ AfterExec \/ Recheck
              \/ WorkerClose \/ WorkerJoin \/ Destroy \/ DestroyJoin
       PROVE  OInv'
  <2>1. UNCHANGED <<ring, batch, delivered, rpc, file_index, pos, next_file_index>>
    BY <1>10 DEF Process, StartWork, Prepare, OuterLoop, ExecLoop, AfterExec, Recheck, WorkerClose,
       WorkerJoin, Destroy, DestroyJoin, flow, files
  <2>2. QED  BY <1>3, <2>1
<1>11. QED  BY <1>4, <1>5, <1>7, <1>8, <1>9, <1>10 DEF Worker

LEMMA SpecOInv == Spec => []OInv
<1>1. ASSUME Init PROVE OInv
  <2>1. Len(Stream) = 0 /\ rpc = "none"
    BY <1>1 DEF Init, Stream
  <2>2. QED  BY <2>1 DEF OInv, Forward, Ordered
<1>2. ASSUME IInv, OInv, [Next]_vars PROVE OInv'
  <2>1. ASSUME Stopper \/ UNCHANGED vars PROVE OInv'
    <3>1. UNCHANGED <<ring, batch, delivered, rpc, file_index, pos, next_file_index>>
      BY <2>1 DEF Stopper, StopIt, StopJob, Stop, StopperClose, StopperJoin, vars, flow, files,
         worker
    <3>2. QED  BY <1>2, <3>1 DEF OInv, Forward, Mark, Stream
  <2>2. QED  BY <1>2, <2>1, ReaderOrder, WorkerOrder DEF Next
<1>3. QED  BY <1>1, <1>2, SpecIInv, PTL DEF Spec

(* Whatever is missing, cut or of another stream in the storage, what      *)
(* reaches the handler is in recording order, and nothing comes twice.     *)
THEOREM SpecInOrderOnce == Spec => []InOrderOnce
<1>1. OInv => InOrderOnce
  BY DEF OInv, Ordered, InOrderOnce, Stream
<1>2. QED  BY <1>1, SpecOInv, PTL
-----------------------------------------------------------------------------
(* The executor implements the stream of frames its job relies on.  Three  *)
(* facts are added: a thread finds its reader joined by another only after *)
(* a deletion, a job that could not start has handed over nothing, and no  *)
(* more has one whose request cannot be served.                            *)
Places ==
  /\ wpc \in {"join", "dtorJoin"} /\ ~joinable => spc = "done"
  /\ wpc \in {"init", "setup", "start", "prepare", "failed"} => delivered = <<>>
  /\ defect # "none" => delivered = <<>>
  /\ defect \in {"negative", "filetype"} =>
       wpc \in {"init", "setup", "start", "prepare", "failed", "dtorJoin", "destroyed", "threw"}
  /\ defect = "negative" => wpc \notin {"start", "prepare"}
  /\ defect \in {"none", "filetype", "negative", "narrow"}

LEMMA SpecPlaces == Spec => []Places
<1>1. Init => Places
  BY DDCAssumption DEF Init, Places
<1>2. ASSUME Places, Reader PROVE Places'
  BY <1>2 DEF Places, Reader, OpenFirst, ReaderLoop, ReadFrame, PutFrame, SwapFile, ReaderExit,
     worker, flow, fixed
<1>3. ASSUME Places, Worker PROVE Places'
  BY <1>3 DEF Places, Worker, StartWork, InitDDC, StartReader, Prepare, OuterLoop, ExecLoop,
     ReadBatch, ReadTail, Process, AfterExec, Recheck, WorkerClose, WorkerJoin, Destroy,
     DestroyJoin, flow, fixed
<1>4. ASSUME Places, Stopper PROVE Places'
  BY <1>4 DEF Places, Stopper, StopIt, StopJob, Stop, StopperClose, StopperJoin, worker, flow,
     fixed
<1>5. ASSUME Places, UNCHANGED vars PROVE Places'
  BY <1>5 DEF Places, vars, worker, flow, fixed
<1>6. ASSUME Places, [Next]_vars PROVE Places'
  BY <1>2, <1>3, <1>4, <1>5, <1>6 DEF Next
<1>7. QED  BY <1>1, <1>6, PTL DEF Spec

(* The mapping: what the job sees of the threads.                          *)
Behind == {"finished", "failed", "dtorJoin", "destroyed"}

Seen == <<Intact, defect = "none", spc # "ready", Status, delivered>>

LEMMA StatusIs ==
  /\ Crashed => Status = "crashed"
  /\ ~Crashed /\ wpc \in Behind => Status = "over"
  /\ ~Crashed /\ wpc \notin Behind => Status = "open"
BY DEF Status, Behind

LEMMA StatusBecomes ==
  /\ Crashed' => Status' = "crashed"
  /\ ~Crashed' /\ wpc' \in Behind => Status' = "over"
  /\ ~Crashed' /\ wpc' \notin Behind => Status' = "open"
BY DEF Status, Behind

LEMMA IntactStays == ASSUME UNCHANGED fixed PROVE Intact' = Intact
BY DEF Intact, Exists, fixed

(* A step that leaves both threads' sides of the line alone is unseen.     *)
LEMMA Unseen ==
  ASSUME UNCHANGED <<fixed, delivered>>, ~Crashed, ~Crashed',
         wpc' \in Behind <=> wpc \in Behind, spc' = "ready" <=> spc = "ready"
  PROVE  UNCHANGED Seen
<1>1. Status' = Status
  <2>1. CASE wpc \in Behind
    <3>1. Status = "over"
      BY <2>1, StatusIs
    <3>2. Status' = "over"
      BY <2>1, StatusBecomes
    <3>3. QED  BY <3>1, <3>2
  <2>2. CASE wpc \notin Behind
    <3>1. Status = "open"
      BY <2>2, StatusIs
    <3>2. Status' = "open"
      BY <2>2, StatusBecomes
    <3>3. QED  BY <3>1, <3>2
  <2>3. QED  BY <2>1, <2>2
<1>2. QED  BY <1>1, IntactStays DEF Seen, fixed

LEMMA InitStream == Init => Delivers!Init
<1> SUFFICES ASSUME Init PROVE Delivers!Init
  OBVIOUS
<1>1. ~Crashed /\ wpc \notin Behind /\ spc = "ready" /\ delivered = <<>>
  BY DEF Init, Crashed, Behind
<1>2. Status = "open"
  BY <1>1, StatusIs, Zenon
<1>3. Intact \in BOOLEAN
  BY DEF Intact
<1>4. QED  BY <1>1, <1>2, <1>3 DEF Delivers!Init

(* The units asked for.                                                    *)
Asked == [n \in 1..Wanted * FrameUnits |-> Expected(n)]

(* From an intact recording the handler has a part of the request, and all *)
(* of it when a job that nobody deletes has ended.                         *)
Framed ==
  Intact =>
    /\ Delivers!IsStart(delivered, Asked)
    /\ wpc = "finished" /\ spc = "ready" => delivered = Asked

LEMMA AskedUnits == Asked \in Seq(Unit) /\ Len(Asked) = Wanted * FrameUnits
<1>1. Wanted * FrameUnits \in Nat /\ FrameUnits \in Nat /\ FrameUnits > 0
      /\ FramesPerFile \in Nat /\ FramesPerFile > 0 /\ FirstOffset \in Nat
  BY DDCAssumption
<1>2. ASSUME NEW n \in 1..Wanted * FrameUnits PROVE Expected(n) \in Unit
  <2>1. n \in Int /\ n - 1 \in Int
    BY <1>1
  <2>2. (n - 1) \div FrameUnits \in Int /\ (n - 1) % FrameUnits \in Int
    BY <1>1, <2>1, DivMod
  <2>3. FirstOffset + (n - 1) \div FrameUnits \in Int
    BY <1>1, <2>2
  <2>4. /\ (FirstOffset + (n - 1) \div FrameUnits) \div FramesPerFile \in Int
        /\ (FirstOffset + (n - 1) \div FrameUnits) % FramesPerFile \in Int
    BY <1>1, <2>3, DivMod
  <2>5. QED  BY <2>2, <2>4 DEF Expected, Unit
<1>3. Asked \in Seq(Unit)
  BY <1>1, <1>2, IsASeq DEF Asked
<1>4. QED  BY <1>1, <1>3 DEF Asked

LEMMA IsFramed == IInv => Framed
<1> SUFFICES ASSUME IInv, Intact
             PROVE  /\ Delivers!IsStart(delivered, Asked)
                    /\ wpc = "finished" /\ spc = "ready" => delivered = Asked
  BY DEF Framed
<1>1. ring \in Seq(Unit) /\ batch \in Seq(Unit) /\ delivered \in Seq(Unit)
  BY DEF IInv, Units
<1>2. Asked \in Seq(Unit) /\ Len(Asked) = Wanted * FrameUnits
  BY AskedUnits
<1>3. /\ Len(delivered) <= Wanted * FrameUnits
      /\ \A n \in 1..Len(delivered) : delivered[n] = Expected(n)
  <2> DEFINE part == delivered \o batch
             whole == part \o ring
  <2>1. /\ part \in Seq(Unit) /\ Len(part) = Len(delivered) + Len(batch)
        /\ Len(delivered) \in Nat /\ Len(batch) \in Nat
        /\ \A n \in 1..Len(delivered) : part[n] = delivered[n]
    BY <1>1, ConcatUnits
  <2> HIDE DEF part
  <2>2. /\ Len(whole) = Len(part) + Len(ring) /\ Len(ring) \in Nat
        /\ \A n \in 1..Len(part) : whole[n] = part[n]
    BY <1>1, <2>1, ConcatUnits
  <2>3. /\ Len(whole) <= Wanted * FrameUnits
        /\ \A n \in 1..Len(whole) : whole[n] = Expected(n)
    BY DEF IInv, ExactStream, part
  <2> HIDE DEF whole
  <2>4. Wanted * FrameUnits \in Nat
    BY DDCAssumption
  <2>5. ASSUME NEW n \in 1..Len(delivered) PROVE delivered[n] = Expected(n)
    <3>1. n \in 1..Len(part) /\ n \in 1..Len(whole)
      BY <2>1, <2>2
    <3>2. QED  BY <2>1, <2>2, <2>3, <3>1
  <2>6. QED  BY <2>1, <2>2, <2>3, <2>4, <2>5
<1>4. \A n \in 1..Len(delivered) : Asked[n] = delivered[n]
  <2>1. \A n \in 1..Len(delivered) : n \in 1..Wanted * FrameUnits
    BY <1>1, <1>3, LenProperties, DDCAssumption
  <2>2. QED  BY <1>3, <2>1 DEF Asked
<1>5. Delivers!IsStart(delivered, Asked)
  BY <1>2, <1>3, <1>4 DEF Delivers!IsStart
<1>6. ASSUME wpc = "finished", spc = "ready" PROVE delivered = Asked
  <2>1. Len(delivered) = Len(Asked)
    BY <1>2, <1>6, Complete
  <2>2. QED  BY <1>1, <1>2, <1>4, <2>1, SeqEqual
<1>7. QED  BY <1>5, <1>6

(* A job that nobody deletes leaves its loop with all of the request, or   *)
(* never got into it.                                                      *)
LEMMA EndOfStream ==
  ASSUME Framed', Places', ~Crashed, ~Crashed', UNCHANGED <<fixed, delivered, spc>>,
         wpc \notin Behind, wpc' \in {"finished", "failed"}
  PROVE  Delivers!End
<1>1. Status = "open" /\ Status' = "over"
  BY StatusIs, StatusBecomes DEF Behind
<1>2. Intact' = Intact
  BY IntactStays
<1>3. ASSUME Intact, spc = "ready" PROVE delivered \in {<<>>, Asked}
  <2>1. CASE wpc' = "failed"
    BY <2>1 DEF Places
  <2>2. CASE wpc' = "finished"
    <3>1. Asked' = Asked
      BY DEF Asked, Expected
    <3>2. QED  BY <1>2, <1>3, <2>2, <3>1 DEF Framed
  <2>3. QED  BY <2>1, <2>2
<1>4. UNCHANGED <<spc # "ready", defect = "none">>
  BY DEF fixed
<1>5. QED  BY <1>1, <1>2, <1>3, <1>4 DEF Delivers!End, Asked

(* One more frame, while the worker is in its loop.                        *)
LEMMA HandOverOfFrame ==
  ASSUME IInv, Framed', Process, defect # "narrow", ~Crashed PROVE Delivers!HandOver
<1>1. /\ delivered' = delivered \o Padded(batch)
      /\ wpc = "process" /\ wpc' = "exec" /\ UNCHANGED <<storage, kind, defect, spc>>
  BY DEF Process, fixed
<1>2. Status = "open" /\ Status' = "open"
  BY <1>1, StatusIs, StatusBecomes DEF Behind, Crashed
<1>3. Intact' = Intact
  BY <1>1, IntactStays DEF fixed
<1>4. /\ delivered \in Seq(Unit) /\ Padded(batch) \in Seq(Unit)
      /\ Len(Padded(batch)) = FrameUnits
  BY PaddedUnits DEF IInv, Units, TypeOK
<1>5. /\ Len(delivered') = Len(delivered) + FrameUnits
      /\ Len(delivered) \in Nat /\ FrameUnits \in Nat
      /\ \A n \in 1..Len(delivered) : delivered'[n] = delivered[n]
  BY <1>1, <1>4, ConcatUnits
<1>6. Delivers!IsStart(delivered, delivered')
  BY <1>5 DEF Delivers!IsStart
<1>7. Intact => Delivers!IsStart(delivered', Asked)
  <2>1. Asked' = Asked
    BY DEF Asked, Expected
  <2>2. QED  BY <1>3, <2>1 DEF Framed, Delivers!IsStart
<1>8. QED  BY <1>1, <1>2, <1>3, <1>5, <1>6, <1>7 DEF Delivers!HandOver, Asked

(* Somebody comes to delete the job.                                       *)
LEMMA DeletionBegins ==
  ASSUME UNCHANGED <<fixed, delivered, wpc>>, ~Crashed, ~Crashed',
         spc = "ready", spc' # "ready"
  PROVE  Delivers!Delete
<1>1. Status' = Status
  <2>1. CASE wpc \in Behind
    <3>1. Status = "over"
      BY <2>1, StatusIs
    <3>2. Status' = "over"
      BY <2>1, StatusBecomes
    <3>3. QED  BY <3>1, <3>2
  <2>2. CASE wpc \notin Behind
    <3>1. Status = "open"
      BY <2>2, StatusIs
    <3>2. Status' = "open"
      BY <2>2, StatusBecomes
    <3>3. QED  BY <3>1, <3>2
  <2>3. QED  BY <2>1, <2>2
<1>2. Intact' = Intact
  BY IntactStays
<1>3. QED  BY <1>1, <1>2 DEF Delivers!Delete, fixed

(* A thread that joins what another joins ends the process, and only a     *)
(* deletion brings them to it; so does one that meets what nobody checked  *)
(* in the request.                                                         *)
LEMMA Throws ==
  ASSUME UNCHANGED <<fixed, delivered>>, Crashed', spc' # "ready" <=> spc # "ready",
         spc # "ready" \/ (defect # "none" /\ delivered = <<>>)
  PROVE  Delivers!Crash
<1>1. Status' = "crashed"
  BY StatusBecomes, Zenon
<1>2. Intact' = Intact
  BY IntactStays
<1>3. UNCHANGED <<spc # "ready", defect = "none">>
  BY DEF fixed
<1>4. QED  BY <1>1, <1>2, <1>3 DEF Delivers!Crash

(* Every step of the threads is a step of the stream, or unseen.           *)
LEMMA ReaderUnseen == ASSUME Reader, ~Crashed PROVE UNCHANGED Seen
<1>1. UNCHANGED <<fixed, delivered, wpc, spc>>
  BY DEF Reader, OpenFirst, ReaderLoop, ReadFrame, PutFrame, SwapFile, ReaderExit, worker, fixed
<1>2. ~Crashed'
  BY <1>1 DEF Crashed
<1>3. QED  BY <1>1, <1>2, Unseen

LEMMA WorkerStep ==
  ASSUME IInv, Places, Framed', Places', Worker, ~Crashed
  PROVE  Delivers!HandOver \/ Delivers!End \/ Delivers!Crash \/ UNCHANGED Seen
<1>1. CASE Process /\ defect # "narrow"
  BY <1>1, HandOverOfFrame
<1>2. CASE ~(Process /\ defect # "narrow")
  <2>1. UNCHANGED <<fixed, delivered, spc>>
    BY <1>2 DEF Worker, Process, StartWork, InitDDC, StartReader, Prepare, OuterLoop, ExecLoop, ReadBatch,
       ReadTail, AfterExec, Recheck, WorkerClose, WorkerJoin, Destroy, DestroyJoin
  <2>2. CASE wpc' = "threw"
    <3>1. \/ wpc \in {"join", "dtorJoin"} /\ Taken
          \/ defect # "none"
      BY <1>2, <2>2 DEF Worker, Process, StartWork, InitDDC, StartReader, Prepare, OuterLoop,
         ExecLoop, ReadBatch, ReadTail, AfterExec, Recheck, WorkerClose, WorkerJoin, Destroy,
         DestroyJoin, Crashed
    <3>2. spc # "ready" \/ (defect # "none" /\ delivered = <<>>)
      BY <3>1 DEF Places, Taken
    <3>3. QED  BY <2>1, <2>2, <3>2, Throws DEF Crashed
  <2>3. CASE wpc' # "threw"
    <3>1. ~Crashed'
      BY <2>1, <2>3 DEF Crashed
    <3>2. CASE wpc' \in Behind <=> wpc \in Behind
      BY <2>1, <3>1, <3>2, Unseen
    <3>3. CASE ~(wpc' \in Behind <=> wpc \in Behind)
      <4>1. wpc \notin Behind /\ wpc' \in {"finished", "failed"}
        BY <1>2, <2>3, <3>3 DEF Behind, Worker, Process, StartWork, InitDDC, StartReader, Prepare,
           OuterLoop, ExecLoop, ReadBatch, ReadTail, AfterExec, Recheck, WorkerClose, WorkerJoin,
           Destroy, DestroyJoin
      <4>2. QED  BY <2>1, <3>1, <4>1, EndOfStream
    <3>4. QED  BY <3>2, <3>3
  <2>4. QED  BY <2>2, <2>3
<1>3. QED  BY <1>1, <1>2

LEMMA StopperStep ==
  ASSUME Stopper, ~Crashed
  PROVE  Delivers!Delete \/ Delivers!Crash \/ UNCHANGED Seen
<1>1. UNCHANGED <<fixed, delivered, wpc>> /\ spc' # "ready"
  BY DEF Stopper, StopIt, StopJob, Stop, StopperClose, StopperJoin, worker
<1>2. CASE spc = "ready"
  <2>1. spc' \in {"stop", "test"}
    BY <1>2 DEF Stopper, StopIt, StopJob, Stop, StopperClose, StopperJoin
  <2>2. ~Crashed'
    BY <1>1, <2>1 DEF Crashed
  <2>3. QED  BY <1>1, <1>2, <2>2, DeletionBegins
<1>3. CASE spc # "ready"
  <2>1. CASE Crashed'
    BY <1>1, <1>3, <2>1, Throws
  <2>2. CASE ~Crashed'
    BY <1>1, <1>3, <2>2, Unseen
  <2>3. QED  BY <2>1, <2>2
<1>4. QED  BY <1>2, <1>3

(* For any sizes, storages and kinds of jobs the executor implements the   *)
(* stream of frames: each batch the next frame of an intact request, all   *)
(* of them or none unless somebody deletes the job, nothing after the end, *)
(* and no crash without a deletion, but before the first frame of a        *)
(* request whose file type or bandwidth the code cannot serve.             *)
THEOREM ExecutorImplementsFrameStream == Spec => ImplementsFrameStream
<1>1. ASSUME IInv, Places, Framed', Places', [Next]_vars
      PROVE  [Delivers!Next]_(Delivers!svars)
  <2>1. CASE UNCHANGED vars
    <3>1. UNCHANGED Seen
      <4>1. UNCHANGED <<fixed, delivered, wpc, spc>>
        BY <2>1 DEF vars, worker
      <4>2. Status' = Status
        BY <4>1 DEF Status, Crashed
      <4>3. QED  BY <4>1, <4>2, IntactStays DEF Seen, fixed
    <3>2. QED  BY <3>1 DEF Seen, Delivers!svars
  <2>2. CASE ~Crashed /\ Reader
    BY <2>2, ReaderUnseen DEF Seen, Delivers!svars
  <2>3. CASE ~Crashed /\ Worker
    BY <1>1, <2>3, WorkerStep DEF Seen, Delivers!svars, Delivers!Next
  <2>4. CASE ~Crashed /\ Stopper
    BY <2>4, StopperStep DEF Seen, Delivers!svars, Delivers!Next
  <2>5. QED  BY <1>1, <2>1, <2>2, <2>3, <2>4 DEF Next
<1>2. QED
  BY <1>1, InitStream, IsFramed, SpecIInv, SpecPlaces, PTL
     DEF Spec, ImplementsFrameStream, Delivers!Spec
=============================================================================
