----------------------------- MODULE DDCExecutor -----------------------------
(***************************************************************************)
(* One DDCExecutor and the three threads that touch it:                    *)
(*                                                                         *)
(*   reader   readerLoopWithPreopen(): file frames into the ring           *)
(*   worker   the job thread: initDDC(), the executeDDC() loop of          *)
(*            extractIQ(), close() (or the destructor)                     *)
(*   stopper  the thread that handles a delete command: stop() of a watch  *)
(*            job, or of an extract job, which is close()                  *)
(*                                                                         *)
(* The ring is the FIFO that SpscRing implements.  A frame body is         *)
(* FrameUnits units (body_size bytes in the code) and a unit is named by   *)
(* the file and frame it comes from, so that loss, repetition, reordering  *)
(* and misalignment show in what the handler receives.                     *)
(***************************************************************************)
EXTENDS Integers, Sequences

CONSTANTS
  FrameUnits,     (* body_size = ddc_sample_size, in units                 *)
  RingCap,        (* capacity of the ring, in units                        *)
  FramesPerFile,  (* frame_count_in_file                                   *)
  Batch,          (* _read_batch_frames                                    *)
  FirstOffset,    (* frame the request starts at within its first file     *)
  Wanted,         (* _frames_to_collect as computed by initDDC             *)
  Files,          (* bound: files 0..Files-1 may exist, later ones do not  *)
  Jobs            (* the jobs looked at: storage, kind of job and what is  *)
                  (* wrong with the request                                *)

ASSUME DDCAssumption ==
  /\ FrameUnits \in Nat \ {0} /\ RingCap \in Nat /\ RingCap > FrameUnits
  /\ FramesPerFile \in Nat \ {0} /\ Batch \in Nat \ {0}
  /\ FirstOffset \in 0..FramesPerFile - 1
  /\ Wanted \in Nat /\ Files \in Nat \ {0}
  /\ Jobs \subseteq [storage : [0..Files - 1 -> Seq(STRING)],
                     kind : {"watch", "extract"},
                     defect : {"none", "filetype", "negative", "narrow"}]
  /\ \A job \in Jobs : job.defect = "filetype" => job.kind = "extract"

(* Nobody checks a request's file type or bandwidth before the job runs.   *)
(* "filetype" is one there is no file writer for, "negative" a bandwidth   *)
(* below zero, "narrow" one so small that a batch holds no sample of it.   *)

(* A file is a sequence of frames; "iq" a full body of stream type 2,      *)
(* "short" a type-2 frame whose stream_size is less than a body, "other" a *)
(* frame of another stream type, "cut" one the file ends in the middle of. *)
Missing == <<"missing">>
ShortUnits == 1

VARIABLES
  storage,               (* the files on disk, fixed                       *)
  kind,                  (* the kind of job, fixed                         *)
  defect,                (* what is wrong with the request, fixed          *)
  jobRunning,            (* _running of the job, not of the executor       *)
  running,               (* _running                                       *)
  ioDone,                (* _ioDone                                        *)
  ring,                  (* the bytes in _ring                             *)
  batch,                 (* batch: what the last read() took               *)
  joinable,              (* _readerThread.joinable()                       *)
  rpc,                   (* where the reader is                            *)
  file_index, curOpen, pos, nextOpen, next_file_index,
  frames_in_file_left, frames_to_collect, nth,
  wpc, processed,        (* where the worker is; processed_any             *)
  spc,                   (* where the stopper is                           *)
  delivered              (* history: every unit onFullBuffer() received    *)

flow   == <<running, ioDone, ring, joinable>>
files  == <<file_index, curOpen, pos, nextOpen, next_file_index,
            frames_in_file_left, frames_to_collect, nth>>
worker == <<wpc, processed, batch, delivered>>
fixed  == <<storage, kind, defect>>
vars   == <<fixed, jobRunning, flow, rpc, files, worker, spc>>

Least(a, b) == IF a <= b THEN a ELSE b

Ring == INSTANCE ByteFifo
          WITH Data <- {}, Room <- RingCap - 1,
               queue <- ring, offer <- <<>>, taken <- batch

Exists(index) == index < Files /\ storage[index] # Missing

(* The next frame of the open file, or "cut" where the file ends.          *)
FrameAt(p) == IF p < Len(storage[file_index])
              THEN storage[file_index][p + 1] ELSE "cut"

SizeOf(frame) == IF frame = "short" THEN ShortUnits ELSE FrameUnits

Body(f, p, size) == [u \in 1..size |-> <<f, p, u>>]

(* What zero-filling the rest of a short batch appends.                    *)
Pad == <<-1, -1, -1>>
Padded(b) == b \o [u \in 1..FrameUnits - Len(b) |-> Pad]

Init ==
  /\ \E job \in Jobs :
       storage = job.storage /\ kind = job.kind /\ defect = job.defect
  /\ jobRunning = TRUE
  /\ running = FALSE /\ ioDone = FALSE
  /\ ring = <<>> /\ batch = <<>>
  /\ joinable = FALSE
  /\ rpc = "none"
  /\ file_index = 0 /\ curOpen = FALSE /\ pos = 0
  /\ nextOpen = FALSE /\ next_file_index = -1
  /\ frames_in_file_left = 0 /\ frames_to_collect = 0 /\ nth = 0
  /\ wpc = "init" /\ processed = FALSE
  /\ spc = "ready"
  /\ delivered = <<>>
-----------------------------------------------------------------------------
(* ------------------------------- reader -------------------------------- *)

(* Mutant: the current file is opened again as the next one.               *)
PreopenSame(index) ==
  /\ nextOpen' = Exists(index)
  /\ next_file_index' = index

(* preopenNextFile(), run when no next file is held open.                  *)
Preopen(index) ==
  /\ nextOpen' = Exists(index + 1)
  /\ next_file_index' = index + 1

(* openCurrentFileIfNeeded() on the first file and the first pre-open.     *)
OpenFirst ==
  /\ rpc = "open"
  /\ \/ /\ ~Exists(file_index)
        /\ ioDone' = TRUE
        /\ rpc' = "done"
        /\ UNCHANGED files
     \/ /\ Exists(file_index)
        /\ curOpen' = TRUE
        /\ pos' = FirstOffset
        /\ frames_in_file_left' =
             Least(FramesPerFile - FirstOffset, frames_to_collect)
        /\ Preopen(file_index)
        /\ rpc' = "loop"
        /\ UNCHANGED <<ioDone, file_index, frames_to_collect, nth>>
  /\ UNCHANGED <<fixed, jobRunning, running, ring, joinable, worker, spc>>

(* The loop test and the early returns of bulkReadFramesIntoRing().        *)
ReaderLoop ==
  /\ rpc = "loop"
  /\ rpc' = IF ~(running /\ frames_to_collect > 0) THEN "exit"
            ELSE IF curOpen /\ frames_in_file_left > 0 THEN "bulk" ELSE "swap"
  /\ nth' = 0
  /\ UNCHANGED <<fixed, jobRunning, flow, file_index, curOpen, pos, nextOpen, next_file_index,
                 frames_in_file_left, frames_to_collect, worker, spc>>

(* One frame is behind us: the end of an iteration of the batch.           *)
NextFrame ==
  /\ pos' = pos + 1
  /\ frames_in_file_left' = frames_in_file_left - 1
  /\ nth' = nth + 1
  /\ rpc' = IF frames_in_file_left' <= 0 \/ nth' >= Batch THEN "swap" ELSE "bulk"

(* One iteration up to the frame's body: a stop and a collected request    *)
(* end the batch, another stream type is skipped, a short read gives the   *)
(* rest of the file up.                                                    *)
ReadFrame ==
  /\ rpc = "bulk"
  /\ \/ /\ ~running \/ frames_to_collect <= 0
        /\ rpc' = "swap"
        /\ UNCHANGED files
     \/ /\ running /\ frames_to_collect > 0
        /\ FrameAt(pos) = "other"
        /\ NextFrame
        /\ UNCHANGED <<file_index, curOpen, nextOpen, next_file_index,
                       frames_to_collect>>
     \/ /\ running /\ frames_to_collect > 0
        /\ FrameAt(pos) = "cut"
        /\ frames_in_file_left' = 0
        /\ rpc' = "swap"
        /\ UNCHANGED <<file_index, curOpen, pos, nextOpen, next_file_index,
                       frames_to_collect, nth>>
     \/ /\ running /\ frames_to_collect > 0
        /\ FrameAt(pos) \in {"iq", "short"}
        /\ rpc' = "put"
        /\ UNCHANGED files
  /\ UNCHANGED <<fixed, jobRunning, flow, worker, spc>>

(* Mutant: the frame is written without waiting for room, so that write()  *)
(* takes only the part of it that fits.                                    *)
PutFrameNoWait ==
  /\ rpc = "put"
  /\ LET body == Body(file_index, pos, SizeOf(FrameAt(pos)))
     IN  Ring!Put(SubSeq(body, 1, Least(Len(body), Ring!Free)))
  /\ frames_to_collect' = frames_to_collect - 1
  /\ NextFrame
  /\ UNCHANGED <<fixed, jobRunning, running, ioDone, joinable, wpc, processed,
                 delivered, spc, file_index, curOpen, nextOpen, next_file_index>>

(* Waiting for room, then the write; a stop abandons the frame in hand.    *)
PutFrame ==
  /\ rpc = "put"
  /\ \/ /\ running
        /\ LET body == Body(file_index, pos, SizeOf(FrameAt(pos)))
           IN  Ring!Put(body)
        /\ frames_to_collect' = frames_to_collect - 1
        /\ NextFrame
        /\ UNCHANGED <<file_index, curOpen, nextOpen, next_file_index>>
     \/ /\ ~running
        /\ rpc' = "swap"
        /\ UNCHANGED <<ring, batch, files>>
  /\ UNCHANGED <<fixed, jobRunning, running, ioDone, joinable, wpc, processed, delivered, spc>>

(* An index past the last file stays past it (bound Files).                *)
After(index) == Least(index + 1, Files)

(* Mutant: a file that cannot be opened is taken for the end of the input. *)
SwapFileDone ==
  /\ rpc = "swap"
  /\ rpc' = "loop"
  /\ \/ /\ frames_in_file_left > 0
        /\ UNCHANGED <<ioDone, files>>
     \/ /\ frames_in_file_left <= 0
        /\ file_index' = IF nextOpen THEN next_file_index ELSE After(file_index)
        /\ curOpen' = (nextOpen \/ Exists(file_index'))
        /\ IF curOpen'
           THEN /\ pos' = 0
                /\ frames_in_file_left' = Least(FramesPerFile, frames_to_collect)
           ELSE UNCHANGED <<pos, frames_in_file_left>>
        /\ Preopen(file_index')
        /\ ioDone' = (ioDone \/ ~curOpen')
        /\ UNCHANGED <<frames_to_collect, nth>>
  /\ UNCHANGED <<fixed, jobRunning, running, ring, joinable, worker, spc>>

(* The end of an iteration of readerLoopWithPreopen(): swapToNextFile()    *)
(* and preopenNextFile() once the current file has nothing left to give.   *)
SwapFile ==
  /\ rpc = "swap"
  /\ rpc' = "loop"
  /\ \/ /\ frames_in_file_left > 0
        /\ UNCHANGED files
     \/ /\ frames_in_file_left <= 0
        /\ file_index' = IF nextOpen THEN next_file_index ELSE After(file_index)
        /\ curOpen' = (nextOpen \/ Exists(file_index'))
        /\ IF curOpen'
           THEN /\ pos' = 0
                /\ frames_in_file_left' = Least(FramesPerFile, frames_to_collect)
           ELSE UNCHANGED <<pos, frames_in_file_left>>
        /\ Preopen(file_index')
        /\ UNCHANGED <<frames_to_collect, nth>>
  /\ UNCHANGED <<fixed, jobRunning, flow, worker, spc>>

(* Mutant: the reader ends without saying so.                              *)
ReaderExitSilent ==
  /\ rpc = "exit"
  /\ curOpen' = FALSE /\ nextOpen' = FALSE
  /\ rpc' = "done"
  /\ UNCHANGED <<fixed, jobRunning, flow, file_index, pos, next_file_index,
                 frames_in_file_left, frames_to_collect, nth, worker, spc>>

(* Out of the loop: close both files, then publish _ioDone.                *)
ReaderExit ==
  /\ rpc = "exit"
  /\ curOpen' = FALSE /\ nextOpen' = FALSE
  /\ ioDone' = TRUE
  /\ rpc' = "done"
  /\ UNCHANGED <<fixed, jobRunning, running, ring, joinable, file_index, pos, next_file_index,
                 frames_in_file_left, frames_to_collect, nth, worker, spc>>

Reader == OpenFirst \/ ReaderLoop \/ ReadFrame \/ PutFrame \/ SwapFile \/ ReaderExit
-----------------------------------------------------------------------------
(* ------------------------------- worker -------------------------------- *)

(* The look work() has at the job's flag before it starts.                 *)
StartWork ==
  /\ wpc = "init"
  /\ wpc' = IF jobRunning THEN "setup" ELSE "failed"
  /\ UNCHANGED <<fixed, jobRunning, flow, rpc, files, processed, batch, delivered, spc>>

(* initDDC() up to _running = true, which it raises whatever happened to   *)
(* it before.  Where the range is refused or no GPU decimator can be made  *)
(* the job ends before that and without a reader.  For a negative bandwidth *)
(* createDDCIQComplex() doubles the decimation until it is zero and divides *)
(* by it.                                                                  *)
InitDDC ==
  /\ wpc = "setup"
  /\ \/ /\ defect # "negative"
        /\ running' = TRUE
        /\ frames_to_collect' = Wanted
        /\ file_index' = 0
        /\ wpc' = "start"
     \/ /\ wpc' = "failed" \/ (defect = "negative" /\ wpc' = "threw")
        /\ UNCHANGED <<running, frames_to_collect, file_index>>
  /\ UNCHANGED <<fixed, jobRunning, ioDone, ring, joinable, rpc, curOpen, pos,
                 nextOpen, next_file_index, frames_in_file_left, nth, processed,
                 batch, delivered, spc>>

(* The rest of initDDC(): an empty ring and the reader thread.             *)
StartReader ==
  /\ wpc = "start"
  /\ ring' = <<>>
  /\ ioDone' = FALSE
  /\ joinable' = TRUE
  /\ rpc' = "open"
  /\ wpc' = "prepare"
  /\ UNCHANGED <<fixed, jobRunning, running, files, processed, batch, delivered, spc>>

(* The job opens its output.  When an extract job cannot, extractIQ()      *)
(* returns and the reader runs on until the job is destroyed.  When work() *)
(* found no file writer for the file type it calls init() of a null one.   *)
Prepare ==
  /\ wpc = "prepare"
  /\ \/ wpc' = IF defect = "filetype" THEN "threw" ELSE "outer"
     \/ kind = "extract" /\ wpc' = "failed"
  /\ UNCHANGED <<fixed, jobRunning, flow, rpc, files, processed, batch, delivered, spc>>

(* Mutant: a watch job looks at the executor's flag only.                  *)
OuterLoopOneFlag ==
  /\ wpc = "outer"
  /\ wpc' = IF running THEN "exec" ELSE "close"
  /\ processed' = FALSE
  /\ UNCHANGED <<fixed, jobRunning, flow, rpc, files, batch, delivered, spc>>

(* The loop of extractIQ(): getRunning(), for a watch job also its flag.   *)
OuterLoop ==
  /\ wpc = "outer"
  /\ wpc' = IF jobRunning /\ running THEN "exec" ELSE "close"
  /\ processed' = FALSE
  /\ UNCHANGED <<fixed, jobRunning, flow, rpc, files, batch, delivered, spc>>

(* while (_running), inside executeDDC().                                  *)
ExecLoop ==
  /\ wpc = "exec"
  /\ wpc' = IF running THEN "wait" ELSE "return"
  /\ UNCHANGED <<fixed, jobRunning, flow, rpc, files, processed, batch, delivered, spc>>

(* waitUntilReadable(): enough bytes, or it gave up (time out, ioDone or   *)
(* stopped) and its last look still found too few.                         *)
ReadBatch ==
  /\ wpc = "wait"
  /\ \/ /\ Len(ring) >= FrameUnits
        /\ Ring!Take(FrameUnits)
        /\ wpc' = "process"
     \/ /\ Len(ring) < FrameUnits
        /\ wpc' = "tail"
        /\ UNCHANGED <<ring, batch>>
  /\ UNCHANGED <<fixed, jobRunning, running, ioDone, joinable, rpc, files, processed,
                 delivered, spc>>

(* Too few bytes: wait on while the reader may still bring more, hand over *)
(* what is left of the input, or return.                                   *)
ReadTail ==
  /\ wpc = "tail"
  /\ \/ /\ ~ioDone
        /\ wpc' = "exec"
        /\ UNCHANGED <<ring, batch>>
     \/ /\ ioDone
        /\ Len(ring) \in 1..FrameUnits - 1
        /\ Ring!Take(Len(ring))
        /\ wpc' = "process"
     \/ /\ ioDone
        /\ Len(ring) \notin 1..FrameUnits - 1
        /\ wpc' = "return"
        /\ UNCHANGED <<ring, batch>>
  /\ UNCHANGED <<fixed, jobRunning, running, ioDone, joinable, rpc, files, processed,
                 delivered, spc>>

(* Mutant: a short batch is handed over as it is.                          *)
ProcessUnpadded ==
  /\ wpc = "process"
  /\ delivered' = delivered \o batch
  /\ batch' = <<>>
  /\ processed' = TRUE
  /\ wpc' = "exec"
  /\ UNCHANGED <<fixed, jobRunning, flow, rpc, files, spc>>

(* DDC and onFullBuffer() on the batch, zero-filled if it is short.  A     *)
(* batch without samples has no FFT plan and executes it all the same.     *)
Process ==
  /\ wpc = "process"
  /\ \/ /\ defect # "narrow"
        /\ delivered' = delivered \o Padded(batch)
        /\ batch' = <<>>
        /\ processed' = TRUE
        /\ wpc' = "exec"
     \/ /\ defect = "narrow"
        /\ wpc' = "threw"
        /\ UNCHANGED <<delivered, batch, processed>>
  /\ UNCHANGED <<fixed, jobRunning, flow, rpc, files, spc>>

(* Mutant: an idle return with the reader finished ends the loop, whatever *)
(* the ring holds.                                                         *)
AfterExecEager ==
  /\ wpc = "return"
  /\ wpc' = IF ~processed /\ ioDone THEN "close" ELSE "outer"
  /\ UNCHANGED <<fixed, jobRunning, flow, rpc, files, processed, batch, delivered, spc>>

(* Back in extractIQ(): an idle return with the reader finished and the    *)
(* ring empty, ten rechecks long, ends the loop.                           *)
AfterExec ==
  /\ wpc = "return"
  /\ wpc' = IF ~processed /\ ioDone /\ ring = <<>> THEN "recheck" ELSE "outer"
  /\ UNCHANGED <<fixed, jobRunning, flow, rpc, files, processed, batch, delivered, spc>>

Recheck ==
  /\ wpc = "recheck"
  /\ wpc' = IF ring # <<>> THEN "outer" ELSE "close"
  /\ UNCHANGED <<fixed, jobRunning, flow, rpc, files, processed, batch, delivered, spc>>

(* join() returns when the reader has ended.  On a thread somebody else    *)
(* has joined or is joining it throws std::system_error, which nobody      *)
(* catches: the process is over, as it is where a thread throws above.     *)
CanJoin == joinable /\ rpc = "done"
Taken == ~joinable \/ (spc = "join" /\ wpc \in {"join", "dtorJoin"})
Crashed == "threw" \in {wpc, spc}

(* Mutant: close() does not join.                                          *)
WorkerCloseNoJoin ==
  /\ wpc = "close"
  /\ running' = FALSE
  /\ wpc' = "finished"
  /\ UNCHANGED <<fixed, jobRunning, ioDone, ring, joinable, rpc, files, processed,
                 batch, delivered, spc>>

(* close() of the job that leaves its loop: stop(), then the joinable()    *)
(* test and the join, which another thread may come between.               *)
WorkerClose ==
  /\ wpc = "close"
  /\ running' = FALSE
  /\ wpc' = IF joinable THEN "join" ELSE "finished"
  /\ UNCHANGED <<fixed, jobRunning, ioDone, ring, joinable, rpc, files, processed,
                 batch, delivered, spc>>

WorkerJoin ==
  /\ wpc = "join"
  /\ \/ CanJoin /\ joinable' = FALSE /\ wpc' = "finished"
     \/ Taken /\ wpc' = "threw" /\ UNCHANGED joinable
  /\ UNCHANGED <<fixed, jobRunning, running, ioDone, ring, rpc, files, processed,
                 batch, delivered, spc>>

(* Mutant: the destructor joins the reader without asking joinable().      *)
DestroyUntested ==
  /\ wpc \in {"finished", "failed"}
  /\ kind = "watch" => spc # "stop"
  /\ running' = FALSE
  /\ wpc' = "dtorJoin"
  /\ UNCHANGED <<fixed, jobRunning, ioDone, ring, joinable, rpc, files, processed,
                 batch, delivered, spc>>

(* The container drops the ended job: ~DDCExecutor() stops the executor    *)
(* and joins a reader an early return of extractIQ() left running.  Only   *)
(* the deletion of a watch job keeps it from doing so meanwhile.           *)
Destroy ==
  /\ wpc \in {"finished", "failed"}
  /\ kind = "watch" => spc # "stop"
  /\ running' = FALSE
  /\ wpc' = IF joinable THEN "dtorJoin" ELSE "destroyed"
  /\ UNCHANGED <<fixed, jobRunning, ioDone, ring, joinable, rpc, files, processed,
                 batch, delivered, spc>>

DestroyJoin ==
  /\ wpc = "dtorJoin"
  /\ \/ CanJoin /\ joinable' = FALSE /\ wpc' = "destroyed"
     \/ Taken /\ wpc' = "threw" /\ UNCHANGED joinable
  /\ UNCHANGED <<fixed, jobRunning, running, ioDone, ring, rpc, files, processed,
                 batch, delivered, spc>>
-----------------------------------------------------------------------------
(* The delete command finds the job while it is in the container.  A watch *)
(* job's stop() lowers the job's flag before it stops the executor.        *)
Reachable == wpc \notin {"dtorJoin", "destroyed"}

StopJob ==
  /\ spc = "ready" /\ kind = "watch" /\ Reachable
  /\ jobRunning' = FALSE
  /\ spc' = "stop"
  /\ UNCHANGED <<fixed, flow, rpc, files, worker>>

(* stop() of the executor.  Before initDDC() has run nothing is left of it. *)
Stop ==
  /\ \/ spc = "stop" /\ spc' = "done"
     \/ spc = "ready" /\ kind = "extract" /\ Reachable /\ spc' = "test"
  /\ running' = FALSE
  /\ UNCHANGED <<fixed, jobRunning, ioDone, ring, joinable, rpc, files, worker>>

(* The rest of close() on the thread of the delete command, which nothing  *)
(* protects from the job's destruction: what joinable() and join() then    *)
(* do is undefined.                                                        *)
StopperClose ==
  /\ spc = "test"
  /\ \/ spc' = IF joinable THEN "join" ELSE "done"
     \/ wpc = "destroyed" /\ spc' = "threw"
  /\ UNCHANGED <<fixed, jobRunning, flow, rpc, files, worker>>

StopperJoin ==
  /\ spc = "join"
  /\ \/ CanJoin /\ joinable' = FALSE /\ spc' = "done"
     \/ Taken /\ spc' = "threw" /\ UNCHANGED joinable
  /\ UNCHANGED <<fixed, jobRunning, running, ioDone, ring, rpc, files, worker>>

Worker == \/ StartWork \/ InitDDC \/ StartReader \/ Prepare \/ OuterLoop \/ ExecLoop
          \/ ReadBatch \/ ReadTail \/ Process \/ AfterExec \/ Recheck
          \/ WorkerClose \/ WorkerJoin \/ Destroy \/ DestroyJoin

StopIt == Stop \/ StopperClose \/ StopperJoin
Stopper == StopJob \/ StopIt

(* The job's thread is through with the executor.                          *)
Over == wpc \in {"finished", "destroyed"}

(* Nothing is left to do (the deletion need never come).                   *)
Terminated == Crashed \/ (wpc = "destroyed" /\ spc \in {"ready", "done"})

Next == \/ ~Crashed /\ (Reader \/ Worker \/ Stopper)
        \/ Terminated /\ UNCHANGED vars

Spec == Init /\ [][Next]_vars

(* The scheduler runs every started thread; nobody has to delete the job.  *)
FairSpec ==
  /\ Spec
  /\ WF_vars(~Crashed /\ Reader)
  /\ WF_vars(~Crashed /\ Worker)
  /\ WF_vars(~Crashed /\ spc # "ready" /\ StopIt)
-----------------------------------------------------------------------------
(* The threads are at known places, the ring within its capacity and every *)
(* batch handed to the handler a full one (DDCExecutor.cpp:385-454).       *)
TypeOK ==
  /\ running \in BOOLEAN /\ ioDone \in BOOLEAN /\ joinable \in BOOLEAN
  /\ rpc \in {"none", "open", "loop", "bulk", "put", "swap", "exit", "done"}
  /\ wpc \in {"init", "setup", "start", "prepare", "outer", "exec", "wait", "tail",
              "process", "return", "recheck", "close", "join", "failed",
              "finished", "dtorJoin", "destroyed", "threw"}
  /\ spc \in {"ready", "stop", "test", "join", "done", "threw"}
  /\ file_index \in 0..Files /\ pos \in 0..FramesPerFile
  /\ frames_to_collect \in 0..Wanted
  /\ frames_in_file_left \in 0..FramesPerFile
  /\ Len(ring) <= RingCap - 1 /\ Len(batch) <= FrameUnits
  /\ Len(delivered) % FrameUnits = 0

(* What was read from the storage, and not filled in.                      *)
IsData(u) == u # Pad

Precedes(a, b) ==
  \/ a[1] < b[1]
  \/ a[1] = b[1] /\ a[2] < b[2]
  \/ a[1] = b[1] /\ a[2] = b[2] /\ a[3] < b[3]

(* Whatever is missing, truncated or not IQ in the storage, the handler    *)
(* receives samples in recording order and never twice: file swaps, the    *)
(* pre-opened handle and the hand-over between the threads repeat nothing. *)
InOrderOnce ==
  LET stream == delivered \o batch \o ring
  IN  \A m, n \in 1..Len(stream) :
        m < n /\ IsData(stream[m]) /\ IsData(stream[n]) => Precedes(stream[m], stream[n])

(* The files the request covers are all there, full of IQ frames.          *)
Intact ==
  \A f \in 0..(FirstOffset + Wanted - 1) \div FramesPerFile :
    /\ Exists(f)
    /\ storage[f] = [p \in 1..FramesPerFile |-> "iq"]

Expected(n) ==
  LET frame == FirstOffset + (n - 1) \div FrameUnits
  IN  <<frame \div FramesPerFile, frame % FramesPerFile, ((n - 1) % FrameUnits) + 1>>

(* From an intact recording the handler receives the request's frames with *)
(* no gap and each batch is one frame: batch n starts at n times the batch *)
(* duration, which is how executeDDC() computes its timestamp (line 446).  *)
ExactStream ==
  Intact =>
    LET stream == delivered \o batch \o ring
    IN  /\ Len(stream) <= Wanted * FrameUnits
        /\ \A n \in 1..Len(stream) : stream[n] = Expected(n)

(* A job that ends by itself has handed over all the reader brought, even  *)
(* if the last bytes and ioDone arrived while executeDDC() was giving up   *)
(* (the race of lines 402-414), and all of the request when it was intact. *)
CompleteWhenUnstopped ==
  wpc = "finished" /\ spc = "ready" =>
    /\ ring = <<>> /\ batch = <<>>
    /\ Intact => Len(delivered) = Wanted * FrameUnits

Status == CASE Crashed -> "crashed"
            [] ~Crashed /\ wpc \in {"finished", "failed", "dtorJoin", "destroyed"} -> "over"
            [] OTHER -> "open"

(* Whatever the three threads do, the job sees a stream of frames: each is *)
(* the next of the request, none comes after the end, a job that nobody    *)
(* deletes gets all of them or could not start, and the process ends only  *)
(* through a deletion, or before the first frame of a request whose file   *)
(* type or bandwidth the code cannot serve (DDCExecutor.cpp:122-143,       *)
(* 145-175, 385-454; NpuExtractJob.cpp:101, 169).                          *)
Delivers == INSTANCE FrameStream
              WITH Request <- [n \in 1..Wanted * FrameUnits |-> Expected(n)],
                   intact <- Intact, servable <- defect = "none",
                   deleted <- spc # "ready",
                   status <- Status, handed <- delivered

ImplementsFrameStream == Delivers!Spec

(* Once ioDone is up nothing is added to the ring, as the comment of line  *)
(* 812 says: an empty ring then means the end of the input.                *)
NoFillAfterDone == [][ioDone => Len(ring') <= Len(ring)]_vars

(* When close() or the destructor has returned no reader is left to touch  *)
(* the ring and the files, which are destroyed next (lines 122-143).       *)
NoReaderAfterClose ==
  Over =>
    rpc \in {"none", "done"} /\ ~curOpen /\ ~nextOpen

(* A request the storage covers comes to an end without being stopped.     *)
EndsWhenIntact == Intact => <>(Over \/ Crashed)

(* A stop that finds the executor initialised ends both threads, wherever  *)
(* they are: the reader waiting for room, the worker waiting for data.  The *)
(* stop of a watch job is never lost, not even when initDDC() raises the   *)
(* executor's flag after it: the job's own flag is looked at as well       *)
(* (NpuWatchJob.cpp:64-71, 101 and 133-139).                               *)
StopHonoured ==
  /\ wpc \notin {"init", "setup"} /\ ~running ~> (Over /\ rpc \in {"none", "done"}) \/ Crashed
  /\ ~jobRunning ~> (Over /\ rpc \in {"none", "done"}) \/ Crashed

(* What line 209 of NpuExtractJob.cpp relies on, "stop + join": whoever    *)
(* closes the executor, its reader is joined by one thread.                *)
JoinedOnce == ~(wpc = "join" /\ spc = "join")

(* What line 196 of NpuExtractJob.cpp says: once the input is used up and  *)
(* the ring stays empty, the job ends.                                     *)
EndsWhenExhausted == <>(Over \/ Crashed)
=============================================================================
