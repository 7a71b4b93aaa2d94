# NPUD: models, checks and proofs

NPUD (the *Neos Processing Unit Daemon*) serves recordings of wide-band IQ samples that another
daemon has written to disk. A client asks, over a JSON control connection, to **extract** a channel
into files, to **watch** a channel and record the signals in it, or to **play** a channel as audio
over RTSP. For each request a job thread reads the recording, decimates it on a GPU and hands the
channel's samples to its handler.

This directory holds TLA+ modules of the parts whose correctness depends on the order in which
things happen, the TLC configurations that check them on small instances, and TLAPS proofs of the
results that hold for all values of the constants.

    tlc -config MCSpscRing.cfg MCSpscRing        (and so on, see "Runs")
    tlapm SpscRing_proofs.tla

## 1. Inventory

### How the parts interact

    client ──TCP──> NpuServer / NpuCtlSession ──> NpuCtlCommandHandler ──> Npu*Command
                      (one io thread)                                         │
                          ┌──────────────────────────────────────────────────┤
                          v                                                  v
                NpuExtractContainer                                NpuPlayAudioContainer
            _ext_job_container, _watch_job_cotainer                     _job_container
               │  start / stop / wait    ^ completion task                    │
               v                         │ (std::async)                       v
        NpuExtractJob, NpuWatchJob ──────┘                              NpuPlayAudioJob
         one job thread each: work()                              job, runner and RTSP threads
               │ initDDC, executeDDC, close                                   │
               v                                                              v
           DDCExecutor ── reader thread ──> SpscRing ──> executeDDC ──> onFullBuffer()
               (files of the storage)                                    │
                                                     NpuWatchProcess or file writers
                                                     OracleDBAccess: missions, results, watches

Everything the client asks for runs on the single io thread, one command per connection. What runs
beside it are the job threads, one reader thread per executor, and the completion tasks. They meet
in plain flags (`_running`), in the ring, in the maps of the containers and in the database.

### Components

| Component | State | Operations | What makes it correct |
|---|---|---|---|
| **SpscRing** (`SpscRing.h`) | `_head`, `_tail`, `_buf` | `write`, `read`, `readable`, `writable` | a FIFO without locks: no race on the array, nothing lost or repeated where array or counters wrap |
| **DDCExecutor** (`DDCExecutor.cpp`) | `_running`, `_ioDone`, `_ring`, `_readerThread`, file handles and indices | `initDDC`, `executeDDC`, the reader's loop, `stop`, `close` | samples in recording order, once, all of them; ends by itself; a stop ends both threads |
| **NpuExtractJob** | `_running`, `_ddc_exe`, output files, progress | `start`, `work`, `extractIQ`, `saveDatabase`, `stop`, `wait` | result and rows agree with what was asked; no thread left behind |
| **NpuWatchJob** | `_running`, `_ddc_exe`, `_watchProcess` | the same, with `getWatchInfo` | as above; its stop is never lost |
| **NpuWatchProcess** | `_state`, `_holdtime`, `_max_channel_power`, the open file | `onIQDataReceived`, `close` | every signal is in exactly one file, files have own names and one row each |
| **NpuExtractContainer** | the two job maps, `_mtx`, `_futures` | create, delete, list, info, completion | a job is dropped only when its thread ended; a deletion is final; nothing leaks |
| **NpuPlayAudioContainer / Job** | jobs, ports; flags and trigger of the RTSP loop as globals; the demodulators' buffers | create, delete; `start`, `work`, `stop`; `onFullBuffer` | a stop ends its own server and leaves nothing; distinct ports; no sample lost, repeated or paired with another's |
| **NpuServer, NpuCtlSession, command handlers** | `_buffer`, `_data_buffer` | read, handle, respond | a request is executed once and answered, and a signal obeyed, unless a deletion keeps the io thread |
| **generateID** (`util.hpp`) | clock, counter | one call | no id twice |
| **DataStorageSearcher**, RestClient; plan of `initDDC()` | `_decirate`, `_file_index`, `_frames_to_collect` | `search`, `createDDCIQComplex`, `initDDC` | what is read is the request, to a frame; the channel holds the band |
| OracleDBAccess, NpuConfigure | connection; key/value file | `executeUpdate`, `executeQuery`, `getValue` | I/O only |
| RWLockBuffer | reader and writer counts | lock, unlock | exclusion (allocated, never used) |
| AutoGainControl, filters, FFT, resampler, demodulators | sample history | per buffer | numeric |
| writers, IFDataFormatEncoder | open file | `init`, `write`, `close` | file layout |
| NpuDF*, FileReader, NpuSearch* | – | – | not in the build |

### Hard behaviours

`PROJECT.json` lists each with its line. In short:

* *the ring*: two `memcpy`s that only the order of two stores keeps apart; distances computed from
  counters that move on; wrapping;
* *end of input*: `executeDDC` gives up waiting, then looks at `_ioDone`, then at the ring; bytes
  and the flag may arrive between; files may be missing, short or truncated;
* *stopping*: the reader may be waiting for room, the worker for data; a stop before `initDDC()` is
  overwritten by it; two threads may join the same reader, the io thread being one;
* *unchecked requests*: an unknown file type or demodulator leaves a null pointer that a job thread
  uses; a negative bandwidth ends in a division by zero, one that is too narrow in a null FFT plan;
* *the container*: `deleteExtract()` takes no lock; completion tasks wait for threads holding the
  mutex; a job may end before it is inserted; two statements or inserts without a transaction;
* *the detector*: roll-over and hold interfere; three places save and close; failures go unnoticed;
  names are rounded to seconds;
* *play audio*: global flags, trigger and loop shared by all jobs; joins on the io thread; a job
  deleted while its server comes up; buffers that are aligned once and for all;
* *the session*: requests in pieces; exceptions from a command end the io thread; a deletion keeps it,
  and with it every other request and the signals; a response buffer that is gone when the rest of it
  is written; ids from a clock and a counter that wraps;
* *the arithmetic*: rounding of times to frames, of integers divided before `ceil()`.

## 2. Plan

Core first: what every job depends on, then the jobs, then the rest. What is done:

| Module | Uses | Proofs in |
|---|---|---|
| `ByteFifo`, `SpscRing` (refines it) | | `SpscRing_proofs` |
| `DDCExecutor` (refines `FrameStream`) | `ByteFifo` for its ring | `DDCExecutor_proofs` |
| `FramePlan` (gives `DDCExecutor` its first frame and its number of frames) | | `FramePlan_proofs` |
| `WatchProcess` (fed by the stream `FrameStream` describes) | | `WatchProcess_proofs` |
| `ExtractContainer` (with `DDCExecutor`'s loop as one step), its queries included | | `ExtractContainer_proofs` |
| `PlayAudio` (container, jobs, RTSP loops) | | `PlayAudio_proofs` |
| `AudioPath` (squelch and demodulators) | | `AudioPath_proofs` |
| `Control` (sessions, commands, ids; jobs are there or not) | | `Control_proofs` |

What is left, in this order:

1. the PCM queue between `DemodConduit` and the RTSP source, with its time stamps;
2. `IFDataFormatEncoder` and the writers of extract jobs (block arithmetic of the 16t format);
3. the choice among several recordings, `pow2ceil`, `RWLockBuffer` (never used by the program).

## 3. Modules and their code

### SpscRing, refining ByteFifo

One step per access to shared memory: loading the other thread's counter (`WriteBegin`,
`ReadBegin`), each of the two `memcpy`s (`WriteFirst`/`WriteRest`, `ReadFirst`/`ReadRest`), storing
the own counter (`WritePublish`, `ReadRelease`). A thread's own counter changes only in its own
calls, so reading it is no step. The accesses are taken to be sequentially consistent, which the
acquire/release pairs justify once there is no race on the array: each side's only other shared
accesses are to the slots `NoDataRace` is about. `Mod` is the range of `size_t`: the counters really wrap in the
model. Elements of `_buf` start with any value, as `new T[]` leaves them.

`ByteFifo` says what a ring promises: `Offer` fixes what a `write` will append, `Accept` appends
it, `Take` removes from the front. `ImplementsFifo` maps the slots between the counters to its
queue, and what `write` has claimed to its offer.

### DDCExecutor, refining FrameStream

Three threads. The **reader** is `readerLoopWithPreopen()` with `openCurrentFileIfNeeded()`,
`bulkReadFramesIntoRing()` (per frame: read, wait for room, write), `swapToNextFile()` and
`preopenNextFile()`. `FEAT_POSIX_IO` is 0 in this code, so the stream variant is modelled.
The **worker** is a job thread: `work()`'s look at the flag, `initDDC()`, preparing the output, the
loop of `extractIQ()` around `executeDDC()`, `close()` and the destructor. The **stopper** is the
thread of a delete command: for an extract job `close()`, for a watch job the job's flag, then
`stop()`. `Jobs` are the jobs looked at: a storage, a kind, and what is wrong with the request
(`defect`), which nobody checks. A negative bandwidth makes `createDDCIQComplex()` divide by zero before
there is a reader (`InitDDC`); for a file type other than `16t` and `wav`, `work()` makes no file writer
and `extractIQ()` calls `init()` of a null one when the reader already runs (`Prepare`); a bandwidth so
narrow that a batch has no sample of it leaves a null FFT plan, which the first batch executes
(`Process`). All three end the process (`threw`).

The ring is a `ByteFifo` (what `SpscRing` is shown to implement). A frame body is `FrameUnits`
units, each named by file, frame and place, so that loss, repetition and misalignment are visible in
`delivered`. A timed wait is one that may give up whenever it has not enough. `_running` is a plain
`bool` read by other threads: formally a race, modelled as single loads and stores, since each loop
that reads it calls functions the compiler cannot see through. `std::thread::join` on a thread that
somebody else has joined or is joining ends the process (`threw`); so may `close()` on an executor
that has been destroyed meanwhile.

`FrameStream` says what the job that uses an executor may rely on, without threads, files or ring:
`HandOver` adds one frame, from an intact recording the next of the request; `End` comes with all of
the request or nothing unless somebody came to delete the job (`Delete`), nothing is handed over after
it. The process ends (`Crash`) only by a deletion, or, before the first frame, by a request that is not
`servable`. `ImplementsFrameStream` maps the job's place to `status`, the stopper's to `deleted`,
`defect = "none"` to `servable` and `delivered` to `handed`.

Two things the model made visible beside the findings below. When an extract job's output cannot be
opened, `extractIQ()` returns with the reader running; only the destructor joins it
(`NoReaderAfterClose` shows that it does). And a stop that comes before `initDDC()` is forgotten:
for an extract job the deleting io thread may then find `joinable()` true a moment later and wait
for the whole extraction.

### WatchProcess

`onIQDataReceived()` with one action per way through it: `StayDead`, `BecomeAlive`, `Continue`,
`RollOver`, `Return`, `HoldOn`, `Die`; and `close()`. A batch is the unit of time, which
`DDCExecutor` justifies (`SpecBatchIsNumbered`): the batch handed over after *n* others is frame *n* of
the request, and its time stamp is *n* batches after the start.
Hold and continue time are at least one second (`NpuWatchCreateCommand.cpp:22-23` sets 1 and 9999 s),
which is the assumption `WatchAssumption` on the constants, and names have seconds (`Second`).
Opening may fail, and so may a write; the code looks at neither, and the model goes on as the code
does. The histories `disk`, `rows` and `batches` are what properties compare. A row is what
`saveDatabase()` tried to insert: whether the database accepted it nobody looks at.

### ExtractContainer

The io thread's commands (`Create`, `Insert`; `DeleteExtract` ... `DeleteResults`; `DeleteWatch`,
`StopWatch`, `JoinWatch`), a worker per job (`Begin` ... `Push`), a completion task per job (`Find`,
`Erase`, `Destroy`) and the reader of its executor (`ReaderEnds`). `_mtx` is held by the tasks and by
`deleteWatchJob()` while they wait for a worker; `deleteExtract()` does not take it, and the model gives
every such unlocked access that can coincide with a change of the map the outcome "the process ends"
beside the regular one. What happens between `initDDC()` and `close()` is one step here, which `DDCExecutor`
is about. Statements may fail. Jobs of `Unsound` ask for what the code cannot serve (`Break`).

Of the executor the model keeps `_running` (`exeRunning`) and `_readerThread` (`reader`: runs, has ended,
was joined). Three threads may join it: the worker in `close()` (`EndExtract`, `JoinReader`), the
destructor in the completion task when `extractIQ()` returned early (`Erase`, `Destroy`), and the io thread,
as `stop()` of an extract job is `close()`: `StopExtract` lowers the flag, `TestReader` asks `joinable()`,
`IoJoinReader` waits, and the daemon serves nobody meanwhile. A join of a reader that somebody else joins
or has joined (`Taken`) ends the process; so may a test of one whose job has been destroyed.

`getExtractList()` is two steps, as it reads the tables and then the map without a common lock:
`ListTables`, whose query may fail without anybody noticing, and `ListContainer`. `io.lacks` has the jobs
that were there when the command came and that the answer does not have yet. The lists and the info of
watch jobs read under `_mtx` (`AskWatches`, `Answer`).

The histories `hasty` (an extract job was deleted while one was in the container) and `together` (a job was
created while another was at work) name the uses `SoundUseSurvives` excepts.

### PlayAudio

Four threads: the **io** thread with `createPlayAudioJob()` and `deletePlayAudioJob()`, whose `stop()`
is `TriggerLoop`, `JoinLoop`, `Reclaim` and `WaitWorker`; per job the **worker** (`work()` with
`startRtspServer()` in its three parts), the **runner** (`DDCRunner`'s task) and the RTSP **loop**.
How a loop is stopped is in variables of the file that all jobs share: `watchStop`, `shutting`,
`trigger`. A trigger's number is the same in each scheduler, so only whether it is nonzero matters.
live555 and the client are external: a client plays and leaves at will. What is deleted under
somebody's feet, and a joinable `std::thread` that is destroyed, end the process (`crashed`). So does a
request of `Unsound`: a bandwidth that `initDDC()` divides by zero for (`InitDDC`), or an unknown
demodulator type, for which `work()` leaves the demodulator null until the runner uses it
(`RunnerBreaks`).

`NextPort` is the port of the job with the greatest guid plus one; jobs are numbered in the order of
their guids, which start with the time (see `generateID()` in `Control`). The histories `early` (deleted
before its server was up) and `overlap` (created beside another) name the uses in which less holds.
The worker's half second of waiting is taken to be enough for a loop to handle its trigger, at which it
looks every tenth of a second (`Lingered`); nothing else rests on time.

### AudioPath

`DemodConduit::onFullBuffer()` as one of three actions: `Silence` (squelched), `Direct` (FM, AM),
`Sideband` (USB, LSB). Samples are numbered as they are fed; a buffer is the number of its first sample.
That is all `PairsAligned` needs: the quadrature samples come out of a filter that delays them, the
delay is dropped once, and from then on both buffers lose a block at a time.

### FramePlan

`Search` (does the recording cover the request), `Halve` (`createDDCIQComplex()`: one decimation stage
more), `Plan` (`initDDC()`: file, frame, number of frames) and the frames read one by one. Its `frame`
and `toCollect` after `Plan` are the constants `FirstOffset` and `Wanted` of `DDCExecutor`, which
covers what happens when frames are not there; `SpecPlanFits` shows that they are within what
`DDCAssumption` allows, unless a request ends before it begins. Times are seconds, as the request has them.
The bandwidth is any integer: `createExtractJob()` and the others pass it on unchecked (a watch job is only
refused for zero). For a negative one no rate is low enough; the decimation doubles until the `int`
(`IntLimit`) wraps to its least value and then to zero, and the loop divides by it (`Trap`).

### Control

`NpuServer`, a `NpuCtlSession` per connection, the handler and the commands, all on the io thread.
Requests arrive in pieces, a read takes some of those that have come, and the buffer is parsed after
each: `Read`. A command is executed in the same handler (`HandleCommand`), after which the session reads
no more. `sendResponse()` writes from a local string: what the socket takes at once (`SendRoom`) is safe,
the rest is read when the string is gone (`WriteRest` chooses whether it is damaged). `Throws` lists the
requests whose exceptions on the io thread nobody catches before `main()`.

Commands change the containers only so far as lists and deletions see it; what they do to a job is in
`ExtractContainer` and `PlayAudio`, and what those modules find of the daemon's end and of blocking is
taken over here. A job for a request that cannot be served (form "unsound") is created all the same and
ends the daemon later, as two jobs of the extract and watch container may that call it back at once
(`JobFails`). A deletion is two steps (`DeleteJob`, `FinishDelete`), between which the io thread does nothing
else (`IoFree`); that of an extract or play-audio job may end the daemon (`DeleteEnds`) and need not return
(`Blocked`). `SIGTERM` and `SIGINT` come at any time (`Signal`), but their handler runs on the io thread
too (`HandleSignal`).
`GenerateID` is the clock to the millisecond and a counter modulo `Wrap`; the one assumption is that
fewer than `Wrap` ids are asked for in one millisecond, and that the clock is not set back.

## 4. Runs

| Run | Instance | Shows |
|---|---|---|
| `ring` | 4 slots, counters wrap at 8, writes of 1–3 of 2 values, reads of 1–4 | no data race, refinement of `ByteFifo` |
| `ddc` | frames of 2 units, ring of 5 usable, 2 frames a file, 3 frames from the second on; all 216 layouts of 3 files for both kinds of job, four of them for each request that cannot be served (452 jobs); fair threads | order, exactness, completeness, nothing left at close, refinement of `FrameStream`; intact requests end, stops are honoured |
| `ddc_join` | four layouts, extract jobs | **violated**: deletion and job join one reader |
| `ddc_short` | recording ends before the request | **violated**: the job never ends |
| `watch` | 4 power levels around the threshold, hold of 3 and continue time of 2 batches, 2 batches a second, 7 batches | recordings gapless and named apart, saved once, bounded, peaks that cover, no signal lost |
| `container` | 1 extract job, 2 watch jobs, one of them unsound | deletion, completion, list, and use without a crash |
| `container_live` | 1 extract job, 1 watch job, fair threads | commands return, but for the deletion of an extract job whose stop came too early; ended jobs leave |
| `play` | 3 jobs, the third unsound, with all their threads and clients, fair threads | conduits, ports, clean and returning deletions |
| `play_source` | 2 jobs | **violated**: a client reads a conduit that is gone |
| `control` | 2 connections, 15 requests (every verb, kind and form that differs), requests of 2 pieces and one more, reads of up to 2, 1 taken at once, counter of 2 values, 1 recording | executed once, ids distinct, short answers intact; answers come and signals are obeyed unless a deletion blocks |
| `frames` | frames of 3 samples, 2 a file; 8 recordings, 432 requests, in and out of them, bands from -1 on, ints below 16 | nothing past the request is read, less than two frames are missing; the channel holds the band |
| `audio` | the code's own frame and filter, 7 rates, 8 blocks | the buffers of a demodulator stay aligned |

**Why the bounds are enough.** *Ring*: four slots are the smallest ring where a write of up to three
elements can wrap in each of its positions, and counters that wrap at twice the capacity make every
combination of array and counter wrap happen.
*DDC*: three files cover the first file with its offset, a middle one entered by the pre-opened handle
and the last; three wanted frames end in the second file when all is intact and in the third (or beyond)
when frames are missing; the ring holds two and a half frames, so that the reader has to wait.
The index past the last file stays put (`After`): all further files are equally missing.
*Watch*: seven batches reach a second roll-over, a hold that is survived, one that is not and a file
after it. *Container*: a watch job and a second job of either kind suffice for two to end together and
for the command on one to meet the completion of the other; an extract job alone meets its own deletion,
list and completion; every job is created at most once, as guids are not reused. *Play*: with three jobs the
last but one can be deleted before the next is created, and a deletion of one can meet the start and
the loop of another. *Control*: one connection creates what the other lists or deletes; the second
piece of a request may come together with the first, after it, or with more behind it, and the
counter wraps with the ids of two jobs, or of a job and a recording. *Frames*: rates that are
no multiple of a frame, so that requests begin and end anywhere in one. *Audio*: blocks much longer than the delay, just longer and
shorter. For the safety properties the proofs do without these bounds.

**Fairness.** `FairSpec` of each module assumes that the operating system runs each started thread that
can take a step (weak fairness per thread). Nothing is assumed of clients: no command ever has to come
(`StopJob` and the first `Stop` are outside the fairness of the stopper, `Commands` outside that of the
io thread, `Create` and `Delete` outside that of `PlayAudio`, `Connect`, `SendPiece` and `CloseClient`
outside that of `Control`). In `ExtractContainer` an extraction need not end by itself (`ddc_short`
shows it may not), so fairness of a worker at `extract`, and of its reader, holds only once it was stopped.
In `Control` a deletion returns unless it is `Blocked`, of a job whose deletion `ExtractContainer` and
`PlayAudio` show may not return. Timed waits that expire over and over are real behaviour and allowed: the worker's step is then its next look.

**Deadlock** is checked everywhere but in `play`: there the io thread really can wait for ever for a
loop whose trigger was overwritten by another job.

### What the violated properties say

* `JoinedOnce` (`NpuExtractJob.cpp:209`, "stop + join"): the deletion of a running extract job calls
  `stop()`, which is `close()`. Its lowered flag makes the job leave its loop, where it calls `close()` as
  well, and both threads join the same reader. In the trace nothing else makes the job leave its loop: any
  deletion of a running extract job is exposed.
* `EndsWhenExhausted` (`NpuExtractJob.cpp:197`, "끝까지 비어 있으면 종료": ends when it is empty to the
  end): with files missing at the end of the range, the reader never raises `_ioDone`.
* `SourceAlive` (`NpuPlayAudioJob.cpp:963`, wait a while for the session to be cleaned up, "which
  guarantees the life of the source"): a job deleted while it starts serves on after its conduit is gone.

### What the passing properties deliberately leave open

No comment or test of the repository says otherwise of these, so they are recorded as hazards and not
as findings.

* `FinishedDeleteIsFinal` is about deletions that come after the job's end: when a *running* extract job
  is deleted its rows are inserted afterwards, because `stop()` leaves the job's `_running` up and the
  test at `NpuExtractJob.cpp:389` never fires.
* `EndedJobsLeave` excludes a job whose completion task looked for it before it was inserted: that entry
  stays. `ListedUnlessCompleting` leaves out jobs that complete between the two reads of a list, and
  jobs whose inserts failed.
* `StopHonoured` is about stops that find the executor initialised. A stop of an extract job that comes
  before is lost, and its deletion waits on the io thread for the whole extraction: `CommandReturns` excepts
  this wait, `Answered` and `SignalObeyed` except what it does to everybody else.
* `SoundUseSurvives` names the use that is free of harm: jobs created one after the other, extract jobs
  deleted when none is in the container, requests that can be served. Outside it the daemon may end:
  by the unlocked lookups of `deleteExtract()`, the double join, the unlocked `_futures`, a null pointer.
* `PeakCovers` does not say the peak was measured in the same file: after a roll-over it need not be.
* `QuietlyClean` and `StopReturns` are about jobs used one at a time: a second job takes over the flags
  and the trigger of the first, whose deletion may then hang or stop the other's loop. What ends the process
  is a deletion before the server is up, or a request nobody checked.
* `ImplementsFrameStream` and `ChannelHoldsBand` name the requests that cannot be served, and hold for them
  only up to the end of the process.
* `PairsAligned` says how far blocks shorter than the delay (decimation from 8192 on) stay apart.
* `ShortAnswersIntact` is about what the socket takes at once. A signal ends `main()` while jobs live; nobody
  calls the containers' `shutdown()`.

Noticed and not modelled: rows of results without a mission are listed with an empty guid; the PCM queue
has no bound; the high word of the frequency that `IFDataFormatEncoder` writes is always zero.

## 5. Proofs

| Module | Theorem (property) | For all |
|---|---|---|
| `SpscRing_proofs` | `TypeCorrect`, `ClaimsAlwaysFit`, `RaceFree`, `RingImplementsFifo` | capacities ≥ 2, counter ranges that are a multiple of it and at least twice it, values and call sequences |
| `DDCExecutor_proofs` | `SpecTypeOK`, `SpecExactStream`, `SpecCompleteWhenUnstopped`, `SpecNoReaderAfterClose`, `SpecNoFillAfterDone`, `SpecInOrderOnce`, `SpecBatchIsNumbered`, `ExecutorImplementsFrameStream` | frame, ring, file and batch sizes, requests and storages |
| `WatchProcess_proofs` | `TypeCorrect`, `FilesBounded`, `NamesNeverClash`, `SignalsKept`, `EnteredOnce`, `PeaksCover` | levels, thresholds, hold and continue times of a second or more, numbers of batches |
| `ExtractContainer_proofs` | `SpecTypeOK`, `SpecErasedWhenEnded`, `SpecWatchGone`, `SpecFinishedDeleteIsFinal`, `SpecSoundUseSurvives`, `SpecListedUnlessCompleting` | sets of jobs |
| `PlayAudio_proofs` | `SpecTypeOK`, `SpecRunnerHasConduit`, `SpecPortsDistinct`, `SpecQuietlyClean` | numbers of jobs |
| `AudioPath_proofs` | `SpecPairsAligned` | frame and filter sizes, rates, numbers of blocks |
| `FramePlan_proofs` | `SpecReadsTheRequest`, `SpecChannelHoldsBand`, `SpecPlanFits` | frame and file sizes, recordings, requests |
| `Control_proofs` | `SpecTypeOK`, `SpecExecutedOnce`, `SpecIdsDistinct`, `SpecShortAnswersIntact` | numbers of connections, requests, pieces, read and send sizes, ranges of the counter |

The assumptions are those on the constants, each named in the module that declares them. Two say more
than a type: `RingAssumption`, in the code by `pow2ceil` (`Cap` is a power of two) and `size_t` (`Mod`
is 2^64), and `WatchAssumption`, hold and continue times of at least one second. `DDCAssumption` asks
that the ring be larger than a frame (the code makes it many); `Jobs` are any layouts of `Files` files with
any kind and defect. `PlanAssumption` has recordings of at least one sample a second.

*Ring.* `TypeOK` and `ClaimsFit` (counters and claims stay within the array) together are inductive. A thread that is in a call has its
own counter where it was, and what the other thread does can only enlarge the space it saw: the
consumer's release enlarges `Writable`, the producer's publication `Readable`. `NoDataRace` is not
inductive; it follows: claimed and unread slots are adjacent stretches of together less than one
turn, and `ModApart` says that less than a turn apart means different slots. That `Mod` is a multiple
of `Cap` is what makes slots survive the wrap of a counter (`SlotOfDist`). For the refinement one part
is added (`Copied`): what of a call's elements has been copied stands in its slots, or in what the reader
has taken. Then loading a counter is an `Offer` or no step, a copy is no step since it leaves the unread
slots alone (`CopyLeavesUnread`, from `NoDataRace`), publishing is `Accept` (`PublishAppends`) and
releasing is `Take` (`ReleaseTakes`).

*Executor.* The exact stream is inductive only with where the reader stands: `Place` says that from an
intact recording the open file, the place in it and what was collected add up, and that the
pre-opened handle is the next file's. `Covered` shows that while frames are wanted that file exists, and
`ExpectedUnit` that the frame put into the ring is the next of the request. `Reading`, `Handles`, `Units`
and `Dry` tie the threads' places to flags, handles and the ring; `Unstopped` is what completeness needs:
nobody but a stop lowers the flag before all is read. On a *damaged* storage none of this holds, and a
second invariant is proved on top of the first (`OInv`): what travels is in order and lies before the
place the reader has reached (`Forward`), and that place only moves on.

That the executor implements `FrameStream` needs the first invariant twice, before and after a step, and
two facts more (`Places`): a thread finds its reader joined by another only after a deletion, and what
could not start has handed over nothing, nor has one whose request cannot be served. Each step is then
shown to be one of the stream's or unseen: a
`Process` is a `HandOver` (its batch is a whole frame, and what was handed over is a part of the request,
`Framed`), a step into `failed` or `finished` is an `End` (`EndOfStream`), a step that throws is a `Crash`.

*Detector.* None of the properties is inductive: how long a file may become depends on how long a hold
has delayed its roll-over, and whether two names differ depends on how long the first file has lasted.
The invariant adds `Clock` (an open file's last batch is the latest one), `Ages` (its age, per state)
and `Spacing` (each file on disk is over a second or more after its start, before the next one
starts). Three further parts are about content: `Faithful` (a file holds the batches received from its
start on), `Loud` (every batch above the threshold is in a file, unless something failed), `Entered`
(files closed and rows entered match, one to one by their second) and `Loudest` (the peak kept is at least
that of all that was put into the open file). `KeptFile` is shared by the actions that write to it.

*Container.* `Threads` ties a worker's place to its task and its flags, `Readers` says that a watch job leaves
no reader behind, and `Careful` is what `SoundUseSurvives` rests on: while no extract job is deleted too
early the io thread stays away from readers, so that who joins one finds it joinable, and while jobs are
created one at a time only one is at work. `Commanded` says that what a
command found out about its job is still true when it uses it, `Rows` and `Finals` which rows a job can
have (a job at its end has its results, unless it failed or was deleted), `Listing` that what a list
still owes between its two reads is in the container or has left it with its results.

*Play audio.* `SpecPortsDistinct` rests on ports that grow with the guids (`Ports`): the next port is one
above that of the job listed last, the greatest (`LastOf`, by well-founded induction). `Clean` is the
invariant of quiet use: `Unhurried` says that `stop()` never meets a worker that still sets the server
up, and `OwnGlobals` that the shared flags are those of the one job: its loop has its trigger, and
was not told to shut down before. `EndReason` says what has ended the process, if anything: `Unhurried`
keeps `stop()` from doing it while no job was deleted early, and what is left are jobs of `Unsound`.

*Audio, frames.* Both invariants are the property with equations for the quantities in between; the
rest is division with remainder (`DivMod`, `DivUnique`), lemmas which the modules that need them state.

*Control.* Of a session the invariant says where it is and what that means for what it has done
(`Sound`): one that still reads has executed and answered nothing, one that still writes has more to
write than the socket took at once. No other session disturbs that. For the ids the counter is
measured backwards: the
ids of the current millisecond are the youngest (`Recent`, `Age`), fewer than the counter has values by
the assumption on the clock, so that the next value is none of theirs.

Only model-checked: liveness under fairness everywhere, since the prover has no support for
`ENABLED`. No fact here needs induction over data, and recursive operators are not used.

## 6. Not modelled, and why

The repository is mostly not this program: `Build/` and `CMakeFiles/` hold some 49,000 generated lines
(compiler tests of CMake), `R&S/` is vendored, and `NpuDF*`, `FileReader` and `NpuSearch*` are not in the
build. Of the program's own sources, some 8,600 lines, the modules stand for about 1,950.
What is left:

* GPU decimation, FFT, filters, gain control and the numbers the demodulators compute: numeric code on
  samples, in which nothing waits, fails or interleaves; what the models need of it is one buffer in,
  one buffer out, and how many samples a filter holds back (`AudioPath`);
* file formats, encoders, `getWatchInfo()`'s spectrum, progress and power values: layout and arithmetic of
  what is reported, on which no control depends;
* the PCM queue and the framing of the RTSP source: handled by live555's loop, no shared decision but
  the lifetime `SourceAlive` is about;
* the Oracle and REST clients: wrappers of external services, whose failures appear where callers see
  them (inserts and statements that fail, a query that fails unnoticed, no storage found);
* configuration: read once at the start; `RWLockBuffer`: allocated, never locked;
* memory: allocation failures, and object lifetimes other than those of jobs, threads, executors, conduits
  and response buffers.
