------------------------------ MODULE PlayAudio ------------------------------
(***************************************************************************)
(* NpuPlayAudioContainer and its jobs.  A job has three threads beside the *)
(* io thread that creates and deletes it:                                  *)
(*                                                                         *)
(*   worker   work(): opens the recording, keeps the executor and the      *)
(*            conduit (its local variables) until the job is stopped       *)
(*   runner   DDCRunner's task: executeDDC() into the conduit              *)
(*   loop     the RTSP server of the job: live555's doEventLoop(), which   *)
(*            reads the conduit while a client plays                       *)
(*                                                                         *)
(* How a loop is stopped is recorded in variables of the file, which all   *)
(* jobs share: the watch variable, a flag against a second shutdown, and   *)
(* the number of the trigger.  live555 gives the trigger the same number   *)
(* in every scheduler, so that only whether there is one matters.          *)
(***************************************************************************)
EXTENDS Integers, FiniteSets

CONSTANTS
  MaxJobs,    (* how many jobs are ever created                            *)
  BasePort,   (* the port of the first one, 8554                           *)
  Unsound     (* the jobs whose request nobody checked and the code cannot *)
              (* serve: a demodtype it does not know, or a bandwidth that  *)
              (* is negative or too narrow for a channel                   *)

ASSUME PlayAssumption == /\ MaxJobs \in Nat /\ BasePort \in Nat
                         /\ Unsound \subseteq 1 .. MaxJobs

(* Jobs are numbered in the order of their guids, which start with a time. *)
Jobs == 1 .. MaxJobs

VARIABLES
  io,         (* the command in progress                                   *)
  listed,     (* the jobs in _job_container and _job_ports                 *)
  port,       (* the port of each job                                      *)
  running,    (* _running of the jobs                                      *)
  worker,     (* where each worker is                                      *)
  exe,        (* _running of the executors                                 *)
  conduit,    (* the jobs whose DemodConduit exists                        *)
  runner,     (* where each runner is                                      *)
  env,        (* the jobs with an _env and a _scheduler                    *)
  bound,      (* the jobs with an RTSP server on their port                *)
  loop,       (* where each server thread is                               *)
  pending,    (* the jobs whose scheduler has a trigger to handle          *)
  stream,     (* the jobs a client is playing                              *)
  watchStop, shutting, trigger,    (* g_watchStop, g_shuttingDown, and     *)
              (* whether g_shutdownTrigger is a number                     *)
  crashed,    (* the process has ended by undefined behaviour, a division  *)
              (* by zero or terminate                                      *)
  early,      (* history: jobs deleted before their server was up          *)
  overlap     (* history: a job was created beside another one             *)

globals == <<watchStop, shutting, trigger>>
serving == <<env, bound, loop, pending, stream>>
reading == <<exe, conduit, runner>>
history == <<early, overlap>>
vars == <<io, listed, port, running, worker, reading, serving, globals, crashed, history>>

Idle == [op |-> "idle", job |-> 0]

Init ==
  /\ io = Idle
  /\ listed = {} /\ port = [j \in Jobs |-> 0]
  /\ running = [j \in Jobs |-> FALSE]
  /\ worker = [j \in Jobs |-> "none"]
  /\ exe = {} /\ conduit = {}
  /\ runner = [j \in Jobs |-> "none"]
  /\ env = {} /\ bound = {} /\ pending = {} /\ stream = {}
  /\ loop = [j \in Jobs |-> "none"]
  /\ watchStop = FALSE /\ shutting = FALSE /\ trigger = FALSE
  /\ crashed = FALSE
  /\ early = {} /\ overlap = FALSE
-----------------------------------------------------------------------------
(* ----------------------------- io thread ------------------------------- *)

(* Mutant: the ports are counted from the number of jobs that are listed.  *)
CountedPort == BasePort + Cardinality(listed)

(* Mutant: every job is given a pair of ports, as RTP and RTCP would be.   *)
PortOfPair == IF listed = {} THEN BasePort
              ELSE port[CHOOSE a \in listed : \A b \in listed : b <= a] + 2

(* The port after that of the job with the greatest guid.                  *)
NextPort ==
  IF listed = {} THEN BasePort
  ELSE port[CHOOSE a \in listed : \A b \in listed : b <= a] + 1

(* Mutant: the constructor leaves the flag of the last shutdown up.        *)
CreateFlagged(j) ==
  /\ io = Idle
  /\ worker[j] = "none" /\ \A k \in 1 .. j - 1 : worker[k] # "none"
  /\ port' = [port EXCEPT ![j] = NextPort]
  /\ listed' = listed \cup {j}
  /\ running' = [running EXCEPT ![j] = TRUE]
  /\ worker' = [worker EXCEPT ![j] = "init"]
  /\ overlap' = (overlap \/ listed # {})
  /\ UNCHANGED <<io, reading, serving, globals, crashed, early>>

(* createPlayAudioJob(), when a storage was found.  The constructor of the *)
(* job resets the flags of the file.                                       *)
Create(j) ==
  /\ io = Idle
  /\ worker[j] = "none" /\ \A k \in 1 .. j - 1 : worker[k] # "none"
  /\ port' = [port EXCEPT ![j] = NextPort]
  /\ listed' = listed \cup {j}
  /\ running' = [running EXCEPT ![j] = TRUE]
  /\ worker' = [worker EXCEPT ![j] = "init"]
  /\ shutting' = FALSE
  /\ overlap' = (overlap \/ listed # {})
  /\ UNCHANGED <<io, reading, serving, watchStop, trigger, crashed, early>>

Starting(j) == worker[j] \in {"init", "env", "open", "launch"}

(* deletePlayAudioJob(): find() finds it, and stop() lowers its flag.      *)
Delete(j) ==
  /\ io = Idle /\ j \in listed
  /\ running' = [running EXCEPT ![j] = FALSE]
  /\ io' = [op |-> "trigger", job |-> j]
  /\ early' = IF Starting(j) THEN early \cup {j} ELSE early
  /\ UNCHANGED <<listed, port, worker, reading, serving, globals, crashed, overlap>>

TriggerLoop ==
  /\ io.op = "trigger"
  /\ pending' = IF io.job \in env /\ trigger THEN pending \cup {io.job} ELSE pending
  /\ io' = [io EXCEPT !.op = "join"]
  /\ UNCHANGED <<listed, port, running, worker, reading, env, bound, loop, stream,
                 globals, crashed, history>>

(* A server thread that has not been started is not joinable.              *)
JoinLoop ==
  /\ io.op = "join" /\ loop[io.job] # "loop"
  /\ loop' = [loop EXCEPT ![io.job] = IF @ = "exited" THEN "joined" ELSE @]
  /\ io' = [io EXCEPT !.op = "reclaim"]
  /\ UNCHANGED <<listed, port, running, worker, reading, env, bound, pending, stream,
                 globals, crashed, history>>

(* The triggers are deleted, then the environment and the scheduler, which *)
(* the worker may be about to use, or a loop started meanwhile.            *)
Reclaim ==
  /\ io.op = "reclaim"
  /\ IF io.job \in env
     THEN /\ trigger' = FALSE
          /\ env' = env \ {io.job}
          /\ crashed' = (crashed \/ worker[io.job] \in {"open", "launch"}
                                 \/ loop[io.job] = "loop")
     ELSE UNCHANGED <<trigger, env, crashed>>
  /\ io' = [io EXCEPT !.op = "wait"]
  /\ UNCHANGED <<listed, port, running, worker, reading, bound, loop, pending, stream,
                 watchStop, shutting, history>>

(* wait(), then the job leaves the maps and is destroyed; a std::thread    *)
(* destroyed before it is joined ends the process.                         *)
WaitWorker ==
  /\ io.op = "wait" /\ worker[io.job] = "ended"
  /\ listed' = listed \ {io.job}
  /\ crashed' = (crashed \/ loop[io.job] \in {"loop", "exited"})
  /\ io' = Idle
  /\ UNCHANGED <<port, running, worker, reading, serving, globals, history>>
-----------------------------------------------------------------------------
(* ------------------------------- worker -------------------------------- *)

(* work() up to runner.start(); initDDC() may fail, and divides by zero    *)
(* for a negative bandwidth.                                               *)
InitDDC(j) ==
  /\ worker[j] = "init"
  /\ \/ /\ worker' = [worker EXCEPT ![j] = "env"]
        /\ exe' = exe \cup {j} /\ conduit' = conduit \cup {j}
        /\ runner' = [runner EXCEPT ![j] = "run"]
        /\ UNCHANGED crashed
     \/ /\ worker' = [worker EXCEPT ![j] = "ended"]
        /\ UNCHANGED <<reading, crashed>>
     \/ /\ j \in Unsound /\ crashed' = TRUE
        /\ UNCHANGED <<worker, reading>>
  /\ UNCHANGED <<io, listed, port, running, serving, globals, history>>

(* startRtspServer() in three steps: the environment, ...                  *)
CreateEnv(j) ==
  /\ worker[j] = "env"
  /\ env' = env \cup {j}
  /\ worker' = [worker EXCEPT ![j] = "open"]
  /\ UNCHANGED <<io, listed, port, running, reading, bound, loop, pending, stream,
                 globals, crashed, history>>

(* ... the server, which fails on a port in use (and may fail otherwise),  *)
OpenServer(j) ==
  /\ worker[j] = "open"
  /\ \/ /\ \A k \in bound : port[k] # port[j]
        /\ bound' = bound \cup {j}
        /\ worker' = [worker EXCEPT ![j] = "launch"]
     \/ /\ worker' = [worker EXCEPT ![j] = "serve"]
        /\ UNCHANGED bound
  /\ UNCHANGED <<io, listed, port, running, reading, env, loop, pending, stream,
                 globals, crashed, history>>

(* Mutant: the watch variable is not reset before the loop is entered.     *)
LaunchStale(j) ==
  /\ worker[j] = "launch"
  /\ trigger' = TRUE
  /\ loop' = [loop EXCEPT ![j] = "loop"]
  /\ worker' = [worker EXCEPT ![j] = "serve"]
  /\ UNCHANGED <<io, listed, port, running, reading, env, bound, pending, stream,
                 watchStop, shutting, crashed, history>>

(* ... the triggers, the watch variable and the thread.                    *)
Launch(j) ==
  /\ worker[j] = "launch"
  /\ trigger' = TRUE /\ watchStop' = FALSE
  /\ loop' = [loop EXCEPT ![j] = "loop"]
  /\ worker' = [worker EXCEPT ![j] = "serve"]
  /\ UNCHANGED <<io, listed, port, running, reading, env, bound, pending, stream,
                 shutting, crashed, history>>

SeeStop(j) ==
  /\ worker[j] = "serve" /\ ~running[j]
  /\ worker' = [worker EXCEPT ![j] = "linger"]
  /\ UNCHANGED <<io, listed, port, running, reading, serving, globals, crashed, history>>

(* The half second for the session to close, a flag nobody raises, is over *)
(* once stop() and a loop that has a trigger to handle have had their      *)
(* turn: the loop looks every tenth of a second.                           *)
Lingered(j) == /\ io # [op |-> "trigger", job |-> j]
               /\ ~ (j \in pending /\ loop[j] = "loop")

Close(j) ==
  /\ worker[j] = "linger" /\ Lingered(j)
  /\ exe' = exe \ {j}
  /\ worker' = [worker EXCEPT ![j] = "unwind"]
  /\ UNCHANGED <<io, listed, port, running, conduit, runner, serving, globals,
                 crashed, history>>

(* Mutant: the conduit is destroyed first, as if declared after the runner. *)
UnwindConduitFirst(j) ==
  /\ worker[j] = "unwind"
  /\ conduit' = conduit \ {j}
  /\ worker' = [worker EXCEPT ![j] = "ended"]
  /\ UNCHANGED <<io, listed, port, running, exe, runner, serving, globals, crashed, history>>

(* The local variables in reverse order: the runner, whose future waits    *)
(* for its task, then the conduit, then the executor.                      *)
Unwind(j) ==
  /\ worker[j] = "unwind" /\ runner[j] = "done"
  /\ conduit' = conduit \ {j}
  /\ worker' = [worker EXCEPT ![j] = "ended"]
  /\ UNCHANGED <<io, listed, port, running, exe, runner, serving, globals, crashed, history>>

(* The task leaves its loop and calls onClosed() of the conduit.           *)
RunnerEnds(j) ==
  /\ runner[j] = "run" /\ j \notin exe
  /\ runner' = [runner EXCEPT ![j] = "done"]
  /\ UNCHANGED <<io, listed, port, running, worker, exe, conduit, serving, globals,
                 crashed, history>>

(* A frame that is not below the squelch meets a demodulator that is null, *)
(* or one without a sample an FFT that has no plan.                        *)
RunnerBreaks(j) ==
  /\ runner[j] = "run" /\ j \in Unsound
  /\ crashed' = TRUE
  /\ UNCHANGED <<io, listed, port, running, worker, reading, serving, globals, history>>
-----------------------------------------------------------------------------
(* ----------------------------- RTSP loop ------------------------------- *)

(* createNewStreamSource() for the first client; later ones share it.      *)
ClientPlays(j) ==
  /\ loop[j] = "loop" /\ j \in bound /\ j \notin stream
  /\ stream' = stream \cup {j}
  /\ UNCHANGED <<io, listed, port, running, worker, reading, env, bound, loop, pending,
                 globals, crashed, history>>

ClientLeaves(j) ==
  /\ loop[j] = "loop" /\ j \in stream
  /\ stream' = stream \ {j}
  /\ UNCHANGED <<io, listed, port, running, worker, reading, env, bound, loop, pending,
                 globals, crashed, history>>

(* _ShutdownOnLoopTask(): closes the server and with it its streams.       *)
HandleTrigger(j) ==
  /\ loop[j] = "loop" /\ j \in pending
  /\ pending' = pending \ {j}
  /\ IF shutting
     THEN UNCHANGED <<bound, stream, watchStop>>
     ELSE bound' = bound \ {j} /\ stream' = stream \ {j} /\ watchStop' = TRUE
  /\ shutting' = TRUE
  /\ UNCHANGED <<io, listed, port, running, worker, reading, env, loop, trigger,
                 crashed, history>>

(* doEventLoop() looks at the watch variable between its steps.            *)
LeaveLoop(j) ==
  /\ loop[j] = "loop" /\ watchStop
  /\ loop' = [loop EXCEPT ![j] = "exited"]
  /\ UNCHANGED <<io, listed, port, running, worker, reading, env, bound, pending, stream,
                 globals, crashed, history>>
-----------------------------------------------------------------------------
StopSteps   == TriggerLoop \/ JoinLoop \/ Reclaim \/ WaitWorker
WorkerOf(j) == InitDDC(j) \/ CreateEnv(j) \/ OpenServer(j) \/ Launch(j)
                 \/ SeeStop(j) \/ Close(j) \/ Unwind(j)
LoopOf(j)   == HandleTrigger(j) \/ LeaveLoop(j)
Clients(j)  == ClientPlays(j) \/ ClientLeaves(j)

Next ==
  \/ ~crashed /\ \E j \in Jobs : Create(j) \/ Delete(j)
  \/ ~crashed /\ StopSteps
  \/ ~crashed /\ \E j \in Jobs : WorkerOf(j) \/ RunnerEnds(j) \/ RunnerBreaks(j)
  \/ ~crashed /\ \E j \in Jobs : LoopOf(j) \/ Clients(j)

Spec == Init /\ [][Next]_vars

(* The system runs every thread that can go on; nobody has to ask for      *)
(* anything, and clients play and leave as they like.                      *)
FairSpec ==
  /\ Spec
  /\ WF_vars(~crashed /\ StopSteps)
  /\ \A j \in Jobs : /\ WF_vars(~crashed /\ WorkerOf(j))
                     /\ WF_vars(~crashed /\ RunnerEnds(j))
                     /\ WF_vars(~crashed /\ LoopOf(j))
-----------------------------------------------------------------------------
TypeOK ==
  /\ io \in [op : {"idle", "trigger", "join", "reclaim", "wait"}, job : Jobs \cup {0}]
  /\ io.op # "idle" => io.job \in Jobs
  /\ listed \subseteq Jobs
  /\ port \in [Jobs -> {0} \cup BasePort .. BasePort + MaxJobs - 1]
  /\ running \in [Jobs -> BOOLEAN]
  /\ worker \in [Jobs -> {"none", "init", "env", "open", "launch", "serve", "linger",
                          "unwind", "ended"}]
  /\ exe \subseteq Jobs /\ conduit \subseteq Jobs
  /\ runner \in [Jobs -> {"none", "run", "done"}]
  /\ env \subseteq Jobs /\ bound \subseteq Jobs
  /\ pending \subseteq Jobs /\ stream \subseteq Jobs
  /\ loop \in [Jobs -> {"none", "loop", "exited", "joined"}]
  /\ watchStop \in BOOLEAN /\ shutting \in BOOLEAN /\ trigger \in BOOLEAN
  /\ crashed \in BOOLEAN
  /\ early \subseteq Jobs /\ overlap \in BOOLEAN

(* One job at a time, deleted once its server is up (or has failed).       *)
Quiet == early = {} /\ ~overlap

(* A runner never writes into a conduit that has been destroyed: work()    *)
(* declares the conduit before the runner, whose destruction waits.        *)
RunnerHasConduit == \A j \in Jobs : runner[j] = "run" => j \in conduit

(* Listed jobs have ports of their own, whichever were deleted before:     *)
(* createPlayAudioJob() goes on from the job with the greatest guid.       *)
PortsDistinct == \A i, j \in listed : port[i] = port[j] => i = j

(* A client that plays reads a conduit that exists: "세션 정리 완료까지 잠시    *)
(* 대기하여 소스 수명 보장" (wait for the session's end, so that the source     *)
(* outlives it), NpuPlayAudioJob.cpp:963.                                  *)
SourceAlive == \A j \in Jobs : loop[j] = "loop" /\ j \in stream => j \in conduit

(* What a deleted job has left: neither a thread nor a bound port, nor an  *)
(* environment.                                                            *)
NothingLeft(j) == /\ loop[j] \in {"none", "joined"} /\ j \notin bound \cup env
                  /\ runner[j] # "run" /\ j \notin conduit \cup exe

(* Used quietly, no client reads a source that is gone and a deleted job   *)
(* leaves nothing behind.  However many jobs there are, two things end the *)
(* process: a job deleted before its server was up, as stop() then frees   *)
(* what startRtspServer() uses or leaves its thread unjoined, and a job    *)
(* for an unsound request, which ends it without any deletion.             *)
QuietlyClean ==
  /\ Quiet => /\ SourceAlive
              /\ \A j \in Jobs : worker[j] # "none" /\ j \notin listed => NothingLeft(j)
  /\ crashed => early # {} \/ \E j \in Unsound : worker[j] # "none"

(* Used quietly, a deletion always returns: the join of the loop and the   *)
(* wait for the worker do not block the io thread for ever, unless an      *)
(* unsound request ends the process first.                                 *)
StopReturns ==
  \A j \in Jobs : (io.job = j /\ io.op # "idle" /\ Quiet) ~> (j \notin listed \/ crashed)
=============================================================================
