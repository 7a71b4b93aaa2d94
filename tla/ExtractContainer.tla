-------------------------- MODULE ExtractContainer --------------------------
(***************************************************************************)
(* NpuExtractContainer and the life of the jobs it holds.  Three kinds of  *)
(* threads meet here:                                                      *)
(*                                                                         *)
(*   the io thread      runs one command at a time: create, delete         *)
(*   a worker per job   NpuExtractJob::work() or NpuWatchJob::work()       *)
(*   a task per job     std::async of the completion callback: joins the   *)
(*                      worker and drops the job from the container        *)
(*   a reader per job   the executor's, started by initDDC()               *)
(*                                                                         *)
(* They share the two job maps under _mtx (deleteExtract() does not take   *)
(* it), the flags of the jobs, the readers' std::thread objects and the    *)
(* two tables of the database.  What a job does between initDDC() and      *)
(* close() is DDCExecutor's; here its reader runs or has ended, and is     *)
(* joined by the worker, by the io thread or by the job's destructor.      *)
(***************************************************************************)
EXTENDS Naturals, FiniteSets

CONSTANTS
  Extracts,   (* the extract jobs ever created, named by their guid        *)
  Watches,    (* the watch jobs                                            *)
  Unsound     (* those of either kind whose file type or bandwidth the     *)
              (* code cannot serve, which nobody checks                    *)

ASSUME ContainerAssumption ==
  /\ Extracts \cap Watches = {} /\ {"free", "io"} \cap (Extracts \cup Watches) = {}
  /\ Unsound \subseteq Extracts \cup Watches

Jobs == Extracts \cup Watches

VARIABLES
  container,   (* the jobs in _ext_job_container and _watch_job_cotainer   *)
  mtx,         (* who holds _mtx: "free", "io", or the job of a task       *)
  io,          (* the command in progress                                  *)
  pc,          (* where each worker is                                     *)
  jobRunning,  (* _running of the jobs                                     *)
  exeRunning,  (* _running of their executors                              *)
  reader,      (* _readerThread of their executors                         *)
  task,        (* where each completion task is                            *)
  mission, results,   (* the jobs with a row in the two tables             *)
  failed,      (* history: extract jobs that ended without their rows      *)
  deleted,     (* history: jobs whose deletion has begun                   *)
  final,       (* history: jobs whose deletion began after their end and   *)
               (* had both its statements executed                         *)
  hasty,       (* history: the deletion of an extract job has come while   *)
               (* one was in the container                                 *)
  together,    (* history: a job was created while another was at work     *)
  crashed      (* undefined behaviour has ended the process                *)

threads == <<pc, jobRunning, exeRunning, reader>>
tables  == <<mission, results>>
history == <<failed, deleted, final, hasty, together>>
vars    == <<container, mtx, io, threads, task, tables, history, crashed>>

Idle == [op |-> "idle"]

Init ==
  /\ container = {}
  /\ mtx = "free"
  /\ io = Idle
  /\ pc = [j \in Jobs |-> "none"]
  /\ jobRunning = [j \in Jobs |-> FALSE]
  /\ exeRunning = [j \in Jobs |-> FALSE]
  /\ reader = [j \in Jobs |-> "none"]
  /\ task = [j \in Jobs |-> "none"]
  /\ mission = {} /\ results = {}
  /\ failed = {} /\ deleted = {} /\ final = {}
  /\ hasty = FALSE /\ together = FALSE
  /\ crashed = FALSE
-----------------------------------------------------------------------------
(* ----------------------------- io thread ------------------------------- *)

AtWork(j) == pc[j] \notin {"none", "ended"}

(* createExtractJob() and createWatchJob(): the worker is started before   *)
(* the job is in the container.                                            *)
Create(j) ==
  /\ io = Idle /\ pc[j] = "none"
  /\ pc' = [pc EXCEPT ![j] = "begin"]
  /\ jobRunning' = [jobRunning EXCEPT ![j] = TRUE]
  /\ io' = [op |-> "insert", job |-> j]
  /\ together' = (together \/ \E k \in Jobs : AtWork(k))
  /\ UNCHANGED <<container, mtx, exeRunning, reader, task, tables, failed, deleted, final,
                 hasty, crashed>>

Insert ==
  /\ io.op = "insert" /\ mtx = "free"
  /\ container' = container \cup {io.job}
  /\ io' = Idle
  /\ UNCHANGED <<mtx, threads, task, tables, history, crashed>>

(* A task is about to change the map of the extract jobs.  Lookups without *)
(* _mtx are then undefined, and may end the process.                       *)
Racing == \E k \in Extracts : task[k] = "wait"

Undefined == \/ UNCHANGED crashed
             \/ Racing /\ crashed' = TRUE

DeletionBegins(j) ==
  /\ deleted' = deleted \cup {j}
  /\ hasty' = (hasty \/ container \cap Extracts # {})
  /\ UNCHANGED <<failed, final, together>>

(* Mutant: the job is looked up without a look whether it is there.        *)
DeleteExtractUnchecked(j) ==
  /\ io = Idle /\ j \in Extracts /\ pc[j] # "none"
  /\ io' = [op |-> "stop", job |-> j, final |-> pc[j] = "ended"]
  /\ DeletionBegins(j)
  /\ Undefined
  /\ UNCHANGED <<container, mtx, threads, task, tables>>

(* deleteExtract(), connected to the database: the look into the map,      *)
(* without _mtx.                                                           *)
DeleteExtract(j) ==
  /\ io = Idle /\ j \in Extracts /\ pc[j] # "none"
  /\ io' = [op |-> IF j \in container THEN "stop" ELSE "mission", job |-> j,
            final |-> pc[j] = "ended"]
  /\ DeletionBegins(j)
  /\ Undefined
  /\ UNCHANGED <<container, mtx, threads, task, tables>>

(* The second look, which finds a null job if the first one is out of date. *)
(* stop() of an extract job is close() of its executor: the flag comes     *)
(* first.                                                                  *)
StopExtract ==
  /\ io.op = "stop"
  /\ \/ /\ io.job \in container
        /\ exeRunning' = [exeRunning EXCEPT ![io.job] = FALSE]
        /\ io' = [io EXCEPT !.op = "test"]
        /\ Undefined
     \/ /\ io.job \notin container
        /\ crashed' = TRUE
        /\ UNCHANGED <<exeRunning, io>>
  /\ UNCHANGED <<container, mtx, pc, jobRunning, reader, task, tables, history>>

(* A reader is joined by who finds it joinable.  Two threads that join it  *)
(* at once, or one that finds it joined, end the process.                  *)
Joinable(j) == reader[j] \in {"run", "done"}

IoJoins(j) == io.op = "joinReader" /\ io.job = j

Taken(j) == \/ ~Joinable(j)
            \/ IoJoins(j) /\ (pc[j] = "join" \/ task[j] = "destroy")

(* Then joinable() and join() on the io thread, which serves nobody until  *)
(* the reader has ended.  The job may have been destroyed meanwhile.       *)
TestReader ==
  /\ io.op = "test"
  /\ \/ /\ io' = [io EXCEPT !.op = IF Joinable(io.job) THEN "joinReader" ELSE "mission"]
        /\ UNCHANGED crashed
     \/ /\ io.job \notin container
        /\ crashed' = TRUE
        /\ UNCHANGED io
  /\ UNCHANGED <<container, mtx, threads, task, tables, history>>

IoJoinReader ==
  /\ io.op = "joinReader"
  /\ \/ /\ reader[io.job] = "done"
        /\ reader' = [reader EXCEPT ![io.job] = "joined"]
        /\ io' = [io EXCEPT !.op = "mission"]
        /\ UNCHANGED crashed
     \/ /\ Taken(io.job)
        /\ crashed' = TRUE
        /\ UNCHANGED <<reader, io>>
  /\ UNCHANGED <<container, mtx, pc, jobRunning, exeRunning, task, tables, history>>

(* The two DELETE statements; nobody looks whether one failed.             *)
DeleteMission ==
  /\ io.op = "mission"
  /\ \/ mission' = mission \ {io.job} /\ io' = [io EXCEPT !.op = "results"]
     \/ UNCHANGED mission
        /\ io' = [io EXCEPT !.op = "results", !.final = FALSE]
  /\ UNCHANGED <<container, mtx, threads, task, results, history, crashed>>

(* Mutant: the second statement deletes from the first table again.        *)
DeleteResultsAgain ==
  /\ io.op = "results"
  /\ final' = IF io.final THEN final \cup {io.job} ELSE final
  /\ io' = Idle
  /\ UNCHANGED <<container, mtx, threads, task, tables, failed, deleted, hasty, together,
                 crashed>>

DeleteResults ==
  /\ io.op = "results"
  /\ \/ /\ results' = results \ {io.job}
        /\ final' = IF io.final THEN final \cup {io.job} ELSE final
     \/ UNCHANGED <<results, final>>
  /\ io' = Idle
  /\ UNCHANGED <<container, mtx, threads, task, mission, failed, deleted, hasty, together,
                 crashed>>

(* Mutant: the stop of a watch job leaves the job's own flag up.           *)
DeleteWatchOneFlag(j) ==
  /\ io = Idle /\ mtx = "free" /\ j \in container \cap Watches
  /\ mtx' = "io"
  /\ io' = [op |-> "stopWatch", job |-> j]
  /\ deleted' = deleted \cup {j}
  /\ UNCHANGED <<container, threads, task, tables, failed, final, hasty, together, crashed>>

(* deleteWatchJob() holds _mtx from its look into the map to the erase: it *)
(* stops the job, then its executor, and joins the worker.                 *)
DeleteWatch(j) ==
  /\ io = Idle /\ mtx = "free" /\ j \in container \cap Watches
  /\ mtx' = "io"
  /\ jobRunning' = [jobRunning EXCEPT ![j] = FALSE]
  /\ io' = [op |-> "stopWatch", job |-> j]
  /\ deleted' = deleted \cup {j}
  /\ UNCHANGED <<container, pc, exeRunning, reader, task, tables, failed, final, hasty,
                 together, crashed>>

StopWatch ==
  /\ io.op = "stopWatch"
  /\ exeRunning' = [exeRunning EXCEPT ![io.job] = FALSE]
  /\ io' = [io EXCEPT !.op = "joinWatch"]
  /\ UNCHANGED <<container, mtx, pc, jobRunning, reader, task, tables, history, crashed>>

(* Mutant: the job is erased without being joined.                         *)
JoinWatchNoWait ==
  /\ io.op = "joinWatch"
  /\ container' = container \ {io.job}
  /\ mtx' = "free"
  /\ io' = Idle
  /\ UNCHANGED <<threads, task, tables, history, crashed>>

JoinWatch ==
  /\ io.op = "joinWatch" /\ pc[io.job] = "ended"
  /\ container' = container \ {io.job}
  /\ mtx' = "free"
  /\ io' = Idle
  /\ UNCHANGED <<threads, task, tables, history, crashed>>

(* getExtractList() connected to the database: the results that have a     *)
(* mission (one without is listed with no guid).  Of the answer the model  *)
(* keeps the jobs it still lacks of those there now; one whose query       *)
(* failed, which executeQuery() keeps to itself, is not held to any.       *)
ListTables ==
  /\ io = Idle
  /\ \E whole \in BOOLEAN :
       io' = [op |-> "list",
              lacks |-> IF whole THEN (Extracts \cap (container \cup results))
                                        \ ((mission \cap results) \cup deleted \cup failed)
                        ELSE {}]
  /\ UNCHANGED <<container, mtx, threads, task, tables, history, crashed>>

(* Then, under _mtx, the jobs of the container.                            *)
ListContainer ==
  /\ io.op = "list" /\ mtx = "free"
  /\ io' = [op |-> "answer", lacks |-> io.lacks \ container]
  /\ UNCHANGED <<container, mtx, threads, task, tables, history, crashed>>

(* getWatchList() and getWatchInfo() need _mtx and change nothing.         *)
AskWatches ==
  /\ io = Idle
  /\ io' = [op |-> "watches"]
  /\ UNCHANGED <<container, mtx, threads, task, tables, history, crashed>>

(* The answer is on its way.                                               *)
Answer ==
  /\ io.op = "answer" \/ (io.op = "watches" /\ mtx = "free")
  /\ io' = Idle
  /\ UNCHANGED <<container, mtx, threads, task, tables, history, crashed>>

Commands == \/ \E j \in Jobs : Create(j) \/ DeleteExtract(j) \/ DeleteWatch(j)
            \/ ListTables \/ AskWatches

Command == \/ Insert \/ StopExtract \/ TestReader \/ IoJoinReader
           \/ DeleteMission \/ DeleteResults \/ StopWatch \/ JoinWatch \/ ListContainer \/ Answer
-----------------------------------------------------------------------------
(* ------------------------------ workers -------------------------------- *)

Goto(j, place) == pc' = [pc EXCEPT ![j] = place]

(* What a step of a worker leaves alone unless it says otherwise.          *)
Others == <<container, mtx, io, jobRunning, task, deleted, final, hasty, together>>

FailIfExtract(j) == failed' = IF j \in Extracts THEN failed \cup {j} ELSE failed

(* The look at _running, and the checks of the requested range.            *)
Begin(j) ==
  /\ pc[j] = "begin"
  /\ \/ jobRunning[j] /\ Goto(j, "init") /\ UNCHANGED failed
     \/ Goto(j, "callback") /\ FailIfExtract(j)
  /\ UNCHANGED <<Others, exeRunning, reader, tables, crashed>>

(* initDDC() up to the flag, which it raises whatever a stop did to it.    *)
InitDDC(j) ==
  /\ pc[j] = "init"
  /\ \/ /\ exeRunning' = [exeRunning EXCEPT ![j] = TRUE]
        /\ Goto(j, "start")
        /\ UNCHANGED failed
     \/ Goto(j, "callback") /\ FailIfExtract(j) /\ UNCHANGED exeRunning
  /\ UNCHANGED <<Others, reader, tables, crashed>>

StartReader(j) ==
  /\ pc[j] = "start"
  /\ reader' = [reader EXCEPT ![j] = "run"]
  /\ Goto(j, "extract")
  /\ UNCHANGED <<Others, exeRunning, failed, tables, crashed>>

(* A request that cannot be served: a negative bandwidth ends in a division *)
(* by zero in initDDC(); an unknown file type and a bandwidth too narrow   *)
(* for a sample a batch in a null pointer after it.                        *)
Break(j) ==
  /\ j \in Unsound /\ pc[j] \in {"init", "extract"}
  /\ crashed' = TRUE
  /\ UNCHANGED <<Others, pc, exeRunning, reader, failed, tables>>

(* The reader ends at the end of the request, or soon after a stop.        *)
ReaderEnds(j) ==
  /\ reader[j] = "run"
  /\ reader' = [reader EXCEPT ![j] = "done"]
  /\ UNCHANGED <<Others, pc, exeRunning, failed, tables, crashed>>

Stopped(j) == ~exeRunning[j] \/ (j \in Watches /\ ~jobRunning[j])

(* Mutant: an extract job saves its result only if it was stopped.         *)
ClosedInverted(j) == IF j \in Extracts /\ ~jobRunning[j] THEN "mission" ELSE "callback"

(* After close() an extract job looks at its own _running, which stop()    *)
(* has left.                                                               *)
Closed(j) == IF j \in Extracts /\ jobRunning[j] THEN "mission" ELSE "callback"

(* The loop of extractIQ() ends, at the end of the input or when stopped,  *)
(* and close() stops the executor.                                         *)
EndExtract(j) ==
  /\ pc[j] = "extract" /\ (Stopped(j) \/ reader[j] # "run")
  /\ exeRunning' = [exeRunning EXCEPT ![j] = FALSE]
  /\ Goto(j, IF Joinable(j) THEN "join" ELSE Closed(j))
  /\ UNCHANGED <<Others, reader, failed, tables, crashed>>

JoinReader(j) ==
  /\ pc[j] = "join"
  /\ \/ /\ reader[j] = "done"
        /\ reader' = [reader EXCEPT ![j] = "joined"]
        /\ Goto(j, Closed(j))
        /\ UNCHANGED crashed
     \/ /\ Taken(j)
        /\ crashed' = TRUE
        /\ UNCHANGED <<reader, pc>>
  /\ UNCHANGED <<Others, exeRunning, failed, tables>>

(* An extract job that cannot open its output returns at once and leaves   *)
(* its reader to the destructor.                                           *)
AbandonExtract(j) ==
  /\ pc[j] = "extract" /\ j \in Extracts
  /\ Goto(j, "callback")
  /\ failed' = failed \cup {j}
  /\ UNCHANGED <<Others, exeRunning, reader, tables, crashed>>

(* saveDatabase(): the second insert only after the first; no rollback.    *)
SaveMission(j) ==
  /\ pc[j] = "mission"
  /\ \/ /\ mission' = mission \cup {j}
        /\ Goto(j, "results")
        /\ UNCHANGED failed
     \/ Goto(j, "callback") /\ failed' = failed \cup {j} /\ UNCHANGED mission
  /\ UNCHANGED <<Others, exeRunning, reader, results, crashed>>

SaveResults(j) ==
  /\ pc[j] = "results"
  /\ Goto(j, "callback")
  /\ \/ results' = results \cup {j} /\ UNCHANGED failed
     \/ failed' = failed \cup {j} /\ UNCHANGED results
  /\ UNCHANGED <<Others, exeRunning, reader, mission, crashed>>

(* _completed_callback: the task is launched, and its future put into      *)
(* _futures without a lock: two jobs that end together race for it.  Then  *)
(* the thread ends.                                                        *)
Callback(j) ==
  /\ pc[j] = "callback"
  /\ Goto(j, "push")
  /\ task' = [task EXCEPT ![j] = "start"]
  /\ UNCHANGED <<container, mtx, io, jobRunning, exeRunning, reader, tables, history, crashed>>

Clash == \E j, k \in Jobs : j # k /\ pc[j] = "push" /\ pc[k] = "push"

Push(j) ==
  /\ pc[j] = "push"
  /\ \/ Goto(j, "ended") /\ UNCHANGED crashed
     \/ Clash /\ crashed' = TRUE /\ UNCHANGED pc
  /\ UNCHANGED <<Others, exeRunning, reader, failed, tables>>

Work(j) == \/ Begin(j) \/ InitDDC(j) \/ StartReader(j)
           \/ EndExtract(j) \/ JoinReader(j) \/ AbandonExtract(j)
           \/ SaveMission(j) \/ SaveResults(j) \/ Callback(j) \/ Push(j)
-----------------------------------------------------------------------------
(* ------------------------- completion tasks ---------------------------- *)

(* Under _mtx: a job that is not in the container is let go.               *)
Find(j) ==
  /\ task[j] = "start" /\ mtx = "free"
  /\ \/ /\ j \in container
        /\ mtx' = j
        /\ task' = [task EXCEPT ![j] = "wait"]
     \/ /\ j \notin container
        /\ task' = [task EXCEPT ![j] = "done"]
        /\ UNCHANGED mtx
  /\ UNCHANGED <<container, io, threads, tables, history, crashed>>

(* Mutant: the job is erased without being joined.                         *)
EraseUnjoined(j) ==
  /\ task[j] = "wait"
  /\ container' = container \ {j}
  /\ mtx' = "free"
  /\ task' = [task EXCEPT ![j] = "done"]
  /\ UNCHANGED <<io, threads, tables, history, crashed>>

(* Mutant: the job is joined but stays in the container.                   *)
EraseForgotten(j) ==
  /\ task[j] = "wait" /\ pc[j] = "ended"
  /\ mtx' = "free"
  /\ task' = [task EXCEPT ![j] = "done"]
  /\ UNCHANGED <<container, io, threads, tables, history, crashed>>

(* Mutant: _mtx is never given back.                                       *)
EraseLocked(j) ==
  /\ task[j] = "wait" /\ pc[j] = "ended"
  /\ container' = container \ {j}
  /\ task' = [task EXCEPT ![j] = "done"]
  /\ UNCHANGED <<mtx, io, threads, tables, history, crashed>>

(* wait() and erase(), still under _mtx, which destroys the job.  A reader  *)
(* it left behind is stopped and joined by the destructor.                 *)
Erase(j) ==
  /\ task[j] = "wait" /\ pc[j] = "ended"
  /\ container' = container \ {j}
  /\ IF Joinable(j)
     THEN /\ exeRunning' = [exeRunning EXCEPT ![j] = FALSE]
          /\ task' = [task EXCEPT ![j] = "destroy"]
          /\ UNCHANGED mtx
     ELSE /\ mtx' = "free"
          /\ task' = [task EXCEPT ![j] = "done"]
          /\ UNCHANGED exeRunning
  /\ UNCHANGED <<io, pc, jobRunning, reader, tables, history, crashed>>

Destroy(j) ==
  /\ task[j] = "destroy"
  /\ \/ /\ reader[j] = "done"
        /\ reader' = [reader EXCEPT ![j] = "joined"]
        /\ mtx' = "free"
        /\ task' = [task EXCEPT ![j] = "done"]
        /\ UNCHANGED crashed
     \/ /\ Taken(j)
        /\ crashed' = TRUE
        /\ UNCHANGED <<reader, mtx, task>>
  /\ UNCHANGED <<container, io, pc, jobRunning, exeRunning, tables, history>>

Complete(j) == Find(j) \/ Erase(j) \/ Destroy(j)
-----------------------------------------------------------------------------
(* Nobody has to send a command, and jobs may be at rest.                  *)
Quiet == crashed \/ (io = Idle /\ \A j \in Jobs : pc[j] \in {"none", "ended"})

Next == \/ ~crashed /\ (Commands \/ Command)
        \/ ~crashed /\ \E j \in Jobs : Work(j) \/ Break(j) \/ ReaderEnds(j) \/ Complete(j)
        \/ Quiet /\ UNCHANGED vars

Spec == Init /\ [][Next]_vars

(* Threads that can run do; but an extraction and its reader may go on for *)
(* as long as nobody stops them, and no command has to come.               *)
FairSpec ==
  /\ Spec
  /\ WF_vars(~crashed /\ Command)
  /\ \A j \in Jobs :
       /\ WF_vars(~crashed /\ (pc[j] = "extract" => Stopped(j)) /\ Work(j))
       /\ WF_vars(~crashed /\ ~exeRunning[j] /\ ReaderEnds(j))
       /\ WF_vars(~crashed /\ Complete(j))
-----------------------------------------------------------------------------
(* What the io thread knows of its command.                                *)
IoOK ==
  \/ io \in {Idle, [op |-> "watches"]}
  \/ io \in [op : {"insert", "stopWatch", "joinWatch"}, job : Jobs]
  \/ io \in [op : {"stop", "test", "joinReader", "mission", "results"}, job : Extracts,
             final : BOOLEAN]
  \/ io \in [op : {"list", "answer"}, lacks : SUBSET Extracts]

(* Threads are at known places and _mtx is held by who the places say.     *)
TypeOK ==
  /\ IoOK
  /\ failed \subseteq Extracts /\ deleted \subseteq Jobs /\ final \subseteq Extracts
  /\ hasty \in BOOLEAN /\ together \in BOOLEAN /\ crashed \in BOOLEAN
  /\ container \subseteq Jobs /\ mission \subseteq Extracts /\ results \subseteq Extracts
  /\ pc \in [Jobs -> {"none", "begin", "init", "start", "extract", "join", "mission",
                      "results", "callback", "push", "ended"}]
  /\ reader \in [Jobs -> {"none", "run", "done", "joined"}]
  /\ task \in [Jobs -> {"none", "start", "wait", "destroy", "done"}]
  /\ jobRunning \in [Jobs -> BOOLEAN] /\ exeRunning \in [Jobs -> BOOLEAN]
  /\ mtx = "io" <=> io.op \in {"stopWatch", "joinWatch"}
  /\ \A j \in Jobs : mtx = j <=> task[j] \in {"wait", "destroy"}

(* A job leaves the container, and with it goes its std::thread object,    *)
(* only when its worker has ended: destroying it earlier would end the     *)
(* process (NpuExtractContainer.cpp:126-131, 231-237, 252-263).            *)
ErasedWhenEnded ==
  [][\A j \in container : j \notin container' => pc[j] = "ended"]_vars

(* When the deletion of a watch job has returned, nothing of the job is    *)
(* left and nothing comes back: no thread, no running executor, no reader  *)
(* that was not joined, no entry, wherever the worker and its completion   *)
(* task were (lines 252-263).                                              *)
WatchGone ==
  \A j \in deleted \cap Watches :
    \/ io.op \in {"stopWatch", "joinWatch"} /\ io.job = j
    \/ /\ pc[j] = "ended" /\ reader[j] \in {"none", "joined"}
       /\ ~exeRunning[j] /\ j \notin container

(* A deletion that came after the job's end, and whose statements were     *)
(* executed, is final: no row of the job is left or inserted later (lines  *)
(* 167-179 and the inserts of NpuExtractJob.cpp:231-333).                  *)
FinishedDeleteIsFinal == final \cap (mission \cup results) = {}

(* How the container can be used without harm, whatever locks it lacks: an *)
(* extract job is deleted only while none is in the container (its rows    *)
(* are what is left of it), a job is created only when the one before has  *)
(* ended, and every request is one the code can serve.  Then no order of   *)
(* the threads ends the process: not the deletion of a watch job at work,  *)
(* nor the destruction of a job that left its reader running               *)
(* (NpuExtractContainer.cpp:126-134, 163-165 and 252-263,                  *)
(* NpuExtractJob.cpp:452-454, DDCExecutor.cpp:122-143 and 827-834).        *)
SoundUseSurvives ==
  crashed => hasty \/ together \/ \E j \in Unsound : pc[j] # "none"

(* When its query does not fail, a list leaves out a job that was in the   *)
(* container or the database when the command came, and that neither       *)
(* failed nor was deleted, in one case only: its results were inserted     *)
(* after the tables were read, and its task dropped it before the          *)
(* container was (getExtractList(), lines 60-103, reads the two without a  *)
(* common lock).                                                           *)
ListedUnlessCompleting ==
  io.op = "answer" =>
    \A j \in io.lacks \ failed :
      j \in results /\ task[j] = "done" /\ j \notin container

(* Every command returns to the io thread, which serves nobody meanwhile,  *)
(* whatever the workers are doing and whoever holds _mtx: the deletion of  *)
(* a watch job above all, which waits for its worker under _mtx.  Only the *)
(* deletion of an extract job may not: initDDC() raises the executor's     *)
(* flag after stop() lowered it (DDCExecutor.cpp:243), and the io thread   *)
(* joins a reader nobody has stopped.                                      *)
CommandReturns ==
  io # Idle ~> io = Idle \/ crashed \/ (io.op = "joinReader" /\ exeRunning[io.job])

(* Every job that is over is dropped from the container, unless its task   *)
(* looked for it before createExtractJob() or createWatchJob() inserted it *)
(* (lines 122-142 and 227-247).                                            *)
EndedJobsLeave ==
  \A j \in Jobs :
    j \in container /\ pc[j] = "ended" /\ task[j] # "done"
      ~> j \notin container \/ crashed
=============================================================================
