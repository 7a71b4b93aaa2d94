---------------------- MODULE ExtractContainer_proofs ----------------------
(***************************************************************************)
(* For any sets of jobs: what the invariants of ExtractContainer rest on,  *)
(* and that no step of the io thread, a worker or a completion task breaks *)
(* it.  There is one lemma per action.                                     *)
(***************************************************************************)
EXTENDS ExtractContainer, TLAPS

(* A job is in the container or deleted only after it was created, its     *)
(* task begins when its worker is about to end, an extract job's own flag  *)
(* stays up, and a watch job's executor runs only until its loop is over.  *)
Threads ==
  /\ \A j \in Jobs : pc[j] = "none" => j \notin container \cup deleted
  /\ \A j \in Jobs : pc[j] \notin {"push", "ended"} => task[j] = "none"
  /\ \A j \in Extracts : pc[j] # "none" => jobRunning[j]
  /\ \A j \in Extracts : task[j] = "wait" => j \in container
  /\ \A j \in Watches : pc[j] \notin {"mission", "results"}
  /\ \A j \in Watches : exeRunning[j] => pc[j] \in {"start", "extract"}

(* A watch job leaves no reader behind.                                    *)
Readers == \A j \in Watches : Joinable(j) => pc[j] \in {"extract", "join"}

(* Who deletes and creates with care keeps the io thread from the readers, *)
(* and one job from the other.                                             *)
Careful ==
  /\ ~hasty =>
       /\ io.op \notin {"stop", "test", "joinReader"}
       /\ \A j \in Jobs : pc[j] = "join" \/ task[j] = "destroy" => Joinable(j)
  /\ ~together => \A j, k \in Jobs : AtWork(j) /\ AtWork(k) => j = k

Deleting == {"stop", "test", "joinReader", "mission", "results"}

(* What the command in progress knows of its job is still true.            *)
Commanded ==
  /\ io.op = "insert" => pc[io.job] # "none" /\ io.job \notin deleted
  /\ io.op \in {"stopWatch", "joinWatch"} => io.job \in Watches
  /\ io.op \in Deleting => io.job \in deleted
  /\ io.op \in Deleting /\ io.final => pc[io.job] = "ended"
  /\ io.op = "results" /\ io.final => io.job \notin mission

(* A job with results has a mission, and a job at its end has its results, *)
(* unless it failed or was deleted.                                        *)
Rows ==
  /\ results \subseteq mission \cup deleted
  /\ \A j \in Extracts :
       /\ pc[j] = "results" => j \in mission \cup deleted
       /\ pc[j] \in {"callback", "push", "ended"} => j \in failed \cup deleted \cup results

(* Between its two looks, what a list still lacks is in the container or   *)
(* has left it with its results.                                           *)
Listing ==
  io.op = "list" =>
    \A j \in io.lacks \ failed :
      /\ j \notin deleted
      /\ j \in container \/ (j \in results /\ task[j] \in {"destroy", "done"})

(* A deletion that was final was that of an ended job.                     *)
Finals == \A j \in final : pc[j] = "ended" /\ j \notin mission \cup results

IInv == /\ TypeOK /\ Threads /\ Readers /\ Careful /\ Commanded /\ Rows /\ Finals
        /\ Listing /\ ListedUnlessCompleting /\ WatchGone /\ SoundUseSurvives
-----------------------------------------------------------------------------
LEMMA DeletingIo ==
  ASSUME IoOK, io.op \in Deleting
  PROVE  io \in [op : Deleting, job : Extracts, final : BOOLEAN]
BY DEF IoOK, Idle, Deleting

(* A new job is not in the container yet.                                  *)
LEMMA CreateIInv ==
  ASSUME IInv, ~crashed, NEW j \in Jobs, Create(j) PROVE IInv'
<1> USE DEF Deleting, Joinable, AtWork, Create, Idle, tables, history, IInv, Jobs
<1>1. TypeOK'
  BY ContainerAssumption DEF TypeOK, IoOK
<1>2. Commanded'
  BY ContainerAssumption DEF Commanded, TypeOK, IoOK, Threads
<1>3. Threads'
  BY ContainerAssumption DEF Threads, TypeOK
<1>4. Rows' /\ Finals' /\ Listing' /\ ListedUnlessCompleting' /\ WatchGone'
       /\ SoundUseSurvives'
  BY DEF Rows, Finals, Listing, ListedUnlessCompleting, WatchGone, SoundUseSurvives
<1>5. Readers'
  BY ContainerAssumption DEF Readers, Threads, TypeOK, IoOK
<1>6. Careful'
  BY ContainerAssumption DEF Careful, Threads, TypeOK, IoOK
<1>7. QED  BY <1>1, <1>2, <1>3, <1>4, <1>5, <1>6

(* The command knows whether the job was there and whether it had ended.   *)
LEMMA DeleteExtractIInv ==
  ASSUME IInv, ~crashed, NEW j \in Jobs, DeleteExtract(j) PROVE IInv'
<1> USE DEF Deleting, Joinable, AtWork, DeleteExtract, DeletionBegins, Idle, Undefined, Racing, threads, tables, IInv,
            Jobs
<1>1. TypeOK'
  <2>1. io' \in [op : Deleting, job : Extracts, final : BOOLEAN]
    OBVIOUS
  <2>2. IoOK'
    BY <2>1 DEF IoOK
  <2>3. QED  BY <2>1, <2>2, ContainerAssumption DEF TypeOK
<1>2. WatchGone'
  BY ContainerAssumption DEF WatchGone, TypeOK
<1>3. SoundUseSurvives'
  BY DEF SoundUseSurvives, Threads
<1>4. Threads' /\ Rows'
  BY ContainerAssumption DEF Threads, Rows, TypeOK
<1>5. Commanded' /\ Finals' /\ Listing' /\ ListedUnlessCompleting'
  BY DEF Commanded, Finals, Listing, ListedUnlessCompleting
<1>6. Readers'
  BY ContainerAssumption DEF Readers, Threads, TypeOK, IoOK
<1>7. Careful'
  BY ContainerAssumption DEF Careful, Threads, TypeOK, IoOK
<1>8. QED  BY <1>1, <1>2, <1>3, <1>4, <1>5, <1>6, <1>7

(* The flag that is lowered is that of a watch job.                        *)
LEMMA DeleteWatchIInv ==
  ASSUME IInv, ~crashed, NEW j \in Jobs, DeleteWatch(j) PROVE IInv'
<1> USE DEF Deleting, Joinable, AtWork, DeleteWatch, Idle, tables, IInv, Jobs
<1>1. TypeOK'
  BY ContainerAssumption DEF TypeOK, IoOK
<1>2. Threads'
  BY ContainerAssumption DEF Threads, TypeOK
<1>3. Commanded' /\ Rows' /\ Finals' /\ Listing' /\ ListedUnlessCompleting'
       /\ WatchGone' /\ SoundUseSurvives'
  BY DEF Commanded, Rows, Finals, Listing, ListedUnlessCompleting,
       WatchGone, SoundUseSurvives
<1>4. Readers'
  BY ContainerAssumption DEF Readers, Threads, TypeOK, IoOK
<1>5. Careful'
  BY ContainerAssumption DEF Careful, Threads, TypeOK, IoOK
<1>6. QED  BY <1>1, <1>2, <1>3, <1>4, <1>5

(* What the tables do not have is still in the container.                  *)
LEMMA ListTablesIInv ==
  ASSUME IInv, ~crashed, ListTables PROVE IInv'
<1> USE DEF Deleting, Joinable, AtWork, ListTables, Idle, threads, tables, history, IInv, Jobs
<1>1. TypeOK'
  BY ContainerAssumption DEF TypeOK, IoOK
<1>2. Listing'
  BY ContainerAssumption DEF Listing, TypeOK, IoOK, Rows
<1>3. Threads' /\ Commanded' /\ Rows' /\ Finals' /\ ListedUnlessCompleting'
       /\ WatchGone' /\ SoundUseSurvives'
  BY DEF Threads, Commanded, Rows, Finals, ListedUnlessCompleting,
       WatchGone, SoundUseSurvives
<1>4. Readers'
  BY ContainerAssumption DEF Readers, Threads, TypeOK, IoOK
<1>5. Careful'
  BY ContainerAssumption DEF Careful, Threads, TypeOK, IoOK
<1>6. QED  BY <1>1, <1>2, <1>3, <1>4, <1>5

LEMMA AskWatchesIInv ==
  ASSUME IInv, ~crashed, AskWatches PROVE IInv'
<1> USE DEF Deleting, Joinable, AtWork, AskWatches, Idle, threads, tables, history, IInv, Jobs
<1>1. TypeOK'
  BY ContainerAssumption DEF TypeOK, IoOK
<1>2. Threads' /\ Commanded' /\ Rows' /\ Finals' /\ Listing' /\
       ListedUnlessCompleting' /\ WatchGone' /\ SoundUseSurvives'
  BY DEF Threads, Commanded, Rows, Finals, Listing,
       ListedUnlessCompleting, WatchGone, SoundUseSurvives
<1>3. Readers'
  BY ContainerAssumption DEF Readers, Threads, TypeOK, IoOK
<1>4. Careful'
  BY ContainerAssumption DEF Careful, Threads, TypeOK, IoOK
<1>5. QED  BY <1>1, <1>2, <1>3, <1>4

(* Whoever inserts a job has just created it.                              *)
LEMMA InsertIInv ==
  ASSUME IInv, ~crashed, Insert PROVE IInv'
<1> USE DEF Deleting, Joinable, AtWork, Insert, Idle, threads, tables, history, IInv, Jobs
<1>1. TypeOK'
  BY ContainerAssumption DEF TypeOK, IoOK
<1>2. Threads'
  BY ContainerAssumption DEF Threads, TypeOK, IoOK, Commanded
<1>3. WatchGone'
  BY ContainerAssumption DEF WatchGone, TypeOK, IoOK, Commanded
<1>4. Commanded' /\ Rows' /\ Finals' /\ Listing' /\ ListedUnlessCompleting'
       /\ SoundUseSurvives'
  BY DEF Commanded, Rows, Finals, Listing, ListedUnlessCompleting, SoundUseSurvives
<1>5. Readers'
  BY ContainerAssumption DEF Readers, Threads, TypeOK, IoOK
<1>6. Careful'
  BY ContainerAssumption DEF Careful, Threads, TypeOK, IoOK
<1>7. QED  BY <1>1, <1>2, <1>3, <1>4, <1>5, <1>6

(* At the second look a job that is gone has ended.                        *)
LEMMA StopExtractIInv ==
  ASSUME IInv, ~crashed, StopExtract PROVE IInv'
<1> USE DEF Deleting, Joinable, AtWork, StopExtract, Undefined, Racing, tables, history, IInv, Idle,
            Jobs
<1>1. TypeOK'
  <2>1. io \in [op : Deleting, job : Extracts, final : BOOLEAN]
    BY DeletingIo DEF TypeOK
  <2>2. IoOK'
    BY <2>1 DEF IoOK
  <2>3. io'.op \in {"stop", "test"}
    BY <2>1
  <2>4. exeRunning' \in [Jobs -> BOOLEAN]
    BY <2>1 DEF TypeOK
  <2>5. QED  BY <2>2, <2>3, <2>4, ContainerAssumption DEF TypeOK
<1>2. SoundUseSurvives'
  BY DEF SoundUseSurvives, Careful
<1>3. Threads'
  BY ContainerAssumption DEF Threads, TypeOK
<1>4. Commanded'
  BY ContainerAssumption DEF Commanded, TypeOK, IoOK
<1>5. Listing'
  BY ContainerAssumption DEF Listing, TypeOK, IoOK
<1>6. ListedUnlessCompleting'
  BY ContainerAssumption DEF ListedUnlessCompleting, TypeOK, IoOK
<1>7. WatchGone'
  BY ContainerAssumption DEF WatchGone, TypeOK
<1>8. Rows' /\ Finals'
  BY DEF Rows, Finals
<1>9. Readers'
  BY ContainerAssumption DEF Readers, Threads, TypeOK, IoOK
<1>10. Careful'
  BY ContainerAssumption DEF Careful, Threads, TypeOK, IoOK
<1>11. QED  BY <1>1, <1>2, <1>3, <1>4, <1>5, <1>6, <1>7, <1>8, <1>9, <1>10

(* Only a hasty deletion gets to the reader.                               *)
LEMMA TestReaderIInv ==
  ASSUME IInv, ~crashed, TestReader PROVE IInv'
<1> USE DEF Deleting, Joinable, AtWork, TestReader, threads, tables, history, IInv, Idle, Jobs
<1>1. TypeOK'
  <2>1. io \in [op : Deleting, job : Extracts, final : BOOLEAN]
    BY DeletingIo DEF TypeOK
  <2>2. IoOK'
    BY <2>1 DEF IoOK
  <2>3. io'.op \in Deleting
    BY <2>1
  <2>4. reader' \in [Jobs -> {"none", "run", "done", "joined"}]
    BY DEF TypeOK
  <2>5. QED  BY <2>2, <2>3, <2>4, ContainerAssumption DEF TypeOK
<1>2. Commanded'
  BY ContainerAssumption DEF Commanded, TypeOK, IoOK
<1>3. Listing' /\ ListedUnlessCompleting'
  <2>1. io.op \in Deleting /\ io'.op \in Deleting
    BY DeletingIo DEF TypeOK
  <2>2. QED  BY <2>1 DEF Listing, ListedUnlessCompleting
<1>4. WatchGone'
  <2>1. io.job \in Extracts /\ io.op \in Deleting /\ io'.op \in Deleting
    BY DeletingIo DEF TypeOK
  <2>2. QED  BY <2>1, ContainerAssumption DEF WatchGone, TypeOK
<1>5. Threads' /\ Rows' /\ Finals' /\ SoundUseSurvives'
  BY DEF Threads, Rows, Finals, SoundUseSurvives, Careful
<1>6. Readers'
  BY ContainerAssumption DEF Readers, Threads, TypeOK, IoOK
<1>7. Careful'
  BY ContainerAssumption DEF Careful, Threads, TypeOK, IoOK
<1>8. QED  BY <1>1, <1>2, <1>3, <1>4, <1>5, <1>6, <1>7

(* Whoever joins the reader, it is joined.                                 *)
LEMMA IoJoinReaderIInv ==
  ASSUME IInv, ~crashed, IoJoinReader PROVE IInv'
<1> USE DEF Deleting, Joinable, AtWork, IoJoinReader, Taken, IoJoins, tables, history, IInv, Idle, Jobs
<1>1. TypeOK'
  <2>1. io \in [op : Deleting, job : Extracts, final : BOOLEAN]
    BY DeletingIo DEF TypeOK
  <2>2. IoOK'
    BY <2>1 DEF IoOK
  <2>3. io'.op \in Deleting
    BY <2>1
  <2>4. reader' \in [Jobs -> {"none", "run", "done", "joined"}]
    BY DEF TypeOK
  <2>5. QED  BY <2>2, <2>3, <2>4, ContainerAssumption DEF TypeOK
<1>2. Commanded'
  BY ContainerAssumption DEF Commanded, TypeOK, IoOK
<1>3. Listing' /\ ListedUnlessCompleting'
  <2>1. io.op \in Deleting /\ io'.op \in Deleting
    BY DeletingIo DEF TypeOK
  <2>2. QED  BY <2>1 DEF Listing, ListedUnlessCompleting
<1>4. WatchGone'
  <2>1. io.job \in Extracts /\ io.op \in Deleting /\ io'.op \in Deleting
    BY DeletingIo DEF TypeOK
  <2>2. QED  BY <2>1, ContainerAssumption DEF WatchGone, TypeOK
<1>5. Threads' /\ Rows' /\ Finals' /\ SoundUseSurvives'
  BY DEF Threads, Rows, Finals, SoundUseSurvives, Careful
<1>6. Readers'
  BY ContainerAssumption DEF Readers, Threads, TypeOK, IoOK
<1>7. Careful'
  BY ContainerAssumption DEF Careful, Threads, TypeOK, IoOK
<1>8. QED  BY <1>1, <1>2, <1>3, <1>4, <1>5, <1>6, <1>7

LEMMA DeleteMissionIInv ==
  ASSUME IInv, ~crashed, DeleteMission PROVE IInv'
<1> USE DEF Deleting, Joinable, AtWork, DeleteMission, threads, history, IInv, Idle, Jobs
<1>1. TypeOK'
  <2>1. io \in [op : Deleting, job : Extracts, final : BOOLEAN]
    BY DeletingIo DEF TypeOK
  <2>2. IoOK' /\ io'.op = "results"
    BY <2>1 DEF IoOK
  <2>3. QED  BY <2>2, ContainerAssumption DEF TypeOK
<1>2. Commanded'
  <2>1. io \in [op : Deleting, job : Extracts, final : BOOLEAN]
    BY DeletingIo DEF TypeOK
  <2>2. /\ io'.op = "results" /\ io'.job = io.job
        /\ io'.final => io.final /\ io.job \notin mission'
    BY <2>1
  <2>3. QED  BY <2>2 DEF Commanded
<1>3. Rows'
  BY ContainerAssumption DEF Rows, TypeOK, IoOK, Commanded
<1>4. Listing'
  <2>1. io'.op = "results"
    BY DeletingIo DEF TypeOK
  <2>2. QED  BY <2>1 DEF Listing
<1>5. ListedUnlessCompleting'
  <2>1. io'.op = "results"
    BY DeletingIo DEF TypeOK
  <2>2. QED  BY <2>1 DEF ListedUnlessCompleting
<1>6. Threads' /\ Finals' /\ WatchGone' /\ SoundUseSurvives'
  BY DEF Threads, Finals, WatchGone, SoundUseSurvives
<1>7. Readers'
  BY ContainerAssumption DEF Readers, Threads, TypeOK, IoOK
<1>8. Careful'
  <2>1. io'.op = "results"
    BY DeletingIo DEF TypeOK
  <2>2. QED  BY <2>1 DEF Careful
<1>9. QED  BY <1>1, <1>2, <1>3, <1>4, <1>5, <1>6, <1>7, <1>8

(* A deletion of an ended job that had both its statements is final.       *)
LEMMA DeleteResultsIInv ==
  ASSUME IInv, ~crashed, DeleteResults PROVE IInv'
<1> USE DEF Deleting, Joinable, AtWork, DeleteResults, Idle, threads, IInv, Jobs
<1>1. TypeOK'
  BY ContainerAssumption DEF TypeOK, IoOK
<1>2. Rows'
  BY ContainerAssumption DEF Rows, TypeOK, IoOK, Commanded
<1>3. Finals'
  BY ContainerAssumption DEF Finals, TypeOK, IoOK, Commanded
<1>4. Threads' /\ Commanded' /\ Listing' /\ ListedUnlessCompleting' /\
       WatchGone' /\ SoundUseSurvives'
  BY DEF Threads, Commanded, Listing, ListedUnlessCompleting, WatchGone, SoundUseSurvives
<1>5. Readers'
  BY ContainerAssumption DEF Readers, Threads, TypeOK, IoOK
<1>6. Careful'
  BY DEF Careful
<1>7. QED  BY <1>1, <1>2, <1>3, <1>4, <1>5, <1>6

LEMMA StopWatchIInv ==
  ASSUME IInv, ~crashed, StopWatch PROVE IInv'
<1> USE DEF Deleting, Joinable, AtWork, StopWatch, tables, history, IInv, Idle, Jobs
<1>1. TypeOK'
  BY ContainerAssumption DEF TypeOK, IoOK
<1>2. Threads' /\ Commanded' /\ Rows' /\ Finals' /\ Listing' /\
       ListedUnlessCompleting' /\ WatchGone' /\ SoundUseSurvives'
  BY DEF Threads, Commanded, Rows, Finals, Listing,
       ListedUnlessCompleting, WatchGone, SoundUseSurvives
<1>3. Readers'
  BY ContainerAssumption DEF Readers, Threads, TypeOK, IoOK
<1>4. Careful'
  BY ContainerAssumption DEF Careful, Threads, TypeOK, IoOK
<1>5. QED  BY <1>1, <1>2, <1>3, <1>4

(* An ended watch job has no running executor, and nothing of it is left.  *)
LEMMA JoinWatchIInv ==
  ASSUME IInv, ~crashed, JoinWatch PROVE IInv'
<1> USE DEF Deleting, Joinable, AtWork, JoinWatch, Idle, threads, tables, history, IInv, Jobs
<1>1. TypeOK'
  BY ContainerAssumption DEF TypeOK, IoOK
<1>2. WatchGone'
  BY ContainerAssumption DEF WatchGone, TypeOK, IoOK, Threads, Readers,
       Commanded
<1>3. Threads'
  BY ContainerAssumption DEF Threads, Commanded, TypeOK
<1>4. Listing'
  BY DEF Listing
<1>5. Commanded' /\ Rows' /\ Finals' /\ ListedUnlessCompleting' /\ SoundUseSurvives'
  BY DEF Commanded, Rows, Finals, ListedUnlessCompleting, SoundUseSurvives
<1>6. Readers'
  BY ContainerAssumption DEF Readers, Threads, TypeOK, IoOK
<1>7. Careful'
  BY ContainerAssumption DEF Careful, Threads, TypeOK, IoOK
<1>8. QED  BY <1>1, <1>2, <1>3, <1>4, <1>5, <1>6, <1>7

(* What is not seen in the container has left it, with its rows saved.     *)
LEMMA ListContainerIInv ==
  ASSUME IInv, ~crashed, ListContainer PROVE IInv'
<1> USE DEF Deleting, Joinable, AtWork, ListContainer, threads, tables, history, IInv, Idle, Jobs
<1>1. TypeOK'
  <2>1. io \in [op : {"list", "answer"}, lacks : SUBSET Extracts]
    BY DEF TypeOK, IoOK
  <2>2. IoOK' /\ io'.op = "answer"
    BY <2>1 DEF IoOK, TypeOK
  <2>3. QED  BY <2>2, ContainerAssumption DEF TypeOK
<1>2. ListedUnlessCompleting'
  BY ContainerAssumption DEF ListedUnlessCompleting, TypeOK, IoOK,
       Threads, Commanded, Rows, Finals, Listing
<1>3. Threads' /\ Commanded' /\ Rows' /\ Finals' /\ Listing' /\ WatchGone'
       /\ SoundUseSurvives'
  BY DEF Threads, Commanded, Rows, Finals, Listing, WatchGone, SoundUseSurvives
<1>4. Readers'
  BY ContainerAssumption DEF Readers, Threads, TypeOK, IoOK
<1>5. Careful'
  BY ContainerAssumption DEF Careful, Threads, TypeOK, IoOK
<1>6. QED  BY <1>1, <1>2, <1>3, <1>4, <1>5

LEMMA AnswerIInv ==
  ASSUME IInv, ~crashed, Answer PROVE IInv'
<1> USE DEF Deleting, Joinable, AtWork, Answer, Idle, threads, tables, history, IInv, Jobs
<1>1. TypeOK'
  BY ContainerAssumption DEF TypeOK, IoOK
<1>2. Threads' /\ Commanded' /\ Rows' /\ Finals' /\ Listing' /\
       ListedUnlessCompleting' /\ WatchGone' /\ SoundUseSurvives'
  BY DEF Threads, Commanded, Rows, Finals, Listing,
       ListedUnlessCompleting, WatchGone, SoundUseSurvives
<1>3. Readers'
  BY ContainerAssumption DEF Readers, Threads, TypeOK, IoOK
<1>4. Careful'
  BY ContainerAssumption DEF Careful, Threads, TypeOK, IoOK
<1>5. QED  BY <1>1, <1>2, <1>3, <1>4

-----------------------------------------------------------------------------
LEMMA BeginIInv ==
  ASSUME IInv, ~crashed, NEW j \in Jobs, Begin(j) PROVE IInv'
<1> USE DEF Others, Deleting, Joinable, AtWork, Begin, Goto, FailIfExtract, tables, IInv, Idle, Jobs
<1>1. TypeOK'
  BY ContainerAssumption DEF TypeOK, IoOK
<1>2. Threads'
  BY ContainerAssumption DEF Threads, TypeOK
<1>3. Commanded'
  BY ContainerAssumption DEF Commanded, TypeOK, IoOK
<1>4. WatchGone'
  BY ContainerAssumption DEF WatchGone, TypeOK
<1>5. Rows' /\ Finals'
  BY ContainerAssumption DEF Rows, Finals, TypeOK
<1>6. Listing' /\ ListedUnlessCompleting' /\ SoundUseSurvives'
  BY DEF Listing, ListedUnlessCompleting, SoundUseSurvives
<1>7. Readers'
  BY ContainerAssumption DEF Readers, Threads, TypeOK, IoOK
<1>8. Careful'
  BY ContainerAssumption DEF Careful, Threads, TypeOK, IoOK
<1>9. QED  BY <1>1, <1>2, <1>3, <1>4, <1>5, <1>6, <1>7, <1>8

LEMMA InitDDCIInv ==
  ASSUME IInv, ~crashed, NEW j \in Jobs, InitDDC(j) PROVE IInv'
<1> USE DEF Others, Deleting, Joinable, AtWork, InitDDC, Goto, FailIfExtract, tables, IInv, Idle, Jobs
<1>1. TypeOK'
  BY ContainerAssumption DEF TypeOK, IoOK
<1>2. Threads'
  BY ContainerAssumption DEF Threads, TypeOK
<1>3. Commanded'
  BY ContainerAssumption DEF Commanded, TypeOK, IoOK
<1>4. WatchGone'
  BY ContainerAssumption DEF WatchGone, TypeOK
<1>5. Rows' /\ Finals'
  BY ContainerAssumption DEF Rows, Finals, TypeOK
<1>6. Listing' /\ ListedUnlessCompleting' /\ SoundUseSurvives'
  BY DEF Listing, ListedUnlessCompleting, SoundUseSurvives
<1>7. Readers'
  BY ContainerAssumption DEF Readers, Threads, TypeOK, IoOK
<1>8. Careful'
  BY ContainerAssumption DEF Careful, Threads, TypeOK, IoOK
<1>9. QED  BY <1>1, <1>2, <1>3, <1>4, <1>5, <1>6, <1>7, <1>8

LEMMA StartReaderIInv ==
  ASSUME IInv, ~crashed, NEW j \in Jobs, StartReader(j) PROVE IInv'
<1> USE DEF Deleting, Joinable, AtWork, StartReader, Others, Goto, tables, IInv, Idle, Jobs
<1>1. TypeOK'
  BY ContainerAssumption DEF TypeOK, IoOK
<1>2. Threads'
  BY ContainerAssumption DEF Threads, TypeOK
<1>3. Commanded'
  BY ContainerAssumption DEF Commanded, TypeOK, IoOK
<1>4. WatchGone'
  BY ContainerAssumption DEF WatchGone, TypeOK, IoOK
<1>5. Rows' /\ Finals'
  BY ContainerAssumption DEF Rows, Finals, TypeOK, Threads
<1>6. Listing' /\ ListedUnlessCompleting'
  BY DEF Listing, ListedUnlessCompleting
<1>7. SoundUseSurvives'
  BY DEF SoundUseSurvives, Careful, TypeOK
<1>8. Readers'
  BY ContainerAssumption DEF Readers, Threads, TypeOK
<1>9. Careful'
  BY ContainerAssumption DEF Careful, Threads, TypeOK, IoOK
<1>10. QED  BY <1>1, <1>2, <1>3, <1>4, <1>5, <1>6, <1>7, <1>8, <1>9

(* A request the code cannot serve has been made.                          *)
LEMMA BreakIInv ==
  ASSUME IInv, ~crashed, NEW j \in Jobs, Break(j) PROVE IInv'
<1> USE DEF Deleting, Joinable, AtWork, Break, Others, Goto, tables, IInv, Idle, Jobs
<1>1. TypeOK'
  BY ContainerAssumption DEF TypeOK, IoOK
<1>2. Threads'
  BY ContainerAssumption DEF Threads, TypeOK
<1>3. Commanded'
  BY ContainerAssumption DEF Commanded, TypeOK, IoOK
<1>4. WatchGone'
  BY ContainerAssumption DEF WatchGone, TypeOK, IoOK
<1>5. Rows' /\ Finals'
  BY ContainerAssumption DEF Rows, Finals, TypeOK, Threads
<1>6. Listing' /\ ListedUnlessCompleting'
  BY DEF Listing, ListedUnlessCompleting
<1>7. SoundUseSurvives'
  BY DEF SoundUseSurvives, Careful, TypeOK
<1>8. Readers'
  BY ContainerAssumption DEF Readers, Threads, TypeOK
<1>9. Careful'
  BY ContainerAssumption DEF Careful, Threads, TypeOK, IoOK
<1>10. QED  BY <1>1, <1>2, <1>3, <1>4, <1>5, <1>6, <1>7, <1>8, <1>9

LEMMA ReaderEndsIInv ==
  ASSUME IInv, ~crashed, NEW j \in Jobs, ReaderEnds(j) PROVE IInv'
<1> USE DEF Deleting, Joinable, AtWork, ReaderEnds, Others, Goto, tables, IInv, Idle, Jobs
<1>1. TypeOK'
  BY ContainerAssumption DEF TypeOK, IoOK
<1>2. Threads'
  BY ContainerAssumption DEF Threads, TypeOK
<1>3. Commanded'
  BY ContainerAssumption DEF Commanded, TypeOK, IoOK
<1>4. WatchGone'
  BY ContainerAssumption DEF WatchGone, TypeOK, IoOK
<1>5. Rows' /\ Finals'
  BY ContainerAssumption DEF Rows, Finals, TypeOK, Threads
<1>6. Listing' /\ ListedUnlessCompleting'
  BY DEF Listing, ListedUnlessCompleting
<1>7. SoundUseSurvives'
  BY DEF SoundUseSurvives, Careful, TypeOK
<1>8. Readers'
  BY ContainerAssumption DEF Readers, Threads, TypeOK
<1>9. Careful'
  BY ContainerAssumption DEF Careful, Threads, TypeOK, IoOK
<1>10. QED  BY <1>1, <1>2, <1>3, <1>4, <1>5, <1>6, <1>7, <1>8, <1>9

(* A worker finds its reader joined only if somebody deleted in haste.      *)
LEMMA JoinReaderIInv ==
  ASSUME IInv, ~crashed, NEW j \in Jobs, JoinReader(j) PROVE IInv'
<1>1. TypeOK'
  <2>1. /\ UNCHANGED <<Others, exeRunning, failed, tables>> /\ crashed' \in {crashed, TRUE}
        /\ \/ UNCHANGED pc
           \/ pc' = [pc EXCEPT ![j] = "mission"] \/ pc' = [pc EXCEPT ![j] = "callback"]
        /\ reader' = reader \/ reader' = [reader EXCEPT ![j] = "joined"]
    BY DEF JoinReader, Closed, Goto
  <2>2. IoOK'
    BY <2>1 DEF Others, IInv, TypeOK, IoOK
  <2>3. /\ pc' \in [Jobs -> {"none", "begin", "init", "start", "extract", "join", "mission",
                            "results", "callback", "push", "ended"}]
        /\ reader' \in [Jobs -> {"none", "run", "done", "joined"}]
    BY <2>1 DEF IInv, TypeOK
  <2>4. QED  BY <2>1, <2>2, <2>3 DEF Others, tables, IInv, TypeOK
<1> USE DEF Deleting, Joinable, AtWork, JoinReader, Closed, Taken, IoJoins, Others, Goto, tables, IInv, Idle, Jobs
<1>2. Threads'
  BY ContainerAssumption DEF Threads, TypeOK
<1>3. Commanded'
  BY ContainerAssumption DEF Commanded, TypeOK, IoOK
<1>4. WatchGone'
  BY ContainerAssumption DEF WatchGone, TypeOK, IoOK
<1>5. Rows' /\ Finals'
  BY ContainerAssumption DEF Rows, Finals, TypeOK, Threads
<1>6. Listing' /\ ListedUnlessCompleting'
  BY DEF Listing, ListedUnlessCompleting
<1>7. SoundUseSurvives'
  BY DEF SoundUseSurvives, Careful, TypeOK
<1>8. Readers'
  BY ContainerAssumption DEF Readers, Threads, TypeOK
<1>9. Careful'
  BY ContainerAssumption DEF Careful, Threads, TypeOK, IoOK
<1>10. QED  BY <1>1, <1>2, <1>3, <1>4, <1>5, <1>6, <1>7, <1>8, <1>9

(* An extract job's own flag is up: it goes on to save its rows.           *)
LEMMA EndExtractIInv ==
  ASSUME IInv, ~crashed, NEW j \in Jobs, EndExtract(j) PROVE IInv'
<1> USE DEF Others, Deleting, Joinable, AtWork, EndExtract, Closed, Goto, tables, history, IInv, Idle, Jobs
<1>1. TypeOK'
  BY ContainerAssumption DEF TypeOK, IoOK
<1>2. Rows'
  BY ContainerAssumption DEF Rows, TypeOK, IoOK, Threads
<1>3. Threads'
  BY ContainerAssumption DEF Threads, TypeOK
<1>4. Commanded' /\ Finals' /\ Listing' /\ ListedUnlessCompleting' /\
       WatchGone' /\ SoundUseSurvives'
  BY DEF Commanded, Finals, Listing, ListedUnlessCompleting, WatchGone, SoundUseSurvives
<1>5. Readers'
  BY ContainerAssumption DEF Readers, Threads, TypeOK, IoOK
<1>6. Careful'
  BY ContainerAssumption DEF Careful, Threads, TypeOK, IoOK
<1>7. QED  BY <1>1, <1>2, <1>3, <1>4, <1>5, <1>6

LEMMA AbandonExtractIInv ==
  ASSUME IInv, ~crashed, NEW j \in Jobs, AbandonExtract(j) PROVE IInv'
<1> USE DEF Others, Deleting, Joinable, AtWork, AbandonExtract, Goto, tables, IInv, Idle, Jobs
<1>1. TypeOK'
  BY ContainerAssumption DEF TypeOK, IoOK
<1>2. Threads'
  BY ContainerAssumption DEF Threads, TypeOK
<1>3. Commanded' /\ Rows' /\ Finals' /\ Listing' /\ ListedUnlessCompleting'
       /\ WatchGone' /\ SoundUseSurvives'
  BY DEF Commanded, Rows, Finals, Listing, ListedUnlessCompleting,
       WatchGone, SoundUseSurvives
<1>4. Readers'
  BY ContainerAssumption DEF Readers, Threads, TypeOK, IoOK
<1>5. Careful'
  BY ContainerAssumption DEF Careful, Threads, TypeOK, IoOK
<1>6. QED  BY <1>1, <1>2, <1>3, <1>4, <1>5

LEMMA SaveMissionIInv ==
  ASSUME IInv, ~crashed, NEW j \in Jobs, SaveMission(j) PROVE IInv'
<1> USE DEF Others, Deleting, Joinable, AtWork, SaveMission, Goto, IInv, Idle, Jobs
<1>1. TypeOK'
  <2>1. IoOK' /\ pc' \in [Jobs -> {"none", "begin", "init", "start", "extract", "join",
                          "mission", "results", "callback", "push", "ended"}]
    BY DEF TypeOK, IoOK
  <2>2. j \in Extracts
    BY DEF Threads
  <2>3. mission' \subseteq Extracts /\ failed' \subseteq Extracts
    BY <2>2 DEF TypeOK
  <2>4. QED  BY <2>1, <2>3 DEF TypeOK
<1>2. Threads'
  BY ContainerAssumption DEF Threads, TypeOK
<1>3. Commanded'
  BY ContainerAssumption DEF Commanded, TypeOK, IoOK
<1>4. WatchGone'
  BY ContainerAssumption DEF WatchGone, TypeOK
<1>5. Rows' /\ Finals'
  BY ContainerAssumption DEF Rows, Finals, TypeOK
<1>6. Listing' /\ ListedUnlessCompleting' /\ SoundUseSurvives'
  BY DEF Listing, ListedUnlessCompleting, SoundUseSurvives
<1>7. Readers'
  BY ContainerAssumption DEF Readers, Threads, TypeOK, IoOK
<1>8. Careful'
  BY ContainerAssumption DEF Careful, Threads, TypeOK, IoOK
<1>9. QED  BY <1>1, <1>2, <1>3, <1>4, <1>5, <1>6, <1>7, <1>8

LEMMA SaveResultsIInv ==
  ASSUME IInv, ~crashed, NEW j \in Jobs, SaveResults(j) PROVE IInv'
<1> USE DEF Others, Deleting, Joinable, AtWork, SaveResults, Goto, IInv, Idle, Jobs
<1>1. TypeOK'
  <2>1. IoOK' /\ pc' \in [Jobs -> {"none", "begin", "init", "start", "extract", "join",
                          "mission", "results", "callback", "push", "ended"}]
    BY DEF TypeOK, IoOK
  <2>2. j \in Extracts
    BY DEF Threads
  <2>3. results' \subseteq Extracts /\ failed' \subseteq Extracts
    BY <2>2 DEF TypeOK
  <2>4. QED  BY <2>1, <2>3 DEF TypeOK
<1>2. Rows'
  <2>1. j \in Extracts /\ (j \in mission \/ j \in deleted)
    BY DEF Threads, Rows
  <2>2. CASE results' = results \cup {j} /\ failed' = failed
    BY <2>1, <2>2 DEF Rows, TypeOK
  <2>3. CASE failed' = failed \cup {j} /\ results' = results
    BY <2>1, <2>3 DEF Rows, TypeOK
  <2>4. QED  BY <2>2, <2>3
<1>3. Threads' /\ Commanded' /\ Finals' /\ Listing' /\
       ListedUnlessCompleting' /\ WatchGone' /\ SoundUseSurvives'
  BY DEF Threads, Commanded, Finals, Listing, ListedUnlessCompleting,
       WatchGone, SoundUseSurvives
<1>4. Readers'
  BY ContainerAssumption DEF Readers, Threads, TypeOK, IoOK
<1>5. Careful'
  BY ContainerAssumption DEF Careful, Threads, TypeOK, IoOK
<1>6. QED  BY <1>1, <1>2, <1>3, <1>4, <1>5

(* The task of a job begins as its worker ends.                            *)
LEMMA CallbackIInv ==
  ASSUME IInv, ~crashed, NEW j \in Jobs, Callback(j) PROVE IInv'
<1> USE DEF Deleting, Joinable, AtWork, Callback, Goto, tables, history, IInv, Idle, Jobs
<1>1. TypeOK'
  BY ContainerAssumption DEF TypeOK, IoOK, Threads
<1>2. Listing'
  BY ContainerAssumption DEF Listing, TypeOK, IoOK, Threads
<1>3. ListedUnlessCompleting'
  BY ContainerAssumption DEF ListedUnlessCompleting, TypeOK, IoOK, Threads
<1>4. Threads'
  BY ContainerAssumption DEF Threads, TypeOK
<1>5. Commanded' /\ Rows' /\ Finals' /\ WatchGone' /\ SoundUseSurvives'
  BY DEF Commanded, Rows, Finals, WatchGone, SoundUseSurvives
<1>6. Readers'
  BY ContainerAssumption DEF Readers, Threads, TypeOK, IoOK
<1>7. Careful'
  BY ContainerAssumption DEF Careful, Threads, TypeOK, IoOK
<1>8. QED  BY <1>1, <1>2, <1>3, <1>4, <1>5, <1>6, <1>7

LEMMA PushIInv ==
  ASSUME IInv, ~crashed, NEW j \in Jobs, Push(j) PROVE IInv'
<1> USE DEF Others, Deleting, Joinable, AtWork, Push, Goto, Clash, tables, history, IInv, Idle, Jobs
<1>1. TypeOK'
  BY DEF TypeOK, IoOK
<1>2. Threads'
  BY ContainerAssumption DEF Threads, TypeOK
<1>3. Commanded'
  BY ContainerAssumption DEF Commanded, TypeOK, IoOK
<1>4. WatchGone'
  BY ContainerAssumption DEF WatchGone, TypeOK
<1>5. Rows' /\ Finals'
  BY ContainerAssumption DEF Rows, Finals, TypeOK
<1>6. Listing' /\ ListedUnlessCompleting' /\ SoundUseSurvives'
  BY DEF Listing, ListedUnlessCompleting, SoundUseSurvives, Careful
<1>7. Readers'
  BY ContainerAssumption DEF Readers, Threads, TypeOK, IoOK
<1>8. Careful'
  BY ContainerAssumption DEF Careful, Threads, TypeOK, IoOK
<1>9. QED  BY <1>1, <1>2, <1>3, <1>4, <1>5, <1>6, <1>7, <1>8

-----------------------------------------------------------------------------
(* One task at a time has _mtx.                                            *)
LEMMA FindIInv ==
  ASSUME IInv, ~crashed, NEW j \in Jobs, Find(j) PROVE IInv'
<1> USE DEF Deleting, Joinable, AtWork, Find, threads, tables, history, IInv, Idle, Jobs
<1>1. TypeOK'
  BY ContainerAssumption DEF TypeOK, IoOK
<1>2. Threads' /\ Listing' /\ ListedUnlessCompleting'
  BY ContainerAssumption DEF Threads, Listing, ListedUnlessCompleting,
       TypeOK
<1>3. Commanded' /\ Rows' /\ Finals' /\ WatchGone' /\ SoundUseSurvives'
  BY DEF Commanded, Rows, Finals, WatchGone, SoundUseSurvives
<1>4. Readers'
  BY ContainerAssumption DEF Readers, Threads, TypeOK, IoOK
<1>5. Careful'
  BY ContainerAssumption DEF Careful, Threads, TypeOK, IoOK
<1>6. QED  BY <1>1, <1>2, <1>3, <1>4, <1>5

(* A job that leaves has its rows, or has failed or been deleted.          *)
LEMMA EraseIInv ==
  ASSUME IInv, ~crashed, NEW j \in Jobs, Erase(j) PROVE IInv'
<1> USE DEF Deleting, Joinable, AtWork, Erase, threads, tables, history, IInv, Idle, Jobs
<1>1. TypeOK'
  <2>1. CASE Joinable(j)
    <3>1. /\ exeRunning' \in [Jobs -> BOOLEAN]
          /\ task' \in [Jobs -> {"none", "start", "wait", "destroy", "done"}]
          /\ \A k \in Jobs : task'[k] \in {"wait", "destroy"}
                             <=> task[k] \in {"wait", "destroy"}
      BY <2>1 DEF TypeOK
    <3>2. IoOK' /\ UNCHANGED <<io, mtx>>
      BY <2>1 DEF TypeOK, IoOK
    <3>3. QED  BY <3>1, <3>2 DEF TypeOK
  <2>2. CASE ~Joinable(j)
    BY <2>2, ContainerAssumption DEF TypeOK, IoOK
  <2>3. QED  BY <2>1, <2>2
<1>2. Listing'
  BY ContainerAssumption DEF Listing, TypeOK, IoOK, Rows
<1>3. Threads'
  BY ContainerAssumption DEF Threads, TypeOK
<1>4. WatchGone'
  BY ContainerAssumption DEF WatchGone, TypeOK
<1>5. ListedUnlessCompleting'
  BY ContainerAssumption DEF ListedUnlessCompleting, TypeOK
<1>6. Commanded' /\ Rows' /\ Finals' /\ SoundUseSurvives'
  BY DEF Commanded, Rows, Finals, SoundUseSurvives
<1>7. Readers'
  BY ContainerAssumption DEF Readers, Threads, TypeOK, IoOK
<1>8. Careful'
  BY ContainerAssumption DEF Careful, Threads, TypeOK, IoOK
<1>9. QED  BY <1>1, <1>2, <1>3, <1>4, <1>5, <1>6, <1>7, <1>8

(* So does a task that destroys a job.                                     *)
LEMMA DestroyIInv ==
  ASSUME IInv, ~crashed, NEW j \in Jobs, Destroy(j) PROVE IInv'
<1> USE DEF Deleting, Joinable, AtWork, Destroy, Taken, IoJoins, tables, history, IInv, Idle, Jobs
<1>1. TypeOK'
  <2>1. CASE reader[j] = "done" /\ UNCHANGED crashed
    BY <2>1, ContainerAssumption DEF TypeOK, IoOK
  <2>2. CASE crashed' = TRUE /\ UNCHANGED <<reader, mtx, task>>
    BY <2>2, ContainerAssumption DEF TypeOK, IoOK
  <2>3. QED  BY <2>1, <2>2
<1>2. Threads'
  BY ContainerAssumption DEF Threads, TypeOK
<1>3. Commanded'
  BY ContainerAssumption DEF Commanded, TypeOK, IoOK
<1>4. WatchGone'
  BY ContainerAssumption DEF WatchGone, TypeOK, IoOK
<1>5. Rows' /\ Finals'
  BY ContainerAssumption DEF Rows, Finals, TypeOK, Threads
<1>6. Listing' /\ ListedUnlessCompleting'
  BY ContainerAssumption DEF Listing, ListedUnlessCompleting, TypeOK
<1>7. SoundUseSurvives'
  BY DEF SoundUseSurvives, Careful, TypeOK
<1>8. Readers'
  BY ContainerAssumption DEF Readers, Threads, TypeOK
<1>9. Careful'
  BY ContainerAssumption DEF Careful, Threads, TypeOK, IoOK
<1>10. QED  BY <1>1, <1>2, <1>3, <1>4, <1>5, <1>6, <1>7, <1>8, <1>9

-----------------------------------------------------------------------------
LEMMA InitIInv == Init => IInv
<1> SUFFICES ASSUME Init PROVE IInv
  OBVIOUS
<1> USE ContainerAssumption DEF Init, Idle, Jobs
<1>1. TypeOK
  BY DEF TypeOK, IoOK
<1>2. Threads /\ Commanded /\ Rows /\ Finals
  BY DEF Threads, Commanded, Rows, Finals, Deleting
<1>3. Readers /\ Careful
  BY DEF Readers, Careful, AtWork, Joinable
<1>4. Listing /\ ListedUnlessCompleting /\ WatchGone /\ SoundUseSurvives
  BY DEF Listing, ListedUnlessCompleting, WatchGone, SoundUseSurvives
<1>5. QED  BY <1>1, <1>2, <1>3, <1>4 DEF IInv

LEMMA SameIInv == ASSUME IInv, UNCHANGED vars PROVE IInv'
<1> USE DEF vars, threads, tables, history, IInv
<1>1. TypeOK' /\ Threads' /\ Commanded' /\ Rows' /\ Finals'
  BY DEF TypeOK, IoOK, Idle, Threads, Commanded, Rows, Finals
<1>2. Readers' /\ Careful'
  BY DEF Readers, Careful, AtWork, Joinable
<1>3. Listing' /\ ListedUnlessCompleting' /\ WatchGone' /\ SoundUseSurvives'
  BY DEF Listing, ListedUnlessCompleting, WatchGone, SoundUseSurvives
<1>4. QED  BY <1>1, <1>2, <1>3

LEMMA NextIInv == ASSUME IInv, [Next]_vars PROVE IInv'
<1>1. ASSUME ~crashed, Commands PROVE IInv'
  BY <1>1, CreateIInv, DeleteExtractIInv, DeleteWatchIInv, ListTablesIInv, AskWatchesIInv
     DEF Commands
<1>2. ASSUME ~crashed, Command PROVE IInv'
  BY <1>2, InsertIInv, StopExtractIInv, TestReaderIInv, IoJoinReaderIInv, DeleteMissionIInv,
     DeleteResultsIInv, StopWatchIInv, JoinWatchIInv, ListContainerIInv, AnswerIInv DEF Command
<1>3. ASSUME ~crashed, NEW j \in Jobs, Work(j) PROVE IInv'
  BY <1>3, BeginIInv, InitDDCIInv, StartReaderIInv, EndExtractIInv, JoinReaderIInv,
     AbandonExtractIInv, SaveMissionIInv, SaveResultsIInv, CallbackIInv, PushIInv DEF Work
<1>4. ASSUME ~crashed, NEW j \in Jobs, Break(j) \/ ReaderEnds(j) \/ Complete(j) PROVE IInv'
  BY <1>4, BreakIInv, ReaderEndsIInv, FindIInv, EraseIInv, DestroyIInv DEF Complete
<1>5. QED  BY <1>1, <1>2, <1>3, <1>4, SameIInv DEF Next

LEMMA SpecIInv == Spec => []IInv
BY InitIInv, NextIInv, PTL DEF Spec

(* The io thread, the workers, the tasks and the mutex keep their places,  *)
(* and a command its shape, however many jobs there are.                   *)
THEOREM SpecTypeOK == Spec => []TypeOK
<1>1. IInv => TypeOK
  BY DEF IInv
<1>2. QED  BY <1>1, SpecIInv, PTL

(* deleteWatchJob() leaves nothing of the job behind, and nothing comes    *)
(* back, however many jobs start and end beside it.                        *)
THEOREM SpecWatchGone == Spec => []WatchGone
<1>1. IInv => WatchGone
  BY DEF IInv
<1>2. QED  BY <1>1, SpecIInv, PTL

(* deleteExtract() of a job that has ended is final.                       *)
THEOREM SpecFinishedDeleteIsFinal == Spec => []FinishedDeleteIsFinal
<1>1. IInv => FinishedDeleteIsFinal
  BY DEF IInv, Finals, FinishedDeleteIsFinal
<1>2. QED  BY <1>1, SpecIInv, PTL

(* Whatever locks are missing, a container whose extract jobs are deleted  *)
(* only when they are out of it, whose jobs are created one after the      *)
(* other and for requests the code can serve, never ends the process: no   *)
(* thread meets another at a reader or at _futures, and none looks into a  *)
(* map that is changing.                                                   *)
THEOREM SpecSoundUseSurvives == Spec => []SoundUseSurvives
<1>1. IInv => SoundUseSurvives
  BY DEF IInv
<1>2. QED  BY <1>1, SpecIInv, PTL

(* getExtractList() leaves out nothing but a job completing meanwhile.     *)
THEOREM SpecListedUnlessCompleting == Spec => []ListedUnlessCompleting
<1>1. IInv => ListedUnlessCompleting
  BY DEF IInv
<1>2. QED  BY <1>1, SpecIInv, PTL

(* A job's thread object is never destroyed before its thread has ended:   *)
(* of all steps only the two that join it take it from the container.      *)
THEOREM SpecErasedWhenEnded == Spec => ErasedWhenEnded
<1> DEFINE Kept == \A j \in container : j \notin container' => pc[j] = "ended"
<1>1. ASSUME Commands \/ Command PROVE Kept
  BY <1>1 DEF Commands, Command, Create, DeleteExtract, DeleteWatch, ListTables,
     AskWatches, Insert, StopExtract, TestReader, IoJoinReader, DeleteMission, DeleteResults, StopWatch,
     JoinWatch, ListContainer, Answer
<1>2. ASSUME NEW j \in Jobs, Work(j) \/ Break(j) \/ ReaderEnds(j) PROVE Kept
  BY <1>2 DEF Work, Begin, InitDDC, StartReader, Break, ReaderEnds, EndExtract, JoinReader,
     AbandonExtract, SaveMission, SaveResults, Callback, Push, Others
<1>3. ASSUME NEW j \in Jobs, Complete(j) PROVE Kept
  BY <1>3 DEF Complete, Find, Erase, Destroy
<1>4. [Next]_vars => [Kept]_vars
  BY <1>1, <1>2, <1>3 DEF Next
<1>5. QED  BY <1>4, PTL DEF Spec, ErasedWhenEnded
=============================================================================
