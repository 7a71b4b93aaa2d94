-------------------------- MODULE PlayAudio_proofs --------------------------
(***************************************************************************)
(* For any number of jobs: the types of PlayAudio, the lifetime of the     *)
(* conduit a runner writes into, and the ports of the listed jobs.         *)
(*                                                                         *)
(* Ports are distinct because they grow with the guids: jobs are created   *)
(* in the order of their guids, and a new one gets a port above that of    *)
(* the last job listed, whose port is the greatest.                        *)
(*                                                                         *)
(* Quiet use is clean because the globals are then those of the one job    *)
(* there is (OwnGlobals), which holds as long as none was deleted while    *)
(* its server came up (Unhurried): part by part, one lemma per action.     *)
(* What ends the process (EndReason) is an invariant beside them.          *)
(***************************************************************************)
EXTENDS PlayAudio, WellFoundedInduction, TLAPS

PortsGrow == \A i, j \in listed : i < j => port[i] < port[j]

(* A port is the base port and at most as much as there are jobs before.   *)
PortsLow == \A j \in listed : BasePort <= port[j] /\ port[j] < BasePort + j

(* Jobs are created in order, and listed when created.                     *)
InTurn ==
  /\ \A j, k \in Jobs : k < j /\ worker[j] # "none" => worker[k] # "none"
  /\ \A j \in listed : worker[j] # "none"

(* A port that was given stays within the bound.                           *)
Ports == PortsGrow /\ PortsLow /\ InTurn

IInv == TypeOK /\ RunnerHasConduit /\ Ports
-----------------------------------------------------------------------------
LEMMA SmallestOf ==
  ASSUME NEW S \in SUBSET Nat, S # {}
  PROVE  \E x \in S : \A y \in S : x <= y
<1>1. PICK x \in S : \A y \in S : ~ (<<y, x>> \in OpToRel(<, Nat))
  BY NatLessThanWellFounded, WFMin
<1>2. ASSUME NEW y \in S PROVE x <= y
  <2>1. ~ (<<y, x>> \in OpToRel(<, Nat))
    BY <1>1
  <2>2. ~ (y < x)
    BY <2>1 DEF OpToRel
  <2>3. QED  BY <2>2
<1>3. QED  BY <1>2

(* There is a job with the greatest guid among any jobs.                   *)
LEMMA LastOf ==
  ASSUME NEW S \in SUBSET Jobs, S # {}
  PROVE  \E a \in S : \A b \in S : b <= a
<1> DEFINE Rest == {MaxJobs - j : j \in S}
<1>1. MaxJobs \in Nat /\ \A j \in S : j \in Int /\ 1 <= j /\ j <= MaxJobs
  BY PlayAssumption DEF Jobs
<1>2. Rest \in SUBSET Nat /\ Rest # {}
  BY <1>1
<1>3. PICK x \in Rest : \A y \in Rest : x <= y
  BY <1>2, SmallestOf
<1>4. PICK a \in S : x = MaxJobs - a
  BY <1>3
<1>5. ASSUME NEW b \in S PROVE b <= a
  <2>1. MaxJobs - a <= MaxJobs - b
    BY <1>3, <1>4
  <2>2. QED  BY <2>1, <1>1
<1>6. QED  BY <1>5

(* The port of the next job is above those of the listed jobs, all of      *)
(* which come before it.                                                   *)
LEMMA NextPortAbove ==
  ASSUME TypeOK, Ports, NEW j \in Jobs, \A i \in listed : i < j
  PROVE  /\ NextPort \in Int
         /\ BasePort <= NextPort /\ NextPort < BasePort + j
         /\ \A i \in listed : port[i] < NextPort
<1>1. /\ BasePort \in Nat /\ MaxJobs \in Nat /\ j \in Int /\ 1 <= j
      /\ listed \in SUBSET Jobs /\ \A i \in listed : port[i] \in Int /\ i \in Int
  BY PlayAssumption DEF TypeOK, Jobs
<1>2. CASE listed = {}
  BY <1>1, <1>2 DEF NextPort
<1>3. CASE listed # {}
  <2> DEFINE last == CHOOSE a \in listed : \A b \in listed : b <= a
  <2>1. last \in listed /\ \A b \in listed : b <= last
    BY <1>1, <1>3, LastOf
  <2>2. NextPort = port[last] + 1
    BY <1>3 DEF NextPort
  <2> HIDE DEF last
  <2>3. BasePort <= port[last] /\ port[last] < BasePort + last /\ last < j
    BY <2>1 DEF Ports, PortsLow
  <2>4. ASSUME NEW i \in listed PROVE port[i] < port[last] + 1
    <3>1. CASE i = last
      BY <3>1, <1>1
    <3>2. CASE i # last
      <4>1. i < last
        BY <3>2, <2>1, <1>1
      <4>2. port[i] < port[last]
        BY <4>1, <2>1 DEF Ports, PortsGrow
      <4>3. QED  BY <4>2, <2>1, <1>1
    <3>3. QED  BY <3>1, <3>2
  <2>5. QED  BY <2>1, <2>2, <2>3, <2>4, <1>1
<1>4. QED  BY <1>2, <1>3

(* A worker that has started moves on: the jobs and ports are the same.    *)
LEMMA WorkerKeepsPorts ==
  ASSUME TypeOK, Ports, NEW j \in Jobs, worker[j] # "none",
         NEW place, place # "none",
         worker' = [worker EXCEPT ![j] = place], UNCHANGED <<listed, port>>
  PROVE  Ports'
<1>1. \A k \in Jobs : worker'[k] # "none" <=> worker[k] # "none"
  BY DEF TypeOK
<1>2. listed \subseteq Jobs
  BY DEF TypeOK
<1>3. InTurn'
  BY <1>1, <1>2 DEF InTurn, Ports
<1>4. PortsGrow' /\ PortsLow'
  BY DEF Ports, PortsGrow, PortsLow
<1>5. QED  BY <1>3, <1>4 DEF Ports

LEMMA SamePorts == ASSUME Ports, UNCHANGED <<worker, listed, port>> PROVE Ports'
BY DEF Ports, InTurn, PortsGrow, PortsLow
-----------------------------------------------------------------------------
LEMMA InitIInv == Init => IInv
<1> SUFFICES ASSUME Init PROVE IInv
  OBVIOUS
<1>1. TypeOK
  BY PlayAssumption DEF Init, TypeOK, Idle, Jobs
<1>2. RunnerHasConduit
  BY DEF Init, RunnerHasConduit
<1>3. Ports
  BY DEF Init, Ports, InTurn, PortsGrow, PortsLow
<1>4. QED  BY <1>1, <1>2, <1>3 DEF IInv

(* A new job has the greatest guid and the greatest port.                  *)
LEMMA CreateIInv == ASSUME IInv, NEW j \in Jobs, Create(j) PROVE IInv'
<1>1. TypeOK /\ Ports /\ listed \subseteq Jobs
  BY DEF IInv, TypeOK
<1>2. /\ BasePort \in Nat /\ MaxJobs \in Nat /\ j \in Int /\ j <= MaxJobs
      /\ \A i \in Jobs : i \in Int /\ 1 <= i
  BY PlayAssumption DEF Jobs
<1>3. ASSUME NEW i \in listed PROVE i < j
  <2>1. worker[i] # "none"
    BY <1>1 DEF Ports, InTurn
  <2>2. worker[j] = "none"
    BY DEF Create
  <2>3. ~ (j < i)
    BY <2>1, <2>2, <1>1 DEF Ports, InTurn
  <2>4. QED  BY <2>1, <2>2, <2>3, <1>1, <1>2
<1>4. /\ NextPort \in Int /\ BasePort <= NextPort /\ NextPort < BasePort + j
      /\ \A i \in listed : port[i] < NextPort
  BY <1>1, <1>3, NextPortAbove
<1>5. NextPort \in BasePort .. BasePort + MaxJobs - 1
  BY <1>2, <1>4
<1>6. /\ port' = [port EXCEPT ![j] = NextPort] /\ listed' = listed \cup {j}
      /\ worker' = [worker EXCEPT ![j] = "init"]
      /\ worker[j] = "none" /\ \A k \in 1 .. j - 1 : worker[k] # "none"
  BY DEF Create
<1>7. TypeOK'
  <2>1. port' \in [Jobs -> {0} \cup BasePort .. BasePort + MaxJobs - 1]
    BY <1>1, <1>5, <1>6 DEF TypeOK
  <2>2. worker' \in [Jobs -> {"none", "init", "env", "open", "launch", "serve", "linger",
                             "unwind", "ended"}]
    BY <1>1, <1>6 DEF TypeOK
  <2>3. running' \in [Jobs -> BOOLEAN] /\ shutting' \in BOOLEAN /\ overlap' \in BOOLEAN
    BY <1>1 DEF TypeOK, Create
  <2>4. listed' \subseteq Jobs /\ early' \subseteq Jobs
    BY <1>1, <1>6 DEF TypeOK, Create
  <2>5. UNCHANGED <<io, reading, serving, watchStop, trigger, crashed>>
    BY DEF Create
  <2>6. QED
    BY <1>1, <2>1, <2>2, <2>3, <2>4, <2>5 DEF TypeOK, reading, serving
<1>8. port'[j] = NextPort /\ \A i \in listed : port'[i] = port[i]
  <2>1. \A i \in listed : i # j /\ i \in Jobs
    BY <1>1, <1>2, <1>3
  <2>2. port \in [Jobs -> {0} \cup BasePort .. BasePort + MaxJobs - 1]
    BY <1>1 DEF TypeOK
  <2>3. QED  BY <1>6, <2>1, <2>2
<1>9. PortsGrow' /\ PortsLow'
  <2>1. \A i, k \in listed' : i < k => port'[i] < port'[k]
    BY <1>1, <1>2, <1>3, <1>4, <1>6, <1>8 DEF Ports, PortsGrow
  <2>2. \A i \in listed' : BasePort <= port'[i] /\ port'[i] < BasePort + i
    BY <1>1, <1>4, <1>6, <1>8 DEF Ports, PortsLow
  <2>3. QED  BY <2>1, <2>2 DEF PortsGrow, PortsLow
<1>10. InTurn'
  <2>1. worker'[j] = "init" /\ \A k \in Jobs : k # j => worker'[k] = worker[k]
    BY <1>1, <1>6 DEF TypeOK
  <2>2. \A k \in Jobs : k < j => worker[k] # "none"
    BY <1>6 DEF Jobs
  <2>3. \A i, k \in Jobs : k < i /\ worker'[i] # "none" => worker'[k] # "none"
    BY <1>1, <2>1, <2>2 DEF Ports, InTurn
  <2>4. \A i \in listed' : worker'[i] # "none"
    BY <1>1, <1>3, <1>6, <2>1 DEF Ports, InTurn
  <2>5. QED  BY <2>3, <2>4 DEF InTurn
<1>11. RunnerHasConduit'
  BY DEF IInv, RunnerHasConduit, Create, reading
<1>12. QED  BY <1>7, <1>9, <1>10, <1>11 DEF IInv, Ports

(* The deletion leaves workers and ports alone, but for the last step.     *)
LEMMA DeleteIInv ==
  ASSUME IInv, (\E j \in Jobs : Delete(j)) \/ StopSteps PROVE IInv'
<1>1. TypeOK /\ Ports /\ RunnerHasConduit /\ (io.op # "idle" => io.job \in Jobs)
  BY DEF IInv, TypeOK
<1>2. ASSUME NEW j \in Jobs, Delete(j) PROVE IInv'
  <2>1. TypeOK'
    BY <1>1, <1>2 DEF TypeOK, Delete, reading, serving, globals
  <2>2. Ports'
    BY <1>1, <1>2, SamePorts DEF Delete
  <2>3. RunnerHasConduit'
    BY <1>1, <1>2 DEF RunnerHasConduit, Delete, reading
  <2>4. QED  BY <2>1, <2>2, <2>3 DEF IInv
<1>3. CASE TriggerLoop
  <2>1. TypeOK'
    BY <1>1, <1>3 DEF TypeOK, TriggerLoop, reading, globals, history
  <2>2. Ports'
    BY <1>1, <1>3, SamePorts DEF TriggerLoop
  <2>3. RunnerHasConduit'
    BY <1>1, <1>3 DEF RunnerHasConduit, TriggerLoop, reading
  <2>4. QED  BY <2>1, <2>2, <2>3 DEF IInv
<1>4. CASE JoinLoop
  <2>1. TypeOK'
    BY <1>1, <1>4 DEF TypeOK, JoinLoop, reading, globals, history
  <2>2. Ports'
    BY <1>1, <1>4, SamePorts DEF JoinLoop
  <2>3. RunnerHasConduit'
    BY <1>1, <1>4 DEF RunnerHasConduit, JoinLoop, reading
  <2>4. QED  BY <2>1, <2>2, <2>3 DEF IInv
<1>5. CASE Reclaim
  <2>1. crashed' \in BOOLEAN /\ trigger' \in BOOLEAN /\ env' \subseteq Jobs
    BY <1>1, <1>5 DEF TypeOK, Reclaim
  <2>2. TypeOK'
    BY <1>1, <1>5, <2>1 DEF TypeOK, Reclaim, reading, history
  <2>3. Ports'
    BY <1>1, <1>5, SamePorts DEF Reclaim
  <2>4. RunnerHasConduit'
    BY <1>1, <1>5 DEF RunnerHasConduit, Reclaim, reading
  <2>5. QED  BY <2>2, <2>3, <2>4 DEF IInv
<1>6. CASE WaitWorker
  <2>1. crashed' \in BOOLEAN /\ listed' \subseteq listed
    BY <1>1, <1>6 DEF TypeOK, WaitWorker
  <2>2. TypeOK'
    BY <1>1, <1>6, <2>1
    DEF TypeOK, WaitWorker, reading, serving, globals, history, Idle
  <2>3. Ports'
    BY <1>1, <1>6, <2>1 DEF WaitWorker, Ports, InTurn, PortsGrow, PortsLow
  <2>4. RunnerHasConduit'
    BY <1>1, <1>6 DEF RunnerHasConduit, WaitWorker, reading
  <2>5. QED  BY <2>2, <2>3, <2>4 DEF IInv
<1>7. QED  BY <1>2, <1>3, <1>4, <1>5, <1>6 DEF StopSteps

(* The runner is started after the conduit and waited for before it goes.  *)
LEMMA WorkerIInv == ASSUME IInv, NEW j \in Jobs, WorkerOf(j) PROVE IInv'
<1>1. TypeOK /\ Ports /\ RunnerHasConduit
  BY DEF IInv
<1>2. CASE InitDDC(j)
  <2>1. TypeOK'
    BY <1>1, <1>2 DEF TypeOK, InitDDC, reading, serving, globals, history
  <2>2. Ports'
    BY <1>1, <1>2, WorkerKeepsPorts, SamePorts DEF InitDDC
  <2>3. RunnerHasConduit'
    BY <1>1, <1>2 DEF TypeOK, RunnerHasConduit, InitDDC, reading
  <2>4. QED  BY <2>1, <2>2, <2>3 DEF IInv
<1>3. CASE CreateEnv(j)
  <2>1. TypeOK'
    BY <1>1, <1>3 DEF TypeOK, CreateEnv, reading, globals, history
  <2>2. Ports'
    BY <1>1, <1>3, WorkerKeepsPorts DEF CreateEnv
  <2>3. RunnerHasConduit'
    BY <1>1, <1>3 DEF RunnerHasConduit, CreateEnv, reading
  <2>4. QED  BY <2>1, <2>2, <2>3 DEF IInv
<1>4. CASE OpenServer(j)
  <2>1. TypeOK'
    BY <1>1, <1>4 DEF TypeOK, OpenServer, reading, globals, history
  <2>2. Ports'
    BY <1>1, <1>4, WorkerKeepsPorts DEF OpenServer
  <2>3. RunnerHasConduit'
    BY <1>1, <1>4 DEF RunnerHasConduit, OpenServer, reading
  <2>4. QED  BY <2>1, <2>2, <2>3 DEF IInv
<1>5. CASE Launch(j)
  <2>1. TypeOK'
    BY <1>1, <1>5 DEF TypeOK, Launch, reading, history
  <2>2. Ports'
    BY <1>1, <1>5, WorkerKeepsPorts DEF Launch
  <2>3. RunnerHasConduit'
    BY <1>1, <1>5 DEF RunnerHasConduit, Launch, reading
  <2>4. QED  BY <2>1, <2>2, <2>3 DEF IInv
<1>6. CASE SeeStop(j)
  <2>1. TypeOK'
    BY <1>1, <1>6 DEF TypeOK, SeeStop, reading, serving, globals, history
  <2>2. Ports'
    BY <1>1, <1>6, WorkerKeepsPorts DEF SeeStop
  <2>3. RunnerHasConduit'
    BY <1>1, <1>6 DEF RunnerHasConduit, SeeStop, reading
  <2>4. QED  BY <2>1, <2>2, <2>3 DEF IInv
<1>7. CASE Close(j)
  <2>1. TypeOK'
    BY <1>1, <1>7 DEF TypeOK, Close, serving, globals, history
  <2>2. Ports'
    BY <1>1, <1>7, WorkerKeepsPorts DEF Close
  <2>3. RunnerHasConduit'
    BY <1>1, <1>7 DEF RunnerHasConduit, Close
  <2>4. QED  BY <2>1, <2>2, <2>3 DEF IInv
<1>8. CASE Unwind(j)
  <2>1. TypeOK'
    BY <1>1, <1>8 DEF TypeOK, Unwind, serving, globals, history
  <2>2. Ports'
    BY <1>1, <1>8, WorkerKeepsPorts DEF Unwind
  <2>3. RunnerHasConduit'
    BY <1>1, <1>8 DEF RunnerHasConduit, Unwind
  <2>4. QED  BY <2>1, <2>2, <2>3 DEF IInv
<1>9. QED  BY <1>2, <1>3, <1>4, <1>5, <1>6, <1>7, <1>8 DEF WorkerOf

LEMMA ThreadsIInv ==
  ASSUME IInv, NEW j \in Jobs, RunnerEnds(j) \/ RunnerBreaks(j) \/ LoopOf(j) \/ Clients(j)
  PROVE  IInv'
<1>1. TypeOK /\ Ports /\ RunnerHasConduit
  BY DEF IInv
<1>2. CASE RunnerEnds(j)
  <2>1. TypeOK'
    BY <1>1, <1>2 DEF TypeOK, RunnerEnds, serving, globals, history
  <2>2. Ports'
    BY <1>1, <1>2, SamePorts DEF RunnerEnds
  <2>3. RunnerHasConduit'
    BY <1>1, <1>2 DEF TypeOK, RunnerHasConduit, RunnerEnds
  <2>4. QED  BY <2>1, <2>2, <2>3 DEF IInv
<1>3. CASE LoopOf(j) \/ Clients(j)
  <2>1. UNCHANGED <<io, listed, port, running, worker, reading, env, history, crashed>>
    BY <1>3 DEF LoopOf, Clients, ClientPlays, ClientLeaves, HandleTrigger, LeaveLoop,
                history
  <2>2. /\ bound' \subseteq Jobs /\ stream' \subseteq Jobs /\ pending' \subseteq Jobs
        /\ watchStop' \in BOOLEAN /\ shutting' \in BOOLEAN /\ trigger' \in BOOLEAN
    BY <1>1, <1>3 DEF TypeOK, LoopOf, Clients, ClientPlays, ClientLeaves, HandleTrigger,
                      LeaveLoop, globals
  <2>3. loop' \in [Jobs -> {"none", "loop", "exited", "joined"}]
    BY <1>1, <1>3 DEF TypeOK, LoopOf, Clients, ClientPlays, ClientLeaves, HandleTrigger,
                      LeaveLoop
  <2>4. TypeOK'
    BY <1>1, <2>1, <2>2, <2>3 DEF TypeOK, reading, history
  <2>5. Ports'
    BY <1>1, <2>1, SamePorts
  <2>6. RunnerHasConduit'
    BY <1>1, <2>1 DEF RunnerHasConduit, reading
  <2>7. QED  BY <2>4, <2>5, <2>6 DEF IInv
<1>4. CASE RunnerBreaks(j)
  <2>1. TypeOK'
    BY <1>1, <1>4 DEF TypeOK, RunnerBreaks, reading, serving, globals, history
  <2>2. Ports'
    BY <1>1, <1>4, SamePorts DEF RunnerBreaks
  <2>3. RunnerHasConduit'
    BY <1>1, <1>4 DEF RunnerHasConduit, RunnerBreaks, reading
  <2>4. QED  BY <2>1, <2>2, <2>3 DEF IInv
<1>5. QED  BY <1>2, <1>3, <1>4

LEMMA StutterIInv == ASSUME IInv, UNCHANGED vars PROVE IInv'
<1>1. TypeOK'
  BY DEF IInv, TypeOK, vars, reading, serving, globals, history
<1>2. Ports'
  BY SamePorts DEF IInv, vars
<1>3. RunnerHasConduit'
  BY DEF IInv, RunnerHasConduit, vars, reading
<1>4. QED  BY <1>1, <1>2, <1>3 DEF IInv

LEMMA InductiveIInv == IInv /\ [Next]_vars => IInv'
BY CreateIInv, DeleteIInv, WorkerIInv, ThreadsIInv, StutterIInv DEF Next

LEMMA SpecIInv == Spec => []IInv
BY InitIInv, InductiveIInv, PTL DEF Spec
-----------------------------------------------------------------------------
(* Threads, flags and ports keep their types; a port is never further from *)
(* the base port than there are jobs.                                      *)
THEOREM SpecTypeOK == Spec => []TypeOK
<1>1. IInv => TypeOK
  BY DEF IInv
<1>2. QED  BY <1>1, SpecIInv, PTL

(* DDCRunner's task never outlives the conduit it writes into.             *)
THEOREM SpecRunnerHasConduit == Spec => []RunnerHasConduit
<1>1. IInv => RunnerHasConduit
  BY DEF IInv
<1>2. QED  BY <1>1, SpecIInv, PTL

(* However many jobs come and go, listed jobs have ports of their own.     *)
THEOREM SpecPortsDistinct == Spec => []PortsDistinct
<1>1. ASSUME IInv, NEW i \in listed, NEW j \in listed, port[i] = port[j] PROVE i = j
  <2>1. i \in Int /\ j \in Int /\ port[i] \in Int /\ port[j] \in Int
    BY <1>1, PlayAssumption DEF IInv, TypeOK, Jobs
  <2>2. (i < j => port[i] < port[j]) /\ (j < i => port[j] < port[i])
    BY <1>1 DEF IInv, Ports, PortsGrow
  <2>3. QED  BY <1>1, <2>1, <2>2
<1>2. IInv => PortsDistinct
  BY <1>1 DEF PortsDistinct
<1>3. QED  BY <1>2, SpecIInv, PTL
-----------------------------------------------------------------------------
(* Why quiet use is clean.  Deleting(j): the io thread is in stop() of j.  *)
Deleting(j) == io.op # "idle" /\ io.job = j

(* What the place of a worker says about the job, however it is used.      *)
Lives ==
  /\ io.op # "idle" => io.job \in listed
  /\ \A j \in Jobs :
       /\ worker[j] = "none" => j \notin listed
       /\ worker[j] \in {"none", "init"} => runner[j] = "none" /\ j \notin exe \cup conduit
       /\ worker[j] \in {"none", "init", "env"} => j \notin env
       /\ worker[j] \in {"none", "init", "env", "open", "launch"} =>
            loop[j] = "none" /\ j \notin stream
       /\ worker[j] \in {"env", "open", "launch", "serve", "linger", "unwind"} => j \in conduit
       /\ worker[j] = "unwind" => j \notin exe
       /\ worker[j] = "ended" => runner[j] # "run" /\ j \notin conduit \cup exe
       /\ worker[j] \in {"linger", "unwind"} => ~running[j]
       /\ worker[j] \notin {"none", "ended"} => j \in listed
       /\ j \in listed /\ ~running[j] => Deleting(j)

(* As long as no job was deleted before its server was up: stop() frees    *)
(* what nobody uses, and what it has joined stays joined.                  *)
Unhurried ==
  early = {} =>
    \A j \in Jobs :
      /\ worker[j] \in {"open", "launch"} => j \in env
      /\ Deleting(j) => ~Starting(j)
      /\ Deleting(j) /\ io.op \in {"reclaim", "wait"} => loop[j] \in {"none", "joined"}
      /\ Deleting(j) /\ io.op = "wait" => j \notin env

(* A job was created for a request that the code cannot serve.             *)
UnsoundStarted == \E j \in Unsound : worker[j] # "none"

(* What the process can have ended by.                                     *)
EndReason == crashed => early # {} \/ UnsoundStarted

(* Jobs that never overlap are listed one by one.                          *)
OneByOne == ~overlap => \A i, j \in listed : i = j

(* Then the globals are those of the one job: a loop has its trigger, its  *)
(* shutdown was not done before its watch variable says so, and from its   *)
(* trigger on no client can play.                                          *)
OwnGlobals ==
  Quiet =>
    \A j \in Jobs :
      /\ worker[j] \in {"init", "env", "open", "launch"} => ~shutting
      /\ j \in bound => worker[j] = "launch" \/ loop[j] = "loop"
      /\ loop[j] = "loop" =>
           /\ trigger /\ j \in env
           /\ watchStop => j \notin bound \cup stream
           /\ ~watchStop => ~shutting
           /\ Deleting(j) /\ io.op # "trigger" => j \in pending \/ j \notin bound \cup stream
           /\ worker[j] \in {"unwind", "ended"} => j \notin bound \cup stream
      /\ worker[j] # "none" /\ j \notin listed => NothingLeft(j)

Clean == Lives /\ Unhurried /\ OneByOne /\ OwnGlobals

LEMMA CreateClean == ASSUME TypeOK, Clean, NEW j \in Jobs, Create(j) PROVE Clean'
<1> USE DEF Create, globals, serving, reading, history, TypeOK, Idle, Clean
<1>1. Lives'
  BY DEF Lives, Deleting, Lingered
<1>2. Unhurried'
  BY DEF Unhurried, Deleting, Starting, Lives
<1>3. OneByOne'
  BY DEF OneByOne
<1>4. OwnGlobals'
  BY DEF OwnGlobals, Quiet, Deleting, Starting, NothingLeft, Lives, Unhurried, OneByOne, Lingered
<1>5. QED  BY <1>1, <1>2, <1>3, <1>4

LEMMA DeleteClean == ASSUME TypeOK, Clean, NEW j \in Jobs, Delete(j) PROVE Clean'
<1> USE DEF Delete, globals, serving, reading, history, TypeOK, Idle, Clean
<1>1. Lives'
  BY DEF Lives, Deleting, Lingered
<1>2. Unhurried'
  BY DEF Unhurried, Deleting, Starting, Lives
<1>3. OneByOne'
  BY DEF OneByOne
<1>4. OwnGlobals'
  BY DEF OwnGlobals, Quiet, Deleting, Starting, NothingLeft, Lives, Unhurried, OneByOne, Lingered
<1>5. QED  BY <1>1, <1>2, <1>3, <1>4

LEMMA InitDDCClean == ASSUME TypeOK, Clean, NEW j \in Jobs, InitDDC(j) PROVE Clean'
<1> USE DEF InitDDC, globals, serving, reading, history, TypeOK, Idle, Clean
<1>1. Lives'
  BY DEF Lives, Deleting, Lingered
<1>2. Unhurried'
  BY DEF Unhurried, Deleting, Starting, Lives
<1>3. OneByOne'
  BY DEF OneByOne
<1>4. OwnGlobals'
  BY DEF OwnGlobals, Quiet, Deleting, Starting, NothingLeft, Lives, Unhurried, OneByOne, Lingered
<1>5. QED  BY <1>1, <1>2, <1>3, <1>4

LEMMA CreateEnvClean == ASSUME TypeOK, Clean, NEW j \in Jobs, CreateEnv(j) PROVE Clean'
<1> USE DEF CreateEnv, globals, serving, reading, history, TypeOK, Idle, Clean
<1>1. Lives'
  BY DEF Lives, Deleting, Lingered
<1>2. Unhurried'
  BY DEF Unhurried, Deleting, Starting, Lives
<1>3. OneByOne'
  BY DEF OneByOne
<1>4. OwnGlobals'
  BY DEF OwnGlobals, Quiet, Deleting, Starting, NothingLeft, Lives, Unhurried, OneByOne, Lingered
<1>5. QED  BY <1>1, <1>2, <1>3, <1>4

LEMMA OpenServerClean == ASSUME TypeOK, Clean, NEW j \in Jobs, OpenServer(j) PROVE Clean'
<1> USE DEF OpenServer, globals, serving, reading, history, TypeOK, Idle, Clean
<1>1. Lives'
  BY DEF Lives, Deleting, Lingered
<1>2. Unhurried'
  BY DEF Unhurried, Deleting, Starting, Lives
<1>3. OneByOne'
  BY DEF OneByOne
<1>4. OwnGlobals'
  BY DEF OwnGlobals, Quiet, Deleting, Starting, NothingLeft, Lives, Unhurried, OneByOne, Lingered
<1>5. QED  BY <1>1, <1>2, <1>3, <1>4

LEMMA LaunchClean == ASSUME TypeOK, Clean, NEW j \in Jobs, Launch(j) PROVE Clean'
<1> USE DEF Launch, globals, serving, reading, history, TypeOK, Idle, Clean
<1>1. Lives'
  BY DEF Lives, Deleting, Lingered
<1>2. Unhurried'
  BY DEF Unhurried, Deleting, Starting, Lives
<1>3. OneByOne'
  BY DEF OneByOne
<1>4. OwnGlobals'
  BY DEF OwnGlobals, Quiet, Deleting, Starting, NothingLeft, Lives, Unhurried, OneByOne, Lingered
<1>5. QED  BY <1>1, <1>2, <1>3, <1>4

LEMMA SeeStopClean == ASSUME TypeOK, Clean, NEW j \in Jobs, SeeStop(j) PROVE Clean'
<1> USE DEF SeeStop, globals, serving, reading, history, TypeOK, Idle, Clean
<1>1. Lives'
  BY DEF Lives, Deleting, Lingered
<1>2. Unhurried'
  BY DEF Unhurried, Deleting, Starting, Lives
<1>3. OneByOne'
  BY DEF OneByOne
<1>4. OwnGlobals'
  BY DEF OwnGlobals, Quiet, Deleting, Starting, NothingLeft, Lives, Unhurried, OneByOne, Lingered
<1>5. QED  BY <1>1, <1>2, <1>3, <1>4

LEMMA CloseClean == ASSUME TypeOK, Clean, NEW j \in Jobs, Close(j) PROVE Clean'
<1> USE DEF Close, globals, serving, reading, history, TypeOK, Idle, Clean
<1>1. Lives'
  BY DEF Lives, Deleting, Lingered
<1>2. Unhurried'
  BY DEF Unhurried, Deleting, Starting, Lives
<1>3. OneByOne'
  BY DEF OneByOne
<1>4. OwnGlobals'
  BY DEF OwnGlobals, Quiet, Deleting, Starting, NothingLeft, Lives, Unhurried, OneByOne, Lingered
<1>5. QED  BY <1>1, <1>2, <1>3, <1>4

LEMMA UnwindClean == ASSUME TypeOK, Clean, NEW j \in Jobs, Unwind(j) PROVE Clean'
<1> USE DEF Unwind, globals, serving, reading, history, TypeOK, Idle, Clean
<1>1. Lives'
  BY DEF Lives, Deleting, Lingered
<1>2. Unhurried'
  BY DEF Unhurried, Deleting, Starting, Lives
<1>3. OneByOne'
  BY DEF OneByOne
<1>4. OwnGlobals'
  BY DEF OwnGlobals, Quiet, Deleting, Starting, NothingLeft, Lives, Unhurried, OneByOne, Lingered
<1>5. QED  BY <1>1, <1>2, <1>3, <1>4

LEMMA RunnerEndsClean == ASSUME TypeOK, Clean, NEW j \in Jobs, RunnerEnds(j) PROVE Clean'
<1> USE DEF RunnerEnds, globals, serving, reading, history, TypeOK, Idle, Clean
<1>1. Lives'
  BY DEF Lives, Deleting, Lingered
<1>2. Unhurried'
  BY DEF Unhurried, Deleting, Starting, Lives
<1>3. OneByOne'
  BY DEF OneByOne
<1>4. OwnGlobals'
  BY DEF OwnGlobals, Quiet, Deleting, Starting, NothingLeft, Lives, Unhurried, OneByOne, Lingered
<1>5. QED  BY <1>1, <1>2, <1>3, <1>4

LEMMA RunnerBreaksClean == ASSUME TypeOK, Clean, NEW j \in Jobs, RunnerBreaks(j) PROVE Clean'
<1> USE DEF RunnerBreaks, globals, serving, reading, history, TypeOK, Idle, Clean
<1>1. Lives'
  BY DEF Lives, Deleting, Lingered
<1>2. Unhurried'
  BY DEF Unhurried, Deleting, Starting, Lives
<1>3. OneByOne'
  BY DEF OneByOne
<1>4. OwnGlobals'
  BY DEF OwnGlobals, Quiet, Deleting, Starting, NothingLeft, Lives, Unhurried, OneByOne, Lingered
<1>5. QED  BY <1>1, <1>2, <1>3, <1>4

LEMMA ClientPlaysClean == ASSUME TypeOK, Clean, NEW j \in Jobs, ClientPlays(j) PROVE Clean'
<1> USE DEF ClientPlays, globals, serving, reading, history, TypeOK, Idle, Clean
<1>1. Lives'
  BY DEF Lives, Deleting, Lingered
<1>2. Unhurried'
  BY DEF Unhurried, Deleting, Starting, Lives
<1>3. OneByOne'
  BY DEF OneByOne
<1>4. OwnGlobals'
  BY DEF OwnGlobals, Quiet, Deleting, Starting, NothingLeft, Lives, Unhurried, OneByOne, Lingered
<1>5. QED  BY <1>1, <1>2, <1>3, <1>4

LEMMA ClientLeavesClean == ASSUME TypeOK, Clean, NEW j \in Jobs, ClientLeaves(j) PROVE Clean'
<1> USE DEF ClientLeaves, globals, serving, reading, history, TypeOK, Idle, Clean
<1>1. Lives'
  BY DEF Lives, Deleting, Lingered
<1>2. Unhurried'
  BY DEF Unhurried, Deleting, Starting, Lives
<1>3. OneByOne'
  BY DEF OneByOne
<1>4. OwnGlobals'
  BY DEF OwnGlobals, Quiet, Deleting, Starting, NothingLeft, Lives, Unhurried, OneByOne, Lingered
<1>5. QED  BY <1>1, <1>2, <1>3, <1>4

LEMMA HandleTriggerClean == ASSUME TypeOK, Clean, NEW j \in Jobs, HandleTrigger(j) PROVE Clean'
<1> USE DEF HandleTrigger, globals, serving, reading, history, TypeOK, Idle, Clean
<1>1. Lives'
  BY DEF Lives, Deleting, Lingered
<1>2. Unhurried'
  BY DEF Unhurried, Deleting, Starting, Lives
<1>3. OneByOne'
  BY DEF OneByOne
<1>4. OwnGlobals'
  BY DEF OwnGlobals, Quiet, Deleting, Starting, NothingLeft, Lives, Unhurried, OneByOne, Lingered
<1>5. QED  BY <1>1, <1>2, <1>3, <1>4

LEMMA LeaveLoopClean == ASSUME TypeOK, Clean, NEW j \in Jobs, LeaveLoop(j) PROVE Clean'
<1> USE DEF LeaveLoop, globals, serving, reading, history, TypeOK, Idle, Clean
<1>1. Lives'
  BY DEF Lives, Deleting, Lingered
<1>2. Unhurried'
  BY DEF Unhurried, Deleting, Starting, Lives
<1>3. OneByOne'
  BY DEF OneByOne
<1>4. OwnGlobals'
  BY DEF OwnGlobals, Quiet, Deleting, Starting, NothingLeft, Lives, Unhurried, OneByOne, Lingered
<1>5. QED  BY <1>1, <1>2, <1>3, <1>4

LEMMA TriggerLoopClean == ASSUME TypeOK, Clean, TriggerLoop PROVE Clean'
<1> USE DEF TriggerLoop, globals, serving, reading, history, TypeOK, Idle, Clean
<1>1. Lives'
  BY DEF Lives, Deleting, Lingered
<1>2. Unhurried'
  BY DEF Unhurried, Deleting, Starting, Lives
<1>3. OneByOne'
  BY DEF OneByOne
<1>4. OwnGlobals'
  BY DEF OwnGlobals, Quiet, Deleting, Starting, NothingLeft, Lives, Unhurried, OneByOne, Lingered
<1>5. QED  BY <1>1, <1>2, <1>3, <1>4

LEMMA JoinLoopClean == ASSUME TypeOK, Clean, JoinLoop PROVE Clean'
<1> USE DEF JoinLoop, globals, serving, reading, history, TypeOK, Idle, Clean
<1>1. Lives'
  BY DEF Lives, Deleting, Lingered
<1>2. Unhurried'
  BY DEF Unhurried, Deleting, Starting, Lives
<1>3. OneByOne'
  BY DEF OneByOne
<1>4. OwnGlobals'
  BY DEF OwnGlobals, Quiet, Deleting, Starting, NothingLeft, Lives, Unhurried, OneByOne, Lingered
<1>5. QED  BY <1>1, <1>2, <1>3, <1>4

LEMMA ReclaimClean == ASSUME TypeOK, Clean, Reclaim PROVE Clean'
<1> USE DEF Reclaim, globals, serving, reading, history, TypeOK, Idle, Clean
<1>1. Lives'
  BY DEF Lives, Deleting, Lingered
<1>2. Unhurried'
  BY DEF Unhurried, Deleting, Starting, Lives
<1>3. OneByOne'
  BY DEF OneByOne
<1>4. OwnGlobals'
  BY DEF OwnGlobals, Quiet, Deleting, Starting, NothingLeft, Lives, Unhurried, OneByOne, Lingered
<1>5. QED  BY <1>1, <1>2, <1>3, <1>4

LEMMA WaitWorkerClean == ASSUME TypeOK, Clean, WaitWorker PROVE Clean'
<1> USE DEF WaitWorker, globals, serving, reading, history, TypeOK, Idle, Clean
<1>1. Lives'
  BY DEF Lives, Deleting, Lingered
<1>2. Unhurried'
  BY DEF Unhurried, Deleting, Starting, Lives
<1>3. OneByOne'
  BY DEF OneByOne
<1>4. OwnGlobals'
  BY DEF OwnGlobals, Quiet, Deleting, Starting, NothingLeft, Lives, Unhurried, OneByOne, Lingered
<1>5. QED  BY <1>1, <1>2, <1>3, <1>4

(* A worker that has started never is as if it had not.                    *)
LEMMA StartedStays ==
  ASSUME TypeOK, NEW j \in Jobs, worker[j] # "none", Next
  PROVE  worker'[j] # "none"
<1>1. ASSUME NEW k \in Jobs, Create(k) \/ WorkerOf(k) PROVE worker'[j] # "none"
  BY <1>1 DEF TypeOK, Create, WorkerOf, InitDDC, CreateEnv, OpenServer, Launch, SeeStop, Close,
              Unwind
<1>2. ASSUME NEW k \in Jobs, Delete(k) \/ RunnerEnds(k) \/ RunnerBreaks(k) PROVE worker' = worker
  BY <1>2 DEF Delete, RunnerEnds, RunnerBreaks
<1>3. ASSUME NEW k \in Jobs, LoopOf(k) \/ Clients(k) PROVE worker' = worker
  BY <1>3 DEF LoopOf, Clients, ClientPlays, ClientLeaves, HandleTrigger, LeaveLoop
<1>4. CASE StopSteps
  BY <1>4 DEF StopSteps, TriggerLoop, JoinLoop, Reclaim, WaitWorker
<1>5. QED  BY <1>1, <1>2, <1>3, <1>4 DEF Next

(* Only the last steps of stop() and what an unsound job does end the      *)
(* process.                                                                *)
LEMMA EndReasonStays ==
  ASSUME TypeOK, Clean, EndReason, [Next]_vars PROVE EndReason'
<1>1. Unsound \subseteq Jobs /\ (io.op # "idle" => io.job \in Jobs)
  BY PlayAssumption DEF Jobs, TypeOK
<1>2. CASE UNCHANGED vars
  BY <1>2 DEF vars, history, EndReason, UnsoundStarted
<1>3. CASE Next
  <2>1. UnsoundStarted => UnsoundStarted'
    BY <1>1, <1>3, StartedStays DEF UnsoundStarted
  <2>2. early \subseteq early'
    <3>1. ASSUME NEW k \in Jobs, Create(k) \/ Delete(k) PROVE early \subseteq early'
      BY <3>1 DEF Create, Delete
    <3>2. ASSUME NEW k \in Jobs, WorkerOf(k) \/ RunnerEnds(k) \/ RunnerBreaks(k)
          PROVE  early' = early
      BY <3>2 DEF WorkerOf, InitDDC, CreateEnv, OpenServer, Launch, SeeStop, Close, Unwind,
                  RunnerEnds, RunnerBreaks, history
    <3>3. ASSUME NEW k \in Jobs, LoopOf(k) \/ Clients(k) PROVE early' = early
      BY <3>3 DEF LoopOf, Clients, ClientPlays, ClientLeaves, HandleTrigger, LeaveLoop, history
    <3>4. CASE StopSteps
      BY <3>4 DEF StopSteps, TriggerLoop, JoinLoop, Reclaim, WaitWorker, history
    <3>5. QED  BY <1>3, <3>1, <3>2, <3>3, <3>4 DEF Next
  <2>3. ASSUME ~crashed, crashed' PROVE early # {} \/ UnsoundStarted
    <3>1. ASSUME Reclaim PROVE early # {}
      BY <1>1, <2>3, <3>1 DEF Reclaim, Clean, Unhurried, Deleting, Starting
    <3>2. ASSUME WaitWorker PROVE early # {}
      BY <1>1, <2>3, <3>2 DEF WaitWorker, Clean, Unhurried, Deleting
    <3>3. ASSUME NEW k \in Jobs, InitDDC(k) PROVE UnsoundStarted
      BY <2>3, <3>3 DEF InitDDC, UnsoundStarted
    <3>4. ASSUME NEW k \in Jobs, RunnerBreaks(k) PROVE UnsoundStarted
      BY <3>4 DEF RunnerBreaks, Clean, Lives, UnsoundStarted
    <3>5. ASSUME NEW k \in Jobs,
                 \/ Create(k) \/ Delete(k) \/ RunnerEnds(k) \/ LoopOf(k) \/ Clients(k)
                 \/ WorkerOf(k) /\ ~ InitDDC(k)
          PROVE  FALSE
      BY <2>3, <3>5 DEF Create, Delete, RunnerEnds, LoopOf, Clients, ClientPlays, ClientLeaves,
                        HandleTrigger, LeaveLoop, WorkerOf, CreateEnv, OpenServer, Launch,
                        SeeStop, Close, Unwind
    <3>6. ASSUME TriggerLoop \/ JoinLoop PROVE FALSE
      BY <2>3, <3>6 DEF TriggerLoop, JoinLoop
    <3>7. QED  BY <1>3, <3>1, <3>2, <3>3, <3>4, <3>5, <3>6 DEF Next, StopSteps, WorkerOf
  <2>4. QED  BY <2>1, <2>2, <2>3 DEF EndReason
<1>4. QED  BY <1>2, <1>3

LEMMA SpecClean == Spec => []Clean
<1>1. ASSUME Init PROVE Clean
  BY <1>1 DEF Init, Idle, Clean, Lives, Unhurried, OneByOne, OwnGlobals, Quiet, Deleting,
     NothingLeft
<1>2. ASSUME Clean, UNCHANGED vars PROVE Clean'
  BY <1>2 DEF vars, globals, serving, reading, history, Clean, Lives, Unhurried,
     OneByOne, OwnGlobals, Quiet, Deleting, Starting, NothingLeft
<1>3. ASSUME TypeOK, Clean, [Next]_vars PROVE Clean'
  BY <1>2, <1>3, CreateClean, DeleteClean, TriggerLoopClean, JoinLoopClean, ReclaimClean,
     WaitWorkerClean, InitDDCClean, CreateEnvClean, OpenServerClean, LaunchClean, SeeStopClean,
     CloseClean, UnwindClean, RunnerEndsClean, RunnerBreaksClean, ClientPlaysClean,
     ClientLeavesClean, HandleTriggerClean, LeaveLoopClean
  DEF Next, StopSteps, WorkerOf, LoopOf, Clients
<1>4. QED  BY <1>1, <1>3, SpecTypeOK, PTL DEF Spec

LEMMA SpecEndReason == Spec => []EndReason
<1>1. Init => EndReason
  BY DEF Init, EndReason
<1>2. QED  BY <1>1, EndReasonStays, SpecClean, SpecTypeOK, PTL DEF Spec

(* Jobs used one at a time, and deleted once their server was up, leave    *)
(* nothing behind and no client without a source; and however many jobs    *)
(* come and go, the process ends only by one deleted before its server was *)
(* up, or one created for an unsound request.                              *)
THEOREM SpecQuietlyClean == Spec => []QuietlyClean
<1>1. ASSUME TypeOK, Clean, Quiet, NEW j \in Jobs, loop[j] = "loop", j \in stream
      PROVE  j \in conduit
  BY <1>1 DEF TypeOK, Clean, Lives, OwnGlobals
<1>2. TypeOK /\ Clean /\ EndReason => QuietlyClean
  BY <1>1 DEF Clean, OwnGlobals, EndReason, UnsoundStarted, QuietlyClean,
            SourceAlive
<1>3. QED  BY <1>2, SpecClean, SpecEndReason, SpecTypeOK, PTL
=============================================================================
