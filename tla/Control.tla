------------------------------ MODULE Control ------------------------------
(***************************************************************************)
(* The control port: NpuServer, a NpuCtlSession per connection, the        *)
(* command handler with its commands, and the guids of util.hpp.  All run  *)
(* on the io thread, one handler at a time.  A session reads until what    *)
(* it has read parses, executes one command, writes one answer and ends.   *)
(*                                                                         *)
(* What a command does to a job is in ExtractContainer and PlayAudio: here *)
(* a job is there or not, may end the daemon where those modules say that  *)
(* it can, and keeps the io thread for as long as its deletion takes.  A   *)
(* request arrives in pieces; an answer is as long as the list it carries. *)
(***************************************************************************)
EXTENDS Integers, FiniteSets

CONSTANTS
  Sessions,   (* how many connections are ever made                        *)
  Requests,   (* what clients ask                                          *)
  Pieces,     (* the pieces a request is sent in                           *)
  ReadMax,    (* the pieces one read takes: BUFFER_SIZE - 1                *)
  SendRoom,   (* what the first write takes of an answer                   *)
  Wrap,       (* the counter of generateID() wraps at 1000                 *)
  MaxFiles    (* bound on the recordings that watch jobs save              *)

Kinds == {"extract", "watch", "play-audio"}

(* The command is kind-verb, or none the handler knows; a bare request is  *)
(* JSON, but not an object; an unsound one asks for what nobody checks and *)
(* the job cannot serve (a filetype, a demodtype, a bandwidth).            *)
Request == [verb : {"create", "delete", "info", "list", "update", "unknown"},
            kind : Kinds,
            form : {"good", "garbage", "bare", "mistyped", "invalid", "unsound"},
            covered : BOOLEAN]

ASSUME ControlAssumption ==
  /\ {Sessions, Pieces, ReadMax, SendRoom, Wrap} \subseteq Nat \ {0}
  /\ MaxFiles \in Nat
  /\ Requests \subseteq Request

Clients == 1 .. Sessions

VARIABLES
  up,         (* the daemon runs                                           *)
  request,    (* what each client asks                                     *)
  phase,      (* "none", "reading", "deleting", "writing", "over"          *)
  net, got,   (* the pieces on their way, and those in _data_buffer        *)
  left,       (* the clients that have closed their connection             *)
  answer,     (* what each session answers, how long, and if damaged       *)
  jobs,       (* [kind, guid, sound] of the jobs in the containers         *)
  rows,       (* the guids of the database                                 *)
  target,     (* the job, if any, of the deletion in progress              *)
  now, counter,       (* the clock, and the counter of generateID()        *)
  given, issued,      (* history: the ids given, and how many              *)
  executed,   (* history: how often each session executed its request      *)
  files,      (* history: how many recordings watch jobs have saved        *)
  signalled   (* SIGTERM or SIGINT has come                                *)

client  == <<request, net, left>>
session == <<phase, got, answer, executed>>
stored  == <<jobs, rows, target>>
ids     == <<now, counter, given, issued>>
vars    == <<up, client, session, stored, ids, files, signalled>>

NoAnswer == [said |-> "nothing", len |-> 0, damaged |-> FALSE]
NoRequest == [verb |-> "unknown", kind |-> "extract", form |-> "garbage", covered |-> FALSE]

Init ==
  /\ up = TRUE /\ signalled = FALSE
  /\ request = [s \in Clients |-> NoRequest]
  /\ phase = [s \in Clients |-> "none"]
  /\ net = [s \in Clients |-> 0] /\ got = [s \in Clients |-> 0]
  /\ left = {}
  /\ answer = [s \in Clients |-> NoAnswer]
  /\ executed = [s \in Clients |-> 0]
  /\ jobs = {} /\ rows = {} /\ target = {}
  /\ now = 0 /\ counter = 0 /\ given = {} /\ issued = 0 /\ files = 0

(* The io thread is in no deletion, the only command that waits for long.  *)
IoFree == \A s \in Clients : phase[s] # "deleting"
-----------------------------------------------------------------------------
(* ------------------------ clients and signals -------------------------- *)

(* asyncAccept(): the session of a new connection starts to read.          *)
Connect(s) ==
  /\ IoFree /\ phase[s] = "none" /\ \A t \in 1 .. s - 1 : phase[t] # "none"
  /\ phase' = [phase EXCEPT ![s] = "reading"]
  /\ \E r \in Requests : request' = [request EXCEPT ![s] = r]
  /\ UNCHANGED <<up, net, left, got, answer, executed, stored, ids, files, signalled>>

(* A client may send more than its request: a newline, say.                *)
SendPiece(s) ==
  /\ phase[s] = "reading" /\ s \notin left /\ net[s] + got[s] <= Pieces
  /\ net' = [net EXCEPT ![s] = @ + 1]
  /\ UNCHANGED <<up, request, left, session, stored, ids, files, signalled>>

CloseClient(s) ==
  /\ phase[s] = "reading" /\ s \notin left
  /\ left' = left \cup {s}
  /\ UNCHANGED <<up, request, net, session, stored, ids, files, signalled>>

(* The signal_set of main() takes a signal, once.                          *)
Signal ==
  /\ ~signalled /\ signalled' = TRUE
  /\ UNCHANGED <<up, client, session, stored, ids, files>>

(* Mutant: the signal lets the connections end before it ends the daemon.  *)
HandleSignalDrained ==
  /\ signalled /\ IoFree /\ \A s \in Clients : phase[s] \in {"none", "over"}
  /\ up' = FALSE
  /\ UNCHANGED <<client, session, stored, ids, files, signalled>>

(* signalHandler() runs on the io thread: io_context.stop(), and main()    *)
(* returns.                                                                *)
HandleSignal ==
  /\ signalled /\ IoFree
  /\ up' = FALSE
  /\ UNCHANGED <<client, session, stored, ids, files, signalled>>
-----------------------------------------------------------------------------
(* -------------------------- guids and answers -------------------------- *)

(* The clock when an id is asked for: it may have gone on, and it has when *)
(* the counter has had all its values.                                     *)
ReadClock ==
  \/ Cardinality({g \in given : g[1] = now}) < Wrap /\ now' = now
  \/ now' = now + 1

Issue == given' = given \cup {<<now', counter'>>} /\ issued' = issued + 1

(* Mutant: the counter wraps one too early.                                *)
GenerateIDShort ==
  ReadClock /\ counter' = (IF counter + 2 >= Wrap THEN 0 ELSE counter + 1) /\ Issue

(* Mutant: the counter is not wrapped, and takes a fourth digit.           *)
GenerateIDUnwrapped == ReadClock /\ counter' = counter + 1 /\ Issue

(* generateID(): the local time to the millisecond and the counter.        *)
GenerateID == ReadClock /\ counter' = (counter + 1) % Wrap /\ Issue

(* Mutant: the write is only queued, and begins when the string is gone.   *)
SendResponseQueued(s, said, len) ==
  /\ answer' = [answer EXCEPT ![s] = [said |-> said, len |-> len, damaged |-> FALSE]]
  /\ phase' = [phase EXCEPT ![s] = "writing"]

(* sendResponse(): async_write() begins with what the socket takes; the    *)
(* rest is read later from the local string, which is gone by then.        *)
SendResponse(s, said, len) ==
  /\ answer' = [answer EXCEPT ![s] = [said |-> said, len |-> len, damaged |-> FALSE]]
  /\ phase' = [phase EXCEPT ![s] = IF len <= SendRoom THEN "over" ELSE "writing"]

(* The rest of the answer: as it was, or whatever stands there now.        *)
WriteRest(s) ==
  /\ IoFree /\ phase[s] = "writing"
  /\ \E d \in BOOLEAN : answer' = [answer EXCEPT ![s].damaged = d]
  /\ phase' = [phase EXCEPT ![s] = "over"]
  /\ UNCHANGED <<up, client, got, executed, stored, ids, files, signalled>>
-----------------------------------------------------------------------------
(* ------------------------------ commands ------------------------------- *)

Supported(r) ==
  /\ r.form # "bare"
  /\ \/ r.kind = "extract" /\ r.verb \in {"list", "create", "update", "delete"}
     \/ r.kind = "watch" /\ r.verb \in {"info", "create", "delete", "list", "update"}
     \/ r.kind = "play-audio" /\ r.verb \in {"create", "delete"}

(* The fields a command reads are of the types it expects; one that is     *)
(* missing reads as zero or "".  The updates and watch-list read none.     *)
Typed(r) == \/ r.form # "mistyped" \/ r.verb = "update"
            \/ r.kind = "watch" /\ r.verb = "list"

Plain(r, verb) == Supported(r) /\ Typed(r) /\ r.verb = verb

(* Of the creations only that of a watch job looks at its fields.          *)
Refused(r) == r.kind = "watch" /\ r.form = "invalid"

(* An exception on the io thread: isMember() of JSON that is not an        *)
(* object, a mistyped field, or a creation for which no storage is found   *)
(* and that returns a null pointer for a std::string.  Nothing catches it  *)
(* before main().  What jobs and deletions end the daemon by: see below.   *)
Throws(r) ==
  \/ r.form = "bare"
  \/ /\ Supported(r)
     /\ \/ ~Typed(r)
        \/ r.verb = "create" /\ ~Refused(r) /\ ~r.covered /\ r.kind # "play-audio"

Fail(s) ==
  /\ Throws(request[s])
  /\ up' = FALSE
  /\ UNCHANGED <<phase, answer, stored, ids>>

(* Commands that only answer: an unknown one, the updates, a refusal, and  *)
(* watch-info of a job that is or is not there.                            *)
Reply(s) ==
  /\ LET r == request[s] IN
       \/ ~Supported(r) /\ r.form # "bare" /\ SendResponse(s, "failure", 1)
       \/ /\ Plain(r, "update")
          /\ SendResponse(s, IF r.kind = "watch" THEN "success" ELSE "failure", 1)
       \/ /\ Plain(r, "create") /\ \/ Refused(r)
                                   \/ r.kind = "play-audio" /\ ~r.covered
          /\ SendResponse(s, "failure", 1)
       \/ /\ Plain(r, "info")
          /\ \/ SendResponse(s, "failure", 1)
             \/ (\E j \in jobs : j.kind = "watch") /\ SendResponse(s, "success", 1)
  /\ UNCHANGED <<up, stored, ids>>

(* A job starts, whether or not it can serve what is asked for.            *)
CreateJob(s) ==
  /\ Plain(request[s], "create") /\ ~Refused(request[s]) /\ request[s].covered
  /\ GenerateID
  /\ jobs' = jobs \cup {[kind |-> request[s].kind, guid |-> <<now', counter'>>,
                         sound |-> request[s].form # "unsound"]}
  /\ SendResponse(s, "success", 1)
  /\ UNCHANGED <<up, rows, target>>

(* A deletion looks for its job.  It then stops it and waits: for the      *)
(* reader of an extract job, the worker of a watch job, the server and     *)
(* the worker of a play-audio job.                                         *)
DeleteJob(s) ==
  /\ Plain(request[s], "delete")
  /\ \/ target' = {}
     \/ \E j \in jobs : j.kind = request[s].kind /\ target' = {j}
  /\ phase' = [phase EXCEPT ![s] = "deleting"]
  /\ UNCHANGED <<up, answer, jobs, rows, ids>>

(* It succeeds whether or not there was such a job.  That of an extract    *)
(* job deletes the rows, if it can; the job leaves when it ends.           *)
FinishDelete(s) ==
  /\ phase[s] = "deleting"
  /\ IF request[s].kind = "extract"
     THEN rows' \in {rows} \cup {rows \ {g} : g \in rows} /\ UNCHANGED jobs
     ELSE jobs' = jobs \ target /\ UNCHANGED rows
  /\ target' = {}
  /\ SendResponse(s, "success", 1)
  /\ UNCHANGED <<up, client, got, executed, ids, files, signalled>>

(* It ends the daemon: an extract job's reader is joined twice or its map  *)
(* searched while a job leaves it, a play-audio job loses what it uses.    *)
DeleteEnds(s) ==
  /\ phase[s] = "deleting" /\ request[s].kind # "watch"
  /\ target # {} \/ (request[s].kind = "extract" /\ \E j \in jobs : j.kind = "extract")
  /\ up' = FALSE
  /\ UNCHANGED <<client, session, stored, ids, files, signalled>>

(* Lists say nothing of success, but for one of a watch job.               *)
ListJobs(s) ==
  /\ Plain(request[s], "list")
  /\ LET kind == request[s].kind
         listed == {j.guid : j \in {k \in jobs : k.kind = kind}}
                     \cup IF kind = "extract" THEN rows ELSE {}
     IN SendResponse(s, IF kind = "watch" /\ listed # {} THEN "success" ELSE "list",
                     1 + Cardinality(listed))
  /\ UNCHANGED <<up, stored, ids>>

HandleCommand(s) == Fail(s) \/ Reply(s) \/ CreateJob(s) \/ DeleteJob(s) \/ ListJobs(s)
-----------------------------------------------------------------------------
(* What has been read parses when the whole request has arrived; garbage   *)
(* never does.                                                             *)
Parses(s) == request[s].form # "garbage" /\ got'[s] >= Pieces

(* Mutant: the session goes on reading after a command, and what it has    *)
(* read is still in _data_buffer.                                          *)
ReadOn(s) ==
  /\ IoFree /\ phase[s] \in {"reading", "over"}
  /\ \E n \in 1 .. ReadMax : /\ n <= net[s]
                             /\ net' = [net EXCEPT ![s] = @ - n]
                             /\ got' = [got EXCEPT ![s] = @ + n]
  /\ \/ Parses(s) /\ executed' = [executed EXCEPT ![s] = @ + 1] /\ HandleCommand(s)
     \/ ~Parses(s) /\ UNCHANGED <<up, phase, answer, executed, stored, ids>>
  /\ UNCHANGED <<request, left, files, signalled>>

(* Mutant: the next read is not begun after one that does not parse.       *)
ReadOnce(s) ==
  /\ IoFree /\ phase[s] = "reading"
  /\ \E n \in 1 .. ReadMax : /\ n <= net[s]
                             /\ net' = [net EXCEPT ![s] = @ - n]
                             /\ got' = [got EXCEPT ![s] = @ + n]
  /\ \/ Parses(s) /\ executed' = [executed EXCEPT ![s] = @ + 1] /\ HandleCommand(s)
     \/ /\ ~Parses(s)
        /\ phase' = [phase EXCEPT ![s] = "over"]
        /\ UNCHANGED <<up, answer, executed, stored, ids>>
  /\ UNCHANGED <<request, left, files, signalled>>

(* The handler of aysnRead(), which begins the next read if what has come  *)
(* does not parse.                                                         *)
Read(s) ==
  /\ IoFree /\ phase[s] = "reading"
  /\ \E n \in 1 .. ReadMax : /\ n <= net[s]
                             /\ net' = [net EXCEPT ![s] = @ - n]
                             /\ got' = [got EXCEPT ![s] = @ + n]
  /\ \/ Parses(s) /\ executed' = [executed EXCEPT ![s] = @ + 1] /\ HandleCommand(s)
     \/ ~Parses(s) /\ UNCHANGED <<up, phase, answer, executed, stored, ids>>
  /\ UNCHANGED <<request, left, files, signalled>>

(* The end of the connection: the session goes, and what it had read.      *)
ReadEnd(s) ==
  /\ IoFree /\ phase[s] = "reading" /\ s \in left /\ net[s] = 0
  /\ phase' = [phase EXCEPT ![s] = "over"]
  /\ UNCHANGED <<up, client, got, answer, executed, stored, ids, files, signalled>>
-----------------------------------------------------------------------------
(* The job threads: a job ends, an extract job with its rows saved or not, *)
(* and a watch job saves a recording, whose row gets an id.                *)
EndJob(j) ==
  /\ j.kind # "play-audio"
  /\ jobs' = jobs \ {j}
  /\ \/ UNCHANGED rows
     \/ j.kind = "extract" /\ rows' = rows \cup {j.guid}
  /\ UNCHANGED <<up, target, client, session, ids, files, signalled>>

(* A job ends the daemon: one that cannot serve its request, or two of the *)
(* container that call it back at once.                                    *)
JobFails(j) ==
  /\ \/ ~j.sound
     \/ \E k \in jobs \ {j} : "play-audio" \notin {j.kind, k.kind}
  /\ up' = FALSE
  /\ UNCHANGED <<client, session, stored, ids, files, signalled>>

SaveRecording(j) ==
  /\ j.kind = "watch" /\ files < MaxFiles
  /\ files' = files + 1
  /\ GenerateID
  /\ UNCHANGED <<up, client, session, stored, signalled>>
-----------------------------------------------------------------------------
Serve(s) == Read(s) \/ ReadEnd(s) \/ WriteRest(s)

Stopped == ~up /\ UNCHANGED vars

Next == \/ up /\ \E s \in Clients : Connect(s) \/ SendPiece(s) \/ CloseClient(s)
        \/ up /\ (Signal \/ HandleSignal)
        \/ up /\ \E s \in Clients : Serve(s) \/ FinishDelete(s) \/ DeleteEnds(s)
        \/ up /\ \E j \in jobs : EndJob(j) \/ SaveRecording(j) \/ JobFails(j)
        \/ Stopped

Spec == Init /\ [][Next]_vars

(* In a deletion that may wait for ever: the reader of an extract job that *)
(* lost its stop, the server of a play-audio job beside another one.       *)
Blocked == \E j \in target : j.kind # "watch"

(* The io thread serves every session and the signal, and clients take     *)
(* their answers; nobody has to send anything.  A deletion returns, but    *)
(* for those that may not (CommandReturns of ExtractContainer, StopReturns *)
(* of PlayAudio).                                                          *)
FairSpec == /\ Spec
            /\ WF_vars(up /\ HandleSignal)
            /\ \A s \in Clients :
                 WF_vars(up /\ (Serve(s) \/ (~Blocked /\ FinishDelete(s))))
-----------------------------------------------------------------------------
TypeOK ==
  /\ up \in BOOLEAN /\ signalled \in BOOLEAN
  /\ request \in [Clients -> Requests \cup {NoRequest}]
  /\ phase \in [Clients -> {"none", "reading", "deleting", "writing", "over"}]
  /\ \A s \in Clients : net[s] \in Nat /\ got[s] \in Nat /\ net[s] + got[s] <= Pieces + 1
  /\ left \subseteq Clients
  /\ answer \in [Clients -> [said : {"nothing", "success", "failure", "list"},
                             len : Nat, damaged : BOOLEAN]]
  /\ jobs \cup target \subseteq [kind : Kinds, guid : given, sound : BOOLEAN]
  /\ rows \subseteq given
  /\ given \subseteq (0 .. now) \X (0 .. Wrap - 1)
  /\ now \in Nat /\ counter \in 0 .. Wrap - 1 /\ files \in 0 .. MaxFiles

(* However a request arrives and whatever follows it, it is executed once, *)
(* and only when all of it is there (NpuCtlSession.cpp:25-37).             *)
ExecutedOnce ==
  \A s \in Clients : /\ executed[s] <= 1
                     /\ executed[s] = 1 => got[s] >= Pieces /\ (phase[s] # "reading" \/ ~up)

(* No id is given twice, to jobs or to what watch jobs save, though the    *)
(* counter wraps within the history of a daemon: a job with the guid of    *)
(* another would replace it in its container (util.hpp:14-32).             *)
IdsDistinct == Cardinality(given) = issued

(* What a client receives is what the command answered, up to the length   *)
(* the socket takes at once (NpuCtlSession.cpp:43-57).                     *)
ShortAnswersIntact == \A s \in Clients : answer[s].damaged => answer[s].len > SendRoom

(* A request that has been sent is answered while the daemon runs, unless  *)
(* a deletion keeps the io thread for ever (NpuExtractJob.cpp:452-454,     *)
(* NpuPlayAudioJob.cpp:982-1030).                                          *)
Answered ==
  \/ <>[]Blocked
  \/ \A s \in Clients :
       (up /\ request[s].form # "garbage" /\ net[s] + got[s] >= Pieces)
         ~> (answer[s] # NoAnswer /\ phase[s] = "over") \/ ~up

(* SIGTERM and SIGINT end the daemon whatever the clients do, unless a     *)
(* deletion keeps the io thread, which handles signals too, for ever       *)
(* (main.cpp:32-37 and 79-84).                                             *)
SignalObeyed == <>[]Blocked \/ (signalled ~> ~up)
=============================================================================
