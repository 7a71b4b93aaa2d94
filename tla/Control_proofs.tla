--------------------------- MODULE Control_proofs ---------------------------
(***************************************************************************)
(* For any number of connections, any requests, sizes and counter: what a  *)
(* session executes and answers, and that ids are distinct.                *)
(*                                                                         *)
(* Sessions are independent of each other but for the daemon itself: the   *)
(* invariant (Sound) says of one session where it is and what it has done. *)
(* Ids are distinct because the counter goes round once at most in a       *)
(* millisecond: counted back from its latest value (Age), the ids of the   *)
(* current millisecond are the youngest (Recent).                          *)
(***************************************************************************)
EXTENDS Control, FiniteSetTheorems, TLAPS

Fields ==
  /\ TypeOK
  /\ net \in [Clients -> Nat] /\ got \in [Clients -> Nat]
  /\ executed \in [Clients -> Nat]

(* A session that still reads has executed and answered nothing; one that  *)
(* still writes has more to write than the socket took at once.            *)
Sound(s) ==
  /\ executed[s] <= 1
  /\ executed[s] = 1 => got[s] >= Pieces /\ (phase[s] # "reading" \/ ~up)
  /\ phase[s] \in {"none", "reading"} => answer[s] = NoAnswer /\ (up => executed[s] = 0)
  /\ phase[s] = "writing" => answer[s].len > SendRoom
  /\ answer[s].damaged => answer[s].len > SendRoom

(* How many ids ago the counter had the value c.                           *)
Age(c) == IF c <= counter THEN counter - c ELSE counter - c + Wrap

Current == {g \in given : g[1] = now}

Recent ==
  /\ IsFiniteSet(given)
  /\ Cardinality(given) = issued
  /\ \A g \in Current : Age(g[2]) < Cardinality(Current)

IInv == Fields /\ (\A s \in Clients : Sound(s)) /\ Recent
-----------------------------------------------------------------------------
(* The constants in pieces.                                                *)
LEMMA Constants ==
  /\ Sessions \in Nat /\ Pieces \in Nat \ {0} /\ SendRoom \in Nat /\ ReadMax \in Nat
  /\ Wrap \in Nat \ {0} /\ MaxFiles \in Nat
  /\ Requests \cup {NoRequest} \subseteq Request
<1>1. NoRequest \in Request
  BY DEF Request, NoRequest, Kinds
<1>2. QED  BY <1>1, ControlAssumption

(* The next value of a counter that goes round.                            *)
LEMMA NextValue ==
  ASSUME NEW w \in Nat \ {0}, NEW c \in 0 .. w - 1
  PROVE  (c + 1) % w = IF c + 1 = w THEN 0 ELSE c + 1
<1> DEFINE q == (c + 1) \div w
           r == (c + 1) % w
<1>1. q \in Int /\ r \in 0 .. w - 1 /\ c + 1 = w * q + r
  BY SMT
<1> HIDE DEF q, r
<1>2. CASE q <= -1
  <2>1. w * q <= -w
    BY <1>1, <1>2
  <2>2. QED  BY <1>1, <2>1
<1>3. CASE q = 0
  BY <1>1, <1>3 DEF r
<1>4. CASE q >= 1
  <2>1. w * q >= w
    BY <1>1, <1>4
  <2>2. r = 0 /\ c + 1 = w
    BY <1>1, <2>1
  <2>3. QED  BY <2>2 DEF r
<1>5. QED  BY <1>1, <1>2, <1>3, <1>4

(* A new id is none of those given, and the youngest.                      *)
LEMMA IdIssued ==
  ASSUME Fields, Recent, GenerateID
  PROVE  /\ Recent'
         /\ now' \in Nat /\ counter' \in 0 .. Wrap - 1
         /\ given' = given \cup {<<now', counter'>>}
         /\ given' \subseteq (0 .. now') \X (0 .. Wrap - 1)
<1> DEFINE id == <<now', counter'>>
<1>1. /\ now \in Nat /\ counter \in 0 .. Wrap - 1
      /\ given \subseteq (0 .. now) \X (0 .. Wrap - 1)
  BY DEF Fields, TypeOK
<1>2. /\ counter' = IF counter + 1 = Wrap THEN 0 ELSE counter + 1
      /\ given' = given \cup {id} /\ issued' = issued + 1
      /\ now' = now \/ now' = now + 1
  BY <1>1, Constants, NextValue DEF GenerateID, Issue, ReadClock
<1>3. /\ now' \in Nat /\ counter' \in 0 .. Wrap - 1
      /\ given' \subseteq (0 .. now') \X (0 .. Wrap - 1)
  BY <1>1, <1>2, Constants
<1>4. IsFiniteSet(Current) /\ Cardinality(Current) \in Nat
  BY FS_Subset, FS_CardinalityType DEF Recent, Current
<1>5. ASSUME NEW g \in given
      PROVE  g[1] \in 0 .. now /\ g[2] \in 0 .. Wrap - 1 /\ g = <<g[1], g[2]>>
  BY <1>1
<1>6. id \notin given /\ \A g \in Current' : Age(g[2])' < Cardinality(Current')
  <2>1. CASE now' = now
    <3>1. Cardinality(Current) < Wrap
      BY <1>1, <2>1 DEF GenerateID, ReadClock, Current
    <3>2. id \notin given
      <4>1. SUFFICES ASSUME id \in given PROVE FALSE
        OBVIOUS
      <4>2. Age(counter') < Cardinality(Current)
        BY <4>1, <2>1 DEF Recent, Current
      <4>3. Age(counter') = Wrap - 1
        BY <1>1, <1>2, Constants DEF Age
      <4>4. QED  BY <3>1, <4>2, <4>3, <1>4, Constants
    <3>3. Current' = Current \cup {id}
      BY <1>2, <2>1 DEF Current
    <3>4. Cardinality(Current') = Cardinality(Current) + 1
      BY <1>4, <3>2, <3>3, FS_AddElement DEF Current
    <3>5. ASSUME NEW g \in Current' PROVE Age(g[2])' < Cardinality(Current')
      <4>1. CASE g = id
        BY <1>3, <1>4, <3>4, <4>1 DEF Age
      <4>2. CASE g \in Current
        <5>1. Age(g[2]) < Cardinality(Current) /\ g[2] \in 0 .. Wrap - 1 /\ g \in given
          BY <4>2, <1>5 DEF Recent, Current
        <5>2. g[2] # counter' 
          BY <1>5, <2>1, <3>2, <4>2, <5>1 DEF Current
        <5>3. Age(g[2])' = Age(g[2]) + 1
          BY <1>1, <1>2, <5>1, <5>2, Constants DEF Age
        <5>4. QED  BY <1>1, <1>4, <3>4, <5>1, <5>3, Constants DEF Age
      <4>3. QED  BY <3>3, <4>1, <4>2
    <3>6. QED  BY <3>2, <3>5
  <2>2. CASE now' = now + 1
    <3>1. id \notin given /\ Current' = {id}
      BY <1>1, <1>2, <1>5, <2>2 DEF Current
    <3>2. Cardinality(Current') = 1
      BY <3>1, FS_Singleton
    <3>3. \A g \in Current' : Age(g[2])' = 0
      BY <1>3, <3>1 DEF Age
    <3>4. QED  BY <3>1, <3>2, <3>3
  <2>3. QED  BY <1>2, <2>1, <2>2
<1>7. IsFiniteSet(given') /\ Cardinality(given') = issued'
  <2>1. IsFiniteSet(given) /\ Cardinality(given) = issued
    BY DEF Recent
  <2>2. QED  BY <1>2, <1>6, <2>1, FS_AddElement
<1>8. QED  BY <1>2, <1>3, <1>6, <1>7 DEF Recent
-----------------------------------------------------------------------------
(* The fields in pieces.                                                   *)
LEMMA Types ==
  ASSUME Fields, NEW s \in Clients
  PROVE  /\ request[s] \in Request /\ request[s].kind \in Kinds
         /\ net[s] \in Nat /\ got[s] \in Nat /\ executed[s] \in Nat
         /\ net[s] + got[s] <= Pieces + 1
         /\ answer[s].len \in Nat /\ answer[s].damaged \in BOOLEAN
BY Constants DEF Fields, TypeOK, Request

(* An answer is whole when it is begun, and over unless it is long.        *)
LEMMA Responds ==
  ASSUME Fields, NEW s \in Clients, NEW said \in {"success", "failure", "list"},
         NEW len \in Nat, SendResponse(s, said, len)
  PROVE  /\ phase' \in [Clients -> {"none", "reading", "deleting", "writing", "over"}]
         /\ answer' \in [Clients -> [said : {"nothing", "success", "failure", "list"},
                                     len : Nat, damaged : BOOLEAN]]
         /\ phase'[s] \in {"writing", "over"}
         /\ phase'[s] = "writing" => answer'[s].len > SendRoom
         /\ ~answer'[s].damaged /\ answer'[s] # NoAnswer
         /\ \A t \in Clients \ {s} : phase'[t] = phase[t] /\ answer'[t] = answer[t]
<1>1. /\ phase \in [Clients -> {"none", "reading", "deleting", "writing", "over"}]
      /\ answer \in [Clients -> [said : {"nothing", "success", "failure", "list"},
                                 len : Nat, damaged : BOOLEAN]]
  BY DEF Fields, TypeOK
<1>2. answer'[s] = [said |-> said, len |-> len, damaged |-> FALSE]
  BY <1>1 DEF SendResponse
<1>3. answer'[s] # NoAnswer
  BY <1>2 DEF NoAnswer
<1>4. phase'[s] = IF len <= SendRoom THEN "over" ELSE "writing"
  BY <1>1 DEF SendResponse
<1>5. phase'[s] = "writing" => answer'[s].len > SendRoom
  BY <1>2, <1>4, Constants
<1>6. QED  BY <1>1, <1>2, <1>3, <1>4, <1>5 DEF SendResponse

(* What a command that is executed has done: it has ended the daemon, it   *)
(* has begun a deletion, or it has answered.                               *)
Ended == up' = FALSE /\ UNCHANGED <<phase, answer>>

Begun(s) ==
  /\ up' = up /\ answer' = answer
  /\ phase' = [phase EXCEPT ![s] = "deleting"]

Responded(s) ==
  /\ up' = up
  /\ phase' \in [Clients -> {"none", "reading", "deleting", "writing", "over"}]
  /\ answer' \in [Clients -> [said : {"nothing", "success", "failure", "list"},
                              len : Nat, damaged : BOOLEAN]]
  /\ phase'[s] \in {"writing", "over"}
  /\ phase'[s] = "writing" => answer'[s].len > SendRoom
  /\ ~answer'[s].damaged /\ answer'[s] # NoAnswer
  /\ \A t \in Clients \ {s} : phase'[t] = phase[t] /\ answer'[t] = answer[t]

(* The jobs, the rows and the ids after a step.                            *)
Stores ==
  /\ jobs \cup target \subseteq [kind : Kinds, guid : given, sound : BOOLEAN]
  /\ rows \subseteq given
  /\ given \subseteq (0 .. now) \X (0 .. Wrap - 1)
  /\ now \in Nat /\ counter \in 0 .. Wrap - 1

LEMMA StoresOf == ASSUME Fields PROVE Stores
BY DEF Fields, TypeOK, Stores

LEMMA IdsKept ==
  ASSUME Recent, UNCHANGED ids PROVE Recent'
BY DEF Recent, Current, Age, ids

LEMMA CommandHandled ==
  ASSUME Fields, Recent, NEW s \in Clients, HandleCommand(s)
  PROVE  /\ Ended \/ Begun(s) \/ Responded(s)
         /\ Stores' /\ Recent'
<1>1. Stores
  BY StoresOf
<1>2. ASSUME NEW said \in {"success", "failure", "list"}, NEW len \in Nat,
             SendResponse(s, said, len), up' = up
      PROVE  Responded(s)
  BY <1>2, Responds DEF Responded
<1>3. CASE Fail(s)
  <2>1. Ended
    BY <1>3 DEF Fail, Ended
  <2>2. Stores' /\ Recent'
    BY <1>1, <1>3, IdsKept DEF Fail, Stores, stored, ids
  <2>3. QED  BY <2>1, <2>2
<1>4. CASE Reply(s)
  <2>1. Responded(s)
    <3>1. up' = up
      BY <1>4 DEF Reply
    <3>2. SendResponse(s, "success", 1) \/ SendResponse(s, "failure", 1)
      BY <1>4 DEF Reply
    <3>3. QED  BY <1>2, <3>1, <3>2
  <2>2. Stores' /\ Recent'
    BY <1>1, <1>4, IdsKept DEF Reply, Stores, stored, ids
  <2>3. QED  BY <2>1, <2>2
<1>5. CASE CreateJob(s)
  <2>1. Responded(s)
    BY <1>2, <1>5 DEF CreateJob
  <2>2. /\ Recent' /\ now' \in Nat /\ counter' \in 0 .. Wrap - 1
        /\ given' = given \cup {<<now', counter'>>}
        /\ given' \subseteq (0 .. now') \X (0 .. Wrap - 1)
    BY <1>5, IdIssued DEF CreateJob
  <2>3. /\ jobs' \cup target' \subseteq [kind : Kinds, guid : given', sound : BOOLEAN]
        /\ rows' \subseteq given'
    <3>1. request[s].kind \in Kinds /\ (request[s].form # "unsound") \in BOOLEAN
      BY Types
    <3>2. given \subseteq given' /\ <<now', counter'>> \in given'
      BY <2>2
    <3>3. /\ target' = target /\ rows' = rows
          /\ jobs' = jobs \cup {[kind |-> request[s].kind, guid |-> <<now', counter'>>,
                                 sound |-> request[s].form # "unsound"]}
      BY <1>5 DEF CreateJob
    <3>4. jobs \cup target \subseteq [kind : Kinds, guid : given', sound : BOOLEAN]
      BY <1>1, <3>2 DEF Stores
    <3>5. jobs' \cup target' \subseteq [kind : Kinds, guid : given', sound : BOOLEAN]
      <4> DEFINE new == [kind |-> request[s].kind, guid |-> <<now', counter'>>,
                         sound |-> request[s].form # "unsound"]
      <4>1. new \in [kind : Kinds, guid : given', sound : BOOLEAN]
        BY <3>1, <3>2
      <4>2. jobs' = jobs \cup {new} /\ target' = target
        BY <3>3
      <4> HIDE DEF new
      <4>3. QED  BY <3>4, <4>1, <4>2
    <3>6. QED  BY <1>1, <3>2, <3>3, <3>5 DEF Stores
  <2>4. QED  BY <2>1, <2>2, <2>3 DEF Stores
<1>6. CASE DeleteJob(s)
  <2>1. Begun(s)
    BY <1>6 DEF DeleteJob, Begun
  <2>2. Stores' /\ Recent'
    BY <1>1, <1>6, IdsKept DEF DeleteJob, Stores, ids
  <2>3. QED  BY <2>1, <2>2
<1>7. CASE ListJobs(s)
  <2> DEFINE listed == {j.guid : j \in {k \in jobs : k.kind = request[s].kind}}
                         \cup IF request[s].kind = "extract" THEN rows ELSE {}
  <2>1. listed \in SUBSET given
    BY <1>1 DEF Stores
  <2>2. 1 + Cardinality(listed) \in Nat
    <3>1. IsFiniteSet(listed)
      BY <2>1, FS_Subset DEF Recent
    <3>2. QED  BY <3>1, FS_CardinalityType
  <2>3. Responded(s)
    <3>1. up' = up
      BY <1>7 DEF ListJobs
    <3>2. \/ SendResponse(s, "success", 1 + Cardinality(listed))
          \/ SendResponse(s, "list", 1 + Cardinality(listed))
      BY <1>7 DEF ListJobs
    <3>3. QED  BY <1>2, <2>2, <3>1, <3>2
  <2>4. Stores' /\ Recent'
    BY <1>1, <1>7, IdsKept DEF ListJobs, Stores, stored, ids
  <2>5. QED  BY <2>3, <2>4
<1>8. QED  BY <1>3, <1>4, <1>5, <1>6, <1>7 DEF HandleCommand
-----------------------------------------------------------------------------
LEMMA InitIInv == Init => IInv
<1> SUFFICES ASSUME Init PROVE IInv
  OBVIOUS
<1>1. Fields
  <2>1. \A s \in Clients : net[s] = 0 /\ got[s] = 0
    BY DEF Init
  <2>2. \A s \in Clients : net[s] \in Nat /\ got[s] \in Nat /\ net[s] + got[s] <= Pieces + 1
    BY <2>1, Constants
  <2>3. 0 \in 0 .. Wrap - 1 /\ 0 \in 0 .. MaxFiles
    BY Constants
  <2>4. /\ answer \in [Clients -> [said : {"nothing", "success", "failure", "list"},
                                  len : Nat, damaged : BOOLEAN]]
        /\ request \in [Clients -> Requests \cup {NoRequest}]
        /\ phase \in [Clients -> {"none", "reading", "deleting", "writing", "over"}]
        /\ net \in [Clients -> Nat] /\ got \in [Clients -> Nat]
        /\ executed \in [Clients -> Nat]
    BY DEF Init, NoAnswer
  <2>5. QED  BY <2>2, <2>3, <2>4 DEF Init, Fields, TypeOK
<1>2. \A s \in Clients : Sound(s)
  BY Constants DEF Init, Sound, NoAnswer
<1>3. Recent
  <2>1. given = {} /\ issued = 0 /\ Current = {}
    BY DEF Init, Current
  <2>2. QED  BY <2>1, FS_EmptySet DEF Recent
<1>4. QED  BY <1>1, <1>2, <1>3 DEF IInv

(* What clients and signals do changes nothing that was executed.          *)
LEMMA ClientIInv ==
  ASSUME IInv, up, NEW s \in Clients, Connect(s) \/ SendPiece(s) \/ CloseClient(s)
  PROVE  IInv'
<1>1. up' = up /\ UNCHANGED <<got, answer, executed, stored, ids, files, signalled>>
  BY DEF Connect, SendPiece, CloseClient, session
<1>2. /\ request \in [Clients -> Requests \cup {NoRequest}]
      /\ phase \in [Clients -> {"none", "reading", "deleting", "writing", "over"}]
      /\ left \subseteq Clients /\ net \in [Clients -> Nat]
  BY DEF IInv, Fields, TypeOK
<1>3. /\ request' \in [Clients -> Requests \cup {NoRequest}]
      /\ phase' \in [Clients -> {"none", "reading", "deleting", "writing", "over"}]
      /\ left' \subseteq Clients /\ net' \in [Clients -> Nat]
      /\ \A t \in Clients : net'[t] + got[t] <= Pieces + 1
      /\ \A t \in Clients :
           phase'[t] = phase[t] \/ (phase[t] = "none" /\ phase'[t] = "reading")
  <2>1. \A t \in Clients : net[t] \in Nat /\ got[t] \in Nat /\ net[t] + got[t] <= Pieces + 1
    BY Types DEF IInv
  <2>2. CASE Connect(s)
    <3>1. PICK r \in Requests : request' = [request EXCEPT ![s] = r]
      BY <2>2 DEF Connect
    <3>2. phase[s] = "none" /\ phase' = [phase EXCEPT ![s] = "reading"] /\ UNCHANGED <<net, left>>
      BY <2>2 DEF Connect
    <3>3. request' \in [Clients -> Requests \cup {NoRequest}]
      BY <1>2, <3>1
    <3>4. /\ phase' \in [Clients -> {"none", "reading", "deleting", "writing", "over"}]
          /\ \A t \in Clients :
               phase'[t] = phase[t] \/ (phase[t] = "none" /\ phase'[t] = "reading")
      BY <1>2, <3>2
    <3>5. QED  BY <1>2, <2>1, <3>2, <3>3, <3>4
  <2>3. CASE SendPiece(s)
    <3>1. /\ net[s] + got[s] <= Pieces /\ net' = [net EXCEPT ![s] = @ + 1]
          /\ UNCHANGED <<request, left, phase>>
      BY <2>3 DEF SendPiece, session
    <3>2. net' \in [Clients -> Nat]
      BY <1>2, <3>1
    <3>3. ASSUME NEW t \in Clients PROVE net'[t] + got[t] <= Pieces + 1
      <4>1. net'[t] = net[t] \/ (net'[t] = net[t] + 1 /\ net[t] + got[t] <= Pieces)
        <5>1. CASE t = s
          BY <1>2, <3>1, <5>1
        <5>2. CASE t # s
          BY <1>2, <3>1, <5>2
        <5>3. QED  BY <5>1, <5>2
      <4>2. QED  BY <2>1, <4>1, Constants
    <3>4. phase' = phase /\ request' = request /\ left' = left
      BY <3>1
    <3>5. QED  BY <1>2, <3>2, <3>3, <3>4
  <2>4. CASE CloseClient(s)
    <3>1. /\ left' = left \cup {s} /\ phase' = phase /\ request' = request /\ net' = net
      BY <2>4 DEF CloseClient, session
    <3>2. QED  BY <1>2, <2>1, <3>1
  <2>5. QED  BY <2>2, <2>3, <2>4
<1>4. Fields'
  BY <1>1, <1>3 DEF IInv, Fields, TypeOK, stored, ids
<1>5. \A t \in Clients : Sound(t)'
  BY <1>1, <1>3 DEF IInv, Sound
<1>6. Recent'
  BY <1>1, IdsKept DEF IInv
<1>7. QED  BY <1>4, <1>5, <1>6 DEF IInv

(* A signal, and what ends the daemon, leave everything else as it is.     *)
LEMMA EndIInv ==
  ASSUME IInv, up' \in BOOLEAN, up' => up, signalled' \in BOOLEAN,
         UNCHANGED <<client, session, stored, ids, files>>
  PROVE  IInv'
<1>1. UNCHANGED <<request, net, left, phase, got, answer, executed, jobs, rows, target, ids, files>>
  BY DEF client, session, stored
<1>2. Fields'
  BY <1>1 DEF IInv, Fields, TypeOK, ids
<1>3. \A s \in Clients : Sound(s)'
  BY <1>1 DEF IInv, Sound
<1>4. Recent'
  BY <1>1, IdsKept DEF IInv
<1>5. QED  BY <1>2, <1>3, <1>4 DEF IInv

LEMMA SignalIInv ==
  ASSUME IInv,
         \/ Signal \/ HandleSignal
         \/ \E s \in Clients : DeleteEnds(s)
         \/ \E j \in jobs : JobFails(j)
  PROVE  IInv'
<1>1. up \in BOOLEAN /\ signalled \in BOOLEAN
  BY DEF IInv, Fields, TypeOK
<1>2. CASE Signal
  BY <1>1, <1>2, EndIInv DEF Signal
<1>3. CASE HandleSignal
  BY <1>1, <1>3, EndIInv DEF HandleSignal
<1>4. ASSUME NEW s \in Clients, DeleteEnds(s) PROVE IInv'
  BY <1>1, <1>4, EndIInv DEF DeleteEnds
<1>5. ASSUME NEW j \in jobs, JobFails(j) PROVE IInv'
  BY <1>1, <1>5, EndIInv DEF JobFails
<1>6. QED  BY <1>2, <1>3, <1>4, <1>5

(* The end of a deletion is the answer of its session.                     *)
LEMMA FinishDeleteIInv == ASSUME IInv, up, NEW s \in Clients, FinishDelete(s) PROVE IInv'
<1>1. Fields /\ Recent /\ Stores
  BY StoresOf DEF IInv
<1>2. /\ phase[s] = "deleting" /\ SendResponse(s, "success", 1)
      /\ UNCHANGED <<up, request, net, left, got, executed, ids, files, signalled>>
  BY DEF FinishDelete, client
<1>3. /\ phase' \in [Clients -> {"none", "reading", "deleting", "writing", "over"}]
      /\ answer' \in [Clients -> [said : {"nothing", "success", "failure", "list"},
                                  len : Nat, damaged : BOOLEAN]]
      /\ phase'[s] \in {"writing", "over"}
      /\ phase'[s] = "writing" => answer'[s].len > SendRoom
      /\ ~answer'[s].damaged
      /\ \A t \in Clients \ {s} : phase'[t] = phase[t] /\ answer'[t] = answer[t]
  BY <1>1, <1>2, Responds
<1>4. jobs' \subseteq jobs /\ rows' \subseteq rows /\ target' = {}
  BY DEF FinishDelete
<1>5. Stores'
  BY <1>1, <1>2, <1>4 DEF Stores, ids
<1>6. Fields'
  BY <1>1, <1>2, <1>3, <1>5 DEF Fields, TypeOK, Stores
<1>7. ASSUME NEW t \in Clients PROVE Sound(t)'
  <2>1. Sound(t) /\ UNCHANGED <<up, executed, got>>
    BY <1>2 DEF IInv
  <2>2. CASE t = s
    BY <1>2, <1>3, <2>1, <2>2 DEF Sound
  <2>3. CASE t # s
    BY <1>3, <2>1, <2>3 DEF Sound
  <2>4. QED  BY <2>2, <2>3
<1>8. QED  BY <1>1, <1>2, <1>6, <1>7, IdsKept DEF IInv

(* A read takes the pieces it reads from the net.                          *)
LEMMA ReadPieces ==
  ASSUME Fields, NEW s \in Clients, Read(s)
  PROVE  /\ net' \in [Clients -> Nat] /\ got' \in [Clients -> Nat]
         /\ \A t \in Clients : net'[t] + got'[t] <= Pieces + 1
         /\ \A t \in Clients \ {s} : got'[t] = got[t]
<1>1. PICK n \in 1 .. ReadMax : /\ n <= net[s]
                                /\ net' = [net EXCEPT ![s] = @ - n]
                                /\ got' = [got EXCEPT ![s] = @ + n]
  BY DEF Read
<1>2. n \in Nat /\ net[s] - n \in Nat /\ got[s] + n \in Nat
  BY <1>1, Types, Constants
<1>3. net' \in [Clients -> Nat] /\ got' \in [Clients -> Nat]
  BY <1>1, <1>2 DEF Fields
<1>4. ASSUME NEW t \in Clients PROVE net'[t] + got'[t] <= Pieces + 1
  <2>1. net[t] \in Nat /\ got[t] \in Nat /\ net[t] + got[t] <= Pieces + 1
    BY Types
  <2>2. \/ net'[t] = net[t] /\ got'[t] = got[t]
        \/ net'[t] = net[t] - n /\ got'[t] = got[t] + n
    BY <1>1 DEF Fields
  <2>3. QED  BY <1>2, <2>1, <2>2, Constants
<1>5. QED  BY <1>1, <1>3, <1>4 DEF Fields

LEMMA ReadIInv == ASSUME IInv, up, NEW s \in Clients, Read(s) PROVE IInv'
<1>1. /\ phase[s] = "reading" /\ executed[s] = 0 /\ answer[s] = NoAnswer
      /\ Fields /\ Recent
  BY DEF Read, IInv, Sound
<1>2. UNCHANGED <<request, left, files, signalled>>
  BY DEF Read
<1>3. /\ net' \in [Clients -> Nat] /\ got' \in [Clients -> Nat]
      /\ \A t \in Clients : net'[t] + got'[t] <= Pieces + 1
      /\ \A t \in Clients \ {s} : got'[t] = got[t]
  BY <1>1, ReadPieces
<1>4. CASE ~Parses(s)
  <2>1. UNCHANGED <<up, phase, answer, executed, stored, ids>>
    BY <1>4 DEF Read
  <2>2. Fields'
    BY <1>1, <1>2, <1>3, <2>1 DEF Fields, TypeOK, stored, ids
  <2>3. \A t \in Clients : Sound(t)'
    BY <1>1, <1>3, <2>1 DEF IInv, Sound
  <2>4. Recent'
    BY <1>2, <2>1, IdsKept DEF IInv
  <2>5. QED  BY <2>2, <2>3, <2>4 DEF IInv
<1>5. CASE Parses(s)
  <2>1. got'[s] >= Pieces /\ executed' = [executed EXCEPT ![s] = @ + 1] /\ HandleCommand(s)
    BY <1>5 DEF Read, Parses
  <2>2. /\ executed' \in [Clients -> Nat] /\ executed'[s] = 1
        /\ \A t \in Clients \ {s} : executed'[t] = executed[t]
    BY <1>1, <2>1 DEF Fields
  <2>3. (Ended \/ Begun(s) \/ Responded(s)) /\ Stores' /\ Recent'
    BY <1>1, <2>1, CommandHandled
  <2>4. /\ up' \in BOOLEAN
        /\ phase' \in [Clients -> {"none", "reading", "deleting", "writing", "over"}]
        /\ answer' \in [Clients -> [said : {"nothing", "success", "failure", "list"},
                                    len : Nat, damaged : BOOLEAN]]
    BY <1>1, <2>3 DEF Ended, Begun, Responded, Fields, TypeOK
  <2>5. Fields'
    BY <1>1, <1>2, <1>3, <2>2, <2>3, <2>4 DEF Fields, TypeOK, Stores
  <2>6. ASSUME NEW t \in Clients PROVE Sound(t)'
    <3>1. CASE t = s
      <4>1. CASE Ended
        BY <1>1, <2>1, <2>2, <3>1, <4>1 DEF Ended, Sound, IInv
      <4>2. CASE Responded(s)
        BY <1>1, <2>1, <2>2, <3>1, <4>2 DEF Responded, Sound
      <4>3. CASE Begun(s)
        <5>1. phase'[s] = "deleting" /\ answer'[s] = NoAnswer
          BY <1>1, <4>3 DEF Begun, Fields, TypeOK
        <5>2. ~NoAnswer.damaged
          BY DEF NoAnswer
        <5>3. QED  BY <2>1, <2>2, <3>1, <5>1, <5>2 DEF Sound
      <4>4. QED  BY <2>3, <4>1, <4>2, <4>3
    <3>2. CASE t # s
      <4>1. Sound(t)
        BY DEF IInv
      <4>2. /\ phase'[t] = phase[t] /\ answer'[t] = answer[t] /\ executed'[t] = executed[t]
            /\ got'[t] = got[t] /\ (up' => up)
        BY <1>1, <1>3, <2>2, <2>3, <3>2 DEF Ended, Begun, Responded, Fields, TypeOK
      <4>3. QED  BY <4>1, <4>2 DEF Sound
    <3>3. QED  BY <3>1, <3>2
  <2>7. QED  BY <2>3, <2>5, <2>6 DEF IInv
<1>6. QED  BY <1>4, <1>5

LEMMA ReadEndIInv == ASSUME IInv, up, NEW s \in Clients, ReadEnd(s) PROVE IInv'
<1>1. /\ phase' = [phase EXCEPT ![s] = "over"]
      /\ UNCHANGED <<up, request, net, left, got, answer, executed, jobs, rows, target, ids, files,
                  signalled>>
  BY DEF ReadEnd, client, stored
<1>2. Fields'
  BY <1>1 DEF IInv, Fields, TypeOK, ids
<1>3. \A t \in Clients : Sound(t)'
  BY <1>1 DEF IInv, Fields, TypeOK, Sound
<1>4. Recent'
  BY <1>1, IdsKept DEF IInv
<1>5. QED  BY <1>2, <1>3, <1>4 DEF IInv

(* Only an answer that was not taken at once can be damaged.               *)
LEMMA WriteRestIInv == ASSUME IInv, up, NEW s \in Clients, WriteRest(s) PROVE IInv'
<1>1. PICK d \in BOOLEAN : answer' = [answer EXCEPT ![s].damaged = d]
  BY DEF WriteRest
<1>2. /\ phase' = [phase EXCEPT ![s] = "over"] /\ phase[s] = "writing"
      /\ UNCHANGED <<up, request, net, left, got, executed, jobs, rows, target, ids, files, signalled>>
  BY DEF WriteRest, client, stored
<1>3. /\ answer'[s].len = answer[s].len /\ \A t \in Clients \ {s} : answer'[t] = answer[t]
      /\ answer' \in [Clients -> [said : {"nothing", "success", "failure", "list"},
                                  len : Nat, damaged : BOOLEAN]]
  BY <1>1 DEF IInv, Fields, TypeOK
<1>4. Fields'
  BY <1>2, <1>3 DEF IInv, Fields, TypeOK, ids
<1>5. \A t \in Clients : Sound(t)'
  BY <1>2, <1>3 DEF IInv, Fields, TypeOK, Sound
<1>6. Recent'
  BY <1>2, IdsKept DEF IInv
<1>7. QED  BY <1>4, <1>5, <1>6 DEF IInv

LEMMA EndJobIInv == ASSUME IInv, up, NEW j \in jobs, EndJob(j) PROVE IInv'
<1>1. UNCHANGED <<up, request, net, left, phase, got, answer, executed, target, ids, files,
                  signalled>>
  BY DEF EndJob, client, session
<1>2. jobs' \subseteq jobs /\ rows' \subseteq given
  BY DEF EndJob, IInv, Fields, TypeOK
<1>3. Fields'
  BY <1>1, <1>2 DEF IInv, Fields, TypeOK, ids
<1>4. \A t \in Clients : Sound(t)'
  BY <1>1 DEF IInv, Sound
<1>5. Recent'
  BY <1>1, IdsKept DEF IInv
<1>6. QED  BY <1>3, <1>4, <1>5 DEF IInv

LEMMA SaveRecordingIInv == ASSUME IInv, up, NEW j \in jobs, SaveRecording(j) PROVE IInv'
<1>1. /\ files' = files + 1 /\ files < MaxFiles
      /\ UNCHANGED <<up, request, net, left, phase, got, answer, executed, jobs, rows, target, signalled>>
  BY DEF SaveRecording, client, session, stored
<1>2. /\ Recent' /\ now' \in Nat /\ counter' \in 0 .. Wrap - 1
      /\ given' = given \cup {<<now', counter'>>}
      /\ given' \subseteq (0 .. now') \X (0 .. Wrap - 1)
  BY IdIssued DEF SaveRecording, IInv
<1>3. Fields'
  BY <1>1, <1>2, Constants DEF IInv, Fields, TypeOK
<1>4. \A t \in Clients : Sound(t)'
  BY <1>1 DEF IInv, Sound
<1>5. QED  BY <1>2, <1>3, <1>4 DEF IInv

LEMMA Step == IInv /\ [Next]_vars => IInv'
<1> SUFFICES ASSUME IInv, [Next]_vars PROVE IInv'
  OBVIOUS
<1>1. CASE UNCHANGED vars
  <2>1. UNCHANGED <<up, request, net, left, phase, got, answer, executed, jobs, rows, target,
                    ids, files, signalled>>
    BY <1>1 DEF vars, client, session, stored
  <2>2. Fields'
    BY <2>1 DEF IInv, Fields, TypeOK, ids
  <2>3. \A t \in Clients : Sound(t)'
    BY <2>1 DEF IInv, Sound
  <2>4. Recent'
    BY <2>1, IdsKept DEF IInv
  <2>5. QED  BY <2>2, <2>3, <2>4 DEF IInv
<1>2. ASSUME up, NEW s \in Clients, Serve(s) \/ FinishDelete(s) \/ DeleteEnds(s) PROVE IInv'
  BY <1>2, ReadIInv, ReadEndIInv, WriteRestIInv, FinishDeleteIInv, SignalIInv DEF Serve
<1>3. ASSUME up, NEW j \in jobs, EndJob(j) \/ SaveRecording(j) \/ JobFails(j) PROVE IInv'
  BY <1>3, EndJobIInv, SaveRecordingIInv, SignalIInv
<1>4. QED  BY <1>1, <1>2, <1>3, ClientIInv, SignalIInv DEF Next, Stopped
-----------------------------------------------------------------------------
LEMMA Invariant == Spec => []IInv
BY InitIInv, Step, PTL DEF Spec

(* The io thread's objects keep their types, and every job and row has an  *)
(* id that was given (NpuCtlSession.cpp, util.hpp).                        *)
THEOREM SpecTypeOK == Spec => []TypeOK
<1>1. IInv => TypeOK
  BY DEF IInv, Fields
<1>2. QED  BY <1>1, Invariant, PTL

(* A request is executed once, when all of it has come, however it comes   *)
(* and whatever follows it (NpuCtlSession.cpp:25-37).                      *)
THEOREM SpecExecutedOnce == Spec => []ExecutedOnce
<1>1. IInv => ExecutedOnce
  BY DEF IInv, Sound, ExecutedOnce
<1>2. QED  BY <1>1, Invariant, PTL

(* The clock and a counter that goes round never give the same id twice,   *)
(* if a millisecond has not more ids than the counter has values           *)
(* (util.hpp:14-32).                                                       *)
THEOREM SpecIdsDistinct == Spec => []IdsDistinct
<1>1. IInv => IdsDistinct
  BY DEF IInv, Recent, IdsDistinct
<1>2. QED  BY <1>1, Invariant, PTL

(* An answer the socket takes at once is received as it was given          *)
(* (NpuCtlSession.cpp:43-57).                                              *)
THEOREM SpecShortAnswersIntact == Spec => []ShortAnswersIntact
<1>1. IInv => ShortAnswersIntact
  BY DEF IInv, Sound, ShortAnswersIntact
<1>2. QED  BY <1>1, Invariant, PTL
=============================================================================
