--------------------------- MODULE Program_proofs ---------------------------
(***************************************************************************)
(* The web server and the end of the program, for any clients and any      *)
(* number of them; the calls between agents, for any number of agents.     *)
(***************************************************************************)
EXTENDS Program, AgentMesh, SetsAndQueues

-----------------------------------------------------------------------------
(* The connections: fds names each accepted client once.  While Run works  *)
(* through what a poll found, it is about clients in fds, and so is the    *)
(* request in hand.                                                        *)
FdsInv ==
  /\ fds \in Seq(Clients) /\ NoRepeats(fds)
  /\ DOMAIN link = Clients
  /\ AcceptedArePolled
  /\ loop \in {"accept", "clients", "reading", "generating"} => ready \subseteq ToSet(fds) \cup {Server}
  /\ loop \in {"clients", "reading", "generating"} => Server \notin ready
  /\ loop \in {"reading", "generating"} => current \in ToSet(fds)

(* A completion is only generated for a body that is all there, and what   *)
(* arrived stays.                                                          *)
BodyInv ==
  /\ arrived \in [Clients -> 1 .. 5]
  /\ DOMAIN reply = Clients
  /\ WholePromptAnswered
  /\ loop = "generating" => arrived[current] = 5

ConnectionInv == FdsInv /\ BodyInv

LEMMA InFds == \A q \in Seq(Clients) : ToSet(q) \subseteq Clients
  BY DEF ToSet

LEMMA ConnectionsInitially == ProgramInit => ConnectionInv
<1> SUFFICES ASSUME ProgramInit PROVE ConnectionInv
  OBVIOUS
<1>1. /\ fds = << >> /\ loop = "off"
      /\ link = [c \in Clients |-> "away"] /\ arrived = [c \in Clients |-> 1]
      /\ reply = [c \in Clients |-> NoReply]
  BY DEF ProgramInit, WebInit
<1>2. ToSet(fds) = {} /\ NoRepeats(fds) /\ fds \in Seq(Clients)
  BY <1>1 DEF ToSet, NoRepeats
<1>3. FdsInv
  BY <1>1, <1>2 DEF FdsInv, AcceptedArePolled
<1>4. BodyInv
  BY <1>1 DEF BodyInv, WholePromptAnswered, NoReply
<1> QED BY <1>3, <1>4 DEF ConnectionInv

(* A client can connect, send and hang up in the middle of any of it.      *)
LEMMA ClientKeeps == ConnectionInv /\ Client => ConnectionInv'
<1> SUFFICES ASSUME ConnectionInv, NEW c \in Clients, Connect(c) \/ Arrive(c) \/ Hangup(c)
             PROVE  ConnectionInv'
  BY DEF Client
<1> USE DEF ConnectionInv, serverVars
<1>1. CASE Connect(c)
  <2>1. /\ UNCHANGED <<serverVars, wanted, arrived>> /\ link[c] = "away"
        /\ link' = [link EXCEPT ![c] = "backlog"]
    BY <1>1 DEF Connect
  <2>2. FdsInv'
    BY <2>1 DEF FdsInv, AcceptedArePolled
  <2>3. BodyInv'
    BY <2>1 DEF BodyInv, WholePromptAnswered
  <2> QED BY <2>2, <2>3
<1>2. CASE Arrive(c)
  <2>1. PICK piece \in arrived[c] + 1 .. Len(Pieces) : arrived' = [arrived EXCEPT ![c] = piece]
    BY <1>2 DEF Arrive
  <2>2. UNCHANGED <<serverVars, wanted, link>>
    BY <1>2 DEF Arrive
  <2>3. Len(Pieces) = 5
    BY DEF Pieces
  <2>4. FdsInv'
    BY <2>2 DEF FdsInv, AcceptedArePolled
  <2>5. BodyInv'
    <3>1. arrived' \in [Clients -> 1 .. 5] /\ \A d \in Clients : arrived[d] = 5 => arrived'[d] = 5
      BY <2>1, <2>3 DEF BodyInv
    <3>2. loop = "generating" => current \in Clients
      BY InFds DEF FdsInv
    <3> QED BY <2>2, <3>1, <3>2 DEF BodyInv, WholePromptAnswered
  <2> QED BY <2>4, <2>5
<1>3. CASE Hangup(c)
  BY <1>3 DEF Hangup, FdsInv, AcceptedArePolled, BodyInv, WholePromptAnswered
<1> QED BY <1>1, <1>2, <1>3

(* Start and Stop, at any moment of the thread.                            *)
LEMMA StartStopKeeps == ConnectionInv /\ (Start \/ Stop) => ConnectionInv'
<1> SUFFICES ASSUME ConnectionInv, Start \/ Stop PROVE ConnectionInv'
  OBVIOUS
<1> USE DEF ConnectionInv
<1>1. CASE Start
  BY <1>1 DEF Start, clientVars, FdsInv, AcceptedArePolled, BodyInv, WholePromptAnswered
<1>2. CASE Stop
  <2>1. /\ UNCHANGED <<loop, current, fds, ready, wanted, arrived, reply>>
        /\ link' = [c \in Clients |-> IF c \in Waiting THEN "closed" ELSE link[c]]
    BY <1>2 DEF Stop, ClosedIn
  <2>2. \A c \in Clients : link'[c] = "accepted" <=> link[c] = "accepted"
    BY <2>1 DEF Waiting
  <2>3. DOMAIN link' = Clients
    BY <2>1
  <2>4. FdsInv'
    BY <2>1, <2>2, <2>3 DEF FdsInv, AcceptedArePolled
  <2>5. BodyInv'
    BY <2>1 DEF BodyInv, WholePromptAnswered
  <2> QED BY <2>4, <2>5
<1> QED BY <1>1, <1>2

(* The turns of Run, apart from the requests.                              *)
LEMMA TurnKeeps ==
  ConnectionInv /\ (LoopEnds \/ Poll \/ Accept \/ NextClient \/ Trim) => ConnectionInv'
<1> SUFFICES ASSUME ConnectionInv, LoopEnds \/ Poll \/ Accept \/ NextClient \/ Trim
             PROVE  ConnectionInv'
  OBVIOUS
<1> USE DEF ConnectionInv
<1>1. /\ fds \in Seq(Clients) /\ NoRepeats(fds) /\ DOMAIN link = Clients
      /\ \A c \in Clients : link[c] = "accepted" <=> c \in ToSet(fds)
      /\ ToSet(fds) \subseteq Clients
  BY InFds DEF FdsInv, AcceptedArePolled
<1>2. BodyInv'
  <2>1. UNCHANGED <<arrived, reply, wanted>> /\ loop' # "generating"
    BY DEF LoopEnds, Poll, Accept, NextClient, Trim, clientVars
  <2> QED BY <2>1 DEF BodyInv, WholePromptAnswered
<1>3. CASE LoopEnds
  <2>1. /\ fds' = << >> /\ loop' = "ended"
        /\ link' = [c \in Clients |-> IF c \in ToSet(fds) THEN "closed" ELSE link[c]]
    BY <1>3 DEF LoopEnds, ClosedIn
  <2>2. ToSet(fds') = {} /\ NoRepeats(fds') /\ fds' \in Seq(Clients)
    BY <2>1 DEF ToSet, NoRepeats
  <2> QED BY <1>1, <1>2, <2>1, <2>2 DEF FdsInv, AcceptedArePolled
<1>4. CASE Poll
  <2>1. UNCHANGED <<fds, link>> /\ loop' = "accept" /\ ready' \subseteq ToSet(fds) \cup {Server}
    BY <1>4 DEF Poll, clientVars
  <2> QED BY <1>2, <2>1 DEF FdsInv, AcceptedArePolled
<1>5. CASE Accept
  <2>1. loop' = "clients" /\ ready' = ready \ {Server} /\ ready \subseteq ToSet(fds) \cup {Server}
    BY <1>5 DEF Accept, FdsInv
  <2>2. CASE UNCHANGED <<fds, link>>
    BY <1>2, <2>1, <2>2 DEF FdsInv, AcceptedArePolled
  <2>3. ASSUME NEW c \in Waiting, fds' = Append(fds, c), link' = [link EXCEPT ![c] = "accepted"]
        PROVE  FdsInv'
    <3>1. c \in Clients /\ c \notin ToSet(fds)
      BY <1>1, <2>3 DEF Waiting
    <3>2. fds' \in Seq(Clients) /\ ToSet(fds') = ToSet(fds) \cup {c} /\ NoRepeats(fds')
      BY <1>1, <2>3, <3>1, Queued
    <3>3. AcceptedArePolled'
      BY <1>1, <2>3, <3>1, <3>2 DEF AcceptedArePolled
    <3> QED BY <1>1, <2>1, <2>3, <3>2, <3>3 DEF FdsInv
  <2> QED BY <1>2, <1>5, <2>2, <2>3 DEF Accept
<1>6. CASE NextClient
  <2>1. /\ UNCHANGED <<fds, link, ready>> /\ loop = "clients" /\ loop' = "reading" /\ ready # {}
        /\ current' = fds[SelectInSeq(fds, LAMBDA c : c \in ready)]
    BY <1>6 DEF NextClient, clientVars
  <2>2. Server \notin ready /\ ready \subseteq ToSet(fds) \cup {Server}
    BY <2>1 DEF FdsInv
  <2> DEFINE I == {k \in 1 .. Len(fds) : fds[k] \in ready}
  <2>3. I # {} /\ I \subseteq Nat
    BY <1>1, <2>1, <2>2 DEF ToSet
  <2>4. SelectInSeq(fds, LAMBDA c : c \in ready) = Min(I)
    BY <2>3 DEF SelectInSeq
  <2>5. Min(I) \in I
    <3> HIDE DEF I
    <3> QED BY <2>3, MinIsLeast
  <2>6. current' \in ToSet(fds)
    <3> DEFINE k == Min(I)
    <3>1. k \in DOMAIN fds /\ current' = fds[k]
      BY <1>1, <2>1, <2>4, <2>5
    <3> HIDE DEF k
    <3> QED BY <3>1 DEF ToSet
  <2> QED BY <1>2, <2>1, <2>2, <2>6 DEF FdsInv, AcceptedArePolled
<1>7. CASE Trim
  <2>1. /\ ready = {} /\ ready' = {} /\ loop' = "poll"
        /\ fds' = IF Len(fds) <= MaxClients THEN fds ELSE SubSeq(fds, 1, MaxClients)
        /\ link' = [c \in Clients |-> IF c \in ToSet(fds) \ ToSet(fds') THEN "closed" ELSE link[c]]
    BY <1>7 DEF Trim, ClosedIn
  <2>2. fds' \in Seq(Clients) /\ NoRepeats(fds') /\ ToSet(fds') \subseteq ToSet(fds)
    <3>1. CASE Len(fds) <= MaxClients
      BY <1>1, <2>1, <3>1
    <3>2. CASE ~(Len(fds) <= MaxClients)
      <4>1. MaxClients \in 0 .. Len(fds) /\ fds' = SubSeq(fds, 1, MaxClients)
        <5>1. MaxClients \in Nat
          BY WebAssumption
        <5>2. Len(fds) \in Nat
          BY <1>1
        <5> QED BY <2>1, <3>2, <5>1, <5>2
      <4>2. /\ fds' \in Seq(Clients) /\ Len(fds') = MaxClients
            /\ \A k \in 1 .. MaxClients : fds'[k] = fds[k]
        BY <1>1, <4>1, Part
      <4> QED BY <1>1, <4>1, <4>2 DEF NoRepeats, ToSet
    <3> QED BY <3>1, <3>2
  <2> QED BY <1>1, <1>2, <2>1, <2>2 DEF FdsInv, AcceptedArePolled
<1> QED BY <1>3, <1>4, <1>5, <1>6, <1>7

(* A request is answered, or not, and its connection closed.               *)
LEMMA AnswerKeeps ==
  ASSUME ConnectionInv, loop \in {"reading", "generating"}, NEW r, Answer(r),
         wanted[current] = "completion" /\ r.code = 200 => r.body = "whole"
  PROVE  ConnectionInv'
<1> USE DEF ConnectionInv
<1>1. /\ fds \in Seq(Clients) /\ NoRepeats(fds) /\ DOMAIN link = Clients
      /\ \A c \in Clients : link[c] = "accepted" <=> c \in ToSet(fds)
      /\ ToSet(fds) \subseteq Clients /\ current \in ToSet(fds)
      /\ ready \subseteq ToSet(fds) \cup {Server} /\ Server \notin ready
  BY InFds DEF FdsInv, AcceptedArePolled
<1>2. /\ reply' = [reply EXCEPT ![current] = r]
      /\ link' = [c \in Clients |-> IF c \in {current} THEN "closed" ELSE link[c]]
      /\ fds' = RemoveFirst(fds, current) /\ ready' = ready \ {current}
      /\ loop' = "clients" /\ UNCHANGED <<wanted, arrived>>
  BY DEF Answer, ClosedIn
<1>3. fds' \in Seq(Clients) /\ NoRepeats(fds') /\ ToSet(fds') = ToSet(fds) \ {current}
  BY <1>1, <1>2, Dropped
<1>4. FdsInv'
  BY <1>1, <1>2, <1>3 DEF FdsInv, AcceptedArePolled
<1>5. BodyInv'
  BY <1>1, <1>2 DEF BodyInv, WholePromptAnswered
<1> QED BY <1>4, <1>5

LEMMA RequestKeeps == ConnectionInv /\ (HeaderRead \/ ReadEnds \/ Generated) => ConnectionInv'
<1> SUFFICES ASSUME ConnectionInv, HeaderRead \/ ReadEnds \/ Generated PROVE ConnectionInv'
  OBVIOUS
<1>1. loop \in {"reading", "generating"} /\ arrived[current] \in 1 .. 5
  <2>1. loop \in {"reading", "generating"}
    BY DEF HeaderRead, ReadEnds, Generated
  <2> QED BY <2>1, InFds DEF ConnectionInv, FdsInv, BodyInv
<1>2. ASSUME NEW code, code # 200, Error(code) PROVE ConnectionInv'
  BY <1>1, <1>2, AnswerKeeps DEF Error
<1>3. ASSUME Success, wanted[current] # "completion" \/ ParseBody = "whole" PROVE ConnectionInv'
  BY <1>1, <1>3, AnswerKeeps DEF Success
<1>4. ASSUME Generate, arrived[current] = 5 PROVE ConnectionInv'
  <2>1. UNCHANGED <<fds, ready, current, link, wanted, arrived, reply>> /\ loop' = "generating"
    BY <1>4 DEF Generate, clientVars
  <2> QED BY <1>1, <1>4, <2>1 DEF ConnectionInv, FdsInv, BodyInv, AcceptedArePolled, WholePromptAnswered
<1>5. ParseBody # "empty" /\ ParseBody # "part" => arrived[current] = 5
  BY <1>1 DEF ParseBody, Header
<1>6. ASSUME RouteRequest PROVE ConnectionInv'
  <2>1. CASE wanted[current] = "models" \/ wanted[current] = "tokenize" \/ wanted[current] = "embeddings"
    BY <1>2, <1>3, <1>6, <2>1 DEF RouteRequest, HandleEmbeddings, HandleTokenize
  <2>2. CASE ~(wanted[current] = "models" \/ wanted[current] = "tokenize" \/ wanted[current] = "embeddings")
    <3>1. Error(400) \/ (ParseBody # "part" /\ HandleCompletions)
      BY <1>6, <2>2 DEF RouteRequest
    <3>2. HandleCompletions => Error(400) \/ Error(404) \/ (ParseBody # "empty" /\ Generate)
      BY DEF HandleCompletions
    <3> QED BY <1>2, <1>4, <1>5, <3>1, <3>2
  <2> QED BY <2>1, <2>2
<1>7. CASE HeaderRead
  BY <1>6, <1>7 DEF HeaderRead
<1>8. CASE ReadEnds
  <2>1. CASE Answer(NoReply)
    BY <1>1, <2>1, AnswerKeeps DEF NoReply
  <2> QED BY <1>2, <1>6, <1>8, <2>1 DEF ReadEnds
<1>9. CASE Generated
  <2>1. loop = "generating" /\ Success
    BY <1>9 DEF Generated
  <2>2. ParseBody = "whole"
    BY <2>1 DEF ConnectionInv, BodyInv, ParseBody, Header
  <2> QED BY <1>3, <2>1, <2>2
<1> QED BY <1>7, <1>8, <1>9

(* What a step of the program is to the server.                            *)
LEMMA ServerSteps ==
  ASSUME [ProgramNext]_programVars
  PROVE  \/ UNCHANGED webVars \/ Client \/ (Start /\ main = "server") \/ Stop
         \/ LoopEnds \/ Poll \/ Accept \/ NextClient \/ Trim
         \/ HeaderRead \/ ReadEnds \/ Generated
  BY DEF ProgramNext, programVars, MainThread, Interact, WebThread, SignalHandler, Outside,
       Serve, Leave, PollFails, InitContext, LoadModels, SetUp, StartServer, StopServer,
       JoinServer, RunOnce, ResetEngine, CleanupContext, Destroy, Return, Go

LEMMA ConnectionStep == ConnectionInv /\ [ProgramNext]_programVars => ConnectionInv'
<1> SUFFICES ASSUME ConnectionInv, [ProgramNext]_programVars PROVE ConnectionInv'
  OBVIOUS
<1>1. CASE UNCHANGED webVars
  BY <1>1 DEF webVars, serverVars, clientVars, ConnectionInv, FdsInv, BodyInv,
       AcceptedArePolled, WholePromptAnswered
<1> QED BY <1>1, ServerSteps, ClientKeeps, StartStopKeeps, TurnKeeps, RequestKeeps

LEMMA ConnectionInvariance == ProgramSpec => []ConnectionInv
<1>1. ProgramInit => ConnectionInv
  BY ConnectionsInitially
<1> QED BY <1>1, ConnectionStep, PTL DEF ProgramSpec

(* However many clients connect, send in pieces and hang up, and whenever  *)
(* poll fails or Stop is called: each accepted connection is one that Run  *)
(* still polls, and none that Run polls is closed.                         *)
THEOREM ServerAcceptedArePolled == ProgramSpec => []AcceptedArePolled
<1>1. ConnectionInv => AcceptedArePolled
  BY DEF ConnectionInv, FdsInv
<1> QED BY <1>1, ConnectionInvariance, PTL

(* No completion is ever answered with success for a part of its body.     *)
THEOREM ServerWholePrompt == ProgramSpec => []WholePromptAnswered
<1>1. ConnectionInv => WholePromptAnswered
  BY DEF ConnectionInv, BodyInv
<1> QED BY <1>1, ConnectionInvariance, PTL

-----------------------------------------------------------------------------

(* The thread of the server exists only between Start and its join.        *)
ThreadInv == main \notin {"serving", "joining"} => loop \in Idle

(* What the clients do and what the thread does, as far as main sees it.   *)
LEMMA ClientsLeaveLoop == Client \/ Stop => loop' = loop
  BY DEF Client, Connect, Arrive, Hangup, Stop, serverVars

LEMMA ServeIsAwake == Serve \/ PollFails => loop \notin Idle
  BY DEF Serve, PollFails, LoopEnds, Leave, Poll, Accept, NextClient, Trim,
         HeaderRead, ReadEnds, Generated, Idle

LEMMA ThreadInitInv == ProgramInit => ThreadInv
  BY DEF ProgramInit, WebInit, ThreadInv, Idle

LEMMA ThreadStepInv == ThreadInv /\ [ProgramNext]_programVars => ThreadInv'
<1> SUFFICES ASSUME ThreadInv, [ProgramNext]_programVars PROVE ThreadInv'
  OBVIOUS
<1>1. CASE UNCHANGED programVars
  BY <1>1 DEF programVars, mainVars, webVars, serverVars, ThreadInv
<1>2. CASE InitContext \/ LoadModels \/ SetUp \/ RunOnce \/ Interact
           \/ ResetEngine \/ CleanupContext \/ Return \/ SignalHandler
  <2>1. loop' = loop /\ (main' \in {"serving", "joining"} \/ main \notin {"serving", "joining"})
    BY <1>2 DEF InitContext, LoadModels, SetUp, RunOnce, Interact, ResetEngine,
         CleanupContext, Return, SignalHandler, Go, webVars, serverVars
  <2> QED BY <2>1 DEF ThreadInv
<1>3. CASE StartServer
  BY <1>3 DEF StartServer, Go, webVars, serverVars, ThreadInv
<1>4. CASE StopServer
  BY <1>4 DEF StopServer, Go, ThreadInv
<1>5. CASE JoinServer
  BY <1>5 DEF JoinServer, Joined, Go, webVars, serverVars, ThreadInv
<1>6. CASE Destroy
  BY <1>6, ClientsLeaveLoop DEF Destroy, webVars, serverVars, ThreadInv
<1>7. CASE WebThread \/ (PollFails /\ UNCHANGED mainVars)
  BY <1>7, ServeIsAwake DEF WebThread, mainVars, ThreadInv
<1>8. CASE Client /\ UNCHANGED mainVars
  BY <1>8, ClientsLeaveLoop DEF mainVars, ThreadInv
<1> QED
  BY <1>1, <1>2, <1>3, <1>4, <1>5, <1>6, <1>7, <1>8 DEF ProgramNext, MainThread, Outside

(* Whatever clients send, whenever a signal comes and in whatever mode:    *)
(* the thread of the server is out of the engine before main resets it,    *)
(* destroys the device or the objects, or ends.                            *)
THEOREM ProgramEngineQuiet == ProgramSpec => []EngineQuiet
<1>1. ProgramInit => ThreadInv
  BY ThreadInitInv
<1>2. ThreadInv /\ [ProgramNext]_programVars => ThreadInv'
  BY ThreadStepInv
<1>3. ThreadInv => EngineQuiet
  BY DEF ThreadInv, EngineQuiet
<1> QED
  BY <1>1, <1>2, <1>3, PTL DEF ProgramSpec
-----------------------------------------------------------------------------
(***************************************************************************)
(* The server implements WebService.                                       *)
(***************************************************************************)
(* A queue names at most as many as it is long.                            *)
LEMMA FewNamed ==
  ASSUME NEW S, NEW q \in Seq(S)
  PROVE  IsFiniteSet(ToSet(q)) /\ Cardinality(ToSet(q)) <= Len(q)
<1>1. q \in Surjection(1 .. Len(q), ToSet(q)) /\ Len(q) \in Nat
  BY DEF Surjection, ToSet
<1>2. /\ IsFiniteSet(1 .. Len(q))
      /\ Cardinality(1 .. Len(q)) = IF 1 > Len(q) THEN 0 ELSE Len(q) - 1 + 1
  BY <1>1, FS_Interval
<1>3. Cardinality(1 .. Len(q)) = Len(q)
  BY <1>1, <1>2
<1> QED BY <1>1, <1>2, <1>3, FS_Surjection

(* Between two polls one client is accepted; at a poll there are at most   *)
(* MAX_CLIENTS.                                                            *)
LimitInv ==
  /\ Cardinality(ToSet(fds)) <= MaxClients + 1
  /\ loop \in Idle \cup {"poll", "accept"} => Cardinality(ToSet(fds)) <= MaxClients

(* Nobody is answered before it is closed, and no text is generated for a  *)
(* model that is not there.                                                *)
AnswerInv ==
  /\ reply \in [Clients -> Service!Answers \cup {NoReply}]
  /\ \A c \in Clients : link[c] # "closed" => reply[c] = NoReply
  /\ loop = "generating" => wanted[current] # "unknown model"

ServiceInv == ConnectionInv /\ ThreadInv /\ LimitInv /\ AnswerInv

(* What becomes of a request.                                              *)
Rightly(r) == r \in Service!Answers /\ Service!Right(wanted[current], r)

LEMMA BodyRead ==
  ASSUME arrived[current] \in 1 .. 5
  PROVE  /\ ParseBody \in {"empty", "part", "whole"}
         /\ arrived[current] < 3 => ParseBody # "whole"
         /\ arrived[current] = 5 => ParseBody = "whole"
<1>1. CASE arrived[current] <= Header
  <2>1. ParseBody = "empty" /\ arrived[current] # 5
    <3>1. arrived[current] # Header + 1 /\ arrived[current] # 5
      BY <1>1 DEF Header
    <3>2. ParseBody = "empty"
      BY <1>1, <3>1, Zenon DEF ParseBody
    <3> QED BY <3>1, <3>2
  <2> QED BY <2>1
<1>2. CASE arrived[current] = Header + 1
  <2>1. ~(arrived[current] <= Header) /\ ~(arrived[current] < 3) /\ arrived[current] # 5
    BY <1>2 DEF Header
  <2>2. ParseBody = "part"
    BY <1>2, <2>1, Zenon DEF ParseBody
  <2> QED BY <2>1, <2>2
<1>3. CASE ~(arrived[current] <= Header) /\ arrived[current] # Header + 1
  <2>1. ~(arrived[current] < 3)
    BY <1>3 DEF Header
  <2>2. ParseBody = "whole"
    BY <1>3, Zenon DEF ParseBody
  <2> QED BY <2>1, <2>2
<1> QED BY <1>1, <1>2, <1>3

(* Which answers are right.                                                *)
Refusals    == {400, 401, 404}
NotThere(n) == n \in {400, 404}
Bodies      == {"empty", "part", "whole"}

LEMMA RightError ==
  \A n \in Refusals : \A want : \A body \in Bodies :
    (body = "whole" => NotThere(n) /\ want = "unknown model") =>
      /\ [code |-> n, body |-> body] \in Service!Answers
      /\ Service!Right(want, [code |-> n, body |-> body])
<1> USE DEF Refusals, Bodies
<1> TAKE n \in Refusals
<1>0. n # 200
  OBVIOUS
<1> TAKE want
<1> TAKE body \in Bodies
<1> HAVE body = "whole" => NotThere(n) /\ want = "unknown model"
<1> DEFINE r == [code |-> n, body |-> body]
<1>1. r.code = n /\ r.body = body
  BY Zenon
<1>2. r \in Service!Answers
  BY DEF Service!Answers
<1> HIDE DEF r
<1>3. Service!Right(want, r)
  BY <1>0, <1>1 DEF Service!Right, NotThere
<1> QED BY <1>2, <1>3 DEF r

LEMMA RightSuccess ==
  ASSUME NEW want, NEW body \in {"empty", "part", "whole"},
         body = "whole" => want # "unknown model",
         want = "models" \/ body = "whole" \/ (want = "tokenize" /\ body = "empty")
  PROVE  /\ [code |-> 200, body |-> body] \in Service!Answers
         /\ Service!Right(want, [code |-> 200, body |-> body])
<1> DEFINE r == [code |-> 200, body |-> body]
<1>1. r.code = 200 /\ r.body = body
  BY Zenon
<1>2. r \in Service!Answers
  BY DEF Service!Answers
<1> HIDE DEF r
<1>3. Service!Right(want, r)
  BY <1>1 DEF Service!Right
<1> QED BY <1>2, <1>3 DEF r

LEMMA Outcome ==
  ASSUME ConnectionInv, AnswerInv, HeaderRead \/ ReadEnds \/ Generated
  PROVE  \/ \E r : Rightly(r) /\ Answer(r)
         \/ Answer(NoReply)
         \/ Generate /\ wanted[current] # "unknown model"
<1> DEFINE w == wanted[current]
           a == arrived[current]
<1>0. 400 \in Refusals /\ 401 \in Refusals /\ 404 \in Refusals
      /\ NotThere(400) /\ NotThere(404)
  BY DEF Refusals, NotThere
<1>1. /\ loop \in {"reading", "generating"} /\ a \in 1 .. 5
      /\ loop = "generating" => a = 5 /\ w # "unknown model"
  <2>1. loop \in {"reading", "generating"}
    BY DEF HeaderRead, ReadEnds, Generated
  <2> QED BY <2>1, InFds DEF ConnectionInv, FdsInv, BodyInv, AnswerInv
<1>2. /\ ParseBody \in {"empty", "part", "whole"}
      /\ a < 3 => ParseBody # "whole"
      /\ a = 5 => ParseBody = "whole"
  BY <1>1, BodyRead
<1>3. ASSUME NEW n \in Refusals, Error(n),
             ParseBody = "whole" => NotThere(n) /\ w = "unknown model"
      PROVE  \E r : Rightly(r) /\ Answer(r)
  <2>1. PICK r : r = [code |-> n, body |-> ParseBody]
    OBVIOUS
  <2>2. ParseBody \in Bodies
    BY <1>2 DEF Bodies
  <2>3. r \in Service!Answers /\ Service!Right(w, r)
    BY <1>3, <2>1, <2>2, RightError, Zenon
  <2>4. Answer(r)
    BY <1>3, <2>1 DEF Error
  <2> QED BY <2>3, <2>4 DEF Rightly
<1>4. ASSUME Success, ParseBody = "whole" => w # "unknown model",
             w = "models" \/ ParseBody = "whole" \/ (w = "tokenize" /\ ParseBody = "empty")
      PROVE  \E r : Rightly(r) /\ Answer(r)
  <2> DEFINE r == [code |-> 200, body |-> ParseBody]
  <2>1. Rightly(r)
    BY <1>2, <1>4, RightSuccess DEF Rightly
  <2>2. Answer(r)
    BY <1>4 DEF Success
  <2> QED BY <2>1, <2>2
<1>5. ASSUME RouteRequest
      PROVE  \/ \E r : Rightly(r) /\ Answer(r)
             \/ Generate /\ w # "unknown model"
  <2>1. CASE w = "models"
    <3>1. Success
      BY <1>5, <2>1, Zenon DEF RouteRequest
    <3> QED BY <1>4, <2>1, <3>1
  <2>2. CASE w # "models" /\ ParseBody = "part"
    <3>1. Error(400)
      BY <1>5, <2>2, Zenon DEF RouteRequest
    <3> QED BY <1>0, <1>3, <2>2, <3>1
  <2>3. CASE w = "embeddings" /\ ParseBody # "part"
    <3>1. HandleEmbeddings
      BY <1>5, <2>3 DEF RouteRequest
    <3>2. CASE ParseBody = "empty"
      BY <1>0, <1>3, <3>1, <3>2 DEF HandleEmbeddings
    <3>3. CASE ParseBody = "whole"
      BY <1>4, <2>3, <3>1, <3>3 DEF HandleEmbeddings
    <3> QED BY <1>2, <2>3, <3>2, <3>3
  <2>4. CASE w = "tokenize" /\ ParseBody # "part"
    BY <1>2, <1>4, <1>5, <2>4 DEF RouteRequest, HandleTokenize
  <2>5. CASE w \notin {"models", "embeddings", "tokenize"} /\ ParseBody # "part"
    <3>1. HandleCompletions
      BY <1>5, <2>5 DEF RouteRequest
    <3>2. CASE ParseBody = "empty"
      BY <1>0, <1>3, <3>1, <3>2 DEF HandleCompletions
    <3>3. CASE ParseBody = "whole" /\ w = "unknown model"
      BY <1>0, <1>3, <3>1, <3>3 DEF HandleCompletions
    <3>4. CASE ParseBody = "whole" /\ w # "unknown model"
      BY <3>1, <3>4 DEF HandleCompletions
    <3> QED BY <1>2, <2>5, <3>2, <3>3, <3>4
  <2> QED BY <2>1, <2>2, <2>3, <2>4, <2>5
<1>6. CASE HeaderRead
  BY <1>5, <1>6 DEF HeaderRead
<1>7. CASE ReadEnds
  <2>1. ParseBody # "whole"
    BY <1>2, <1>7 DEF ReadEnds, Header
  <2> QED BY <1>0, <1>3, <1>5, <1>7, <2>1 DEF ReadEnds
<1>8. CASE Generated
  BY <1>1, <1>2, <1>4, <1>8 DEF Generated
<1> QED BY <1>6, <1>7, <1>8

LEMMA ServiceInitially == ProgramInit => ServiceInv
<1> SUFFICES ASSUME ProgramInit PROVE ServiceInv
  OBVIOUS
<1>1. /\ fds = << >> /\ loop = "off" /\ reply = [c \in Clients |-> NoReply]
  BY DEF ProgramInit, WebInit
<1>2. LimitInv
  <2>1. ToSet(fds) = {}
    BY <1>1 DEF ToSet
  <2>2. MaxClients \in Nat /\ MaxClients >= 0
    <3>1. MaxClients \in Nat
      BY WebAssumption
    <3> QED BY <3>1
  <2>3. Cardinality(ToSet(fds)) = 0
    BY <2>1, FS_EmptySet
  <2> QED BY <2>2, <2>3 DEF LimitInv
<1>3. AnswerInv
  BY <1>1 DEF AnswerInv
<1> QED BY <1>2, <1>3, ConnectionsInitially, ThreadInitInv DEF ServiceInv

(* The limit, from one step to the next.                                   *)
LEMMA LimitKeeps ==
  ASSUME ServiceInv, [ProgramNext]_programVars
  PROVE  LimitInv'
<1>1. /\ fds \in Seq(Clients) /\ ToSet(fds) \subseteq Clients /\ MaxClients \in Nat
      /\ IsFiniteSet(ToSet(fds)) /\ Cardinality(ToSet(fds)) \in Nat
      /\ LimitInv
  BY InFds, FewNamed, FS_CardinalityType, WebAssumption DEF ServiceInv, ConnectionInv, FdsInv
<1>2. CASE UNCHANGED <<fds, loop>>
  BY <1>1, <1>2 DEF LimitInv
<1>3. CASE Start /\ main = "server"
  <2>1. loop \in Idle /\ UNCHANGED fds
    BY <1>3 DEF Start, ServiceInv, ThreadInv
  <2> QED BY <1>1, <2>1 DEF LimitInv
<1>4. CASE LoopEnds
  <2>1. ToSet(fds') = {}
    BY <1>4 DEF LoopEnds, ToSet
  <2> QED BY <1>1, <2>1, FS_EmptySet DEF LimitInv
<1>5. CASE Poll
  BY <1>1, <1>5 DEF Poll, LimitInv
<1>6. CASE Accept
  <2>1. loop = "accept" /\ loop' = "clients" /\ "clients" \notin Idle \cup {"poll", "accept"}
    BY <1>6 DEF Accept, Idle
  <2>2. CASE UNCHANGED fds
    BY <1>1, <2>1, <2>2 DEF LimitInv
  <2>3. ASSUME NEW c \in Waiting, fds' = Append(fds, c) PROVE LimitInv'
    <3>1. ToSet(fds') = ToSet(fds) \cup {c}
      BY <1>1, <2>3, Queued DEF Waiting
    <3>2. Cardinality(ToSet(fds')) <= Cardinality(ToSet(fds)) + 1
      <4>1. Cardinality(ToSet(fds')) = IF c \in ToSet(fds) THEN Cardinality(ToSet(fds))
                                       ELSE Cardinality(ToSet(fds)) + 1
        BY <1>1, <3>1, FS_AddElement
      <4> QED BY <1>1, <4>1
    <3>3. Cardinality(ToSet(fds)) <= MaxClients
      BY <1>1, <2>1 DEF LimitInv
    <3>4. Cardinality(ToSet(fds')) \in Nat
      BY <1>1, <3>1, FS_AddElement, FS_CardinalityType
    <3>5. Cardinality(ToSet(fds')) <= MaxClients + 1
      BY <1>1, <3>2, <3>3, <3>4
    <3> QED BY <2>1, <3>5 DEF LimitInv
  <2> QED BY <1>6, <2>2, <2>3 DEF Accept
<1>7. CASE NextClient
  BY <1>1, <1>7 DEF NextClient, LimitInv, Idle
<1>8. CASE Trim
  <2>1. Len(fds') <= MaxClients /\ fds' \in Seq(Clients) /\ Len(fds') \in Nat
    <3>1. fds' = IF Len(fds) <= MaxClients THEN fds ELSE SubSeq(fds, 1, MaxClients)
      BY <1>8 DEF Trim
    <3>2. CASE Len(fds) <= MaxClients
      BY <1>1, <3>1, <3>2
    <3>3. CASE ~(Len(fds) <= MaxClients)
      <4>1. MaxClients \in 0 .. Len(fds) /\ fds' = SubSeq(fds, 1, MaxClients)
        BY <1>1, <3>1, <3>3
      <4>2. fds' \in Seq(Clients) /\ Len(fds') = MaxClients
        BY <1>1, <4>1, Part
      <4> QED BY <1>1, <4>2
    <3> QED BY <3>2, <3>3
  <2>2. Cardinality(ToSet(fds')) <= Len(fds') /\ Cardinality(ToSet(fds')) \in Nat
    BY <2>1, FewNamed, FS_CardinalityType
  <2>3. Cardinality(ToSet(fds')) <= MaxClients
    BY <1>1, <2>1, <2>2
  <2> QED BY <1>1, <2>2, <2>3 DEF LimitInv
<1>9. CASE HeaderRead \/ ReadEnds \/ Generated
  <2>1. fds' \in {fds, RemoveFirst(fds, current)} /\ loop' \in {"clients", "generating"}
    BY <1>9, Outcome DEF ServiceInv, Answer, Generate
  <2>2. ToSet(fds') \subseteq ToSet(fds)
    BY <1>1, <2>1, Dropped
  <2>3. Cardinality(ToSet(fds')) <= Cardinality(ToSet(fds)) /\ Cardinality(ToSet(fds')) \in Nat
    BY <1>1, <2>2, FS_Subset, FS_CardinalityType
  <2>4. Cardinality(ToSet(fds')) <= MaxClients + 1
    BY <1>1, <2>3 DEF LimitInv
  <2> QED BY <2>1, <2>4 DEF LimitInv, Idle
<1>10. CASE Client \/ Stop
  BY <1>2, <1>10 DEF Client, Connect, Arrive, Hangup, Stop, serverVars
<1>11. CASE UNCHANGED webVars
  BY <1>2, <1>11 DEF webVars, serverVars
<1> QED
  BY ServerSteps, <1>3, <1>4, <1>5, <1>6, <1>7, <1>8, <1>9, <1>10, <1>11

(* The answers, from one step to the next.                                 *)
LEMMA RepliesKeep ==
  ASSUME ServiceInv, [ProgramNext]_programVars
  PROVE  AnswerInv'
<1>1. /\ ConnectionInv /\ AnswerInv /\ DOMAIN link = Clients
      /\ loop \in {"reading", "generating"} => current \in Clients
  BY InFds DEF ServiceInv, ConnectionInv, FdsInv
<1>2. ASSUME UNCHANGED <<reply, wanted>>,
             \A c \in Clients : link'[c] # "closed" => link[c] # "closed",
             loop' = "generating" => wanted[current'] # "unknown model"
      PROVE  AnswerInv'
  BY <1>1, <1>2 DEF AnswerInv
<1>3. CASE UNCHANGED webVars
  BY <1>1, <1>3 DEF webVars, serverVars, clientVars, AnswerInv
<1>4. CASE Client
  BY <1>1, <1>2, <1>4 DEF Client, Connect, Arrive, Hangup, serverVars, AnswerInv
<1>5. CASE Start
  BY <1>1, <1>2, <1>5 DEF Start, clientVars
<1>6. CASE Stop
  BY <1>1, <1>2, <1>6 DEF Stop, ClosedIn, AnswerInv
<1>7. CASE LoopEnds
  BY <1>1, <1>2, <1>7 DEF LoopEnds, ClosedIn
<1>8. CASE Poll \/ NextClient
  BY <1>1, <1>2, <1>8 DEF Poll, NextClient, clientVars
<1>9. CASE Accept
  BY <1>1, <1>2, <1>9 DEF Accept, Waiting
<1>10. CASE Trim
  BY <1>1, <1>2, <1>10 DEF Trim, ClosedIn
<1>11. ASSUME NEW r \in Service!Answers \cup {NoReply}, Answer(r), loop \in {"reading", "generating"}
       PROVE  AnswerInv'
  <2>1. /\ reply' = [reply EXCEPT ![current] = r]
        /\ link' = [c \in Clients |-> IF c \in {current} THEN "closed" ELSE link[c]]
        /\ loop' = "clients"
    BY <1>11 DEF Answer, ClosedIn
  <2> QED BY <1>1, <1>11, <2>1 DEF AnswerInv
<1>12. CASE HeaderRead \/ ReadEnds \/ Generated
  <2>1. loop \in {"reading", "generating"}
    BY <1>12 DEF HeaderRead, ReadEnds, Generated
  <2>2. CASE Generate /\ wanted[current] # "unknown model"
    BY <1>2, <2>2 DEF Generate, clientVars
  <2> QED BY <1>1, <1>11, <1>12, <2>1, <2>2, Outcome DEF Rightly
<1> QED
  BY ServerSteps, <1>3, <1>4, <1>5, <1>6, <1>7, <1>8, <1>9, <1>10, <1>12

(* What a step of the server is to its clients.                            *)
LEMMA ServiceStep ==
  ASSUME ServiceInv, [ProgramNext]_programVars
  PROVE  [Service!Next]_(Service!serviceVars)
<1>1. /\ ConnectionInv /\ AnswerInv /\ LimitInv
      /\ ToSet(fds) \subseteq Clients /\ DOMAIN link = Clients
      /\ \A c \in Clients : link[c] = "accepted" <=> c \in ToSet(fds)
  BY InFds DEF ServiceInv, ConnectionInv, FdsInv, AcceptedArePolled
<1>2. ASSUME NEW conns \in SUBSET Clients, link' = ClosedIn(conns), UNCHANGED <<wanted, reply>>,
             \A c \in conns : link[c] \in {"backlog", "accepted"}
      PROVE  Service!Next
  BY <1>2 DEF Service!Next, Service!Close, ClosedIn
<1>3. CASE UNCHANGED <<wanted, link, reply>>
  BY <1>3 DEF Service!serviceVars
<1>4. CASE Client
  BY <1>3, <1>4 DEF Client, Connect, Arrive, Hangup, serverVars, Service!Next, Service!Connect
<1>5. CASE Start \/ Poll \/ NextClient \/ UNCHANGED webVars
  BY <1>3, <1>5 DEF Start, Poll, NextClient, webVars, serverVars, clientVars
<1>6. CASE Stop
  BY <1>2, <1>6 DEF Stop, Waiting
<1>7. CASE LoopEnds
  BY <1>1, <1>2, <1>7 DEF LoopEnds
<1>8. CASE Accept
  <2>1. Service!Cardinality(Service!Accepted) < MaxClients + 1
    <3>1. Service!Accepted = ToSet(fds)
      BY <1>1 DEF Service!Accepted
    <3>2. Cardinality(ToSet(fds)) <= MaxClients
      BY <1>1, <1>8 DEF Accept, LimitInv
    <3>3. Cardinality(ToSet(fds)) \in Nat /\ MaxClients \in Nat
      BY FewNamed, FS_CardinalityType, WebAssumption DEF ServiceInv, ConnectionInv, FdsInv
    \* The instance counts in the same way.
    <3>4. Service!Cardinality(ToSet(fds)) = Cardinality(ToSet(fds))
      BY Zenon DEF Cardinality, Service!Cardinality
    <3> QED BY <3>1, <3>2, <3>3, <3>4
  <2>2. ASSUME NEW c \in Waiting, link' = [link EXCEPT ![c] = "accepted"] PROVE Service!Next
    <3>1. c \in Clients /\ link[c] = "backlog" /\ UNCHANGED <<wanted, reply>>
      BY <1>8, <2>2 DEF Accept, Waiting
    <3>2. Service!Accept(c)
      BY <2>1, <2>2, <3>1, Zenon DEF Service!Accept
    <3> QED BY <3>1, <3>2 DEF Service!Next
  <2> QED BY <1>3, <1>8, <2>2 DEF Accept
<1>9. CASE Trim
  BY <1>1, <1>2, <1>9 DEF Trim
<1>10. ASSUME NEW r, Answer(r), loop \in {"reading", "generating"}, Rightly(r) \/ r = NoReply
       PROVE  Service!Next
  <2>1. /\ reply' = [reply EXCEPT ![current] = r] /\ UNCHANGED wanted
        /\ link' = ClosedIn({current})
    BY <1>10 DEF Answer
  <2>2. current \in Clients /\ link[current] = "accepted"
    BY <1>1, <1>10 DEF ConnectionInv, FdsInv
  <2>3. CASE r = NoReply
    <3>1. reply' = reply
      BY <1>1, <2>1, <2>2, <2>3 DEF AnswerInv
    <3> QED BY <1>2, <2>1, <2>2, <3>1
  <2>4. CASE Rightly(r)
    <3>1. link' = [link EXCEPT ![current] = "closed"]
      BY <1>1, <2>1, <2>2 DEF ClosedIn
    <3>2. Service!Answer(current)
      <4>1. r \in Service!Answers /\ Service!Right(wanted[current], r)
        BY <2>4 DEF Rightly
      <4> QED BY <2>1, <2>2, <3>1, <4>1, Zenon DEF Service!Answer
    <3> QED BY <2>2, <3>2 DEF Service!Next
  <2> QED BY <1>10, <2>3, <2>4
<1>11. CASE HeaderRead \/ ReadEnds \/ Generated
  <2>1. loop \in {"reading", "generating"}
    BY <1>11 DEF HeaderRead, ReadEnds, Generated
  <2>2. CASE Generate
    BY <1>3, <2>2 DEF Generate, clientVars
  <2> QED BY <1>1, <1>10, <1>11, <2>1, <2>2, Outcome
<1> QED BY ServerSteps, <1>4, <1>5, <1>6, <1>7, <1>8, <1>9, <1>11

(* However many clients there are, however they cut their requests and     *)
(* whenever they hang up, poll fails or Stop is called: a client is        *)
(* accepted once and while at most MAX_CLIENTS others are, answered at     *)
(* most once, only rightly for as much as was read, and then closed.       *)
THEOREM ServerImplementsService == ProgramSpec => ImplementsService
<1>1. ProgramInit => ServiceInv /\ Service!Init
  BY ServiceInitially DEF ProgramInit, WebInit, Service!Init, NoReply, Service!NoAnswer
<1>2. ServiceInv /\ [ProgramNext]_programVars => ServiceInv'
  BY ConnectionStep, ThreadStepInv, LimitKeeps, RepliesKeep DEF ServiceInv
<1>3. ServiceInv /\ [ProgramNext]_programVars => [Service!Next]_(Service!serviceVars)
  BY ServiceStep
<1> QED BY <1>1, <1>2, <1>3, PTL DEF ProgramSpec, ImplementsService, Service!Spec
-----------------------------------------------------------------------------
(* The mesh, where peers go by their own names.                            *)
Names == {<<a, FALSE>> : a \in Agents}

Calls == [kind : {"none", "status", "reason"}, from : Agents \cup {"nobody"}, by : Threads,
          wanted : BOOLEAN, hop : Nat, asked : SUBSET Names, way : SUBSET Agents]

States == [at : {"idle", "ask", "wait"}, todo : Seq(Agents), hop : Nat,
           asked : SUBSET Names, way : SUBSET Agents, req : Calls]

(* Whoever relayed a question is among those asked, by name.               *)
Named(way, asked) == \A c \in way : <<c, FALSE>> \in asked

(* What agent a serves was not relayed by a; whoever waits for it exists.  *)
Served(a, r) == r \in Calls /\ a \notin r.way /\ (r.wanted => r.from \in Agents)

(* No thread still calls one of those that were asked.                     *)
StateOk(a, me) == /\ me \in States /\ Served(a, me.req) /\ Named(me.way, me.asked)
                  /\ \A p \in ToSet(me.todo) : <<p, FALSE>> \notin me.asked

(* What waits at agent b was not yet asked of b.                           *)
CallOk(b, r) == /\ r \in Calls /\ Named(r.way, r.asked)
                /\ r.wanted => r.from \in Agents
                /\ <<b, FALSE>> \notin r.asked

ThreadsOk(T) == /\ T \in [Agents -> [Threads -> States]]
                /\ \A a \in Agents, t \in Threads : StateOk(a, T[a][t])
InboxesOk(B) == /\ B \in [Agents -> Seq(Calls)]
                /\ \A b \in Agents : \A r \in ToSet(B[b]) : CallOk(b, r)

MeshInv == /\ aliased \in BOOLEAN
           /\ ~aliased => ThreadsOk(thread) /\ InboxesOk(inbox)

LEMMA CallIsServed == \A b \in Agents : \A r : CallOk(b, r) => Served(b, r)
  BY DEF CallOk, Served, Named

LEMMA PeerOrderIsSeq ==
  ASSUME NEW P \in SUBSET Agents
  PROVE  PeerOrder(P) \in Seq(Agents) /\ ToSet(PeerOrder(P)) \subseteq P
<1>1. IsFiniteSet(P)
  BY AgentAssumption, FS_Subset
<1>2. Cardinality(P) \in Nat /\ ExistsBijection(1 .. Cardinality(P), P)
  BY <1>1, FS_CardinalityType
<1>3. \E f \in [1 .. Cardinality(P) -> P] : IsInjective(f)
  BY <1>2 DEF ExistsBijection, Bijection, Injection
<1>4. PeerOrder(P) \in [1 .. Cardinality(P) -> P]
  BY <1>3 DEF PeerOrder, SetToSeq
<1>5. PeerOrder(P) \in Seq(P)
  BY <1>2, <1>4
<1> QED BY <1>4, <1>5 DEF ToSet

LEMMA NoReqOk == NoReq \in Calls /\ \A a \in Agents : Served(a, NoReq)
<1>1. NoReq \in Calls
  BY DEF NoReq, Calls, Threads, Names
<1> QED BY <1>1 DEF Served, NoReq

LEMMA IdleOk == IdleThread \in States /\ \A a \in Agents : StateOk(a, IdleThread)
<1>1. IdleThread \in States
  BY NoReqOk DEF IdleThread, States
<1>2. ToSet(IdleThread.todo) = {}
  BY DEF IdleThread, ToSet
<1> QED BY <1>1, <1>2, NoReqOk DEF StateOk, Named, IdleThread

LEMMA MeshInitially == AgentInit => MeshInv
<1> SUFFICES ASSUME AgentInit PROVE ThreadsOk(thread) /\ InboxesOk(inbox)
  BY DEF MeshInv, AgentInit
<1>1. ThreadsOk(thread)
  BY IdleOk DEF AgentInit, ThreadsOk
<1>2. inbox \in [Agents -> Seq(Calls)] /\ \A b \in Agents : ToSet(inbox[b]) = {}
  BY DEF AgentInit, ToSet
<1> QED BY <1>1, <1>2 DEF InboxesOk

-----------------------------------------------------------------------------
(* The threads of the mesh: one is put into another state; one returns     *)
(* from a call; a request that is served loses its caller.                 *)
LEMMA PutThread ==
  ASSUME NEW T, ThreadsOk(T), NEW a \in Agents, NEW t \in Threads, NEW me, StateOk(a, me)
  PROVE  \A U : U = [T EXCEPT ![a][t] = me] => ThreadsOk(U)
<1> DEFINE U == [T EXCEPT ![a][t] = me]
<1>1. me \in States /\ T \in [Agents -> [Threads -> States]]
  BY DEF ThreadsOk, StateOk
<1>2. U \in [Agents -> [Threads -> States]]
  BY <1>1
<1>3. \A b \in Agents, u \in Threads : (b = a /\ U[b][u] = me) \/ U[b][u] = T[b][u]
  BY <1>1
<1> HIDE DEF U
<1>4. ThreadsOk(U)
  BY <1>2, <1>3 DEF ThreadsOk
<1> QED BY <1>4 DEF U

LEMMA ReturnsOk ==
  ASSUME NEW T, ThreadsOk(T), NEW a \in Agents, NEW t \in Threads
  PROVE  ThreadsOk(Returns(T, a, t))
<1> DEFINE me  == T[a][t]
           new == [me EXCEPT !.at = "ask", !.todo = Tail(@)]
<1>1. Returns(T, a, t) = [T EXCEPT ![a][t] = new]
  BY DEF Returns, ThreadsOk
<1>2. StateOk(a, me) /\ me \in States
  BY DEF ThreadsOk
<1>3. Tail(me.todo) \in Seq(Agents) /\ ToSet(Tail(me.todo)) \subseteq ToSet(me.todo)
  BY <1>2, TailOf DEF States
<1> HIDE DEF me
<1>4. StateOk(a, new)
  <2>1. new \in States
    BY <1>2, <1>3 DEF States
  <2>2. new.way = me.way /\ new.asked = me.asked /\ new.req = me.req /\ new.todo = Tail(me.todo)
    BY <1>2 DEF States
  <2> QED BY <1>2, <1>3, <2>1, <2>2 DEF StateOk
<1> HIDE DEF new
<1> QED BY <1>1, <1>4, PutThread

LEMMA UnwantedOk ==
  ASSUME NEW T, ThreadsOk(T), NEW p \in Agents
  PROVE  ThreadsOk([T EXCEPT ![p]["web"].req.wanted = FALSE])
<1> DEFINE me  == T[p]["web"]
           new == [me EXCEPT !.req.wanted = FALSE]
<1>1. "web" \in Threads
  BY DEF Threads
<1>2. [T EXCEPT ![p]["web"].req.wanted = FALSE] = [T EXCEPT ![p]["web"] = new]
  BY <1>1 DEF ThreadsOk
<1>3. StateOk(p, me) /\ me \in States
  BY <1>1 DEF ThreadsOk
<1> HIDE DEF me
<1>4. StateOk(p, new)
  <2> DEFINE r == [me.req EXCEPT !.wanted = FALSE]
  <2>1. me.req \in Calls /\ Served(p, me.req)
    BY <1>3 DEF StateOk, Served
  <2>2. r \in Calls /\ r.way = me.req.way /\ r.wanted = FALSE
    BY <2>1 DEF Calls
  <2>3. new = [me EXCEPT !.req = r]
    BY <1>3
  <2> HIDE DEF r
  <2>4. new \in States
    BY <1>3, <2>2, <2>3 DEF States
  <2>5. /\ new.way = me.way /\ new.asked = me.asked /\ new.todo = me.todo /\ new.req = r
    BY <1>3, <2>3 DEF States
  <2>6. Served(p, r)
    BY <2>1, <2>2 DEF Served
  <2> QED BY <1>3, <2>4, <2>5, <2>6 DEF StateOk
<1> HIDE DEF new
<1> QED BY <1>1, <1>2, <1>4, PutThread

LEMMA ReplyOk ==
  ASSUME ThreadsOk(thread), NEW b \in Agents, NEW r, r \in Calls, r.wanted => r.from \in Agents,
         NEW web, StateOk(b, web), Reply(b, r, web)
  PROVE  ThreadsOk(thread')
<1> DEFINE left == [thread EXCEPT ![b]["web"] = web]
<1>1. ThreadsOk(left)
  BY PutThread DEF Threads
<1>2. (thread' = Returns(left, r.from, r.by) /\ r.wanted) \/ thread' = left
  BY DEF Reply
<1>3. r.by \in Threads
  BY DEF Calls
<1> HIDE DEF left
<1> QED BY <1>1, <1>2, <1>3, ReturnsOk

-----------------------------------------------------------------------------
(* The steps of the mesh.                                                  *)
LEMMA PostKeeps ==
  ASSUME aliased = FALSE, ThreadsOk(thread), InboxesOk(inbox), NEW a \in Agents, NEW t \in Threads,
         HttpPost(a, t)
  PROVE  ThreadsOk(thread') /\ InboxesOk(inbox')
<1> DEFINE me   == thread[a][t]
           p    == Head(me.todo)
           r    == Request(a, t)
           call == [r EXCEPT !.hop = @ + 1]
           new  == [me EXCEPT !.at = "wait"]
<1>1. StateOk(a, me) /\ me \in States /\ me.todo # << >> /\ me.todo \in Seq(Agents)
  BY DEF HttpPost, ThreadsOk, States
<1>2. p \in ToSet(me.todo) /\ p \in Agents
  BY <1>1 DEF ToSet
<1>3. thread' = [thread EXCEPT ![a][t] = new]
  BY DEF HttpPost, ThreadsOk
<1>4. inbox' = [inbox EXCEPT ![p] = Append(@, call)]
  BY DEF HttpPost
<1>5. CallOk(p, call)
  <2>1. r.hop = me.hop /\ r.asked = me.asked /\ r.way = me.way /\ r.from = a /\ r \in Calls
    BY <1>1 DEF Request, Calls, States
  <2>2. call \in Calls /\ call.way = me.way /\ call.asked = me.asked /\ call.from = a
    BY <2>1 DEF Calls
  <2> HIDE DEF call, p
  <2> QED BY <1>1, <1>2, <2>2 DEF StateOk, CallOk
<1>6. StateOk(a, new)
  <2> HIDE DEF me
  <2>1. /\ new \in States /\ new.way = me.way /\ new.asked = me.asked
        /\ new.req = me.req /\ new.todo = me.todo
    BY <1>1 DEF States
  <2> QED BY <1>1, <2>1 DEF StateOk
<1> HIDE DEF new, call, p
<1>7. InboxesOk(inbox')
  <2>1. call \in Calls
    BY <1>5 DEF CallOk
  <2>2. /\ Append(inbox[p], call) \in Seq(Calls)
        /\ ToSet(Append(inbox[p], call)) = ToSet(inbox[p]) \cup {call}
    BY <1>2, <2>1, Queued DEF InboxesOk
  <2> QED BY <1>2, <1>4, <1>5, <2>2 DEF InboxesOk
<1> QED BY <1>3, <1>6, <1>7, PutThread

LEMMA TimeoutKeeps ==
  ASSUME ThreadsOk(thread), InboxesOk(inbox), NEW a \in Agents, NEW t \in Threads, Timeout(a, t)
  PROVE  ThreadsOk(thread') /\ InboxesOk(inbox')
<1> DEFINE p       == Head(thread[a][t].todo)
           Mine(r) == r.from = a /\ r.by = t
           rest    == [i \in DOMAIN inbox[p] |->
                         IF Mine(inbox[p][i]) THEN [inbox[p][i] EXCEPT !.wanted = FALSE]
                         ELSE inbox[p][i]]
<1>1. inbox' = [inbox EXCEPT ![p] = rest]
  BY DEF Timeout
<1>2. \/ thread' = [Returns(thread, a, t) EXCEPT ![p]["web"].req.wanted = FALSE]
      \/ thread' = Returns(thread, a, t)
  BY DEF Timeout
<1> HIDE DEF p
<1>3. ThreadsOk(Returns(thread, a, t))
  BY ReturnsOk
<1>4. ThreadsOk(thread')
  <2>1. CASE p \in Agents
    BY <1>2, <1>3, <2>1, UnwantedOk
  <2>2. CASE p \notin Agents
    <3>1. [Returns(thread, a, t) EXCEPT ![p]["web"].req.wanted = FALSE] = Returns(thread, a, t)
      BY <1>3, <2>2 DEF ThreadsOk
    <3> QED BY <1>2, <1>3, <3>1
  <2> QED BY <2>1, <2>2
<1>5. InboxesOk(inbox')
  <2>1. CASE p \in Agents
    <3>1. inbox[p] \in Seq(Calls) /\ \A i \in DOMAIN inbox[p] : CallOk(p, inbox[p][i])
      BY <2>1 DEF InboxesOk, ToSet
    <3>2. ASSUME NEW r, CallOk(p, r) PROVE CallOk(p, [r EXCEPT !.wanted = FALSE])
      <4>1. /\ [r EXCEPT !.wanted = FALSE] \in Calls
            /\ [r EXCEPT !.wanted = FALSE].way = r.way /\ [r EXCEPT !.wanted = FALSE].asked = r.asked
            /\ [r EXCEPT !.wanted = FALSE].wanted = FALSE
        BY <3>2 DEF CallOk, Calls
      <4> QED BY <3>2, <4>1 DEF CallOk
    <3>3. DOMAIN rest = DOMAIN inbox[p] /\ \A i \in DOMAIN rest : CallOk(p, rest[i])
      BY <3>1, <3>2
    <3>4. rest \in Seq(Calls)
      <4>1. PICK n \in Nat : DOMAIN inbox[p] = 1 .. n
        BY <3>1
      <4>2. rest \in [1 .. n -> Calls]
        BY <3>3, <4>1 DEF CallOk
      <4> HIDE DEF rest
      <4> QED BY <4>1, <4>2
    <3> HIDE DEF rest
    <3>5. \A r \in ToSet(rest) : CallOk(p, r)
      BY <3>3 DEF ToSet
    <3> QED BY <1>1, <2>1, <3>4, <3>5 DEF InboxesOk
  <2>2. CASE p \notin Agents
    BY <1>1, <2>2 DEF InboxesOk
  <2> QED BY <2>1, <2>2
<1> QED BY <1>4, <1>5

LEMMA UserKeeps ==
  ASSUME ThreadsOk(thread), InboxesOk(inbox), NEW a \in Agents, NEW t \in Threads,
         Ask(a) \/ Beat(a) \/ RoundEnds(a, t)
  PROVE  ThreadsOk(thread') /\ InboxesOk(inbox')
<1> DEFINE Calling(todo) == [IdleThread EXCEPT !.at = "ask", !.todo = todo]
<1>1. ASSUME NEW todo \in Seq(Agents) PROVE StateOk(a, Calling(todo))
  <2>1. /\ Calling(todo) \in States /\ Calling(todo).way = {} /\ Calling(todo).asked = {}
        /\ Calling(todo).req = NoReq
    BY <1>1, IdleOk DEF IdleThread, States
  <2> HIDE DEF Calling
  <2> QED BY <2>1, NoReqOk DEF StateOk, Named
<1>2. Peers(a) \in SUBSET Agents /\ PeerOrder(Peers(a)) \in Seq(Agents)
      /\ PeerOrder(Peers(a) \cap alive[a]) \in Seq(Agents)
  BY PeerOrderIsSeq DEF Peers
<1>3. {"main", "heart"} \subseteq Threads
  BY DEF Threads
<1>4. inbox' = inbox
  BY DEF Ask, AskThese, Beat, RoundEnds
<1>5. CASE Ask(a)
  <2>1. PICK todo \in Seq(Agents) : AskThese(a, todo)
    <3>1. \A p \in Peers(a) : <<p>> \in Seq(Agents)
      BY <1>2
    <3> QED BY <1>2, <1>5, <3>1 DEF Ask
  <2>2. thread' = [thread EXCEPT ![a]["main"] = Calling(todo)]
    BY <2>1 DEF AskThese
  <2> QED BY <1>1, <1>3, <1>4, <2>2, PutThread
<1>6. CASE Beat(a)
  <2>1. thread' = [thread EXCEPT ![a]["heart"] = Calling(PeerOrder(Peers(a)))]
    BY <1>6 DEF Beat
  <2> HIDE DEF Calling
  <2> QED BY <1>1, <1>2, <1>3, <1>4, <2>1, PutThread
<1>7. CASE RoundEnds(a, t)
  BY <1>4, <1>7, IdleOk, PutThread DEF RoundEnds
<1> QED BY <1>5, <1>6, <1>7

LEMMA TakenKeeps ==
  ASSUME InboxesOk(inbox), NEW b \in Agents, inbox' = [inbox EXCEPT ![b] = Tail(@)]
  PROVE  InboxesOk(inbox')
<1>1. Tail(inbox[b]) \in Seq(Calls) /\ ToSet(Tail(inbox[b])) \subseteq ToSet(inbox[b])
  BY TailOf DEF InboxesOk
<1> QED BY <1>1 DEF InboxesOk

LEMMA FirstCall ==
  ASSUME InboxesOk(inbox), NEW b \in Agents, inbox[b] # << >>
  PROVE  CallOk(b, Head(inbox[b]))
BY DEF InboxesOk, ToSet

LEMMA ServeKeeps ==
  ASSUME aliased = FALSE, ThreadsOk(thread), InboxesOk(inbox), NEW b \in Agents,
         HandleStatusRequest(b) \/ HopLimit(b) \/ HandleReasonRequest(b) \/ Acknowledge(b)
  PROVE  ThreadsOk(thread') /\ InboxesOk(inbox')
<1> DEFINE r == Head(inbox[b])
<1>1. CASE HandleStatusRequest(b) \/ HopLimit(b)
  <2>1. inbox[b] # << >> /\ Reply(b, r, IdleThread) /\ inbox' = [inbox EXCEPT ![b] = Tail(@)]
    BY <1>1 DEF HandleStatusRequest, HopLimit, WebIdle
  <2>2. CallOk(b, r)
    BY <2>1, FirstCall
  <2> HIDE DEF r
  <2> QED BY <2>1, <2>2, TakenKeeps, IdleOk, ReplyOk DEF CallOk
<1>2. CASE HandleReasonRequest(b)
  <2> DEFINE asked == r.asked \cup {AgentName(b)}
             todo  == PeerOrder({p \in Peers(b) \cap alive[b] : PeerName(p) \notin asked})
             new   == [at |-> "ask", todo |-> todo, hop |-> r.hop, asked |-> asked,
                       way |-> r.way \cup {b}, req |-> r]
  <2>1. /\ inbox[b] # << >> /\ inbox' = [inbox EXCEPT ![b] = Tail(@)]
        /\ thread' = [thread EXCEPT ![b]["web"] = new]
    BY <1>2 DEF HandleReasonRequest, WebIdle
  <2>2. CallOk(b, r) /\ r \in Calls
    BY <2>1, FirstCall DEF CallOk
  <2> HIDE DEF r
  <2>3. asked \in SUBSET Names /\ r.way \cup {b} \in SUBSET Agents /\ Named(r.way \cup {b}, asked)
    BY <2>2 DEF CallOk, Calls, Names, Named, AgentName
  <2>4. todo \in Seq(Agents) /\ \A p \in ToSet(todo) : <<p, FALSE>> \notin asked
    <3> DEFINE P == {p \in Peers(b) \cap alive[b] : PeerName(p) \notin asked}
    <3>1. P \in SUBSET Agents /\ \A p \in P : <<p, FALSE>> \notin asked
      <4>1. \A p : PeerName(p) = <<p, FALSE>>
        BY DEF PeerName
      <4> HIDE DEF asked
      <4> QED BY <4>1 DEF Peers
    <3> HIDE DEF P, asked
    <3>2. PeerOrder(P) \in Seq(Agents) /\ ToSet(PeerOrder(P)) \subseteq P
      BY <3>1, PeerOrderIsSeq
    <3> QED BY <3>1, <3>2 DEF P
  <2> HIDE DEF todo, asked
  <2>5. StateOk(b, new)
    <3>1. new \in States
      BY <2>2, <2>3, <2>4 DEF States, Calls
    <3>2. Served(b, r)
      BY <2>2, CallIsServed
    <3> QED BY <2>3, <2>4, <3>1, <3>2 DEF StateOk
  <2> HIDE DEF new
  <2>6. "web" \in Threads
    BY DEF Threads
  <2> QED BY <2>1, <2>5, <2>6, PutThread, TakenKeeps
<1>3. CASE Acknowledge(b)
  <2>1. Reply(b, thread[b]["web"].req, IdleThread) /\ inbox' = inbox
    BY <1>3 DEF Acknowledge
  <2>2. Served(b, thread[b]["web"].req)
    BY DEF ThreadsOk, StateOk, Threads
  <2> QED BY <2>1, <2>2, IdleOk, ReplyOk DEF Served
<1> QED BY <1>1, <1>2, <1>3

LEMMA MeshStep == MeshInv /\ [AgentNext]_agentVars => MeshInv'
<1> SUFFICES ASSUME MeshInv, [AgentNext]_agentVars PROVE MeshInv'
  OBVIOUS
<1>1. aliased' = aliased
  BY DEF AgentNext, agentVars, Ask, AskThese, Beat, Work, HttpPost, Timeout, RoundEnds,
       HandleStatusRequest, HopLimit, HandleReasonRequest, Acknowledge
<1> SUFFICES ASSUME aliased = FALSE PROVE ThreadsOk(thread') /\ InboxesOk(inbox')
  BY <1>1 DEF MeshInv
<1>2. ThreadsOk(thread) /\ InboxesOk(inbox)
  BY DEF MeshInv
<1>3. CASE UNCHANGED agentVars
  BY <1>2, <1>3 DEF agentVars
<1>4. ASSUME NEW a \in Agents, Ask(a) \/ Beat(a) \/ Work(a)
      PROVE  ThreadsOk(thread') /\ InboxesOk(inbox')
  <2>1. "main" \in Threads
    BY DEF Threads
  <2> QED BY <1>2, <1>4, <2>1, PostKeeps, TimeoutKeeps, UserKeeps, ServeKeeps DEF Work
<1> QED BY <1>3, <1>4 DEF AgentNext

(* Among agents that go by their own names, however many there are, and    *)
(* however late their requests are served: what is at an agent's server    *)
(* was not relayed by this agent on the way to there.                      *)
THEOREM MeshNoWayBack == AgentSpec => []NoWayBack
<1>1. AgentInit => MeshInv
  BY MeshInitially
<1>2. MeshInv /\ [AgentNext]_agentVars => MeshInv'
  BY MeshStep
<1>3. MeshInv => NoWayBack
  <2> SUFFICES ASSUME MeshInv, ~aliased, NEW b \in Agents, NEW r \in AtServer(b)
               PROVE  b \notin r.way
    BY DEF NoWayBack
  <2>1. CASE r \in ToSet(inbox[b])
    BY <2>1, CallIsServed DEF MeshInv, InboxesOk, Served
  <2>2. CASE r = thread[b]["web"].req
    BY <2>2 DEF MeshInv, ThreadsOk, StateOk, Served, Threads
  <2> QED BY <2>1, <2>2 DEF AtServer
<1> QED BY <1>1, <1>2, <1>3, PTL DEF AgentSpec
=============================================================================
