------------------------------ MODULE WebServer ------------------------------
(***************************************************************************)
(* WebServer: one thread that polls the listening socket and the clients,  *)
(* reads a request, answers it and closes the connection.  A request       *)
(* arrives in pieces, and reading stops at the end of the header, so that  *)
(* the body is only there if it arrived in time.  The clients are external.*)
(***************************************************************************)
EXTENDS Integers, Sequences, SequencesExt

CONSTANTS Clients,    \* clients, each with one request
          Requests,   \* what the clients may want, as functions on Clients
          MaxClients  \* MAX_CLIENTS

ASSUME WebAssumption ==
  /\ Requests \subseteq
       [Clients -> {"completion", "unknown model", "embeddings", "tokenize", "models"}]
  /\ MaxClients \in Nat \ {0}

VARIABLES
  wanted,    \* the request of each client
  listening, \* server_fd_ is open
  stopFlag,  \* stop_flag_
  running,   \* running_
  loop,      \* where Run is
  current,   \* the client HandleRequest works for, or NoClient
  fds,       \* clients accepted and not closed, in this order
  ready,     \* what the last poll found and Run has not looked at
  link,      \* the connection of each client
  arrived,   \* index of the last piece of its request that arrived
  peerOpen,  \* the client has not closed its side
  reply      \* what each client was answered, and to what part of its body

serverVars == <<listening, stopFlag, running, loop, current, fds, ready, reply>>
clientVars == <<wanted, link, arrived, peerOpen>>
webVars    == <<serverVars, clientVars>>

Pieces   == <<"nothing", "start", "header", "part of the body", "all">>
Header   == 3
NoReply  == [code |-> 0, body |-> "empty"]
NoClient == "no client"
Server   == "server"
Idle     == {"off", "ended"}

WebInit ==
  /\ wanted \in Requests
  /\ listening = FALSE /\ stopFlag = FALSE /\ running = FALSE
  /\ loop = "off" /\ current = NoClient /\ fds = << >> /\ ready = {}
  /\ link = [c \in Clients |-> "away"]
  /\ arrived = [c \in Clients |-> 1]
  /\ peerOpen = [c \in Clients |-> TRUE]
  /\ reply = [c \in Clients |-> NoReply]

Connected(c) == link[c] \in {"backlog", "accepted"}
Waiting      == {c \in Clients : link[c] = "backlog"}
Readable(c)  == arrived[c] > 1 \/ ~peerOpen[c]
ClosedIn(conns) == [c \in Clients |-> IF c \in conns THEN "closed" ELSE link[c]]

-----------------------------------------------------------------------------
(* The clients.                                                            *)
Connect(c) ==
  /\ listening /\ link[c] = "away"
  /\ link' = [link EXCEPT ![c] = "backlog"]
  /\ UNCHANGED <<serverVars, wanted, arrived, peerOpen>>

Arrive(c) ==
  /\ Connected(c) /\ peerOpen[c]
  /\ \E piece \in arrived[c] + 1 .. Len(Pieces) : arrived' = [arrived EXCEPT ![c] = piece]
  /\ UNCHANGED <<serverVars, wanted, link, peerOpen>>

Hangup(c) ==
  /\ Connected(c) /\ peerOpen[c]
  /\ peerOpen' = [peerOpen EXCEPT ![c] = FALSE]
  /\ UNCHANGED <<serverVars, wanted, link, arrived>>

Client == \E c \in Clients : Connect(c) \/ Arrive(c) \/ Hangup(c)

-----------------------------------------------------------------------------
(* Start, when the socket could be bound.                                  *)
Start ==
  /\ ~running
  /\ listening' = TRUE /\ running' = TRUE /\ stopFlag' = FALSE
  /\ loop' = "poll"
  /\ UNCHANGED <<current, fds, ready, clientVars, reply>>

(* Mutant: the socket is closed and the thread not told.                   *)
StopWithoutFlag ==
  /\ running' = FALSE /\ listening' = FALSE
  /\ link' = ClosedIn(Waiting)
  /\ UNCHANGED <<stopFlag, loop, current, fds, ready, wanted, arrived, peerOpen, reply>>

(* Stop as far as the join of the thread, which ends when Joined.  Whoever *)
(* was not accepted goes with the listening socket.                        *)
Stop ==
  /\ stopFlag' = TRUE /\ running' = FALSE /\ listening' = FALSE
  /\ link' = ClosedIn(Waiting)
  /\ UNCHANGED <<loop, current, fds, ready, wanted, arrived, peerOpen, reply>>

Joined == loop \in Idle

(* Run leaves its loop when it is told to stop and also when poll fails;   *)
(* then running_ stays set and the listening socket open.                  *)
LoopEnds ==
  /\ loop = "poll"
  /\ loop' = "ended"
  /\ link' = ClosedIn(ToSet(fds)) /\ fds' = << >> /\ ready' = {}
  /\ UNCHANGED <<listening, stopFlag, running, current, wanted, arrived, peerOpen, reply>>

Leave     == stopFlag /\ LoopEnds
PollFails == ~stopFlag /\ LoopEnds

(* Mutant: only the listening socket is polled.                            *)
PollServerOnly ==
  /\ loop = "poll" /\ ~stopFlag
  /\ ready' = IF listening /\ Waiting # {} THEN {Server} ELSE {}
  /\ loop' = "accept"
  /\ UNCHANGED <<listening, stopFlag, running, current, fds, clientVars, reply>>

(* The poll of one turn; after 100 ms it returns with nothing.             *)
Poll ==
  /\ loop = "poll" /\ ~stopFlag
  /\ ready' = {c \in ToSet(fds) : Readable(c)}
                \cup (IF listening /\ Waiting # {} THEN {Server} ELSE {})
  /\ loop' = "accept"
  /\ UNCHANGED <<listening, stopFlag, running, current, fds, clientVars, reply>>

(* One client a turn.  Stop may have closed the socket since the poll.     *)
Accept ==
  /\ loop = "accept"
  /\ IF Server \in ready /\ Waiting # {}
     THEN \E c \in Waiting : /\ fds' = Append(fds, c)
                             /\ link' = [link EXCEPT ![c] = "accepted"]
     ELSE UNCHANGED <<fds, link>>
  /\ ready' = ready \ {Server}
  /\ loop' = "clients"
  /\ UNCHANGED <<listening, stopFlag, running, current, wanted, arrived, peerOpen, reply>>

(* HandleRequest begins to read from the next client that is ready.        *)
NextClient ==
  /\ loop = "clients" /\ ready # {}
  /\ current' = fds[SelectInSeq(fds, LAMBDA c : c \in ready)]
  /\ loop' = "reading"
  /\ UNCHANGED <<listening, stopFlag, running, fds, ready, clientVars, reply>>

(* Mutant: the clients beyond the limit are forgotten, not closed.         *)
TrimWithoutClose ==
  /\ loop = "clients" /\ ready = {}
  /\ fds' = IF Len(fds) <= MaxClients THEN fds ELSE SubSeq(fds, 1, MaxClients)
  /\ loop' = "poll"
  /\ UNCHANGED <<listening, stopFlag, running, current, ready, clientVars, reply>>

(* Over MAX_CLIENTS the clients accepted last are closed unanswered.       *)
Trim ==
  /\ loop = "clients" /\ ready = {}
  /\ fds' = IF Len(fds) <= MaxClients THEN fds ELSE SubSeq(fds, 1, MaxClients)
  /\ link' = ClosedIn(ToSet(fds) \ ToSet(fds'))
  /\ loop' = "poll"
  /\ UNCHANGED <<listening, stopFlag, running, current, ready, wanted, arrived, peerOpen, reply>>

-----------------------------------------------------------------------------
(* HandleRequest.                                                          *)
ParseBody == CASE arrived[current] <= Header   -> "empty"
               [] arrived[current] = Header + 1 -> "part"
               [] OTHER                         -> "whole"

(* A reply is sent, or none, and Run closes the connection.                *)
Answer(r) ==
  /\ reply' = [reply EXCEPT ![current] = r]
  /\ link' = ClosedIn({current})
  /\ fds' = RemoveFirst(fds, current)
  /\ ready' = ready \ {current}
  /\ current' = NoClient
  /\ loop' = "clients"
  /\ UNCHANGED <<listening, stopFlag, running, wanted, arrived, peerOpen>>

Error(code) == Answer([code |-> code, body |-> ParseBody])
Success     == Answer([code |-> 200, body |-> ParseBody])

(* The engine runs in this thread until Generated.                         *)
Generate ==
  /\ loop' = "generating"
  /\ UNCHANGED <<listening, stopFlag, running, current, fds, ready, clientVars, reply>>

(* Mutant: a missing prompt is taken for an empty one.                     *)
HandleCompletionsAnyPrompt == IF wanted[current] = "unknown model" THEN Error(404) ELSE Generate

(* HandleCompletions, HandleChatCompletions.  The prompt is required; the  *)
(* model named may not be there, or none is named and none is the default. *)
HandleCompletions ==
  IF ParseBody = "empty" THEN Error(400)
  ELSE IF wanted[current] = "unknown model" THEN Error(404) \/ Error(400)
  ELSE Generate

(* HandleEmbeddings, HandleRerank: placeholders that need their input.     *)
HandleEmbeddings == IF ParseBody = "empty" THEN Error(400) ELSE Success

(* HandleTokenize, HandleDetokenize: no text has no tokens.                *)
HandleTokenize == Success

(* Part of a JSON object does not parse; no body at all counts as "{}".    *)
RouteRequest ==
  IF wanted[current] = "models" THEN Success
  ELSE IF ParseBody = "part" THEN Error(400)
  ELSE CASE wanted[current] = "embeddings" -> HandleEmbeddings
         [] wanted[current] = "tokenize"   -> HandleTokenize
         [] OTHER                          -> HandleCompletions

HeaderRead == loop = "reading" /\ arrived[current] >= Header /\ RouteRequest

(* The client is gone, or timeout_seconds_ is over, before the header is.  *)
(* What there is of it may be enough, or name another path, or no key.     *)
ReadEnds ==
  /\ loop = "reading" /\ arrived[current] < Header
  /\ IF arrived[current] = 1 THEN Answer(NoReply)
     ELSE RouteRequest \/ Error(401) \/ Error(404)

Generated == loop = "generating" /\ Success

Serve == \/ Leave \/ Poll \/ Accept \/ NextClient \/ Trim
         \/ HeaderRead \/ ReadEnds \/ Generated

-----------------------------------------------------------------------------
(* A completion is only answered with success for the whole body of its    *)
(* client, however the request is cut into segments and whenever reading   *)
(* stopped.                                                                *)
WholePromptAnswered ==
  \A c \in Clients :
    (wanted[c] = "completion" /\ reply[c].code = 200) => reply[c].body = "whole"

(* Every connection that was accepted is one Run still polls; none leaks   *)
(* at the limit, in the middle of a turn or when the loop ends.            *)
AcceptedArePolled == \A c \in Clients : link[c] = "accepted" <=> c \in ToSet(fds)

(* Sockets, polls and a request that comes in pieces amount to a service   *)
(* that answers each client at most once and rightly, and never has more   *)
(* than one connection above MAX_CLIENTS.                                  *)
Service == INSTANCE WebService WITH Limit <- MaxClients + 1

ImplementsService == Service!Spec

(* A client that sent something, or hung up, is not kept waiting for ever. *)
ServedOrClosed ==
  \A c \in Clients : (link[c] = "accepted" /\ Readable(c)) ~> link[c] = "closed"
=============================================================================
