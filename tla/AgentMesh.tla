------------------------------ MODULE AgentMesh ------------------------------
(***************************************************************************)
(* AgentNode: agents that ask each other over HTTP.  Each has its main     *)
(* thread, which asks for the user, the thread of its web server, which    *)
(* serves one request after the other and may ask on behalf of it, and the *)
(* heartbeat, which calls the status of all peers with peers_mutex_ held.  *)
(* Every call is given up after five seconds; what was called then still   *)
(* serves the request, and its answer is lost.                             *)
(***************************************************************************)
EXTENDS Integers, FiniteSets, Sequences, SequencesExt

CONSTANTS Agents,
          MaxHops,    \* AgentReasonRequest::MAX_HOPS
          MaxQueries, \* bound on the questions of the users
          MaxBeats    \* bound on the heartbeats

ASSUME AgentAssumption ==
  /\ IsFiniteSet(Agents)
  /\ {MaxHops, MaxQueries, MaxBeats} \subseteq Nat

VARIABLES
  aliased,  \* peers are known under names that are not their agent_name
  thread,   \* what each thread of each agent does
  inbox,    \* the requests at the web server of each agent
  alive,    \* the peers each agent takes to be alive
  queries, beats

agentVars == <<aliased, thread, inbox, alive, queries, beats>>

Threads == {"main", "web", "heart"}
(* way is history: the agents that relayed the question until here, which  *)
(* the code only knows by the names in asked.                              *)
NoReq   == [kind |-> "none", from |-> "nobody", by |-> "main", wanted |-> FALSE,
            hop |-> 0, asked |-> {}, way |-> {}]
IdleThread == [at |-> "idle", todo |-> << >>, hop |-> 0, asked |-> {}, way |-> {}, req |-> NoReq]
Peers(a)   == Agents \ {a}

(* peers_ is a map: a caller goes through its peers in the map's order.    *)
PeerOrder(peers) == SetToSeq(peers)

(* The name of peer p in peers_ of an agent; p itself says agent_name.     *)
PeerName(p) == <<p, aliased>>
AgentName(a) == <<a, FALSE>>

AgentInit ==
  /\ aliased \in BOOLEAN
  /\ thread = [a \in Agents |-> [t \in Threads |-> IdleThread]]
  /\ inbox = [a \in Agents |-> << >>]
  /\ alive = [a \in Agents |-> {}]
  /\ queries = 0 /\ beats = 0

(* RefreshPeers is the only one to keep peers_mutex_ over a call.          *)
MutexFree(a) == thread[a]["heart"].at = "idle"

-----------------------------------------------------------------------------
(* Calls.  A thread sends to the first of its todo and waits.              *)
Request(a, t) ==
  LET me == thread[a][t]
  IN  [kind   |-> IF t = "heart" THEN "status" ELSE "reason",
       from   |-> a, by |-> t, wanted |-> TRUE, hop |-> me.hop, asked |-> me.asked,
       way    |-> me.way]

(* AskPeer looks its peer up under the mutex, which the heartbeat has.     *)
HttpPost(a, t) ==
  /\ thread[a][t].at = "ask" /\ thread[a][t].todo # << >>
  /\ t = "heart" \/ MutexFree(a)
  /\ LET p == Head(thread[a][t].todo)
         r == Request(a, t)
     IN  inbox' = [inbox EXCEPT ![p] = Append(@, [r EXCEPT !.hop = @ + 1])]
  /\ thread' = [thread EXCEPT ![a][t].at = "wait"]
  /\ UNCHANGED <<aliased, alive, queries, beats>>

(* The caller goes on to its next peer, and learns whether this one lives. *)
Returns(states, a, t) ==
  [states EXCEPT ![a][t].at = "ask", ![a][t].todo = Tail(@)]

Learns(a, t, ok) ==
  LET p == Head(thread[a][t].todo)
  IN  alive' = IF t # "heart" THEN alive
               ELSE [alive EXCEPT ![a] = IF ok THEN @ \cup {p} ELSE @ \ {p}]

OnCall(a, t) == thread[a][t].at = "wait"

(* Mutant: only the other threads set a timeout.                           *)
TimeoutNotHeart(a, t) ==
  /\ OnCall(a, t) /\ t # "heart"
  /\ LET p      == Head(thread[a][t].todo)
         Mine(r) == r.from = a /\ r.by = t
     IN  /\ inbox' = [inbox EXCEPT ![p] =
                        [i \in DOMAIN @ |-> IF Mine(@[i]) THEN [@[i] EXCEPT !.wanted = FALSE] ELSE @[i]]]
         /\ thread' = LET served == thread[p]["web"].req
                      IN  IF Mine(served)
                          THEN [Returns(thread, a, t) EXCEPT ![p]["web"].req.wanted = FALSE]
                          ELSE Returns(thread, a, t)
  /\ Learns(a, t, FALSE)
  /\ UNCHANGED <<aliased, queries, beats>>

(* SO_RCVTIMEO, or the connection breaks.                                  *)
Timeout(a, t) ==
  /\ OnCall(a, t)
  /\ LET p      == Head(thread[a][t].todo)
         Mine(r) == r.from = a /\ r.by = t
     IN  /\ inbox' = [inbox EXCEPT ![p] =
                        [i \in DOMAIN @ |-> IF Mine(@[i]) THEN [@[i] EXCEPT !.wanted = FALSE] ELSE @[i]]]
         /\ thread' = LET served == thread[p]["web"].req
                      IN  IF Mine(served)
                          THEN [Returns(thread, a, t) EXCEPT ![p]["web"].req.wanted = FALSE]
                          ELSE Returns(thread, a, t)
  /\ Learns(a, t, FALSE)
  /\ UNCHANGED <<aliased, queries, beats>>

(* Web server b answers r, being left in the state web.                    *)
Reply(b, r, web) ==
  LET left == [thread EXCEPT ![b]["web"] = web]
  IN  IF r.wanted
      THEN thread' = Returns(left, r.from, r.by) /\ Learns(r.from, r.by, TRUE)
      ELSE thread' = left /\ UNCHANGED alive

-----------------------------------------------------------------------------
(* The user: /ask for one peer, /askall for those alive.                   *)
AskThese(a, todo) ==
  /\ thread[a]["main"].at = "idle" /\ queries < MaxQueries
  /\ thread' = [thread EXCEPT ![a]["main"] = [IdleThread EXCEPT !.at = "ask", !.todo = todo]]
  /\ queries' = queries + 1
  /\ UNCHANGED <<aliased, inbox, alive, beats>>

Ask(a) ==
  \/ \E p \in Peers(a) : AskThese(a, <<p>>)
  \/ MutexFree(a) /\ AskThese(a, PeerOrder(Peers(a) \cap alive[a]))

Beat(a) ==
  /\ thread[a]["heart"].at = "idle" /\ beats < MaxBeats
  /\ thread' = [thread EXCEPT ![a]["heart"] = [IdleThread EXCEPT !.at = "ask", !.todo = PeerOrder(Peers(a))]]
  /\ beats' = beats + 1
  /\ UNCHANGED <<aliased, inbox, alive, queries>>

(* AskAll and RefreshPeers are through.                                    *)
RoundEnds(a, t) ==
  /\ t # "web" /\ thread[a][t].at = "ask" /\ thread[a][t].todo = << >>
  /\ thread' = [thread EXCEPT ![a][t] = IdleThread]
  /\ UNCHANGED <<aliased, inbox, alive, queries, beats>>

-----------------------------------------------------------------------------
(* The web server.                                                         *)
WebIdle(b) == thread[b]["web"].at = "idle" /\ inbox[b] # << >>

HandleStatusRequest(b) ==
  /\ WebIdle(b) /\ Head(inbox[b]).kind = "status" /\ MutexFree(b)
  /\ Reply(b, Head(inbox[b]), IdleThread)
  /\ inbox' = [inbox EXCEPT ![b] = Tail(@)]
  /\ UNCHANGED <<aliased, queries, beats>>

HopLimit(b) ==
  /\ WebIdle(b) /\ Head(inbox[b]).kind = "reason" /\ Head(inbox[b]).hop > MaxHops
  /\ Reply(b, Head(inbox[b]), IdleThread)
  /\ inbox' = [inbox EXCEPT ![b] = Tail(@)]
  /\ UNCHANGED <<aliased, queries, beats>>

(* Mutant: the agent does not add itself to those asked.                   *)
HandleReasonRequestForgets(b) ==
  /\ WebIdle(b) /\ Head(inbox[b]).kind = "reason" /\ Head(inbox[b]).hop <= MaxHops
  /\ MutexFree(b)
  /\ LET r == Head(inbox[b])
         todo  == PeerOrder({p \in Peers(b) \cap alive[b] : PeerName(p) \notin r.asked})
     IN  thread' = [thread EXCEPT ![b]["web"] =
           [at |-> "ask", todo |-> todo, hop |-> r.hop, asked |-> r.asked,
            way |-> r.way \cup {b}, req |-> r]]
  /\ inbox' = [inbox EXCEPT ![b] = Tail(@)]
  /\ UNCHANGED <<aliased, alive, queries, beats>>

HandleReasonRequest(b) ==
  /\ WebIdle(b) /\ Head(inbox[b]).kind = "reason" /\ Head(inbox[b]).hop <= MaxHops
  /\ MutexFree(b)
  /\ LET r == Head(inbox[b])
         asked == r.asked \cup {AgentName(b)}
         todo  == PeerOrder({p \in Peers(b) \cap alive[b] : PeerName(p) \notin asked})
     IN  thread' = [thread EXCEPT ![b]["web"] =
           [at |-> "ask", todo |-> todo, hop |-> r.hop, asked |-> asked,
            way |-> r.way \cup {b}, req |-> r]]
  /\ inbox' = [inbox EXCEPT ![b] = Tail(@)]
  /\ UNCHANGED <<aliased, alive, queries, beats>>

(* No peer answered with confidence: the request is acknowledged.          *)
Acknowledge(b) ==
  /\ thread[b]["web"].at = "ask" /\ thread[b]["web"].todo = << >>
  /\ Reply(b, thread[b]["web"].req, IdleThread)
  /\ UNCHANGED <<aliased, inbox, queries, beats>>

Work(a) ==
  \/ \E t \in Threads : HttpPost(a, t) \/ Timeout(a, t) \/ RoundEnds(a, t)
  \/ HandleStatusRequest(a) \/ HopLimit(a) \/ HandleReasonRequest(a) \/ Acknowledge(a)

AgentNext == \E a \in Agents : Ask(a) \/ Beat(a) \/ Work(a)

AgentSpec == AgentInit /\ [][AgentNext]_agentVars

(* Every thread that can go on does, and a call that gets no answer is     *)
(* given up.                                                               *)
FairAgentSpec == AgentSpec /\ \A a \in Agents : WF_agentVars(Work(a))

-----------------------------------------------------------------------------
AtServer(b) == ToSet(inbox[b]) \cup {thread[b]["web"].req}

(* Where peers go by their own names a question never comes to an agent    *)
(* that already relayed it on the way to there, however late requests are  *)
(* served, so that a way ends.  On another way of the same question, and   *)
(* to the user's own agent, which does not name itself, it may come again. *)
NoWayBack ==
  ~aliased => \A b \in Agents : \A r \in AtServer(b) : b \notin r.way

(* Locks held over calls, servers that wait for each other and requests    *)
(* nobody waits for: all of it comes to rest, also when names differ.      *)
AgentsQuiet ==
  <>[](\A a \in Agents : inbox[a] = << >> /\ \A t \in Threads : thread[a][t].at = "idle")
=============================================================================
