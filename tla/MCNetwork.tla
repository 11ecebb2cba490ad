------------------------------ MODULE MCNetwork ------------------------------
(* The program with its web server, and the mesh of agents: they share     *)
(* nothing in the models, so a behaviour is one of either, and the other   *)
(* stays in one of its initial states.                                     *)
EXTENDS Program, AgentMesh

VARIABLE part

MCClients  == {"a", "b"}
MCKinds    == {"completion", "unknown model", "embeddings", "tokenize", "models"}
MCRequests == {[c \in MCClients |-> IF c = "a" THEN "completion" ELSE k] : k \in MCKinds}

networkVars == <<part, programVars, agentVars>>

NetworkInit ==
  /\ ProgramInit /\ AgentInit
  /\ \/ part = "program" /\ ~aliased
     \/ part = "agents" /\ mode = "single" /\ \A c \in Clients : wanted[c] = "completion"

InProgram == part = "program" /\ UNCHANGED <<part, agentVars>>
InAgents  == part = "agents" /\ UNCHANGED <<part, programVars>>

NetworkNext ==
  \/ InProgram /\ ProgramNext
  \/ InAgents /\ AgentNext

FairNetwork ==
  /\ NetworkInit /\ [][NetworkNext]_networkVars
  /\ WF_programVars(part = "program" /\ MainThread)
  /\ WF_programVars(part = "program" /\ WebThread)
  /\ \A a \in Agents : WF_agentVars(part = "agents" /\ Work(a))
=============================================================================
