----------------------------- MODULE ModelRouter -----------------------------
(***************************************************************************)
(* ModelRouter: which model a prompt goes to.  What a model is good at is  *)
(* found out when it is first routed over, and kept for its id.  Every     *)
(* question to the manager takes its mutex for itself, so models come and  *)
(* go between them.  Scores are in hundredths.                             *)
(***************************************************************************)
EXTENDS Integers, FiniteSets, Sequences, FiniteSetsExt

CONSTANTS ModelIds, \* ids of models
          Kinds,    \* models: [family, tags] as their names and tags say
          Prompts   \* what DetectContentType finds in the prompts

ASSUME RouterAssumption ==
  /\ \A k \in Kinds : k.family \in {"code", "general", "math", "other"}
  /\ Prompts \subseteq {"code", "math", "reasoning", "technical", "creative", "chat", "mixed"}

VARIABLES
  table,        \* the manager's models: the kind of each
  capabilities, \* capabilities_: the kind each known id had
  routing,      \* the request being routed, or NoRoute
  decision,     \* RouteDecision of the last request, until the next one
  reused        \* history: ids loaded again after they were known

routerVars == <<table, capabilities, routing, decision, reused>>

Scores     == {"code", "english", "math", "reasoning", "creative", "technical", "chat"}
NoRoute    == [content |-> "none"]
NoDecision == [primary |-> "none", fallbacks |-> << >>]

Plus(f, m, v) == [k \in DOMAIN f \cup {m} |-> IF k = m THEN v ELSE f[k]]

RouterInit ==
  /\ table = [m \in {} |-> 0] /\ capabilities = [m \in {} |-> 0]
  /\ routing = NoRoute /\ decision = NoDecision /\ reused = {}

-----------------------------------------------------------------------------
(* The scores AutoDetectCapabilities gives a family; what is not set is 0. *)
FamilyScore(family, content) ==
  CASE family = "code"    -> CASE content = "code" -> 95 [] content = "technical" -> 90
                               [] content = "reasoning" -> 80 [] content = "english" -> 70
                               [] OTHER -> 0
    [] family = "general" -> CASE content = "english" -> 95 [] content = "chat" -> 90
                               [] content \in {"creative", "reasoning"} -> 85
                               [] content = "code" -> 60 [] OTHER -> 0
    [] family = "math"    -> CASE content \in {"math", "reasoning"} -> 95
                               [] content = "english" -> 80 [] content = "code" -> 75
                               [] OTHER -> 0
    [] family = "other"   -> CASE content = "english" -> 80 [] content = "chat" -> 75
                               [] content \in {"reasoning", "creative"} -> 70
                               [] content \in {"math", "technical"} -> 60
                               [] content = "code" -> 50

(* A tag lifts its score to 90.                                            *)
Capability(kind, content) ==
  IF content \in kind.tags \cap {"code", "english", "math", "chat"}
  THEN Max({90, FamilyScore(kind.family, content)}) ELSE FamilyScore(kind.family, content)

ScoreModelForContent(kind, content) ==
  IF content # "mixed" THEN Capability(kind, content)
  ELSE MapThenSumSet(LAMBDA c : Capability(kind, c), Scores) \div 7

-----------------------------------------------------------------------------
(* Route: any prompt's content may be detected, in the mode of one model   *)
(* (cascade is the same) or of an ensemble.  With no model loaded the      *)
(* decision is empty.                                                      *)
Route(content, ensemble) ==
  /\ routing = NoRoute
  /\ IF table = << >>
     THEN decision' = NoDecision /\ UNCHANGED routing
     ELSE /\ routing' = [content |-> content, ensemble |-> ensemble,
                         listed |-> DOMAIN table, todo |-> DOMAIN table]
          /\ decision' = NoDecision
  /\ UNCHANGED <<table, capabilities, reused>>

(* A model that is gone by now stays unknown.                              *)
AutoDetectCapabilities(m) ==
  /\ routing # NoRoute
  /\ m \in routing.todo
  /\ routing' = [routing EXCEPT !.todo = @ \ {m}]
  /\ capabilities' = IF m \in DOMAIN capabilities \/ m \notin DOMAIN table THEN capabilities
                     ELSE Plus(capabilities, m, table[m])
  /\ UNCHANGED <<table, decision, reused>>

Scored(m) == ScoreModelForContent(capabilities[m], routing.content)

(* Mutant: the last model with any score is taken.                         *)
BestOfAny(known) == known

BestOf(known) == {m \in known : \A k \in known : Scored(k) <= Scored(m)}

(* The model with the highest score, or the first one listed when none is  *)
(* known.                                                                  *)
PickBestModel ==
  LET known == routing.listed \cap DOMAIN capabilities
  IN \E m \in (IF known = {} THEN routing.listed ELSE BestOf(known)) :
       decision' = [primary |-> m, fallbacks |-> << >>]

EnsembleScore(m) == IF m \in DOMAIN capabilities THEN Scored(m) ELSE 50

(* The best three, in the order of their scores.                           *)
PickEnsemble ==
  \E order \in [1 .. Cardinality(routing.listed) -> routing.listed] :
    /\ \A i, j \in DOMAIN order : i < j => /\ order[i] # order[j]
                                          /\ EnsembleScore(order[i]) >= EnsembleScore(order[j])
    /\ decision' = [primary |-> order[1], fallbacks |-> SubSeq(order, 2, Min({3, Len(order)}))]

Decide ==
  /\ routing # NoRoute
  /\ routing.todo = {}
  /\ IF routing.ensemble THEN PickEnsemble ELSE PickBestModel
  /\ routing' = NoRoute
  /\ UNCHANGED <<table, capabilities, reused>>

(* What MultiModelManager does meanwhile, on other threads.                *)
ManagerLoads(m, kind) ==
  /\ m \notin DOMAIN table
  /\ table' = Plus(table, m, kind)
  /\ reused' = IF m \in DOMAIN capabilities THEN reused \cup {m} ELSE reused
  /\ UNCHANGED <<capabilities, routing, decision>>

ManagerUnloads(m) ==
  /\ m \in DOMAIN table
  /\ table' = [k \in DOMAIN table \ {m} |-> table[k]]
  /\ UNCHANGED <<capabilities, routing, decision, reused>>

RouterNext ==
  \/ \E content \in Prompts, ensemble \in BOOLEAN : Route(content, ensemble)
  \/ \E m \in ModelIds : AutoDetectCapabilities(m) \/ ManagerUnloads(m)
  \/ \E m \in ModelIds, kind \in Kinds : ManagerLoads(m, kind)
  \/ Decide

RouterSpec == RouterInit /\ [][RouterNext]_routerVars

-----------------------------------------------------------------------------
Suits(m, content) == ScoreModelForContent(table[m], content)

(* A request goes to a model that is at least as good for it, as the model *)
(* is now, as every other one that was found out about, and so do its      *)
(* fallbacks in their order, whatever was loaded or unloaded while it was  *)
(* routed.  Not so for an id that was given to another model: what was     *)
(* known of the first is believed of the second.                           *)
RouteIsBest ==
  [][decision' # decision /\ decision'.primary # "none" =>
       LET order == <<decision'.primary>> \o decision'.fallbacks
           sure  == (DOMAIN table \cap DOMAIN capabilities) \ reused
       IN \A i \in DOMAIN order :
            order[i] \in sure =>
              \A m \in (sure \cap routing.listed) \ {order[j] : j \in 1 .. i} :
                Suits(m, routing.content) <= Suits(order[i], routing.content)]_routerVars
=============================================================================
