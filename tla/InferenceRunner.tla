--------------------------- MODULE InferenceRunner ---------------------------
(***************************************************************************)
(* notllama::InferenceRunner on top of the engine: one thread serves one   *)
(* call after the other, for any of the loaded models.  Generate is        *)
(* SetupModel, ResetExecutionEngine, AddSequence(0, prompt) and then       *)
(* RunUntilToken until enough tokens have been reported; each of these,    *)
(* and each StepBatch of RunUntilToken, is a step of its own here.         *)
(*                                                                         *)
(* The engine is recreated when the model changes.  What survives it is    *)
(* the KV cache and the streamed layers of each model, and the TRANSIENT   *)
(* ring, which all engines take their buffers from.  What the engine does  *)
(* for the first request of all is what SoloRequest says.                  *)
(***************************************************************************)
EXTENDS SoloRequest

CONSTANTS Models,       \* models known to the MultiModelManager
          NoModel,      \* the empty current_model_id_, or no engine
          Eos,          \* eos_token_id
          MaxCalls      \* bound on the calls of Prime and Generate

ASSUME RunnerAssumption ==
  /\ NoModel \notin Models
  /\ MaxCalls \in Nat

VARIABLES
  pc,            \* where the thread is in Prime, Generate or GenerateOne
  currentModel,  \* current_model_id_
  engineModel,   \* the model engine_ was created for
  parked,        \* per model, the KV cache and layers the engine left behind
  lastSeen,      \* last_token_
  primed,        \* primed_
  prompt,        \* length of the prompt of the call in progress
  budget,        \* calls of RunUntilToken still to make
  reported,      \* tokens handed to the caller since the last Prime
  inherited,     \* last_token_id_ of the engine when the prompt was added
  context,       \* the Vulkan context exists
  calls          \* how many calls of Prime and Generate there have been

runnerVars == <<pc, currentModel, engineModel, parked, lastSeen, primed,
                prompt, budget, reported, inherited, context, calls>>
allVars == <<vars, runnerVars>>

(* A model nobody has used yet, its first n layers on the GPU.             *)
Unused(n) == [kvLen  |-> [l \in Layers |-> 0],
              kvRow  |-> [l \in Layers |-> [p \in Rows |-> {Garbage}]],
              loaded |-> 0 .. n - 1]

RunnerInit ==
  /\ Init /\ loaded = {}
  /\ pc = "Out" /\ currentModel = NoModel /\ engineModel = NoModel
  /\ parked \in [Models -> {Unused(n) : n \in 0 .. NLayers}]
  /\ lastSeen = 0 /\ primed = FALSE
  /\ prompt = 0 /\ budget = 0 /\ reported = << >>
  /\ inherited = 0 /\ context = TRUE /\ calls = 0

-----------------------------------------------------------------------------
(* SetupModel.  The new engine finds the KV cache of its model as the last *)
(* engine of that model left it; nothing goes back to the ring.            *)
KeepEngine == UNCHANGED <<vars, currentModel, engineModel, parked>>

NewEngine(m) ==
  LET left == IF engineModel = NoModel THEN parked
              ELSE [parked EXCEPT ![engineModel] =
                      [kvLen |-> kvLen, kvRow |-> kvRow, loaded |-> loaded]]
  IN /\ parked' = left
     /\ kvLen' = left[m].kvLen
     /\ kvRow' = left[m].kvRow
     /\ loaded' = left[m].loaded
     /\ currentModel' = m /\ engineModel' = m
     /\ phase' = "VALIDATE" /\ layer' = 0 /\ seqs' = << >> /\ order' = << >>
     /\ nextIdx' = 0 /\ lastToken' = 0 /\ scratch' = FALSE
     /\ hidden' = [s \in SeqIds |-> {Garbage}]
     /\ buf' = [b \in Scratch |-> {Garbage}]
     /\ UNCHANGED <<kvOob, ringFree, device, requests, ok>>

(* Generate(m, ..., b), or Prime when b = 0, with a prompt of n tokens.    *)
(* GetModel may not know m: nothing then changes.                          *)
Call(m, n, b) ==
  /\ pc = "Out" /\ context
  /\ IF currentModel = m /\ engineModel # NoModel THEN KeepEngine ELSE NewEngine(m)
  /\ pc' = "ResetEngine" /\ prompt' = n /\ budget' = b /\ calls' = calls + 1
  /\ UNCHANGED <<lastSeen, primed, reported, inherited, context>>

PrimeResets ==
  /\ pc = "ResetEngine"
  /\ ResetExecutionEngine
  /\ pc' = "Add"
  /\ UNCHANGED <<currentModel, engineModel, parked, lastSeen, primed, prompt,
                 budget, reported, inherited, context, calls>>

(* The rest of Prime.  One that fails leaves last_token_ and primed_ as    *)
(* they were; one that works clears last_token_, but not the engine's own  *)
(* last_token_id_.                                                         *)
PrimeAdds ==
  /\ pc = "Add"
  /\ AddSequence(0, prompt)
  /\ pc' = IF ok' /\ budget > 0 THEN "Run" ELSE "Out"
  /\ IF ok'
     THEN /\ lastSeen' = 0 /\ primed' = TRUE
          /\ reported' = << >> /\ inherited' = lastToken
     ELSE UNCHANGED <<lastSeen, primed, reported, inherited>>
  /\ UNCHANGED <<currentModel, engineModel, parked, prompt, budget, context, calls>>

(* Mutant: each call begins a pass of its own, as Prime does.              *)
GenerateOneResets ==
  /\ pc = "Out" /\ context
  /\ primed /\ engineModel # NoModel
  /\ ResetExecutionEngine
  /\ pc' = "Run" /\ budget' = 1
  /\ UNCHANGED <<currentModel, engineModel, parked, lastSeen, primed,
                 prompt, reported, inherited, context, calls>>

GenerateOne ==
  /\ pc = "Out" /\ context
  /\ primed /\ engineModel # NoModel
  /\ pc' = "Run" /\ budget' = 1
  /\ UNCHANGED <<vars, currentModel, engineModel, parked, lastSeen, primed,
                 prompt, reported, inherited, context, calls>>

-----------------------------------------------------------------------------
(* Mutant: a token is recognised by its id alone.                          *)
GeneratedById ==
  /\ phase' = "IDLE"
  /\ lastToken' # 0 /\ lastToken' # lastSeen

(* RunUntilToken: one StepBatch and what is made of its result.  A token   *)
(* is reported on the transition from TOPK to IDLE, and also whenever the  *)
(* engine is IDLE and its last token differs from the last one reported.   *)
(* prev_phase there is always the phase StepBatch is called in.            *)
Generated ==
  /\ phase' = "IDLE"
  /\ \/ phase = "TOPK"
     \/ lastToken' # 0 /\ lastToken' # lastSeen

Report ==
  /\ lastSeen' = lastToken'
  /\ reported' = Append(reported, lastToken')
  /\ budget' = budget - 1
  /\ pc' = IF budget = 1 \/ lastToken' = Eos THEN "Out" ELSE "Run"

(* Mutant: a StepBatch that failed is tried again.                         *)
RunUntilTokenRetries ==
  /\ pc = "Run"
  /\ StepBatch
  /\ IF ok' /\ Generated
     THEN Report
     ELSE /\ pc' = "Run"
          /\ UNCHANGED <<lastSeen, reported, budget>>
  /\ UNCHANGED <<currentModel, engineModel, parked, primed, prompt, inherited,
                 context, calls>>

RunUntilToken ==
  /\ pc = "Run"
  /\ StepBatch
  /\ IF ok' /\ Generated
     THEN Report
     ELSE /\ pc' = IF ok' THEN "Run" ELSE "Out"
          /\ UNCHANGED <<lastSeen, reported, budget>>
  /\ UNCHANGED <<currentModel, engineModel, parked, primed, prompt, inherited,
                 context, calls>>

(* Mutant: Reset forgets the model but not that a prompt was primed.       *)
RunnerResetKeepsPrimed ==
  /\ IF engineModel = NoModel THEN UNCHANGED vars ELSE ResetExecutionEngine
  /\ currentModel' = NoModel /\ lastSeen' = 0
  /\ UNCHANGED <<engineModel, parked, primed, prompt, budget, reported, inherited, calls>>

(* InferenceRunner::Reset.  The engine itself is kept.                     *)
RunnerReset ==
  /\ IF engineModel = NoModel THEN UNCHANGED vars ELSE ResetExecutionEngine
  /\ currentModel' = NoModel /\ lastSeen' = 0 /\ primed' = FALSE
  /\ UNCHANGED <<engineModel, parked, prompt, budget, reported, inherited, calls>>

Reset == /\ pc = "Out" /\ context
         /\ RunnerReset
         /\ UNCHANGED <<pc, context>>

(* The end of main: inference.Reset(), then ctx.cleanup().                 *)
Cleanup == /\ pc = "Out" /\ context
           /\ RunnerReset
           /\ pc' = "Out" /\ context' = FALSE

Thread == PrimeResets \/ PrimeAdds \/ RunUntilToken

Caller ==
  \/ /\ calls < MaxCalls
     /\ \E m \in Models, n \in 1 .. MaxPrompt, b \in 0 .. MaxNew : Call(m, n, b)
  \/ Len(reported) < MaxNew /\ GenerateOne
  \/ Reset
  \/ Cleanup

RunnerNext == Thread \/ Caller

RunnerSpec == RunnerInit /\ [][RunnerNext]_allVars

(* Nothing but its own code decides whether the thread goes on.            *)
FairRunnerSpec == RunnerSpec /\ WF_allVars(Thread)

-----------------------------------------------------------------------------
(* The engine is only run for the model the caller asked for: a Reset, a   *)
(* change of model or a Prime that failed half-way never leaves GenerateOne*)
(* with an engine of another model.                                        *)
EngineOfCurrentModel ==
  pc # "Out" => currentModel # NoModel /\ engineModel = currentModel

(* The ids TOPK sampled for the sequence, in the order they were sampled.  *)
SampledIds ==
  LET all == seqs[0].tokens
      n   == Len(all) - seqs[0].position
  IN  [i \in 1 .. seqs[0].position |-> all[n + i].id]

(* RunUntilToken reports every token the engine samples for the prompt,    *)
(* once, in order and nothing else, across Generate, GenerateOne, Reset and*)
(* calls that failed half-way, if the engine had sampled nothing when the  *)
(* prompt was added.  (OnlyNewTokens says why that has to be asked.)       *)
ReportedInOrder ==
  (0 \in DOMAIN seqs /\ inherited = 0) => reported = SampledIds

(* The first request of a process is a Decoder for whoever calls Prime,    *)
(* Generate, GenerateOne and Reset, wherever one of them failed: each step *)
(* adds at most a token, computed from all inputs before it, inside the KV *)
(* buffers.  (FreshRequest says why it is only the first.)                 *)
FirstRequestDecodes ==
  [][calls' <= 1 => KvInBounds' /\ [Promised!Next]_(Promised!vars)]_allVars

(* Prime, Generate and GenerateOne return, whatever is refused and also    *)
(* when the device is lost: RunUntilToken never spins.                     *)
CallsReturn == pc # "Out" ~> pc = "Out"

-----------------------------------------------------------------------------
(* RunUntilToken "returns true if a new token was generated": it never     *)
(* reports more tokens than were sampled for the prompt it was primed with.*)
OnlyNewTokens ==
  0 \in DOMAIN seqs => Len(reported) <= seqs[0].position

(* Prime "resets engine state for new sequence": no token depends on what  *)
(* an earlier request left in the KV cache.                                *)
FreshRequest ==
  (device = "ok" /\ 0 \in DOMAIN seqs) =>
    \A i \in DOMAIN seqs[0].tokens :
      \A j \in seqs[0].tokens[i].basis : j[1] = seqs[0].req
=============================================================================
