---------------------------- MODULE MCComponents ----------------------------
(* The components around the engine: what manages blocks, layers and       *)
(* models, the router, the kernels, the packed weights, the pipelines, the *)
(* set-up of the device, and the mesh of agents (MCNetwork has its         *)
(* liveness, with fewer agents).  They share nothing in the models, but    *)
(* for the two kernels, which FlashAttention composes; a behaviour is one  *)
(* of a single component, and the others stay in their initial state.      *)
EXTENDS LayerSwap, BlockTables, ModelManager, ModelRouter, WeightStreaming,
        FlashAttention, BlockFormats, ShaderLibrary, DeviceSetup, AgentMesh

VARIABLE part

MCKinds     == {[family |-> "math", tags |-> {}], [family |-> "general", tags |-> {"math"}]}

MCFileOf == [t \in {"QKV_PROJ", "MLP_UP"} |-> "gemm"]

(* GPUs with one or two queue families of every kind, of four ranges of    *)
(* subgroup sizes, alone or behind another one.                            *)
MCFlags ==
  [compute : BOOLEAN, graphics : BOOLEAN, transfer : {TRUE}, count : {1, 4}]
MCFamilies == {<<f>> : f \in MCFlags} \cup (MCFlags \X MCFlags)
MCWaves    == {<<32, 32, 64>>, <<64, 32, 64>>, <<64, 64, 64>>, <<16, 8, 16>>}
MCGpus     ==
  {[amd |-> a, families |-> f, default |-> w[1], min |-> w[2], max |-> w[3],
    extensions |-> {"matrix", "ballot"}, matrix16 |-> FALSE, features |-> TRUE] :
     a \in BOOLEAN, f \in MCFamilies, w \in MCWaves}
MCSmallGpus == {g \in MCGpus : Len(g.families) = 1}
MCSystems ==
  {<< >>} \cup {<<g>> : g \in MCGpus}
    \cup ({g \in MCSmallGpus : ~g.amd /\ g.default = 16} \X MCSmallGpus)

memoryVars == <<swapVars, blockVars, managerVars, routerVars, streamVars>>
kernelVars == <<attnVars, formatVars, shaderVars>>
componentVars == <<part, memoryVars, kernelVars, deviceVars, agentVars>>

ComponentsInit ==
  /\ SwapInit /\ BlockInit /\ ManagerInit /\ RouterInit /\ StreamInit
  /\ AttnInit /\ FormatInit /\ ShaderInit /\ DeviceInit /\ AgentInit
  /\ part \in {"swap", "blocks", "manager", "router", "weights",
               "attention", "formats", "shaders", "device", "agents"}
  /\ part = "agents" \/ ~aliased

InMemory  == UNCHANGED <<part, kernelVars, deviceVars, agentVars>>
InKernels == UNCHANGED <<part, memoryVars, deviceVars, agentVars>>
InDevice  == part = "device" /\ UNCHANGED <<part, memoryVars, kernelVars, agentVars>>
InAgents  == part = "agents" /\ UNCHANGED <<part, memoryVars, kernelVars, deviceVars>>

ComponentsNext ==
  \/ /\ part = "swap" /\ InMemory /\ SwapNext
     /\ UNCHANGED <<blockVars, managerVars, routerVars, streamVars>>
  \/ /\ part = "blocks" /\ InMemory /\ BlockNext
     /\ UNCHANGED <<swapVars, managerVars, routerVars, streamVars>>
  \/ /\ part = "manager" /\ InMemory /\ ManagerNext
     /\ UNCHANGED <<swapVars, blockVars, routerVars, streamVars>>
  \/ /\ part = "router" /\ InMemory /\ RouterNext
     /\ UNCHANGED <<swapVars, blockVars, managerVars, streamVars>>
  \/ /\ part = "weights" /\ InMemory /\ StreamNext
     /\ UNCHANGED <<swapVars, blockVars, managerVars, routerVars>>
  \/ part = "attention" /\ InKernels /\ AttnNext /\ UNCHANGED <<formatVars, shaderVars>>
  \/ part = "formats" /\ InKernels /\ FormatNext /\ UNCHANGED <<attnVars, shaderVars>>
  \/ part = "shaders" /\ InKernels /\ ShaderNext /\ UNCHANGED <<attnVars, formatVars>>
  \/ InDevice /\ DeviceNext
  \/ InAgents /\ AgentNext

ComponentsSpec == ComponentsInit /\ [][ComponentsNext]_componentVars
=============================================================================
