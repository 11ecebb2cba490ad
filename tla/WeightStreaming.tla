--------------------------- MODULE WeightStreaming ---------------------------
(***************************************************************************)
(* The weights of one model: MultiModelManager::LoadModel streams the      *)
(* first layers and the global tensors to the GPU, the compute engine      *)
(* copies their addresses into a table, and StepBatch streams a deferred   *)
(* layer when it first needs it.  Every tensor can fail to be uploaded.    *)
(* A tensor is <<layer, slot>>; the global tensors count as a layer of     *)
(* their own, and every tensor takes one unit of VRAM.                     *)
(***************************************************************************)
EXTENDS Integers, FiniteSets

CONSTANTS NLayers,   \* blockCount
          PerLayer,  \* tensors of a layer, and global tensors
          VramUnits  \* tensors that fit into VRAM

ASSUME StreamingAssumption ==
  NLayers \in Nat \ {0} /\ PerLayer \in Nat \ {0} /\ VramUnits \in Nat

VARIABLES
  loadAt,    \* "none", "streaming" inside LoadModel, "loaded"
  mode,      \* load_mode_
  gguf,      \* the model is a memory-mapped GGUF file
  backing,   \* binData_, or the mapped file, is there
  next,      \* the layer LoadModel streams next
  target,    \* layers_to_upload
  onGpu,     \* tensors whose gpuAddress is not 0
  marked,    \* layers_loaded_ of the ModelAdapter
  tableRead, \* model_weights_loaded_
  addresses, \* tensors with an address in the engine's table
  vram       \* free units; nothing ever gives one back

streamVars == <<loadAt, mode, gguf, backing, next, target, onGpu, marked,
                tableRead, addresses, vram>>

Modes    == {"VRAM", "MIRROR", "LAZY"}
Layers   == 0 .. NLayers - 1
Layer(l) == {l} \X (1 .. PerLayer)
Global   == Layer(NLayers)

StreamInit ==
  /\ loadAt = "none" /\ mode = "MIRROR" /\ gguf = FALSE /\ backing = FALSE
  /\ next = 0 /\ target = 0 /\ onGpu = {} /\ marked = {}
  /\ tableRead = FALSE /\ addresses = {}
  /\ vram = VramUnits

-----------------------------------------------------------------------------
(* The tensors of S that an upload has to try.                             *)
Missing(S) == S \ onGpu

(* uploadTensor for each of S that is missing: done tensors get an         *)
(* address; stranded ones failed after their device buffer was created     *)
(* (staging, source or command pool), and freeTensor(desc) does not know   *)
(* that buffer yet; the others failed before.  Without a source none gets  *)
(* past the size check.                                                    *)
uploadTensors(S) ==
  \E done \in SUBSET Missing(S) :
    \E stranded \in 0 .. Cardinality(Missing(S) \ done) :
      /\ Cardinality(done) + stranded <= vram
      /\ ~backing => done = {} /\ stranded = 0
      /\ onGpu' = onGpu \cup done
      /\ vram' = vram - Cardinality(done) - stranded

(* uploadLayer returns count > 0: one tensor is enough.                    *)
uploadLayer(l) == onGpu' \cap Layer(l) # {}

(* A layer once marked is never looked at again.                           *)
StreamLayerWeights(l) ==
  IF l \in marked
  THEN UNCHANGED <<onGpu, vram, marked>>
  ELSE /\ uploadTensors(Layer(l))
       /\ marked' = IF uploadLayer(l) THEN marked \cup {l} ELSE marked

(* The ModelAdapter of a model that is dropped; its destructor, and that   *)
(* of its WeightUploader, free no Vulkan buffer.                           *)
Destroyed ==
  /\ loadAt' = "none" /\ backing' = FALSE /\ marked' = {} /\ onGpu' = {}
  /\ UNCHANGED <<mode, gguf, next, target, tableRead, addresses>>

-----------------------------------------------------------------------------
(* MultiModelManager::LoadModel, up to its loop over the layers.           *)
BeginLoadModel ==
  /\ loadAt = "none"
  /\ loadAt' = "streaming" /\ backing' = TRUE /\ next' = 0
  /\ mode' \in Modes /\ gguf' \in BOOLEAN
  /\ target' \in 0 .. NLayers /\ (mode' = "LAZY" => target' = 0)
  /\ UNCHANGED <<onGpu, marked, tableRead, addresses, vram>>

LoadLayer ==
  /\ loadAt = "streaming" /\ next < target
  /\ StreamLayerWeights(next)
  /\ next \in marked'
  /\ next' = next + 1
  /\ UNCHANGED <<loadAt, mode, gguf, backing, target, tableRead, addresses>>

(* A layer of which nothing could be uploaded makes LoadModel give up.     *)
LoadLayerFails ==
  /\ loadAt = "streaming" /\ next < target
  /\ \E stranded \in 0 .. vram :
       /\ stranded <= Cardinality(Layer(next))
       /\ vram' = vram - stranded
  /\ Destroyed

(* UploadGlobalWeights returns all_ok.                                     *)
UploadGlobalWeights == Global \subseteq onGpu'

(* OnAllLayersUploaded, called even when layers were deferred: VRAM mode   *)
(* frees the system RAM copy; a mapped file is kept.                       *)
SourceAfter == mode # "VRAM" \/ gguf

(* The globals, then OnAllLayersUploaded and the KV cache (not counted     *)
(* here).                                                                  *)
LoadGlobals ==
  /\ loadAt = "streaming" /\ next = target
  /\ uploadTensors(Global)
  /\ UploadGlobalWeights
  /\ backing' = SourceAfter
  /\ loadAt' = "loaded"
  /\ UNCHANGED <<mode, gguf, next, target, marked, tableRead, addresses>>

(* A missing global tensor, or no room for the KV cache.                   *)
LoadGlobalsFails ==
  /\ loadAt = "streaming" /\ next = target
  /\ \E used \in 0 .. vram :
       /\ used <= Cardinality(Global)
       /\ vram' = vram - used
  /\ Destroyed

(* UnloadModel knows nothing of the engine, which would keep a pointer to  *)
(* the adapter: whoever calls it must have let the engine go.  (Nobody in  *)
(* the repository calls it.)                                               *)
DropModel ==
  /\ loadAt = "loaded" /\ ~tableRead
  /\ UNCHANGED vram
  /\ Destroyed

-----------------------------------------------------------------------------
(* The compute engine.                                                     *)

(* Addresses that are 0 stay 0 in the table; the call succeeds anyway.     *)
LoadModelWeights ==
  /\ loadAt = "loaded" /\ ~tableRead
  /\ tableRead' = TRUE /\ addresses' = onGpu
  /\ UNCHANGED <<loadAt, mode, gguf, backing, next, target, onGpu, marked,
                 vram>>

(* SetupModel: the engine of the model gives way to that of another one.   *)
DropEngine ==
  /\ tableRead
  /\ tableRead' = FALSE /\ addresses' = {}
  /\ UNCHANGED <<loadAt, mode, gguf, backing, next, target, onGpu, marked,
                 vram>>

(* Mutant: the table is taken to be what LoadModelWeights made it.         *)
ReloadLayerWeightsNever(l) == addresses

ReloadLayerWeights(l) == addresses \cup (onGpu' \cap Layer(l))

EnsureLayerWeights(l) ==
  /\ loadAt = "loaded" /\ tableRead
  /\ StreamLayerWeights(l)
  /\ addresses' = IF l \in marked' THEN ReloadLayerWeights(l) ELSE addresses
  /\ UNCHANGED <<loadAt, mode, gguf, backing, next, target, tableRead>>

StreamNext ==
  \/ BeginLoadModel \/ LoadLayer \/ LoadLayerFails \/ LoadGlobals
  \/ LoadGlobalsFails \/ DropModel \/ LoadModelWeights
  \/ DropEngine
  \/ \E l \in Layers : EnsureLayerWeights(l)

StreamSpec == StreamInit /\ [][StreamNext]_streamVars

-----------------------------------------------------------------------------
(* The engine's table is a cache of the adapter's descriptors: it names no *)
(* buffer the model has not got, and for a layer that is marked loaded,    *)
(* at load time or by the step that streamed it, it has every address      *)
(* there is.                                                               *)
TableCurrent ==
  /\ addresses \subseteq onGpu
  /\ tableRead => \A l \in marked : onGpu \cap Layer(l) \subseteq addresses

(* "Lazy-load the weights for this layer before any dispatch uses them":   *)
(* a layer whose weights are said to be loaded has all of them.            *)
MarkedIsWhole == \A l \in marked : Layer(l) \subseteq onGpu
=============================================================================
