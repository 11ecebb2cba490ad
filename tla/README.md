# TLA+ models of NotLLAMA

NotLLAMA is a Vulkan inference engine for decoder language models: a host
program that streams quantised weights to a GPU, runs one compute shader per
step of the forward pass, and serves prompts from a command line, a web page or
other nodes. This directory holds TLA+ models of its own logic, the TLC
configurations that check them on small instances, and proofs, checked by TLAPS,
of what matters most for every size.

Contents: 1 the system, 2 the plan, 3 modules and code, 4 runs and bounds,
5 fairness, 6 proofs, 7 what the code does and its texts do not say, 8 what is
left out. Paths are relative to the repository's root.

Run a check with `tlc -config MCSubmissions.cfg MCSubmissions.tla`, a proof with
`tlapm SoloRequest_proofs.tla`.


## 1. The system

### 1.1 The path of a token

    main.cpp: RunSingleShot, RunInteractiveMode, RunBenchmark, or WebServer
        |  Prime / Generate / GenerateOne / Reset         (one thread at a time)
    InferenceRunner  --- GetModel --->  MultiModelManager --- LoadModel
        |  AddSequence, StepBatch,                |
        |  ResetExecutionEngine                   |  StreamLayerWeights
    VulkanComputeEngine  --- EnsureLayerWeights -> ModelAdapter -> WeightUploader
        |       |      \
        |       |       \-- TRANSIENT ring (hidden states, scratch buffers)
        |       \--- KVCacheManager (one K and one V buffer per layer)
        |  one command buffer, one fence, one wait per kernel
    the device: rmsnorm, gemm, rope, kv_cache_write, flash_attention, ...

Everything on this path runs in one host thread: that of `main`, or in server
mode that of the web server. What makes it hard is not
concurrency of the host, but a state that is spread over five objects which are
reset, replaced and reused at different times, a step function that may fail at
each of its twenty phases and is then called again, and a device that may be
lost, work in any order, or still be busy.

| Component | State | Operations | Hard behaviour | What makes it correct |
|---|---|---|---|---|
| Compute engine, `src/src/engine/vulkan_compute_engine.cpp` | `step_phase_`, `current_layer_`, `sequences_`, `next_seq_index_`, `last_token_id_`, scratch buffers, table of weight addresses | `AddSequence`, `RemoveSequence`, `StepBatch`, `ResetExecutionEngine` | one phase and one set of buffers for all sequences; refused dispatches and repeated phases; unchecked waits | a token depends on exactly the inputs before it; rows stay inside the KV buffers; nothing after a lost device |
| Inference runner, `src/src/host/inference_runner.cpp` | `engine_`, `current_model_id_`, `last_token_`, `primed_` | `Prime`, `Generate`, `GenerateOne`, `Reset` | the engine is kept or replaced, the KV cache and the ring never; a token is recognised by a change of an id | the engine of the model asked for; each token reported once, in order; every call returns |
| KV cache, `src/src/host/kv_cache.cpp`, `src/shaders/kv_cache_write.comp` | per layer a K and a V buffer and `currentSeqLen` | `allocate`, `incrementSeqLen`, the write shader | tiled layout shared by a writer and a reader that were written apart; threads in any order | rows do not disturb each other; reader and writer agree; writes inside the buffer |
| Attention kernel, `src/shaders/flash_attention.comp` | rows, tiles, masks | `DispatchFlashAttn`, the shader | chunks, tiles and waves that do not divide each other | every row once, causal, inside the output |
| Weights, `weight_uploader.cpp`, `model_adapter.cpp` | descriptors with GPU addresses, `layers_loaded_`, RAM copy | `uploadTensor`, `uploadLayer`, `StreamLayerWeights`, `UploadGlobalWeights`, `OnAllLayersUploaded` | each tensor can fail half-way; a second cache of the addresses in the engine | what is marked loaded is there; the engine's table is current |
| Model manager, `multi_model_manager.cpp` | `instances_`, VRAM in use, access order | `LoadModel`, `UnloadModel`, `SwapOutLRU`, `SwapIn` | unlocks in the middle, half-way failures | the VRAM counted is the VRAM used; no use of an unloaded model |
| Scheduler and fence pool, `scheduler.cpp`, `rdna4_fence_pool.hpp` | `pool_`, `queueFences_`, the open batch | `dispatch` in five forms, batches, `syncAll` | fences travel between pool, queue and waiter; every submission may fail | a fence has one user; nobody waits for what was never submitted; pools are reset when idle |
| Rings, `ring_allocator_adapter.cpp`, `allocator.cpp` | offset of the TRANSIENT and WEIGHT arenas | `Allocate`, `Free`, `Reset` | `Free` does nothing and nobody resets | no two live allocations overlap |
| Layer swap manager, `layer_swap_manager.cpp` | layers in VRAM, LRU queue, bytes used | `RegisterLayer`, `EnsureLayerInVRAM`, `EvictOneLayer`, `FreeSystemCopies` | evicts before it knows whether the newcomer fits; frees no ring space | queue, flags, bytes and addresses agree |
| Memory tiers, `memory_tier.cpp` | buffers in VRAM, RAM or on disk, totals, one mutex | `AllocateBuffer`, `PromoteToVRAM`, `DemoteToRAM`, `SpillToDisk`, `RestoreFromDisk`, `FreeBuffer` | helpers lock the mutex their caller holds; a write without it; uploads that silently fail | totals match the buffers; the newest content is where the tier says |
| Paged KV adapter, `kv_cache_adapter.cpp` | block pool, block tables, access times | `AllocateBlock`, `SetSequenceBlockTable`, `RemoveSequence`, `EvictBlocksLRU` | eviction nobody is told of | a block belongs to one sequence, to the caller, or is free |
| Model router, `model_router.cpp` | capabilities | `AutoDetectCapabilities`, `PickBestModel`, `PickEnsemble`, `Route` | capabilities outlive their model | the best of the models that are there is chosen |
| Web server, `web_server.cpp` | sockets, `running_`, `stop_flag_`, one thread | `Start`, `Stop`, `Run`, `HandleRequest` | requests in pieces; clients that hang up; `Stop` in the middle of anything | no answer to half a prompt; no socket leaks; `Stop` returns |
| Program, `src/main.cpp` | objects on the stack, `g_running` | the four modes, the signal handler | who is destroyed when | nobody uses what is gone |
| Agent node, `agent_node.cpp` | peers and who is alive, three threads | `AskPeer`, `AskAll`, `HandleReasonRequest`, `RefreshPeers` | a lock held across a network call; calls given up and still served | a question never goes back on its way; all comes to rest |
| Shader library, `vulkan_shader_library.cpp`, `shader_compiler.cpp` | pipelines, layouts, a cache of files | `CompileKernel`, `CompileNamedShader`, `PrecompileAll` | the cache outlives edits, kills and restarts | a pipeline runs the code of its shader and specialisation |
| Descriptor manager, engine and adapter set-up | Vulkan handles, next index | `EnsureResources`, `RegisterBuffer` | every object may fail to be made, then it is tried again | nothing half-made is used |
| Device context, `context.cpp` | instance, device, queues, wave size | `createInstance` to `createDevice`, `cleanup` | GPUs with few queues or other waves | queues and wave size are those of the GPU |
| Quantisation formats, `gguf_quantization.cpp`, `weight_uploader.cpp` | one packed block | six encoders, `cpuDequantToFloat` | two programs compute the same places | the decoder reads what the encoder wrote |
| Multi-token prediction, `mtp_engine.cpp` | a random generator | `GenerateNext`, `SpeculativeDecode` | no code constructs it | |
| Mailbox, `mailbox.cpp` | one token and a ready flag in shared memory | `readToken`, `acknowledge` | no kernel of the build writes it | |
| Context manager, compression | segments of a context | compaction | not part of the build | |
| Older backend, `src/src/vulkan`, `src/src/core` | device, batches | `begin_batch`, `end_batch` | not part of the build | |
| Loaders, tokenizer, command line, profiler | none that others race for | parsing, tables | | |

### 1.2 How the parts interact

* **Calls.** `main` calls the runner, the runner the engine, the engine the KV
  cache manager, the ring and the model adapter. There are no callbacks on this
  path; a failure is a `false` that goes up and leaves everything as it stands.
* **Shared state.** The engine's phase, layer and scratch buffers are shared by
  all its sequences. The KV cache and the streamed layers belong to the model
  instance and outlive the engine. The TRANSIENT ring belongs to the process and
  outlives both. The engine's weight table is a copy of the adapter's.
* **Host and device.** Every dispatch of the engine waits for its fence before
  the next; only `DispatchGemm` looks at the result of that wait, so a lost
  device shows up one submission later. The scheduler, in
  contrast, has many submissions in flight and waits in `syncAll`.
* **Threads.** `main` starts the thread of the web server, stops it with a flag
  and a closed socket, and joins it before anything is destroyed. An agent node
  adds a heartbeat. The web server's thread may call other agents while a client
  waits for it, so agents can wait for each other.
* **Files.** The memory tiers spill to files, the shader compiler keeps a cache.
  The second outlives the program.


## 2. The plan

Order: the path of a token first, then what feeds it, then the services.

| # | Module | Composes | State |
|---|---|---|---|
| 1 | `ComputeEngine` | - | done |
| 2 | `SoloRequest`: one request on a fresh engine; `Decoder`: what it is promised | `ComputeEngine` | done, proved |
| 3 | `EngineSharing`: several sequences | `ComputeEngine` | done, proved |
| 4 | `InferenceRunner`: several requests and models | `SoloRequest` | done, proved |
| 5 | `KvCacheWrite`, `FlashAttention`: two kernels thread by thread | the second composes the first | done, proved |
| 6 | `WeightStreaming` | - | done, proved |
| 7 | `FenceScheduler` | - | done, proved |
| 8 | `ModelManager`, `MemoryTiers`, `LayerSwap` (with the WEIGHT ring), `BlockTables`, `ModelRouter` | - | done, proved |
| 9 | `WebServer`, implements `WebService`; `Program`: main around it | `WebServer` | done, proved |
| 10 | `AgentMesh` | - | done, proved |
| 11 | `ShaderLibrary`, `DeviceSetup` | - | done, proved |
| 12 | `BlockFormats`: encoder against decoder, bit by bit | - | done, proved |

What is left of the code is in section 8 with the reasons.

Abstract specifications worth stating: `Decoder` (done: a request is a growing
sequence of tokens and may end with the device) and `WebService` (done: what the
server promises its clients).

Theorems: every safety property a passing run checks is one, in the order of the
table, and so are the inductive invariant of a request, that it implements
`Decoder`, alone and under the runner, and that the server implements `WebService`. The modules they are about are written
without RECURSIVE operators for that. Section 6 has the arguments.

To keep the set of runs small, components that do not interact share a run: the two
that submit to the device (`MCSubmissions`), the engine and the memory tiers under any
calls (`MCSharing`), the program and the agents (`MCNetwork`), and the rest
(`MCComponents`).


## 3. Modules and the code they model

### `ComputeEngine`

One action per phase of `StepBatch` and one per other operation. The variables
carry the names of the members they stand for (`phase` is `step_phase_`, `layer`
`current_layer_`, `nextIdx` `next_seq_index_`, `lastToken` `last_token_id_`,
`kvLen[l]` `currentSeqLen`). `DecodeStep(s)` is what every call does: `Turn(s)`
picks the sequence (lines 495-508), then the phase's dispatch runs for it. The
fourteen phases of the layer loop that only move data between buffers share one
action, `LayerKernel`, driven by the table `Kernel`, which records what each
reads, writes and hands over to; RoPE, the KV write, attention and `LAYER_NEXT`
have actions of their own.

*Data.* The contents of a buffer are abstracted to where they come from: the set
of pairs <<request, position>> of the input tokens they depend on, plus
`Garbage` for memory nobody wrote. That is exactly what tells a right token from
a wrong one as far as control is concerned. Two pairs of buffers that are always
written together (K and V of a row) share a set.

*Outcomes.* A dispatch is done, refused (no pipeline, a null address, a failed
submission: nothing ran, `false` is returned, the phase stays) or lost (it was
submitted, the wait failed). A loss reported to a wait whose result is ignored
lets the phase go on; later submissions are refused. Once the device is lost,
what kernels wrote is `Garbage`.

*Order of an unordered_map.* The list of active sequences is rebuilt in every
call from an `std::unordered_map`; the model keeps the order in `order` and lets
a new key appear anywhere.

### `SoloRequest`

The single-shot program: `Prime` once, then `StepBatch` until `MaxNew` tokens.
Safety is claimed for more than the callers of the build do: a call that failed may be made
again (as a further `Generate` or `GenerateOne` would) or not. This module states the
central property of the engine, `SampledFromPrefix`, and the inductive invariant
`SoloInv`. Liveness is claimed only of what `Generate` does: `GenerateGoesOn` is the
next call of its loop, which is made when the last one returned true. After a call that
failed nothing is promised, and `RequestCompletes` says so: it is about
executions in which no call is refused.

### `Decoder`

The abstract specification of one request: accepted, then one token after the
other, each computed from all of the input before it, then at most one unknown
token when the device is lost. `SoloRequest` maps its state to it (`Produced`
are the tokens behind the prompt) and implements it: most steps of `StepBatch`
are stutters, `TopK` is `Emit`, a wait that reports a loss is `Lose`.

### `EngineSharing`

The engine under its whole interface: two ids added, removed, re-added and the
engine reset between any two calls. The passing run checks what still holds
(`KvSkew`, `EnoughRows`, `RingAccounted`); `MCOwnToken` shows what does not. That a pass
behind the layer loop has all weights is not among it: here a layer is loaded or not,
but in the code one uploaded tensor is enough for it to count as loaded, and
`DispatchRmsNorm` (line 912) does not look at the address of its weights. This is the
subject of `WeightStreaming` and its run `partial_layer`.

### `InferenceRunner`

`Call` is `SetupModel` for `Generate` or `Prime`; `PrimeResets`, `PrimeAdds`
and `RunUntilToken` are the calls of the engine the thread makes next; `Reset`
and `Cleanup` the end of a request and of `main`. When the model changes, the
engine is replaced, and `parked` keeps each model's KV lengths, rows and streamed
layers, because these belong to the instance and not to the engine.

It extends `SoloRequest`, because the first request of a process is the one
described there, whatever the runner makes of it: `FirstRequestDecodes` is the
promise of `Decoder`, kept by the calls of `Prime`, `Generate`, `GenerateOne` and
`Reset` until there is a second request (which breaks it, section 7).

`inherited` is the `last_token_id_` an engine has when a prompt is added. It is zero for
a new engine, and so after `Reset` of the runner, which clears `current_model_id_`
(line 202): the next `SetupModel` makes a new engine. Another `Prime` or `Generate` of the
same model without `Reset` keeps the engine and its last token, and `RunUntilToken` then
takes that for a new one. `OnlyNewTokens` is the promise of the header that this breaks
(run `new_token`); `ReportedInOrder` is what holds of all other prompts.

### `KvCacheWrite` and `FlashAttention`

Two shaders, thread by thread. `WriteIndex` and `ReadIndex` are the address
computations of the two shaders, `BufferSize` the allocation; threads of all
workgroups interleave in any order. In `FlashAttention` the loop of
`DispatchFlashAttn` that starts chunks of rows interleaves with the workgroups;
a workgroup's threads take the tiles of the KV loop together (they have barriers
there) and write on their own. `FlashAttention` composes `KvCacheWrite`: rows are
written first, and attention starts when the write kernel is done. With a
context that is not a multiple of the tile the layout breaks behind the last whole
one (section 7); `RowsKept` and `ReadsBack` hold up to there (`InStride`), and with
one head always.

### `WeightStreaming`

From `LoadModel` to a layer streamed by `StepBatch`. A tensor is a pair
<<layer, slot>>, the global tensors form a layer of their own, `gpu` is the set
of descriptors with an address, `marked` is `layers_loaded_`, `table` the
engine's copy. `uploadTensors` lets any subset succeed and any number of the
rest fail after their device buffer was created, in which case the unit of VRAM
is gone for good (`freeTensor` looks at a descriptor not yet filled in). `DropEngine`
is the change of model in `SetupModel`; `DropModel` is `UnloadModel`, which knows
nothing of the engine and has no caller in the build, for a model that no engine uses.

### `FenceScheduler`

`status`, `work` and `vkState` are the device's side; `pool`, `tracked`, `batch`
and `timed` the host's. A command buffer is only seen through the fence it was
submitted with. `SubmitTracking` is the common tail of `dispatch`, `dispatchBatch`,
`dispatchBatchBarriers` and `endBatch`; where recording fails these return
before it and change nothing. `dispatchMulti` and `speculativeDecode` are
sequences of `Dispatch`. The two blocking calls are split at the wait. Waits fail
only when the device is lost; a null handle given to a wait makes it undefined,
modelled as a wait that may return at once and remembered in `nullWait`.

### `ModelManager`

`models` is `models_`, `recency` the order of `last_used`. `SwapIn` is three
steps, because it unlocks before it calls `SwapOutLRU` and locks again after it;
the pointer it keeps over the gap is stale once the model was unloaded. Three
orders of calls upset the budget for good; the history variable `wrong` names
them, and `UsedIsActive` says that there is no fourth. `LoadModel`'s own steps
are in `WeightStreaming`.

### `MemoryTiers`, `LayerSwap`, `BlockTables`, `ModelRouter`

`MemoryTiers`: the mutex is not recursive. A call is one step (`Serve`), unless it
makes another call from inside; then its thread waits for itself (`Relock`) and
everybody else for it, but `WriteCPUData`, which takes no mutex. Contents are
numbers of writes. `spoiled` and `recount` remember where the code itself loses a
content or a count, and the properties say that nothing else does. There are five
such places. An upload may silently not take place. A write may go to a buffer in VRAM.
`DemoteToRAM` looks neither at the result of `vkAllocateMemory` nor at that of
`vkQueueSubmit` (lines 373-401), and the GPU buffer lacks the usage it would have to be
copied from (165-167), so what it copies over the RAM copy may be unread staging
memory (`ReadBack`). `SpillToDisk` asks `f.good()` before the stream is flushed (444) and
frees the RAM copy, so a write that fails then takes the content with it. And a freed
buffer may be demoted, which spoils the count.

`LayerSwap` puts the queue on top of the bump allocator of the WEIGHT ring.
`BlockTables` includes, as external, a caller who allocates blocks and sets
tables; `EvictBlocksLRU` does not tell it. `ModelRouter` runs against a manager that
loads and unloads models; the patterns that classify a prompt are abstracted to
the class they find.

### `WebServer` and `Program`

`Run` is a loop of `Poll`, `Accept` (one client a turn), `NextClient` and
`HandleRequest` for each client that is ready, and `Trim`. A request arrives in
pieces; reading stops at the end of the header, so `ParseBody` has what had
arrived by then. Clients connect, send and hang up at any time. `Program` is
`main` around it: the objects in their order, the four modes, the signal, `Stop`
and its join, the reset, the device and the destructors.

### `WebService`

The abstract specification of the server, with three variables of the twelve: what a
client asks for, its connection and its answer. A client is accepted while at most
`MAX_CLIENTS` others are, answered at most once with a reply that is `Right` for what it
asked and for as much of its body as was read, and closed with that; or it is closed
unanswered. In `WebServer` the sockets, `fds`, polls, pieces and threads are hidden:
`Answer` of a reply is `Answer`, `Accept` is `Accept`, `Stop`, `Trim`, the end of the
loop and a client that left are `Close`, and the rest stutters.

### `AgentMesh`

Each agent has three threads: the user's, its web server's and the heartbeat's.
`HttpPost`, `Timeout` and `Reply` are the two ends of a call; a request given up
is still served, and its answer lost. `MutexFree` is `peers_mutex_`, which only
the heartbeat keeps over its calls. `aliased` are configurations in which peers
are not known under the names they give themselves.

`asked` is `already_asked`, the names a question carries; `way` is a history variable, the
agents that really relayed it. `NoWayBack` compares the two: a question never comes to an
agent that relayed it on the way to there. It is not said that an agent never relays the
same question twice. From a, with three agents, b and c may each be asked by a
and by the other; and a, whose user asked, is not among those asked and may get
its own question.

### `ShaderLibrary`, `DeviceSetup`, `BlockFormats`

`ShaderLibrary` has the cache files as state that survives the end of the program;
sources are edited and `glslc` is killed in the middle of a file.
`DeviceSetup` is `VulkanContext::init`, step by step, on any machine of the set
`Systems`. `BlockFormats` says for each field of a packed block which bits it has,
once as the encoder writes them and once as the decoder reads them, and runs the
encoder's loops.


## 4. Runs and bounds

| Run | Module | Shows |
|---|---|---|
| submissions | `MCSubmissions` | one request, every dispatch able to fail: each token is computed from exactly the inputs before it; nothing after a loss; `SoloInv` is an invariant (rows stay in bounds is a part of it); the request implements `Decoder`, and completes if no call is refused. The scheduler: one user per fence, no fence reset too early, pools reset when idle, waits return |
| sharing | `MCSharing` | what the KV lengths and the ring keep when passes are abandoned and change hands; memory tiers: totals agree with what is owned, contents are where they should be |
| runner | `MCInferenceRunner` | the right engine, each token reported once unless the engine had sampled before the prompt, the first request as `Decoder` promises, every call returns |
| network | `MCNetwork` | the program with its web server: it implements `WebService` (so there is no success for half a prompt), no connection leaks, readable clients are served or closed, the engine is quiet before it is reset, a signal ends the program; agents: everything comes to rest |
| components | `MCComponents` | layer swap, blocks, models, router, weights: counters and flags agree with what is owned, routes are best, the engine's table is current; kernels, formats, shaders, device: rows undisturbed and read back, every row attended to once and causally, decoders agree with encoders, pipelines run their code, queues and waves are the GPU's; agents: a question never goes back on its way |
| prompt_order, own_token, fresh_request, new_token, attention_output, partial_layer, device_last | | one violated statement each, see section 7 |

*submissions, sharing, network, components.* Each of these runs joins components that share nothing in
the models. `part`, chosen in the initial state, names the one that moves; the
others stay where they start. The states are the sum of those of the parts, not
their product, and every property is about one part.

*submissions.* Engine: two layers make "the next layer" and "the last layer" differ; prompts of
one and two tokens separate the prompt phase from decoding; three new tokens fill
a cache of three rows, so that the next row would be outside. Two token ids. The
run takes any dispatch refused any number of times, since a refusal changes no
state, and the device lost at any point. Fences: two queues of at most two
submissions, a pool of one fence that can grow to two, one fence of the caller; with
and without a pool.

*sharing.* Engine: two ids and three requests allow an id to be overwritten and removed
in every phase. `MaxWrites` bounds the rows written per layer by 4, twice
the size of the cache, so lengths do grow beyond it. The run uses a VIEW that leaves
out the contents of buffers: no guard and no property of the run reads them (the
order of the map, which decides whose turn it is, is kept), so two states that
agree on the view have the same enabled actions, and successors that agree again.
Tiers: three buffers on two layers, two of which share a spill file, VRAM
for one, one write. Size counters wrap at `Word`, so that a subtraction too many
shows.

*runner.* Two models, three calls of `Prime` or `Generate`, in between
`GenerateOne` and `Reset`. One layer suffices because the layers are the subject
of the run submissions. One of the two ids ends the text. Two tokens fill the cache, so
that a row too many in the first request would be outside.

*network.* Two clients, one asking for a completion and the other for any kind of
request, `MAX_CLIENTS` of one: with two accepted the second is cut off. (The limit of
`WebService`, one more than `MAX_CLIENTS`, takes three clients to pass; that it is kept is
proved, not shown by this run.) Two agents
of which each may be asked, with two questions of users and two heartbeats. The
hop limit is 3 (5 in the code), more than two agents need when names agree, and
reached when they do not. Two questions, the second asked while the first is still
relayed, is what liveness needs; a third agent would multiply the states of that beyond
what a check of liveness can take. (`device_last` needs neither the second agent's hops
nor questions, and sets them lower.)

*components.* Layer swap: three layers of sizes one to three in three units of VRAM, three
registrations (of one layer twice, too), a ring that fills up. Blocks: two sequences, three blocks. Manager:
two models, two threads, VRAM for less than both. Router: three models of two
kinds, two kinds of prompts. Weights: nine units for six tensors leave room for
three buffers to be lost, so that VRAM is used up in some executions only.
Kernels: two tiles of two positions, two heads, an odd head dimension,
three workgroups for six elements; four rows, waves of two, caches shorter than,
equal to and longer than the rows, and ending inside a tile; a context that ends
inside a tile. Formats: all six, at
their full size. Shaders: two kernel types that share a shader, two
specialisations, two versions of the source. Device: every GPU with one or two
queue families of every kind and four ranges of subgroup sizes, alone or second to
another one. Agents: three, the least for which a question can go on to somebody else
than the one it came from, and for which a way back is not simply an answer; one
question and two heartbeats in all, since only who was found alive is asked on.

Deadlock is not checked where the program ends: when a request is done or refused, the device
is lost, `cleanup` has run, `main` has returned, or a thread of the memory tiers
has locked its mutex twice.

Every property has a mutant in `PROJECT.json`: a plausible bug (a definition with
the comment *Mutant* next to the true one) for which TLC finds it violated.


## 5. Fairness

* `FairSoloSpec`: weak fairness of `GenerateGoesOn`, which is enabled after a call that
  returned true. That a call that failed is repeated is not assumed, because it is not
  so: `Generate` (`inference_runner.cpp:123-126`) and `RunUntilToken` return at
  the first `false`. Hence the premise of `RequestCompletes`, that no call is refused; what
  is claimed is that phases, layers and sequence then come to the end of each pass and
  find the next input, with nothing left to wait for.
* `FairRunnerSpec`: weak fairness of `Thread` only, the steps of the code itself.
  Nothing is assumed of the device: a refused dispatch makes the call return.
* `FairSubmissions` has the fairness of `FairSoloSpec` and of `FairFenceSpec`: the device
  works each queue off, and a host thread whose wait is over goes on (`Complete`,
  `DispatchTimedReturns`, `SyncAllReturns`). The waits have the timeout `UINT64_MAX`.
* `FairNetwork`: `main` and the thread of the server run on, and so does each agent
  (`Work`: its threads, and the timeout of five seconds that ends every call).
  Nothing is assumed of clients, users or signals. An interactive session need
  not end: `Interact` is not in `MainThread`. A poll that fails is not assumed to.
* `ComponentsSpec` has no fairness, and no liveness is claimed of its parts.


## 6. Proofs

Every proof is about the specification TLC checks, for all values of the constants
the assumption of its module allows. Seven modules prove properties of the parts;
`SetsAndQueues` has the lemmas they share.

### `SoloRequest_proofs`

For all numbers of layers, tokens, ids, ring units and rows, from
`EngineAssumption`, `SoloAssumption` and `Fits` (a request asks for at most
`MaxSeqLen` tokens, which the callers do not check: each theorem names it) it
proves:

| Theorem | Says |
|---|---|
| `SoloTypeOK` | the state has its type |
| `SoloSampledFromPrefix` | each token is computed from exactly the inputs before it |
| `SoloKvInBounds` | no row outside the KV buffers is written |
| `SoloNoTokenAfterLoss` | after a reported loss no sequence changes |
| `SoloImplementsDecoder` | the request implements `Decoder`: each step of the engine is a step of it or a stutter |

`SampledFromPrefix` only speaks of tokens already there, so it is not inductive:
a step of attention could read anything. `SoloInv` adds `Control` (how phase,
layer and the presence of the sequence go together), `Cache` (layers below the
current one, and the current one once it is written, have one row more than the
others, and row p of each is computed from inputs up to p, p included) and
`Buffers` (phase by phase, which buffers were computed from the current input and
nothing later). `Invariance` proves `TypeOK /\ SoloInv` for every step, with one
lemma per action; the lemmas on the `Kernel` table, on provenance sets and on
`Turn` (with one sequence every call works for it) are stated once. The
refinement uses the invariant twice: `Buffers` in `TOPK` says that the token
emitted has the inputs `Decoder` asks for, and `Control` that it is `Pos + 1`
tokens from the end; that the tokens before it stay is a fact about `Append`.
`DecoderStep` is that argument for one step, for the runner to use, too.

### `EngineSharing_proofs`

`KvSkew` and `EnoughRows` are proved together (`SharingInv`),
because a pass can be abandoned in any phase and taken over by another sequence.
`Progress` says which layer a phase can be at. `Lengths`
refines `KvSkew`: while the engine is in front of the write of layer l, that layer
is strictly behind the one below, and after the write the one above is strictly
behind it, so that one more row cannot put a layer ahead. `Paid` is the same for
tokens: a pass behind its last write has one row more than all positions together,
which is the row of the token it is going to sample. Positions are summed over the
sequences there are, by the lemmas on sums. `RingAccounted` is inductive but for
types.

### `InferenceRunner_proofs`

`ModelInv` (what is primed belongs to the current model, and the engine to it) gives
`EngineOfCurrentModel`. `ReportedInOrder` needs to know why `RunUntilToken` takes a
change of `last_token_` for a new token: `ReportInv` adds that, once a prompt is
primed, the engine's last token is the one last seen, or zero, or nothing was sampled and
reported yet and the token is inherited. Only in the last case can an old token be
reported, and then it is the first one: what follows it is again what was sampled
(`ReportedOrInherited`), which makes the invariant inductive. `Stepping` says
that every phase but `TOPK` leaves tokens alone, so one case of `StepBatch` is left.

`FirstRequestDecodes` joins this to the proof about one request, under `Fits`.
`FirstInv` says that until its prompt is added the engine of the first call is a new
one (`Init` of `SoloRequest`, although `NewEngine` made it out of what was parked),
and that `TypeOK /\ SoloInv` holds as long as the prompt is primed. So each step of
the thread is one of `SoloRequest`, or leaves the sequence alone; for the guard of its
`Step`, that the tokens asked for are not all there, it takes `BudgetInv` (what is
reported and what is still to be reported are at most `MaxNew`) and `ReportedInOrder`
(no more tokens were sampled than reported). A reset in the middle of a pass does
break `SoloInv`, but `primed_` is taken back with it, and nobody runs the engine
before the next `Prime`.

### `Layouts_proofs`

Within a head no two elements share an index: it is a number with the digits tile,
dimension and place in the tile, and division with remainder gives the digits back
(`ReadIndexApart`, from `Quotient` and `Digits`, for every size). Heads do not
meet as long as this number is below their stride, which is true of whole tiles
(`ReadIndexWithin`). `KvInv` says that a thread which is at element e has written each
element it has passed, and that the threads of the first workgroup alone cover the
row; so the order of the others, who write the same values, does not matter.
`FlashInv` has a part for the chunks handed out, for the tile a workgroup is at, for
what a thread has accumulated (all positions it may see in the tiles behind it) and
for where it wrote.

`ReadsBackBlock`: `Owner` is the inverse of a format's layout, from a bit of the block
to the field it belongs to and its place there. For each of the six formats one
lemma says that each bit a field is written to is inside the block and owned by
that field (`Q4_0Owned` and so on, which for `Q4_K` is where the scales are split over
two bytes), and one that the decoder reads a field where the encoder puts it
(`Q4_0Decoded` and so on). So no two fields share a bit, and `PackedInv`, each bit
written so far is held by its owner, survives every stage, in whatever order
stages and formats come. `FormatsAssumption` says that there are no formats but the
six.

### `Device_proofs`

* `DeviceUsable`: `DeviceInv` says it step by step of what `init` has chosen so far.
  `DeviceAssumption` is what a loader can list: GPUs whose default width of wave is
  within their range, and families that have a queue.
* `PipelinesAgree`: `LibraryInv` says that each pipeline has the code installed or
  that of the file under its own key, and files are only added. The key tells
  shaders and specialisations apart; `ShaderAssumption` says that no specialisation
  has the name kept for installed code.
* `FencesOnce`, `PoolIsIdle`, `ResetFindsOthers`: `FenceInv` says of each fence of
  the scheduler that it is once in the pool, the table, or with a timed wait
  (`Kept`), and, while the device is there and no null handle was waited for, that
  what is still running has a fence that is pending and in the table or waited for
  (`Running`). Hence a fence in the pool is not pending, and what a wait for the
  whole table leaves running had no fence.

### `Memory_proofs`

* `TiersAccounted`, `NewestKept`: `TierInv` says which members a buffer has in each
  tier, and that a buffer in VRAM has the newest content in RAM, too: a demotion
  that finds or maps no staging memory falls back on it. (A demotion that reads staging
  memory nobody wrote does not, and is one of the named losses.) The counters are cardinalities, and
  each call changes one buffer, so `CountChange` decides each.
* `SwapConsistent`: `SwapInv` follows the layers through an eviction of any length.
  The bytes freed are the sum over the victims, and what is left is the sum over the
  rest of the queue (`SumDifference`). Addresses are below the top of the ring, so a
  new one is apart from all.
* `BlocksOwned`: it is not inductive, since removing a sequence or setting a table
  only keeps the books right when the caller's idea of a table is the adapter's.
  `BlockInv` adds that (`CallerKnows`). It ends with the first eviction, and so does the
  claim.
* `UsedIsActive`: `ManagerInv` adds that a thread in the unlocked middle of `SwapIn`
  has a pointer to a model that is still there, or one known to be stale. That the
  counter does not wrap takes that all sizes together fit in it.
* `RouteIsBest`: `RouterInv` says that what is known of an id is true of the model
  which has it, unless the id was reused.
* `TableCurrent`: `StreamInv` adds that the engine has read a table only of a model
  that is loaded. The rest is that an upload adds tensors of the layer asked for and
  takes none away (`UploadsAdd`), and that layers share none (`LayersAreDisjoint`).

### `Program_proofs`

* `AcceptedArePolled`, `WholePromptAnswered`: `ConnectionInv` says that `fds` names
  each accepted client once, that what a poll found and the request in hand are about
  clients in it, and that a completion is generated only for a body that is there.
* `ImplementsService`: `ServiceInv` adds the bound on accepted clients (`LimitInv`: at most
  `MAX_CLIENTS` when Run polls, one more between an accept and `Trim`) and that nobody is
  answered before it is closed (`AnswerInv`). `Outcome` says that what becomes of a request
  is a right answer, no answer, or a generation for a model that is there; `ServiceStep`
  maps each step of the program to one of `WebService` or a stutter. For any clients
  and any `MAX_CLIENTS` above zero.
* `EngineQuiet`: `ThreadInv` says it of every state in which `main` is not serving or
  joining, so that it is there before `main` takes anything down.
* `NoWayBack`: `MeshInv` says of each call under way that whoever relayed it is, by name,
  among those asked, and that the one it is sent to is none of those (`CallOk`); and of
  each thread that what it still has to ask is none of those either. For any number of
  agents, any hop limit and calls given up at any moment.

### `SetsAndQueues`

Finite sets and sums over them, and the queues that `RemoveFirst`, `SelectSeq` and
`Tail` make. The library's induction takes an operator as a parameter, which the
provers cannot instantiate. Instead a claim about sets is proved by a smallest counterexample:
among the subsets of a finite set for which the claim fails one is smallest by
inclusion, and the claim holds for it less an element. So the sum over a set is
defined by what it does (`Adds`), shown to exist and to be unique, and then to be
what the community module's fold returns.

### Only model-checked

* Liveness (`RequestCompletes`, `CallsReturn`, `WaitsReturn`, `ServedOrClosed`,
  `SignalEnds`, `AgentsQuiet`) and everything about fairness and ENABLED, which the
  prover cannot do.
* That the properties of section 7 fail, which needs a counterexample and not a proof.


## 7. Where code and text part

Each has a run that TLC finds violated:

| Run | Text | Code |
|---|---|---|
| prompt_order | "Push generated token back as next input" (`vulkan_compute_engine.cpp:751`) | it is appended behind the rest of the prompt |
| own_token | the same line, "Round-robin sequence selection" (`:495`) | the sequence changes with each call, the pass does not |
| fresh_request | "Reset engine state for new sequence" (`inference_runner.cpp:77`) | the KV lengths of the last request stay |
| attention_output | "Each thread handles hd/32 elements of Q/K/V" (`flash_attention.comp:12`) | each thread takes a row of its own and writes a part of it |
| partial_layer | "Lazy-load the weights for this layer before any dispatch uses them" (`vulkan_compute_engine.cpp:539`) | one uploaded tensor marks the layer as loaded |
| new_token | "true if a new token was generated" (`inference_runner.hpp:72`) | a second `Prime` or `Generate` of the same model, without `Reset`, is first answered with the last token of the request before |
| device_last | "Destroy Vulkan resources before ctx.cleanup()" (`main.cpp:628`) | `Reset` resets the phase; the engine's objects live until the runner goes out of scope, after `ctx.cleanup()` |

Others were found by TLC while the modules were written, and have no run now:

* `vulkan_compute_engine.cpp:495`, "round-robin": a sequence can be passed over
  for as long as others come and go, because the index counts into a list that is
  rebuilt in each call.
* `inference_runner.hpp:45`, Reset "clears sequences": it resets the phase.
* `ring_allocator_adapter.cpp:42`, buffers are "overwritten when the ring wraps":
  the TRANSIENT ring does not wrap, it fails.
* `kv_cache_write.comp:45`, "max sequence length (defines per-head stride)": positions
  count in whole tiles of 32, so with a `--ctx-size` that is no multiple of 32, which
  nothing rounds or refuses, the last tile of a head begins below the stride and ends
  above it. What is written there for one head overwrites the first positions of the
  next; that of the last head ends behind the buffer, whose size (`rdna4_kv_cache.hpp:9`)
  counts positions. The proof of `RowsKept` showed it: without `InStride` it fails.
* `flash_attention.comp:15` gives a layout with heads; the reader uses head 0 for
  all of them. With a number of heads that is no multiple of 32 and a cache longer
  than that, threads write behind `scratch_attn_`.
* `weight_uploader.cpp:1196`, "all weights on GPU": also with deferred layers,
  which then have no source any more.
* `multi_model_manager.cpp:303`, weights "are freed when the adapter is
  destroyed": neither the adapter nor the uploader frees them.
* `memory_tier.hpp:82`, GetLayerBuffer "auto-promotes from lower tiers": it locks
  `mutex_` and calls `PromoteToVRAM`, which locks it again. The same holds for
  `LoadLayerToVRAM`, `OffloadLayerToRAM`, a promotion from disk and a spill from
  VRAM. The build has no caller of any of them.
* `DoCompletion` uses the model the request names, or the first one, and never asks
  the router. `HandleTokenize` answers 200 to a request without a body.
* A failing `poll` ends the thread of the server and leaves `running_` set.
* A failed `ctx.init` leaves its instance. The transfer queue is created and never
  fetched.
* `gguf_quantization.cpp`: the encoder of Q5_K keeps the scale of even and the
  minimum of odd sub-blocks only, and its decoder expects another layout; Q4_0
  pairs neighbours. `CreateQuantization` has no callers. In `weight_uploader.cpp`
  the decoder of Q3_K reads the same 16 bytes for each sub-block, and that of Q2_K
  blocks of 80 bytes where `getBlockSize` says 84.
* `RunGlslc` writes paths with backslashes on every system, so only a system that
  takes them finds its files; elsewhere the installed SPIR-V is used.
* Reading several lines of input (`main.cpp:84-92`) never ends at the end of the
  input.


## 8. Left out

* The half-made state of `EnsureResources` (`vulkan_compute_engine.cpp:171`): it asks only
  for the command pool, so when making the command buffer or the fence fails the next
  call returns true without them. A model that would have this as a state could only
  restate the test of one pointer, so it is a hazard in `PROJECT.json` without a
  property. `ComputeEngine` has an `AddSequence` that fails for want of resources
  (`NoResources`); that `StepBatch` asks again (line 468) changes nothing after one that did
  not.
* In `TOPK` a null `topk_output_mapped_` would give the token 0 (lines 730-749). With it
  mapped, zero is replaced, so that token ids exclude it; `Generate`'s stop at a
  `last_token_` of zero (`inference_runner.cpp:128-131`) is not reached then. The limit of
  100000 steps in `RunUntilToken` is not reached either: a pass has some twenty steps
  for each layer.
* `HandleRequest` reads 65535 bytes at most (`web_server.cpp:267-273`), so a longer body counts
  as far as it goes, like one that has not arrived. `send` is not repeated (line 304): what a
  client gets of a long answer is not modelled, only that it was answered. Keys (401) and
  the routes under /agent/, which are in `AgentMesh`, are not in `WebServer`.
* An agent returns early with a peer's answer when its confidence is above 0.3
  (`agent_node.cpp:393`). An agent of this program answers with 0.1 (line 409), or 0 at the
  hop limit (369), so the early return takes a peer of another program.
* The mixture-of-experts branch: no code sets `layer_is_moe_`.
* The arithmetic of the kernels. In particular `flash_attention` compares
  positions with the number of the head (its row) in the mask and adds over the
  threads of a subgroup that hold different rows; `FlashAttention` models which
  elements are read and written, not what the sums are.
* Numbers of dispatches per step, profiling, logging and `tokens_generated_`.
* What is in texts: prompts beyond their class, JSON beyond whether it parses, the
  patterns of the router, names and paths beyond whether two are the same.
* Rounding in the quantisation, and the decoders of Q2_K, Q3_K and Q5_K.
* Adding and removing peers at run time, logs, files and the creation of models by
  an agent; the input of an interactive user.
* `ComputeVRAMLayout` and statistics, which change no state.
* The components marked `not_modelled` in `PROJECT.json`, with the reason there.
