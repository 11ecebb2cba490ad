---------------------------- MODULE ComputeEngine ----------------------------
(***************************************************************************)
(* notllama::VulkanComputeEngine: the forward pass of a decoder model, one *)
(* kernel per call of StepBatch, together with the KVCacheManager and the  *)
(* TRANSIENT ring it writes into.                                          *)
(*                                                                         *)
(* The engine keeps ONE phase counter, ONE layer counter and ONE set of    *)
(* scratch buffers, whatever the number of active sequences.  What matters *)
(* about a buffer is where its contents came from, so a content is         *)
(* abstracted to the set of jobs it depends on: job <<r, p>> is the input  *)
(* token at position p of the r-th request given to AddSequence.           *)
(*                                                                         *)
(* A kernel is taken at what StepBatch uses it for: it computes the whole  *)
(* of the buffer it writes from the whole of those it reads, and from all  *)
(* the weights of a layer that counts as streamed.  Whether two of the     *)
(* shaders do so is asked in KvCacheWrite and FlashAttention, what happens *)
(* when only a part of a layer was uploaded in WeightStreaming.            *)
(***************************************************************************)
EXTENDS Naturals, Sequences, FiniteSets

CONSTANTS
  SeqIds,        \* sequence identifiers
  NLayers,       \* n_layers_
  MaxSeqLen,     \* max_seq_len_, rows of the K and V buffers of a layer
  TokenIds,      \* the ids TOPK may sample; 0 is never one of them
  ScratchUnits,  \* TRANSIENT ring units taken by the scratch buffers
  RingUnits      \* capacity of the TRANSIENT ring; a hidden state takes one

ASSUME EngineAssumption ==
  /\ SeqIds \subseteq Nat
  /\ NLayers \in Nat \ {0}
  /\ MaxSeqLen \in Nat \ {0}
  /\ TokenIds \subseteq Nat \ {0} /\ TokenIds # {}
  /\ ScratchUnits \in Nat /\ RingUnits \in Nat

VARIABLES
  phase,      \* step_phase_
  layer,      \* current_layer_
  seqs,       \* sequences_: active id -> [req, tokens, position]
  order,      \* the order in which the unordered_map lists the active ids
  hidden,     \* contents of each sequence's hidden_state buffer
  nextIdx,    \* next_seq_index_
  lastToken,  \* last_token_id_
  buf,        \* contents of the scratch buffers
  kvLen,      \* KVCacheBuffer::currentSeqLen of each layer
  kvRow,      \* contents of each row of each layer's K and V buffers
  kvOob,      \* a row outside the K and V buffers has been written
  loaded,     \* layers of which ReloadLayerWeights uploaded something
  scratch,    \* scratch_allocated_
  ringFree,   \* units left in the TRANSIENT ring
  device,     \* "ok", or "lost" once a wait has reported VK_ERROR_DEVICE_LOST
  requests,   \* how many sequences have been added
  ok          \* what the last call returned

vars == <<phase, layer, seqs, order, hidden, nextIdx, lastToken, buf, kvLen, kvRow,
          kvOob, loaded, scratch, ringFree, device, requests, ok>>

-----------------------------------------------------------------------------
Layers  == 0 .. NLayers - 1
Rows    == 0 .. MaxSeqLen - 1
Scratch == {"norm", "q", "k", "v", "attn", "ffn", "gate", "logits"}

Garbage   == <<0, 0>>       \* the origin of memory nobody has written
Job(s)    == <<seqs[s].req, seqs[s].position>>
Prefix(r, n) == {<<r, p>> : p \in 0 .. n - 1}

\* An input token carries no provenance; a sampled one, the jobs behind it.
Token(t, S) == [id |-> t, basis |-> S]

Outcomes == {"done", "refused", "lost"}

(***************************************************************************)
(* The kernels of the per-layer loop that only move data between buffers:  *)
(* what a kernel reads, what it writes and the phase it hands over to.     *)
(* Only DispatchGemm looks at the result of vkWaitForFences.               *)
(***************************************************************************)
DispatchRmsNorm(in, out, next) ==
  [reads |-> {in}, writes |-> out, next |-> next, checksWait |-> FALSE]

DispatchGemm(in, out, next) ==
  [reads |-> {in}, writes |-> out, next |-> next, checksWait |-> TRUE]

DispatchSiluMul(gate, up, out, next) ==
  [reads |-> {gate, up}, writes |-> out, next |-> next, checksWait |-> FALSE]

DispatchAdd(a, b, out, next) ==
  [reads |-> {a, b}, writes |-> out, next |-> next, checksWait |-> FALSE]

Kernel ==
  [LAYER_RMS_ATTN      |-> DispatchRmsNorm("hidden", "norm", "LAYER_QKV_Q"),
   LAYER_QKV_Q         |-> DispatchGemm("norm", "q", "LAYER_QKV_K"),
   LAYER_QKV_K         |-> DispatchGemm("norm", "k", "LAYER_QKV_V"),
   LAYER_QKV_V         |-> DispatchGemm("norm", "v", "LAYER_ROPE"),
   LAYER_ATTN_OUT      |-> DispatchGemm("attn", "norm", "LAYER_ATTN_RESIDUAL"),
   LAYER_ATTN_RESIDUAL |-> DispatchAdd("hidden", "norm", "hidden", "LAYER_RMS_FFN"),
   LAYER_RMS_FFN       |-> DispatchRmsNorm("hidden", "norm", "LAYER_FFN_UP"),
   LAYER_FFN_UP        |-> DispatchGemm("norm", "ffn", "LAYER_FFN_GATE"),
   LAYER_FFN_GATE      |-> DispatchGemm("norm", "gate", "LAYER_SILU_MUL"),
   LAYER_SILU_MUL      |-> DispatchSiluMul("gate", "ffn", "ffn", "LAYER_FFN_DOWN"),
   LAYER_FFN_DOWN      |-> DispatchGemm("ffn", "norm", "LAYER_FFN_RESIDUAL"),
   LAYER_FFN_RESIDUAL  |-> DispatchAdd("hidden", "norm", "hidden", "LAYER_NEXT")]

LayerPhases == DOMAIN Kernel \cup
  {"LAYER_ROPE", "LAYER_KV_CACHE_WRITE", "LAYER_FLASH_ATTN", "LAYER_NEXT"}

Phases == LayerPhases \cup
  {"VALIDATE", "LOAD_WEIGHTS", "IDLE", "EMBED", "LM_HEAD", "TOPK"}

-----------------------------------------------------------------------------
(* A fresh engine on a KV cache that has just been allocated.  The first   *)
(* gpu_layers layers were streamed when the model was loaded.              *)
Init ==
  /\ phase = "VALIDATE" /\ layer = 0
  /\ seqs = << >> /\ order = << >>
  /\ hidden = [s \in SeqIds |-> {Garbage}]
  /\ nextIdx = 0 /\ lastToken = 0
  /\ buf = [b \in Scratch |-> {Garbage}]
  /\ kvLen = [l \in Layers |-> 0]
  /\ kvRow = [l \in Layers |-> [p \in Rows |-> {Garbage}]]
  /\ kvOob = FALSE
  /\ \E n \in 0 .. NLayers : loaded = 0 .. n - 1
  /\ scratch = FALSE /\ ringFree = RingUnits
  /\ device = "ok" /\ requests = 0 /\ ok = TRUE

(* The C++ standard leaves open where a new key is listed.                 *)
Listed(s) ==
  \E k \in 0 .. Len(order) :
    order' = SubSeq(order, 1, k) \o <<s>> \o SubSeq(order, k + 1, Len(order))

(* EnsureResources makes the Vulkan objects of a new engine at the first   *)
(* call that needs them, and at the next one if that failed.  An engine    *)
(* with a sequence, or past its first phase, has them.                     *)
NoResources == phase = "VALIDATE" /\ seqs = << >>

(* The hidden state comes from the TRANSIENT ring, which fails when it is  *)
(* full.  Re-using an id overwrites the entry; nothing is given back.      *)
AddSequence(s, n) ==
  /\ \/ /\ ringFree = 0 \/ NoResources
        /\ ok' = FALSE
        /\ UNCHANGED <<seqs, order, hidden, ringFree, requests>>
     \/ /\ ringFree > 0
        /\ ok' = TRUE
        /\ requests' = requests + 1
        /\ ringFree' = ringFree - 1
        /\ hidden' = [hidden EXCEPT ![s] = {Garbage}]
        /\ seqs' = [t \in DOMAIN seqs \cup {s} |->
                      IF t = s
                      THEN [req      |-> requests + 1,
                            tokens   |-> [i \in 1 .. n |-> Token(0, {})],
                            position |-> 0]
                      ELSE seqs[t]]
        /\ IF s \in DOMAIN seqs THEN UNCHANGED order ELSE Listed(s)
  /\ UNCHANGED <<phase, layer, nextIdx, lastToken, buf, kvLen, kvRow, kvOob,
                 loaded, scratch, device>>

(* Mutant: Free gives the hidden state back to the ring.                   *)
RemoveSequenceFrees(s) ==
  /\ s \in DOMAIN seqs
  /\ seqs' = [t \in DOMAIN seqs \ {s} |-> seqs[t]]
  /\ order' = SelectSeq(order, LAMBDA t : t # s)
  /\ ringFree' = ringFree + 1
  /\ ok' = TRUE
  /\ UNCHANGED <<phase, layer, hidden, nextIdx, lastToken, buf, kvLen, kvRow,
                 kvOob, loaded, scratch, device, requests>>

(* allocator_->Free(TRANSIENT, ...) does nothing, so ringFree stays.       *)
RemoveSequence(s) ==
  /\ s \in DOMAIN seqs
  /\ seqs' = [t \in DOMAIN seqs \ {s} |-> seqs[t]]
  /\ order' = SelectSeq(order, LAMBDA t : t # s)
  /\ ok' = TRUE
  /\ UNCHANGED <<phase, layer, hidden, nextIdx, lastToken, buf, kvLen, kvRow,
                 kvOob, loaded, scratch, ringFree, device, requests>>

(* Only the phase is reset: sequences, layer, last token and KV lengths    *)
(* keep their values.                                                      *)
ResetExecutionEngine ==
  /\ phase' = "VALIDATE"
  /\ ok' = TRUE
  /\ UNCHANGED <<layer, seqs, order, hidden, nextIdx, lastToken, buf, kvLen,
                 kvRow, kvOob, loaded, scratch, ringFree, device, requests>>

-----------------------------------------------------------------------------
(* StepBatch.                                                              *)

(* ValidateRmsNormDispatch on buffers of its own; a lost device shows up   *)
(* as a mismatch.  "refused" is also EnsureResources, at the top of every  *)
(* StepBatch: once it has worked it never fails, so it can only fail here. *)
Validate ==
  /\ phase = "VALIDATE"
  /\ \E o \in Outcomes :
       /\ device = "lost" => o = "refused"
       /\ device' = IF o = "lost" THEN "lost" ELSE device
       /\ ok' = (o = "done")
       /\ phase' = IF o = "done" THEN "LOAD_WEIGHTS" ELSE phase
  /\ UNCHANGED <<layer, seqs, order, hidden, nextIdx, lastToken, buf, kvLen,
                 kvRow, kvOob, loaded, scratch, ringFree, requests>>

(* AllocScratchBuffers takes its buffers one after the other; when one     *)
(* does not fit, those that did stay allocated in the ring.                *)
LoadWeights ==
  /\ phase = "LOAD_WEIGHTS"
  /\ IF scratch \/ ringFree >= ScratchUnits
     THEN /\ ok' = TRUE /\ phase' = "IDLE" /\ scratch' = TRUE
          /\ ringFree' = IF scratch THEN ringFree ELSE ringFree - ScratchUnits
     ELSE /\ ok' = FALSE /\ ringFree' \in 0 .. ringFree
          /\ UNCHANGED <<phase, scratch>>
  /\ UNCHANGED <<layer, seqs, order, hidden, nextIdx, lastToken, buf, kvLen,
                 kvRow, kvOob, loaded, device, requests>>

(* Mutant: the last token of the prompt is not an input.                   *)
PendingBeforeLast == {s \in DOMAIN seqs : seqs[s].position + 1 < Len(seqs[s].tokens)}

(* Every later call picks the sequence it works for afresh.                *)
Pending == {s \in DOMAIN seqs : seqs[s].position < Len(seqs[s].tokens)}
Index   == IF nextIdx >= Cardinality(Pending) THEN 0 ELSE nextIdx
Turn(s) == /\ s \in Pending
           /\ \E i \in DOMAIN order :
                order[i] = s /\
                Cardinality({j \in 1 .. i - 1 : order[j] \in Pending}) = Index
           /\ nextIdx' = (Index + 1) % Cardinality(Pending)

NothingPending ==
  /\ phase \notin {"VALIDATE", "LOAD_WEIGHTS"}
  /\ Pending = {}
  /\ ok' = FALSE
  /\ UNCHANGED <<phase, layer, seqs, order, hidden, nextIdx, lastToken, buf,
                 kvLen, kvRow, kvOob, loaded, scratch, ringFree, device,
                 requests>>

(* Mutant: a submission to a lost device may succeed.                      *)
SubmitUnchecked(o) == device' = IF o = "lost" THEN "lost" ELSE device

(* One submission and its wait.  "refused": no pipeline, a null address or *)
(* vkQueueSubmit failed, nothing ran.  "lost": the wait failed, and what   *)
(* the kernel was to write is unknown.                                     *)
Submit(o) ==
  /\ device = "lost" => o = "refused"
  /\ device' = IF o = "lost" THEN "lost" ELSE device

Written(S, o) == IF o = "lost" THEN {Garbage} ELSE S

(* Mutant: the layer is reset by the pass that ends, not by the next one.  *)
FirstLayerKept == IF layer = NLayers THEN 0 ELSE layer
FirstLayer     == IF phase = "IDLE" THEN 0 ELSE layer

DispatchEmbed(s, o) ==
  /\ phase \in {"IDLE", "EMBED"}
  /\ Submit(o)
  /\ layer' = FirstLayer
  /\ phase' = IF o = "refused" THEN "EMBED" ELSE "LAYER_RMS_ATTN"
  /\ hidden' = IF o = "refused" THEN hidden
               ELSE [hidden EXCEPT ![s] = Written({Job(s)}, o)]
  /\ ok' = (o # "refused")
  /\ UNCHANGED <<seqs, order, lastToken, buf, kvLen, kvRow, kvOob, loaded,
                 scratch, ringFree, requests>>

(* Mutant: the engine, not the layer, remembers that weights were streamed.*)
EnsureAnyWeights ==
  /\ phase \in LayerPhases
  /\ loaded' = IF loaded = {} THEN {layer} ELSE loaded

(* A layer of which anything was streamed is never streamed again.  A GEMM *)
(* on a weight that is missing is among the dispatches that are refused;   *)
(* DispatchRmsNorm does not look at the address of its weights, and what a *)
(* layer computes without them is left out of this module.                 *)
EnsureLayerWeights ==
  /\ phase \in LayerPhases
  /\ loaded' = loaded \cup {layer}

StreamingFails ==
  /\ phase \in LayerPhases
  /\ layer \notin loaded
  /\ ok' = FALSE
  /\ UNCHANGED <<phase, layer, seqs, order, hidden, lastToken, buf, kvLen,
                 kvRow, kvOob, loaded, scratch, ringFree, device, requests>>

(* What a kernel of the current layer computes from the contents S.        *)
Computed(S, o) == Written(IF layer \in loaded' THEN S ELSE S \cup {Garbage}, o)

Contents(s, b) == IF b = "hidden" THEN hidden[s] ELSE buf[b]

LayerKernel(s, o) ==
  /\ phase \in DOMAIN Kernel
  /\ EnsureLayerWeights
  /\ Submit(o)
  /\ LET k   == Kernel[phase]
         out == Computed(UNION {Contents(s, b) : b \in k.reads}, o)
         go  == o = "done" \/ (o = "lost" /\ ~k.checksWait)
     IN /\ hidden' = IF o # "refused" /\ k.writes = "hidden"
                     THEN [hidden EXCEPT ![s] = out] ELSE hidden
        /\ buf' = IF o # "refused" /\ k.writes \in Scratch
                  THEN [buf EXCEPT ![k.writes] = out] ELSE buf
        /\ phase' = IF go THEN k.next ELSE phase
        /\ ok' = go
  /\ UNCHANGED <<layer, seqs, order, lastToken, kvLen, kvRow, kvOob, scratch,
                 ringFree, requests>>

(* ROPE rotates q and k in place by the position of the chosen sequence.   *)
DispatchRope(s, o) ==
  /\ phase = "LAYER_ROPE"
  /\ EnsureLayerWeights
  /\ Submit(o)
  /\ buf' = IF o = "refused" THEN buf
            ELSE [buf EXCEPT !.q = Computed(@ \cup {Job(s)}, o),
                             !.k = Computed(@ \cup {Job(s)}, o)]
  /\ phase' = IF o = "refused" THEN phase ELSE "LAYER_KV_CACHE_WRITE"
  /\ ok' = (o # "refused")
  /\ UNCHANGED <<layer, seqs, order, hidden, lastToken, kvLen, kvRow, kvOob,
                 scratch, ringFree, requests>>

(* The row written is seq->position, which nothing compares with           *)
(* max_seq_len_; the length of the layer grows by one.                     *)
DispatchKvCacheWrite(s, o) ==
  /\ phase = "LAYER_KV_CACHE_WRITE"
  /\ EnsureLayerWeights
  /\ Submit(o)
  /\ LET p == seqs[s].position
     IN /\ kvRow' = IF o # "refused" /\ p \in Rows
                    THEN [kvRow EXCEPT ![layer][p] =
                            Computed(buf.k \cup buf.v, o)]
                    ELSE kvRow
        /\ kvOob' = (kvOob \/ (o # "refused" /\ p \notin Rows))
  /\ kvLen' = IF o = "refused" THEN kvLen
              ELSE [kvLen EXCEPT ![layer] = @ + 1]
  /\ phase' = IF o = "refused" THEN phase ELSE "LAYER_FLASH_ATTN"
  /\ ok' = (o # "refused")
  /\ UNCHANGED <<layer, seqs, order, hidden, lastToken, buf, scratch,
                 ringFree, requests>>

(* Mutant: attention is given max_seq_len_ instead of the length so far.   *)
AttendedAllRows == UNION {kvRow[layer][p] : p \in Rows}

(* Attention reads q and the first kvLen rows of the layer, whoever wrote  *)
(* them.                                                                   *)
Attended == UNION {IF p \in Rows THEN kvRow[layer][p] ELSE {Garbage} :
                     p \in 0 .. kvLen[layer] - 1}

DispatchFlashAttn(s, o) ==
  /\ phase = "LAYER_FLASH_ATTN"
  /\ EnsureLayerWeights
  /\ Submit(o)
  /\ buf' = IF o = "refused" THEN buf
            ELSE [buf EXCEPT !.attn = Computed(buf.q \cup Attended, o)]
  /\ phase' = IF o = "refused" THEN phase ELSE "LAYER_ATTN_OUT"
  /\ ok' = (o # "refused")
  /\ UNCHANGED <<layer, seqs, order, hidden, lastToken, kvLen, kvRow, kvOob,
                 scratch, ringFree, requests>>

(* Mutants: the last layer is left out, or there is one layer too many.    *)
AfterLayerSkipsLast == IF layer + 2 < NLayers THEN "LAYER_RMS_ATTN" ELSE "LM_HEAD"
AfterLayerOnceMore  == IF layer < NLayers THEN "LAYER_RMS_ATTN" ELSE "LM_HEAD"
AfterLayer          == IF layer + 1 < NLayers THEN "LAYER_RMS_ATTN" ELSE "LM_HEAD"

LayerNext ==
  /\ phase = "LAYER_NEXT"
  /\ EnsureLayerWeights
  /\ layer' = layer + 1
  /\ phase' = AfterLayer
  /\ ok' = TRUE
  /\ UNCHANGED <<seqs, order, hidden, lastToken, buf, kvLen, kvRow, kvOob,
                 scratch, ringFree, device, requests>>

(* A DispatchGemm outside the layer loop: no weights to stream.            *)
LmHead(s, o) ==
  /\ phase = "LM_HEAD"
  /\ Submit(o)
  /\ buf' = IF o = "refused" THEN buf
            ELSE [buf EXCEPT !.logits = Written(hidden[s], o)]
  /\ phase' = IF o = "done" THEN "TOPK" ELSE phase
  /\ ok' = (o = "done")
  /\ UNCHANGED <<layer, seqs, order, hidden, lastToken, kvLen, kvRow, kvOob,
                 loaded, scratch, ringFree, requests>>

(* The token goes to the sequence chosen by THIS call: it is appended to   *)
(* its tokens and its position moves on by one.  A sampled zero never gets *)
(* there: it is replaced, the output buffer being mapped.                  *)
TopK(s, o, t) ==
  /\ phase = "TOPK"
  /\ Submit(o)
  /\ IF o = "refused"
     THEN UNCHANGED <<phase, seqs, lastToken>>
     ELSE /\ seqs' = [seqs EXCEPT
                        ![s].tokens = Append(@, Token(t, Written(buf.logits, o))),
                        ![s].position = @ + 1]
          /\ lastToken' = t
          /\ phase' = "IDLE"
  /\ ok' = (o # "refused")
  /\ UNCHANGED <<layer, order, hidden, buf, kvLen, kvRow, kvOob, loaded,
                 scratch, ringFree, requests>>

DecodeStep(s) ==
  /\ Turn(s)
  /\ \/ StreamingFails
     \/ LayerNext
     \/ \E o \in Outcomes :
          \/ DispatchEmbed(s, o)
          \/ LayerKernel(s, o)
          \/ DispatchRope(s, o)
          \/ DispatchKvCacheWrite(s, o)
          \/ DispatchFlashAttn(s, o)
          \/ LmHead(s, o)
          \/ \E t \in TokenIds : TopK(s, o, t)

StepBatch ==
  \/ Validate
  \/ LoadWeights
  \/ NothingPending
  \/ \E s \in SeqIds : DecodeStep(s)
=============================================================================
