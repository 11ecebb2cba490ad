----------------------------- MODULE SoloRequest -----------------------------
(***************************************************************************)
(* A process that decodes one request: RunSingleShot of main.cpp calls     *)
(* InferenceRunner::Generate once, on an engine and a KV cache nobody has  *)
(* used.  Prime adds sequence 0; the loop of Generate then calls StepBatch *)
(* until MaxNew tokens are there.  Generate gives up at the first call     *)
(* that returns false; the steps below also let it be repeated, which is   *)
(* what a caller of GenerateOne, the other way to get tokens, may do.      *)
(***************************************************************************)
EXTENDS ComputeEngine

CONSTANTS MaxPrompt,  \* bound on the length of the prompt
          MaxNew      \* max_new_tokens

ASSUME SoloAssumption ==
  /\ 0 \in SeqIds
  /\ MaxPrompt \in Nat \ {0}
  /\ MaxNew \in Nat

(* The tokens asked for have room in the KV cache.  No caller checks it;   *)
(* the theorems name it where they need it.                                *)
Fits == MaxNew <= MaxSeqLen

Prime ==
  /\ requests = 0
  /\ \E n \in 1 .. MaxPrompt : AddSequence(0, n)

(* Mutant: the loop of Generate runs once too often.                       *)
StepOnceMore ==
  /\ 0 \in DOMAIN seqs
  /\ seqs[0].position <= MaxNew
  /\ StepBatch

Step ==
  /\ 0 \in DOMAIN seqs
  /\ seqs[0].position < MaxNew
  /\ StepBatch

SoloNext == Prime \/ Step

SoloSpec == Init /\ [][SoloNext]_vars

-----------------------------------------------------------------------------
TypeOK ==
  /\ phase \in Phases
  /\ layer \in 0 .. NLayers
  /\ DOMAIN seqs \subseteq {0}
  /\ 0 \in DOMAIN seqs =>
       seqs[0] \in [req      : {1},
                    tokens   : Seq([id : TokenIds \cup {0},
                                    basis : SUBSET (Nat \X Nat)]),
                    position : 0 .. MaxNew]
  /\ hidden \in [SeqIds -> SUBSET (Nat \X Nat)]
  /\ nextIdx = 0
  /\ lastToken \in TokenIds \cup {0}
  /\ buf \in [Scratch -> SUBSET (Nat \X Nat)]
  /\ kvLen \in [Layers -> Nat]
  /\ kvRow \in [Layers -> [Rows -> SUBSET (Nat \X Nat)]]
  /\ kvOob \in BOOLEAN
  /\ loaded \subseteq Layers
  /\ scratch \in BOOLEAN
  /\ ringFree \in 0 .. RingUnits
  /\ device \in {"ok", "lost"}
  /\ requests \in {0, 1}
  /\ ok \in BOOLEAN

(* The tokens sampled so far: those after the prompt.                      *)
Sampled == {i \in DOMAIN seqs[0].tokens :
              i > Len(seqs[0].tokens) - seqs[0].position}

(* Every token the engine samples is computed from exactly the inputs at   *)
(* the positions it has processed, 0 .. j for the (j+1)-st token: no       *)
(* position is skipped, attended twice from another pass, or read from     *)
(* memory nobody wrote, whatever dispatches were refused and repeated on   *)
(* the way.  (Once the device is lost the results are unknown.)            *)
SampledFromPrefix ==
  (device = "ok" /\ 0 \in DOMAIN seqs) =>
    \A i \in Sampled :
      seqs[0].tokens[i].basis =
        Prefix(1, i - (Len(seqs[0].tokens) - seqs[0].position))

(* A row of the KV cache is never written outside the allocated buffers.   *)
KvInBounds == ~kvOob

(* After a lost device no further token is reported: the loss is noticed   *)
(* at the next submission, although most waits ignore it.                  *)
NoTokenAfterLoss == [][device = "lost" => UNCHANGED seqs]_vars

(* The token pushed back by TOPK is the next input of its sequence.        *)
PushedIsNextInput ==
  (phase = "IDLE" /\ 0 \in DOMAIN seqs /\ seqs[0].position > 0) =>
    seqs[0].position + 1 = Len(seqs[0].tokens)

-----------------------------------------------------------------------------
(* Generate goes on as long as the last call returned true, and no longer. *)
GenerateGoesOn == ok /\ Step

FairSoloSpec == SoloSpec /\ WF_vars(GenerateGoesOn)

(* The last call failed on its way: the check of the device, a buffer, the *)
(* weights or a dispatch.  A call that finds no input fails when IDLE.     *)
Refused == ~ok /\ phase # "IDLE"

(* A request that is added and not refused gets its MaxNew tokens from the *)
(* loop of Generate, which repeats no call that failed: every pass comes   *)
(* through its phases and layers to TOPK, and the next one always finds an *)
(* input.                                                                  *)
RequestCompletes ==
  ([]~Refused) =>
    (0 \in DOMAIN seqs ~> (0 \in DOMAIN seqs /\ seqs[0].position = MaxNew))
-----------------------------------------------------------------------------
(* The inductive invariant behind SampledFromPrefix: where the pass stands *)
(* (Control), what the cache holds of the passes before and of this one    *)
(* (Cache), and, phase by phase, which buffers hold something computed     *)
(* from the current input and nothing later (Buffers).                     *)
Pos     == seqs[0].position
Current == Prefix(1, Pos + 1)

Fresh(S) == <<1, Pos>> \in S /\ S \subseteq Current

BeforeWrite == {"LAYER_RMS_ATTN", "LAYER_QKV_Q", "LAYER_QKV_K", "LAYER_QKV_V",
                "LAYER_ROPE", "LAYER_KV_CACHE_WRITE"}
AfterWrite  == LayerPhases \ BeforeWrite
InPass      == phase \in LayerPhases \cup {"LM_HEAD", "TOPK"}

Control ==
  /\ phase \in LayerPhases => layer \in Layers
  /\ phase \in {"LM_HEAD", "TOPK"} => layer = NLayers
  /\ phase = "EMBED" => layer = 0
  /\ requests = 0 <=> 0 \notin DOMAIN seqs
  /\ 0 \notin DOMAIN seqs =>
       phase = "VALIDATE" /\ device = "ok" /\ \A l \in Layers : kvLen[l] = 0
  /\ 0 \in DOMAIN seqs => Pos < Len(seqs[0].tokens)
  /\ ~kvOob

Appended(l) == InPass /\ (l < layer \/ (l = layer /\ phase \in AfterWrite))

Cache ==
  \A l \in Layers :
    /\ kvLen[l] = IF Appended(l) THEN Pos + 1 ELSE Pos
    /\ \A p \in Rows : p < kvLen[l] =>
         <<1, p>> \in kvRow[l][p] /\ kvRow[l][p] \subseteq Prefix(1, p + 1)

Buffers ==
  /\ phase \in BeforeWrite \cup {"LAYER_FLASH_ATTN", "LAYER_ATTN_OUT",
                                  "LAYER_ATTN_RESIDUAL"} => Fresh(hidden[0])
  /\ phase \in {"LAYER_QKV_Q", "LAYER_QKV_K", "LAYER_QKV_V"} => Fresh(buf.norm)
  /\ phase \in {"LAYER_QKV_K", "LAYER_QKV_V", "LAYER_ROPE",
                "LAYER_KV_CACHE_WRITE", "LAYER_FLASH_ATTN"} => Fresh(buf.q)
  /\ phase \in {"LAYER_QKV_V", "LAYER_ROPE", "LAYER_KV_CACHE_WRITE"} => Fresh(buf.k)
  /\ phase \in {"LAYER_ROPE", "LAYER_KV_CACHE_WRITE"} => Fresh(buf.v)
  /\ phase = "LAYER_ATTN_OUT" => buf.attn = Current
  /\ phase = "LAYER_ATTN_RESIDUAL" => buf.norm = Current
  /\ phase \in (AfterWrite \cup {"LM_HEAD"}) \ {"LAYER_FLASH_ATTN",
             "LAYER_ATTN_OUT", "LAYER_ATTN_RESIDUAL"} => hidden[0] = Current
  /\ phase \in {"LAYER_FFN_UP", "LAYER_FFN_GATE", "LAYER_FFN_RESIDUAL"} =>
       Fresh(buf.norm)
  /\ phase \in {"LAYER_FFN_GATE", "LAYER_SILU_MUL", "LAYER_FFN_DOWN"} =>
       Fresh(buf.ffn)
  /\ phase = "LAYER_SILU_MUL" => Fresh(buf.gate)
  /\ phase = "TOPK" => buf.logits = Current

SoloInv ==
  /\ Control
  /\ SampledFromPrefix
  /\ (device = "ok" /\ 0 \in DOMAIN seqs) => Cache /\ Buffers
-----------------------------------------------------------------------------
(* What has been sampled for the request, as its caller sees it.           *)
Produced ==
  IF 0 \in DOMAIN seqs
  THEN [i \in 1 .. Pos |-> seqs[0].tokens[Len(seqs[0].tokens) - Pos + i]]
  ELSE << >>

Promised == INSTANCE Decoder
  WITH Ids <- TokenIds, Limit <- MaxNew, open <- 0 \in DOMAIN seqs,
       produced <- Produced, alive <- device = "ok"

(* All the phases of StepBatch, with everything that is refused and        *)
(* repeated between them, amount to a decoder that emits a token at a time *)
(* and never touches one it has emitted.                                   *)
ImplementsDecoder == Promised!Spec
=============================================================================
