---------------------------- MODULE EngineSharing ----------------------------
(***************************************************************************)
(* VulkanComputeEngine as its public interface lets it be used: sequences  *)
(* are added and removed, and the engine reset, between any two calls of   *)
(* StepBatch.  The sequences share the phase, the layer, the scratch       *)
(* buffers and the KV cache, and every call works for the sequence whose   *)
(* turn it is, whatever the pass in progress was started for.              *)
(***************************************************************************)
EXTENDS ComputeEngine, Functions

CONSTANTS MaxPrompt,    \* bound on the tokens a sequence is added with
          MaxRequests,  \* bound on the successful calls of AddSequence
          MaxWrites     \* bound on the KV rows written per layer

ASSUME SharingAssumption ==
  MaxPrompt \in Nat /\ MaxRequests \in Nat /\ MaxWrites \in Nat

Add == /\ requests < MaxRequests
       /\ \E s \in SeqIds, n \in 0 .. MaxPrompt : AddSequence(s, n)

RemoveOne == \E s \in SeqIds : RemoveSequence(s)

Step == /\ \A l \in Layers : kvLen[l] < MaxWrites
        /\ StepBatch

SharingNext == Add \/ RemoveOne \/ ResetExecutionEngine \/ Step

SharingSpec == Init /\ [][SharingNext]_vars

-----------------------------------------------------------------------------
(* The layers of the KV cache never run ahead of the layers below them:    *)
(* whatever pass is abandoned by ResetExecutionEngine, by a removal or by  *)
(* a refused dispatch, the next one starts again at layer 0.               *)
KvSkew == \A l \in 1 .. NLayers - 1 : kvLen[l] <= kvLen[l - 1]

(* Every token a sequence holds was paid for by a pass through the whole   *)
(* model: the last layer has written at least as many rows as the present  *)
(* sequences have tokens sampled.                                          *)
EnoughRows ==
  SumFunction([s \in DOMAIN seqs |-> seqs[s].position]) <= kvLen[NLayers - 1]

(* What the ring still has is what it had less one hidden state for every  *)
(* sequence ever added and the scratch buffers, or less than that when an  *)
(* AllocScratchBuffers failed half-way.                                    *)
RingAccounted ==
  ringFree + requests + (IF scratch THEN ScratchUnits ELSE 0) <= RingUnits

-----------------------------------------------------------------------------
(* A batch: every sequence is added, once, before the first StepBatch, and *)
(* none is removed.                                                        *)
BatchNext ==
  \/ /\ phase = "VALIDATE" /\ ok
     /\ \E s \in SeqIds \ DOMAIN seqs : AddSequence(s, 1)
  \/ /\ DOMAIN seqs = SeqIds
     /\ Step

BatchSpec == Init /\ [][BatchNext]_vars

(* The token TOPK pushes back to a sequence was computed from the input    *)
(* that sequence stood at: the comment there says "generated token", but   *)
(* the sequence selected by the call that finds TOPK need not be the one   *)
(* EMBED was called for.                                                   *)
TokenOfItsSequence ==
  device = "ok" =>
    \A s \in DOMAIN seqs :
      \A i \in 1 .. seqs[s].position :
        <<seqs[s].req, i - 1>> \in seqs[s].tokens[i + 1].basis
=============================================================================
