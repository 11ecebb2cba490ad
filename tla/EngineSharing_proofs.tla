------------------------ MODULE EngineSharing_proofs ------------------------
(***************************************************************************)
(* The engine shared by any number of sequences, which are added, removed  *)
(* and abandoned between any two calls of StepBatch.                       *)
(***************************************************************************)
EXTENDS EngineSharing, SetsAndQueues

(* The phases of a layer before its row of the KV cache is written, those  *)
(* after, and the phases behind the last layer.                            *)
Before == {"LAYER_RMS_ATTN", "LAYER_QKV_Q", "LAYER_QKV_K", "LAYER_QKV_V",
           "LAYER_ROPE", "LAYER_KV_CACHE_WRITE"}
After  == {"LAYER_FLASH_ATTN", "LAYER_ATTN_OUT", "LAYER_ATTN_RESIDUAL",
           "LAYER_RMS_FFN", "LAYER_FFN_UP", "LAYER_FFN_GATE",
           "LAYER_SILU_MUL", "LAYER_FFN_DOWN", "LAYER_FFN_RESIDUAL", "LAYER_NEXT"}
Behind == {"LM_HEAD", "TOPK"}
Outside == {"VALIDATE", "LOAD_WEIGHTS", "IDLE"}

LEMMA PhaseSets ==
  /\ LayerPhases = Before \cup After
  /\ Phases = Before \cup After \cup Behind \cup Outside \cup {"EMBED"}
  BY DEF LayerPhases, Phases, Before, After, Behind, Outside, Kernel

(* A kernel of the loop hands over within its part of the layer.           *)
LEMMA KernelStays ==
  ASSUME NEW p \in DOMAIN Kernel
  PROVE  (p \in Before /\ Kernel[p].next \in Before) \/ (p \in After /\ Kernel[p].next \in After)
<1>1. DOMAIN Kernel = {"LAYER_RMS_ATTN", "LAYER_QKV_Q", "LAYER_QKV_K", "LAYER_QKV_V",
     "LAYER_ATTN_OUT", "LAYER_ATTN_RESIDUAL", "LAYER_RMS_FFN", "LAYER_FFN_UP",
     "LAYER_FFN_GATE", "LAYER_SILU_MUL", "LAYER_FFN_DOWN", "LAYER_FFN_RESIDUAL"}
  BY DEF Kernel
<1>2. CASE p \in {"LAYER_RMS_ATTN", "LAYER_QKV_Q", "LAYER_QKV_K", "LAYER_QKV_V"}
  BY <1>2 DEF Kernel, DispatchRmsNorm, DispatchGemm, Before
<1>3. CASE p \in {"LAYER_ATTN_OUT", "LAYER_ATTN_RESIDUAL", "LAYER_RMS_FFN", "LAYER_FFN_UP",
     "LAYER_FFN_GATE", "LAYER_SILU_MUL", "LAYER_FFN_DOWN", "LAYER_FFN_RESIDUAL"}
  BY <1>3 DEF Kernel, DispatchRmsNorm, DispatchGemm, DispatchSiluMul, DispatchAdd, After
<1> QED BY <1>1, <1>2, <1>3

-----------------------------------------------------------------------------
(* What a call of StepBatch does to the pass in progress, to the sequences *)
(* and to the lengths of the KV cache: most calls do nothing to these.     *)
SamePart == \/ phase' = phase
            \/ phase \in Before /\ phase' \in Before
            \/ phase \in After /\ phase' \in After
            \/ phase \in Behind /\ phase' \in Behind
            \/ phase \in Outside /\ phase' \in Outside

Quiet == SamePart /\ UNCHANGED <<layer, seqs, kvLen>>

Embeds == /\ phase \in {"IDLE", "EMBED"}
          /\ phase' \in {"EMBED", "LAYER_RMS_ATTN"}
          /\ layer' = FirstLayer
          /\ UNCHANGED <<seqs, kvLen>>

WritesRow == /\ phase \in Before
             /\ phase' \in After
             /\ kvLen' = [kvLen EXCEPT ![layer] = @ + 1]
             /\ UNCHANGED <<layer, seqs>>

EndsLayer == /\ phase = "LAYER_NEXT"
             /\ phase' = AfterLayer
             /\ layer' = layer + 1
             /\ UNCHANGED <<seqs, kvLen>>

Samples == /\ phase = "TOPK"
           /\ phase' = "IDLE"
           /\ \E s \in DOMAIN seqs : \E new :
                seqs' = [seqs EXCEPT ![s].tokens = new, ![s].position = @ + 1]
           /\ UNCHANGED <<layer, kvLen>>

LEMMA StepKinds ==
  ASSUME StepBatch
  PROVE  Quiet \/ Embeds \/ WritesRow \/ EndsLayer \/ Samples
<1>1. CASE Validate \/ LoadWeights \/ NothingPending
  BY <1>1 DEF Validate, LoadWeights, NothingPending, Quiet, SamePart, Outside
<1>2. ASSUME NEW s \in SeqIds, DecodeStep(s)
      PROVE  Quiet \/ Embeds \/ WritesRow \/ EndsLayer \/ Samples
  <2>1. s \in DOMAIN seqs
    BY <1>2 DEF DecodeStep, Turn, Pending
  <2>2. CASE StreamingFails
    BY <2>2 DEF StreamingFails, Quiet, SamePart
  <2>3. CASE LayerNext
    BY <2>3 DEF LayerNext, EnsureLayerWeights, EndsLayer
  <2>4. ASSUME NEW o \in Outcomes, DispatchEmbed(s, o) PROVE Embeds
    BY <2>4 DEF DispatchEmbed, Embeds
  <2>5. ASSUME NEW o \in Outcomes, LayerKernel(s, o) PROVE Quiet
    <3>1. phase \in DOMAIN Kernel /\ UNCHANGED <<layer, seqs, kvLen>>
      BY <2>5 DEF LayerKernel, EnsureLayerWeights
    <3>2. phase' = phase \/ phase' = Kernel[phase].next
      BY <2>5 DEF LayerKernel
    <3> QED BY <3>1, <3>2, KernelStays DEF Quiet, SamePart
  <2>6. ASSUME NEW o \in Outcomes, DispatchRope(s, o) \/ DispatchFlashAttn(s, o) PROVE Quiet
    BY <2>6 DEF DispatchRope, DispatchFlashAttn, EnsureLayerWeights, Quiet, SamePart,
                Before, After
  <2>7. ASSUME NEW o \in Outcomes, DispatchKvCacheWrite(s, o) PROVE Quiet \/ WritesRow
    BY <2>7 DEF DispatchKvCacheWrite, EnsureLayerWeights, Quiet, SamePart, WritesRow,
                Before, After
  <2>8. ASSUME NEW o \in Outcomes, LmHead(s, o) PROVE Quiet
    BY <2>8 DEF LmHead, Quiet, SamePart, Behind
  <2>9. ASSUME NEW o \in Outcomes, NEW t \in TokenIds, TopK(s, o, t) PROVE Quiet \/ Samples
    BY <2>1, <2>9 DEF TopK, Quiet, SamePart, Samples
  <2> QED BY <1>2, <2>2, <2>3, <2>4, <2>5, <2>6, <2>7, <2>8, <2>9 DEF DecodeStep
<1> QED BY <1>1, <1>2 DEF StepBatch

-----------------------------------------------------------------------------
(***************************************************************************)
(* The inductive invariant.  Progress says how far the pass in progress    *)
(* has come; the lengths and the positions are compared with that.         *)
(***************************************************************************)
Sequence(r) == /\ r = [req |-> r.req, tokens |-> r.tokens, position |-> r.position]
               /\ r.position \in Nat

Sequences(q) == /\ IsFiniteSet(DOMAIN q) /\ q = [s \in DOMAIN q |-> q[s]]
                /\ \A s \in DOMAIN q : Sequence(q[s])

SharingType ==
  /\ phase \in Phases /\ layer \in Nat
  /\ kvLen \in [Layers -> Nat]
  /\ Sequences(seqs)

Progress ==
  /\ phase = "EMBED" => layer = 0
  /\ phase \in LayerPhases => layer \in Layers

(* The layer at work has a row less than the one below it until it is      *)
(* written, and the one above it a row less from then on.                  *)
Lengths ==
  /\ KvSkew
  /\ phase \in Before /\ layer > 0 => kvLen[layer] < kvLen[layer - 1]
  /\ phase \in After /\ layer + 1 < NLayers => kvLen[layer + 1] < kvLen[layer]

(* A pass that has written the last layer has paid for the token that TOPK *)
(* is going to sample.                                                     *)
Positions(q) == [s \in DOMAIN q |-> q[s].position]
PaidAhead == phase \in Behind \/ (phase \in After /\ layer = NLayers - 1)
Paid == EnoughRows /\ (PaidAhead => SumFunction(Positions(seqs)) < kvLen[NLayers - 1])

SharingInv == SharingType /\ Progress /\ Lengths /\ Paid

LEMMA LayerFacts ==
  /\ NLayers \in Nat /\ NLayers - 1 \in Layers /\ 0 \in Layers
  /\ Layers = {l \in Nat : l < NLayers}
  BY EngineAssumption DEF Layers

LEMMA SharingInitInv == Init => SharingInv
<1> SUFFICES ASSUME Init PROVE SharingInv
  OBVIOUS
<1>1. DOMAIN seqs = {} /\ DOMAIN Positions(seqs) = {}
  BY DEF Init, Positions
<1>2. SharingType
  <2>1. seqs = [s \in DOMAIN seqs |-> seqs[s]]
    BY DEF Init
  <2> QED
    BY <1>1, <2>1, FS_EmptySet, LayerFacts DEF Init, SharingType, Sequences, Phases
<1>3. SumFunction(Positions(seqs)) = 0
  BY <1>1, SumEmpty DEF SumFunction
<1>4. phase = "VALIDATE" /\ \A l \in Layers : kvLen[l] = 0
  BY DEF Init
<1>5. Progress /\ Lengths
  BY <1>4, LayerFacts, PhaseSets
     DEF Progress, Lengths, KvSkew, Before, After, Behind, Layers
<1>6. Paid
  BY <1>3, <1>4, LayerFacts DEF Paid, EnoughRows, Positions, PaidAhead, Behind, After
<1> QED BY <1>2, <1>5, <1>6 DEF SharingInv

-----------------------------------------------------------------------------
(* The positions: their sum only grows when a token is sampled.            *)
LEMMA PositionsSum ==
  ASSUME NEW q, Sequences(q)
  PROVE  /\ DOMAIN Positions(q) = DOMAIN q /\ IsFiniteSet(DOMAIN q)
         /\ \A s \in DOMAIN q : Positions(q)[s] = q[s].position /\ Positions(q)[s] \in Nat
         /\ SumFunction(Positions(q)) = SumFunctionOnSet(Positions(q), DOMAIN q)
         /\ SumFunction(Positions(q)) \in Nat
<1>1. /\ DOMAIN Positions(q) = DOMAIN q /\ IsFiniteSet(DOMAIN q)
      /\ \A s \in DOMAIN q : Positions(q)[s] = q[s].position /\ Positions(q)[s] \in Nat
  BY DEF Sequences, Sequence, Positions
<1>2. SumFunctionOnSet(Positions(q), DOMAIN q) \in Nat
  <2> HIDE DEF Positions
  <2> QED BY <1>1, SumType
<1> QED BY <1>1, <1>2 DEF SumFunction

LEMMA SumWithout ==
  ASSUME NEW q, Sequences(q), NEW s \in DOMAIN q
  PROVE  SumFunction(Positions(q)) =
           Positions(q)[s] + SumFunctionOnSet(Positions(q), DOMAIN q \ {s})
  BY PositionsSum, SumRemove

LEMMA SumOfRest ==
  ASSUME NEW q, Sequences(q), NEW s
  PROVE  /\ IsFiniteSet(DOMAIN q \ {s})
         /\ SumFunctionOnSet(Positions(q), DOMAIN q \ {s}) \in Nat
         /\ SumFunctionOnSet(Positions(q), DOMAIN q \ {s}) <= SumFunction(Positions(q))
<1>1. IsFiniteSet(DOMAIN q \ {s})
  BY PositionsSum, FS_RemoveElement
<1>2. SumFunctionOnSet(Positions(q), DOMAIN q \ {s}) \in Nat
  BY <1>1, PositionsSum, SumType
<1>3. CASE s \in DOMAIN q
  <2>1. SumFunctionOnSet(Positions(q), DOMAIN q) =
          Positions(q)[s] + SumFunctionOnSet(Positions(q), DOMAIN q \ {s})
    BY <1>3, PositionsSum, SumRemove
  <2> QED BY <1>1, <1>2, <1>3, <2>1, PositionsSum
<1>4. CASE s \notin DOMAIN q
  <2>1. DOMAIN q \ {s} = DOMAIN q
    BY <1>4
  <2> QED BY <1>1, <1>2, <2>1, PositionsSum
<1> QED BY <1>3, <1>4

(* A sequence added, or added again, starts at position 0.                 *)
LEMMA SumAfterAdd ==
  ASSUME NEW q, Sequences(q), NEW s, NEW r, Sequence(r), r.position = 0,
         NEW q1, q1 = [t \in DOMAIN q \cup {s} |-> IF t = s THEN r ELSE q[t]]
  PROVE  Sequences(q1) /\ SumFunction(Positions(q1)) <= SumFunction(Positions(q))
<1>1. DOMAIN q1 = DOMAIN q \cup {s} /\ DOMAIN q1 \ {s} = DOMAIN q \ {s}
  OBVIOUS
<1>2. Sequences(q1)
  BY FS_AddElement DEF Sequences
<1>3. SumFunction(Positions(q1)) =
        Positions(q1)[s] + SumFunctionOnSet(Positions(q1), DOMAIN q1 \ {s})
  BY <1>1, <1>2, SumWithout
<1>4. Positions(q1)[s] = 0
  BY <1>1 DEF Positions
<1>5. \A t \in DOMAIN q \ {s} : Positions(q1)[t] = Positions(q)[t]
  BY <1>1 DEF Positions
<1>6. SumFunctionOnSet(Positions(q1), DOMAIN q \ {s}) =
        SumFunctionOnSet(Positions(q), DOMAIN q \ {s})
  BY <1>5, SumOfRest, SumSame
<1>7. /\ SumFunctionOnSet(Positions(q), DOMAIN q \ {s}) \in Nat
      /\ SumFunctionOnSet(Positions(q), DOMAIN q \ {s}) <= SumFunction(Positions(q))
  BY SumOfRest
<1>8. SumFunction(Positions(q1)) = SumFunctionOnSet(Positions(q), DOMAIN q \ {s})
  BY <1>1, <1>3, <1>4, <1>6, <1>7
<1> QED BY <1>2, <1>7, <1>8

LEMMA SumAfterRemove ==
  ASSUME NEW q, Sequences(q), NEW s, NEW q1, q1 = [t \in DOMAIN q \ {s} |-> q[t]]
  PROVE  Sequences(q1) /\ SumFunction(Positions(q1)) <= SumFunction(Positions(q))
<1>1. DOMAIN q1 = DOMAIN q \ {s}
  OBVIOUS
<1>2. Sequences(q1)
  BY FS_RemoveElement DEF Sequences
<1>3. \A t \in DOMAIN q \ {s} : Positions(q1)[t] = Positions(q)[t]
  BY <1>1 DEF Positions
<1>4. SumFunctionOnSet(Positions(q1), DOMAIN q \ {s}) =
        SumFunctionOnSet(Positions(q), DOMAIN q \ {s})
  BY <1>3, SumOfRest, SumSame
<1>5. SumFunction(Positions(q1)) = SumFunctionOnSet(Positions(q1), DOMAIN q \ {s})
  BY <1>1, <1>2, PositionsSum
<1>6. SumFunctionOnSet(Positions(q), DOMAIN q \ {s}) <= SumFunction(Positions(q))
  BY SumOfRest
<1> QED BY <1>2, <1>4, <1>5, <1>6

LEMMA SumAfterSample ==
  ASSUME NEW q, Sequences(q), NEW s \in DOMAIN q, NEW new,
         NEW q1, q1 = [q EXCEPT ![s].tokens = new, ![s].position = @ + 1]
  PROVE  Sequences(q1) /\ SumFunction(Positions(q1)) = SumFunction(Positions(q)) + 1
<1>1. DOMAIN q1 = DOMAIN q
  OBVIOUS
<1>2. \A t \in DOMAIN q \ {s} : q1[t] = q[t]
  BY DEF Sequences
<1>3. q1[s] = [req |-> q[s].req, tokens |-> new, position |-> q[s].position + 1]
  <2>1. /\ q[s] = [req |-> q[s].req, tokens |-> q[s].tokens, position |-> q[s].position]
        /\ q = [t \in DOMAIN q |-> q[t]]
    BY DEF Sequences, Sequence
  <2>2. q1[s] = [[q[s] EXCEPT !.tokens = new] EXCEPT !.position = q[s].position + 1]
    BY <2>1
  <2> QED BY <2>1, <2>2
<1>4. Sequences(q1)
  BY <1>1, <1>2, <1>3 DEF Sequences, Sequence
<1>5. \A t \in DOMAIN q \ {s} : Positions(q1)[t] = Positions(q)[t]
  BY <1>1, <1>2 DEF Positions
<1>6. Positions(q1)[s] = Positions(q)[s] + 1
  BY <1>1, <1>3 DEF Positions
<1>7. SumFunctionOnSet(Positions(q1), DOMAIN q \ {s}) =
        SumFunctionOnSet(Positions(q), DOMAIN q \ {s})
  BY <1>5, SumOfRest, SumSame
<1>8. SumFunction(Positions(q1)) =
        Positions(q1)[s] + SumFunctionOnSet(Positions(q1), DOMAIN q \ {s})
  <2>1. SumFunction(Positions(q1)) =
          Positions(q1)[s] + SumFunctionOnSet(Positions(q1), DOMAIN q1 \ {s})
    BY <1>1, <1>4, SumWithout
  <2> QED BY <1>1, <2>1
<1>9. SumFunction(Positions(q)) =
        Positions(q)[s] + SumFunctionOnSet(Positions(q), DOMAIN q \ {s})
  BY SumWithout
<1>10. /\ Positions(q)[s] \in Nat
       /\ SumFunctionOnSet(Positions(q), DOMAIN q \ {s}) \in Nat
  BY PositionsSum, SumOfRest
<1> QED BY <1>4, <1>6, <1>7, <1>8, <1>9, <1>10

-----------------------------------------------------------------------------
(* The operations on the sequences leave the pass and the cache alone.     *)
LEMMA SequencesChange ==
  ASSUME SharingInv, UNCHANGED <<layer, kvLen>>,
         phase' = phase \/ phase' = "VALIDATE",
         Sequences(seqs'),
         SumFunction(Positions(seqs')) <= SumFunction(Positions(seqs))
  PROVE  SharingInv'
<1>1. SharingType'
  BY DEF SharingInv, SharingType, Phases
<1>2. Progress'
  BY DEF SharingInv, Progress, LayerPhases, Kernel, Behind
<1>3. Lengths'
  BY DEF SharingInv, Lengths, KvSkew, Before, After
<1>4. Paid'
  <2>1. kvLen[NLayers - 1] \in Nat
    BY LayerFacts DEF SharingInv, SharingType
  <2>2. SumFunction(Positions(seqs)) \in Nat /\ SumFunction(Positions(seqs')) \in Nat
    BY PositionsSum DEF SharingInv, SharingType
  <2>3. PaidAhead' => PaidAhead
    BY DEF PaidAhead, Behind, After
  <2>4. SumFunction(Positions(seqs)) <= kvLen[NLayers - 1]
    BY DEF SharingInv, Paid, EnoughRows, Positions
  <2>5. PaidAhead => SumFunction(Positions(seqs)) < kvLen[NLayers - 1]
    BY DEF SharingInv, Paid
  <2>6. EnoughRows'
    <3>1. SumFunction(Positions(seqs')) <= kvLen'[NLayers - 1]
      BY <2>1, <2>2, <2>4
    <3> QED BY <3>1 DEF EnoughRows, Positions
  <2>7. PaidAhead' => SumFunction(Positions(seqs')) < kvLen'[NLayers - 1]
    BY <2>1, <2>2, <2>3, <2>5
  <2> QED BY <2>6, <2>7 DEF Paid
<1> QED BY <1>1, <1>2, <1>3, <1>4 DEF SharingInv

LEMMA SequencesKept ==
  ASSUME SharingInv, UNCHANGED <<layer, seqs, kvLen>>,
         phase' = phase \/ phase' = "VALIDATE"
  PROVE  SharingInv'
<1>1. Sequences(seqs') /\ SumFunction(Positions(seqs')) <= SumFunction(Positions(seqs))
  <2>1. Sequences(seqs)
    BY DEF SharingInv, SharingType
  <2>2. SumFunction(Positions(seqs)) \in Nat
    BY <2>1, PositionsSum
  <2>3. seqs' = seqs
    OBVIOUS
  <2> QED BY <2>1, <2>2, <2>3
<1> QED BY <1>1, SequencesChange

LEMMA AddKeeps ==
  ASSUME SharingInv, NEW s \in SeqIds, NEW n, AddSequence(s, n)
  PROVE  SharingInv'
<1>1. UNCHANGED <<phase, layer, kvLen>>
  BY DEF AddSequence
<1>2. CASE UNCHANGED seqs
  BY <1>1, <1>2, SequencesKept
<1>3. CASE ~UNCHANGED seqs
  <2> DEFINE r == [req      |-> requests + 1,
                   tokens   |-> [i \in 1 .. n |-> Token(0, {})],
                   position |-> 0]
  <2>1. seqs' = [t \in DOMAIN seqs \cup {s} |-> IF t = s THEN r ELSE seqs[t]]
    BY <1>3 DEF AddSequence
  <2>2. Sequence(r) /\ r.position = 0
    BY DEF Sequence
  <2>3. Sequences(seqs)
    BY DEF SharingInv, SharingType
  <2> HIDE DEF r
  <2>4. Sequences(seqs') /\ SumFunction(Positions(seqs')) <= SumFunction(Positions(seqs))
    BY <2>1, <2>2, <2>3, SumAfterAdd
  <2> QED BY <1>1, <2>4, SequencesChange
<1> QED BY <1>2, <1>3

LEMMA RemoveKeeps ==
  ASSUME SharingInv, NEW s \in SeqIds, RemoveSequence(s)
  PROVE  SharingInv'
<1>1. /\ UNCHANGED <<phase, layer, kvLen>>
      /\ seqs' = [t \in DOMAIN seqs \ {s} |-> seqs[t]]
  BY DEF RemoveSequence
<1>2. Sequences(seqs)
  BY DEF SharingInv, SharingType
<1>3. Sequences(seqs') /\ SumFunction(Positions(seqs')) <= SumFunction(Positions(seqs))
  BY <1>1, <1>2, SumAfterRemove
<1> QED BY <1>1, <1>3, SequencesChange

-----------------------------------------------------------------------------
(* The kinds of calls of StepBatch.                                        *)
LEMMA QuietKeeps == SharingInv /\ Quiet => SharingInv'
<1> SUFFICES ASSUME SharingInv, Quiet PROVE SharingInv'
  OBVIOUS
<1>1. layer' = layer /\ seqs' = seqs /\ kvLen' = kvLen /\ SamePart
  BY DEF Quiet
<1>3. /\ phase' \in Phases
      /\ phase' \in LayerPhases => phase \in LayerPhases
      /\ phase' \in Before => phase \in Before
      /\ phase' \in After => phase \in After
      /\ phase' \in Behind => phase \in Behind
      /\ phase' = "EMBED" => phase = "EMBED"
  BY <1>1, PhaseSets DEF SharingInv, SharingType, SamePart, Before, After, Behind, Outside
<1>4. SharingType'
  BY <1>1, <1>3 DEF SharingInv, SharingType
<1>5. Progress'
  BY <1>1, <1>3 DEF SharingInv, Progress, SharingType
<1>6. Lengths'
  BY <1>1, <1>3 DEF SharingInv, Lengths, KvSkew
<1>7. Paid'
  BY <1>1, <1>3 DEF SharingInv, Paid, EnoughRows, PaidAhead
<1> QED BY <1>4, <1>5, <1>6, <1>7 DEF SharingInv

LEMMA EmbedsKeeps == SharingInv /\ Embeds => SharingInv'
<1> SUFFICES ASSUME SharingInv, Embeds PROVE SharingInv'
  OBVIOUS
<1>1. layer' = 0 /\ seqs' = seqs /\ kvLen' = kvLen
  BY DEF Embeds, FirstLayer, SharingInv, Progress
<1>2. phase' \in Phases /\ phase' \notin After /\ phase' \notin Behind
  BY PhaseSets DEF Embeds, Before, After, Behind
<1>3. SharingType'
  BY <1>1, <1>2 DEF SharingInv, SharingType
<1>4. Progress'
  BY <1>1, <1>2, LayerFacts DEF Progress
<1>5. Lengths'
  BY <1>1, <1>2 DEF SharingInv, Lengths, KvSkew
<1>6. Paid'
  BY <1>1, <1>2 DEF SharingInv, Paid, EnoughRows, PaidAhead
<1> QED BY <1>3, <1>4, <1>5, <1>6 DEF SharingInv

LEMMA WritesRowKeeps == SharingInv /\ WritesRow => SharingInv'
<1> SUFFICES ASSUME SharingInv, WritesRow PROVE SharingInv'
  OBVIOUS
<1>1. /\ phase \in Before /\ phase' \in After /\ layer' = layer /\ seqs' = seqs
      /\ kvLen' = [kvLen EXCEPT ![layer] = @ + 1]
  BY DEF WritesRow
<1>2. layer \in Layers
  BY <1>1, PhaseSets DEF SharingInv, Progress
<1>3. phase' \in Phases /\ phase' \notin Before /\ phase' \notin Behind /\ phase' # "EMBED"
  BY <1>1, PhaseSets DEF Before, After, Behind
<1>4. /\ kvLen' \in [Layers -> Nat]
      /\ kvLen'[layer] = kvLen[layer] + 1
      /\ \A l \in Layers : l # layer => kvLen'[l] = kvLen[l]
  BY <1>1, <1>2 DEF SharingInv, SharingType
<1>5. SharingType'
  BY <1>1, <1>2, <1>3, <1>4 DEF SharingInv, SharingType
<1>6. Progress'
  BY <1>1, <1>2, <1>3, PhaseSets DEF SharingInv, Progress
<1>7. Lengths'
  <2>1. KvSkew'
    <3> SUFFICES ASSUME NEW l \in 1 .. NLayers - 1 PROVE kvLen'[l] <= kvLen'[l - 1]
      BY DEF KvSkew
    <3>1. l \in Layers /\ l - 1 \in Layers /\ l \in Nat
      BY LayerFacts
    <3>2. kvLen[l] <= kvLen[l - 1] /\ kvLen[l] \in Nat /\ kvLen[l - 1] \in Nat
      BY <3>1 DEF SharingInv, SharingType, Lengths, KvSkew
    <3>3. CASE l = layer
      <4>1. kvLen[l] < kvLen[l - 1]
        BY <1>1, <3>1, <3>3 DEF SharingInv, Lengths
      <4> QED BY <1>2, <1>4, <3>1, <3>2, <3>3, <4>1
    <3>4. CASE l # layer
      BY <1>2, <1>4, <3>1, <3>2, <3>4
    <3> QED BY <3>3, <3>4
  <2>2. layer + 1 < NLayers => kvLen'[layer + 1] < kvLen'[layer]
    <3> SUFFICES ASSUME layer + 1 < NLayers PROVE kvLen'[layer + 1] < kvLen'[layer]
      OBVIOUS
    <3>1. layer \in Nat /\ layer + 1 \in Layers /\ layer + 1 \in 1 .. NLayers - 1
      BY <1>2, LayerFacts
    <3>2. kvLen[layer + 1] <= kvLen[layer]
      BY <3>1 DEF SharingInv, Lengths, KvSkew
    <3> QED BY <1>2, <1>4, <3>1, <3>2 DEF SharingInv, SharingType
  <2> QED BY <1>1, <1>3, <2>1, <2>2 DEF Lengths
<1>8. Paid'
  <2>1. SumFunction(Positions(seqs)) \in Nat
    BY PositionsSum DEF SharingInv, SharingType
  <2>2. SumFunction(Positions(seqs)) <= kvLen[NLayers - 1]
    BY DEF SharingInv, Paid, EnoughRows, Positions
  <2>3. /\ kvLen[NLayers - 1] \in Nat
        /\ kvLen[NLayers - 1] <= kvLen'[NLayers - 1]
        /\ layer = NLayers - 1 => kvLen[NLayers - 1] < kvLen'[NLayers - 1]
        /\ kvLen'[NLayers - 1] \in Nat
    BY <1>2, <1>4, LayerFacts DEF SharingInv, SharingType
  <2>4. SumFunction(Positions(seqs')) <= kvLen'[NLayers - 1]
    BY <1>1, <2>1, <2>2, <2>3
  <2>5. PaidAhead' => SumFunction(Positions(seqs')) < kvLen'[NLayers - 1]
    BY <1>1, <1>3, <2>1, <2>2, <2>3 DEF PaidAhead
  <2> QED BY <2>4, <2>5 DEF Paid, EnoughRows, Positions
<1> QED BY <1>5, <1>6, <1>7, <1>8 DEF SharingInv

LEMMA EndsLayerKeeps == SharingInv /\ EndsLayer => SharingInv'
<1> SUFFICES ASSUME SharingInv, EndsLayer PROVE SharingInv'
  OBVIOUS
<1>1. /\ phase = "LAYER_NEXT" /\ phase \in After /\ phase \in LayerPhases
      /\ phase' = AfterLayer /\ layer' = layer + 1
      /\ seqs' = seqs /\ kvLen' = kvLen
  BY PhaseSets DEF EndsLayer, After
<1>2. layer \in Layers /\ layer \in Nat /\ layer' \in Nat
  BY <1>1, LayerFacts DEF SharingInv, Progress
<1>3. \/ phase' = "LAYER_RMS_ATTN" /\ layer + 1 < NLayers
      \/ phase' = "LM_HEAD" /\ layer = NLayers - 1
  BY <1>1, <1>2, LayerFacts DEF AfterLayer
<1>5. /\ phase' \in Phases /\ phase' \notin After /\ phase' # "EMBED"
      /\ phase' = "LAYER_RMS_ATTN" => phase' \in Before /\ phase' \notin Behind
      /\ phase' = "LM_HEAD" => phase' \notin Before /\ phase' \in Behind
  BY <1>3, PhaseSets DEF Before, After, Behind
<1>6. SharingType'
  BY <1>1, <1>2, <1>5 DEF SharingInv, SharingType
<1>7. Progress'
  BY <1>1, <1>2, <1>3, <1>5, PhaseSets, LayerFacts DEF Progress
<1>8. Lengths'
  BY <1>1, <1>2, <1>3, <1>5 DEF SharingInv, Lengths, KvSkew
<1>9. Paid'
  BY <1>1, <1>3, <1>5 DEF SharingInv, Paid, EnoughRows, PaidAhead
<1> QED BY <1>6, <1>7, <1>8, <1>9 DEF SharingInv

LEMMA SamplesKeeps == SharingInv /\ Samples => SharingInv'
<1> SUFFICES ASSUME SharingInv, Samples PROVE SharingInv'
  OBVIOUS
<1>1. phase = "TOPK" /\ phase' = "IDLE" /\ layer' = layer /\ kvLen' = kvLen
  BY DEF Samples
<1>2. PICK s \in DOMAIN seqs : \E new :
        seqs' = [seqs EXCEPT ![s].tokens = new, ![s].position = @ + 1]
  BY DEF Samples
<1>3. Sequences(seqs)
  BY DEF SharingInv, SharingType
<1>4. Sequences(seqs') /\ SumFunction(Positions(seqs')) = SumFunction(Positions(seqs)) + 1
  BY <1>2, <1>3, SumAfterSample
<1>5. /\ phase' \in Phases /\ phase' \notin LayerPhases /\ phase' \notin Before
      /\ phase' \notin After /\ phase' \notin Behind
  BY <1>1, PhaseSets DEF Before, After, Behind, Outside
<1>6. SharingType'
  BY <1>1, <1>4, <1>5 DEF SharingInv, SharingType
<1>7. Progress' /\ Lengths'
  BY <1>1, <1>5 DEF SharingInv, Progress, Lengths, KvSkew
<1>8. Paid'
  <2>1. SumFunction(Positions(seqs)) < kvLen[NLayers - 1]
    BY <1>1 DEF SharingInv, Paid, PaidAhead, Behind
  <2>2. SumFunction(Positions(seqs)) \in Nat /\ kvLen[NLayers - 1] \in Nat
    BY <1>3, PositionsSum, LayerFacts DEF SharingInv, SharingType
  <2>3. SumFunction(Positions(seqs')) <= kvLen'[NLayers - 1]
    BY <1>1, <1>4, <2>1, <2>2
  <2>4. ~PaidAhead'
    BY <1>5 DEF PaidAhead
  <2> QED BY <2>3, <2>4 DEF Paid, EnoughRows, Positions
<1> QED BY <1>6, <1>7, <1>8 DEF SharingInv

LEMMA SharingStep == SharingInv /\ [SharingNext]_vars => SharingInv'
<1> SUFFICES ASSUME SharingInv, [SharingNext]_vars PROVE SharingInv'
  OBVIOUS
<1>1. CASE Add
  BY <1>1, AddKeeps DEF Add
<1>2. CASE RemoveOne
  BY <1>2, RemoveKeeps DEF RemoveOne
<1>3. CASE ResetExecutionEngine
  BY <1>3, SequencesKept DEF ResetExecutionEngine
<1>4. CASE Step
  <2>1. Quiet \/ Embeds \/ WritesRow \/ EndsLayer \/ Samples
    BY <1>4, StepKinds DEF Step
  <2> QED BY <2>1, QuietKeeps, EmbedsKeeps, WritesRowKeeps, EndsLayerKeeps, SamplesKeeps
<1>5. CASE UNCHANGED vars
  BY <1>5, SequencesKept DEF vars
<1> QED BY <1>1, <1>2, <1>3, <1>4, <1>5 DEF SharingNext

LEMMA SharingAlways == SharingSpec => []SharingInv
  BY SharingInitInv, SharingStep, PTL DEF SharingSpec

(* Whatever is added, removed or abandoned between two calls, a layer of   *)
(* the KV cache is never ahead of the one below it.                        *)
THEOREM SharingKvSkew == SharingSpec => []KvSkew
<1>1. SharingInv => KvSkew
  BY DEF SharingInv, Lengths
<1> QED BY <1>1, SharingAlways, PTL

(* ... and the last layer has a row for every token sampled for one of the *)
(* sequences that are there.                                               *)
THEOREM SharingEnoughRows == SharingSpec => []EnoughRows
<1>1. SharingInv => EnoughRows
  BY DEF SharingInv, Paid
<1> QED BY <1>1, SharingAlways, PTL

-----------------------------------------------------------------------------
(* The TRANSIENT ring has an invariant of its own: AddSequence takes from  *)
(* it and counts the request, LoadWeights takes and remembers that it has, *)
(* nothing gives back.                                                     *)
RingInv ==
  /\ ringFree \in Nat /\ requests \in Nat /\ scratch \in BOOLEAN
  /\ RingAccounted

LEMMA RingStep == RingInv /\ [SharingNext]_vars => RingInv'
<1> SUFFICES ASSUME RingInv, [SharingNext]_vars PROVE RingInv'
  OBVIOUS
<1>1. ASSUME UNCHANGED <<ringFree, requests, scratch>> PROVE RingInv'
  BY <1>1 DEF RingInv, RingAccounted
<1>2. ASSUME NEW s, NEW n, AddSequence(s, n) PROVE RingInv'
  BY <1>1, <1>2, EngineAssumption DEF AddSequence, RingInv, RingAccounted
<1>3. CASE LoadWeights
  <2>1. CASE scratch
    BY <1>1, <1>3, <2>1 DEF LoadWeights, RingInv
  <2>2. CASE ~scratch /\ ringFree >= ScratchUnits
    <3>1. ringFree' = ringFree - ScratchUnits /\ scratch' = TRUE /\ requests' = requests
      BY <1>3, <2>2 DEF LoadWeights
    <3>2. ringFree + requests <= RingUnits
      BY <2>2, EngineAssumption DEF RingInv, RingAccounted
    <3> QED BY <2>2, <3>1, <3>2, EngineAssumption DEF RingInv, RingAccounted
  <2>3. CASE ~scratch /\ ~(ringFree >= ScratchUnits)
    BY <1>3, <2>3, EngineAssumption DEF LoadWeights, RingInv, RingAccounted
  <2> QED BY <2>1, <2>2, <2>3 DEF RingInv
<1>4. ASSUME StepBatch, ~LoadWeights PROVE RingInv'
  <2>1. CASE Validate \/ NothingPending
    BY <1>1, <2>1 DEF Validate, NothingPending
  <2>2. ASSUME NEW s \in SeqIds, DecodeStep(s) PROVE UNCHANGED <<ringFree, requests, scratch>>
    <3>1. ASSUME NEW o \in Outcomes, \/ DispatchEmbed(s, o) \/ DispatchRope(s, o)
                                     \/ DispatchFlashAttn(s, o) \/ LmHead(s, o)
          PROVE  UNCHANGED <<ringFree, requests, scratch>>
      BY <3>1 DEF DispatchEmbed, DispatchRope, DispatchFlashAttn, LmHead
    <3>2. ASSUME NEW o \in Outcomes, LayerKernel(s, o)
          PROVE  UNCHANGED <<ringFree, requests, scratch>>
      BY <3>2 DEF LayerKernel
    <3>3. ASSUME NEW o \in Outcomes, DispatchKvCacheWrite(s, o)
          PROVE  UNCHANGED <<ringFree, requests, scratch>>
      BY <3>3 DEF DispatchKvCacheWrite
    <3>4. ASSUME NEW o \in Outcomes, NEW t \in TokenIds, TopK(s, o, t)
          PROVE  UNCHANGED <<ringFree, requests, scratch>>
      BY <3>4 DEF TopK
    <3>5. CASE StreamingFails \/ LayerNext
      BY <3>5 DEF StreamingFails, LayerNext
    <3> QED BY <2>2, <3>1, <3>2, <3>3, <3>4, <3>5 DEF DecodeStep
  <2> QED BY <1>1, <1>4, <2>1, <2>2 DEF StepBatch
<1>5. CASE RemoveOne \/ ResetExecutionEngine \/ UNCHANGED vars
  BY <1>1, <1>5 DEF RemoveOne, RemoveSequence, ResetExecutionEngine, vars
<1> QED BY <1>2, <1>3, <1>4, <1>5 DEF SharingNext, Add, Step

(* Every sequence ever added and the scratch buffers are still charged to  *)
(* the ring: it runs dry after as many requests as its size allows, and    *)
(* never goes below.                                                       *)
THEOREM SharingRingAccounted == SharingSpec => []RingAccounted
<1>1. Init => RingInv
  <2> SUFFICES ASSUME Init PROVE RingInv
    OBVIOUS
  <2>1. ringFree = RingUnits /\ requests = 0 /\ scratch = FALSE
    BY DEF Init
  <2>2. RingUnits \in Nat
    BY EngineAssumption
  <2>3. RingAccounted
    BY <2>1, <2>2 DEF RingAccounted
  <2> QED BY <2>1, <2>2, <2>3 DEF RingInv
<1>2. RingInv => RingAccounted
  BY DEF RingInv
<1> QED BY <1>1, <1>2, RingStep, PTL DEF SharingSpec
=============================================================================
