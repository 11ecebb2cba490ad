-------------------------- MODULE SoloRequest_proofs --------------------------
(***************************************************************************)
(* Proofs about SoloRequest, for every number of layers, every prompt      *)
(* length, every number of tokens within the KV cache and every size of    *)
(* the ring.                                                               *)
(***************************************************************************)
EXTENDS SoloRequest, FiniteSetTheorems, TLAPS

Provenance == SUBSET (Nat \X Nat)

(***************************************************************************)
(* Small facts about the kernel table and about provenance sets.           *)
(***************************************************************************)

LEMMA KernelDomain ==
  DOMAIN Kernel =
    {"LAYER_RMS_ATTN", "LAYER_QKV_Q", "LAYER_QKV_K", "LAYER_QKV_V",
     "LAYER_ATTN_OUT", "LAYER_ATTN_RESIDUAL", "LAYER_RMS_FFN", "LAYER_FFN_UP",
     "LAYER_FFN_GATE", "LAYER_SILU_MUL", "LAYER_FFN_DOWN", "LAYER_FFN_RESIDUAL"}
BY DEF Kernel

LEMMA KernelTable ==
  /\ Kernel["LAYER_RMS_ATTN"] = DispatchRmsNorm("hidden", "norm", "LAYER_QKV_Q")
  /\ Kernel["LAYER_QKV_Q"] = DispatchGemm("norm", "q", "LAYER_QKV_K")
  /\ Kernel["LAYER_QKV_K"] = DispatchGemm("norm", "k", "LAYER_QKV_V")
  /\ Kernel["LAYER_QKV_V"] = DispatchGemm("norm", "v", "LAYER_ROPE")
  /\ Kernel["LAYER_ATTN_OUT"] = DispatchGemm("attn", "norm", "LAYER_ATTN_RESIDUAL")
  /\ Kernel["LAYER_ATTN_RESIDUAL"] =
        DispatchAdd("hidden", "norm", "hidden", "LAYER_RMS_FFN")
  /\ Kernel["LAYER_RMS_FFN"] = DispatchRmsNorm("hidden", "norm", "LAYER_FFN_UP")
  /\ Kernel["LAYER_FFN_UP"] = DispatchGemm("norm", "ffn", "LAYER_FFN_GATE")
  /\ Kernel["LAYER_FFN_GATE"] = DispatchGemm("norm", "gate", "LAYER_SILU_MUL")
  /\ Kernel["LAYER_SILU_MUL"] =
        DispatchSiluMul("gate", "ffn", "ffn", "LAYER_FFN_DOWN")
  /\ Kernel["LAYER_FFN_DOWN"] = DispatchGemm("ffn", "norm", "LAYER_FFN_RESIDUAL")
  /\ Kernel["LAYER_FFN_RESIDUAL"] =
        DispatchAdd("hidden", "norm", "hidden", "LAYER_NEXT")
BY DEF Kernel

LEMMA KernelRow ==
  ASSUME NEW p \in DOMAIN Kernel
  PROVE  /\ Kernel[p].reads \subseteq Scratch \cup {"hidden"}
         /\ Kernel[p].writes \in Scratch \cup {"hidden"}
         /\ Kernel[p].next \in LayerPhases
<1>. USE KernelTable DEF DispatchRmsNorm, DispatchGemm, DispatchSiluMul,
         DispatchAdd, Scratch
<1>1. Kernel[p].reads \subseteq Scratch \cup {"hidden"}
  BY KernelDomain
<1>2. Kernel[p].writes \in Scratch \cup {"hidden"}
  BY KernelDomain
<1>3. Kernel[p].next \in LayerPhases
  BY KernelDomain DEF LayerPhases
<1>4. QED
  BY <1>1, <1>2, <1>3

LEMMA PhaseSets ==
  /\ LayerPhases =
       {"LAYER_RMS_ATTN", "LAYER_QKV_Q", "LAYER_QKV_K", "LAYER_QKV_V",
        "LAYER_ROPE", "LAYER_KV_CACHE_WRITE", "LAYER_FLASH_ATTN",
        "LAYER_ATTN_OUT", "LAYER_ATTN_RESIDUAL", "LAYER_RMS_FFN",
        "LAYER_FFN_UP", "LAYER_FFN_GATE", "LAYER_SILU_MUL", "LAYER_FFN_DOWN",
        "LAYER_FFN_RESIDUAL", "LAYER_NEXT"}
  /\ AfterWrite =
       {"LAYER_FLASH_ATTN", "LAYER_ATTN_OUT", "LAYER_ATTN_RESIDUAL",
        "LAYER_RMS_FFN", "LAYER_FFN_UP", "LAYER_FFN_GATE", "LAYER_SILU_MUL",
        "LAYER_FFN_DOWN", "LAYER_FFN_RESIDUAL", "LAYER_NEXT"}
  /\ LayerPhases \subseteq Phases
  /\ DOMAIN Kernel \subseteq LayerPhases
BY KernelDomain DEF LayerPhases, AfterWrite, BeforeWrite, Phases

LEMMA GarbageType == Garbage \in Nat \X Nat
BY DEF Garbage

LEMMA WrittenType ==
  ASSUME NEW S \in Provenance, NEW o
  PROVE  Written(S, o) \in Provenance
BY GarbageType DEF Written, Provenance

LEMMA ComputedType ==
  ASSUME NEW S \in Provenance, NEW o
  PROVE  Computed(S, o) \in Provenance
BY GarbageType DEF Computed, Written, Provenance

(* With one sequence, every call works for sequence 0 and the round-robin  *)
(* index stays 0.                                                          *)
LEMMA OnlyTurn ==
  ASSUME TypeOK, NEW s \in SeqIds, Turn(s)
  PROVE  s = 0 /\ nextIdx' = 0
<1>1. Pending = {0}
  BY DEF TypeOK, Turn, Pending
<1>2. Cardinality(Pending) = 1
  BY <1>1, FS_Singleton
<1>3. Index = 0
  BY <1>2 DEF Index, TypeOK
<1>4. QED
  BY <1>1, <1>2, <1>3 DEF Turn

-----------------------------------------------------------------------------
(***************************************************************************)
(* Working on the one request.                                             *)
(***************************************************************************)
Ready ==
  /\ Fits /\ TypeOK /\ SoloInv
  /\ 0 \in DOMAIN seqs
  /\ seqs[0].position < MaxNew

LEMMA ReadyFacts ==
  ASSUME Ready
  PROVE  /\ DOMAIN seqs = {0}
         /\ Pos \in Nat /\ Pos \in Rows /\ Pos \in 0 .. MaxNew
         /\ Pos + 1 \in 0 .. MaxNew
         /\ Job(0) = <<1, Pos>>
         /\ seqs[0].tokens \in Seq([id : TokenIds \cup {0}, basis : Provenance])
         /\ Len(seqs[0].tokens) \in Nat /\ Pos < Len(seqs[0].tokens)
         /\ requests = 1
<1>1. DOMAIN seqs = {0}
  BY DEF Ready, TypeOK
<1>2. seqs[0] \in [req : {1},
                   tokens : Seq([id : TokenIds \cup {0}, basis : Provenance]),
                   position : 0 .. MaxNew]
  BY DEF Ready, TypeOK, Provenance
<1>3. Pos \in 0 .. MaxNew /\ Pos < MaxNew
  BY <1>2 DEF Pos, Ready
<1>4. Pos \in Rows /\ Pos \in Nat /\ Pos + 1 \in 0 .. MaxNew
  BY <1>3, EngineAssumption, SoloAssumption DEF Rows, Ready, Fits
<1>5. Job(0) = <<1, Pos>>
  BY <1>2 DEF Job, Pos
<1>6. seqs[0].tokens \in Seq([id : TokenIds \cup {0}, basis : Provenance])
  BY <1>2
<1>7. Len(seqs[0].tokens) \in Nat
  BY <1>6
<1>8. Pos < Len(seqs[0].tokens) /\ requests = 1
  BY DEF Ready, SoloInv, Control, TypeOK
<1>9. QED
  BY <1>1, <1>3, <1>4, <1>5, <1>6, <1>7, <1>8

LEMMA CurrentFacts ==
  ASSUME Ready
  PROVE  /\ Fresh({Job(0)})
         /\ Fresh(Current)
         /\ \A S : Fresh(S) => S \in Provenance
         /\ \A S, T : Fresh(S) /\ Fresh(T) => Fresh(S \cup T)
         /\ \A S : Fresh(S) => Current \cup S = Current /\ S \cup Current = Current
         /\ Current \in Provenance
BY ReadyFacts DEF Fresh, Current, Prefix, Provenance

(* What a kernel leaves behind while the device answers.                   *)
LEMMA WrittenOk ==
  ASSUME NEW S, NEW o \in Outcomes, Submit(o), device' = "ok"
  PROVE  /\ o \in {"done", "refused"} /\ device = "ok"
         /\ Written(S, o) = S
         /\ layer \in loaded' => Computed(S, o) = S
BY DEF Submit, Outcomes, Written, Computed

LEMMA SubmitType ==
  ASSUME TypeOK, NEW o \in Outcomes, Submit(o)
  PROVE  device' \in {"ok", "lost"}
BY DEF TypeOK, Submit

LEMMA StreamedType ==
  ASSUME TypeOK, SoloInv, EnsureLayerWeights
  PROVE  loaded' \subseteq Layers /\ layer \in loaded' /\ layer \in Layers
BY DEF TypeOK, SoloInv, Control, EnsureLayerWeights

(* The tokens sampled before stay what they were.                          *)
LEMMA SampledKept ==
  ASSUME SampledFromPrefix, seqs' = seqs, device' = "ok" => device = "ok"
  PROVE  SampledFromPrefix'
BY DEF SampledFromPrefix, Sampled

LEMMA EmbedStep ==
  ASSUME Ready, nextIdx' = 0, NEW o \in Outcomes, DispatchEmbed(0, o)
  PROVE  TypeOK' /\ SoloInv'
<1>. USE DEF Ready
<1>1. TypeOK'
  <2>1. Written({Job(0)}, o) \in Provenance
    BY WrittenType, CurrentFacts
  <2>2. hidden' \in [SeqIds -> Provenance]
    BY <2>1 DEF TypeOK, DispatchEmbed, Provenance
  <2>3. phase' \in Phases /\ layer' \in 0 .. NLayers
    BY EngineAssumption DEF DispatchEmbed, FirstLayer, Phases, LayerPhases, TypeOK, Kernel
  <2>4. QED
    BY <2>2, <2>3, SubmitType DEF TypeOK, DispatchEmbed, Provenance
<1>2. Control'
  BY EngineAssumption, PhaseSets
     DEF Control, SoloInv, DispatchEmbed, FirstLayer, Layers, Pos, TypeOK
<1>3. SampledFromPrefix'
  BY SampledKept DEF SoloInv, DispatchEmbed, Submit
<1>4. ASSUME device' = "ok" PROVE Cache' /\ Buffers'
  <2>1. device = "ok" /\ Written({Job(0)}, o) = {Job(0)}
    BY <1>4, WrittenOk DEF DispatchEmbed
  <2>2. layer' \in Nat
    BY EngineAssumption DEF DispatchEmbed, FirstLayer, TypeOK
  <2>3. \A l \in Layers : ~Appended(l) /\ ~Appended(l)'
    BY <2>2, PhaseSets
       DEF Appended, InPass, DispatchEmbed, FirstLayer, Layers, SoloInv, Control
  <2>4. Cache'
    BY <2>1, <2>3 DEF Cache, SoloInv, DispatchEmbed, Pos
  <2>5. CASE o = "refused"
    <3>1. phase' = "EMBED"
      BY <2>5 DEF DispatchEmbed
    <3>2. Buffers'
      BY <3>1, PhaseSets DEF Buffers, BeforeWrite
    <3>3. QED
      BY <2>4, <3>2
  <2>6. CASE o # "refused"
    <3>1. phase' = "LAYER_RMS_ATTN"
      BY <2>6 DEF DispatchEmbed
    <3>2. hidden'[0] = {Job(0)} /\ Pos' = Pos
      BY <2>1, <2>6, SoloAssumption DEF DispatchEmbed, TypeOK, Pos
    <3>3. Fresh(hidden[0])'
      BY <3>2, CurrentFacts DEF Fresh, Current
    <3>4. Buffers'
      BY <3>1, <3>3, PhaseSets DEF Buffers, BeforeWrite
    <3>5. QED
      BY <2>4, <3>4
  <2>7. QED
    BY <2>5, <2>6
<1>5. QED
  BY <1>1, <1>2, <1>3, <1>4 DEF SoloInv

(***************************************************************************)
(* A step inside the layer loop that keeps the sequence, the layer and the *)
(* KV lengths.                                                             *)
(***************************************************************************)
LEMMA LoopControl ==
  ASSUME Ready, phase \in LayerPhases, phase' \in LayerPhases,
         UNCHANGED <<layer, seqs, requests, kvOob>>
  PROVE  Control'
BY PhaseSets DEF Ready, SoloInv, Control, TypeOK, Pos, Phases

LEMMA LoopCache ==
  ASSUME Ready, device = "ok",
         phase \in LayerPhases, phase' \in LayerPhases,
         phase \in AfterWrite <=> phase' \in AfterWrite,
         UNCHANGED <<layer, seqs, kvLen, kvRow>>
  PROVE  Cache'
<1>1. \A l \in Layers : Appended(l)' <=> Appended(l)
  BY DEF Appended, InPass
<1>2. Cache
  BY DEF Ready, SoloInv
<1>3. QED
  BY <1>1, <1>2 DEF Cache, Pos

(* The contents a kernel of the layer loop reads and writes.               *)
LEMMA ContentsType ==
  ASSUME Ready, NEW b \in Scratch \cup {"hidden"}
  PROVE  Contents(0, b) \in Provenance
BY SoloAssumption DEF Ready, TypeOK, Contents, Provenance

LEMMA KernelType ==
  ASSUME Ready, nextIdx' = 0, NEW o \in Outcomes, LayerKernel(0, o)
  PROVE  TypeOK'
<1>. DEFINE k == Kernel[phase]
            S == UNION {Contents(0, b) : b \in k.reads}
            out == Computed(S, o)
<1>1. phase \in DOMAIN Kernel /\ phase \in LayerPhases
  BY PhaseSets DEF LayerKernel
<1>2. S \in Provenance
  BY <1>1, KernelRow, ContentsType DEF Provenance
<1>3. out \in Provenance
  BY <1>2, ComputedType
<1>4. hidden' \in [SeqIds -> Provenance]
  BY <1>3 DEF LayerKernel, Ready, TypeOK, Provenance
<1>5. buf' \in [Scratch -> Provenance]
  BY <1>3 DEF LayerKernel, Ready, TypeOK, Provenance
<1>6. phase' \in Phases
  BY <1>1, KernelRow, PhaseSets DEF LayerKernel
<1>7. loaded' \subseteq Layers /\ device' \in {"ok", "lost"}
  BY StreamedType, SubmitType DEF LayerKernel, Ready
<1>8. ok' \in BOOLEAN
  BY DEF LayerKernel
<1>9. QED
  BY <1>4, <1>5, <1>6, <1>7, <1>8 DEF TypeOK, LayerKernel, Ready, Provenance

(* While the device answers, a kernel that runs copies the union of what   *)
(* it reads, and one that is refused leaves everything as it is.           *)
LEMMA KernelOk ==
  ASSUME Ready, NEW o \in Outcomes, LayerKernel(0, o), device' = "ok"
  PROVE  LET k == Kernel[phase]
             S == UNION {Contents(0, b) : b \in k.reads}
         IN  \/ UNCHANGED <<phase, hidden, buf>>
             \/ /\ phase' = k.next
                /\ hidden' = IF k.writes = "hidden"
                             THEN [hidden EXCEPT ![0] = S] ELSE hidden
                /\ buf' = IF k.writes \in Scratch
                          THEN [buf EXCEPT ![k.writes] = S] ELSE buf
<1>. DEFINE k == Kernel[phase]
            S == UNION {Contents(0, b) : b \in k.reads}
<1>1. o \in {"done", "refused"} /\ layer \in loaded'
  BY WrittenOk, StreamedType DEF LayerKernel, Ready
<1>2. Computed(S, o) = S
  BY <1>1 DEF Computed, Written
<1>3. CASE o = "done"
  BY <1>2, <1>3 DEF LayerKernel
<1>4. CASE o = "refused"
  BY <1>4 DEF LayerKernel
<1>5. QED
  BY <1>1, <1>3, <1>4

(* The buffers after a kernel of the layer loop, one case per kernel.      *)
LEMMA KernelBuffers ==
  ASSUME Ready, device = "ok", NEW o \in Outcomes, LayerKernel(0, o),
         device' = "ok"
  PROVE  Buffers'
<1>. DEFINE k == Kernel[phase]
            S == UNION {Contents(0, b) : b \in k.reads}
<1>0. Buffers /\ SoloInv /\ TypeOK
  BY DEF Ready, SoloInv
<1>1. Pos' = Pos /\ Current' = Current /\ \A T : Fresh(T)' = Fresh(T)
  BY DEF LayerKernel, Pos, Current, Prefix, Fresh
<1>2. CASE UNCHANGED <<phase, hidden, buf>>
  BY <1>0, <1>1, <1>2 DEF Buffers, Fresh
<1>3. ASSUME phase' = k.next,
             hidden' = IF k.writes = "hidden"
                       THEN [hidden EXCEPT ![0] = S] ELSE hidden,
             buf' = IF k.writes \in Scratch
                    THEN [buf EXCEPT ![k.writes] = S] ELSE buf
      PROVE  Buffers'
  <2>. USE <1>0, <1>1, <1>3, KernelTable, PhaseSets, SoloAssumption
       DEF DispatchRmsNorm, DispatchGemm, DispatchSiluMul, DispatchAdd
  <2>1. CASE phase = "LAYER_RMS_ATTN"
    <3>1. S = hidden[0]
      BY <2>1 DEF Contents
    <3>2. phase' = "LAYER_QKV_Q" /\ buf'.norm = S /\ hidden' = hidden
      BY <2>1 DEF TypeOK, Scratch
    <3>3. QED
      BY <2>1, <3>1, <3>2, CurrentFacts DEF Buffers, BeforeWrite, TypeOK, Scratch
  <2>2. CASE phase = "LAYER_QKV_Q"
    <3>1. S = buf.norm
      BY <2>2 DEF Contents
    <3>2. phase' = "LAYER_QKV_K" /\ buf'.q = S /\ hidden' = hidden
      BY <2>2 DEF TypeOK, Scratch
    <3>3. QED
      BY <2>2, <3>1, <3>2, CurrentFacts DEF Buffers, BeforeWrite, TypeOK, Scratch
  <2>3. CASE phase = "LAYER_QKV_K"
    <3>1. S = buf.norm
      BY <2>3 DEF Contents
    <3>2. phase' = "LAYER_QKV_V" /\ buf'.k = S /\ hidden' = hidden
      BY <2>3 DEF TypeOK, Scratch
    <3>3. QED
      BY <2>3, <3>1, <3>2, CurrentFacts DEF Buffers, BeforeWrite, TypeOK, Scratch
  <2>4. CASE phase = "LAYER_QKV_V"
    <3>1. S = buf.norm
      BY <2>4 DEF Contents
    <3>2. phase' = "LAYER_ROPE" /\ buf'.v = S /\ hidden' = hidden
      BY <2>4 DEF TypeOK, Scratch
    <3>3. QED
      BY <2>4, <3>1, <3>2, CurrentFacts DEF Buffers, BeforeWrite, TypeOK, Scratch
  <2>5. CASE phase = "LAYER_ATTN_OUT"
    <3>1. S = buf.attn
      BY <2>5 DEF Contents
    <3>2. phase' = "LAYER_ATTN_RESIDUAL" /\ buf'.norm = S /\ hidden' = hidden
      BY <2>5 DEF TypeOK, Scratch
    <3>3. QED
      BY <2>5, <3>1, <3>2, CurrentFacts DEF Buffers, BeforeWrite, TypeOK, Scratch
  <2>6. CASE phase = "LAYER_ATTN_RESIDUAL"
    <3>1. S = hidden[0] \cup buf.norm
      BY <2>6 DEF Contents
    <3>2. phase' = "LAYER_RMS_FFN" /\ hidden'[0] = S /\ buf' = buf
      BY <2>6 DEF TypeOK, Scratch
    <3>3. QED
      BY <2>6, <3>1, <3>2, CurrentFacts DEF Buffers, BeforeWrite, TypeOK, Scratch
  <2>7. CASE phase = "LAYER_RMS_FFN"
    <3>1. S = hidden[0]
      BY <2>7 DEF Contents
    <3>2. phase' = "LAYER_FFN_UP" /\ buf'.norm = S /\ hidden' = hidden
      BY <2>7 DEF TypeOK, Scratch
    <3>3. hidden[0] = Current /\ Fresh(S)
      BY <2>7, <3>1, CurrentFacts DEF Buffers
    <3>4. Fresh(buf.norm)' /\ hidden'[0] = Current'
      BY <3>2, <3>3 DEF Fresh
    <3>5. QED
      BY <3>2, <3>4 DEF Buffers, BeforeWrite
  <2>8. CASE phase = "LAYER_FFN_UP"
    <3>1. S = buf.norm
      BY <2>8 DEF Contents
    <3>2. phase' = "LAYER_FFN_GATE" /\ buf'.ffn = S /\ hidden' = hidden
      BY <2>8 DEF TypeOK, Scratch
    <3>3. QED
      BY <2>8, <3>1, <3>2, CurrentFacts DEF Buffers, BeforeWrite, TypeOK, Scratch
  <2>9. CASE phase = "LAYER_FFN_GATE"
    <3>1. S = buf.norm
      BY <2>9 DEF Contents
    <3>2. phase' = "LAYER_SILU_MUL" /\ buf'.gate = S /\ hidden' = hidden
      BY <2>9 DEF TypeOK, Scratch
    <3>3. QED
      BY <2>9, <3>1, <3>2, CurrentFacts DEF Buffers, BeforeWrite, TypeOK, Scratch
  <2>10. CASE phase = "LAYER_SILU_MUL"
    <3>1. S = buf.gate \cup buf.ffn
      BY <2>10 DEF Contents
    <3>2. phase' = "LAYER_FFN_DOWN" /\ buf'.ffn = S /\ hidden' = hidden
      BY <2>10 DEF TypeOK, Scratch
    <3>3. hidden[0] = Current /\ Fresh(S)
      BY <2>10, <3>1, CurrentFacts DEF Buffers
    <3>4. Fresh(buf.ffn)' /\ hidden'[0] = Current'
      BY <3>2, <3>3 DEF Fresh
    <3>5. QED
      BY <3>2, <3>4 DEF Buffers, BeforeWrite
  <2>11. CASE phase = "LAYER_FFN_DOWN"
    <3>1. S = buf.ffn
      BY <2>11 DEF Contents
    <3>2. phase' = "LAYER_FFN_RESIDUAL" /\ buf'.norm = S /\ hidden' = hidden
      BY <2>11 DEF TypeOK, Scratch
    <3>3. QED
      BY <2>11, <3>1, <3>2, CurrentFacts DEF Buffers, BeforeWrite, TypeOK, Scratch
  <2>12. CASE phase = "LAYER_FFN_RESIDUAL"
    <3>1. S = hidden[0] \cup buf.norm
      BY <2>12 DEF Contents
    <3>2. phase' = "LAYER_NEXT" /\ hidden'[0] = S /\ buf' = buf
      BY <2>12 DEF TypeOK, Scratch
    <3>3. QED
      BY <2>12, <3>1, <3>2, CurrentFacts DEF Buffers, BeforeWrite, TypeOK, Scratch
  <2>13. phase \in DOMAIN Kernel
    BY DEF LayerKernel
  <2>14. QED
    BY <2>1, <2>2, <2>3, <2>4, <2>5, <2>6, <2>7, <2>8, <2>9, <2>10, <2>11,
       <2>12, <2>13, KernelDomain
<1>4. QED
  BY <1>2, <1>3, KernelOk

LEMMA KernelStep ==
  ASSUME Ready, nextIdx' = 0, NEW o \in Outcomes, LayerKernel(0, o)
  PROVE  TypeOK' /\ SoloInv'
<1>1. phase \in LayerPhases /\ phase' \in LayerPhases
  BY KernelRow, PhaseSets DEF LayerKernel
<1>2. Control'
  BY <1>1, LoopControl DEF LayerKernel
<1>3. SampledFromPrefix'
  BY SampledKept DEF LayerKernel, Submit, Ready, SoloInv
<1>4. ASSUME device' = "ok" PROVE Cache' /\ Buffers'
  <2>1. device = "ok"
    BY <1>4 DEF LayerKernel, Submit
  <2>2. phase \in AfterWrite <=> phase' \in AfterWrite
    <3>1. \A p \in DOMAIN Kernel : p \in AfterWrite <=> Kernel[p].next \in AfterWrite
      BY KernelDomain, KernelTable, PhaseSets
         DEF DispatchRmsNorm, DispatchGemm, DispatchSiluMul, DispatchAdd
    <3>2. QED
      BY <3>1 DEF LayerKernel
  <2>3. Cache'
    BY <1>1, <2>1, <2>2, LoopCache DEF LayerKernel
  <2>4. QED
    BY <1>4, <2>1, <2>3, KernelBuffers
<1>5. QED
  BY <1>2, <1>3, <1>4, KernelType DEF SoloInv

LEMMA BuffersKept ==
  ASSUME Buffers, UNCHANGED <<phase, seqs, hidden, buf>>
  PROVE  Buffers'
BY DEF Buffers, Fresh, Current, Prefix, Pos

LEMMA RopeStep ==
  ASSUME Ready, nextIdx' = 0, NEW o \in Outcomes, DispatchRope(0, o)
  PROVE  TypeOK' /\ SoloInv'
<1>1. phase \in LayerPhases /\ phase' \in LayerPhases \ AfterWrite
  BY PhaseSets DEF DispatchRope
<1>2. TypeOK'
  <2>1. Computed(buf.q \cup {Job(0)}, o) \in Provenance
        /\ Computed(buf.k \cup {Job(0)}, o) \in Provenance
    <3>1. buf.q \in Provenance /\ buf.k \in Provenance /\ {Job(0)} \in Provenance
      BY CurrentFacts DEF Ready, TypeOK, Scratch, Provenance
    <3>2. QED
      BY <3>1, ComputedType DEF Provenance
  <2>2. buf' \in [Scratch -> Provenance]
    BY <2>1 DEF DispatchRope, Ready, TypeOK, Provenance
  <2>3. QED
    BY <1>1, <2>2, StreamedType, SubmitType, PhaseSets
       DEF TypeOK, DispatchRope, Ready, Provenance
<1>3. Control'
  BY <1>1, LoopControl DEF DispatchRope
<1>4. SampledFromPrefix'
  BY SampledKept DEF DispatchRope, Submit, Ready, SoloInv
<1>5. ASSUME device' = "ok" PROVE Cache' /\ Buffers'
  <2>1. device = "ok" /\ o \in {"done", "refused"} /\ layer \in loaded'
    BY <1>5, StreamedType DEF DispatchRope, Submit, Ready, Outcomes
  <2>2. Cache'
    BY <1>1, <2>1, LoopCache, PhaseSets DEF DispatchRope
  <2>3. Buffers /\ TypeOK
    BY <2>1 DEF Ready, SoloInv
  <2>4. Pos' = Pos /\ \A T : Fresh(T)' = Fresh(T)
    BY DEF DispatchRope, Pos, Current, Prefix, Fresh
  <2>5. CASE o = "refused"
    BY <2>2, <2>3, <2>5, BuffersKept DEF DispatchRope
  <2>6. CASE o = "done"
    <3>1. /\ phase' = "LAYER_KV_CACHE_WRITE" /\ hidden' = hidden
          /\ buf'.q = buf.q \cup {Job(0)} /\ buf'.k = buf.k \cup {Job(0)}
          /\ buf'.v = buf.v
      BY <2>1, <2>3, <2>6 DEF DispatchRope, Computed, Written, TypeOK, Scratch
    <3>2. Fresh(buf.q) /\ Fresh(buf.k) /\ Fresh(buf.v) /\ Fresh(hidden[0])
      BY <2>3 DEF Buffers, DispatchRope, BeforeWrite
    <3>3. Fresh(buf'.q) /\ Fresh(buf'.k) /\ Fresh(buf'.v) /\ Fresh(hidden'[0])
      BY <3>1, <3>2, CurrentFacts
    <3>4. Fresh(buf.q)' /\ Fresh(buf.k)' /\ Fresh(buf.v)' /\ Fresh(hidden[0])'
      BY <2>4, <3>3
    <3>5. QED
      BY <2>2, <3>1, <3>4, PhaseSets DEF Buffers, BeforeWrite
  <2>7. QED
    BY <2>1, <2>2, <2>5, <2>6
<1>6. QED
  BY <1>2, <1>3, <1>4, <1>5 DEF SoloInv

LEMMA AttendedType ==
  ASSUME Ready, layer \in Layers
  PROVE  Attended \in Provenance
<1>1. \A p \in Rows : kvRow[layer][p] \in Provenance
  BY DEF Ready, TypeOK, Provenance
<1>2. \A p : (IF p \in Rows THEN kvRow[layer][p] ELSE {Garbage}) \in Provenance
  BY <1>1, GarbageType DEF Provenance
<1>3. QED
  BY <1>2 DEF Attended, Provenance

(* After this layer's row has been written, its rows are exactly those of  *)
(* the positions up to the current one.                                    *)
LEMMA AttendedCurrent ==
  ASSUME Ready, device = "ok", phase = "LAYER_FLASH_ATTN"
  PROVE  Attended = Current
<1>1. layer \in Layers /\ Cache
  BY PhaseSets DEF Ready, SoloInv, Control
<1>2. kvLen[layer] = Pos + 1
  BY <1>1, PhaseSets DEF Cache, Appended, InPass
<1>3. \A p \in 0 .. Pos : p \in Rows /\ p \in Nat
  BY ReadyFacts, EngineAssumption DEF Rows
<1>4. \A p \in 0 .. Pos : /\ <<1, p>> \in kvRow[layer][p]
                          /\ kvRow[layer][p] \subseteq Prefix(1, p + 1)
  <2>1. \A p \in 0 .. Pos : p < kvLen[layer]
    BY <1>2, ReadyFacts
  <2>2. QED
    BY <1>1, <1>3, <2>1 DEF Cache
<1>5. \A p \in 0 .. Pos : Prefix(1, p + 1) \subseteq Current
  BY ReadyFacts DEF Prefix, Current
<1>6. Attended = UNION {kvRow[layer][p] : p \in 0 .. Pos}
  BY <1>2, <1>3, ReadyFacts DEF Attended
<1>7. Attended \subseteq Current
  BY <1>4, <1>5, <1>6
<1>8. Current \subseteq Attended
  BY <1>4, <1>6, ReadyFacts DEF Current, Prefix
<1>9. QED
  BY <1>7, <1>8

LEMMA FlashAttnStep ==
  ASSUME Ready, nextIdx' = 0, NEW o \in Outcomes, DispatchFlashAttn(0, o)
  PROVE  TypeOK' /\ SoloInv'
<1>1. phase \in AfterWrite /\ phase' \in AfterWrite
      /\ phase \in LayerPhases /\ phase' \in LayerPhases /\ layer \in Layers
  BY PhaseSets DEF DispatchFlashAttn, Ready, SoloInv, Control
<1>2. TypeOK'
  <2>1. buf.q \cup Attended \in Provenance
    BY <1>1, AttendedType DEF Ready, TypeOK, Scratch, Provenance
  <2>2. buf' \in [Scratch -> Provenance]
    BY <2>1, ComputedType DEF DispatchFlashAttn, Ready, TypeOK, Provenance
  <2>3. QED
    BY <1>1, <2>2, StreamedType, SubmitType, PhaseSets
       DEF TypeOK, DispatchFlashAttn, Ready, Provenance
<1>3. Control'
  BY <1>1, LoopControl DEF DispatchFlashAttn
<1>4. SampledFromPrefix'
  BY SampledKept DEF DispatchFlashAttn, Submit, Ready, SoloInv
<1>5. ASSUME device' = "ok" PROVE Cache' /\ Buffers'
  <2>1. device = "ok" /\ o \in {"done", "refused"} /\ layer \in loaded'
    BY <1>5, StreamedType DEF DispatchFlashAttn, Submit, Ready, Outcomes
  <2>2. Cache'
    BY <1>1, <2>1, LoopCache DEF DispatchFlashAttn
  <2>3. Buffers /\ TypeOK
    BY <2>1 DEF Ready, SoloInv
  <2>4. Pos' = Pos /\ Current' = Current /\ \A T : Fresh(T)' = Fresh(T)
    BY DEF DispatchFlashAttn, Pos, Current, Prefix, Fresh
  <2>5. CASE o = "refused"
    BY <2>2, <2>3, <2>5, BuffersKept DEF DispatchFlashAttn
  <2>6. CASE o = "done"
    <3>1. /\ phase' = "LAYER_ATTN_OUT" /\ hidden' = hidden
          /\ buf'.attn = buf.q \cup Attended
      BY <2>1, <2>3, <2>6
         DEF DispatchFlashAttn, Computed, Written, TypeOK, Scratch
    <3>2. Fresh(buf.q) /\ Fresh(hidden[0])
      BY <2>3 DEF Buffers, DispatchFlashAttn
    <3>3. buf'.attn = Current
      BY <2>1, <3>1, <3>2, AttendedCurrent, CurrentFacts DEF DispatchFlashAttn
    <3>4. Fresh(hidden[0])'
      BY <2>4, <3>1, <3>2
    <3>5. QED
      BY <2>2, <2>4, <3>1, <3>3, <3>4, PhaseSets DEF Buffers, BeforeWrite
  <2>7. QED
    BY <2>1, <2>2, <2>5, <2>6
<1>6. QED
  BY <1>2, <1>3, <1>4, <1>5 DEF SoloInv

(* The row written is that of the current position, and it holds the       *)
(* current input and nothing later.                                        *)
LEMMA KvCacheWriteStep ==
  ASSUME Ready, nextIdx' = 0, NEW o \in Outcomes, DispatchKvCacheWrite(0, o)
  PROVE  TypeOK' /\ SoloInv'
<1>. DEFINE out == Computed(buf.k \cup buf.v, o)
<1>1. phase \in LayerPhases \ AfterWrite /\ phase' \in LayerPhases /\ layer \in Layers
  BY PhaseSets DEF DispatchKvCacheWrite, Ready, SoloInv, Control
<1>2. TypeOK'
  <2>1. out \in Provenance
    <3>1. buf.k \cup buf.v \in Provenance
      BY DEF Ready, TypeOK, Scratch, Provenance
    <3>2. QED
      BY <3>1, ComputedType
  <2>2. kvRow' \in [Layers -> [Rows -> Provenance]]
    BY <2>1 DEF DispatchKvCacheWrite, Ready, TypeOK, Provenance
  <2>3. kvLen' \in [Layers -> Nat]
    <3>1. kvLen[layer] + 1 \in Nat
      BY <1>1 DEF Ready, TypeOK
    <3>2. QED
      BY <3>1 DEF DispatchKvCacheWrite, Ready, TypeOK
  <2>4. QED
    BY <1>1, <2>2, <2>3, StreamedType, SubmitType, PhaseSets
       DEF TypeOK, DispatchKvCacheWrite, Ready, Provenance
<1>3. Control'
  <2>1. UNCHANGED kvOob
    BY ReadyFacts DEF DispatchKvCacheWrite, Ready, SoloInv, Control, Pos, TypeOK
  <2>2. QED
    BY <1>1, <2>1, LoopControl DEF DispatchKvCacheWrite
<1>4. SampledFromPrefix'
  BY SampledKept DEF DispatchKvCacheWrite, Submit, Ready, SoloInv
<1>5. ASSUME device' = "ok" PROVE Cache' /\ Buffers'
  <2>1. device = "ok" /\ o \in {"done", "refused"} /\ layer \in loaded'
    BY <1>5, StreamedType DEF DispatchKvCacheWrite, Submit, Ready, Outcomes
  <2>2. Buffers /\ TypeOK /\ Cache
    BY <2>1 DEF Ready, SoloInv
  <2>3. Pos' = Pos /\ Current' = Current /\ \A T : Fresh(T)' = Fresh(T)
    BY DEF DispatchKvCacheWrite, Pos, Current, Prefix, Fresh
  <2>4. CASE o = "refused"
    <3>1. UNCHANGED <<phase, layer, seqs, hidden, buf, kvLen, kvRow>>
      BY <2>4 DEF DispatchKvCacheWrite
    <3>2. QED
      BY <1>1, <2>1, <2>2, <3>1, BuffersKept, LoopCache
  <2>5. CASE o = "done"
    <3>1. Fresh(out)
      <4>1. Fresh(buf.k) /\ Fresh(buf.v)
        BY <2>2 DEF Buffers, DispatchKvCacheWrite
      <4>2. out = buf.k \cup buf.v
        BY <2>1, <2>5 DEF Computed, Written
      <4>3. Fresh(buf.k \cup buf.v)
        BY <4>1, CurrentFacts
      <4>4. QED
        BY <4>2, <4>3
    <3>2. phase' = "LAYER_FLASH_ATTN" /\ UNCHANGED <<layer, seqs, hidden, buf>>
      BY <2>5 DEF DispatchKvCacheWrite
    <3>3. kvLen' = [kvLen EXCEPT ![layer] = Pos + 1]
      <4>1. kvLen[layer] = Pos
        <5>1. ~Appended(layer)
          BY <1>1, EngineAssumption DEF Appended, Layers
        <5>2. QED
          BY <1>1, <2>2, <5>1 DEF Cache
      <4>2. QED
        BY <2>5, <4>1 DEF DispatchKvCacheWrite
    <3>4. kvRow' = [kvRow EXCEPT ![layer][Pos] = out]
      BY <2>5, ReadyFacts DEF DispatchKvCacheWrite, Pos
    <3>5. Cache'
      <4>1. SUFFICES ASSUME NEW l \in Layers
                     PROVE  /\ kvLen'[l] = IF Appended(l)' THEN Pos + 1 ELSE Pos
                            /\ \A p \in Rows : p < kvLen'[l] =>
                                 /\ <<1, p>> \in kvRow'[l][p]
                                 /\ kvRow'[l][p] \subseteq Prefix(1, p + 1)
        BY <2>3 DEF Cache, Prefix
      <4>2. CASE l # layer
        <5>1. kvLen'[l] = kvLen[l] /\ kvRow'[l] = kvRow[l]
          BY <2>2, <3>3, <3>4, <4>2 DEF TypeOK
        <5>2. Appended(l)' <=> Appended(l)
          BY <1>1, <3>2, <4>2 DEF Appended, InPass
        <5>3. QED
          BY <2>2, <5>1, <5>2 DEF Cache
      <4>3. CASE l = layer
        <5>1. Appended(l)'
          BY <3>2, <4>3, PhaseSets DEF Appended, InPass
        <5>2. kvLen'[l] = Pos + 1 /\ kvLen[l] = Pos
          BY <1>1, <2>2, <3>3, <4>3, PhaseSets DEF TypeOK, Cache, Appended, InPass
        <5>3. kvRow'[l] = [kvRow[l] EXCEPT ![Pos] = out]
              /\ kvRow[l] \in [Rows -> Provenance]
          BY <2>2, <3>4, <4>3 DEF TypeOK, Provenance
        <5>4. ASSUME NEW p \in Rows, p < Pos + 1
              PROVE  /\ <<1, p>> \in kvRow'[l][p]
                     /\ kvRow'[l][p] \subseteq Prefix(1, p + 1)
          <6>1. CASE p = Pos
            BY <3>1, <5>3, <6>1 DEF Fresh, Current
          <6>2. CASE p # Pos
            <7>1. p < kvLen[l] /\ kvRow'[l][p] = kvRow[l][p]
              BY <5>2, <5>3, <5>4, <6>2, ReadyFacts, EngineAssumption DEF Rows
            <7>2. QED
              BY <2>2, <7>1 DEF Cache
          <6>3. QED
            BY <6>1, <6>2
        <5>5. QED
          BY <5>1, <5>2, <5>4
      <4>4. QED
        BY <4>2, <4>3
    <3>6. Buffers'
      <4>1. Fresh(hidden[0]) /\ Fresh(buf.q)
        BY <2>2 DEF Buffers, BeforeWrite, DispatchKvCacheWrite
      <4>2. Fresh(hidden[0])' /\ Fresh(buf.q)'
        BY <2>3, <3>2, <4>1
      <4>3. QED
        BY <3>2, <4>2, PhaseSets DEF Buffers, BeforeWrite
    <3>7. QED
      BY <3>5, <3>6
  <2>6. QED
    BY <2>1, <2>4, <2>5
<1>6. QED
  BY <1>2, <1>3, <1>4, <1>5 DEF SoloInv

LEMMA LayerNextStep ==
  ASSUME Ready, nextIdx' = 0, LayerNext
  PROVE  TypeOK' /\ SoloInv'
<1>1. phase = "LAYER_NEXT" /\ layer \in Layers /\ layer \in Nat /\ TypeOK
  BY PhaseSets, EngineAssumption DEF LayerNext, Ready, SoloInv, Control, Layers
<1>2. layer' = layer + 1 /\ layer' \in 0 .. NLayers
      /\ IF layer' = NLayers THEN phase' = "LM_HEAD"
                             ELSE phase' = "LAYER_RMS_ATTN" /\ layer' \in Layers
  BY <1>1, EngineAssumption DEF LayerNext, AfterLayer, Layers
<1>3. TypeOK'
  BY <1>1, <1>2, StreamedType, PhaseSets
     DEF TypeOK, LayerNext, Ready, Phases
<1>4. Control'
  BY <1>1, <1>2, PhaseSets DEF LayerNext, Ready, SoloInv, Control, Pos, TypeOK
<1>5. SampledFromPrefix'
  BY SampledKept DEF LayerNext, Ready, SoloInv
<1>6. ASSUME device' = "ok" PROVE Cache' /\ Buffers'
  <2>1. Cache /\ Buffers
    BY <1>6 DEF LayerNext, Ready, SoloInv
  <2>2. \A l \in Layers : Appended(l)' <=> Appended(l)
    <3>1. \A l \in Layers : l < layer + 1 <=> (l < layer \/ l = layer)
      BY <1>1, EngineAssumption DEF Layers
    <3>2. InPass /\ InPass'
      BY <1>1, <1>2, PhaseSets DEF InPass
    <3>3. \A l \in Layers : Appended(l) <=> l < layer + 1
      BY <1>1, <3>1, <3>2, PhaseSets DEF Appended
    <3>4. \A l \in Layers : Appended(l)' <=> l < layer + 1
      <4>1. phase' \notin AfterWrite
        BY <1>2, PhaseSets
      <4>2. QED
        BY <1>2, <3>2, <4>1 DEF Appended
    <3>5. QED
      BY <3>3, <3>4
  <2>3. Cache'
    BY <2>1, <2>2 DEF Cache, LayerNext, Pos, Prefix
  <2>4. Pos' = Pos /\ Current' = Current /\ \A T : Fresh(T)' = Fresh(T)
    BY DEF LayerNext, Pos, Current, Prefix, Fresh
  <2>5. hidden[0] = Current /\ hidden' = hidden
    BY <1>1, <2>1, PhaseSets DEF Buffers, LayerNext
  <2>6. Fresh(hidden[0])' /\ hidden'[0] = Current'
    BY <2>4, <2>5, CurrentFacts
  <2>7. Buffers'
    BY <1>2, <2>3, <2>6, PhaseSets DEF Buffers, BeforeWrite
  <2>8. QED
    BY <2>3, <2>7
<1>7. QED
  BY <1>3, <1>4, <1>5, <1>6 DEF SoloInv

LEMMA LmHeadStep ==
  ASSUME Ready, nextIdx' = 0, NEW o \in Outcomes, LmHead(0, o)
  PROVE  TypeOK' /\ SoloInv'
<1>1. phase = "LM_HEAD" /\ phase' \in {"LM_HEAD", "TOPK"} /\ layer = NLayers
  BY DEF LmHead, Ready, SoloInv, Control
<1>2. TypeOK'
  <2>1. Written(hidden[0], o) \in Provenance
    BY WrittenType, SoloAssumption DEF Ready, TypeOK, Provenance
  <2>2. buf' \in [Scratch -> Provenance]
    BY <2>1 DEF LmHead, Ready, TypeOK, Provenance
  <2>3. QED
    BY <1>1, <2>2, SubmitType DEF TypeOK, LmHead, Ready, Provenance, Phases
<1>3. Control'
  BY <1>1, PhaseSets DEF LmHead, Ready, SoloInv, Control, Pos, TypeOK
<1>4. SampledFromPrefix'
  BY SampledKept DEF LmHead, Submit, Ready, SoloInv
<1>5. ASSUME device' = "ok" PROVE Cache' /\ Buffers'
  <2>1. device = "ok" /\ o \in {"done", "refused"}
    BY <1>5 DEF LmHead, Submit, Outcomes
  <2>2. Buffers /\ Cache /\ TypeOK
    BY <2>1 DEF Ready, SoloInv
  <2>3. \A l \in Layers : Appended(l)' <=> Appended(l)
    BY <1>1, PhaseSets DEF Appended, InPass, LmHead
  <2>4. Cache'
    BY <2>2, <2>3 DEF Cache, LmHead, Pos, Prefix
  <2>5. CASE o = "refused"
    BY <2>2, <2>4, <2>5, BuffersKept DEF LmHead
  <2>6. CASE o = "done"
    <3>1. phase' = "TOPK" /\ buf'.logits = hidden[0]
      BY <2>2, <2>6 DEF LmHead, Written, TypeOK, Scratch
    <3>2. Current' = Current
      BY DEF LmHead, Current, Pos, Prefix
    <3>3. buf'.logits = Current'
      BY <1>1, <2>2, <3>1, <3>2 DEF Buffers
    <3>4. QED
      BY <2>4, <3>1, <3>3, PhaseSets DEF Buffers, BeforeWrite
  <2>7. QED
    BY <2>1, <2>5, <2>6
<1>6. QED
  BY <1>2, <1>3, <1>4, <1>5 DEF SoloInv

(* TOPK appends a token computed from the inputs processed so far, and     *)
(* moves the position on: what was the row of the current input is now the *)
(* last row of the cache.                                                  *)
LEMMA TopKAppends ==
  ASSUME Ready, NEW o \in Outcomes, NEW t \in TokenIds, TopK(0, o, t),
         o # "refused"
  PROVE  LET new == Token(t, Written(buf.logits, o))
         IN  /\ new \in [id : TokenIds \cup {0}, basis : Provenance]
             /\ DOMAIN seqs' = {0}
             /\ seqs'[0] = [req |-> 1, tokens |-> Append(seqs[0].tokens, new),
                            position |-> Pos + 1]
<1>. DEFINE new == Token(t, Written(buf.logits, o))
<1>1. new \in [id : TokenIds \cup {0}, basis : Provenance]
  <2>1. buf.logits \in Provenance
    BY DEF Ready, TypeOK, Scratch, Provenance
  <2>2. Written(buf.logits, o) \in Provenance
    BY <2>1, WrittenType
  <2>3. QED
    BY <2>2 DEF Token
<1>2. seqs[0] \in [req : {1},
                   tokens : Seq([id : TokenIds \cup {0}, basis : Provenance]),
                   position : 0 .. MaxNew]
  BY DEF Ready, TypeOK, Provenance
<1>3. seqs' = [seqs EXCEPT ![0].tokens = Append(@, new), ![0].position = @ + 1]
  BY DEF TopK
<1>4. DOMAIN seqs' = {0}
  BY <1>3, ReadyFacts
<1>5. seqs'[0] = [seqs[0] EXCEPT !.tokens = Append(@, new), !.position = @ + 1]
  BY <1>3, ReadyFacts
<1>6. QED
  BY <1>1, <1>2, <1>4, <1>5 DEF Pos

LEMMA LastSampled ==
  ASSUME NEW n \in Nat, NEW p \in Nat
  PROVE  /\ (n + 1) - (n - p) = p + 1
         /\ \A i \in 1 .. n + 1 : i = n + 1 \/ i \in 1 .. n
OBVIOUS

LEMMA TopKStep ==
  ASSUME Ready, nextIdx' = 0, NEW o \in Outcomes, NEW t \in TokenIds,
         TopK(0, o, t)
  PROVE  TypeOK' /\ SoloInv'
<1>1. CASE o = "refused"
  <2>1. UNCHANGED <<phase, layer, seqs, hidden, lastToken, buf, kvLen, kvRow,
                    kvOob, loaded, scratch, ringFree, requests, device>>
    BY <1>1 DEF TopK, Submit
  <2>2. TypeOK'
    BY <2>1 DEF TopK, Ready, TypeOK
  <2>3. Control' /\ SampledFromPrefix'
    BY <2>1, SampledKept DEF Ready, SoloInv, Control, Pos
  <2>4. ASSUME device' = "ok" PROVE Cache' /\ Buffers'
    <3>1. Cache /\ Buffers
      BY <2>1, <2>4 DEF Ready, SoloInv
    <3>2. QED
      BY <2>1, <3>1, BuffersKept DEF Cache, Appended, InPass, Pos, Prefix
  <2>5. QED
    BY <2>2, <2>3, <2>4 DEF SoloInv
<1>2. CASE o # "refused"
  <2>. DEFINE new == Token(t, Written(buf.logits, o))
              toks == seqs[0].tokens
              T == [id : TokenIds \cup {0}, basis : Provenance]
  <2>. HIDE DEF new
  <2>1. /\ new \in T /\ DOMAIN seqs' = {0}
        /\ seqs'[0] = [req |-> 1, tokens |-> Append(toks, new),
                       position |-> Pos + 1]
    BY <1>2, TopKAppends DEF new
  <2>2. /\ toks \in Seq(T) /\ Len(toks) \in Nat /\ Pos \in Nat
        /\ Pos < Len(toks) /\ Pos + 1 \in 0 .. MaxNew
    BY ReadyFacts
  <2>3. /\ Append(toks, new) \in Seq(T)
        /\ Len(Append(toks, new)) = Len(toks) + 1
        /\ Append(toks, new)[Len(toks) + 1] = new
        /\ \A i \in 1 .. Len(toks) : Append(toks, new)[i] = toks[i]
    BY <2>1, <2>2
  <2>4. seqs'[0] \in [req : {1}, tokens : Seq(T), position : 0 .. MaxNew]
    BY <2>1, <2>2, <2>3
  <2>5. phase' = "IDLE" /\ Pos' = Pos + 1 /\ seqs'[0].tokens = Append(toks, new)
    BY <1>2, <2>1 DEF TopK, Pos
  <2>6. TypeOK'
    <3>1. lastToken' \in TokenIds \cup {0} /\ phase' \in Phases
      BY <1>2 DEF TopK, Phases
    <3>2. DOMAIN seqs' \subseteq {0}
      BY <2>1
    <3>3. QED
      BY <2>4, <3>1, <3>2, SubmitType DEF TypeOK, TopK, Ready, Provenance
  <2>7. Control'
    <3>1. phase' \notin LayerPhases \cup {"LM_HEAD", "TOPK", "EMBED"}
      BY <2>5, PhaseSets
    <3>2. Pos' < Len(seqs'[0].tokens)
      BY <2>2, <2>3, <2>5
    <3>3. 0 \in DOMAIN seqs' /\ requests' = 1 /\ ~kvOob'
      BY <2>1, ReadyFacts DEF TopK, Ready, SoloInv, Control
    <3>4. QED
      BY <3>1, <3>2, <3>3 DEF Control
  <2>8. ASSUME device' = "ok"
        PROVE  /\ device = "ok" /\ phase = "TOPK" /\ Cache
               /\ new.basis = Current
    <3>1. device = "ok" /\ phase = "TOPK"
      BY <2>8 DEF TopK, Submit
    <3>2. Cache /\ Buffers
      BY <3>1 DEF Ready, SoloInv
    <3>3. buf.logits = Current
      BY <3>1, <3>2 DEF Buffers
    <3>4. Written(buf.logits, o) = buf.logits
      BY <2>8, WrittenOk DEF TopK
    <3>5. QED
      BY <3>1, <3>2, <3>3, <3>4 DEF new, Token
  <2>9. SampledFromPrefix'
    <3>1. SUFFICES ASSUME device' = "ok", NEW i \in Sampled'
                   PROVE  seqs'[0].tokens[i].basis =
                            Prefix(1, i - (Len(seqs'[0].tokens) - Pos'))
      BY DEF SampledFromPrefix, Pos
    <3>2. Len(seqs'[0].tokens) - Pos' = Len(toks) - Pos
      BY <2>2, <2>3, <2>5
    <3>3. /\ i \in 1 .. Len(toks) + 1
          /\ i > Len(toks) - Pos
      <4>1. /\ i \in DOMAIN Append(toks, new)
            /\ i > Len(Append(toks, new)) - (Pos + 1)
        BY <2>5 DEF Sampled, Pos
      <4>2. QED
        BY <2>2, <2>3, <4>1
    <3>4. CASE i = Len(toks) + 1
      <4>1. seqs'[0].tokens[i].basis = Current
        BY <2>3, <2>5, <2>8, <3>1, <3>4
      <4>2. i - (Len(toks) - Pos) = Pos + 1
        BY <2>2, <3>4, LastSampled
      <4>3. QED
        BY <3>2, <4>1, <4>2 DEF Current
    <3>5. CASE i \in 1 .. Len(toks)
      <4>1. i \in Sampled
        BY <2>2, <3>3, <3>5 DEF Sampled, Pos
      <4>2. toks[i].basis = Prefix(1, i - (Len(toks) - Pos))
        BY <2>8, <3>1, <4>1, ReadyFacts DEF Ready, SoloInv, SampledFromPrefix, Pos
      <4>3. QED
        BY <2>3, <2>5, <3>2, <3>5, <4>2
    <3>6. QED
      BY <2>2, <3>3, <3>4, <3>5, LastSampled
  <2>10. ASSUME device' = "ok" PROVE Cache' /\ Buffers'
    <3>1. layer = NLayers /\ Cache
      BY <2>8, <2>10 DEF Ready, SoloInv, Control
    <3>2. \A l \in Layers : Appended(l) /\ ~Appended(l)'
      <4>1. \A l \in Layers : l < layer
        BY <3>1, EngineAssumption DEF Layers
      <4>2. InPass /\ ~InPass'
        BY <2>5, <2>8, <2>10, PhaseSets DEF InPass
      <4>3. QED
        BY <4>1, <4>2 DEF Appended
    <3>3. \A l \in Layers : kvLen[l] = Pos + 1
      BY <3>1, <3>2 DEF Cache
    <3>4. UNCHANGED <<kvLen, kvRow>>
      BY DEF TopK
    <3>5. Cache'
      BY <2>5, <3>1, <3>2, <3>3, <3>4 DEF Cache, Prefix
    <3>6. Buffers'
      BY <2>5, PhaseSets DEF Buffers, BeforeWrite
    <3>7. QED
      BY <3>5, <3>6
  <2>11. QED
    BY <2>6, <2>7, <2>9, <2>10 DEF SoloInv
<1>3. QED
  BY <1>1, <1>2

-----------------------------------------------------------------------------
(***************************************************************************)
(* The calls that leave the pass where it is.                              *)
(***************************************************************************)
LEMMA OnlyOk ==
  ASSUME TypeOK, SoloInv, nextIdx' = 0, ok' \in BOOLEAN,
         UNCHANGED <<phase, layer, seqs, hidden, lastToken, buf, kvLen, kvRow,
                     kvOob, loaded, scratch, ringFree, device, requests>>
  PROVE  TypeOK' /\ SoloInv'
<1>1. TypeOK'
  BY DEF TypeOK
<1>2. Control' /\ SampledFromPrefix'
  BY SampledKept DEF SoloInv, Control, Pos
<1>3. ASSUME device' = "ok", 0 \in DOMAIN seqs' PROVE Cache' /\ Buffers'
  <2>1. Cache /\ Buffers
    BY <1>3 DEF SoloInv
  <2>2. QED
    BY <2>1, BuffersKept DEF Cache, Appended, InPass, Pos, Prefix
<1>4. QED
  BY <1>1, <1>2, <1>3 DEF SoloInv

(* VALIDATE and LOAD_WEIGHTS stay outside a pass: nothing is expected of   *)
(* the buffers, and the cache holds what it held.                          *)
LEMMA Outside ==
  ASSUME TypeOK, SoloInv, 0 \in DOMAIN seqs,
         phase \in {"VALIDATE", "LOAD_WEIGHTS"},
         phase' \in {"VALIDATE", "LOAD_WEIGHTS", "IDLE"},
         UNCHANGED <<layer, seqs, kvLen, kvRow, kvOob, requests>>,
         device' = "ok" => device = "ok"
  PROVE  SoloInv'
<1>1. ~InPass /\ ~InPass' /\ phase' \notin LayerPhases \cup {"LM_HEAD", "TOPK", "EMBED"}
  BY PhaseSets DEF InPass
<1>2. Control' /\ SampledFromPrefix'
  BY <1>1, SampledKept DEF SoloInv, Control, Pos
<1>3. ASSUME device' = "ok" PROVE Cache' /\ Buffers'
  <2>1. Cache
    BY <1>3 DEF SoloInv
  <2>2. Cache'
    BY <1>1, <2>1 DEF Cache, Appended, Pos, Prefix
  <2>3. Buffers'
    BY <1>1, PhaseSets DEF Buffers, BeforeWrite
  <2>4. QED
    BY <2>2, <2>3
<1>4. QED
  BY <1>2, <1>3 DEF SoloInv

LEMMA ValidateStep ==
  ASSUME TypeOK, SoloInv, 0 \in DOMAIN seqs, Validate
  PROVE  TypeOK' /\ SoloInv'
<1>1. PICK o \in Outcomes :
        /\ device' = IF o = "lost" THEN "lost" ELSE device
        /\ ok' = (o = "done")
        /\ phase' = IF o = "done" THEN "LOAD_WEIGHTS" ELSE phase
  BY DEF Validate
<1>2. TypeOK'
  <2>1. phase' \in Phases /\ device' \in {"ok", "lost"} /\ ok' \in BOOLEAN
    BY <1>1 DEF TypeOK, Phases
  <2>2. QED
    BY <2>1 DEF TypeOK, Validate
<1>3. phase' \in {"VALIDATE", "LOAD_WEIGHTS"} /\ (device' = "ok" => device = "ok")
  BY <1>1 DEF Validate
<1>4. QED
  BY <1>2, <1>3, Outside DEF Validate

LEMMA LoadWeightsStep ==
  ASSUME TypeOK, SoloInv, 0 \in DOMAIN seqs, LoadWeights
  PROVE  TypeOK' /\ SoloInv'
<1>1. TypeOK'
  <2>1. ringFree' \in 0 .. RingUnits
    BY EngineAssumption DEF TypeOK, LoadWeights
  <2>2. phase' \in Phases /\ scratch' \in BOOLEAN /\ ok' \in BOOLEAN
    BY DEF TypeOK, LoadWeights, Phases
  <2>3. QED
    BY <2>1, <2>2 DEF TypeOK, LoadWeights
<1>2. phase' \in {"LOAD_WEIGHTS", "IDLE"} /\ device' = device
  BY DEF LoadWeights
<1>3. QED
  BY <1>1, <1>2, Outside DEF LoadWeights

LEMMA PrimeStep ==
  ASSUME TypeOK, SoloInv, Prime
  PROVE  TypeOK' /\ SoloInv'
<1>1. PICK n \in 1 .. MaxPrompt : AddSequence(0, n)
  BY DEF Prime
<1>2. n \in Nat \ {0} /\ requests = 0 /\ nextIdx' = 0
  BY SoloAssumption DEF Prime, AddSequence, TypeOK
<1>3. /\ 0 \notin DOMAIN seqs /\ DOMAIN seqs = {}
      /\ phase = "VALIDATE" /\ \A l \in Layers : kvLen[l] = 0
  BY <1>2 DEF SoloInv, Control, TypeOK
<1>4. CASE ok' = FALSE /\ UNCHANGED <<seqs, order, hidden, ringFree, requests>>
  <2>1. UNCHANGED <<phase, layer, seqs, hidden, lastToken, buf, kvLen, kvRow,
                    kvOob, loaded, scratch, ringFree, device, requests>>
        /\ ok' \in BOOLEAN
    BY <1>1, <1>2, <1>4 DEF AddSequence
  <2>2. QED
    BY <1>2, <2>1, OnlyOk
<1>5. CASE ok' = TRUE /\ ringFree > 0
  <2>. DEFINE toks == [i \in 1 .. n |-> Token(0, {})]
              T == [id : TokenIds \cup {0}, basis : Provenance]
  <2>1. /\ DOMAIN seqs' = {0} /\ requests' = 1
        /\ seqs'[0] = [req |-> 1, tokens |-> toks, position |-> 0]
    BY <1>1, <1>2, <1>3, <1>5 DEF AddSequence
  <2>2. toks \in Seq(T) /\ Len(toks) = n
    <3>1. Token(0, {}) \in T
      BY DEF Token, Provenance
    <3>2. QED
      BY <1>2, <3>1
  <2>3. TypeOK'
    <3>1. seqs'[0] \in [req : {1}, tokens : Seq(T), position : 0 .. MaxNew]
      BY <2>1, <2>2, SoloAssumption, EngineAssumption
    <3>2. hidden' \in [SeqIds -> Provenance]
      <4>1. hidden' = [hidden EXCEPT ![0] = {Garbage}]
        BY <1>1, <1>5 DEF AddSequence
      <4>2. hidden \in [SeqIds -> Provenance] /\ {Garbage} \in Provenance
        BY GarbageType DEF TypeOK, Provenance
      <4> QED BY <4>1, <4>2
    <3>3. ringFree' \in 0 .. RingUnits
      BY <1>1, <1>2, <1>5, EngineAssumption DEF AddSequence, TypeOK
    <3>4. ok' \in BOOLEAN
      BY <1>1, <1>2, <1>5 DEF AddSequence
    <3>5. DOMAIN seqs' \subseteq {0} /\ requests' \in {0, 1}
      BY <2>1
    <3>6. QED
      BY <1>1, <1>2, <1>5, <3>1, <3>2, <3>3, <3>4, <3>5 DEF TypeOK, AddSequence, Provenance
  <2>4. phase' = "VALIDATE" /\ Pos' = 0 /\ UNCHANGED <<layer, kvLen, kvRow, kvOob>>
    BY <1>1, <1>2, <1>3, <1>5, <2>1 DEF AddSequence, Pos
  <2>5. Control'
    BY <1>2, <2>1, <2>2, <2>4, PhaseSets DEF Control, SoloInv, Pos
  <2>6. SampledFromPrefix'
    <3>1. Sampled' = {}
      BY <1>2, <2>1, <2>2 DEF Sampled
    <3>2. QED
      BY <3>1 DEF SampledFromPrefix
  <2>7. Cache'
    <3>1. ~InPass'
      BY <2>4, PhaseSets DEF InPass
    <3>2. \A p \in Rows : ~(p < 0)
      BY EngineAssumption DEF Rows
    <3>3. QED
      BY <1>3, <2>4, <3>1, <3>2 DEF Cache, Appended
  <2>8. Buffers'
    BY <2>4, PhaseSets DEF Buffers, BeforeWrite
  <2>9. QED
    BY <2>3, <2>5, <2>6, <2>7, <2>8 DEF SoloInv
<1>6. \/ ok' = FALSE /\ UNCHANGED <<seqs, order, hidden, ringFree, requests>>
      \/ ok' = TRUE /\ ringFree > 0
  BY <1>1 DEF AddSequence
<1>7. QED
  BY <1>4, <1>5, <1>6

-----------------------------------------------------------------------------
LEMMA InitInv ==
  ASSUME Init
  PROVE  TypeOK /\ SoloInv
<1>1. TypeOK
  <2>1. phase \in Phases
    BY DEF Init, Phases
  <2>2. DOMAIN seqs = {}
    BY DEF Init
  <2>3. hidden \in [SeqIds -> Provenance] /\ buf \in [Scratch -> Provenance]
    BY GarbageType DEF Init, Provenance
  <2>4. kvRow \in [Layers -> [Rows -> Provenance]] /\ kvLen \in [Layers -> Nat]
    BY GarbageType DEF Init, Provenance
  <2>5. layer \in 0 .. NLayers /\ ringFree \in 0 .. RingUnits
    BY EngineAssumption DEF Init
  <2>6. loaded \subseteq Layers
    BY EngineAssumption DEF Init, Layers
  <2>7. QED
    BY <2>1, <2>2, <2>3, <2>4, <2>5, <2>6 DEF Init, TypeOK, Provenance
<1>2. 0 \notin DOMAIN seqs
  BY DEF Init
<1>3. Control
  BY <1>2, PhaseSets DEF Init, Control
<1>4. QED
  BY <1>1, <1>2, <1>3 DEF SoloInv, SampledFromPrefix

LEMMA StepInv ==
  ASSUME Fits, TypeOK, SoloInv, [SoloNext]_vars
  PROVE  TypeOK' /\ SoloInv'
<1>1. CASE UNCHANGED vars
  BY <1>1, OnlyOk DEF vars, TypeOK
<1>2. CASE Prime
  BY <1>2, PrimeStep
<1>3. CASE Step
  <2>1. 0 \in DOMAIN seqs /\ Ready
    BY <1>3 DEF Step, Ready
  <2>2. CASE Validate
    BY <2>1, <2>2, ValidateStep
  <2>3. CASE LoadWeights
    BY <2>1, <2>3, LoadWeightsStep
  <2>4. CASE NothingPending
    <3>1. nextIdx' = 0 /\ ok' \in BOOLEAN
      BY <2>4 DEF NothingPending, TypeOK
    <3>2. QED
      BY <2>4, <3>1, OnlyOk DEF NothingPending
  <2>5. ASSUME NEW s \in SeqIds, DecodeStep(s) PROVE TypeOK' /\ SoloInv'
    <3>1. s = 0 /\ nextIdx' = 0
      BY <2>5, OnlyTurn DEF DecodeStep
    <3>2. CASE StreamingFails
      BY <3>1, <3>2, OnlyOk DEF StreamingFails
    <3>3. CASE LayerNext
      BY <2>1, <3>1, <3>3, LayerNextStep
    <3>4. ASSUME NEW o \in Outcomes,
                 \/ DispatchEmbed(s, o)
                 \/ LayerKernel(s, o)
                 \/ DispatchRope(s, o)
                 \/ DispatchKvCacheWrite(s, o)
                 \/ DispatchFlashAttn(s, o)
                 \/ LmHead(s, o)
                 \/ \E t \in TokenIds : TopK(s, o, t)
          PROVE  TypeOK' /\ SoloInv'
      BY <2>1, <3>1, <3>4, EmbedStep, KernelStep, RopeStep, KvCacheWriteStep,
         FlashAttnStep, LmHeadStep, TopKStep
    <3>5. QED
      BY <2>5, <3>2, <3>3, <3>4 DEF DecodeStep
  <2>6. QED
    BY <1>3, <2>2, <2>3, <2>4, <2>5 DEF Step, StepBatch
<1>4. QED
  BY <1>1, <1>2, <1>3 DEF SoloNext

(* The invariant is inductive, so it holds in every behaviour.             *)
THEOREM Invariance ==
  ASSUME Fits PROVE SoloSpec => [](TypeOK /\ SoloInv)
<1>1. Init => TypeOK /\ SoloInv
  BY InitInv
<1>2. (TypeOK /\ SoloInv) /\ [SoloNext]_vars => (TypeOK /\ SoloInv)'
  BY StepInv
<1>3. QED
  BY <1>1, <1>2, PTL DEF SoloSpec

(* One request always keeps the engine's variables in their types.         *)
THEOREM SoloTypeOK ==
  ASSUME Fits PROVE SoloSpec => []TypeOK
BY Invariance, PTL

(* Every token StepBatch samples for one request is computed from exactly  *)
(* the inputs processed so far, for every number of layers and tokens.     *)
THEOREM SoloSampledFromPrefix ==
  ASSUME Fits PROVE SoloSpec => []SampledFromPrefix
<1>1. SoloInv => SampledFromPrefix
  BY DEF SoloInv
<1>2. QED
  BY <1>1, Invariance, PTL

(* DispatchKvCacheWrite stays inside the KV buffers as long as one request *)
(* is given no more tokens than max_seq_len_.                              *)
THEOREM SoloKvInBounds ==
  ASSUME Fits PROVE SoloSpec => []KvInBounds
<1>1. SoloInv => KvInBounds
  BY DEF SoloInv, Control, KvInBounds
<1>2. QED
  BY <1>1, Invariance, PTL

(* Once a wait has reported a lost device no call of StepBatch appends a   *)
(* token, although only two kinds of call look at the result of the wait.  *)
THEOREM SoloNoTokenAfterLoss ==
  ASSUME Fits PROVE SoloSpec => NoTokenAfterLoss
<1>1. TypeOK /\ SoloInv /\ [SoloNext]_vars => [device = "lost" => UNCHANGED seqs]_vars
  <2>1. SUFFICES ASSUME TypeOK, SoloInv, [SoloNext]_vars, device = "lost"
                 PROVE  UNCHANGED seqs
    OBVIOUS
  <2>2. CASE Prime
    BY <2>1, <2>2 DEF Prime, SoloInv, Control
  <2>3. ASSUME NEW s \in SeqIds, DecodeStep(s) PROVE UNCHANGED seqs
    <3>1. CASE StreamingFails \/ LayerNext
      BY <3>1 DEF StreamingFails, LayerNext
    <3>2. ASSUME NEW o \in Outcomes, NEW t \in TokenIds, TopK(s, o, t)
          PROVE  UNCHANGED seqs
      BY <2>1, <3>2 DEF TopK, Submit
    <3>3. ASSUME NEW o \in Outcomes,
                 \/ DispatchEmbed(s, o)
                 \/ LayerKernel(s, o)
                 \/ DispatchRope(s, o)
                 \/ DispatchKvCacheWrite(s, o)
                 \/ DispatchFlashAttn(s, o)
                 \/ LmHead(s, o)
          PROVE  UNCHANGED seqs
      BY <3>3 DEF DispatchEmbed, LayerKernel, DispatchRope,
                  DispatchKvCacheWrite, DispatchFlashAttn, LmHead
    <3>4. QED
      BY <2>3, <3>1, <3>2, <3>3 DEF DecodeStep
  <2>4. QED
    BY <2>1, <2>2, <2>3
       DEF SoloNext, Step, StepBatch, Validate, LoadWeights, NothingPending, vars
<1>2. QED
  BY <1>1, Invariance, PTL DEF SoloSpec, NoTokenAfterLoss
-----------------------------------------------------------------------------
(***************************************************************************)
(* SoloRequest implements Decoder.                                         *)
(***************************************************************************)

(* A step of the request other than Prime and a token sampled.             *)
LEMMA QuietStep ==
  ASSUME TypeOK, SoloInv, 0 \in DOMAIN seqs, UNCHANGED seqs,
         \/ device' = device
         \/ device = "ok" /\ device' = "lost"
  PROVE  [Promised!Next]_(Promised!vars)
<1>1. UNCHANGED Produced /\ UNCHANGED (0 \in DOMAIN seqs)
  BY DEF Produced, Pos
<1>2. CASE device' = device
  BY <1>1, <1>2 DEF Promised!vars
<1>3. CASE device = "ok" /\ device' = "lost"
  <2>1. Promised!Lose
    BY <1>1, <1>3 DEF Promised!Lose
  <2>2. QED
    BY <2>1 DEF Promised!Next
<1>4. QED
  BY <1>2, <1>3

LEMMA SubmitDevice ==
  ASSUME TypeOK, NEW o \in Outcomes, Submit(o)
  PROVE  /\ device' = device \/ (device = "ok" /\ device' = "lost")
         /\ o = "refused" => device' = device
BY DEF TypeOK, Outcomes, Submit

LEMMA SequenceAsFunction ==
  ASSUME NEW T, NEW s \in Seq(T), NEW n \in Nat, Len(s) = n
  PROVE  s = [i \in 1 .. n |-> s[i]]
OBVIOUS

(* A token sampled is the next one of those produced.                      *)
LEMMA ProducedAppends ==
  ASSUME Ready, NEW new,
         DOMAIN seqs' = {0},
         seqs'[0] = [req |-> 1, tokens |-> Append(seqs[0].tokens, new),
                     position |-> Pos + 1],
         new \in [id : TokenIds \cup {0}, basis : Provenance]
  PROVE  /\ Produced' = Append(Produced, new) /\ Len(Produced) = Pos
         /\ Produced \in Seq([id : TokenIds \cup {0}, basis : Provenance])
<1>. DEFINE toks == seqs[0].tokens
            T == [id : TokenIds \cup {0}, basis : Provenance]
<1>1. /\ toks \in Seq(T) /\ Len(toks) \in Nat /\ Pos \in Nat
      /\ Pos < Len(toks) /\ DOMAIN seqs = {0}
  BY ReadyFacts
<1>2. /\ Append(toks, new) \in Seq(T)
      /\ Len(Append(toks, new)) = Len(toks) + 1
      /\ Append(toks, new)[Len(toks) + 1] = new
      /\ \A i \in 1 .. Len(toks) : Append(toks, new)[i] = toks[i]
  BY <1>1
<1>3. Pos' = Pos + 1 /\ seqs'[0].tokens = Append(toks, new)
  BY DEF Pos
<1>. HIDE DEF toks, T
<1>4. Produced = [i \in 1 .. Pos |-> toks[Len(toks) - Pos + i]]
  BY <1>1 DEF Produced, toks
<1>5. Produced \in Seq(T) /\ Len(Produced) = Pos
  <2>1. \A i \in 1 .. Pos : toks[Len(toks) - Pos + i] \in T
    <3>1. TAKE i \in 1 .. Pos
    <3>2. Len(toks) - Pos + i \in 1 .. Len(toks)
      BY <1>1
    <3>3. QED
      BY <1>1, <3>2
  <2>2. Produced \in [1 .. Pos -> T]
    BY <1>4, <2>1
  <2>3. QED
    BY <1>1, <2>2
<1>6. Produced' =
        [i \in 1 .. Pos + 1 |-> Append(toks, new)[Len(toks) - Pos + i]]
  <2>1. Len(seqs'[0].tokens) - Pos' = Len(toks) - Pos
    <3>1. Len(seqs'[0].tokens) = Len(toks) + 1
      BY <1>2, <1>3, Zenon
    <3>2. QED
      BY <1>1, <1>3, <3>1
  <2>2. Produced' =
          [i \in 1 .. Pos' |->
             seqs'[0].tokens[Len(seqs'[0].tokens) - Pos' + i]]
    BY DEF Produced
  <2>3. QED
    BY <1>3, <2>1, <2>2, Zenon
<1>7. \A i \in 1 .. Pos + 1 :
        Append(toks, new)[Len(toks) - Pos + i] = Append(Produced, new)[i]
  <2>1. SUFFICES ASSUME NEW i \in 1 .. Pos + 1
                 PROVE  Append(toks, new)[Len(toks) - Pos + i]
                          = Append(Produced, new)[i]
    OBVIOUS
  <2>2. CASE i = Pos + 1
    BY <1>1, <1>2, <1>5, <2>2
  <2>3. CASE i \in 1 .. Pos
    <3>1. Len(toks) - Pos + i \in 1 .. Len(toks)
      BY <1>1, <2>3
    <3>2. Append(toks, new)[Len(toks) - Pos + i] = toks[Len(toks) - Pos + i]
      BY <1>2, <3>1
    <3>3. Append(Produced, new)[i] = Produced[i]
      BY <1>5, <2>3
    <3>4. QED
      BY <1>4, <2>3, <3>2, <3>3
  <2>4. i = Pos + 1 \/ i \in 1 .. Pos
    BY <1>1
  <2>5. QED
    BY <2>2, <2>3, <2>4, Zenon
<1>8. Append(Produced, new) = [i \in 1 .. Pos + 1 |-> Append(Produced, new)[i]]
  <2>1. /\ Append(Produced, new) \in Seq(T)
        /\ Len(Append(Produced, new)) = Pos + 1
    BY <1>5 DEF T
  <2>2. Pos + 1 \in Nat
    BY <1>1
  <2>3. QED
    BY <2>1, <2>2, SequenceAsFunction, Zenon
<1>9. QED
  BY <1>5, <1>6, <1>7, <1>8 DEF T

LEMMA TopKEmits ==
  ASSUME Ready, SoloInv', nextIdx' = 0, NEW o \in Outcomes, NEW t \in TokenIds,
         TopK(0, o, t)
  PROVE  [Promised!Next]_(Promised!vars)
<1>1. CASE o = "refused"
  BY <1>1, QuietStep, SubmitDevice DEF TopK, Ready
<1>2. CASE o # "refused"
  <2>. DEFINE new == Token(t, Written(buf.logits, o))
  <2>1. /\ new \in [id : TokenIds \cup {0}, basis : Provenance]
        /\ DOMAIN seqs' = {0}
        /\ seqs'[0] = [req |-> 1, tokens |-> Append(seqs[0].tokens, new),
                       position |-> Pos + 1]
    BY <1>2, TopKAppends
  <2>2. new.id = t /\ new = [id |-> new.id, basis |-> new.basis]
    BY DEF Token
  <2>. HIDE DEF new
  <2>3. /\ Produced' = Append(Produced, new) /\ Len(Produced) = Pos
        /\ Produced \in Seq([id : TokenIds \cup {0}, basis : Provenance])
    BY <2>1, ProducedAppends
  <2>4. /\ 0 \in DOMAIN seqs /\ UNCHANGED (0 \in DOMAIN seqs)
        /\ Pos \in Nat /\ Pos < MaxNew
    BY <2>1, ReadyFacts DEF Ready, Pos
  <2>5. device = "ok"
    BY <1>2 DEF TopK, Submit, Ready, TypeOK
  <2>6. CASE device' = "ok"
    <3>1. new.basis = Current
      <4>1. phase = "TOPK" /\ buf.logits = Current
        BY <2>5 DEF TopK, Ready, SoloInv, Buffers
      <4>2. Written(buf.logits, o) = buf.logits
        BY <2>6, WrittenOk DEF TopK
      <4>3. QED
        BY <4>1, <4>2 DEF new, Token
    <3>2. Current = Promised!Inputs(Pos + 1)
      BY DEF Current, Prefix, Promised!Inputs
    <3>3. Promised!Emit
      BY <2>2, <2>3, <2>4, <2>5, <2>6, <3>1, <3>2 DEF Promised!Emit
    <3>4. QED
      BY <3>3 DEF Promised!Next
  <2>7. CASE device' # "ok"
    <3>1. /\ Len(Produced') = Len(Produced) + 1
          /\ SubSeq(Produced', 1, Len(Produced)) = Produced
      BY <2>1, <2>3, <2>4
    <3>2. Promised!Lose
      BY <2>3, <2>4, <2>5, <2>7, <3>1 DEF Promised!Lose
    <3>3. QED
      BY <3>2 DEF Promised!Next
  <2>8. QED
    BY <2>6, <2>7
<1>3. QED
  BY <1>1, <1>2

(* Each step of the engine for its one request is one of Decoder.          *)
LEMMA DecoderStep ==
  ASSUME Fits, TypeOK, SoloInv, TypeOK', SoloInv', [SoloNext]_vars
  PROVE  [Promised!Next]_(Promised!vars)
<1>1. CASE UNCHANGED vars
  <2>1. UNCHANGED <<seqs, device>>
    BY <1>1 DEF vars
  <2>2. QED
    BY <2>1 DEF Promised!vars, Produced, Pos
<1>2. CASE Prime
  <2>1. 0 \notin DOMAIN seqs /\ UNCHANGED device
    BY <1>2 DEF Prime, AddSequence, SoloInv, Control
  <2>2. CASE UNCHANGED seqs
    BY <2>1, <2>2 DEF Promised!vars, Produced, Pos
  <2>3. CASE seqs' # seqs
    <3>1. 0 \in DOMAIN seqs' /\ Pos' = 0
      BY <1>2, <2>3 DEF Prime, AddSequence, Pos
    <3>2. Produced' = << >> /\ Produced = << >>
      BY <2>1, <3>1 DEF Produced
    <3>3. Promised!Accept
      BY <2>1, <3>1, <3>2 DEF Promised!Accept
    <3>4. QED
      BY <3>3 DEF Promised!Next
  <2>4. QED
    BY <2>2, <2>3
<1>3. CASE Step
  <2>1. 0 \in DOMAIN seqs /\ Ready
    BY <1>3 DEF Step, Ready
  <2>2. CASE Validate
    BY <2>1, <2>2, QuietStep DEF Validate, TypeOK, Outcomes
  <2>3. CASE LoadWeights \/ NothingPending
    BY <2>1, <2>3, QuietStep DEF LoadWeights, NothingPending
  <2>4. ASSUME NEW s \in SeqIds, DecodeStep(s)
        PROVE  [Promised!Next]_(Promised!vars)
    <3>1. s = 0 /\ nextIdx' = 0
      BY <2>4, OnlyTurn DEF DecodeStep
    <3>2. CASE StreamingFails \/ LayerNext
      BY <2>1, <3>2, QuietStep DEF StreamingFails, LayerNext
    <3>3. ASSUME NEW o \in Outcomes,
                 \/ DispatchEmbed(s, o)
                 \/ LayerKernel(s, o)
                 \/ DispatchRope(s, o)
                 \/ DispatchKvCacheWrite(s, o)
                 \/ DispatchFlashAttn(s, o)
                 \/ LmHead(s, o)
          PROVE  [Promised!Next]_(Promised!vars)
      <4>1. UNCHANGED seqs /\ Submit(o)
        BY <3>3 DEF DispatchEmbed, LayerKernel, DispatchRope,
                    DispatchKvCacheWrite, DispatchFlashAttn, LmHead
      <4>2. QED
        BY <2>1, <4>1, QuietStep, SubmitDevice
    <3>4. ASSUME NEW o \in Outcomes, NEW t \in TokenIds, TopK(s, o, t)
          PROVE  [Promised!Next]_(Promised!vars)
      BY <2>1, <3>1, <3>4, TopKEmits
    <3>5. QED
      BY <2>4, <3>2, <3>3, <3>4 DEF DecodeStep
  <2>5. QED
    BY <1>3, <2>2, <2>3, <2>4 DEF Step, StepBatch
<1>4. QED
  BY <1>1, <1>2, <1>3 DEF SoloNext

(* A single-shot request is a decoder: seen by its caller, StepBatch       *)
(* accepts a prompt, emits tokens one at a time, each computed from exactly*)
(* the inputs so far, and leaves those it has emitted alone.               *)
THEOREM SoloImplementsDecoder ==
  ASSUME Fits PROVE SoloSpec => ImplementsDecoder
<1>1. Init => Promised!Init
  BY DEF Init, Promised!Init, Produced
<1>2. /\ TypeOK /\ SoloInv /\ (TypeOK /\ SoloInv)' /\ [SoloNext]_vars
      => [Promised!Next]_(Promised!vars)
  BY DecoderStep
<1>3. QED
  BY <1>1, <1>2, Invariance, PTL DEF SoloSpec, ImplementsDecoder, Promised!Spec
=============================================================================
