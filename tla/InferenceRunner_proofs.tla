----------------------- MODULE InferenceRunner_proofs -----------------------
(***************************************************************************)
(* The inference runner on any engine, for any models, tokens and calls:   *)
(* which model the engine is run for, and what is reported of the tokens   *)
(* it samples.                                                             *)
(***************************************************************************)
EXTENDS InferenceRunner, SoloRequest_proofs

-----------------------------------------------------------------------------
(* A prompt that is primed belongs to the current model, and while there   *)
(* is a current model the engine is its engine.                            *)
ModelInv ==
  /\ currentModel # NoModel => engineModel = currentModel
  /\ primed \/ pc # "Out" => currentModel # NoModel
  /\ pc = "Run" => primed

(* What StepBatch and the reset of the engine leave alone.                 *)
LEMMA ModelInitially == RunnerInit => ModelInv
  BY DEF RunnerInit, ModelInv

LEMMA ModelStep == ModelInv /\ [RunnerNext]_allVars => ModelInv'
<1> SUFFICES ASSUME ModelInv, [RunnerNext]_allVars PROVE ModelInv'
  OBVIOUS
<1> USE DEF ModelInv
<1>1. CASE UNCHANGED allVars
  BY <1>1 DEF allVars, runnerVars
<1>2. ASSUME NEW m \in Models, NEW n, NEW b, Call(m, n, b) PROVE ModelInv'
  <2>1. currentModel' = m /\ engineModel' = m /\ pc' = "ResetEngine" /\ primed' = primed
    <3>1. m # NoModel
      BY RunnerAssumption
    <3> QED BY <1>2, <3>1 DEF Call, KeepEngine, NewEngine
  <2> QED BY <2>1, RunnerAssumption
<1>3. CASE PrimeResets
  BY <1>3 DEF PrimeResets
<1>4. CASE PrimeAdds
  BY <1>4 DEF PrimeAdds
<1>5. CASE RunUntilToken
  BY <1>5 DEF RunUntilToken, Report
<1>6. CASE GenerateOne
  BY <1>6 DEF GenerateOne
<1>7. CASE Reset \/ Cleanup
  BY <1>7 DEF Reset, Cleanup, RunnerReset
<1> QED BY <1>1, <1>2, <1>3, <1>4, <1>5, <1>6, <1>7 DEF RunnerNext, Thread, Caller

(* Whatever was reset, changed or failed before: the engine only runs for  *)
(* the model of the call.                                                  *)
THEOREM RunnerEngineOfModel == RunnerSpec => []EngineOfCurrentModel
<1>1. ModelInv => EngineOfCurrentModel
  BY DEF ModelInv, EngineOfCurrentModel
<1> QED BY <1>1, ModelInitially, ModelStep, PTL DEF RunnerSpec

-----------------------------------------------------------------------------
(* Sequences of anything.                                                  *)
IsSeq(q) == \E S : q \in Seq(S)

LEMMA AppendIs ==
  ASSUME NEW q, IsSeq(q), NEW e
  PROVE  /\ IsSeq(Append(q, e)) /\ Len(q) \in Nat /\ Len(Append(q, e)) = Len(q) + 1
         /\ DOMAIN q = 1 .. Len(q) /\ DOMAIN Append(q, e) = 1 .. Len(q) + 1
         /\ \A i \in 1 .. Len(q) : Append(q, e)[i] = q[i]
         /\ Append(q, e)[Len(q) + 1] = e
<1>1. PICK S : q \in Seq(S)
  BY DEF IsSeq
<1>2. q \in Seq(S \cup {e})
  BY <1>1
<1>3. Append(q, e) \in Seq(S \cup {e})
  BY <1>2
<1> QED BY <1>2, <1>3 DEF IsSeq

LEMMA FunctionIsSeq ==
  ASSUME NEW n \in Nat, NEW f, f = [i \in 1 .. n |-> f[i]]
  PROVE  IsSeq(f) /\ Len(f) = n
<1> DEFINE S == {f[i] : i \in 1 .. n}
<1>1. f \in [1 .. n -> S]
  OBVIOUS
<1> HIDE DEF S
<1>2. f \in Seq(S)
  BY <1>1
<1> QED BY <1>1, <1>2 DEF IsSeq

LEMMA SameSeq ==
  ASSUME NEW q, IsSeq(q), NEW r, IsSeq(r), Len(q) = Len(r), \A i \in 1 .. Len(q) : q[i] = r[i]
  PROVE  q = r
<1>1. PICK S : q \in Seq(S)
  BY DEF IsSeq
<1>2. PICK T : r \in Seq(T)
  BY DEF IsSeq
<1>3. q \in Seq(S \cup T) /\ r \in Seq(S \cup T)
  BY <1>1, <1>2
<1> QED BY <1>3

LEMMA TailAppend ==
  ASSUME NEW q, IsSeq(q), Len(q) > 0, NEW e
  PROVE  Tail(Append(q, e)) = Append(Tail(q), e) /\ IsSeq(Tail(q))
<1>1. PICK S : q \in Seq(S)
  BY DEF IsSeq
<1>2. q \in Seq(S \cup {e}) /\ q # << >>
  BY <1>1
<1>3. Tail(q) \in Seq(S \cup {e}) /\ Len(Tail(q)) = Len(q) - 1
  BY <1>2
<1>4. Tail(Append(q, e)) = Append(Tail(q), e)
  BY <1>2, <1>3
<1> QED BY <1>3, <1>4 DEF IsSeq

-----------------------------------------------------------------------------
(* A StepBatch samples a token for a sequence, or it samples none, and is  *)
(* then not the step from TOPK to IDLE.                                    *)
LEMMA NotSampling == "TOPK" \notin DOMAIN Kernel
  BY DEF Kernel

(* TOPK samples token t for sequence s.                                    *)
Samples(s, t) ==
  /\ phase = "TOPK" /\ phase' = "IDLE" /\ ok' = TRUE
  /\ lastToken' = t
  /\ \E S : seqs' = [seqs EXCEPT ![s].tokens = Append(@, Token(t, S)), ![s].position = @ + 1]

NothingSampled ==
  /\ UNCHANGED <<seqs, lastToken>>
  /\ phase # "TOPK" \/ phase' # "IDLE"

LEMMA Stepping ==
  ASSUME StepBatch
  PROVE  NothingSampled \/ \E s \in Pending, t \in TokenIds : Samples(s, t)
<1>1. CASE Validate
  BY <1>1 DEF Validate, NothingSampled
<1>2. CASE LoadWeights
  BY <1>2 DEF LoadWeights, NothingSampled
<1>3. CASE NothingPending
  BY <1>3 DEF NothingPending, NothingSampled
<1>4. ASSUME NEW s \in SeqIds, DecodeStep(s)
      PROVE  NothingSampled \/ \E r \in Pending, t \in TokenIds : Samples(r, t)
  <2>1. s \in Pending
    BY <1>4 DEF DecodeStep, Turn
  <2>2. CASE StreamingFails \/ LayerNext
    BY <2>2 DEF StreamingFails, LayerNext, NothingSampled, LayerPhases
  <2>3. ASSUME NEW o \in Outcomes,
               \/ DispatchEmbed(s, o) \/ DispatchRope(s, o) \/ DispatchKvCacheWrite(s, o)
               \/ DispatchFlashAttn(s, o) \/ LmHead(s, o)
        PROVE  NothingSampled
    BY <2>3 DEF DispatchEmbed, DispatchRope, DispatchKvCacheWrite, DispatchFlashAttn, LmHead,
         NothingSampled
  <2>4. ASSUME NEW o \in Outcomes, LayerKernel(s, o) PROVE NothingSampled
    BY <2>4, NotSampling DEF LayerKernel, NothingSampled
  <2>5. ASSUME NEW o \in Outcomes, NEW t \in TokenIds, TopK(s, o, t)
        PROVE  NothingSampled \/ Samples(s, t)
    BY <2>5 DEF TopK, NothingSampled, Samples
  <2> QED BY <1>4, <2>1, <2>2, <2>3, <2>4, <2>5 DEF DecodeStep
<1> QED BY <1>1, <1>2, <1>3, <1>4 DEF StepBatch

-----------------------------------------------------------------------------
(* What is reported.  From the moment a prompt is primed, either nothing   *)
(* was sampled or reported yet, or last_token_ is what the engine sampled  *)
(* last, or the engine is new and has sampled nothing: only in the first   *)
(* case can RunUntilToken report a token that TOPK did not just sample.    *)
EntryOk(e) == /\ IsSeq(e.tokens) /\ e.position \in Nat /\ e.position <= Len(e.tokens)
              /\ {"tokens", "position"} \subseteq DOMAIN e

(* An engine that had sampled a token before the prompt was added may hand *)
(* that one out first; what follows it is what was sampled since.          *)
ReportedOrInherited ==
  0 \in DOMAIN seqs =>
    \/ reported = SampledIds
    \/ inherited # 0 /\ Len(reported) > 0 /\ Tail(reported) = SampledIds

ReportInv ==
  /\ ModelInv
  /\ prompt \in Nat
  /\ DOMAIN seqs \subseteq {0}
  /\ 0 \in DOMAIN seqs => EntryOk(seqs[0])
  /\ IsSeq(reported)
  /\ ReportedOrInherited
  /\ primed /\ 0 \in DOMAIN seqs =>
       \/ lastSeen = lastToken \/ lastToken = 0
       \/ reported = << >> /\ seqs[0].position = 0 /\ inherited # 0

(* The ids of the last n tokens of a sequence.                             *)
LastIds(tokens, n) == [i \in 1 .. n |-> tokens[Len(tokens) - n + i].id]

LEMMA SampledIs ==
  /\ SampledIds = LastIds(seqs[0].tokens, seqs[0].position)
  /\ SampledIds' = LastIds(seqs'[0].tokens, seqs'[0].position)
  BY DEF SampledIds, LastIds

LEMMA LastIdsAppend ==
  ASSUME NEW q, IsSeq(q), NEW n \in Nat, n <= Len(q), NEW e
  PROVE  LastIds(Append(q, e), n + 1) = Append(LastIds(q, n), e.id)
<1> DEFINE a == LastIds(q, n)
           b == LastIds(Append(q, e), n + 1)
           c == Append(a, e.id)
<1>1. /\ Len(Append(q, e)) = Len(q) + 1 /\ Append(q, e)[Len(q) + 1] = e /\ Len(q) \in Nat
      /\ \A i \in 1 .. Len(q) : Append(q, e)[i] = q[i]
  BY AppendIs
<1>2. IsSeq(a) /\ Len(a) = n /\ \A i \in 1 .. n : a[i] = q[Len(q) - n + i].id
  <2>1. a = [i \in 1 .. n |-> a[i]] /\ \A i \in 1 .. n : a[i] = q[Len(q) - n + i].id
    BY DEF LastIds
  <2> HIDE DEF a
  <2> QED BY <2>1, FunctionIsSeq
<1>3. /\ IsSeq(b) /\ Len(b) = n + 1
      /\ \A i \in 1 .. n + 1 : b[i] = Append(q, e)[Len(q) + 1 - (n + 1) + i].id
  <2>1. /\ b = [i \in 1 .. n + 1 |-> b[i]] /\ n + 1 \in Nat
        /\ \A i \in 1 .. n + 1 : b[i] = Append(q, e)[Len(q) + 1 - (n + 1) + i].id
    BY <1>1 DEF LastIds
  <2> HIDE DEF b
  <2> QED BY <2>1, FunctionIsSeq
<1> HIDE DEF a, b
<1>4. /\ IsSeq(c) /\ Len(c) = n + 1 /\ c[n + 1] = e.id
      /\ \A i \in 1 .. n : c[i] = a[i]
  BY <1>2, AppendIs
<1> HIDE DEF c
<1>5. ASSUME NEW i \in 1 .. n PROVE b[i] = c[i]
  <2>1. Len(q) + 1 - (n + 1) + i = Len(q) - n + i /\ Len(q) - n + i \in 1 .. Len(q)
    BY <1>1
  <2> QED BY <1>1, <1>2, <1>3, <1>4, <2>1
<1>6. b[n + 1] = c[n + 1]
  <2>1. Len(q) + 1 - (n + 1) + (n + 1) = Len(q) + 1
    BY <1>1
  <2> QED BY <1>1, <1>3, <1>4, <2>1
<1>7. \A i \in 1 .. n + 1 : b[i] = c[i]
  BY <1>5, <1>6
<1>8. b = c
  BY <1>3, <1>4, <1>7, SameSeq
<1> QED BY <1>8 DEF b, c, a

LEMMA ReportInitially == RunnerInit => ReportInv
<1> SUFFICES ASSUME RunnerInit PROVE ReportInv
  OBVIOUS
<1>1. /\ seqs = << >> /\ reported = << >> /\ prompt = 0
  BY DEF RunnerInit, Init
<1>2. DOMAIN seqs = {} /\ IsSeq(reported)
  BY <1>1 DEF IsSeq
<1> QED BY <1>1, <1>2, ModelInitially DEF ReportInv, ReportedOrInherited

(* The sequence, and what was reported of it, are left as they are.        *)
LEMMA StandingKeeps ==
  ASSUME ReportInv, ModelInv', UNCHANGED <<seqs, reported, lastToken, inherited>>, prompt' \in Nat,
         UNCHANGED lastSeen \/ primed' = FALSE, primed' => primed
  PROVE  ReportInv'
<1>1. SampledIds' = SampledIds
  BY DEF SampledIds
<1>2. ReportedOrInherited'
  BY <1>1 DEF ReportInv, ReportedOrInherited
<1>3. UNCHANGED lastSeen \/ ~primed'
  OBVIOUS
<1> QED BY <1>2, <1>3 DEF ReportInv

LEMMA PrimeAddsKeeps ==
  ASSUME ReportInv, ModelInv', PrimeAdds
  PROVE  ReportInv'
<1>1. CASE ~ok'
  BY <1>1, StandingKeeps DEF PrimeAdds, AddSequence, ReportInv
<1>2. CASE ok'
  <2> DEFINE new == [i \in 1 .. prompt |-> Token(0, {})]
  <2>1. /\ reported' = << >> /\ lastSeen' = 0 /\ prompt' = prompt /\ prompt \in Nat
        /\ inherited' = lastToken /\ lastToken' = lastToken
    BY <1>2 DEF PrimeAdds, AddSequence, ReportInv
  <2>2. /\ seqs' = [t \in DOMAIN seqs \cup {0} |->
                     IF t = 0 THEN [req |-> requests + 1, tokens |-> new, position |-> 0]
                     ELSE seqs[t]]
        /\ DOMAIN seqs \subseteq {0}
    BY <1>2 DEF PrimeAdds, AddSequence, ReportInv
  <2>3. IsSeq(new) /\ Len(new) = prompt
    <3>1. new = [i \in 1 .. prompt |-> new[i]]
      OBVIOUS
    <3> HIDE DEF new
    <3> QED BY <2>1, <3>1, FunctionIsSeq
  <2> HIDE DEF new
  <2>4. DOMAIN seqs' = {0} /\ seqs'[0] = [req |-> requests + 1, tokens |-> new, position |-> 0]
    BY <2>2
  <2>5. EntryOk(seqs'[0]) /\ seqs'[0].position = 0
    BY <2>1, <2>3, <2>4 DEF EntryOk
  <2>6. SampledIds' = << >>
    <3>1. SampledIds' = LastIds(seqs'[0].tokens, 0)
      BY <2>5, SampledIs
    <3> QED BY <3>1 DEF LastIds
  <2>7. IsSeq(reported')
    BY <2>1 DEF IsSeq
  <2> QED BY <2>1, <2>4, <2>5, <2>6, <2>7 DEF ReportInv, ReportedOrInherited
<1>3. ok' \in BOOLEAN
  BY DEF PrimeAdds, AddSequence
<1> QED BY <1>1, <1>2, <1>3

LEMMA RunKeeps ==
  ASSUME ReportInv, ModelInv', RunUntilToken
  PROVE  ReportInv'
<1>1. /\ primed /\ primed' = primed /\ prompt' = prompt /\ prompt \in Nat
      /\ DOMAIN seqs \subseteq {0} /\ IsSeq(reported)
      /\ 0 \in DOMAIN seqs => EntryOk(seqs[0])
  BY DEF RunUntilToken, ReportInv, ModelInv
<1>2. CASE NothingSampled /\ UNCHANGED <<lastSeen, reported>>
  <2>1. inherited' = inherited
    BY DEF RunUntilToken
  <2> QED BY <1>1, <1>2, <2>1, StandingKeeps DEF NothingSampled
<1>3. CASE NothingSampled /\ Generated /\ Report
  <2>1. /\ UNCHANGED <<seqs, lastToken>> /\ lastToken # 0 /\ lastToken # lastSeen
        /\ lastSeen' = lastToken /\ reported' = Append(reported, lastToken)
    BY <1>3 DEF NothingSampled, Generated, Report
  <2>2. IsSeq(reported')
    BY <1>1, <2>1, AppendIs
  <2>3. ASSUME 0 \in DOMAIN seqs
        PROVE  reported' = <<lastToken>> /\ SampledIds' = << >> /\ inherited' # 0
    <3>1. reported = << >> /\ seqs[0].position = 0 /\ inherited # 0
      BY <1>1, <2>1, <2>3 DEF ReportInv
    <3>2. SampledIds' = << >>
      BY <2>1, <3>1 DEF SampledIds
    <3>3. inherited' = inherited
      BY DEF RunUntilToken
    <3> QED BY <2>1, <3>1, <3>2, <3>3
  <2>4. ReportedOrInherited'
    BY <2>1, <2>3 DEF ReportedOrInherited
  <2> QED BY <1>1, <2>1, <2>2, <2>4 DEF ReportInv
<1>4. ASSUME NEW s \in Pending, NEW t \in TokenIds, Samples(s, t), Report
      PROVE  ReportInv'
  <2>1. s = 0 /\ DOMAIN seqs = {0} /\ EntryOk(seqs[0])
    BY <1>1 DEF Pending
  <2> DEFINE e == seqs[0]
  <2>2. PICK S : seqs' = [seqs EXCEPT ![0].tokens = Append(@, Token(t, S)), ![0].position = @ + 1]
    BY <1>4, <2>1 DEF Samples
  <2> DEFINE tok == Token(t, S)
  <2>3. /\ DOMAIN seqs' = {0} /\ seqs'[0].tokens = Append(e.tokens, tok)
        /\ seqs'[0].position = e.position + 1
        /\ {"tokens", "position"} \subseteq DOMAIN seqs'[0]
    BY <2>1, <2>2 DEF EntryOk
  <2>4. tok.id = t
    BY DEF Token
  <2>5. /\ lastToken' = t /\ lastSeen' = t /\ reported' = Append(reported, t)
    BY <1>4 DEF Samples, Report
  <2> HIDE DEF tok
  <2>6. IsSeq(reported')
    BY <1>1, <2>5, AppendIs
  <2>7. EntryOk(seqs'[0])
    <3>1. /\ IsSeq(Append(e.tokens, tok)) /\ Len(Append(e.tokens, tok)) = Len(e.tokens) + 1
          /\ Len(e.tokens) \in Nat
      BY <2>1, AppendIs DEF EntryOk
    <3> QED BY <2>1, <2>3, <3>1 DEF EntryOk
  <2>8. SampledIds' = Append(SampledIds, t)
    <3>1. SampledIds = LastIds(e.tokens, e.position)
      BY SampledIs
    <3>2. SampledIds' = LastIds(Append(e.tokens, tok), e.position + 1)
      BY <2>3, SampledIs
    <3> QED BY <2>1, <2>4, <3>1, <3>2, LastIdsAppend DEF EntryOk
  <2>9. ReportedOrInherited'
    <3>1. reported = SampledIds
            \/ (inherited # 0 /\ Len(reported) > 0 /\ Tail(reported) = SampledIds)
      BY <2>1 DEF ReportInv, ReportedOrInherited
    <3>2. CASE reported = SampledIds
      BY <2>5, <2>8, <3>2 DEF ReportedOrInherited
    <3>3. CASE inherited # 0 /\ Len(reported) > 0 /\ Tail(reported) = SampledIds
      <4>1. Tail(reported') = SampledIds'
        BY <1>1, <2>5, <2>8, <3>3, TailAppend
      <4>2. Len(reported') > 0
        BY <1>1, <2>5, <3>3, AppendIs
      <4>3. inherited' # 0
        BY <3>3 DEF RunUntilToken
      <4> QED BY <4>1, <4>2, <4>3 DEF ReportedOrInherited
    <3> QED BY <3>1, <3>2, <3>3
  <2> QED BY <1>1, <2>3, <2>5, <2>6, <2>7, <2>9 DEF ReportInv
<1>5. (ok' /\ Generated /\ Report) \/ (~(ok' /\ Generated) /\ UNCHANGED <<lastSeen, reported>>)
  BY DEF RunUntilToken
<1>6. NothingSampled \/ \E s \in Pending, t \in TokenIds : Samples(s, t)
  BY Stepping DEF RunUntilToken
<1>7. ASSUME NEW s \in Pending, NEW t \in TokenIds, Samples(s, t) PROVE Report
  BY <1>5, <1>7 DEF Samples, Generated
<1> QED BY <1>2, <1>3, <1>4, <1>5, <1>6, <1>7

LEMMA ReportStep == ReportInv /\ [RunnerNext]_allVars => ReportInv'
<1> SUFFICES ASSUME ReportInv, [RunnerNext]_allVars PROVE ReportInv'
  OBVIOUS
<1>1. ModelInv' /\ prompt \in Nat
  BY ModelStep DEF ReportInv
<1>2. CASE UNCHANGED allVars
  BY <1>1, <1>2, StandingKeeps DEF allVars, vars, runnerVars
<1>3. ASSUME NEW m \in Models, NEW n \in 1 .. MaxPrompt, NEW b, Call(m, n, b) PROVE ReportInv'
  <2>1. prompt' \in Nat /\ UNCHANGED <<lastSeen, primed, reported, inherited>>
    BY <1>3 DEF Call
  <2>2. CASE KeepEngine
    BY <1>1, <2>1, <2>2, StandingKeeps DEF KeepEngine, vars
  <2>3. CASE NewEngine(m)
    <3>1. DOMAIN seqs' = {}
      BY <2>3 DEF NewEngine
    <3> QED BY <1>1, <2>1, <3>1 DEF ReportInv, ReportedOrInherited
  <2> QED BY <1>3, <2>2, <2>3 DEF Call
<1>4. CASE PrimeResets
  BY <1>1, <1>4, StandingKeeps DEF PrimeResets, ResetExecutionEngine
<1>5. CASE PrimeAdds
  BY <1>1, <1>5, PrimeAddsKeeps
<1>6. CASE RunUntilToken
  BY <1>1, <1>6, RunKeeps
<1>7. CASE GenerateOne
  BY <1>1, <1>7, StandingKeeps DEF GenerateOne, vars
<1>8. CASE Reset \/ Cleanup
  <2>1. UNCHANGED <<seqs, reported, lastToken, inherited, prompt>> /\ primed' = FALSE
    BY <1>8 DEF Reset, Cleanup, RunnerReset, vars, ResetExecutionEngine
  <2> QED BY <1>1, <2>1, StandingKeeps
<1> QED BY <1>2, <1>3, <1>4, <1>5, <1>6, <1>7, <1>8 DEF RunnerNext, Thread, Caller

(* Across Generate and GenerateOne, changes of model, resets and calls     *)
(* that failed half-way: a prompt added to an engine that had sampled      *)
(* nothing gets every token sampled for it, once, in order and no other.   *)
THEOREM RunnerReportsInOrder == RunnerSpec => []ReportedInOrder
<1>1. ReportInv => ReportedInOrder
  BY DEF ReportInv, ReportedOrInherited, ReportedInOrder
<1> QED BY <1>1, ReportInitially, ReportStep, PTL DEF RunnerSpec
-----------------------------------------------------------------------------
(* What is still to be reported stays within what was asked for.           *)
BudgetInv ==
  /\ budget \in Nat
  /\ pc \in {"ResetEngine", "Add"} => budget <= MaxNew
  /\ pc = "Run" => budget > 0 /\ Len(reported) + budget <= MaxNew

LEMMA BudgetStep ==
  ASSUME ReportInv, BudgetInv, [RunnerNext]_allVars
  PROVE  BudgetInv'
<1> USE DEF BudgetInv
<1>0. /\ IsSeq(reported) /\ Len(reported) \in Nat
      /\ \A e : Len(Append(reported, e)) = Len(reported) + 1
  BY AppendIs DEF ReportInv
<1>1. CASE UNCHANGED allVars
  BY <1>1 DEF allVars, runnerVars
<1>2. ASSUME NEW m \in Models, NEW n, NEW b \in 0 .. MaxNew, Call(m, n, b)
      PROVE  BudgetInv'
  BY <1>2, SoloAssumption DEF Call
<1>3. CASE PrimeResets
  BY <1>3 DEF PrimeResets
<1>4. CASE PrimeAdds
  BY <1>4 DEF PrimeAdds
<1>5. CASE RunUntilToken
  <2>1. CASE Report
    BY <1>0, <1>5, <2>1 DEF Report, RunUntilToken
  <2>2. CASE pc' \in {"Run", "Out"} /\ UNCHANGED <<reported, budget>>
    BY <1>5, <2>2 DEF RunUntilToken
  <2> QED BY <1>5, <2>1, <2>2 DEF RunUntilToken
<1>6. CASE Len(reported) < MaxNew /\ GenerateOne
  BY <1>0, <1>6, SoloAssumption DEF GenerateOne
<1>7. CASE Reset \/ Cleanup
  BY <1>7 DEF Reset, Cleanup, RunnerReset
<1> QED BY <1>1, <1>2, <1>3, <1>4, <1>5, <1>6, <1>7 DEF RunnerNext, Thread, Caller

-----------------------------------------------------------------------------
(* The first call.  Before it nothing was used; until its prompt is added  *)
(* the engine is a new one; and from then on, while the prompt is primed,  *)
(* the engine is in a state of SoloRequest.                                *)
FirstInv ==
  /\ calls \in Nat
  /\ calls = 0 =>
       /\ Init /\ pc = "Out" /\ engineModel = NoModel /\ ~primed
       /\ parked \in [Models -> {Unused(n) : n \in 0 .. NLayers}]
  /\ calls = 1 =>
       /\ KvInBounds
       /\ pc \in {"ResetEngine", "Add"} =>
            Init /\ ~primed /\ prompt \in 1 .. MaxPrompt
       /\ primed => TypeOK /\ SoloInv /\ 0 \in DOMAIN seqs

RunnerInv == ReportInv /\ BudgetInv /\ FirstInv

(* What a step does as long as there was no second call.                   *)
FirstStep == calls' <= 1 => KvInBounds' /\ [Promised!Next]_(Promised!vars)

LEMMA RunnerInitially == RunnerInit => RunnerInv
<1> SUFFICES ASSUME RunnerInit PROVE RunnerInv
  OBVIOUS
<1>1. BudgetInv
  BY DEF RunnerInit, BudgetInv
<1>2. FirstInv
  BY DEF RunnerInit, FirstInv
<1> QED BY <1>1, <1>2, ReportInitially DEF RunnerInv

(* The caller sees nothing of a step that keeps sequences and device.      *)
LEMMA NothingSeen ==
  ASSUME UNCHANGED <<seqs, device>>
  PROVE  [Promised!Next]_(Promised!vars)
<1>1. UNCHANGED <<0 \in DOMAIN seqs, Produced, device = "ok">>
  BY DEF Produced, Pos
<1> QED BY <1>1 DEF Promised!vars

(* The first engine is as new as that of a process that makes one request. *)
LEMMA FirstEngine ==
  ASSUME FirstInv, calls = 0, NEW m \in Models, NewEngine(m)
  PROVE  Init'
<1>1. Init /\ engineModel = NoModel /\ parked \in [Models -> {Unused(n) : n \in 0 .. NLayers}]
  BY DEF FirstInv
<1>2. PICK n \in 0 .. NLayers : parked[m] = Unused(n)
  BY <1>1
<1>3. /\ kvLen' = parked[m].kvLen /\ kvRow' = parked[m].kvRow
      /\ loaded' = parked[m].loaded
  BY <1>1 DEF NewEngine
<1>4. /\ kvLen' = [l \in Layers |-> 0] /\ loaded' = 0 .. n - 1
      /\ kvRow' = [l \in Layers |-> [p \in Rows |-> {Garbage}]]
  BY <1>2, <1>3 DEF Unused
<1> QED BY <1>1, <1>4 DEF NewEngine, Init

LEMMA ResetOfNew == ASSUME Init, ResetExecutionEngine PROVE Init'
BY DEF Init, ResetExecutionEngine

(* The prompt of the first call is the one that SoloRequest adds.          *)
LEMMA FirstPrompt ==
  ASSUME Fits, FirstInv, calls = 1, PrimeAdds
  PROVE  /\ TypeOK' /\ SoloInv' /\ [Promised!Next]_(Promised!vars)
         /\ ~primed
         /\ primed' => 0 \in DOMAIN seqs'
<1>1. Init /\ ~primed /\ prompt \in 1 .. MaxPrompt
  BY DEF FirstInv, PrimeAdds
<1>2. TypeOK /\ SoloInv /\ requests = 0
  BY <1>1, InitInv DEF Init
<1>3. [SoloNext]_vars
  BY <1>1, <1>2 DEF PrimeAdds, Prime, SoloNext
<1>4. TypeOK' /\ SoloInv'
  BY <1>2, <1>3, StepInv
<1>5. [Promised!Next]_(Promised!vars)
  BY <1>2, <1>3, <1>4, DecoderStep
<1>6. ASSUME primed' PROVE 0 \in DOMAIN seqs'
  BY <1>1, <1>6 DEF PrimeAdds, AddSequence
<1> QED BY <1>1, <1>4, <1>5, <1>6

(* No more tokens were sampled than reported.                              *)
LEMMA SampledWithin ==
  ASSUME ReportInv, 0 \in DOMAIN seqs
  PROVE  seqs[0].position \in Nat /\ seqs[0].position <= Len(reported)
<1>1. seqs[0].position \in Nat /\ IsSeq(reported)
  BY DEF ReportInv, EntryOk
<1>2. Len(SampledIds) = seqs[0].position
  <2>1. SampledIds = LastIds(seqs[0].tokens, seqs[0].position)
    BY SampledIs
  <2> DEFINE f == LastIds(seqs[0].tokens, seqs[0].position)
  <2>2. f = [i \in 1 .. seqs[0].position |-> f[i]]
    BY DEF LastIds
  <2> HIDE DEF f
  <2>3. Len(f) = seqs[0].position
    BY <1>1, <2>2, FunctionIsSeq
  <2> QED BY <2>1, <2>3 DEF f
<1>3. CASE reported = SampledIds
  BY <1>1, <1>2, <1>3
<1>4. CASE Len(reported) > 0 /\ Tail(reported) = SampledIds
  <2>1. PICK S : reported \in Seq(S)
    BY <1>1 DEF IsSeq
  <2>2. Len(Tail(reported)) = Len(reported) - 1 /\ Len(reported) \in Nat
    BY <1>4, <2>1
  <2> QED BY <1>1, <1>2, <1>4, <2>2
<1> QED BY <1>3, <1>4 DEF ReportInv, ReportedOrInherited

(* What is made of the result of StepBatch goes on where SoloRequest does. *)
LEMMA FirstRun ==
  ASSUME Fits, RunnerInv, calls = 1, RunUntilToken
  PROVE  /\ TypeOK' /\ SoloInv' /\ [Promised!Next]_(Promised!vars)
         /\ 0 \in DOMAIN seqs'
<1>1. pc = "Run" /\ primed /\ TypeOK /\ SoloInv /\ 0 \in DOMAIN seqs
  BY DEF RunUntilToken, RunnerInv, ReportInv, ModelInv, FirstInv
<1>2. seqs[0].position < MaxNew
  <2>1. /\ seqs[0].position \in Nat /\ seqs[0].position <= Len(reported)
        /\ Len(reported) \in Nat
    BY <1>1, SampledWithin, AppendIs DEF RunnerInv, ReportInv
  <2>2. budget \in Nat /\ budget > 0 /\ Len(reported) + budget <= MaxNew
    BY <1>1 DEF RunnerInv, BudgetInv
  <2> QED BY <2>1, <2>2, SoloAssumption
<1>3. StepBatch
  BY DEF RunUntilToken
<1>4. [SoloNext]_vars
  BY <1>1, <1>2, <1>3 DEF Step, SoloNext
<1>5. TypeOK' /\ SoloInv'
  BY <1>1, <1>4, StepInv
<1>6. [Promised!Next]_(Promised!vars)
  BY <1>1, <1>4, <1>5, DecoderStep
<1>7. 0 \in DOMAIN seqs'
  BY <1>1, <1>3, Stepping DEF NothingSampled, Samples
<1> QED BY <1>5, <1>6, <1>7

LEMMA InvInBounds == SoloInv => KvInBounds
BY DEF SoloInv, Control, KvInBounds

LEMMA FirstKept ==
  ASSUME Fits, RunnerInv, [RunnerNext]_allVars
  PROVE  FirstInv' /\ [FirstStep]_allVars
<1>0. FirstInv /\ calls \in Nat
  BY DEF RunnerInv, FirstInv
<1>1. CASE UNCHANGED allVars
  <2>1. UNCHANGED vars /\ UNCHANGED runnerVars
    BY <1>1 DEF allVars
  <2>2. Init' = Init /\ TypeOK' = TypeOK /\ SoloInv' = SoloInv
    BY <2>1 DEF vars, Init, TypeOK, SoloInv, Control, SampledFromPrefix, Sampled, Pos,
       Cache, Appended, InPass, Buffers, Fresh, Current
  <2> QED BY <1>0, <1>1, <2>1, <2>2 DEF vars, runnerVars, FirstInv, KvInBounds
<1>2. ASSUME NEW m \in Models, NEW n \in 1 .. MaxPrompt, NEW b \in 0 .. MaxNew,
             Call(m, n, b)
      PROVE  FirstInv' /\ FirstStep
  <2>1. calls' = calls + 1 /\ pc' = "ResetEngine" /\ prompt' = n /\ primed' = primed
    BY <1>2 DEF Call
  <2>2. CASE calls = 0
    <3>1. Init /\ engineModel = NoModel /\ ~primed
      BY <1>0, <2>2 DEF FirstInv
    <3>2. NewEngine(m)
      BY <1>2, <3>1 DEF Call
    <3>3. Init'
      BY <1>0, <2>2, <3>2, FirstEngine
    <3>4. KvInBounds' /\ UNCHANGED <<seqs, device>>
      BY <3>1, <3>3 DEF Init, KvInBounds
    <3> QED BY <2>1, <2>2, <3>1, <3>3, <3>4, NothingSeen DEF FirstInv, FirstStep
  <2>3. CASE calls # 0
    BY <1>0, <2>1, <2>3 DEF FirstInv, FirstStep
  <2> QED BY <2>2, <2>3
<1>3. CASE PrimeResets
  <2>1. /\ pc = "ResetEngine" /\ pc' = "Add" /\ UNCHANGED <<calls, primed, prompt>>
        /\ ResetExecutionEngine
    BY <1>3 DEF PrimeResets
  <2>2. UNCHANGED <<seqs, device, kvOob>>
    BY <2>1 DEF ResetExecutionEngine
  <2>3. ASSUME calls = 1 PROVE Init' /\ KvInBounds'
    <3>1. Init
      BY <1>0, <2>1, <2>3 DEF FirstInv
    <3>2. Init'
      BY <2>1, <3>1, ResetOfNew
    <3> QED BY <3>2 DEF Init, KvInBounds
  <2>4. calls # 0
    BY <1>0, <2>1 DEF FirstInv
  <2>5. calls = 1 => ~primed /\ prompt \in 1 .. MaxPrompt
    BY <1>0, <2>1 DEF FirstInv
  <2> QED BY <1>0, <2>1, <2>2, <2>3, <2>4, <2>5, NothingSeen DEF FirstInv, FirstStep
<1>4. CASE PrimeAdds
  <2>1. pc = "Add" /\ pc' \in {"Run", "Out"} /\ UNCHANGED calls
    BY <1>4 DEF PrimeAdds
  <2>2. calls # 0
    BY <1>0, <2>1 DEF FirstInv
  <2>3. CASE calls = 1
    <3>1. /\ TypeOK' /\ SoloInv' /\ [Promised!Next]_(Promised!vars)
          /\ primed' => 0 \in DOMAIN seqs'
      BY <1>0, <1>4, <2>3, FirstPrompt
    <3>2. KvInBounds'
      BY <3>1, InvInBounds DEF SoloInv, Control, KvInBounds
    <3> QED BY <1>0, <2>1, <2>3, <3>1, <3>2 DEF FirstInv, FirstStep
  <2>4. CASE calls # 1
    BY <1>0, <2>1, <2>2, <2>4 DEF FirstInv, FirstStep
  <2> QED BY <2>3, <2>4
<1>5. CASE RunUntilToken
  <2>1. pc = "Run" /\ pc' \in {"Run", "Out"} /\ UNCHANGED calls
    BY <1>5 DEF RunUntilToken, Report
  <2>2. calls # 0
    BY <1>0, <2>1 DEF FirstInv
  <2>3. CASE calls = 1
    <3>1. /\ TypeOK' /\ SoloInv' /\ [Promised!Next]_(Promised!vars)
          /\ 0 \in DOMAIN seqs'
      BY <1>5, <2>3, FirstRun
    <3>2. KvInBounds'
      BY <3>1 DEF SoloInv, Control, KvInBounds
    <3> QED BY <1>0, <2>1, <2>3, <3>1, <3>2 DEF FirstInv, FirstStep
  <2>4. CASE calls # 1
    BY <1>0, <2>1, <2>2, <2>4 DEF FirstInv, FirstStep
  <2> QED BY <2>3, <2>4
<1>6. CASE GenerateOne
  <2>1. /\ primed /\ pc' = "Run" /\ UNCHANGED <<vars, engineModel, parked, primed, prompt, calls>>
    BY <1>6 DEF GenerateOne
  <2>2. calls # 0
    BY <1>0, <2>1 DEF FirstInv
  <2>3. TypeOK' = TypeOK /\ SoloInv' = SoloInv /\ KvInBounds' = KvInBounds
    BY <2>1 DEF vars, Init, TypeOK, SoloInv, Control, SampledFromPrefix, Sampled, Pos,
       Cache, Appended, InPass, Buffers, Fresh, Current, KvInBounds
  <2>4. UNCHANGED <<seqs, device>>
    BY <2>1 DEF vars
  <2> QED BY <1>0, <2>1, <2>2, <2>3, <2>4, NothingSeen DEF FirstInv, FirstStep
<1>7. CASE Reset \/ Cleanup
  <2>1. /\ pc = "Out" /\ pc' = "Out" /\ primed' = FALSE
        /\ UNCHANGED <<engineModel, parked, calls>>
        /\ IF engineModel = NoModel THEN UNCHANGED vars ELSE ResetExecutionEngine
    BY <1>7 DEF Reset, Cleanup, RunnerReset
  <2>2. UNCHANGED <<seqs, device, kvOob>>
    BY <2>1 DEF vars, ResetExecutionEngine
  <2>3. ASSUME calls = 0 PROVE Init' /\ KvInBounds'
    <3>1. Init /\ UNCHANGED vars
      BY <1>0, <2>1, <2>3 DEF FirstInv
    <3>2. Init'
      BY <3>1 DEF Init, vars
    <3> QED BY <3>2 DEF Init, KvInBounds
  <2>4. calls = 1 => KvInBounds'
    BY <1>0, <2>2 DEF FirstInv, KvInBounds
  <2> QED BY <1>0, <2>1, <2>2, <2>3, <2>4, NothingSeen DEF FirstInv, FirstStep
<1> QED BY <1>1, <1>2, <1>3, <1>4, <1>5, <1>6, <1>7 DEF RunnerNext, Thread, Caller

(* The first request of a process is a decoder for the caller of Prime,    *)
(* Generate, GenerateOne and Reset, whatever failed on the way and however *)
(* often it was called again: tokens come one at a time, each computed from*)
(* exactly the inputs before it, and no row is written outside the cache.  *)
THEOREM RunnerFirstRequest ==
  ASSUME Fits PROVE RunnerSpec => FirstRequestDecodes
<1>1. RunnerInv /\ [RunnerNext]_allVars => RunnerInv'
  BY ReportStep, BudgetStep, FirstKept DEF RunnerInv
<1>2. RunnerInv /\ [RunnerNext]_allVars => [FirstStep]_allVars
  BY FirstKept
<1>3. [][FirstStep]_allVars => FirstRequestDecodes
  BY PTL DEF FirstRequestDecodes, FirstStep
<1> QED BY <1>1, <1>2, <1>3, RunnerInitially, PTL DEF RunnerSpec
=============================================================================
