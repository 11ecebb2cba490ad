---------------------------- MODULE ModelManager ----------------------------
(***************************************************************************)
(* MultiModelManager: the table of models and the budget of VRAM, used by  *)
(* several threads under mutex_.  SwapIn gives the mutex up while another  *)
(* model is swapped out, and keeps its pointer to the model meanwhile.     *)
(* What the weights go through is in WeightStreaming.                      *)
(***************************************************************************)
EXTENDS Integers, FiniteSets, Sequences, FiniteSetsExt, SequencesExt

CONSTANTS Ids,        \* model ids
          ModelSizes, \* values of vram_used_bytes
          Users,      \* threads
          TotalVRAM,  \* total_bytes less reserved_bytes
          VramWord    \* size_t is counted modulo VramWord

(* The sizes of all models together fit in a size_t.                       *)
ASSUME ManagerAssumption ==
  /\ TotalVRAM \in Nat /\ ModelSizes \subseteq Nat \ {0}
  /\ IsFiniteSet(Ids)
  /\ VramWord \in Nat /\ VramWord > TotalVRAM
  /\ \A size \in [Ids -> ModelSizes] : SumFunctionOnSet(size, Ids) < VramWord

VARIABLES
  models,   \* models_: a record for every loaded model
  recency,  \* the models by last_used, the oldest first
  usedVRAM, \* budget_.used_bytes
  swapping, \* where each thread stands in SwapIn
  wrong     \* history: what has been done that upsets the budget

managerVars == <<models, recency, usedVRAM, swapping, wrong>>

Idle   == [at |-> "idle"]
Loaded == DOMAIN models
SizeOf(m) == models[m].size
Active == {m \in Loaded : models[m].active}
Available == IF TotalVRAM > usedVRAM THEN TotalVRAM - usedVRAM ELSE 0

ForgottenId(m) == RemoveFirst(recency, m)
Touched(m)   == Append(ForgottenId(m), m)

ManagerInit ==
  /\ models = [m \in {} |-> 0] /\ recency = << >> /\ usedVRAM = 0
  /\ swapping = [u \in Users |-> Idle] /\ wrong = {}

(* The budget is not asked.  A load that fails leaves no model.            *)
LoadModel(m, size) ==
  /\ m \notin Loaded
  /\ models' = [k \in Loaded \cup {m} |->
                  IF k = m THEN [size |-> size, active |-> TRUE] ELSE models[k]]
  /\ recency' = Touched(m)
  /\ usedVRAM' = (usedVRAM + size) % VramWord
  /\ UNCHANGED <<swapping, wrong>>

(* The size is subtracted whether or not the model is active.  A thread    *)
(* in the middle of SwapIn is left with a pointer to what is gone.         *)
UnloadModel(m) ==
  /\ m \in Loaded
  /\ usedVRAM' = IF usedVRAM >= SizeOf(m) THEN usedVRAM - SizeOf(m) ELSE usedVRAM
  /\ models' = [k \in Loaded \ {m} |-> models[k]]
  /\ recency' = ForgottenId(m)
  /\ swapping' = [u \in Users |-> IF swapping[u].at # "idle" /\ swapping[u].id = m
                                  THEN [swapping[u] EXCEPT !.stale = TRUE] ELSE swapping[u]]
  /\ wrong' = IF models[m].active THEN wrong ELSE wrong \cup {"unloaded inactive"}

(* GetModel and GetModelByTag note the time.                               *)
GetModel(m) ==
  /\ m \in Loaded
  /\ recency' = Touched(m)
  /\ UNCHANGED <<models, usedVRAM, swapping, wrong>>

OldestActive == LET at == Min({i \in DOMAIN recency : recency[i] \in Active})
                IN recency[at]

(* Mutant: the bytes of the model stay counted.                            *)
SwapOutLRUKeepsCount(needed) ==
  /\ Active # {} /\ SizeOf(OldestActive) >= needed
  /\ models' = [models EXCEPT ![OldestActive].active = FALSE]
  /\ UNCHANGED <<recency, usedVRAM, wrong>>

(* Only the model used longest ago is looked at; when it is too small,     *)
(* nothing is swapped out.  FreeModelWeights frees nothing.                *)
SwapOutLRU(needed) ==
  /\ Active # {} /\ SizeOf(OldestActive) >= needed
  /\ models' = [models EXCEPT ![OldestActive].active = FALSE]
  /\ usedVRAM' = (usedVRAM - SizeOf(OldestActive)) % VramWord
  /\ UNCHANGED <<recency, wrong>>

CallSwapOut(needed) == SwapOutLRU(needed) /\ UNCHANGED swapping

(* The weights are uploaded and the bytes counted, or the upload fails.    *)
Upload(m) ==
  \/ UNCHANGED <<models, recency, usedVRAM, wrong>>
  \/ /\ models' = [models EXCEPT ![m].active = TRUE]
     /\ recency' = Touched(m)
     /\ usedVRAM' = (usedVRAM + SizeOf(m)) % VramWord
     /\ wrong' = IF models[m].active THEN wrong \cup {"swapped in twice"} ELSE wrong

(* SwapIn, up to the point where it finds too little VRAM and unlocks.     *)
SwapIn(u, m) ==
  /\ swapping[u] = Idle
  /\ m \in Loaded \ Active
  /\ IF SizeOf(m) <= Available
     THEN Upload(m) /\ UNCHANGED swapping
     ELSE /\ swapping' = [swapping EXCEPT ![u] =
               [at |-> "unlocked", id |-> m, stale |-> FALSE, needed |-> SizeOf(m) - Available]]
          /\ UNCHANGED <<models, recency, usedVRAM, wrong>>

SwapInMakesRoom(u) ==
  /\ swapping[u].at = "unlocked"
  /\ \/ /\ SwapOutLRU(swapping[u].needed)
        /\ swapping' = [swapping EXCEPT ![u].at = "room made"]
     \/ /\ Active # {} => SizeOf(OldestActive) < swapping[u].needed
        /\ swapping' = [swapping EXCEPT ![u] = Idle]
        /\ UNCHANGED <<models, recency, usedVRAM, wrong>>

(* Nothing is looked at again.  With a stale pointer anything may be read  *)
(* for the size; here any size is added.                                   *)
SwapInFinishes(u) ==
  /\ swapping[u].at = "room made"
  /\ swapping' = [swapping EXCEPT ![u] = Idle]
  /\ IF swapping[u].stale
     THEN /\ \E size \in ModelSizes : usedVRAM' = (usedVRAM + size) % VramWord
          /\ wrong' = wrong \cup {"swapped in what is gone"}
          /\ UNCHANGED <<models, recency>>
     ELSE Upload(swapping[u].id)

ManagerNext ==
  \/ \E m \in Ids, size \in ModelSizes : LoadModel(m, size)
  \/ \E m \in Ids : UnloadModel(m) \/ GetModel(m)
  \/ \E needed \in ModelSizes : CallSwapOut(needed)
  \/ \E u \in Users, m \in Ids : SwapIn(u, m)
  \/ \E u \in Users : SwapInMakesRoom(u) \/ SwapInFinishes(u)

ManagerSpec == ManagerInit /\ [][ManagerNext]_managerVars

-----------------------------------------------------------------------------
(* The bytes counted are those of the active models, however loads, swaps  *)
(* and lookups of several threads fall.  Three things upset the count for  *)
(* good: unloading a model that is swapped out, two threads that swap the  *)
(* same model in, and a model unloaded while a thread swaps it in.         *)
UsedIsActive ==
  wrong = {} => usedVRAM = SumFunctionOnSet([m \in Loaded |-> SizeOf(m)], Active)
=============================================================================
