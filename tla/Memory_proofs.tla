---------------------------- MODULE Memory_proofs ----------------------------
(***************************************************************************)
(* What manages memory, layers and models, for every number of buffers,    *)
(* blocks, layers, models and units of VRAM: the counters of the memory    *)
(* tiers and where the newest content is, the ownership of blocks, the     *)
(* layers that are in VRAM, the budget of the models, and the engine's     *)
(* table of addresses against the descriptors of the adapter.              *)
(***************************************************************************)
EXTENDS MemoryTiers, LayerSwap, BlockTables, ModelManager, ModelRouter,
        WeightStreaming, SetsAndQueues

-----------------------------------------------------------------------------
(* MemoryTiers: the counters, and where the newest content is.             *)
Shared(n) == \E m \in Names \ {n} : SpillPath[m] = SpillPath[n]

(* What a record of a buffer is, whatever was called.                      *)
Records == [tier : Tiers, cpu : Nat \cup {None}, gpu : Nat \cup {None},
            freed : BOOLEAN, last : Nat]

RecordOk(b) ==
  /\ b \in Records
  /\ b.tier = "DISK" => b.cpu = None
  /\ b.gpu # None => b.tier = "VRAM"
  /\ b.tier \in {"RAM", "VRAM"} /\ b.cpu = None => b.freed
  /\ b.tier = "VRAM" /\ b.gpu = None => b.freed

(* While a buffer is in VRAM its copy in RAM has the newest content, too:  *)
(* a demotion whose staging buffer could not be made falls back on it.     *)
Newest(b, stored) ==
  /\ b.tier = "VRAM" => b.gpu = b.last /\ b.cpu = b.last
  /\ b.tier = "RAM"  => b.cpu = b.last
  /\ b.tier = "DISK" => stored = b.last

NewestOf(n) == buffer[n].freed \/ n \in spoiled \/ Shared(n) \/ Newest(buffer[n], file[SpillPath[n]])

TierInv ==
  /\ DOMAIN buffer \subseteq Names
  /\ \A n \in DOMAIN buffer : RecordOk(buffer[n]) /\ NewestOf(n)
  /\ DOMAIN file = Paths /\ \A p \in Paths : file[p] \in Nat \cup {None}
  /\ ramUsed = Cardinality(OwningRam) /\ diskUsed = Cardinality(OnDisk)
  /\ vramUsed \in Nat /\ recount \in BOOLEAN
  /\ ~recount => vramUsed = Cardinality(OwningVram) /\ vramUsed <= VramBudget
  /\ writes \in Nat

-----------------------------------------------------------------------------
LEMMA Modulo ==
  /\ \A x \in Nat : x < Word => x % Word = x
  /\ \A x \in Int : x % Word \in Nat
  BY TierAssumption

(* A set that changes at one element at most.                              *)
Bit(P) == IF P THEN 1 ELSE 0

LEMMA CountChange ==
  ASSUME NEW S, NEW T, IsFiniteSet(S), NEW n, S \ {n} = T \ {n}
  PROVE  Cardinality(T) = Cardinality(S) - Bit(n \in S) + Bit(n \in T)
<1>1. /\ IsFiniteSet(S \ {n})
      /\ Cardinality(S \ {n}) = IF n \in S THEN Cardinality(S) - 1 ELSE Cardinality(S)
  BY FS_RemoveElement
<1>2. Cardinality((S \ {n}) \cup {n}) = Cardinality(S \ {n}) + 1
  BY <1>1, FS_AddElement
<1>3. Cardinality(S) \in Nat
  BY FS_CardinalityType
<1>4. CASE n \in T
  <2>1. T = (S \ {n}) \cup {n}
    BY <1>4
  <2> QED BY <1>1, <1>2, <1>3, <1>4, <2>1 DEF Bit
<1>5. CASE n \notin T
  <2>1. T = S \ {n}
    BY <1>5
  <2> QED BY <1>1, <1>3, <1>5, <2>1 DEF Bit
<1> QED BY <1>4, <1>5

LEMMA Counts ==
  ASSUME DOMAIN buffer \subseteq Names, NEW S, S \subseteq DOMAIN buffer
  PROVE  IsFiniteSet(S) /\ Cardinality(S) \in Nat /\ Cardinality(S) < Word
<1>1. S \in SUBSET Names /\ IsFiniteSet(Names)
  BY TierAssumption
<1>2. IsFiniteSet(S) /\ Cardinality(S) <= Cardinality(Names)
  BY <1>1, FS_Subset
<1>3. Cardinality(S) \in Nat /\ Cardinality(Names) \in Nat
  BY <1>1, <1>2, FS_CardinalityType
<1> QED BY <1>2, <1>3, TierAssumption

(* A call that changes the record of one buffer, old or new, and keeps the *)
(* counters in step with it.                                               *)
LEMMA OneRecord ==
  ASSUME TierInv, NEW n \in Names,
         DOMAIN buffer' = DOMAIN buffer \cup {n},
         \A m \in DOMAIN buffer : m # n => buffer'[m] = buffer[m],
         RecordOk(buffer'[n])
  PROVE  LET was(P) == IF n \in DOMAIN buffer /\ P THEN 1 ELSE 0
         IN  /\ DOMAIN buffer' \subseteq Names
             /\ \A m \in DOMAIN buffer' : RecordOk(buffer'[m])
             /\ Cardinality(OwningRam') = Cardinality(OwningRam) - was(buffer[n].cpu # None)
                                          + Bit(buffer'[n].cpu # None)
             /\ Cardinality(OwningVram') = Cardinality(OwningVram) - was(buffer[n].gpu # None)
                                          + Bit(buffer'[n].gpu # None)
             /\ Cardinality(OnDisk') = Cardinality(OnDisk) - was(buffer[n].tier = "DISK")
                                          + Bit(buffer'[n].tier = "DISK")
             /\ Cardinality(OwningRam') \in Nat /\ Cardinality(OwningRam') < Word
             /\ Cardinality(OnDisk') \in Nat /\ Cardinality(OnDisk') < Word
             /\ Cardinality(OwningVram') \in Nat /\ Cardinality(OwningVram') < Word
<1>1. DOMAIN buffer' \subseteq Names /\ DOMAIN buffer \subseteq Names
  BY DEF TierInv
<1>2. \A m \in DOMAIN buffer' : RecordOk(buffer'[m])
  BY DEF TierInv
<1>3. IsFiniteSet(OwningRam) /\ IsFiniteSet(OwningVram) /\ IsFiniteSet(OnDisk)
  BY <1>1, Counts DEF OwningRam, OwningVram, OnDisk
<1>4. /\ OwningRam \ {n} = OwningRam' \ {n}
      /\ n \in OwningRam <=> n \in DOMAIN buffer /\ buffer[n].cpu # None
      /\ n \in OwningRam' <=> buffer'[n].cpu # None
  BY DEF OwningRam
<1>5. /\ OwningVram \ {n} = OwningVram' \ {n}
      /\ n \in OwningVram <=> n \in DOMAIN buffer /\ buffer[n].gpu # None
      /\ n \in OwningVram' <=> buffer'[n].gpu # None
  BY DEF OwningVram
<1>6. /\ OnDisk \ {n} = OnDisk' \ {n}
      /\ n \in OnDisk <=> n \in DOMAIN buffer /\ buffer[n].tier = "DISK"
      /\ n \in OnDisk' <=> buffer'[n].tier = "DISK"
  BY DEF OnDisk
<1>7. /\ Cardinality(OwningRam') = Cardinality(OwningRam) - Bit(n \in OwningRam) + Bit(n \in OwningRam')
      /\ Cardinality(OwningVram') = Cardinality(OwningVram) - Bit(n \in OwningVram) + Bit(n \in OwningVram')
      /\ Cardinality(OnDisk') = Cardinality(OnDisk) - Bit(n \in OnDisk) + Bit(n \in OnDisk')
  BY <1>3, <1>4, <1>5, <1>6, CountChange
<1>8. /\ Cardinality(OwningRam') \in Nat /\ Cardinality(OwningRam') < Word
      /\ Cardinality(OnDisk') \in Nat /\ Cardinality(OnDisk') < Word
      /\ Cardinality(OwningVram') \in Nat /\ Cardinality(OwningVram') < Word
  <2>1. /\ IsFiniteSet(Names) /\ OwningRam' \in SUBSET Names /\ OnDisk' \in SUBSET Names
        /\ OwningVram' \in SUBSET Names
    BY <1>1, TierAssumption DEF OwningRam, OnDisk, OwningVram
  <2>2. \A S \in SUBSET Names : Cardinality(S) \in Nat /\ Cardinality(S) <= Cardinality(Names)
    BY <2>1, FS_Subset, FS_CardinalityType
  <2>3. Cardinality(Names) \in Nat /\ Word \in Nat /\ Word > Cardinality(Names)
    BY <2>1, FS_CardinalityType, TierAssumption
  <2> QED BY <2>1, <2>2, <2>3
<1> QED BY <1>1, <1>2, <1>4, <1>5, <1>6, <1>7, <1>8 DEF Bit

(* The other buffers keep their newest content, unless a file they share   *)
(* was written.                                                            *)
LEMMA OthersNewest ==
  ASSUME TierInv, NEW n \in Names, NEW m \in DOMAIN buffer, m # n,
         buffer'[m] = buffer[m], m \in spoiled => m \in spoiled',
         \A p \in Paths : p # SpillPath[n] => file'[p] = file[p]
  PROVE  NewestOf(m)'
<1>1. NewestOf(m) /\ m \in Names
  BY DEF TierInv
<1>2. SpillPath[m] \in Paths
  BY <1>1 DEF Paths
<1>3. SpillPath[m] = SpillPath[n] => Shared(m)
  BY DEF Shared
<1> QED BY <1>1, <1>2, <1>3 DEF NewestOf

(* A counter of size_t after a change that was counted.                    *)
Counted(old, new, was, is) == LET r == old - Bit(was) + Bit(is) IN new \in {r, r % Word}

Had(n) == n \in DOMAIN buffer

LEMMA TierStep ==
  ASSUME TierInv, NEW n \in Names,
         DOMAIN buffer' = DOMAIN buffer \cup {n},
         \A m \in DOMAIN buffer : m # n => buffer'[m] = buffer[m],
         RecordOk(buffer'[n]), NewestOf(n)',
         \A m \in Names : m # n /\ m \in spoiled => m \in spoiled',
         DOMAIN file' = Paths, \A p \in Paths : file'[p] \in Nat \cup {None},
         \A p \in Paths : p # SpillPath[n] => file'[p] = file[p],
         Counted(ramUsed, ramUsed', Had(n) /\ buffer[n].cpu # None, buffer'[n].cpu # None),
         Counted(diskUsed, diskUsed', Had(n) /\ buffer[n].tier = "DISK", buffer'[n].tier = "DISK"),
         vramUsed' \in Nat, recount' \in BOOLEAN, recount => recount',
         ~recount' =>
           /\ Counted(vramUsed, vramUsed', Had(n) /\ buffer[n].gpu # None, buffer'[n].gpu # None)
           /\ vramUsed' <= VramBudget,
         writes' \in Nat
  PROVE  TierInv'
<1>1. /\ DOMAIN buffer' \subseteq Names
      /\ \A m \in DOMAIN buffer' : RecordOk(buffer'[m])
      /\ Cardinality(OwningRam') = Cardinality(OwningRam) - Bit(Had(n) /\ buffer[n].cpu # None)
                                   + Bit(buffer'[n].cpu # None)
      /\ Cardinality(OwningVram') = Cardinality(OwningVram) - Bit(Had(n) /\ buffer[n].gpu # None)
                                   + Bit(buffer'[n].gpu # None)
      /\ Cardinality(OnDisk') = Cardinality(OnDisk) - Bit(Had(n) /\ buffer[n].tier = "DISK")
                                   + Bit(buffer'[n].tier = "DISK")
      /\ Cardinality(OwningRam') \in Nat /\ Cardinality(OwningRam') < Word
      /\ Cardinality(OnDisk') \in Nat /\ Cardinality(OnDisk') < Word
      /\ Cardinality(OwningVram') \in Nat /\ Cardinality(OwningVram') < Word
  BY OneRecord DEF Bit, Had
<1>2. /\ ramUsed = Cardinality(OwningRam) /\ diskUsed = Cardinality(OnDisk)
      /\ ~recount => vramUsed = Cardinality(OwningVram)
  BY DEF TierInv
<1>3. ramUsed' = Cardinality(OwningRam') /\ diskUsed' = Cardinality(OnDisk')
  <2>1. ramUsed' \in {Cardinality(OwningRam'), Cardinality(OwningRam') % Word}
    BY <1>1, <1>2 DEF Counted
  <2>2. diskUsed' \in {Cardinality(OnDisk'), Cardinality(OnDisk') % Word}
    BY <1>1, <1>2 DEF Counted
  <2> QED BY <1>1, <2>1, <2>2, Modulo
<1>4. ~recount' => vramUsed' = Cardinality(OwningVram') /\ vramUsed' <= VramBudget
  <2>1. ~recount' => vramUsed' \in {Cardinality(OwningVram'), Cardinality(OwningVram') % Word}
    BY <1>1, <1>2 DEF Counted
  <2> QED BY <1>1, <2>1, Modulo
<1>5. ASSUME NEW m \in DOMAIN buffer' PROVE NewestOf(m)'
  <2>1. CASE m = n
    BY <2>1
  <2>2. CASE m # n
    <3>1. m \in DOMAIN buffer /\ m \in Names
      BY <2>2 DEF TierInv
    <3> QED BY <2>2, <3>1, OthersNewest
  <2> QED BY <2>1, <2>2
<1> QED BY <1>1, <1>3, <1>4, <1>5 DEF TierInv

-----------------------------------------------------------------------------
LEMMA Found ==
  ASSUME TierInv, NEW n \in DOMAIN buffer
  PROVE  /\ n \in Names /\ RecordOk(buffer[n]) /\ NewestOf(n) /\ SpillPath[n] \in Paths
         /\ vramUsed \in Nat /\ recount \in BOOLEAN /\ writes \in Nat
         /\ DOMAIN file = Paths /\ \A p \in Paths : file[p] \in Nat \cup {None}
         /\ ramUsed \in Int /\ diskUsed \in Int
<1>1. OwningRam \subseteq DOMAIN buffer /\ OnDisk \subseteq DOMAIN buffer /\ DOMAIN buffer \subseteq Names
  BY DEF OwningRam, OnDisk, TierInv
<1>2. Cardinality(OwningRam) \in Nat /\ Cardinality(OnDisk) \in Nat
  BY <1>1, Counts
<1> QED BY <1>1, <1>2 DEF TierInv, Paths

LEMMA NoChangeKeeps == TierInv /\ NoChange => TierInv'
  BY DEF TierInv, NoChange, NewestOf, OwningRam, OnDisk, OwningVram

LEMMA AllocateKeeps ==
  ASSUME TierInv, NEW n \in Names, AllocateBuffer(n)
  PROVE  TierInv'
<1> DEFINE new == [tier |-> "RAM", cpu |-> 0, gpu |-> None, freed |-> FALSE, last |-> 0]
<1>1. /\ DOMAIN buffer' = DOMAIN buffer \cup {n} /\ buffer'[n] = new
      /\ \A m \in DOMAIN buffer : m # n => buffer'[m] = buffer[m]
  BY DEF AllocateBuffer
<1>2. RecordOk(new) /\ Newest(new, file[SpillPath[n]]')
  BY DEF RecordOk, Records, Newest, Tiers, None
<1>3. RecordOk(buffer'[n]) /\ NewestOf(n)'
  BY <1>1, <1>2 DEF NewestOf
<1>4. /\ ~Had(n) /\ ramUsed' = (ramUsed + 1) % Word
      /\ UNCHANGED <<file, vramUsed, diskUsed, writes, spoiled, recount>>
  BY DEF AllocateBuffer, Had
<1>5. /\ DOMAIN buffer \subseteq Names /\ vramUsed \in Nat /\ recount \in BOOLEAN /\ writes \in Nat
      /\ DOMAIN file = Paths /\ \A p \in Paths : file[p] \in Nat \cup {None}
      /\ ~recount => vramUsed = Cardinality(OwningVram) /\ vramUsed <= VramBudget
      /\ ramUsed = Cardinality(OwningRam) /\ diskUsed = Cardinality(OnDisk)
  BY DEF TierInv
<1>6. ramUsed \in Int /\ diskUsed \in Int
  BY <1>5, Counts DEF OwningRam, OnDisk
<1>7. /\ Counted(ramUsed, ramUsed', Had(n) /\ buffer[n].cpu # None, buffer'[n].cpu # None)
      /\ Counted(diskUsed, diskUsed', Had(n) /\ buffer[n].tier = "DISK", buffer'[n].tier = "DISK")
      /\ Counted(vramUsed, vramUsed', Had(n) /\ buffer[n].gpu # None, buffer'[n].gpu # None)
  BY <1>1, <1>4, <1>5, <1>6 DEF Counted, Bit, None
<1> QED BY <1>1, <1>3, <1>4, <1>5, <1>7, TierStep

LEMMA PromoteKeeps ==
  ASSUME TierInv, NEW n \in DOMAIN buffer, buffer[n].tier # "DISK", PromoteToVRAM(n)
  PROVE  TierInv'
<1> SUFFICES ASSUME ~NoChange PROVE TierInv'
  BY NoChangeKeeps
<1> DEFINE b == buffer[n]
<1>1. PICK staged \in BOOLEAN :
        LET copied == staged /\ b.cpu # None
        IN  /\ buffer' = [buffer EXCEPT ![n].tier = "VRAM", ![n].gpu = IF copied THEN b.cpu ELSE 0]
            /\ spoiled' = IF copied THEN spoiled ELSE spoiled \cup {n}
  BY DEF PromoteToVRAM
<1>2. /\ ~InVRAM(n) /\ GetVRAMAvailable >= 1 /\ vramUsed' = (vramUsed + 1) % Word
      /\ UNCHANGED <<file, ramUsed, diskUsed, writes, recount>>
  BY DEF PromoteToVRAM
<1> DEFINE copied == staged /\ b.cpu # None
           new    == [b EXCEPT !.tier = "VRAM", !.gpu = IF copied THEN b.cpu ELSE 0]
<1>3. /\ DOMAIN buffer' = DOMAIN buffer \cup {n} /\ buffer'[n] = new
      /\ \A m \in DOMAIN buffer : m # n => buffer'[m] = buffer[m]
  BY <1>1
<1>4. /\ n \in Names /\ RecordOk(b) /\ NewestOf(n)
      /\ vramUsed \in Nat /\ recount \in BOOLEAN /\ writes \in Nat
      /\ DOMAIN file = Paths /\ \A p \in Paths : file[p] \in Nat \cup {None}
      /\ ramUsed \in Int /\ diskUsed \in Int
  BY Found
<1>5. b.gpu = None
  BY <1>2, <1>4 DEF RecordOk, Records, InVRAM
<1>6. /\ new \in Records
      /\ new.tier = "VRAM" /\ new.gpu = (IF copied THEN b.cpu ELSE 0)
      /\ new.cpu = b.cpu /\ new.freed = b.freed /\ new.last = b.last
  BY <1>4 DEF RecordOk, Records, Tiers, None
<1>7. RecordOk(new)
  BY <1>4, <1>6 DEF RecordOk, Records, Tiers, None
<1>8. NewestOf(n)'
  BY <1>1, <1>2, <1>3, <1>4, <1>6 DEF NewestOf, Newest, RecordOk, Records, Tiers
<1>9. Counted(ramUsed, ramUsed', Had(n) /\ b.cpu # None, buffer'[n].cpu # None)
  BY <1>2, <1>3, <1>4, <1>6 DEF Counted, Bit, Had
<1>10. Counted(diskUsed, diskUsed', Had(n) /\ b.tier = "DISK", buffer'[n].tier = "DISK")
  BY <1>2, <1>3, <1>4, <1>6 DEF Counted, Bit, Had
<1>11. Counted(vramUsed, vramUsed', Had(n) /\ b.gpu # None, buffer'[n].gpu # None)
  BY <1>2, <1>3, <1>4, <1>5, <1>6 DEF Counted, Bit, RecordOk, Records, None
<1>12. vramUsed' \in Nat /\ vramUsed' <= VramBudget
  BY <1>2, <1>4, Modulo, TierAssumption DEF GetVRAMAvailable
<1>13. RecordOk(buffer'[n])
  BY <1>3, <1>7
<1>14. \A m \in Names : m # n /\ m \in spoiled => m \in spoiled'
  BY <1>1
<1> HIDE DEF new, copied
<1> QED BY <1>2, <1>3, <1>4, <1>8, <1>9, <1>10, <1>11, <1>12, <1>13, <1>14, TierStep

LEMMA DemoteKeeps ==
  ASSUME TierInv, NEW n \in DOMAIN buffer, DemoteToRAM(n)
  PROVE  TierInv'
<1> SUFFICES ASSUME buffer[n].tier = "VRAM" PROVE TierInv'
  BY NoChangeKeeps DEF DemoteToRAM
<1> DEFINE b == buffer[n]
<1>1. PICK read \in ReadBack(b) :
        /\ buffer' = [buffer EXCEPT ![n].tier = "RAM", ![n].gpu = None, ![n].cpu = read]
        /\ spoiled' = IF read \in {b.gpu, b.cpu} THEN spoiled ELSE spoiled \cup {n}
  BY DEF DemoteToRAM
<1>2. /\ vramUsed' = (vramUsed - 1) % Word /\ recount' = (recount \/ b.gpu = None)
      /\ UNCHANGED <<file, ramUsed, diskUsed, writes>>
  BY DEF DemoteToRAM
<1>3. /\ DOMAIN buffer' = DOMAIN buffer \cup {n}
      /\ \A m \in DOMAIN buffer : m # n => buffer'[m] = buffer[m]
  BY <1>1
<1>4. /\ n \in Names /\ RecordOk(b) /\ NewestOf(n)
      /\ vramUsed \in Nat /\ recount \in BOOLEAN /\ writes \in Nat
      /\ DOMAIN file = Paths /\ \A p \in Paths : file[p] \in Nat \cup {None}
      /\ ramUsed \in Int /\ diskUsed \in Int
  BY Found
<1> DEFINE new == buffer'[n]
<1>0. read \in Nat \cup {None} /\ (read # None <=> b.cpu # None)
  BY <1>1, <1>4 DEF ReadBack, RecordOk, Records, None
<1>5. /\ new \in Records /\ new.tier = "RAM" /\ new.gpu = None /\ new.freed = b.freed /\ new.last = b.last
      /\ new.cpu = read /\ (read # None <=> b.cpu # None)
  BY <1>0, <1>1, <1>4 DEF RecordOk, Records, Tiers, None
<1>6. RecordOk(new)
  BY <1>4, <1>5 DEF RecordOk, Records, Tiers
<1>7. NewestOf(n)'
  BY <1>1, <1>2, <1>4, <1>5 DEF NewestOf, Newest
<1>8. new.cpu # None <=> b.cpu # None
  BY <1>5
<1>9. Counted(ramUsed, ramUsed', Had(n) /\ b.cpu # None, new.cpu # None)
  BY <1>2, <1>4, <1>8 DEF Counted, Bit, Had
<1>10. Counted(diskUsed, diskUsed', Had(n) /\ b.tier = "DISK", new.tier = "DISK")
  BY <1>2, <1>4, <1>5 DEF Counted, Bit, Had
<1>11. ~recount' => Counted(vramUsed, vramUsed', Had(n) /\ b.gpu # None, new.gpu # None)
  <2>1. ~recount' => b.gpu # None
    BY <1>2
  <2>2. Had(n) /\ ~(new.gpu # None)
    BY <1>5 DEF Had
  <2>3. vramUsed' = (vramUsed - 1) % Word /\ vramUsed \in Nat
    BY <1>2, <1>4
  <2> HIDE DEF new
  <2> QED BY <2>1, <2>2, <2>3 DEF Counted, Bit
<1>12. vramUsed' \in Nat /\ (~recount' => vramUsed' <= VramBudget)
  <2>1. vramUsed' \in Nat
    BY <1>2, <1>4, Modulo
  <2>2. ASSUME ~recount' PROVE vramUsed' <= VramBudget
    <3>1. vramUsed = Cardinality(OwningVram) /\ vramUsed <= VramBudget /\ n \in OwningVram
      BY <1>2, <2>2 DEF TierInv, OwningVram
    <3>2. OwningVram \subseteq DOMAIN buffer /\ DOMAIN buffer \subseteq Names
      BY DEF OwningVram, TierInv
    <3>3. vramUsed > 0
      <4>1. IsFiniteSet(OwningVram)
        BY <3>2, Counts
      <4>2. Cardinality(OwningVram) # 0
        BY <3>1, <4>1, FS_EmptySet
      <4> QED BY <1>4, <3>1, <4>2
    <3> QED BY <1>2, <1>4, <3>1, <3>3, Modulo, TierAssumption
  <2> QED BY <2>1, <2>2
<1>13. recount' \in BOOLEAN /\ (recount => recount')
  BY <1>2, <1>4
<1> HIDE DEF new
<1>14. RecordOk(buffer'[n]) /\ new = buffer'[n]
  BY <1>6 DEF new
<1>15. \A m \in Names : m # n /\ m \in spoiled => m \in spoiled'
  BY <1>1
<1> QED BY <1>2, <1>3, <1>4, <1>7, <1>9, <1>10, <1>11, <1>12, <1>13, <1>14, <1>15, TierStep

LEMMA SpillKeeps ==
  ASSUME TierInv, NEW n \in DOMAIN buffer, buffer[n].tier # "VRAM", SpillToDisk(n)
  PROVE  TierInv'
<1> SUFFICES ASSUME ~NoChange PROVE TierInv'
  BY NoChangeKeeps DEF SpillToDisk
<1> DEFINE b == buffer[n]
<1>1. /\ n \in Names /\ RecordOk(b) /\ NewestOf(n) /\ SpillPath[n] \in Paths
      /\ vramUsed \in Nat /\ recount \in BOOLEAN /\ writes \in Nat
      /\ DOMAIN file = Paths /\ \A p \in Paths : file[p] \in Nat \cup {None}
      /\ ramUsed \in Int /\ diskUsed \in Int
  BY Found
<1>2. b.cpu # None /\ b.tier = "RAM" /\ b.gpu = None
  BY <1>1 DEF SpillToDisk, RecordOk, Records, Tiers
<1>3. /\ UNCHANGED <<vramUsed, writes, recount>>
      /\ \A m \in Names : m \in spoiled => m \in spoiled'
      /\ ~recount => vramUsed = Cardinality(OwningVram) /\ vramUsed <= VramBudget
  BY DEF SpillToDisk, TierInv
<1>4. PICK w \in Nat : /\ file' = [file EXCEPT ![SpillPath[n]] = w]
                       /\ buffer' # buffer => w = b.cpu \/ n \in spoiled'
  BY <1>1, <1>2 DEF SpillToDisk, RecordOk, Records
<1>5. /\ DOMAIN file' = Paths /\ \A p \in Paths : file'[p] \in Nat \cup {None}
      /\ \A p \in Paths : p # SpillPath[n] => file'[p] = file[p]
      /\ file'[SpillPath[n]] = w
  BY <1>1, <1>4
<1>6. CASE buffer' = buffer /\ UNCHANGED <<ramUsed, diskUsed>>
  <2>1. NewestOf(n)'
    BY <1>1, <1>2, <1>3, <1>6 DEF NewestOf, Newest
  <2>2. /\ Counted(ramUsed, ramUsed', Had(n) /\ b.cpu # None, buffer'[n].cpu # None)
        /\ Counted(diskUsed, diskUsed', Had(n) /\ b.tier = "DISK", buffer'[n].tier = "DISK")
        /\ Counted(vramUsed, vramUsed', Had(n) /\ b.gpu # None, buffer'[n].gpu # None)
    BY <1>1, <1>3, <1>6 DEF Counted, Bit, Had
  <2>3. RecordOk(buffer'[n]) /\ DOMAIN buffer' = DOMAIN buffer \cup {n}
        /\ \A m \in DOMAIN buffer : m # n => buffer'[m] = buffer[m]
    BY <1>1, <1>6
  <2> QED BY <1>1, <1>3, <1>5, <2>1, <2>2, <2>3, TierStep
<1>7. CASE /\ buffer' = [buffer EXCEPT ![n].tier = "DISK", ![n].cpu = None]
           /\ ramUsed' = (ramUsed - 1) % Word
           /\ diskUsed' = (diskUsed + 1) % Word
  <2> DEFINE new == buffer'[n]
  <2>1. /\ new \in Records /\ new.tier = "DISK" /\ new.gpu = b.gpu /\ new.freed = b.freed /\ new.last = b.last
        /\ new.cpu = None
        /\ DOMAIN buffer' = DOMAIN buffer \cup {n}
        /\ \A m \in DOMAIN buffer : m # n => buffer'[m] = buffer[m]
    BY <1>1, <1>7 DEF RecordOk, Records, Tiers, None
  <2>2. RecordOk(new)
    BY <1>1, <1>2, <2>1 DEF RecordOk, Records, Tiers, None
  <2>3. NewestOf(n)'
    <3>1. file'[SpillPath[n]] = b.cpu \/ n \in spoiled'
      <4>1. buffer' # buffer
        BY <1>2, <2>1
      <4> QED BY <1>4, <1>5, <4>1
    <3> QED BY <1>1, <1>2, <1>3, <2>1, <3>1 DEF NewestOf, Newest
  <2>4. /\ Counted(ramUsed, ramUsed', Had(n) /\ b.cpu # None, new.cpu # None)
        /\ Counted(diskUsed, diskUsed', Had(n) /\ b.tier = "DISK", new.tier = "DISK")
        /\ Counted(vramUsed, vramUsed', Had(n) /\ b.gpu # None, new.gpu # None)
    BY <1>1, <1>2, <1>3, <1>7, <2>1 DEF Counted, Bit, Had
  <2> HIDE DEF new
  <2>5. RecordOk(buffer'[n]) /\ new = buffer'[n]
    BY <2>2 DEF new
  <2> QED BY <1>1, <1>3, <1>5, <2>1, <2>3, <2>4, <2>5, TierStep
<1> QED BY <1>6, <1>7 DEF SpillToDisk

LEMMA RestoreKeeps ==
  ASSUME TierInv, NEW n \in DOMAIN buffer, RestoreFromDisk(n)
  PROVE  TierInv'
<1> SUFFICES ASSUME ~NoChange PROVE TierInv'
  BY NoChangeKeeps DEF RestoreFromDisk
<1> DEFINE b == buffer[n]
<1>1. /\ n \in Names /\ RecordOk(b) /\ NewestOf(n) /\ SpillPath[n] \in Paths
      /\ vramUsed \in Nat /\ recount \in BOOLEAN /\ writes \in Nat
      /\ DOMAIN file = Paths /\ \A p \in Paths : file[p] \in Nat \cup {None}
      /\ ramUsed \in Int /\ diskUsed \in Int
  BY Found
<1>2. /\ b.tier = "DISK" /\ file[SpillPath[n]] # None
      /\ buffer' = [buffer EXCEPT ![n].tier = "RAM", ![n].cpu = file[SpillPath[n]]]
      /\ file' = [file EXCEPT ![SpillPath[n]] = None]
      /\ diskUsed' = (diskUsed - 1) % Word
      /\ ramUsed' = (ramUsed + 1) % Word
      /\ UNCHANGED <<vramUsed, writes, spoiled, recount>>
  BY DEF RestoreFromDisk
<1>3. b.cpu = None /\ b.gpu = None
  BY <1>1, <1>2 DEF RecordOk, Records
<1>4. ~recount => vramUsed = Cardinality(OwningVram) /\ vramUsed <= VramBudget
  BY DEF TierInv
<1>5. /\ DOMAIN file' = Paths /\ \A p \in Paths : file'[p] \in Nat \cup {None}
      /\ \A p \in Paths : p # SpillPath[n] => file'[p] = file[p]
  BY <1>1, <1>2
<1> DEFINE new == buffer'[n]
<1>6. /\ new \in Records /\ new.tier = "RAM" /\ new.gpu = b.gpu /\ new.freed = b.freed /\ new.last = b.last
      /\ new.cpu = file[SpillPath[n]]
      /\ DOMAIN buffer' = DOMAIN buffer \cup {n}
      /\ \A m \in DOMAIN buffer : m # n => buffer'[m] = buffer[m]
  BY <1>1, <1>2 DEF RecordOk, Records, Tiers, None
<1>7. RecordOk(new)
  BY <1>1, <1>2, <1>3, <1>6 DEF RecordOk, Records, Tiers
<1>8. NewestOf(n)'
  BY <1>1, <1>2, <1>6 DEF NewestOf, Newest
<1>9. /\ Counted(ramUsed, ramUsed', Had(n) /\ b.cpu # None, new.cpu # None)
      /\ Counted(diskUsed, diskUsed', Had(n) /\ b.tier = "DISK", new.tier = "DISK")
      /\ Counted(vramUsed, vramUsed', Had(n) /\ b.gpu # None, new.gpu # None)
  BY <1>1, <1>2, <1>3, <1>6 DEF Counted, Bit, Had
<1> HIDE DEF new
<1>10. RecordOk(buffer'[n]) /\ new = buffer'[n]
  BY <1>7 DEF new
<1> QED BY <1>1, <1>2, <1>4, <1>5, <1>6, <1>8, <1>9, <1>10, TierStep

LEMMA FreeKeeps ==
  ASSUME TierInv, NEW n \in DOMAIN buffer, FreeBuffer(n)
  PROVE  TierInv'
<1> DEFINE b == buffer[n]
<1>1. /\ n \in Names /\ RecordOk(b) /\ NewestOf(n) /\ SpillPath[n] \in Paths
      /\ vramUsed \in Nat /\ recount \in BOOLEAN /\ writes \in Nat
      /\ DOMAIN file = Paths /\ \A p \in Paths : file[p] \in Nat \cup {None}
      /\ ramUsed \in Int /\ diskUsed \in Int
  BY Found
<1>2. /\ buffer' = [buffer EXCEPT ![n].gpu = None, ![n].cpu = None, ![n].freed = TRUE]
      /\ vramUsed' = IF b.gpu # None THEN (vramUsed - 1) % Word ELSE vramUsed
      /\ ramUsed' = IF b.cpu # None THEN (ramUsed - 1) % Word ELSE ramUsed
      /\ UNCHANGED <<file, diskUsed, writes, spoiled, recount>>
  BY DEF FreeBuffer
<1> DEFINE new == buffer'[n]
<1>3. /\ new \in Records /\ new.tier = b.tier /\ new.gpu = None /\ new.freed = TRUE /\ new.last = b.last
      /\ new.cpu = None
      /\ DOMAIN buffer' = DOMAIN buffer \cup {n}
      /\ \A m \in DOMAIN buffer : m # n => buffer'[m] = buffer[m]
  BY <1>1, <1>2 DEF RecordOk, Records, Tiers, None
<1>4. RecordOk(new)
  BY <1>1, <1>3 DEF RecordOk, Records, None
<1>5. NewestOf(n)'
  BY <1>3 DEF NewestOf
<1>6. /\ Counted(ramUsed, ramUsed', Had(n) /\ b.cpu # None, new.cpu # None)
      /\ Counted(diskUsed, diskUsed', Had(n) /\ b.tier = "DISK", new.tier = "DISK")
      /\ Counted(vramUsed, vramUsed', Had(n) /\ b.gpu # None, new.gpu # None)
  BY <1>1, <1>2, <1>3 DEF Counted, Bit, Had
<1>7. vramUsed' \in Nat
  BY <1>1, <1>2, Modulo
<1>8. ASSUME ~recount' PROVE vramUsed' <= VramBudget
  <2>1. vramUsed = Cardinality(OwningVram) /\ vramUsed <= VramBudget
    BY <1>2, <1>8 DEF TierInv
  <2>2. CASE b.gpu = None
    BY <1>2, <2>1, <2>2
  <2>3. CASE b.gpu # None
    <3>1. n \in OwningVram /\ OwningVram \subseteq DOMAIN buffer /\ DOMAIN buffer \subseteq Names
      BY <2>3 DEF OwningVram, TierInv
    <3>2. IsFiniteSet(OwningVram)
      BY <3>1, Counts
    <3>3. Cardinality(OwningVram) # 0
      BY <3>1, <3>2, FS_EmptySet
    <3> QED BY <1>1, <1>2, <2>1, <2>3, <3>3, Modulo, TierAssumption
  <2> QED BY <2>2, <2>3
<1> HIDE DEF new
<1>9. RecordOk(buffer'[n]) /\ new = buffer'[n]
  BY <1>4 DEF new
<1> QED BY <1>1, <1>2, <1>3, <1>5, <1>6, <1>7, <1>8, <1>9, TierStep

LEMMA WriteKeeps ==
  ASSUME TierInv, NEW n \in Names, WriteCPUData(n)
  PROVE  TierInv'
<1> DEFINE b == buffer[n]
<1>1. n \in DOMAIN buffer /\ b.cpu # None
  BY DEF WriteCPUData
<1>2. /\ RecordOk(b) /\ NewestOf(n) /\ SpillPath[n] \in Paths
      /\ vramUsed \in Nat /\ recount \in BOOLEAN /\ writes \in Nat
      /\ DOMAIN file = Paths /\ \A p \in Paths : file[p] \in Nat \cup {None}
      /\ ramUsed \in Int /\ diskUsed \in Int
  BY <1>1, Found
<1>3. /\ writes' = writes + 1
      /\ buffer' = [buffer EXCEPT ![n].cpu = writes + 1, ![n].last = writes + 1]
      /\ spoiled' = IF b.tier = "RAM" THEN spoiled \ {n} ELSE spoiled \cup {n}
      /\ UNCHANGED <<file, vramUsed, ramUsed, diskUsed, holder, recount>>
  BY DEF WriteCPUData
<1>4. ~recount => vramUsed = Cardinality(OwningVram) /\ vramUsed <= VramBudget
  BY DEF TierInv
<1> DEFINE new == buffer'[n]
           w   == writes + 1
<1>w. w \in Nat /\ buffer' = [buffer EXCEPT ![n].cpu = w, ![n].last = w]
  BY <1>2, <1>3
<1> HIDE DEF w
<1>5. /\ new \in Records /\ new.tier = b.tier /\ new.gpu = b.gpu /\ new.freed = b.freed /\ new.last = w
      /\ new.cpu = w
      /\ DOMAIN buffer' = DOMAIN buffer \cup {n}
      /\ \A m \in DOMAIN buffer : m # n => buffer'[m] = buffer[m]
  BY <1>1, <1>2, <1>w DEF RecordOk, Records, Tiers, None
<1>6. RecordOk(new)
  BY <1>1, <1>2, <1>w, <1>5 DEF RecordOk, Records, None
<1>7. NewestOf(n)'
  BY <1>1, <1>2, <1>3, <1>w, <1>5 DEF NewestOf, Newest, RecordOk, Records, Tiers
<1>8. new.cpu # None
  BY <1>w, <1>5 DEF None
<1>9. /\ Counted(ramUsed, ramUsed', Had(n) /\ b.cpu # None, new.cpu # None)
      /\ Counted(diskUsed, diskUsed', Had(n) /\ b.tier = "DISK", new.tier = "DISK")
      /\ Counted(vramUsed, vramUsed', Had(n) /\ b.gpu # None, new.gpu # None)
  BY <1>1, <1>2, <1>3, <1>5, <1>8 DEF Counted, Bit, Had
<1>10. \A m \in Names : m # n /\ m \in spoiled => m \in spoiled'
  BY <1>3
<1> HIDE DEF new
<1>11. RecordOk(buffer'[n]) /\ new = buffer'[n]
  BY <1>6 DEF new
<1>12. /\ vramUsed' \in Nat /\ recount' \in BOOLEAN /\ (recount => recount')
       /\ ~recount' => vramUsed' <= VramBudget
       /\ writes' \in Nat /\ file' = file
  BY <1>2, <1>3, <1>4
<1> QED BY <1>2, <1>12, <1>5, <1>7, <1>9, <1>10, <1>11, TierStep

(* The invariant, one case for every call.                                 *)
LEMMA TiersInitially == TierInit => TierInv
<1> SUFFICES ASSUME TierInit PROVE TierInv
  OBVIOUS
<1>1. OwningRam = {} /\ OwningVram = {} /\ OnDisk = {} /\ DOMAIN buffer = {}
  BY DEF TierInit, OwningRam, OwningVram, OnDisk
<1>2. Cardinality({}) = 0
  BY FS_EmptySet
<1>3. DOMAIN file = Paths /\ \A p \in Paths : file[p] = None
  BY DEF TierInit
<1>4. /\ ramUsed = 0 /\ diskUsed = 0 /\ vramUsed = 0 /\ recount = FALSE /\ writes = 0
      /\ 0 <= VramBudget
  BY TierAssumption DEF TierInit
<1> QED BY <1>1, <1>2, <1>3, <1>4 DEF TierInv

LEMMA ServeKeeps ==
  ASSUME TierInv, NEW c \in Calls, Serve(c)
  PROVE  TierInv'
<1>1. Body(c) /\ Nested(c) = {}
  BY DEF Serve
<1>2. CASE c.op = "Allocate"
  <2>1. c.arg \in Names
    BY <1>2 DEF Calls, BufferCalls, LayerCalls
  <2> QED BY <1>1, <1>2, <2>1, AllocateKeeps, NoChangeKeeps DEF Body
<1>3. CASE c.op \in BufferCalls
  <2>1. c.arg \in DOMAIN buffer
    BY <1>3 DEF Calls, BufferCalls, LayerCalls
  <2>2. CASE c.op = "Promote"
    <3>1. buffer[c.arg].tier # "DISK"
      BY <1>1, <2>2 DEF Nested
    <3> QED BY <1>1, <2>1, <2>2, <3>1, PromoteKeeps DEF Body
  <2>3. CASE c.op = "Demote"
    BY <1>1, <2>1, <2>3, DemoteKeeps DEF Body
  <2>4. CASE c.op = "Spill"
    <3>1. buffer[c.arg].tier # "VRAM"
      BY <1>1, <2>4 DEF Nested
    <3> QED BY <1>1, <2>1, <2>4, <3>1, SpillKeeps DEF Body
  <2>5. CASE c.op = "Restore"
    BY <1>1, <2>1, <2>5, RestoreKeeps DEF Body
  <2>6. CASE c.op = "Free"
    BY <1>1, <2>1, <2>6, FreeKeeps DEF Body
  <2>7. CASE c.op = "GetLayerBuffer"
    BY <1>1, <2>7, NoChangeKeeps DEF Body
  <2> QED BY <1>3, <2>2, <2>3, <2>4, <2>5, <2>6, <2>7 DEF BufferCalls
<1>4. CASE c.op \in LayerCalls
  BY <1>1, <1>4, NoChangeKeeps DEF Body, LayerCalls
<1> QED BY <1>2, <1>3, <1>4 DEF Calls

LEMMA TierInvariance == TierSpec => []TierInv
<1>1. TierInv /\ [TierNext]_tierVars => TierInv'
  <2> SUFFICES ASSUME TierInv, [TierNext]_tierVars PROVE TierInv'
    OBVIOUS
  <2>1. ASSUME NEW c \in Calls, Serve(c) PROVE TierInv'
    BY <2>1, ServeKeeps
  <2>2. ASSUME NEW c \in Calls, NEW t \in TierThreads, Relock(t, c) PROVE TierInv'
    BY <2>2, NoChangeKeeps DEF Relock
  <2>3. ASSUME NEW n \in Names, WriteCPUData(n) PROVE TierInv'
    BY <2>3, WriteKeeps
  <2>4. CASE UNCHANGED tierVars
    BY <2>4, NoChangeKeeps DEF tierVars, NoChange
  <2> QED BY <2>1, <2>2, <2>3, <2>4 DEF TierNext
<1> QED BY TiersInitially, <1>1, PTL DEF TierSpec

(* The memory tiers count what they own: through every order of calls on   *)
(* any buffers and any budget, ramUsed and diskUsed are the buffers in RAM *)
(* and on disk, and vramUsed those in VRAM, within the budget, until       *)
(* DemoteToRAM gives back VRAM that FreeBuffer already gave back.          *)
THEOREM TiersCountTrue == TierSpec => []TiersAccounted
<1>1. TierInv => TiersAccounted
  BY DEF TierInv, TiersAccounted
<1> QED BY TierInvariance, <1>1, PTL

(* The tier of a buffer is where its newest content is, whatever was       *)
(* promoted, demoted, spilled or restored, but for the named ways to lose  *)
(* it.                                                                     *)
THEOREM TiersNewestKept == TierSpec => []NewestKept
<1>1. TierInv => NewestKept
  <2> SUFFICES ASSUME TierInv, NEW n \in DOMAIN buffer,
                      ~buffer[n].freed, n \notin spoiled, ~Shared(n)
               PROVE  buffer[n].last = CASE buffer[n].tier = "VRAM" -> buffer[n].gpu
                                         [] buffer[n].tier = "RAM"  -> buffer[n].cpu
                                         [] buffer[n].tier = "DISK" -> file[SpillPath[n]]
    BY DEF NewestKept, Shared
  <2>1. RecordOk(buffer[n]) /\ Newest(buffer[n], file[SpillPath[n]])
    BY DEF TierInv, NewestOf
  <2> QED BY <2>1 DEF RecordOk, Records, Tiers, Newest
<1> QED BY TierInvariance, <1>1, PTL

-----------------------------------------------------------------------------
(* BlockTables: who owns a block.                                           *)
InATable(b) == \E s \in DOMAIN seqBlocks : b \in seqBlocks[s]

(* BlocksOwned is inductive with the fact that, until a table is evicted,  *)
(* the caller knows the tables of the adapter.                             *)
CallerKnows ==
  /\ believed = seqBlocks
  /\ seqBlocks = [s \in DOMAIN seqBlocks |-> seqBlocks[s]]

Disjoint  == \A s, r \in DOMAIN seqBlocks : s # r => seqBlocks[s] \cap seqBlocks[r] = {}
Accounted == \A b : b \in inUse <=> (b \in heldBlocks \/ InATable(b))
Apart     == \A b \in heldBlocks : ~InATable(b)

BlockInv == evicted \/ (CallerKnows /\ Disjoint /\ Accounted /\ Apart)

LEMMA TablesAreUnion == \A b : b \in TablesOf(DOMAIN seqBlocks) <=> InATable(b)
  BY DEF TablesOf, InATable

LEMMA BlockInvImplies == BlockInv => BlocksOwned
  BY TablesAreUnion DEF BlockInv, BlocksOwned, Disjoint, Accounted, Apart

LEMMA BlockInitInv == BlockInit => BlockInv
  BY DEF BlockInit, BlockInv, CallerKnows, Disjoint, Accounted, Apart, InATable

LEMMA BlockStepInv == BlockInv /\ [BlockNext]_blockVars => BlockInv'
<1> SUFFICES ASSUME BlockInv, [BlockNext]_blockVars, ~evicted'
             PROVE  CallerKnows' /\ Disjoint' /\ Accounted' /\ Apart'
  BY DEF BlockInv
<1> USE DEF InATable
<1>1. CASE UNCHANGED blockVars
  BY <1>1 DEF blockVars, BlockInv, CallerKnows, Disjoint, Accounted, Apart
<1>2. CASE AllocateBlock
  BY <1>2 DEF AllocateBlock, FirstFree, Blocks, BlockInv, CallerKnows, Disjoint, Accounted, Apart
<1>3. ASSUME NEW b \in heldBlocks, FreeBlock(b)
      PROVE  CallerKnows' /\ Disjoint' /\ Accounted' /\ Apart'
  BY <1>3 DEF FreeBlock, BlockInv, CallerKnows, Disjoint, Accounted, Apart
<1>4. ASSUME NEW s \in PagedSeqs, SetTable(s)
      PROVE  CallerKnows' /\ Disjoint' /\ Accounted' /\ Apart'
  <2> DEFINE old == IF s \in DOMAIN seqBlocks THEN seqBlocks[s] ELSE {}
  <2>1. ~evicted /\ believed = seqBlocks /\ Disjoint /\ Accounted /\ Apart
    BY <1>4 DEF SetTable, SetSequenceBlockTable, BlockInv, CallerKnows
  <2>2. PICK held \in SUBSET (heldBlocks \cup old) : SetSequenceBlockTable(s, held)
    BY <1>4, <2>1 DEF SetTable
  <2>3. /\ seqBlocks' = [r \in DOMAIN seqBlocks \cup {s} |-> IF r = s THEN held ELSE seqBlocks[r]]
        /\ believed' = seqBlocks'
        /\ heldBlocks' = (heldBlocks \cup old) \ held
        /\ inUse' = inUse
    BY <2>1, <2>2 DEF SetSequenceBlockTable, Put
  <2> HIDE DEF old
  <2>4. CallerKnows'
    BY <2>3 DEF CallerKnows
  <2>5. \A r \in DOMAIN seqBlocks \ {s} :
          seqBlocks[r] \cap heldBlocks = {} /\ seqBlocks[r] \cap old = {}
    BY <2>1 DEF old, Disjoint, Apart
  <2>6. Disjoint'
    BY <2>1, <2>2, <2>3, <2>5 DEF Disjoint
  <2>7. Apart'
    BY <2>1, <2>2, <2>3, <2>5 DEF Apart
  <2>8. Accounted'
    <3> SUFFICES ASSUME NEW b PROVE (b \in inUse' <=> (b \in heldBlocks' \/ InATable(b)'))
      BY DEF Accounted
    <3>1. b \in inUse <=> (b \in heldBlocks \/ b \in old
                           \/ \E r \in DOMAIN seqBlocks \ {s} : b \in seqBlocks[r])
      BY <2>1 DEF old, Accounted
    <3>2. InATable(b)' <=> (b \in held \/ \E r \in DOMAIN seqBlocks \ {s} : b \in seqBlocks[r])
      BY <2>3
    <3> QED BY <2>2, <2>3, <3>1, <3>2
  <2> QED BY <2>4, <2>6, <2>7, <2>8
<1>5. ASSUME NEW s \in PagedSeqs, RemoveSequence(s)
      PROVE  CallerKnows' /\ Disjoint' /\ Accounted' /\ Apart'
  <2>1. ~evicted /\ CallerKnows /\ Disjoint /\ Accounted /\ Apart
    BY <1>5 DEF RemoveSequence, BlockInv
  <2>2. /\ seqBlocks' = [r \in DOMAIN seqBlocks \ {s} |-> seqBlocks[r]]
        /\ believed' = seqBlocks' /\ heldBlocks' = heldBlocks
        /\ inUse' = inUse \ TablesOf({s})
    BY <1>5, <2>1 DEF RemoveSequence, Removed, Drop, CallerKnows
  <2>3. \A b : b \in TablesOf({s}) <=> s \in DOMAIN seqBlocks /\ b \in seqBlocks[s]
    BY DEF TablesOf
  <2>4. CallerKnows' /\ Disjoint' /\ Apart'
    BY <2>1, <2>2 DEF CallerKnows, Disjoint, Apart
  <2>5. Accounted'
    BY <2>1, <2>2, <2>3 DEF Accounted, Disjoint, Apart
  <2> QED BY <2>4, <2>5
<1>6. ASSUME NEW s \in PagedSeqs, NEW pos \in 0 .. MaxTokenPos, RotateAndCache(s, pos)
      PROVE  CallerKnows' /\ Disjoint' /\ Accounted' /\ Apart'
  BY <1>6 DEF RotateAndCache, BlockInv, CallerKnows, Disjoint, Accounted, Apart
<1>7. ASSUME NEW n \in 1 .. NBlocks, EvictBlocksLRU(n)
      PROVE  CallerKnows' /\ Disjoint' /\ Accounted' /\ Apart'
  <2>1. PICK gone \in SUBSET DOMAIN lastAccess :
          /\ Removed(gone)
          /\ evicted' = (evicted \/ gone \cap DOMAIN seqBlocks # {})
          /\ UNCHANGED <<heldBlocks, believed>>
    BY <1>7 DEF EvictBlocksLRU
  <2>2. ~evicted /\ gone \cap DOMAIN seqBlocks = {} /\ CallerKnows /\ Disjoint /\ Accounted /\ Apart
    BY <2>1 DEF BlockInv
  <2>3. TablesOf(gone) = {} /\ DOMAIN seqBlocks \ gone = DOMAIN seqBlocks
    BY <2>2 DEF TablesOf
  <2>4. seqBlocks' = seqBlocks /\ inUse' = inUse
    BY <2>1, <2>2, <2>3 DEF Removed, Drop, CallerKnows
  <2> QED BY <2>1, <2>2, <2>4 DEF CallerKnows, Disjoint, Accounted, Apart
<1> QED
  BY <1>1, <1>2, <1>3, <1>4, <1>5, <1>6, <1>7 DEF BlockNext

(* No block of the paged KV cache belongs to two sequences, none in a      *)
(* table is free and none leaks, for any number of sequences, blocks and   *)
(* calls, as long as EvictBlocksLRU has removed no table.                  *)
THEOREM PagedBlocksOwned == BlockSpec => []BlocksOwned
<1>1. BlockInit => BlockInv
  BY BlockInitInv
<1>2. BlockInv /\ [BlockNext]_blockVars => BlockInv'
  BY BlockStepInv
<1>3. BlockInv => BlocksOwned
  BY BlockInvImplies
<1> QED
  BY <1>1, <1>2, <1>3, PTL DEF BlockSpec

-----------------------------------------------------------------------------
(* WeightStreaming: the table of addresses.                                 *)
LEMMA LayersAreDisjoint == \A l, m : l # m => Layer(l) \cap Layer(m) = {}
  BY DEF Layer

(* Uploads add tensors of the set that was asked for and take none away.   *)
LEMMA UploadsAdd ==
  ASSUME NEW S, uploadTensors(S)
  PROVE  onGpu \subseteq onGpu' /\ onGpu' \subseteq onGpu \cup S
  BY DEF uploadTensors, Missing

(* There is a table only of a model that is loaded: what LoadModel marks   *)
(* later, it marks before the engine looks.                                *)
StreamInv ==
  /\ TableCurrent
  /\ IF tableRead THEN loadAt = "loaded" ELSE addresses = {}

LEMMA StreamInitInv == StreamInit => StreamInv
  BY DEF StreamInit, StreamInv, TableCurrent

LEMMA StreamStepInv == StreamInv /\ [StreamNext]_streamVars => StreamInv'
<1> SUFFICES ASSUME StreamInv, [StreamNext]_streamVars PROVE StreamInv'
  OBVIOUS
<1> USE DEF StreamInv, TableCurrent
<1>1. CASE UNCHANGED streamVars
  BY <1>1 DEF streamVars
<1>2. CASE BeginLoadModel
  BY <1>2 DEF BeginLoadModel
<1>3. CASE LoadLayer
  <2>1. ~tableRead' /\ addresses' = {}
    BY <1>3 DEF LoadLayer
  <2>2. onGpu \subseteq onGpu'
    BY <1>3, UploadsAdd DEF LoadLayer, StreamLayerWeights
  <2> QED BY <2>1, <2>2
<1>4. CASE LoadLayerFails \/ LoadGlobalsFails \/ DropModel \/ DropEngine
  BY <1>4 DEF LoadLayerFails, LoadGlobalsFails, DropModel, DropEngine, Destroyed
<1>5. CASE LoadGlobals
  <2>1. ~tableRead' /\ addresses' = {}
    BY <1>5 DEF LoadGlobals
  <2>2. onGpu \subseteq onGpu'
    BY <1>5, UploadsAdd DEF LoadGlobals
  <2> QED BY <2>1, <2>2
<1>6. CASE LoadModelWeights
  BY <1>6 DEF LoadModelWeights
<1>7. ASSUME NEW l \in Layers, EnsureLayerWeights(l) PROVE StreamInv'
  <2>1. tableRead /\ tableRead' /\ loadAt' = "loaded"
    BY <1>7 DEF EnsureLayerWeights
  <2>2. onGpu \subseteq onGpu' /\ onGpu' \subseteq onGpu \cup Layer(l)
    BY <1>7, UploadsAdd DEF EnsureLayerWeights, StreamLayerWeights
  <2>3. l \in marked => onGpu' = onGpu
    BY <1>7 DEF EnsureLayerWeights, StreamLayerWeights
  <2>4. addresses' = IF l \in marked' THEN addresses \cup (onGpu' \cap Layer(l)) ELSE addresses
    BY <1>7 DEF EnsureLayerWeights, ReloadLayerWeights
  <2>5. marked' \subseteq marked \cup {l}
    BY <1>7 DEF EnsureLayerWeights, StreamLayerWeights
  <2>6. ASSUME NEW m \in marked' PROVE onGpu' \cap Layer(m) \subseteq addresses'
    <3>1. CASE m = l
      BY <2>4, <2>6, <3>1
    <3>2. CASE m # l
      <4>1. onGpu' \cap Layer(m) = onGpu \cap Layer(m)
        BY <2>2, <3>2, LayersAreDisjoint
      <4> QED BY <2>1, <2>4, <2>5, <2>6, <3>2, <4>1
    <3> QED BY <3>1, <3>2
  <2>7. addresses' \subseteq onGpu'
    BY <2>2, <2>4
  <2> QED BY <2>1, <2>6, <2>7
<1> QED
  BY <1>1, <1>2, <1>3, <1>4, <1>5, <1>6, <1>7 DEF StreamNext

(* Whatever part of a layer could be uploaded, at load time or by a step:  *)
(* the table the kernels are given names only buffers there are, and every *)
(* one there is of a layer that counts as loaded.                          *)
THEOREM StreamTableCurrent == StreamSpec => []TableCurrent
<1>1. StreamInit => StreamInv
  BY StreamInitInv
<1>2. StreamInv /\ [StreamNext]_streamVars => StreamInv'
  BY StreamStepInv
<1>3. StreamInv => TableCurrent
  BY DEF StreamInv
<1> QED
  BY <1>1, <1>2, <1>3, PTL DEF StreamSpec

-----------------------------------------------------------------------------
(* ModelManager: the bytes of a table of models.                           *)
InUse(M)     == {m \in DOMAIN M : M[m].active}
SizesIn(M)   == [m \in DOMAIN M |-> M[m].size]
Bytes(M)     == SumFunctionOnSet(SizesIn(M), InUse(M))
BytesOf(M, m) == IF m \in InUse(M) THEN M[m].size ELSE 0

GoodTable(M) == DOMAIN M \subseteq Ids /\ \A m \in DOMAIN M : M[m] \in [size : ModelSizes, active : BOOLEAN]

LEMMA TableFinite ==
  ASSUME NEW M, GoodTable(M)
  PROVE  /\ IsFiniteSet(DOMAIN M) /\ IsFiniteSet(InUse(M)) /\ InUse(M) \subseteq DOMAIN M
         /\ \A m \in DOMAIN M : SizesIn(M)[m] = M[m].size /\ M[m].size \in ModelSizes /\ M[m].size \in Nat
<1>1. IsFiniteSet(Ids)
  BY ManagerAssumption
<1>2. DOMAIN M \in SUBSET Ids /\ InUse(M) \in SUBSET Ids /\ InUse(M) \subseteq DOMAIN M
  BY DEF GoodTable, InUse
<1>3. IsFiniteSet(DOMAIN M) /\ IsFiniteSet(InUse(M))
  BY <1>1, <1>2, FS_Subset
<1>4. \A m \in DOMAIN M : SizesIn(M)[m] = M[m].size /\ M[m].size \in ModelSizes /\ M[m].size \in Nat
  BY ManagerAssumption DEF GoodTable, SizesIn
<1> QED BY <1>2, <1>3, <1>4

(* All the models that can be loaded together stay below the width of the  *)
(* counter.                                                                *)
LEMMA BytesFit ==
  ASSUME NEW M, GoodTable(M)
  PROVE  Bytes(M) \in Nat /\ Bytes(M) < VramWord
<1>1. CASE DOMAIN M = {}
  <2>1. InUse(M) = {}
    BY <1>1 DEF InUse
  <2>2. Bytes(M) = 0
    BY <2>1, SumEmpty DEF Bytes
  <2> QED BY <2>2, ManagerAssumption
<1>2. CASE DOMAIN M # {}
  <2>1. PICK k \in DOMAIN M : TRUE
    BY <1>2
  <2> DEFINE all == [m \in Ids |-> IF m \in DOMAIN M THEN M[m].size ELSE M[k].size]
  <2>2. /\ IsFiniteSet(InUse(M)) /\ InUse(M) \subseteq DOMAIN M /\ DOMAIN M \subseteq Ids
        /\ \A m \in DOMAIN M : SizesIn(M)[m] = M[m].size /\ M[m].size \in ModelSizes /\ M[m].size \in Nat
    BY TableFinite DEF GoodTable
  <2>3. all \in [Ids -> ModelSizes] /\ IsFiniteSet(Ids)
    BY <2>1, <2>2, ManagerAssumption
  <2>4. SumFunctionOnSet(all, Ids) < VramWord
    BY <2>3, ManagerAssumption
  <2>5. \A m \in InUse(M) : SizesIn(M)[m] = all[m]
    BY <2>2
  <2>6. \A m \in Ids : all[m] \in Nat
    BY <2>3, ManagerAssumption
  <2> HIDE DEF all
  <2>7. Bytes(M) = SumFunctionOnSet(all, InUse(M))
    BY <2>2, <2>5, SumSame DEF Bytes
  <2>8. SumFunctionOnSet(all, Ids) = SumFunctionOnSet(all, InUse(M)) + SumFunctionOnSet(all, Ids \ InUse(M))
    <3>1. InUse(M) \in SUBSET Ids
      BY <2>2
    <3> QED BY <2>3, <2>6, <3>1, SumDifference
  <2>9. SumFunctionOnSet(all, InUse(M)) \in Nat /\ SumFunctionOnSet(all, Ids \ InUse(M)) \in Nat
    <3>1. IsFiniteSet(Ids \ InUse(M))
      BY <2>3, FS_Subset
    <3> QED BY <2>2, <2>6, <3>1, SumType
  <2>10. VramWord \in Nat
    BY ManagerAssumption
  <2> QED BY <2>4, <2>7, <2>8, <2>9, <2>10
<1> QED BY <1>1, <1>2

LEMMA BytesChange ==
  ASSUME NEW M, GoodTable(M), NEW N, GoodTable(N), NEW n,
         DOMAIN M \ {n} = DOMAIN N \ {n},
         \A m \in DOMAIN M : m # n => N[m] = M[m]
  PROVE  Bytes(N) = Bytes(M) - BytesOf(M, n) + BytesOf(N, n)
<1>1. ASSUME NEW T, GoodTable(T)
      PROVE  /\ Bytes(T) = BytesOf(T, n) + SumFunctionOnSet(SizesIn(T), InUse(T) \ {n})
             /\ BytesOf(T, n) \in Nat
             /\ IsFiniteSet(InUse(T) \ {n})
             /\ SumFunctionOnSet(SizesIn(T), InUse(T) \ {n}) \in Nat
  <2>1. /\ IsFiniteSet(InUse(T)) /\ InUse(T) \subseteq DOMAIN T
        /\ \A m \in DOMAIN T : SizesIn(T)[m] = T[m].size /\ T[m].size \in Nat
    BY <1>1, TableFinite
  <2>2. IsFiniteSet(InUse(T) \ {n})
    BY <2>1, FS_Subset
  <2>3. \A m \in InUse(T) : SizesIn(T)[m] \in Nat
    BY <2>1
  <2>4. SumFunctionOnSet(SizesIn(T), InUse(T) \ {n}) \in Nat
    BY <2>2, <2>3, SumType
  <2>5. CASE n \in InUse(T)
    <3>1. SumFunctionOnSet(SizesIn(T), InUse(T)) =
            SizesIn(T)[n] + SumFunctionOnSet(SizesIn(T), InUse(T) \ {n})
      BY <2>1, <2>3, <2>5, SumRemove
    <3> QED BY <2>1, <2>2, <2>4, <2>5, <3>1 DEF Bytes, BytesOf
  <2>6. CASE n \notin InUse(T)
    <3>1. InUse(T) \ {n} = InUse(T)
      BY <2>6
    <3>2. BytesOf(T, n) = 0
      BY <2>6 DEF BytesOf
    <3>3. Bytes(T) = SumFunctionOnSet(SizesIn(T), InUse(T) \ {n})
      BY <3>1 DEF Bytes
    <3> QED BY <2>2, <2>4, <3>2, <3>3
  <2> QED BY <2>5, <2>6
<1>2. InUse(M) \ {n} = InUse(N) \ {n}
  BY DEF InUse
<1>3. \A m \in InUse(M) \ {n} : SizesIn(M)[m] = SizesIn(N)[m]
  BY <1>2 DEF InUse, SizesIn
<1>4. SumFunctionOnSet(SizesIn(M), InUse(M) \ {n}) = SumFunctionOnSet(SizesIn(N), InUse(N) \ {n})
  BY <1>1, <1>2, <1>3, SumSame
<1>5. Bytes(M) \in Nat
  BY BytesFit
<1> QED BY <1>1, <1>4, <1>5

-----------------------------------------------------------------------------
Standings == {Idle} \cup [at : {"unlocked", "room made"}, id : Ids, stale : BOOLEAN, needed : Int]

(* The model a thread will swap in is still there, or its pointer is known *)
(* to be stale; and every model has its place among those used last.       *)
ManagerInv ==
  /\ GoodTable(models)
  /\ recency \in Seq(Ids) /\ Loaded \subseteq ToSet(recency)
  /\ swapping \in [Users -> Standings]
  /\ \A u \in Users : swapping[u].at # "idle" /\ ~swapping[u].stale => swapping[u].id \in Loaded
  /\ usedVRAM \in Nat /\ (wrong = {} => usedVRAM = Bytes(models))

LEMMA InWord == \A x \in Int : x % VramWord \in Nat
  BY ManagerAssumption

LEMMA IdleAt == Idle.at = "idle"
  BY DEF Idle

LEMMA OldestIsActive ==
  ASSUME ManagerInv, Active # {}
  PROVE  OldestActive \in Loaded /\ models[OldestActive].active
<1> DEFINE at == {i \in DOMAIN recency : recency[i] \in Active}
<1>1. PICK m \in Active : TRUE
  OBVIOUS
<1>2. m \in ToSet(recency)
  BY DEF ManagerInv, Active, Loaded
<1>3. at # {} /\ at \subseteq Nat
  BY <1>2 DEF ToSet, ManagerInv
<1> HIDE DEF at
<1>4. Min(at) \in at
  BY <1>3, MinIsLeast
<1> QED BY <1>4 DEF OldestActive, Active, Loaded, at

(* A step on the record of one model that keeps the places of the others.  *)
LEMMA TableStep ==
  ASSUME ManagerInv, NEW n \in Ids, GoodTable(models'),
         DOMAIN models \ {n} = DOMAIN models' \ {n},
         \A m \in DOMAIN models : m # n => models'[m] = models[m],
         recency' \in Seq(Ids), ToSet(recency) \ {n} \subseteq ToSet(recency'),
         n \in DOMAIN models' => n \in ToSet(recency'),
         swapping' \in [Users -> Standings],
         \A u \in Users : swapping'[u].at # "idle" /\ ~swapping'[u].stale =>
             swapping'[u].id \in DOMAIN models',
         wrong \subseteq wrong', usedVRAM' \in Nat,
         wrong' = {} => \E v : /\ v = usedVRAM - BytesOf(models, n) + BytesOf(models', n)
                               /\ usedVRAM' \in {v, v % VramWord}
  PROVE  ManagerInv'
<1>1. GoodTable(models) /\ Loaded \subseteq ToSet(recency)
  BY DEF ManagerInv
<1>2. Bytes(models') = Bytes(models) - BytesOf(models, n) + BytesOf(models', n)
  BY <1>1, BytesChange
<1>3. Bytes(models') \in Nat /\ Bytes(models') < VramWord
  BY BytesFit
<1>4. ASSUME wrong' = {} PROVE usedVRAM' = Bytes(models')
  <2>1. usedVRAM = Bytes(models)
    BY <1>4 DEF ManagerInv
  <2>2. usedVRAM' \in {Bytes(models'), Bytes(models') % VramWord}
    BY <1>2, <1>4, <2>1
  <2>3. \A x \in Nat : x < VramWord => x % VramWord = x
    BY ManagerAssumption
  <2> QED BY <1>3, <2>2, <2>3
<1>5. Loaded' \subseteq ToSet(recency')
  BY <1>1 DEF Loaded
<1>6. GoodTable(models)'
  BY DEF GoodTable
<1>7. (usedVRAM \in Nat /\ (wrong = {} => usedVRAM = Bytes(models)))'
  BY <1>4 DEF Bytes, SizesIn, InUse
<1>8. (Loaded \subseteq ToSet(recency))'
  BY <1>5 DEF ToSet
<1> QED BY <1>6, <1>7, <1>8 DEF ManagerInv, Loaded

LEMMA LoadKeeps ==
  ASSUME ManagerInv, NEW m \in Ids, NEW size \in ModelSizes, LoadModel(m, size)
  PROVE  ManagerInv'
<1>1. GoodTable(models) /\ recency \in Seq(Ids) /\ m \notin DOMAIN models
  BY DEF ManagerInv, LoadModel, Loaded
<1>2. models' = [k \in DOMAIN models \cup {m} |->
                  IF k = m THEN [size |-> size, active |-> TRUE] ELSE models[k]]
  BY DEF LoadModel, Loaded
<1>3. GoodTable(models') /\ DOMAIN models \ {m} = DOMAIN models' \ {m}
  BY <1>1, <1>2 DEF GoodTable
<1>4. recency' \in Seq(Ids) /\ ToSet(recency') = ToSet(recency) \cup {m}
  BY <1>1, Moved DEF LoadModel, Touched, ForgottenId
<1>5. BytesOf(models, m) = 0 /\ BytesOf(models', m) = size
  BY <1>1, <1>2 DEF BytesOf, InUse
<1>6. UNCHANGED <<swapping, wrong>> /\ usedVRAM' = (usedVRAM + size) % VramWord
  BY DEF LoadModel
<1>7. wrong' = {} => usedVRAM' = (usedVRAM - BytesOf(models, m) + BytesOf(models', m)) % VramWord
  <2>1. usedVRAM \in Nat
    BY DEF ManagerInv
  <2> QED BY <1>5, <1>6, <2>1, ManagerAssumption
<1>8. \A u \in Users : swapping'[u].at # "idle" /\ ~swapping'[u].stale =>
             swapping'[u].id \in DOMAIN models'
  BY <1>2, <1>6 DEF ManagerInv, Loaded
<1>9. \A k \in DOMAIN models : k # m => models'[k] = models[k]
  BY <1>2
<1>10. swapping' \in [Users -> Standings]
  BY <1>6 DEF ManagerInv
<1>11. usedVRAM' \in Nat
  <2>1. usedVRAM + size \in Int
    BY ManagerAssumption DEF ManagerInv
  <2> QED BY <1>6, <2>1, InWord
<1> QED BY <1>3, <1>4, <1>6, <1>7, <1>8, <1>9, <1>10, <1>11, TableStep

LEMMA UnloadKeeps ==
  ASSUME ManagerInv, NEW m \in Ids, UnloadModel(m)
  PROVE  ManagerInv'
<1>1. /\ GoodTable(models) /\ recency \in Seq(Ids) /\ m \in DOMAIN models
      /\ swapping \in [Users -> Standings]
  BY DEF ManagerInv, UnloadModel, Loaded
<1>2. models' = [k \in DOMAIN models \ {m} |-> models[k]]
  BY DEF UnloadModel, Loaded
<1>3. GoodTable(models') /\ DOMAIN models \ {m} = DOMAIN models' \ {m}
  BY <1>1, <1>2 DEF GoodTable
<1>4. recency' \in Seq(Ids) /\ ToSet(recency) \ {m} \subseteq ToSet(recency')
  BY <1>1, Dropped DEF UnloadModel, ForgottenId
<1>5. /\ wrong' = IF models[m].active THEN wrong ELSE wrong \cup {"unloaded inactive"}
      /\ usedVRAM' = IF usedVRAM >= models[m].size THEN usedVRAM - models[m].size ELSE usedVRAM
      /\ swapping' = [u \in Users |-> IF swapping[u].at # "idle" /\ swapping[u].id = m
                                      THEN [swapping[u] EXCEPT !.stale = TRUE] ELSE swapping[u]]
  BY DEF UnloadModel, SizeOf
<1>6. wrong' = {} => usedVRAM' = usedVRAM - BytesOf(models, m) + BytesOf(models', m)
  <2> SUFFICES ASSUME wrong' = {} PROVE usedVRAM' = usedVRAM - BytesOf(models, m) + BytesOf(models', m)
    OBVIOUS
  <2>1. models[m].active /\ wrong = {}
    BY <1>5
  <2>2. BytesOf(models, m) = models[m].size /\ BytesOf(models', m) = 0
    BY <1>1, <1>2, <2>1 DEF BytesOf, InUse
  <2>3. usedVRAM = Bytes(models) /\ Bytes(models) \in Nat /\ Bytes(models') \in Nat
    BY <1>1, <1>3, <2>1, BytesFit DEF ManagerInv
  <2>4. Bytes(models') = Bytes(models) - BytesOf(models, m) + BytesOf(models', m)
    BY <1>1, <1>2, <1>3, BytesChange
  <2>5. models[m].size \in Nat
    BY <1>1, TableFinite
  <2>6. usedVRAM >= models[m].size
    BY <2>2, <2>3, <2>4, <2>5
  <2>7. usedVRAM' = usedVRAM - models[m].size
    BY <1>5, <2>6
  <2> QED BY <2>2, <2>3, <2>5, <2>7
<1>7. swapping' \in [Users -> Standings]
  <2>1. ASSUME NEW u \in Users PROVE swapping'[u] \in Standings
    <3>1. swapping[u] \in Standings
      BY <1>1
    <3>2. swapping[u].at # "idle" => [swapping[u] EXCEPT !.stale = TRUE] \in Standings
      BY <3>1 DEF Standings, Idle
    <3> QED BY <1>5, <3>1, <3>2
  <2> QED BY <1>5, <2>1
<1>8. ASSUME NEW u \in Users, swapping'[u].at # "idle", ~swapping'[u].stale
      PROVE  swapping'[u].id \in DOMAIN models'
  <2>1. swapping[u] \in Standings
    BY <1>1
  <2>2. CASE swapping[u].at # "idle" /\ swapping[u].id = m
    <3>1. [swapping[u] EXCEPT !.stale = TRUE].stale = TRUE
      <4>1. swapping[u] \in [at : {"unlocked", "room made"}, id : Ids, stale : BOOLEAN, needed : Int]
        BY <2>1, <2>2, IdleAt DEF Standings
      <4> QED BY <4>1
    <3> QED BY <1>5, <1>8, <2>2, <3>1
  <2>3. CASE ~(swapping[u].at # "idle" /\ swapping[u].id = m)
    <3>1. swapping'[u] = swapping[u]
      BY <1>5, <2>3
    <3>2. swapping[u].id \in DOMAIN models
      BY <1>8, <3>1 DEF ManagerInv, Loaded
    <3> QED BY <1>2, <1>8, <2>3, <3>1, <3>2
  <2> QED BY <2>2, <2>3
<1>9. (\A k \in DOMAIN models : k # m => models'[k] = models[k]) /\ m \notin DOMAIN models'
  BY <1>2
<1>10. wrong \subseteq wrong'
  BY <1>5
<1>11. usedVRAM' \in Nat
  <2>1. models[m].size \in Nat /\ usedVRAM \in Nat
    BY <1>1, TableFinite DEF ManagerInv
  <2>2. usedVRAM' = usedVRAM \/ (usedVRAM >= models[m].size /\ usedVRAM' = usedVRAM - models[m].size)
    BY <1>5
  <2> QED BY <2>1, <2>2
<1> QED BY <1>3, <1>4, <1>6, <1>7, <1>8, <1>9, <1>10, <1>11, TableStep

LEMMA SwapOutKeeps ==
  ASSUME ManagerInv, NEW needed, SwapOutLRU(needed),
         swapping' \in [Users -> Standings],
         \A u \in Users : swapping'[u].at # "idle" /\ ~swapping'[u].stale => swapping'[u].id \in Loaded
  PROVE  ManagerInv'
<1> DEFINE m == OldestActive
<1>1. m \in DOMAIN models /\ models[m].active
  BY OldestIsActive DEF SwapOutLRU, Loaded
<1>2. /\ models' = [models EXCEPT ![m].active = FALSE]
      /\ usedVRAM' = (usedVRAM - models[m].size) % VramWord
      /\ UNCHANGED <<recency, wrong>>
  BY DEF SwapOutLRU, SizeOf
<1> HIDE DEF m
<1>3. GoodTable(models) /\ recency \in Seq(Ids) /\ Loaded \subseteq ToSet(recency) /\ m \in Ids
  BY <1>1 DEF ManagerInv, GoodTable
<1>4. /\ DOMAIN models' = DOMAIN models /\ \A k \in DOMAIN models : k # m => models'[k] = models[k]
      /\ models'[m] = [models[m] EXCEPT !.active = FALSE]
  BY <1>1, <1>2
<1>5. models'[m].active = FALSE /\ models'[m] \in [size : ModelSizes, active : BOOLEAN]
  BY <1>1, <1>3, <1>4 DEF GoodTable
<1>6. GoodTable(models')
  BY <1>1, <1>3, <1>4, <1>5 DEF GoodTable
<1>7. BytesOf(models, m) = models[m].size /\ BytesOf(models', m) = 0
  BY <1>1, <1>4, <1>5 DEF BytesOf, InUse
<1>8. wrong' = {} => usedVRAM' = (usedVRAM - BytesOf(models, m) + BytesOf(models', m)) % VramWord
  <2>1. wrong = {} => usedVRAM \in Nat
    BY <1>3, BytesFit DEF ManagerInv
  <2>2. models[m].size \in Nat
    BY <1>1, <1>3, TableFinite
  <2>3. wrong = {} => usedVRAM - BytesOf(models, m) + BytesOf(models', m) = usedVRAM - models[m].size
    BY <1>7, <2>1, <2>2
  <2> QED BY <1>2, <2>3
<1>9. ToSet(recency') = ToSet(recency) /\ m \in ToSet(recency)
  BY <1>1, <1>2, <1>3 DEF Loaded
<1>10. \A u \in Users : swapping'[u].at # "idle" /\ ~swapping'[u].stale => swapping'[u].id \in DOMAIN models'
  BY <1>4 DEF Loaded
<1>11. usedVRAM' \in Nat
  <2>1. models[m].size \in Nat /\ usedVRAM \in Nat
    BY <1>1, <1>3, TableFinite DEF ManagerInv
  <2>2. usedVRAM - models[m].size \in Int
    BY <2>1
  <2> QED BY <1>2, <2>2, InWord
<1> QED BY <1>2, <1>3, <1>4, <1>6, <1>8, <1>9, <1>10, <1>11, TableStep

LEMMA UploadKeeps ==
  ASSUME ManagerInv, NEW m \in Loaded, Upload(m),
         swapping' \in [Users -> Standings],
         \A u \in Users : swapping'[u].at # "idle" /\ ~swapping'[u].stale => swapping'[u].id \in Loaded
  PROVE  ManagerInv'
<1>1. GoodTable(models) /\ recency \in Seq(Ids) /\ Loaded \subseteq ToSet(recency) /\ m \in Ids
  BY DEF ManagerInv, GoodTable, Loaded
<1>2. CASE UNCHANGED <<models, recency, usedVRAM, wrong>>
  <2>1. (usedVRAM \in Nat /\ (wrong = {} => usedVRAM = Bytes(models)))'
    BY <1>2 DEF ManagerInv, Bytes, InUse, SizesIn
  <2>2. GoodTable(models)' /\ (recency \in Seq(Ids))' /\ (Loaded \subseteq ToSet(recency))'
    BY <1>1, <1>2 DEF GoodTable, ToSet, Loaded
  <2>3. DOMAIN models' = DOMAIN models
    BY <1>2
  <2> QED BY <2>1, <2>2, <2>3 DEF ManagerInv, Loaded
<1>3. CASE /\ models' = [models EXCEPT ![m].active = TRUE]
           /\ recency' = Touched(m)
           /\ usedVRAM' = (usedVRAM + SizeOf(m)) % VramWord
           /\ wrong' = IF models[m].active THEN wrong \cup {"swapped in twice"} ELSE wrong
  <2>1. m \in DOMAIN models /\ models[m] \in [size : ModelSizes, active : BOOLEAN]
    BY <1>1 DEF Loaded, GoodTable
  <2>2. /\ DOMAIN models' = DOMAIN models /\ \A k \in DOMAIN models : k # m => models'[k] = models[k]
        /\ models'[m] = [models[m] EXCEPT !.active = TRUE]
    BY <1>3, <2>1
  <2>3. /\ models'[m].active = TRUE /\ models'[m].size = models[m].size
        /\ models'[m] \in [size : ModelSizes, active : BOOLEAN]
    BY <2>1, <2>2
  <2>4. GoodTable(models')
    BY <1>1, <2>1, <2>2, <2>3 DEF GoodTable
  <2>5. recency' \in Seq(Ids) /\ ToSet(recency') = ToSet(recency) \cup {m}
    <3>1. recency' = Append(RemoveFirst(recency, m), m)
      BY <1>3 DEF Touched, ForgottenId
    <3> QED BY <1>1, <3>1, Moved
  <2>6. wrong' = {} => usedVRAM' = (usedVRAM - BytesOf(models, m) + BytesOf(models', m)) % VramWord
    <3> SUFFICES ASSUME wrong' = {}
                 PROVE  usedVRAM' = (usedVRAM - BytesOf(models, m) + BytesOf(models', m)) % VramWord
      OBVIOUS
    <3>1. ~models[m].active /\ wrong = {}
      BY <1>3
    <3>2. usedVRAM \in Nat /\ models[m].size \in Nat
      BY <1>1, <2>1, <3>1, BytesFit, TableFinite DEF ManagerInv
    <3>3. BytesOf(models, m) = 0 /\ BytesOf(models', m) = models[m].size
      BY <2>1, <2>2, <2>3, <3>1 DEF BytesOf, InUse
    <3>4. usedVRAM - BytesOf(models, m) + BytesOf(models', m) = usedVRAM + models[m].size
      BY <3>2, <3>3
    <3> QED BY <1>3, <3>4 DEF SizeOf
  <2>7. wrong \subseteq wrong'
    BY <1>3
  <2>8. \A u \in Users : swapping'[u].at # "idle" /\ ~swapping'[u].stale => swapping'[u].id \in DOMAIN models'
    BY <2>2 DEF Loaded
  <2>9. usedVRAM' \in Nat
    <3>1. models[m].size \in Nat /\ usedVRAM \in Nat
      BY <1>1, <2>1, TableFinite DEF ManagerInv
    <3>2. usedVRAM + models[m].size \in Int
      BY <3>1
    <3> QED BY <1>3, <3>2, InWord DEF SizeOf
  <2> QED BY <1>1, <2>2, <2>4, <2>5, <2>6, <2>7, <2>8, <2>9, TableStep
<1> QED BY <1>2, <1>3 DEF Upload

(* The steps of SwapIn change where one thread stands.                     *)
LEMMA Stands ==
  ASSUME ManagerInv, NEW u \in Users, NEW s \in Standings,
         s.at # "idle" /\ ~s.stale => s.id \in Loaded,
         swapping' = [swapping EXCEPT ![u] = s]
  PROVE  /\ swapping' \in [Users -> Standings]
         /\ \A v \in Users : swapping'[v].at # "idle" /\ ~swapping'[v].stale => swapping'[v].id \in Loaded
<1>1. swapping \in [Users -> Standings]
  BY DEF ManagerInv
<1>2. swapping'[u] = s /\ \A v \in Users : v # u => swapping'[v] = swapping[v]
  BY <1>1
<1>3. swapping' \in [Users -> Standings]
  BY <1>1
<1> QED BY <1>2, <1>3 DEF ManagerInv

LEMMA StandingKeeps ==
  ASSUME ManagerInv, UNCHANGED <<models, usedVRAM, wrong>>,
         recency' \in Seq(Ids), ToSet(recency) \subseteq ToSet(recency'),
         swapping' \in [Users -> Standings],
         \A v \in Users : swapping'[v].at # "idle" /\ ~swapping'[v].stale => swapping'[v].id \in Loaded
  PROVE  ManagerInv'
<1>1. (usedVRAM \in Nat /\ (wrong = {} => usedVRAM = Bytes(models)))'
  BY DEF ManagerInv, Bytes, InUse, SizesIn
<1>2. GoodTable(models)' /\ DOMAIN models' = DOMAIN models
  BY DEF ManagerInv, GoodTable
<1>3. DOMAIN models' \subseteq ToSet(recency')
  BY <1>2 DEF ManagerInv, Loaded
<1> QED BY <1>1, <1>2, <1>3 DEF ManagerInv, Loaded, ToSet

LEMMA GetKeeps ==
  ASSUME ManagerInv, NEW m \in Ids, GetModel(m)
  PROVE  ManagerInv'
<1>1. recency \in Seq(Ids) /\ UNCHANGED <<models, usedVRAM, swapping, wrong>> /\ recency' = Touched(m)
  BY DEF ManagerInv, GetModel
<1>2. recency' \in Seq(Ids) /\ ToSet(recency') = ToSet(recency) \cup {m}
  BY <1>1, Moved DEF Touched, ForgottenId
<1> QED BY <1>1, <1>2, StandingKeeps DEF ManagerInv

LEMMA SwapInKeeps ==
  ASSUME ManagerInv, NEW u \in Users, NEW m \in Ids, SwapIn(u, m)
  PROVE  ManagerInv'
<1>1. m \in Loaded
  BY DEF SwapIn
<1>2. CASE SizeOf(m) <= Available
  BY <1>1, <1>2, UploadKeeps DEF SwapIn, ManagerInv
<1>3. CASE ~(SizeOf(m) <= Available)
  <2> DEFINE s == [at |-> "unlocked", id |-> m, stale |-> FALSE, needed |-> SizeOf(m) - Available]
  <2>1. swapping' = [swapping EXCEPT ![u] = s] /\ UNCHANGED <<models, recency, usedVRAM, wrong>>
    BY <1>3 DEF SwapIn
  <2>2. SizeOf(m) \in Nat /\ Available \in Int /\ m \in Ids
    <3>1. GoodTable(models) /\ usedVRAM \in Nat
      BY DEF ManagerInv
    <3> QED BY <1>1, <3>1, TableFinite, ManagerAssumption DEF SizeOf, Available, Loaded
  <2>3. s \in Standings /\ s.id \in Loaded
    BY <1>1, <2>2 DEF Standings
  <2> HIDE DEF s
  <2>4. /\ swapping' \in [Users -> Standings]
        /\ \A v \in Users : swapping'[v].at # "idle" /\ ~swapping'[v].stale => swapping'[v].id \in Loaded
    BY <2>1, <2>3, Stands
  <2> QED BY <2>1, <2>4, StandingKeeps DEF ManagerInv
<1> QED BY <1>2, <1>3

LEMMA MakesRoomKeeps ==
  ASSUME ManagerInv, NEW u \in Users, SwapInMakesRoom(u)
  PROVE  ManagerInv'
<1> DEFINE old == swapping[u]
           new == [old EXCEPT !.at = "room made"]
<1>1. old \in Standings /\ old.at = "unlocked" /\ (~old.stale => old.id \in Loaded)
  BY DEF SwapInMakesRoom, ManagerInv
<1>2. Idle \in Standings /\ Idle.at = "idle"
  BY DEF Standings, Idle
<1>3. CASE SwapOutLRU(old.needed) /\ swapping' = [swapping EXCEPT ![u].at = "room made"]
  <2>1. old \in [at : {"unlocked", "room made"}, id : Ids, stale : BOOLEAN, needed : Int]
    BY <1>1, <1>2 DEF Standings
  <2>2. new \in Standings /\ new.stale = old.stale /\ new.id = old.id
    BY <2>1 DEF Standings
  <2>3. swapping' = [swapping EXCEPT ![u] = new]
    BY <1>3
  <2> HIDE DEF new
  <2>4. /\ swapping' \in [Users -> Standings]
        /\ \A v \in Users : swapping'[v].at # "idle" /\ ~swapping'[v].stale => swapping'[v].id \in Loaded
    BY <1>1, <2>2, <2>3, Stands
  <2> QED BY <1>3, <2>4, SwapOutKeeps
<1>4. CASE swapping' = [swapping EXCEPT ![u] = Idle] /\ UNCHANGED <<models, recency, usedVRAM, wrong>>
  <2>1. /\ swapping' \in [Users -> Standings]
        /\ \A v \in Users : swapping'[v].at # "idle" /\ ~swapping'[v].stale => swapping'[v].id \in Loaded
    BY <1>2, <1>4, Stands
  <2> QED BY <1>4, <2>1, StandingKeeps DEF ManagerInv
<1> QED BY <1>3, <1>4 DEF SwapInMakesRoom

LEMMA FinishesKeeps ==
  ASSUME ManagerInv, NEW u \in Users, SwapInFinishes(u)
  PROVE  ManagerInv'
<1>1. swapping' = [swapping EXCEPT ![u] = Idle] /\ swapping[u].at = "room made"
  BY DEF SwapInFinishes
<1>2. /\ swapping' \in [Users -> Standings]
      /\ \A v \in Users : swapping'[v].at # "idle" /\ ~swapping'[v].stale => swapping'[v].id \in Loaded
  <2>1. Idle \in Standings /\ Idle.at = "idle"
    BY DEF Standings, Idle
  <2> QED BY <1>1, <2>1, Stands
<1>3. CASE swapping[u].stale
  <2>1. PICK size \in ModelSizes : usedVRAM' = (usedVRAM + size) % VramWord
    BY <1>3 DEF SwapInFinishes
  <2>2. wrong' # {} /\ UNCHANGED <<models, recency>>
    BY <1>3 DEF SwapInFinishes
  <2>3. usedVRAM' \in Nat
    <3>1. usedVRAM + size \in Int
      BY ManagerAssumption DEF ManagerInv
    <3> QED BY <2>1, <3>1, InWord
  <2>4. GoodTable(models)' /\ (recency \in Seq(Ids))' /\ (Loaded \subseteq ToSet(recency))'
    BY <2>2 DEF ManagerInv, GoodTable, ToSet, Loaded
  <2>5. DOMAIN models' = DOMAIN models
    BY <2>2
  <2> QED BY <1>2, <2>2, <2>3, <2>4, <2>5 DEF ManagerInv, Loaded
<1>4. CASE ~swapping[u].stale
  <2>1. Upload(swapping[u].id) /\ swapping[u].id \in Loaded
    BY <1>1, <1>4 DEF SwapInFinishes, ManagerInv
  <2> QED BY <1>2, <2>1, UploadKeeps
<1> QED BY <1>3, <1>4

LEMMA ManagerInitially == ManagerInit => ManagerInv
<1> SUFFICES ASSUME ManagerInit PROVE ManagerInv
  OBVIOUS
<1>1. DOMAIN models = {} /\ recency = << >> /\ usedVRAM = 0
  BY DEF ManagerInit
<1>2. InUse(models) = {}
  BY <1>1 DEF InUse
<1>3. Bytes(models) = 0
  BY <1>2, SumEmpty DEF Bytes
<1>4. swapping \in [Users -> Standings] /\ \A u \in Users : swapping[u].at = "idle"
  BY DEF ManagerInit, Standings, Idle
<1> QED BY <1>1, <1>3, <1>4 DEF ManagerInv, GoodTable, Loaded

(* The budget of the models, with any number of threads and models: the    *)
(* bytes counted are those of the active models until one of the named     *)
(* mistakes is made, whatever falls between the unlock and the relock of   *)
(* SwapIn.                                                                 *)
THEOREM ManagerCountsActive == ManagerSpec => []UsedIsActive
<1>1. ManagerInv /\ [ManagerNext]_managerVars => ManagerInv'
  <2> SUFFICES ASSUME ManagerInv, [ManagerNext]_managerVars PROVE ManagerInv'
    OBVIOUS
  <2>1. ASSUME NEW m \in Ids, NEW size \in ModelSizes, LoadModel(m, size) PROVE ManagerInv'
    BY <2>1, LoadKeeps
  <2>2. ASSUME NEW m \in Ids, UnloadModel(m) \/ GetModel(m) PROVE ManagerInv'
    BY <2>2, UnloadKeeps, GetKeeps
  <2>3. ASSUME NEW needed \in ModelSizes, CallSwapOut(needed) PROVE ManagerInv'
    BY <2>3, SwapOutKeeps DEF CallSwapOut, ManagerInv
  <2>4. ASSUME NEW u \in Users, NEW m \in Ids, SwapIn(u, m) PROVE ManagerInv'
    BY <2>4, SwapInKeeps
  <2>5. ASSUME NEW u \in Users, SwapInMakesRoom(u) \/ SwapInFinishes(u) PROVE ManagerInv'
    BY <2>5, MakesRoomKeeps, FinishesKeeps
  <2>6. CASE UNCHANGED managerVars
    BY <2>6, StandingKeeps DEF managerVars, ManagerInv
  <2> QED BY <2>1, <2>2, <2>3, <2>4, <2>5, <2>6 DEF ManagerNext
<1>2. ManagerInv => UsedIsActive
  BY DEF ManagerInv, UsedIsActive, Bytes, InUse, SizesIn, Active, Loaded, SizeOf
<1> QED BY ManagerInitially, <1>1, <1>2, PTL DEF ManagerSpec

-----------------------------------------------------------------------------
(* LayerSwap: the layers r, the queue q, the bytes and the top of the ring.*)
Entries     == [layer : SwapLayers, inVRAM : BOOLEAN, offset : Nat, size : LayerSizes]
Named(r, l) == {i \in DOMAIN r : r[i].layer = l}
First(r, l) == Min(Named(r, l))
InVram(r)   == {i \in DOMAIN r : r[i].inVRAM}
Lengths(r)  == [i \in DOMAIN r |-> r[i].size]
SwapLayersOf(r) == {r[i].layer : i \in DOMAIN r}

Apart2(r, i, j) == \/ r[i].offset + r[i].size <= r[j].offset
                   \/ r[j].offset + r[j].size <= r[i].offset

SwapOk(r, q, used, top) ==
  /\ r \in Seq(Entries) /\ q \in Seq(SwapLayers) /\ top \in Nat
  /\ NoRepeats(q) /\ ToSet(q) \subseteq SwapLayersOf(r)
  /\ {First(r, l) : l \in ToSet(q)} = InVram(r)
  /\ used = SumFunctionOnSet(Lengths(r), InVram(r))
  /\ \A i \in InVram(r) : r[i].offset + r[i].size <= top
  /\ \A i, j \in InVram(r) : i # j => Apart2(r, i, j)

LEMMA FirstIs ==
  ASSUME NEW r \in Seq(Entries), NEW l \in SwapLayersOf(r)
  PROVE  First(r, l) \in DOMAIN r /\ r[First(r, l)].layer = l
<1>1. Named(r, l) \subseteq Nat /\ Named(r, l) # {}
  BY DEF Named, SwapLayersOf
<1>2. First(r, l) \in Named(r, l)
  BY <1>1, MinIsLeast DEF First
<1> QED BY <1>2 DEF Named

LEMMA LayersFinite ==
  ASSUME NEW r \in Seq(Entries), NEW S, S \subseteq DOMAIN r
  PROVE  /\ IsFiniteSet(S) /\ \A i \in S : Lengths(r)[i] \in Nat
         /\ SumFunctionOnSet(Lengths(r), S) \in Nat
<1>1. DOMAIN r = 1 .. Len(r) /\ Len(r) \in Nat
  OBVIOUS
<1>2. IsFiniteSet(1 .. Len(r))
  BY <1>1, FS_Interval
<1>3. IsFiniteSet(S)
  BY <1>1, <1>2, FS_Subset
<1>4. \A i \in S : Lengths(r)[i] \in Nat
  <2>1. \A i \in DOMAIN r : r[i] \in Entries
    OBVIOUS
  <2>2. \A i \in S : Lengths(r)[i] = r[i].size /\ r[i].size \in LayerSizes
    BY <2>1 DEF Lengths, Entries
  <2> QED BY <2>2, SwapAssumption
<1> QED BY <1>3, <1>4, SumType

(* Two tables that tell the same layers with the same sizes.               *)
Alike(r, s) ==
  DOMAIN r = DOMAIN s /\ \A i \in DOMAIN r : r[i].layer = s[i].layer /\ r[i].size = s[i].size

LEMMA AlikeSame ==
  ASSUME NEW r, NEW s, Alike(r, s)
  PROVE  /\ SwapLayersOf(r) = SwapLayersOf(s) /\ Lengths(r) = Lengths(s)
         /\ \A l : First(r, l) = First(s, l)
<1>1. \A l : Named(r, l) = Named(s, l)
  BY DEF Alike, Named
<1> QED BY <1>1 DEF Alike, First, SwapLayersOf, Lengths

LEMMA Firsts ==
  ASSUME NEW r \in Seq(Entries), NEW L, L \subseteq SwapLayersOf(r)
  PROVE  /\ \A l \in L : First(r, l) \in DOMAIN r /\ r[First(r, l)].layer = l
         /\ \A l, m \in L : First(r, l) = First(r, m) => l = m
<1>1. \A l \in L : First(r, l) \in DOMAIN r /\ r[First(r, l)].layer = l
  BY FirstIs
<1> QED BY <1>1

LEMMA Touching ==
  ASSUME NEW S, NEW q \in Seq(S), NEW l \in S
  PROVE  /\ Touch(q, l) \in Seq(S) /\ ToSet(Touch(q, l)) = ToSet(q) \cup {l}
         /\ NoRepeats(q) => NoRepeats(Touch(q, l))
<1>1. Touch(q, l) = Append(RemoveFirst(q, l), l)
  BY DEF Touch
<1> QED BY <1>1, Moved

(* The first layers of the queue leave VRAM.                               *)
Leaving(r, q, n) == {First(r, q[k]) : k \in 1 .. n}

Evicts(r, q, n, V, s, t) ==
  /\ n \in 0 .. Len(q) /\ V = Leaving(r, q, n)
  /\ s \in Seq(Entries) /\ Alike(r, s)
  /\ \A i \in DOMAIN r : s[i].offset = r[i].offset /\ (s[i].inVRAM <=> r[i].inVRAM /\ i \notin V)
  /\ t = SubSeq(q, n + 1, Len(q))

LEMMA EvictOk ==
  ASSUME NEW r, NEW q, NEW used, NEW top, SwapOk(r, q, used, top),
         NEW n, NEW V, NEW s, NEW t, Evicts(r, q, n, V, s, t)
  PROVE  /\ SwapOk(s, t, used - SumFunctionOnSet(Lengths(r), V), top)
         /\ V \subseteq InVram(r) /\ InVram(s) = InVram(r) \ V
         /\ used - SumFunctionOnSet(Lengths(r), V) \in Nat
<1>1. /\ r \in Seq(Entries) /\ q \in Seq(SwapLayers) /\ NoRepeats(q) /\ ToSet(q) \subseteq SwapLayersOf(r)
      /\ {First(r, l) : l \in ToSet(q)} = InVram(r)
  BY DEF SwapOk
<1>0. /\ n \in 0 .. Len(q) /\ V = Leaving(r, q, n) /\ t = SubSeq(q, n + 1, Len(q))
      /\ s \in Seq(Entries) /\ Alike(r, s)
      /\ \A i \in DOMAIN r : s[i].offset = r[i].offset /\ (s[i].inVRAM <=> r[i].inVRAM /\ i \notin V)
  BY DEF Evicts
<1> DEFINE E == {q[k] : k \in 1 .. n}
<1>2. /\ t \in Seq(SwapLayers) /\ NoRepeats(t) /\ ToSet(t) = ToSet(q) \ E
  <2>1. q \in Seq(SwapLayers) /\ NoRepeats(q)
    BY <1>1
  <2>2. n \in 0 .. Len(q) /\ t = SubSeq(q, n + 1, Len(q))
    BY <1>0
  <2> QED BY ONLY <2>1, <2>2, Popped
<1>3. E \subseteq ToSet(q) /\ V = {First(r, l) : l \in E}
  <2>1. DOMAIN q = 1 .. Len(q) /\ Len(q) \in Nat
    BY <1>0, <1>1
  <2>2. \A k \in 1 .. n : k \in DOMAIN q
    BY <1>0, <2>1
  <2>3. E \subseteq ToSet(q)
    BY <2>2 DEF ToSet
  <2>4. {First(r, q[k]) : k \in 1 .. n} = {First(r, l) : l \in E}
    OBVIOUS
  <2> QED BY <1>0, <2>3, <2>4 DEF Leaving
<1> HIDE DEF E
<1>4. DOMAIN s = DOMAIN r
  BY <1>0 DEF Alike
<1>8. SwapLayersOf(r) = SwapLayersOf(s) /\ Lengths(r) = Lengths(s) /\ \A l : First(r, l) = First(s, l)
  BY <1>0, AlikeSame
<1>9. V \subseteq InVram(r) /\ InVram(r) \subseteq DOMAIN r
  BY <1>1, <1>3 DEF InVram
<1>10. InVram(s) = InVram(r) \ V
  BY <1>0, <1>4 DEF InVram
<1>11. {First(s, l) : l \in ToSet(t)} = InVram(s)
  <2>1. \A l, m \in ToSet(q) : First(r, l) = First(r, m) => l = m
    BY <1>1, Firsts
  <2>2. ASSUME NEW l \in ToSet(q), l \notin E PROVE First(r, l) \in InVram(r) \ V
    BY <1>1, <1>3, <2>1, <2>2
  <2>3. ASSUME NEW i \in InVram(r) \ V PROVE \E l \in ToSet(q) \ E : i = First(r, l)
    BY <1>1, <1>3, <2>3
  <2>4. {First(r, l) : l \in ToSet(q) \ E} = InVram(r) \ V
    <3>1. \A l \in ToSet(q) \ E : First(r, l) \in InVram(r) \ V
      BY <2>2
    <3> HIDE DEF First, ToSet, InVram
    <3> QED BY ONLY <2>3, <3>1
  <2> QED BY <1>2, <1>8, <1>10, <2>4
<1>12. /\ used - SumFunctionOnSet(Lengths(r), V) = SumFunctionOnSet(Lengths(s), InVram(s))
       /\ used - SumFunctionOnSet(Lengths(r), V) \in Nat
  <2> DEFINE Sum(S) == SumFunctionOnSet(Lengths(r), S)
  <2>1. used = Sum(InVram(r))
    BY DEF SwapOk
  <2>2. Sum(InVram(r)) = Sum(V) + Sum(InVram(r) \ V)
    <3>1. IsFiniteSet(InVram(r)) /\ \A i \in InVram(r) : Lengths(r)[i] \in Nat
      BY <1>1, <1>9, LayersFinite
    <3>2. V \in SUBSET InVram(r)
      BY <1>9
    <3> QED BY <3>1, <3>2, SumDifference
  <2>3. Sum(V) \in Nat
    BY <1>1, <1>9, LayersFinite
  <2>4. Sum(InVram(r) \ V) \in Nat
    <3>1. InVram(r) \ V \subseteq DOMAIN r
      BY <1>9
    <3> QED BY <1>1, <3>1, LayersFinite
  <2>5. Sum(InVram(r) \ V) = SumFunctionOnSet(Lengths(s), InVram(s))
    BY <1>8, <1>10
  <2> HIDE DEF Sum
  <2>6. used - Sum(V) = Sum(InVram(r) \ V)
    BY <2>1, <2>2, <2>3, <2>4
  <2> QED BY <2>4, <2>5, <2>6 DEF Sum
<1>13. /\ \A i \in InVram(s) : s[i].offset + s[i].size <= top
       /\ \A i, j \in InVram(s) : i # j => Apart2(s, i, j)
  <2>1. InVram(s) \subseteq InVram(r) /\ \A i \in InVram(s) : s[i].offset = r[i].offset /\ s[i].size = r[i].size
    BY <1>0, <1>9, <1>10 DEF Alike
  <2>2. /\ \A i \in InVram(r) : r[i].offset + r[i].size <= top
        /\ \A i, j \in InVram(r) : i # j => Apart2(r, i, j)
    BY DEF SwapOk
  <2> QED BY <2>1, <2>2 DEF Apart2
<1>14. top \in Nat /\ ToSet(t) \subseteq SwapLayersOf(s)
  BY <1>1, <1>2, <1>8 DEF SwapOk
<1> QED BY <1>0, <1>2, <1>9, <1>10, <1>11, <1>12, <1>13, <1>14 DEF SwapOk

(* A layer that is in VRAM is used again.                                  *)
LEMMA TouchOk ==
  ASSUME NEW r, NEW q, NEW used, NEW top, SwapOk(r, q, used, top),
         NEW l \in SwapLayers, l \in SwapLayersOf(r), r[First(r, l)].inVRAM
  PROVE  SwapOk(r, Touch(q, l), used, top)
<1>1. /\ r \in Seq(Entries) /\ q \in Seq(SwapLayers) /\ NoRepeats(q) /\ ToSet(q) \subseteq SwapLayersOf(r)
      /\ {First(r, m) : m \in ToSet(q)} = InVram(r)
  BY DEF SwapOk
<1>2. First(r, l) \in InVram(r) /\ r[First(r, l)].layer = l
  BY <1>1, FirstIs DEF InVram
<1>3. l \in ToSet(q)
  BY <1>1, <1>2, Firsts
<1>4. /\ Touch(q, l) \in Seq(SwapLayers) /\ NoRepeats(Touch(q, l))
      /\ ToSet(Touch(q, l)) = ToSet(q)
  <2>1. ToSet(q) \cup {l} = ToSet(q)
    BY <1>3
  <2>2. ToSet(Touch(q, l)) = ToSet(q) \cup {l}
    BY <1>1, Touching
  <2> QED BY <1>1, <2>1, <2>2, Touching
<1> QED BY <1>4 DEF SwapOk

(* A layer is given a place above everything the ring has given away.      *)
LEMMA PlaceOk ==
  ASSUME NEW r, NEW q, NEW used, NEW top, SwapOk(r, q, used, top),
         NEW l \in SwapLayers, l \in SwapLayersOf(r),
         NEW i, i = First(r, l), ~r[i].inVRAM,
         NEW place \in Nat, place >= top,
         NEW s \in Seq(Entries), Alike(r, s),
         \A j \in DOMAIN r : j # i => s[j].offset = r[j].offset /\ (s[j].inVRAM <=> r[j].inVRAM),
         s[i].inVRAM, s[i].offset = place
  PROVE  /\ SwapOk(s, Touch(q, l), used + r[i].size, place + r[i].size)
         /\ InVram(s) = InVram(r) \cup {i}
<1>1. /\ r \in Seq(Entries) /\ q \in Seq(SwapLayers) /\ NoRepeats(q) /\ ToSet(q) \subseteq SwapLayersOf(r)
      /\ {First(r, m) : m \in ToSet(q)} = InVram(r)
  BY DEF SwapOk
<1>2. i \in DOMAIN r /\ r[i].layer = l
  BY <1>1, FirstIs
<1>3. DOMAIN s = DOMAIN r /\ \A j \in DOMAIN r : s[j].size = r[j].size
  BY DEF Alike
<1>7. SwapLayersOf(r) = SwapLayersOf(s) /\ Lengths(r) = Lengths(s) /\ \A m : First(r, m) = First(s, m)
  BY AlikeSame
<1>8. InVram(s) = InVram(r) \cup {i} /\ i \notin InVram(r) /\ InVram(r) \subseteq DOMAIN r
  BY <1>2, <1>3 DEF InVram
<1>9. /\ Touch(q, l) \in Seq(SwapLayers) /\ NoRepeats(Touch(q, l))
      /\ ToSet(Touch(q, l)) = ToSet(q) \cup {l}
  BY <1>1, Touching
<1>10. {First(s, m) : m \in ToSet(Touch(q, l))} = InVram(s)
  <2>1. {First(r, m) : m \in ToSet(q) \cup {l}} = {First(r, m) : m \in ToSet(q)} \cup {First(r, l)}
    OBVIOUS
  <2> QED BY <1>1, <1>7, <1>8, <1>9, <2>1
<1>11. used + r[i].size = SumFunctionOnSet(Lengths(s), InVram(s))
  <2> DEFINE Sum(S) == SumFunctionOnSet(Lengths(r), S)
  <2>1. used = Sum(InVram(r))
    BY DEF SwapOk
  <2>2. InVram(s) \subseteq DOMAIN r /\ i \in InVram(s) /\ InVram(s) \ {i} = InVram(r)
    BY <1>2, <1>8
  <2>3. Sum(InVram(s)) = Lengths(r)[i] + Sum(InVram(r))
    <3>1. IsFiniteSet(InVram(s)) /\ \A j \in InVram(s) : Lengths(r)[j] \in Nat
      BY <1>1, <2>2, LayersFinite
    <3>2. Sum(InVram(s)) = Lengths(r)[i] + Sum(InVram(s) \ {i})
      BY <2>2, <3>1, SumRemove
    <3> QED BY <2>2, <3>2
  <2>4. Lengths(r)[i] = r[i].size /\ Lengths(r)[i] \in Nat /\ Sum(InVram(r)) \in Nat
    <3>1. Lengths(r)[i] \in Nat
      BY <1>1, <2>2, LayersFinite
    <3>2. Sum(InVram(r)) \in Nat
      BY <1>1, <1>8, LayersFinite
    <3>3. Lengths(r)[i] = r[i].size
      BY <1>2 DEF Lengths
    <3> QED BY <3>1, <3>2, <3>3
  <2>5. Sum(InVram(s)) = SumFunctionOnSet(Lengths(s), InVram(s))
    BY <1>7
  <2> HIDE DEF Sum
  <2> QED BY <2>1, <2>3, <2>4, <2>5
<1>12. /\ top \in Nat /\ r[i].size \in Nat
       /\ \A j \in InVram(r) : r[j].offset + r[j].size <= top /\ r[j].offset \in Nat /\ r[j].size \in Nat
       /\ \A j, k \in InVram(r) : j # k => Apart2(r, j, k)
  <2>1. \A j \in DOMAIN r : r[j] \in Entries
    BY <1>1
  <2>2. \A j \in DOMAIN r : r[j].offset \in Nat /\ r[j].size \in Nat
    BY <2>1, SwapAssumption DEF Entries
  <2> QED BY <1>2, <1>8, <2>2 DEF SwapOk
<1>13. \A j \in InVram(r) : s[j].offset = r[j].offset /\ s[j].size = r[j].size
  BY <1>3, <1>8
<1>14. s[i].size = r[i].size
  BY <1>2, <1>3
<1>15. \A j \in InVram(s) : s[j].offset + s[j].size <= place + r[i].size
  BY <1>8, <1>12, <1>13, <1>14
<1>16. ASSUME NEW j \in InVram(s), NEW k \in InVram(s), j # k PROVE Apart2(s, j, k)
  <2>1. CASE j \in InVram(r) /\ k \in InVram(r)
    BY <1>12, <1>13, <1>16, <2>1 DEF Apart2
  <2>2. CASE j = i /\ k \in InVram(r)
    BY <1>12, <1>13, <1>14, <2>2 DEF Apart2
  <2>3. CASE k = i /\ j \in InVram(r)
    BY <1>12, <1>13, <1>14, <2>3 DEF Apart2
  <2> QED BY <1>8, <1>16, <2>1, <2>2, <2>3
<1>17. place + r[i].size \in Nat
  BY <1>12
<1>18. ToSet(Touch(q, l)) \subseteq SwapLayersOf(s)
  BY <1>1, <1>7, <1>9
<1> QED BY <1>8, <1>9, <1>10, <1>11, <1>15, <1>16, <1>17, <1>18 DEF SwapOk

-----------------------------------------------------------------------------
(* The invariant.  The bytes in RAM are those of all the layers, or all    *)
(* the layers are in VRAM, until a layer is registered after               *)
(* FreeSystemCopies.                                                       *)
Kept(r, ram, new) == ram \subseteq DOMAIN r /\ (new \/ ram = DOMAIN r \/ InVram(r) = DOMAIN r)

SwapInv ==
  /\ SwapOk(residency, lru, swapUsed, ringTop)
  /\ newcomers \in BOOLEAN /\ Kept(residency, inRam, newcomers)

LEMMA AlignedUp == \A n \in Nat : Aligned(n) \in Nat /\ Aligned(n) >= n
<1> SUFFICES ASSUME NEW n \in Nat PROVE Aligned(n) \in Nat /\ Aligned(n) >= n
  OBVIOUS
<1> DEFINE m == n + Alignment - 1
<1>1. m \in Nat /\ Alignment \in Nat /\ Alignment > 0
  BY SwapAssumption
<1>2. m = (m \div Alignment) * Alignment + (m % Alignment) /\ m % Alignment \in 0 .. Alignment - 1
      /\ m \div Alignment \in Nat /\ (m \div Alignment) * Alignment \in Nat
  BY <1>1
<1> QED BY <1>1, <1>2 DEF Aligned

LEMMA FirstStays ==
  ASSUME NEW r \in Seq(Entries), NEW e, NEW s, s = Append(r, e), NEW l \in SwapLayersOf(r)
  PROVE  First(s, l) = First(r, l)
<1>1. DOMAIN r = 1 .. Len(r) /\ DOMAIN s = 1 .. Len(r) + 1 /\ Len(r) \in Nat
  OBVIOUS
<1>2. \A i \in DOMAIN r : s[i] = r[i]
  OBVIOUS
<1>3. Named(r, l) \subseteq Nat /\ Named(r, l) # {} /\ Named(s, l) \subseteq Nat
  BY <1>1 DEF Named, SwapLayersOf
<1>4. Named(r, l) \subseteq Named(s, l) /\ \A i \in Named(s, l) : i \in Named(r, l) \/ i = Len(r) + 1
  BY <1>1, <1>2 DEF Named
<1>5. First(r, l) \in Named(r, l) /\ \A i \in Named(r, l) : First(r, l) <= i
  BY <1>3, MinIsLeast DEF First
<1>6. First(s, l) \in Named(s, l) /\ \A i \in Named(s, l) : First(s, l) <= i
  BY <1>3, <1>4, MinIsLeast DEF First
<1>7. First(r, l) < Len(r) + 1 /\ First(r, l) \in Nat /\ First(s, l) \in Nat
  BY <1>1, <1>3, <1>5, <1>6 DEF Named
<1> QED BY <1>4, <1>5, <1>6, <1>7

LEMMA RegisterKeeps ==
  ASSUME SwapInv, NEW l \in SwapLayers, NEW size \in LayerSizes, RegisterLayer(l, size)
  PROVE  SwapInv'
<1> DEFINE r == residency
           e == [layer |-> l, inVRAM |-> FALSE, offset |-> 0, size |-> size]
           s == Append(r, e)
           N == Len(r) + 1
<1>1. /\ residency' = s /\ inRam' = inRam \cup {N} /\ UNCHANGED <<lru, swapUsed, ringTop>>
      /\ newcomers' = (newcomers \/ DOMAIN r \ inRam # {})
  BY DEF RegisterLayer, Known
<1>2. /\ r \in Seq(Entries) /\ ToSet(lru) \subseteq SwapLayersOf(r)
      /\ {First(r, m) : m \in ToSet(lru)} = InVram(r)
  BY DEF SwapInv, SwapOk
<1>3. e \in Entries /\ e.inVRAM = FALSE
  BY DEF Entries
<1> HIDE DEF e
<1>4. /\ s \in Seq(Entries) /\ DOMAIN r = 1 .. Len(r) /\ DOMAIN s = 1 .. N /\ Len(r) \in Nat
      /\ s[N] = e /\ \A i \in DOMAIN r : s[i] = r[i]
  BY <1>2, <1>3
<1>5. \A m \in SwapLayersOf(r) : First(s, m) = First(r, m)
  BY <1>2, FirstStays
<1> HIDE DEF s
<1>6. SwapLayersOf(r) \subseteq SwapLayersOf(s)
  BY <1>4 DEF SwapLayersOf
<1>7. InVram(s) = InVram(r) /\ InVram(r) \subseteq DOMAIN r /\ N \in DOMAIN s
  BY <1>3, <1>4 DEF InVram
<1>8. {First(s, m) : m \in ToSet(lru)} = InVram(s)
  <2>1. \A m \in ToSet(lru) : First(s, m) = First(r, m)
    BY <1>2, <1>5
  <2>2. {First(s, m) : m \in ToSet(lru)} = {First(r, m) : m \in ToSet(lru)}
    BY <2>1
  <2> QED BY <1>2, <1>7, <2>2
<1>9. SumFunctionOnSet(Lengths(s), InVram(s)) = SumFunctionOnSet(Lengths(r), InVram(r))
  <2>1. IsFiniteSet(InVram(r))
    BY <1>2, <1>7, LayersFinite
  <2>2. \A i \in InVram(r) : Lengths(s)[i] = Lengths(r)[i]
    BY <1>4, <1>7 DEF Lengths
  <2> QED BY <1>7, <2>1, <2>2, SumSame
<1>10. \A i \in InVram(r) : s[i] = r[i]
  BY <1>4, <1>7
<1>11. /\ \A i \in InVram(s) : s[i].offset + s[i].size <= ringTop
       /\ \A i, j \in InVram(s) : i # j => Apart2(s, i, j)
  <2>1. /\ \A i \in InVram(r) : r[i].offset + r[i].size <= ringTop
        /\ \A i, j \in InVram(r) : i # j => Apart2(r, i, j)
    BY DEF SwapInv, SwapOk
  <2> QED BY <1>7, <1>10, <2>1 DEF Apart2
<1>12. SwapOk(s, lru, swapUsed, ringTop)
  <2>1. /\ lru \in Seq(SwapLayers) /\ ringTop \in Nat /\ NoRepeats(lru)
        /\ swapUsed = SumFunctionOnSet(Lengths(r), InVram(r))
    BY DEF SwapInv, SwapOk
  <2> QED BY <1>2, <1>4, <1>6, <1>8, <1>9, <1>11, <2>1 DEF SwapOk
<1>13. newcomers' \in BOOLEAN /\ Kept(s, inRam', newcomers')
  <2>1. newcomers \in BOOLEAN /\ inRam \subseteq DOMAIN r
    BY DEF SwapInv, Kept
  <2>2. inRam' \subseteq DOMAIN s
    BY <1>1, <1>4, <1>7, <2>1
  <2>3. ~newcomers' => inRam' = DOMAIN s
    <3>1. DOMAIN s = DOMAIN r \cup {N}
      BY <1>4
    <3>2. ~newcomers' => inRam = DOMAIN r
      BY <1>1, <2>1
    <3> QED BY <1>1, <3>1, <3>2
  <2> QED BY <1>1, <2>1, <2>2, <2>3 DEF Kept
<1> QED BY <1>1, <1>12, <1>13 DEF SwapInv

LEMMA EnsureKeeps ==
  ASSUME SwapInv, NEW l \in SwapLayers, EnsureLayerInVRAM(l)
  PROVE  SwapInv'
<1> DEFINE r    == residency
           i    == Entry(l)
           size == r[i].size
           n    == Evictions(size)
           V    == {First(r, lru[k]) : k \in 1 .. n}
           s    == Evict(n).residency
           t    == Evict(n).lru
           u    == Evict(n).used
<1>1. /\ r \in Seq(Entries) /\ lru \in Seq(SwapLayers) /\ ringTop \in Nat /\ DOMAIN r = 1 .. Len(r)
      /\ Len(r) \in Nat
  BY DEF SwapInv, SwapOk
<1>2. i = First(r, l) /\ l \in SwapLayersOf(r)
  BY DEF EnsureLayerInVRAM, Registered, Known, SwapLayersOf, Entry, First, Named
<1>3. i \in DOMAIN r /\ r[i] \in Entries /\ r[i].layer = l
  BY <1>1, <1>2, FirstIs
<1>4. CASE r[i].inVRAM
  <2>1. lru' = Touch(lru, l) /\ UNCHANGED <<residency, swapUsed, ringTop, inRam, newcomers>>
    BY <1>4 DEF EnsureLayerInVRAM
  <2>2. SwapOk(r, Touch(lru, l), swapUsed, ringTop)
    BY <1>2, <1>4, TouchOk DEF SwapInv
  <2> QED BY <2>1, <2>2 DEF SwapInv
<1>5. CASE ~r[i].inVRAM
  <2>1. n \in 0 .. Len(lru)
    <3> DEFINE enough == {k \in 0 .. Len(lru) : swapUsed - FreedBy(k) + size <= MaxVram}
    <3>1. n = IF enough = {} THEN Len(lru) ELSE Min(enough)
      BY DEF Evictions
    <3>2. enough \subseteq 0 .. Len(lru) /\ enough \subseteq Nat /\ Len(lru) \in Nat
      BY <1>1
    <3> HIDE DEF enough, n
    <3>3. CASE enough = {}
      <4>1. n = Len(lru)
        BY <3>1, <3>3
      <4> QED BY <3>2, <4>1
    <3>4. CASE enough # {}
      <4>1. n \in enough
        BY <3>1, <3>2, <3>4, MinIsLeast
      <4> QED BY <3>2, <4>1
    <3> QED BY <3>3, <3>4
  <2>2. V = Victims(n)
    BY DEF Victims, Entry, First, Named, Known
  <2>3. /\ s = [k \in DOMAIN r |-> [r[k] EXCEPT !.inVRAM = @ /\ k \notin V]]
        /\ t = SubSeq(lru, n + 1, Len(lru)) /\ u = swapUsed - SumFunctionOnSet(Lengths(r), V)
    BY <2>2 DEF Evict, Known, FreedBy, Sizes, Lengths
  <2> HIDE DEF V, n
  <2>4. DOMAIN s = DOMAIN r /\ \A k \in DOMAIN r : s[k] = [r[k] EXCEPT !.inVRAM = r[k].inVRAM /\ k \notin V]
    BY <2>3
  <2>5. \A k \in DOMAIN r : /\ s[k] \in Entries /\ s[k].layer = r[k].layer /\ s[k].size = r[k].size
                            /\ s[k].offset = r[k].offset /\ (s[k].inVRAM <=> r[k].inVRAM /\ k \notin V)
    <3> SUFFICES ASSUME NEW k \in DOMAIN r
                 PROVE  /\ s[k] \in Entries /\ s[k].layer = r[k].layer /\ s[k].size = r[k].size
                        /\ s[k].offset = r[k].offset /\ (s[k].inVRAM <=> r[k].inVRAM /\ k \notin V)
      OBVIOUS
    <3>1. r[k] \in Entries
      BY <1>1
    <3>2. s[k] = [r[k] EXCEPT !.inVRAM = r[k].inVRAM /\ k \notin V]
      BY <2>4
    <3> HIDE DEF s, r
    <3> QED BY <3>1, <3>2 DEF Entries
  <2>6. s = [k \in 1 .. Len(r) |-> s[k]]
    BY <1>1, <2>3
  <2> HIDE DEF s, t, u
  <2>7. s \in Seq(Entries) /\ Alike(r, s)
    BY <1>1, <2>4, <2>5, <2>6 DEF Alike
  <2>8. V = Leaving(r, lru, n)
    BY DEF V, Leaving
  <2>9. SwapOk(s, t, u, ringTop) /\ V \subseteq InVram(r) /\ InVram(s) = InVram(r) \ V
    <3>1. SwapOk(r, lru, swapUsed, ringTop)
      BY DEF SwapInv
    <3>2. \A k \in DOMAIN r : s[k].offset = r[k].offset /\ (s[k].inVRAM <=> r[k].inVRAM /\ k \notin V)
      BY <2>5
    <3>3. t = SubSeq(lru, n + 1, Len(lru)) /\ u = swapUsed - SumFunctionOnSet(Lengths(r), V)
      BY <2>3
    <3>4. SwapOk(s, t, swapUsed - SumFunctionOnSet(Lengths(r), V), ringTop)
          /\ V \subseteq InVram(r) /\ InVram(s) = InVram(r) \ V
      <4>1. Evicts(r, lru, n, V, s, t)
        BY <2>1, <2>7, <2>8, <3>2, <3>3 DEF Evicts
      <4> QED BY <3>1, <4>1, EvictOk
    <3> QED BY <3>3, <3>4
  <2>10. SwapLayersOf(s) = SwapLayersOf(r) /\ \A m : First(r, m) = First(s, m)
    BY <2>7, AlikeSame
  <2>11. ~s[i].inVRAM /\ s[i].size = size /\ i = First(s, l) /\ l \in SwapLayersOf(s)
    BY <1>2, <1>3, <1>5, <2>5, <2>10
  <2>12. UNCHANGED <<inRam, newcomers>> /\ newcomers \in BOOLEAN /\ inRam \subseteq DOMAIN r
         /\ (newcomers \/ inRam = DOMAIN r)
    <3>1. InVram(r) # DOMAIN r
      BY <1>3, <1>5 DEF InVram
    <3> QED BY <3>1 DEF EnsureLayerInVRAM, SwapInv, Kept
  <2>13. CASE /\ residency' = [s EXCEPT ![i].inVRAM = TRUE, ![i].offset = Aligned(ringTop)]
              /\ lru' = Touch(t, l) /\ swapUsed' = u + size /\ ringTop' = Aligned(ringTop) + size
    <3>1. Aligned(ringTop) \in Nat /\ Aligned(ringTop) >= ringTop
      BY <1>1, AlignedUp
    <3>2. i \in DOMAIN s /\ s[i] \in Entries
      BY <1>3, <2>4, <2>5
    <3>3. /\ DOMAIN residency' = DOMAIN s /\ \A k \in DOMAIN s : k # i => residency'[k] = s[k]
          /\ residency'[i] = [[s[i] EXCEPT !.inVRAM = TRUE] EXCEPT !.offset = Aligned(ringTop)]
      BY <2>13, <3>2
    <3>4. /\ residency'[i] \in Entries /\ residency'[i].layer = s[i].layer
          /\ residency'[i].size = s[i].size /\ residency'[i].inVRAM
          /\ residency'[i].offset = Aligned(ringTop)
      BY <3>1, <3>2, <3>3 DEF Entries
    <3>5. residency' = [k \in 1 .. Len(r) |-> residency'[k]]
      BY <1>1, <2>4, <2>13
    <3>6. residency' \in Seq(Entries)
      BY <1>1, <2>4, <2>5, <3>3, <3>4, <3>5
    <3>7. Alike(s, residency')
      BY <3>3, <3>4 DEF Alike
    <3>8. \A k \in DOMAIN s : k # i => residency'[k].offset = s[k].offset /\ (residency'[k].inVRAM <=> s[k].inVRAM)
      BY <3>3
    <3>9. SwapOk(residency', Touch(t, l), u + s[i].size, Aligned(ringTop) + s[i].size)
      BY <2>9, <2>11, <3>1, <3>4, <3>6, <3>7, <3>8, PlaceOk
    <3>10. DOMAIN residency' = DOMAIN r
      BY <2>4, <3>3
    <3> QED BY <2>11, <2>12, <2>13, <3>9, <3>10 DEF SwapInv, Kept
  <2>14. CASE residency' = s /\ lru' = t /\ swapUsed' = u /\ UNCHANGED ringTop
    BY <2>4, <2>9, <2>12, <2>14 DEF SwapInv, Kept
  <2>15. \/ /\ residency' = [s EXCEPT ![i].inVRAM = TRUE, ![i].offset = Aligned(ringTop)]
            /\ lru' = Touch(t, l) /\ swapUsed' = u + size /\ ringTop' = Aligned(ringTop) + size
         \/ residency' = s /\ lru' = t /\ swapUsed' = u /\ UNCHANGED ringTop
    BY <1>5 DEF EnsureLayerInVRAM, Place, s, t, u, n
  <2> QED BY <2>13, <2>14, <2>15
<1> QED BY <1>4, <1>5

LEMMA FreeCopiesKeeps ==
  ASSUME SwapInv, FreeSystemCopies
  PROVE  SwapInv'
<1>1. InVram(residency) = DOMAIN residency
  BY DEF FreeSystemCopies, InVram, Known
<1>2. /\ UNCHANGED <<residency, lru, swapUsed, ringTop>>
      /\ inRam' = {} /\ newcomers' = FALSE
  BY DEF FreeSystemCopies
<1>3. Kept(residency, inRam', newcomers')
  BY <1>1, <1>2 DEF Kept
<1> QED BY <1>2, <1>3 DEF SwapInv

LEMMA SwapInitially == SwapInit => SwapInv
<1> SUFFICES ASSUME SwapInit PROVE SwapInv
  OBVIOUS
<1>1. /\ residency = << >> /\ lru = << >> /\ swapUsed = 0 /\ ringTop = 0 /\ inRam = {} /\ newcomers = FALSE
  BY DEF SwapInit
<1>2. DOMAIN residency = {} /\ DOMAIN lru = {}
  BY <1>1
<1>3. ToSet(lru) = {} /\ InVram(residency) = {} /\ NoRepeats(lru)
  BY <1>2 DEF ToSet, InVram, NoRepeats
<1>4. {First(residency, l) : l \in ToSet(lru)} = InVram(residency)
  BY <1>3
<1>5. swapUsed = SumFunctionOnSet(Lengths(residency), InVram(residency))
  BY <1>1, <1>3, SumEmpty
<1>6. residency \in Seq(Entries) /\ lru \in Seq(SwapLayers)
  BY <1>1
<1>7. SwapOk(residency, lru, swapUsed, ringTop)
  BY <1>1, <1>3, <1>4, <1>5, <1>6 DEF SwapOk
<1> QED BY <1>1, <1>2, <1>7 DEF SwapInv, Kept

(* The swap manager, for any layers, sizes, budget and ring: its queue     *)
(* names the layers in VRAM, the bytes counted are theirs, their addresses *)
(* do not overlap, and no layer is without its bytes.                      *)
THEOREM SwapKeepsConsistent == SwapSpec => []SwapConsistent
<1>1. SwapInv /\ [SwapNext]_swapVars => SwapInv'
  <2> SUFFICES ASSUME SwapInv, [SwapNext]_swapVars PROVE SwapInv'
    OBVIOUS
  <2>1. CASE UNCHANGED swapVars
    BY <2>1 DEF swapVars, SwapInv
  <2> QED BY <2>1, RegisterKeeps, EnsureKeeps, FreeCopiesKeeps DEF SwapNext
<1>2. SwapInv => SwapConsistent
  <2> SUFFICES ASSUME SwapInv PROVE SwapConsistent
    OBVIOUS
  <2>1. /\ {First(residency, l) : l \in ToSet(lru)} = InVram(residency) /\ NoRepeats(lru)
        /\ swapUsed = SumFunctionOnSet(Lengths(residency), InVram(residency))
        /\ \A i, j \in InVram(residency) : i # j => Apart2(residency, i, j)
        /\ residency \in Seq(Entries)
    BY DEF SwapInv, SwapOk
  <2>2. Resident = InVram(residency) /\ Lengths(residency) = Sizes
    BY DEF Resident, InVram, Known, Lengths, Sizes
  <2>3. {Entry(lru[k]) : k \in DOMAIN lru} = Resident
    <3>1. \A l : Entry(l) = First(residency, l)
      BY DEF Entry, First, Named, Known
    <3>2. {First(residency, lru[k]) : k \in DOMAIN lru} = {First(residency, l) : l \in ToSet(lru)}
      BY DEF ToSet
    <3>3. {Entry(lru[k]) : k \in DOMAIN lru} = {First(residency, lru[k]) : k \in DOMAIN lru}
      BY <3>1
    <3> QED BY <2>1, <2>2, <3>2, <3>3
  <2>4. \A i, j \in Resident :
       i < j => \/ residency[i].offset + residency[i].size <= residency[j].offset
                \/ residency[j].offset + residency[j].size <= residency[i].offset
    <3>1. Resident \subseteq Nat
      BY <2>1 DEF Resident, Known
    <3> QED BY <2>1, <2>2, <3>1 DEF Apart2
  <2>5. newcomers \/ Known = inRam \cup Resident
    BY <2>2 DEF SwapInv, Kept, Known, Resident
  <2> QED BY <2>1, <2>2, <2>3, <2>4, <2>5 DEF SwapConsistent, NoRepeats
<1> QED BY SwapInitially, <1>1, <1>2, PTL DEF SwapSpec

-----------------------------------------------------------------------------
(* ModelRouter: what is known of an id that was never given to another     *)
(* model is true of the model that has it now.                             *)
RouterInv ==
  /\ IsFiniteSet(DOMAIN table)
  /\ routing # NoRoute => IsFiniteSet(routing.listed)
  /\ \A m \in DOMAIN table \cap DOMAIN capabilities : m \notin reused => capabilities[m] = table[m]

LEMMA NotNoRoute ==
  ASSUME NEW c, NEW e, NEW a, NEW b
  PROVE  [content |-> c, ensemble |-> e, listed |-> a, todo |-> b] # NoRoute
<1> SUFFICES ASSUME [content |-> c, ensemble |-> e, listed |-> a, todo |-> b] = NoRoute PROVE FALSE
  OBVIOUS
<1>1. "todo" \in DOMAIN NoRoute
  OBVIOUS
<1> QED BY <1>1 DEF NoRoute

LEMMA RouterStep == RouterInv /\ [RouterNext]_routerVars => RouterInv'
<1> SUFFICES ASSUME RouterInv, [RouterNext]_routerVars PROVE RouterInv'
  OBVIOUS
<1>1. ASSUME NEW content \in Prompts, NEW ensemble \in BOOLEAN, Route(content, ensemble)
      PROVE  RouterInv'
  <2>1. CASE UNCHANGED routing
    BY <1>1, <2>1 DEF Route, RouterInv
  <2>2. CASE routing' = [content |-> content, ensemble |-> ensemble,
                         listed |-> DOMAIN table, todo |-> DOMAIN table]
    <3>1. routing'.listed = DOMAIN table
      BY <2>2
    <3> QED BY <1>1, <3>1 DEF Route, RouterInv
  <2> QED BY <1>1, <2>1, <2>2 DEF Route
<1>2. ASSUME NEW m, AutoDetectCapabilities(m) PROVE RouterInv'
  <2>1. routing' = [routing EXCEPT !.todo = @ \ {m}] /\ UNCHANGED <<table, reused>> /\ routing # NoRoute
    BY <1>2 DEF AutoDetectCapabilities
  <2>2. routing'.listed = routing.listed
    BY <2>1
  <2>3. \A k \in DOMAIN capabilities' :
           \/ k \in DOMAIN capabilities /\ capabilities'[k] = capabilities[k]
           \/ k = m /\ capabilities'[k] = table[k]
    BY <1>2 DEF AutoDetectCapabilities, Plus
  <2> QED BY <2>1, <2>2, <2>3 DEF RouterInv
<1>3. ASSUME NEW m, NEW kind, ManagerLoads(m, kind) PROVE RouterInv'
  <2>1. /\ DOMAIN table' = DOMAIN table \cup {m} /\ table'[m] = kind
        /\ \A k \in DOMAIN table : k # m => table'[k] = table[k]
        /\ UNCHANGED <<capabilities, routing>> /\ reused \subseteq reused'
        /\ m \in DOMAIN capabilities => m \in reused'
    BY <1>3 DEF ManagerLoads, Plus
  <2>2. IsFiniteSet(DOMAIN table')
    BY <2>1, FS_AddElement DEF RouterInv
  <2> QED BY <2>1, <2>2 DEF RouterInv
<1>4. ASSUME NEW m, ManagerUnloads(m) PROVE RouterInv'
  <2>1. /\ DOMAIN table' = DOMAIN table \ {m} /\ \A k \in DOMAIN table' : table'[k] = table[k]
        /\ UNCHANGED <<capabilities, routing, reused>>
    BY <1>4 DEF ManagerUnloads
  <2>2. IsFiniteSet(DOMAIN table')
    BY <2>1, FS_Subset DEF RouterInv
  <2> QED BY <2>1, <2>2 DEF RouterInv
<1>5. CASE Decide
  BY <1>5 DEF Decide, RouterInv
<1>6. CASE UNCHANGED routerVars
  BY <1>6 DEF routerVars, RouterInv
<1> QED BY <1>1, <1>2, <1>3, <1>4, <1>5, <1>6 DEF RouterNext

(* The best model comes first, and of an ensemble all are ordered.         *)
Best(d) ==
  LET order == <<d.primary>> \o d.fallbacks
      sure  == (DOMAIN table \cap DOMAIN capabilities) \ reused
  IN \A i \in DOMAIN order :
       order[i] \in sure =>
         \A m \in (sure \cap routing.listed) \ {order[j] : j \in 1 .. i} :
           Suits(m, routing.content) <= Suits(order[i], routing.content)

LEMMA SureScores ==
  ASSUME RouterInv, NEW m \in (DOMAIN table \cap DOMAIN capabilities) \ reused
  PROVE  Suits(m, routing.content) = Scored(m)
  BY DEF RouterInv, Suits, Scored

LEMMA OneIsBest ==
  ASSUME RouterInv, PickBestModel
  PROVE  Best(decision')
<1> DEFINE known == routing.listed \cap DOMAIN capabilities
           sure  == (DOMAIN table \cap DOMAIN capabilities) \ reused
<1>1. PICK b \in (IF known = {} THEN routing.listed ELSE BestOf(known)) :
        decision' = [primary |-> b, fallbacks |-> << >>]
  BY DEF PickBestModel
<1>2. decision'.primary = b /\ decision'.fallbacks = << >>
  BY <1>1
<1>3. <<b>> \o << >> = <<b>> /\ DOMAIN <<b>> = {1} /\ <<b>>[1] = b
  OBVIOUS
<1>4. ASSUME b \in sure, NEW m \in sure \cap routing.listed
      PROVE  Suits(m, routing.content) <= Suits(b, routing.content)
  <2>1. m \in known
    BY <1>4
  <2>2. b \in BestOf(known)
    BY <1>1, <2>1
  <2>3. Scored(m) <= Scored(b)
    BY <2>1, <2>2 DEF BestOf
  <2> QED BY <1>4, <2>3, SureScores
<1> QED BY <1>2, <1>3, <1>4 DEF Best

LEMMA AllButFirst ==
  ASSUME NEW S, NEW q \in Seq(S), NEW n \in 1 .. Len(q)
  PROVE  /\ SubSeq(q, 2, n) \in Seq(S) /\ Len(SubSeq(q, 2, n)) = n - 1
         /\ \A k \in 1 .. n - 1 : SubSeq(q, 2, n)[k] = q[k + 1]
<1>1. SubSeq(q, 2, n) \in Seq(S) /\ Len(SubSeq(q, 2, n)) = n - 1
  BY SubSeqProperties
<1>2. \A k \in 1 .. n - 2 + 1 : SubSeq(q, 2, n)[k] = q[2 + k - 1]
  BY SubSeqProperties
<1>3. ASSUME NEW k \in 1 .. n - 1 PROVE SubSeq(q, 2, n)[k] = q[k + 1]
  <2>1. k \in 1 .. n - 2 + 1 /\ 2 + k - 1 = k + 1
    OBVIOUS
  <2> QED BY <1>2, <2>1
<1> QED BY <1>1, <1>3

LEMMA EnsembleIsBest ==
  ASSUME RouterInv, routing # NoRoute, PickEnsemble
  PROVE  Best(decision')
<1> DEFINE S    == routing.listed
           N    == Cardinality(S)
           sure == (DOMAIN table \cap DOMAIN capabilities) \ reused
<1>1. PICK order \in [1 .. N -> S] :
        /\ \A i, j \in DOMAIN order : i < j => /\ order[i] # order[j]
                                              /\ EnsembleScore(order[i]) >= EnsembleScore(order[j])
        /\ decision' = [primary |-> order[1], fallbacks |-> SubSeq(order, 2, Min({3, Len(order)}))]
  BY DEF PickEnsemble
<1>2. IsFiniteSet(S) /\ N \in Nat
  BY FS_CardinalityType DEF RouterInv
<1>3. DOMAIN order = 1 .. N /\ order \in Seq(S) /\ Len(order) = N
  BY <1>1, <1>2
<1>4. \A m \in S : \E k \in 1 .. N : order[k] = m
  <2>1. \A i, j \in 1 .. N : order[i] = order[j] => i = j
    BY <1>1, <1>2, <1>3
  <2>2. order \in Injection(1 .. N, S)
    BY <1>1, <2>1 DEF Injection, IsInjective
  <2>3. Cardinality(1 .. N) = N
    BY <1>2, FS_Interval
  <2>4. order \in Surjection(1 .. N, S)
    BY <1>2, <2>2, <2>3, FS_Injection
  <2> QED BY <2>4 DEF Surjection
<1> DEFINE d    == decision'
           full == <<d.primary>> \o d.fallbacks
<1>5. d.primary = order[1] /\ d.fallbacks = SubSeq(order, 2, Min({3, Len(order)}))
  BY <1>1
<1>6. CASE S = {}
  BY <1>6 DEF Best
<1>7. CASE S # {}
  <2>1. N > 0
    BY <1>2, <1>7, FS_EmptySet
  <2> DEFINE L == Min({3, N})
  <2>2. L \in {3, N} /\ L <= 3 /\ L <= N
    BY <1>2, MinIsLeast
  <2> DEFINE tail == d.fallbacks
  <2>t. tail = SubSeq(order, 2, L)
    BY <1>3, <1>5
  <2> HIDE DEF tail, L
  <2>3. /\ tail \in Seq(S) /\ Len(tail) = L - 1
        /\ \A k \in 1 .. L - 1 : tail[k] = order[k + 1]
    <3>2. order \in Seq(S)
      BY <1>3
    <3>3. L \in 1 .. Len(order)
      BY <1>2, <1>3, <2>1, <2>2
    <3>4. /\ SubSeq(order, 2, L) \in Seq(S) /\ Len(SubSeq(order, 2, L)) = L - 1
          /\ \A k \in 1 .. L - 1 : SubSeq(order, 2, L)[k] = order[k + 1]
      BY <3>2, <3>3, AllButFirst
    <3> QED BY <2>t, <3>4
  <2>4. order[1] \in S
    BY <1>1, <1>2, <2>1
  <2> HIDE DEF L, tail, d, N, S
  <2>5. DOMAIN full = 1 .. L /\ \A i \in 1 .. L : full[i] = order[i]
    <3>1. full = <<order[1]>> \o tail
      BY <1>5 DEF tail, d
    <3> HIDE DEF full
    <3>2. full \in Seq(S) /\ Len(full) = L
      BY <1>2, <2>1, <2>2, <2>3, <2>4, <3>1
    <3>3. full[1] = order[1]
      BY <2>3, <2>4, <3>1
    <3>4. ASSUME NEW i \in 2 .. L PROVE full[i] = order[i]
      <4>1. full[i] = tail[i - 1]
        BY <1>2, <2>2, <2>3, <2>4, <3>1, <3>4
      <4>2. i - 1 \in 1 .. L - 1 /\ (i - 1) + 1 = i
        BY <1>2, <2>2, <3>4
      <4> QED BY <2>3, <4>1, <4>2
    <3> QED BY <1>2, <2>2, <3>2, <3>3, <3>4
  <2> HIDE DEF full
  <2>6. ASSUME NEW i \in DOMAIN full, full[i] \in sure,
               NEW m \in (sure \cap S) \ {full[j] : j \in 1 .. i}
        PROVE  Suits(m, routing.content) <= Suits(full[i], routing.content)
    <3>1. PICK k \in 1 .. N : order[k] = m
      BY <1>4, <2>6
    <3>2. i \in 1 .. L /\ full[i] = order[i] /\ \A j \in 1 .. i : full[j] = order[j]
      BY <1>2, <2>2, <2>5, <2>6
    <3>3. k > i /\ i \in DOMAIN order /\ k \in DOMAIN order
      BY <1>2, <1>3, <2>2, <2>6, <3>1, <3>2
    <3>4. EnsembleScore(order[i]) >= EnsembleScore(order[k])
      BY <1>1, <1>3, <3>3
    <3>5. EnsembleScore(order[i]) = Scored(order[i]) /\ EnsembleScore(order[k]) = Scored(order[k])
      BY <2>6, <3>1, <3>2 DEF EnsembleScore
    <3>6. Suits(m, routing.content) = Scored(m) /\ Suits(full[i], routing.content) = Scored(full[i])
      BY <2>6, SureScores
    <3> HIDE DEF sure
    <3> QED BY <3>1, <3>2, <3>4, <3>5, <3>6
  <2> QED BY <2>6 DEF Best, full, d, S
<1> QED BY <1>6, <1>7

(* The router, for any models, prompts and scores: a request goes to the   *)
(* best of the models that were found out about, and its fallbacks follow  *)
(* in order, whatever was loaded or unloaded while it was routed.          *)
THEOREM RouterTakesBest == RouterSpec => RouteIsBest
<1> DEFINE Step == decision' # decision /\ decision'.primary # "none" => Best(decision')
<1>1. RouterInit => RouterInv
  <2> SUFFICES ASSUME RouterInit PROVE RouterInv
    OBVIOUS
  <2>1. DOMAIN table = {} /\ DOMAIN capabilities = {} /\ routing = NoRoute
    BY DEF RouterInit
  <2> QED BY <2>1, FS_EmptySet DEF RouterInv
<1>2. RouterInv /\ [RouterNext]_routerVars => Step
  <2> SUFFICES ASSUME RouterInv, RouterNext, decision' # decision, decision'.primary # "none"
               PROVE  Best(decision')
    BY DEF routerVars
  <2>1. CASE Decide
    BY <2>1, OneIsBest, EnsembleIsBest DEF Decide
  <2>2. ASSUME NEW content \in Prompts, NEW ensemble \in BOOLEAN, Route(content, ensemble)
        PROVE  FALSE
    BY <2>2 DEF Route, NoDecision
  <2>3. ASSUME NEW m \in ModelIds, AutoDetectCapabilities(m) \/ ManagerUnloads(m) PROVE FALSE
    BY <2>3 DEF AutoDetectCapabilities, ManagerUnloads
  <2>4. ASSUME NEW m \in ModelIds, NEW kind \in Kinds, ManagerLoads(m, kind) PROVE FALSE
    BY <2>4 DEF ManagerLoads
  <2> QED BY <2>1, <2>2, <2>3, <2>4 DEF RouterNext
<1>3. RouterSpec => []RouterInv
  BY <1>1, RouterStep, PTL DEF RouterSpec
<1>4. RouterSpec => [][Step]_routerVars
  BY <1>2, <1>3, PTL DEF RouterSpec
<1>5. Step => (decision' # decision /\ decision'.primary # "none" =>
       LET order == <<decision'.primary>> \o decision'.fallbacks
           sure  == (DOMAIN table \cap DOMAIN capabilities) \ reused
       IN \A i \in DOMAIN order :
            order[i] \in sure =>
              \A m \in (sure \cap routing.listed) \ {order[j] : j \in 1 .. i} :
                Suits(m, routing.content) <= Suits(order[i], routing.content))
  BY DEF Best
<1> QED BY <1>4, <1>5, PTL DEF RouteIsBest
=============================================================================
