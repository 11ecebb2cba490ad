----------------------------- MODULE MemoryTiers -----------------------------
(***************************************************************************)
(* MemoryTierManager: buffers that live in VRAM, in system RAM or in a     *)
(* spill file.  Every buffer has one unit of size.  A call that takes      *)
(* mutex_ does its work in one step; mutex_ is not recursive, so a call    *)
(* that makes another one from inside keeps the mutex and waits for it.    *)
(* A content is a number: 0 what fresh memory holds, n the n-th write.     *)
(***************************************************************************)
EXTENDS Integers, FiniteSets

CONSTANTS Names,        \* names of buffers
          LayerOf,      \* layer_index of a buffer
          SpillPath,    \* GetSpillPath: the file of a name
          TierThreads,  \* callers
          VramBudget,   \* vram_budget_bytes
          Word,         \* size_t is counted modulo Word
          MaxTierWrites \* bound on the calls of WriteCPUData

ASSUME TierAssumption ==
  /\ VramBudget \in Nat /\ MaxTierWrites \in Nat
  /\ IsFiniteSet(Names)
  /\ Word \in Nat /\ Word > Cardinality(Names) /\ Word > VramBudget

VARIABLES
  buffer,    \* name_map_: a record for every name ever allocated
  file,      \* the content of the spill files that exist
  vramUsed, ramUsed, diskUsed,
  holder,    \* the thread that waits for the mutex it holds, or NoThread
  writes,    \* number of the last write
  spoiled,   \* history: buffers whose newest content is not where they are
  recount    \* history: DemoteToRAM gave back VRAM that FreeBuffer had

tierVars == <<buffer, file, vramUsed, ramUsed, diskUsed, holder,
              writes, spoiled, recount>>

None     == -1          \* no memory, no file
NoThread == "no thread"
Tiers    == {"VRAM", "RAM", "DISK"}
Paths    == {SpillPath[n] : n \in Names}
OnLayer(l) == {n \in DOMAIN buffer : LayerOf[n] = l}

BufferCalls == {"Promote", "Demote", "Spill", "Restore", "GetLayerBuffer", "Free"}
LayerCalls  == {"LoadLayer", "OffloadLayer"}

TierInit ==
  /\ buffer = [n \in {} |-> None] /\ file = [p \in Paths |-> None]
  /\ vramUsed = 0 /\ ramUsed = 0 /\ diskUsed = 0
  /\ holder = NoThread
  /\ writes = 0 /\ spoiled = {} /\ recount = FALSE

GetVRAMAvailable == IF vramUsed >= VramBudget THEN 0 ELSE VramBudget - vramUsed

-----------------------------------------------------------------------------
(* The calls, made with the mutex held.  A call that fails changes         *)
(* nothing, except for a spill that fails after it opened its file.        *)
NoChange == UNCHANGED <<buffer, file, vramUsed, ramUsed, diskUsed, writes,
                        spoiled, recount>>

(* An allocated name is found again, even when its buffer was freed.       *)
AllocateBuffer(n) ==
  /\ n \notin DOMAIN buffer
  /\ buffer' = [m \in DOMAIN buffer \cup {n} |->
                  IF m = n THEN [tier |-> "RAM", cpu |-> 0, gpu |-> None, freed |-> FALSE, last |-> 0]
                  ELSE buffer[m]]
  /\ ramUsed' = (ramUsed + 1) % Word
  /\ UNCHANGED <<file, vramUsed, diskUsed, writes, spoiled, recount>>

(* The addresses are in use: nothing to do.                                *)
InVRAM(n) == buffer[n].tier = "VRAM" /\ buffer[n].gpu # None

(* The upload through a staging buffer may silently not take place.        *)
PromoteToVRAM(n) ==
  \/ NoChange                        \* in VRAM, over budget, Vulkan failure
  \/ /\ ~InVRAM(n) /\ GetVRAMAvailable >= 1
     /\ \E staged \in BOOLEAN :
          LET copied == staged /\ buffer[n].cpu # None
          IN  /\ buffer' = [buffer EXCEPT ![n].tier = "VRAM",
                                          ![n].gpu = IF copied THEN buffer[n].cpu ELSE 0]
              /\ spoiled' = IF copied THEN spoiled ELSE spoiled \cup {n}
     /\ vramUsed' = (vramUsed + 1) % Word
     /\ UNCHANGED <<file, ramUsed, diskUsed, writes, recount>>

(* Mutant: the GPU buffer is destroyed, its address kept.                  *)
DemoteToRAMKeepsBuffer(n) ==
  IF buffer[n].tier # "VRAM" THEN NoChange
  ELSE /\ buffer' = [buffer EXCEPT ![n].tier = "RAM"]
       /\ vramUsed' = (vramUsed - 1) % Word
       /\ UNCHANGED <<file, ramUsed, diskUsed, writes, spoiled, recount>>

(* What DemoteToRAM leaves in RAM: the content of the GPU buffer; what was *)
(* there, when no staging memory can be found or mapped; or what the       *)
(* staging memory happens to hold, because neither its allocation nor the  *)
(* submission of the copy is checked, and the GPU buffer was made without  *)
(* TRANSFER_SRC.                                                           *)
ReadBack(b) == IF b.gpu # None /\ b.cpu # None THEN {b.gpu, b.cpu, 0} ELSE {b.cpu}

DemoteToRAM(n) ==
  IF buffer[n].tier # "VRAM" THEN NoChange
  ELSE /\ \E read \in ReadBack(buffer[n]) :
            /\ buffer' = [buffer EXCEPT ![n].tier = "RAM", ![n].gpu = None, ![n].cpu = read]
            /\ spoiled' = IF read \in {buffer[n].gpu, buffer[n].cpu}
                          THEN spoiled ELSE spoiled \cup {n}
       /\ vramUsed' = (vramUsed - 1) % Word
       /\ recount' = (recount \/ buffer[n].gpu = None)
       /\ UNCHANGED <<file, ramUsed, diskUsed, writes>>

(* The file is emptied when it is opened, whether the write succeeds.  A   *)
(* write that good() calls a success may still be lost when the stream is  *)
(* flushed at its end; by then the copy in RAM is gone.                    *)
SpillToDisk(n) ==
  \/ NoChange                                 \* nothing in RAM, or no file
  \/ /\ buffer[n].cpu # None
     /\ file' = [file EXCEPT ![SpillPath[n]] = 0]
     /\ UNCHANGED <<buffer, vramUsed, ramUsed, diskUsed, writes, spoiled, recount>>
  \/ /\ buffer[n].cpu # None
     /\ \E stored \in {buffer[n].cpu, 0} :
          /\ file' = [file EXCEPT ![SpillPath[n]] = stored]
          /\ spoiled' = IF stored = buffer[n].cpu THEN spoiled ELSE spoiled \cup {n}
     /\ buffer' = [buffer EXCEPT ![n].tier = "DISK", ![n].cpu = None]
     /\ ramUsed' = (ramUsed - 1) % Word
     /\ diskUsed' = (diskUsed + 1) % Word
     /\ UNCHANGED <<vramUsed, writes, recount>>

(* Mutant: the file is opened and not read.                                *)
RestoreFromDiskUnread(n) ==
  /\ buffer[n].tier = "DISK" /\ file[SpillPath[n]] # None
  /\ buffer' = [buffer EXCEPT ![n].tier = "RAM", ![n].cpu = 0]
  /\ file' = [file EXCEPT ![SpillPath[n]] = None]
  /\ diskUsed' = (diskUsed - 1) % Word
  /\ ramUsed' = (ramUsed + 1) % Word
  /\ UNCHANGED <<vramUsed, writes, spoiled, recount>>

RestoreFromDisk(n) ==
  \/ NoChange                       \* not on disk, no file, no memory
  \/ /\ buffer[n].tier = "DISK" /\ file[SpillPath[n]] # None
     /\ buffer' = [buffer EXCEPT ![n].tier = "RAM", ![n].cpu = file[SpillPath[n]]]
     /\ file' = [file EXCEPT ![SpillPath[n]] = None]
     /\ diskUsed' = (diskUsed - 1) % Word
     /\ ramUsed' = (ramUsed + 1) % Word
     /\ UNCHANGED <<vramUsed, writes, spoiled, recount>>

(* The tier is not changed, and the buffer stays in the maps.              *)
FreeBuffer(n) ==
  /\ buffer' = [buffer EXCEPT ![n].gpu = None, ![n].cpu = None, ![n].freed = TRUE]
  /\ vramUsed' = IF buffer[n].gpu # None THEN (vramUsed - 1) % Word ELSE vramUsed
  /\ ramUsed' = IF buffer[n].cpu # None THEN (ramUsed - 1) % Word ELSE ramUsed
  /\ UNCHANGED <<file, diskUsed, writes, spoiled, recount>>

-----------------------------------------------------------------------------
(* The calls that a call makes while it holds the mutex; the first one is  *)
(* never answered.                                                         *)
Nested(c) ==
  CASE c.op = "Promote" /\ buffer[c.arg].tier = "DISK" -> {[op |-> "Restore", arg |-> c.arg]}
    [] c.op = "Spill" /\ buffer[c.arg].tier = "VRAM" -> {[op |-> "Demote", arg |-> c.arg]}
    [] c.op = "GetLayerBuffer" /\ buffer[c.arg].tier = "DISK" -> {[op |-> "Restore", arg |-> c.arg]}
    [] c.op = "GetLayerBuffer" /\ buffer[c.arg].tier = "RAM" /\ GetVRAMAvailable >= 1
         -> {[op |-> "Promote", arg |-> c.arg]}
    [] c.op = "LoadLayer"
         -> {[op |-> "Promote", arg |-> n] : n \in {m \in OnLayer(c.arg) : buffer[m].tier # "VRAM"}}
    [] c.op = "OffloadLayer"
         -> {[op |-> "Demote", arg |-> n] : n \in {m \in OnLayer(c.arg) : buffer[m].tier = "VRAM"}}
    [] OTHER -> {}

Body(c) ==
  CASE c.op = "Allocate" -> AllocateBuffer(c.arg) \/ NoChange
    [] c.op = "Promote"  -> PromoteToVRAM(c.arg)
    [] c.op = "Demote"   -> DemoteToRAM(c.arg)
    [] c.op = "Spill"    -> SpillToDisk(c.arg)
    [] c.op = "Restore"  -> RestoreFromDisk(c.arg)
    [] c.op = "Free"     -> FreeBuffer(c.arg)
    [] OTHER             -> NoChange

(* The thread gets the mutex, does everything and gives it back.           *)
Serve(c) == holder = NoThread /\ Nested(c) = {} /\ Body(c) /\ UNCHANGED holder

(* The thread gets the mutex and then asks for it a second time: from now  *)
(* on it waits for itself, and whoever else makes a call waits for it.     *)
Relock(t, c) == holder = NoThread /\ Nested(c) # {} /\ holder' = t /\ NoChange

(* WriteCPUData takes no mutex, so it works whatever the others wait for.  *)
WriteCPUData(n) ==
  /\ n \in DOMAIN buffer /\ buffer[n].cpu # None /\ writes < MaxTierWrites
  /\ writes' = writes + 1
  /\ buffer' = [buffer EXCEPT ![n].cpu = writes + 1, ![n].last = writes + 1]
  /\ spoiled' = IF buffer[n].tier = "RAM" THEN spoiled \ {n} ELSE spoiled \cup {n}
  /\ UNCHANGED <<file, vramUsed, ramUsed, diskUsed, holder, recount>>

Calls ==
  [op : {"Allocate"}, arg : Names] \cup [op : BufferCalls, arg : DOMAIN buffer]
    \cup [op : LayerCalls, arg : {LayerOf[n] : n \in DOMAIN buffer}]

TierNext ==
  \/ \E c \in Calls : Serve(c) \/ \E t \in TierThreads : Relock(t, c)
  \/ \E n \in Names : WriteCPUData(n)

TierSpec == TierInit /\ [][TierNext]_tierVars

-----------------------------------------------------------------------------
OwningVram == {n \in DOMAIN buffer : buffer[n].gpu # None}
OwningRam  == {n \in DOMAIN buffer : buffer[n].cpu # None}
OnDisk     == {n \in DOMAIN buffer : buffer[n].tier = "DISK"}

(* The counters against the memory really owned, through every order of    *)
(* promotions, demotions, spills, failures and frees.  VRAM is counted     *)
(* wrong, and may exceed its budget, only once DemoteToRAM has been given  *)
(* a buffer that FreeBuffer left in the VRAM tier.                         *)
TiersAccounted ==
  /\ ramUsed = Cardinality(OwningRam)
  /\ diskUsed = Cardinality(OnDisk)
  /\ ~recount => vramUsed = Cardinality(OwningVram) /\ vramUsed <= VramBudget

(* The tier of a buffer is where its newest content is, over every order   *)
(* of calls and every failure the calls notice.  It is lost only when the  *)
(* buffer was freed, when two names share a spill file, when WriteCPUData  *)
(* wrote to a buffer in VRAM (PromoteToVRAM calls that up to date,         *)
(* DemoteToRAM overwrites it), or in one of the three failures the calls   *)
(* do not notice: an upload that did not take place, a read back from VRAM *)
(* that did not, and a spill that fails after good().                      *)
NewestKept ==
  \A n \in DOMAIN buffer :
    \/ buffer[n].freed \/ n \in spoiled
    \/ \E m \in Names \ {n} : SpillPath[m] = SpillPath[n]
    \/ buffer[n].last = CASE buffer[n].tier = "VRAM" -> buffer[n].gpu
                          [] buffer[n].tier = "RAM"  -> buffer[n].cpu
                          [] buffer[n].tier = "DISK" -> file[SpillPath[n]]
=============================================================================
