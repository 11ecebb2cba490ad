------------------------------ MODULE LayerSwap ------------------------------
(***************************************************************************)
(* LayerSwapManager keeps the layers used last in VRAM.  The addresses     *)
(* come from the WEIGHT ring of RingAllocatorAdapter: a bump allocator     *)
(* that rounds up to an alignment and takes nothing back.                  *)
(***************************************************************************)
EXTENDS Integers, FiniteSets, Sequences, FiniteSetsExt, SequencesExt

CONSTANTS SwapLayers,   \* layer indices
          LayerSizes,   \* sizes a layer can have
          MaxVram,      \* max_vram_
          RingCapacity, \* capacity of the WEIGHT ring
          Alignment,    \* alignment EnsureLayerInVRAM asks for
          MaxRegistered \* bound on the calls of RegisterLayer

ASSUME SwapAssumption ==
  /\ LayerSizes \subseteq Nat \ {0} /\ MaxVram \in Nat
  /\ RingCapacity \in Nat /\ Alignment \in Nat \ {0} /\ MaxRegistered \in Nat

VARIABLES
  residency, \* layers_, in the order of registration
  lru,       \* lru_queue_: layer indices, the one used last at the end
  swapUsed,  \* vram_used_
  ringTop,   \* offset of the WEIGHT ring
  inRam,     \* positions of residency whose bytes are in staging_buffer_
  newcomers  \* history: a layer was registered after FreeSystemCopies

swapVars == <<residency, lru, swapUsed, ringTop, inRam, newcomers>>

Known == DOMAIN residency

(* find_if: of two registrations of one layer the first is meant.          *)
Entry(l)      == Min({i \in Known : residency[i].layer = l})
Registered(l) == \E i \in Known : residency[i].layer = l

SwapInit == /\ residency = << >> /\ lru = << >> /\ swapUsed = 0
            /\ ringTop = 0 /\ inRam = {} /\ newcomers = FALSE

(* A layer is not looked for before it is added.                           *)
RegisterLayer(l, size) ==
  /\ Len(residency) < MaxRegistered
  /\ residency' = Append(residency, [layer |-> l, inVRAM |-> FALSE, offset |-> 0, size |-> size])
  /\ inRam' = inRam \cup {Len(residency) + 1}
  /\ newcomers' = (newcomers \/ Known \ inRam # {})
  /\ UNCHANGED <<lru, swapUsed, ringTop>>

(* RingAllocator::alloc.                                                   *)
Aligned(n) == ((n + Alignment - 1) \div Alignment) * Alignment
Fits(size) == Aligned(ringTop) + size <= RingCapacity

(* EvictOneLayer, n times: the layers used longest ago.                    *)
Victims(n) == {Entry(lru[k]) : k \in 1 .. n}
Sizes      == [i \in Known |-> residency[i].size]
FreedBy(n) == SumFunctionOnSet(Sizes, Victims(n))

(* The loop evicts until the layer fits, or nobody is left.                *)
Evictions(size) ==
  LET enough == {n \in 0 .. Len(lru) : swapUsed - FreedBy(n) + size <= MaxVram}
  IN IF enough = {} THEN Len(lru) ELSE Min(enough)

(* A layer that is not in the queue is added to it.                        *)
Touch(queue, l) == Append(RemoveFirst(queue, l), l)

Evict(n) ==
  [residency |-> [i \in Known |-> [residency[i] EXCEPT !.inVRAM = @ /\ i \notin Victims(n)]],
   lru |-> SubSeq(lru, n + 1, Len(lru)), used |-> swapUsed - FreedBy(n)]

(* Mutant: the address is the end of what the ring has given away so far,  *)
(* less the bytes that were evicted.                                       *)
PlaceReusing(size) == Aligned(swapUsed)
Place(size) == Aligned(ringTop)

(* The layers are evicted whether or not the layer then gets its place:    *)
(* it may be larger than all VRAM, or the ring may be used up.             *)
EnsureLayerInVRAM(l) ==
  /\ Registered(l)
  /\ UNCHANGED <<inRam, newcomers>>
  /\ LET i     == Entry(l)
         size  == residency[i].size
         after == Evict(Evictions(size))
     IN IF residency[i].inVRAM
        THEN /\ lru' = Touch(lru, l)
             /\ UNCHANGED <<residency, swapUsed, ringTop>>
        ELSE IF after.used + size <= MaxVram /\ Fits(size)
        THEN /\ residency' = [after.residency EXCEPT ![i].inVRAM = TRUE,
                                                     ![i].offset = Place(size)]
             /\ lru' = Touch(after.lru, l)
             /\ swapUsed' = after.used + size
             /\ ringTop' = Aligned(ringTop) + size
        ELSE /\ residency' = after.residency /\ lru' = after.lru
             /\ swapUsed' = after.used
             /\ UNCHANGED ringTop

FreeSystemCopies ==
  /\ \A i \in Known : residency[i].inVRAM
  /\ inRam' = {} /\ newcomers' = FALSE
  /\ UNCHANGED <<residency, lru, swapUsed, ringTop>>

SwapNext ==
  \/ \E l \in SwapLayers, size \in LayerSizes : RegisterLayer(l, size)
  \/ \E l \in SwapLayers : EnsureLayerInVRAM(l)
  \/ FreeSystemCopies

SwapSpec == SwapInit /\ [][SwapNext]_swapVars

-----------------------------------------------------------------------------
Resident == {i \in Known : residency[i].inVRAM}

(* The queue names each layer that is in VRAM once and no other, the bytes *)
(* counted are those of these layers, and their addresses do not overlap,  *)
(* whatever was evicted, loaded again or refused by a ring that is used up.*)
(* The bytes of a layer are in RAM or in VRAM; an eviction loses them only *)
(* when another layer was registered after FreeSystemCopies.               *)
SwapConsistent ==
  /\ {Entry(lru[k]) : k \in DOMAIN lru} = Resident
  /\ \A j, k \in DOMAIN lru : j # k => lru[j] # lru[k]
  /\ swapUsed = SumFunctionOnSet(Sizes, Resident)
  /\ \A i, j \in Resident :
       i < j => \/ residency[i].offset + residency[i].size <= residency[j].offset
                \/ residency[j].offset + residency[j].size <= residency[i].offset
  /\ newcomers \/ Known = inRam \cup Resident
=============================================================================
