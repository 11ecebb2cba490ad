----------------------------- MODULE DeviceSetup -----------------------------
(***************************************************************************)
(* VulkanContext::init: an instance, one of the GPUs the loader lists, the *)
(* width of its waves, one of its queue families, the device with up to    *)
(* four compute queues; and cleanup.  The drivers are external.            *)
(***************************************************************************)
EXTENDS Integers, Sequences, FiniteSetsExt

CONSTANT Systems  \* what the loader may list: sequences of GPUs

(* Vulkan has subgroupSize among the sizes a GPU can be asked for, and no  *)
(* queue family without a queue.                                           *)
ASSUME DeviceAssumption ==
  \A sys \in Systems :
    /\ Len(sys) \in Nat /\ DOMAIN sys = 1 .. Len(sys)
    /\ \A i \in DOMAIN sys :
         LET g == sys[i]
         IN /\ g.min \in Nat /\ g.max \in Nat /\ g.default \in g.min .. g.max
            /\ g.amd \in BOOLEAN
            /\ Len(g.families) \in Nat /\ DOMAIN g.families = 1 .. Len(g.families)
            /\ \A j \in DOMAIN g.families :
                 LET f == g.families[j]
                 IN  f.count \in Nat \ {0} /\ f.compute \in BOOLEAN /\ f.graphics \in BOOLEAN

VARIABLES
  setupAt,      \* where init is
  listed,       \* the GPUs listed
  hasInstance,  \* instance
  gpu,          \* index of physicalDevice, 0 for none
  wave,         \* subgroupSize, amdGeneration, forceWave32
  family,       \* queueFamilyIndex, 0 for none
  extensions,   \* those the device was created with
  queues        \* queues, a pair of family and index each; empty without a device

deviceVars == <<setupAt, listed, hasInstance, gpu, wave, family, extensions, queues>>

DefaultWave == [size |-> 64, generation |-> 0, force |-> FALSE]

DeviceInit ==
  /\ setupAt = "start" /\ listed = << >> /\ hasInstance = FALSE
  /\ gpu = 0 /\ wave = DefaultWave /\ family = 0 /\ extensions = {} /\ queues = << >>

Gpu == listed[gpu]
FirstOf(S) == IF S = {} THEN 0 ELSE Min(S)

-----------------------------------------------------------------------------
(* vkCreateInstance; only debug builds ask for layers and a messenger.     *)
CreateInstance ==
  /\ setupAt = "start"
  /\ \/ /\ listed' \in Systems
        /\ hasInstance' = TRUE /\ setupAt' = "instance"
     \/ setupAt' = "failed" /\ UNCHANGED <<listed, hasInstance>>
  /\ UNCHANGED <<gpu, wave, family, extensions, queues>>

(* The first GPU of AMD, or else the first one.                            *)
PickPhysicalDevice ==
  /\ setupAt = "instance"
  /\ LET amd == {i \in DOMAIN listed : listed[i].amd}
     IN gpu' = IF listed = << >> THEN 0 ELSE IF amd = {} THEN 1 ELSE Min(amd)
  /\ setupAt' = IF listed = << >> THEN "failed" ELSE "picked"
  /\ UNCHANGED <<listed, hasInstance, wave, family, extensions, queues>>

(* Mutant: 32 lanes are taken to be there on every GPU of AMD.             *)
Wave32AvailableAlways(g) == g.amd

Wave32Available(g) == g.min <= 32 /\ g.max >= 32

(* RDNA4 has waves of 64 by default, but of 32 when asked; RDNA3 has 32.   *)
DetectWave ==
  /\ setupAt = "picked"
  /\ LET rdna4 == Wave32Available(Gpu) /\ Gpu.default = 64
     IN wave' = IF ~Gpu.amd THEN [DefaultWave EXCEPT !.size = Gpu.default]
                ELSE [size       |-> IF rdna4 THEN 32 ELSE Gpu.default,
                      generation |-> IF rdna4 THEN 4 ELSE IF Gpu.default <= 32 THEN 3 ELSE 1,
                      force      |-> Wave32Available(Gpu)]
  /\ setupAt' = "wave"
  /\ UNCHANGED <<listed, hasInstance, gpu, family, extensions, queues>>

(* The four passes: the first family of the first kind there is.           *)
Kind(f, pass) ==
  CASE pass = 1 -> f.compute /\ ~f.graphics /\ f.count >= 4
    [] pass = 2 -> f.compute /\ ~f.graphics
    [] pass = 3 -> f.compute /\ f.count >= 4
    [] pass = 4 -> f.compute

Pass(n) == FirstOf({i \in DOMAIN Gpu.families : Kind(Gpu.families[i], n)})

FindQueueFamily ==
  /\ setupAt = "wave"
  /\ family' = LET found == {n \in 1 .. 4 : Pass(n) # 0}
               IN  IF found = {} THEN 0 ELSE Pass(Min(found))
  /\ setupAt' = IF family' = 0 THEN "failed" ELSE "family"
  /\ UNCHANGED <<listed, hasInstance, gpu, wave, extensions, queues>>

(* A family for transfers only; its queue is created and never fetched.    *)
TransferFamily ==
  FirstOf({i \in DOMAIN Gpu.families : LET f == Gpu.families[i]
                                       IN  f.transfer /\ ~f.compute /\ ~f.graphics})

QueueCount == Min({4, Gpu.families[family].count})

(* Per family, the queues the device is created with.                      *)
QueuesRequested ==
  [i \in {family} \cup ({TransferFamily} \ {0}) |-> IF i = family THEN QueueCount ELSE 1]

(* The matrix extension needs a 16x16x16 configuration, too.               *)
EnabledExtensions ==
  {e \in Gpu.extensions \cap {"matrix", "half float", "ballot", "rotate"} :
     e = "matrix" => Gpu.matrix16}

(* The features are asked for whether or not the GPU has them; without one *)
(* of them, or for other reasons, there is no device.                      *)
CreateDevice ==
  /\ setupAt = "family"
  /\ \/ /\ Gpu.features
        /\ extensions' = EnabledExtensions
        /\ queues' = [q \in 1 .. 4 |-> IF q <= QueuesRequested[family]
                                       THEN <<family, q>> ELSE <<family, 1>>]
        /\ setupAt' = "ready"
     \/ setupAt' = "failed" /\ UNCHANGED <<extensions, queues>>
  /\ UNCHANGED <<listed, hasInstance, gpu, wave, family>>

(* Only called after a success: main ends at once when init fails, and the *)
(* instance of a failed init is destroyed by nobody.                       *)
Cleanup ==
  /\ setupAt = "ready"
  /\ queues' = << >> /\ hasInstance' = FALSE /\ setupAt' = "gone"
  /\ UNCHANGED <<listed, gpu, wave, family, extensions>>

DeviceNext ==
  \/ CreateInstance \/ PickPhysicalDevice \/ DetectWave \/ FindQueueFamily
  \/ CreateDevice \/ Cleanup

DeviceSpec == DeviceInit /\ [][DeviceNext]_deviceVars

-----------------------------------------------------------------------------
(* How good a family is: not for graphics, then four queues, then early.   *)
Better(f, g) ==
  LET a == Gpu.families[f]  b == Gpu.families[g]
  IN IF a.graphics # b.graphics THEN b.graphics
     ELSE IF (a.count >= 4) # (b.count >= 4) THEN a.count >= 4 ELSE f < g

(* Whatever the loader lists: no queue handle stays null or names a queue  *)
(* the device was not created with, the four passes find the best compute  *)
(* family there is, and the waves are of a width this GPU can run.         *)
DeviceUsable ==
  setupAt = "ready" =>
    /\ DOMAIN queues = 1 .. 4
    /\ \A q \in 1 .. 4 : queues[q][1] = family /\ queues[q][2] <= QueuesRequested[family]
    /\ QueuesRequested[family] <= Gpu.families[family].count
    /\ Gpu.families[family].compute
    /\ \A i \in DOMAIN Gpu.families \ {family} :
         Gpu.families[i].compute => Better(family, i)
    /\ wave.size \in Gpu.min .. Gpu.max
    /\ wave.force => 32 \in Gpu.min .. Gpu.max
    /\ Gpu.amd \/ \A i \in DOMAIN listed : ~listed[i].amd
=============================================================================
