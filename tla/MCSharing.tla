------------------------------ MODULE MCSharing ------------------------------
(* What sequences of calls nobody planned make of shared state: the engine *)
(* under its whole interface, and the buffers of the memory tiers.  They   *)
(* share nothing in the models, so a behaviour is one of either, and the   *)
(* other stays in one of its initial states.                               *)
EXTENDS MCEngineSharing, MemoryTiers

VARIABLE part

MCLayerOf   == [n \in {"a", "b", "c"} |-> IF n = "a" THEN 0 ELSE 1]
MCSpillPath == [n \in {"a", "b", "c"} |-> IF n = "c" THEN "p" ELSE "q"]

sharedVars == <<part, vars, tierVars>>

SharedInit ==
  /\ Init /\ TierInit
  /\ \/ part = "engine"
     \/ part = "tiers" /\ loaded = Layers

SharedNext ==
  \/ part = "engine" /\ UNCHANGED <<part, tierVars>> /\ SharingNext
  \/ part = "tiers" /\ UNCHANGED <<part, vars>> /\ TierNext

SharedSpec == SharedInit /\ [][SharedNext]_sharedVars

SharedView == <<part, Control, tierVars>>
=============================================================================
