---------------------------- MODULE MCSubmissions ----------------------------
(* The two that submit to a device, the engine with the request of one     *)
(* process and the scheduler with its fence pool: they share nothing in    *)
(* the models, so a behaviour is one of either, and the other stays in one *)
(* of its initial states.                                                  *)
EXTENDS MCSoloRequest, FenceScheduler

VARIABLE part

submissionVars == <<part, vars, fenceVars>>

SubmissionsInit ==
  /\ Init /\ FenceInit
  /\ part \in {"engine", "scheduler"}
  /\ part = "scheduler" \/ pooled
  /\ part = "engine" \/ loaded = Layers

InEngine    == part = "engine" /\ UNCHANGED <<part, fenceVars>>
InScheduler == part = "scheduler" /\ UNCHANGED <<part, vars>>

SubmissionsNext ==
  \/ InEngine /\ SoloNext
  \/ InScheduler /\ FenceNext

(* The fairness of FairSoloSpec and of FairFenceSpec.                      *)
FairSubmissions ==
  /\ SubmissionsInit /\ [][SubmissionsNext]_submissionVars
  /\ WF_vars(part = "engine" /\ GenerateGoesOn)
  /\ \A q \in Queues : WF_fenceVars(Complete(q))
  /\ WF_fenceVars(DispatchTimedReturns) /\ WF_fenceVars(SyncAllReturns)
=============================================================================
