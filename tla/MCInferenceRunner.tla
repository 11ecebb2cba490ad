-------------------------- MODULE MCInferenceRunner --------------------------
(* Values for the constants of InferenceRunner.                            *)
EXTENDS InferenceRunner
CONSTANTS A, B
MCSeqIds   == {0}
MCTokenIds == {1, 2}
MCModels   == {A, B}
=============================================================================
