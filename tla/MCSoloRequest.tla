---------------------------- MODULE MCSoloRequest ----------------------------
(* Values for the constants of SoloRequest.                                *)
EXTENDS SoloRequest
MCSeqIds   == {0}
MCTokenIds == {1, 2}
=============================================================================
