--------------------------- MODULE MCEngineSharing ---------------------------
(* Values for the constants of EngineSharing, and the part of its state    *)
(* its properties depend on: no guard and no property reads what a buffer  *)
(* was computed from, so states that differ only in that are the same.     *)
EXTENDS EngineSharing
MCSeqIds   == {0, 1}
MCTokenIds == {1}

Control == <<phase, layer,
             [s \in DOMAIN seqs |-> <<seqs[s].req, seqs[s].position,
                                      Len(seqs[s].tokens)>>],
             order, nextIdx, lastToken, kvLen, kvOob, loaded, scratch, ringFree,
             device, requests, ok>>
=============================================================================
