--------------------------- MODULE FlashAttention ---------------------------
(***************************************************************************)
(* The kernel behind LAYER_FLASH_ATTN: DispatchFlashAttn starts one        *)
(* workgroup for each Wave rows (one row per attention head of the token), *)
(* all in one command buffer, so the workgroups run in any order.  The     *)
(* shader flash_attention then has every thread accumulate over the rows   *)
(* of the KV cache and write its part of the output.  Which elements of    *)
(* Out are written, and from which rows of the cache, is modelled; the     *)
(* online softmax is not.  The engine dispatches it for a token when the   *)
(* row of that token has been written (KvCacheWrite), and waits for it.    *)
(***************************************************************************)
EXTENDS KvCacheWrite

CONSTANTS KvTile,      \* kvTileSize; 32
          Rows,        \* n_q_rows, which is n_heads_
          MaxHeadDim   \* MAX_HEAD_DIM; 256

ASSUME AttentionAssumption ==
  /\ KvTile \in Nat \ {0} /\ Rows \in Nat \ {0} /\ MaxHeadDim \in Nat \ {0}

VARIABLES seqLen,     \* rows of the KV cache: getSeqLen(current_layer_)
          start,      \* row the next workgroup starts at
          remaining,  \* rows no workgroup has been started for
          kvTile,     \* per started thread <<qRowStart, tid>>, its kvIdx
          attended,   \* per started thread, the positions accumulated
          out         \* elements of Out written

flashVars == <<seqLen, start, remaining, kvTile, attended, out>>
attnVars  == <<kvVars, flashVars>>

Min2(a, b) == IF a < b THEN a ELSE b
PerThread  == IF HeadDim \div Wave = 0 THEN 1 ELSE HeadDim \div Wave

Team(c)  == {c} \X (0 .. Wave - 1)   \* the workgroup started at row c
Row(t)   == t[1] + t[2]
Valid(t) == Row(t) < seqLen /\ HeadDim <= MaxHeadDim
Slice(t) == {i \in t[2] * PerThread .. (t[2] + 1) * PerThread - 1 : i < HeadDim}
KvTiles  == (seqLen + KvTile - 1) \div KvTile

AttnInit ==
  /\ KvInit
  /\ seqLen = 0 /\ start = 0 /\ remaining = 0
  /\ kvTile = << >> /\ attended = << >> /\ out = {}

FlashFinished ==
  remaining = 0 /\ \A t \in DOMAIN kvTile : kvTile[t] = KvTiles + 1

(* The phase LAYER_KV_WRITE, for the next token.                           *)
WriteRow == FlashFinished /\ seqLen = pos /\ DispatchKvCacheWrite /\ UNCHANGED flashVars

(* The phase LAYER_FLASH_ATTN: the length was counted up after the write.  *)
DispatchFlashAttn ==
  /\ FlashFinished /\ seqLen < pos
  /\ seqLen' = pos /\ start' = 0 /\ remaining' = Rows
  /\ kvTile' = << >> /\ attended' = << >> /\ out' = {}
  /\ UNCHANGED kvVars

StartThreads(team) ==
  /\ kvTile' = [t \in DOMAIN kvTile \cup team |->
                  IF t \in team THEN 0 ELSE kvTile[t]]
  /\ attended' = [t \in DOMAIN attended \cup team |->
                    IF t \in team THEN {} ELSE attended[t]]

(* Mutant: one workgroup for every row.                                    *)
StartWorkgroupPerRow ==
  /\ remaining > 0
  /\ start' = start + 1
  /\ remaining' = remaining - 1
  /\ StartThreads(Team(start))
  /\ UNCHANGED <<kvVars, seqLen, out>>

(* One turn of the loop of DispatchFlashAttn.  The shader never looks at   *)
(* qRowCount, the chunk computed here.                                     *)
StartWorkgroup ==
  /\ remaining > 0
  /\ LET chunk == Min2(remaining, Wave)
     IN /\ start' = start + chunk
        /\ remaining' = remaining - chunk
        /\ StartThreads(Team(start))
  /\ UNCHANGED <<kvVars, seqLen, out>>

(* Mutant: the mask hides the position of the row itself.                  *)
UnmaskedStrict(t) == 0 .. Row(t) - 1
Unmasked(t)       == 0 .. Row(t)

(* One tile of the KV loop of a workgroup, whose threads go in step; the   *)
(* position j is masked for a thread whose row is before j.                *)
AccumulateTile(c) ==
  LET k    == kvTile[<<c, 0>>]
      tile == k * KvTile .. Min2((k + 1) * KvTile, seqLen) - 1
  IN /\ k < KvTiles
     /\ kvTile' = [t \in DOMAIN kvTile |->
                     IF t \in Team(c) THEN k + 1 ELSE kvTile[t]]
     /\ attended' = [t \in DOMAIN attended |->
                       IF t \in Team(c) /\ Valid(t)
                       THEN attended[t] \cup (tile \cap Unmasked(t))
                       ELSE attended[t]]
     /\ UNCHANGED <<kvVars, seqLen, start, remaining, out>>

(* A valid thread writes its part of its row.                              *)
WriteOut(t) ==
  /\ kvTile[t] = KvTiles
  /\ kvTile' = [kvTile EXCEPT ![t] = KvTiles + 1]
  /\ out' = IF Valid(t)
            THEN out \cup {Row(t) * HeadDim + i : i \in Slice(t)} ELSE out
  /\ UNCHANGED <<kvVars, seqLen, start, remaining, attended>>

AttnNext ==
  \/ WriteRow
  \/ ((\E t \in DOMAIN threads : WriteElement(t)) \/ Wait) /\ UNCHANGED flashVars
  \/ DispatchFlashAttn
  \/ StartWorkgroup
  \/ \E t \in DOMAIN kvTile :
       \/ t[2] = 0 /\ AccumulateTile(t[1])
       \/ WriteOut(t)

AttnSpec == AttnInit /\ [][AttnNext]_attnVars

-----------------------------------------------------------------------------
(* The chunks cover every row once: no row is computed by two workgroups   *)
(* and, when all have been started, none is left out.  What is written is  *)
(* inside scratch_attn_, of Rows * HeadDim elements, if the rows fill the  *)
(* workgroups: threads beyond the last row only stand back when the cache  *)
(* is too short for them.                                                  *)
RowsOnce ==
  /\ \A t, u \in DOMAIN kvTile : Row(t) = Row(u) => t = u
  /\ (seqLen > 0 /\ remaining = 0) =>
       \A r \in 0 .. Rows - 1 : \E t \in DOMAIN kvTile : Row(t) = r
  /\ (Rows % Wave = 0 \/ seqLen <= Rows) => \A i \in out : i < Rows * HeadDim

(* The causal mask: a row that is written has attended exactly to the      *)
(* positions up to its own number, however the tiles fall.                 *)
CausalRows ==
  \A t \in DOMAIN kvTile :
    (Valid(t) /\ kvTile[t] >= KvTiles) => attended[t] = 0 .. Row(t)

(* "Each thread handles hd/32 elements": together the threads of a         *)
(* finished kernel have written every element of every row.                *)
OutComplete ==
  (FlashFinished /\ seqLen > 0) => out = 0 .. Rows * HeadDim - 1
=============================================================================
