---------------------------- MODULE KvCacheWrite ----------------------------
(***************************************************************************)
(* One K (or V) buffer of a layer: allocated by KVCacheManager::allocate,  *)
(* written row by row by the shader kv_cache_write, which lays it out in   *)
(* tiles, and read by the shader flash_attention.  DispatchKvCacheWrite    *)
(* starts ceil(n_kv_heads * head_dim / Wave) workgroups of Wave threads;   *)
(* the threads of all workgroups run in any order.                         *)
(***************************************************************************)
EXTENDS Naturals, FiniteSets

CONSTANTS Wave,      \* threads of a workgroup; 32
          Tile,      \* positions of a tile; 32
          MaxSeq,    \* max_seq_len_
          KvHeads,   \* n_kv_heads_
          HeadDim    \* head_dim_

ASSUME LayoutAssumption ==
  /\ Wave \in Nat \ {0} /\ Tile \in Nat \ {0}
  /\ MaxSeq \in Nat \ {0} /\ KvHeads \in Nat \ {0} /\ HeadDim \in Nat \ {0}

VARIABLES pos,      \* seq->position: the row being written, or to be written
          threads,  \* the threads of the dispatch, with the element each is at
          kvBuffer  \* what has been written: index -> <<head, position, dim>>

kvVars == <<pos, threads, kvBuffer>>

Elements == KvHeads * HeadDim
Heads    == 0 .. KvHeads - 1
Dims     == 0 .. HeadDim - 1

(* Elements of the buffer allocate() asks for.                             *)
BufferSize == MaxSeq * KvHeads * HeadDim

(* Mutants: the heads share their rows; the layout of earlier versions.    *)
WriteIndexSharedHeads(head, p, dim) ==
  (p \div Tile) * Tile * HeadDim + dim * Tile + (p % Tile)

WriteIndexRowMajor(head, p, dim) == head * MaxSeq * HeadDim + p * HeadDim + dim

WriteIndex(head, p, dim) ==
  head * MaxSeq * HeadDim + (p \div Tile) * Tile * HeadDim + dim * Tile + (p % Tile)

(* readKCached and readVCached.                                            *)
ReadIndex(p, dim) == (p \div Tile) * Tile * HeadDim + dim * Tile + (p % Tile)

Workgroups == 0 .. ((Elements + Wave - 1) \div Wave) - 1

KvInit == pos = 0 /\ threads = << >> /\ kvBuffer = << >>

(* vkCmdDispatch; the shader takes its start from gl_LocalInvocationID, so *)
(* every workgroup does the same work.                                     *)
DispatchKvCacheWrite ==
  /\ threads = << >>
  /\ pos < MaxSeq
  /\ threads' = [t \in Workgroups \X (0 .. Wave - 1) |-> t[2]]
  /\ UNCHANGED <<pos, kvBuffer>>

Looping(t) == threads[t] < Elements

(* One turn of the loop of main() in the shader.                           *)
WriteElement(t) ==
  /\ Looping(t)
  /\ LET head  == threads[t] \div HeadDim
         dim   == threads[t] % HeadDim
         index == WriteIndex(head, pos, dim)
     IN kvBuffer' = [i \in DOMAIN kvBuffer \cup {index} |->
                    IF i = index THEN <<head, pos, dim>> ELSE kvBuffer[i]]
  /\ threads' = [threads EXCEPT ![t] = @ + Wave]
  /\ UNCHANGED pos

(* vkWaitForFences; the position moves on when the token is sampled.       *)
Done == \A t \in DOMAIN threads : ~Looping(t)

Wait ==
  /\ threads # << >> /\ Done
  /\ threads' = << >>
  /\ pos' = pos + 1
  /\ UNCHANGED kvBuffer

KvNext ==
  \/ DispatchKvCacheWrite
  \/ \E t \in DOMAIN threads : WriteElement(t)
  \/ Wait

KvSpec == KvInit /\ [][KvNext]_kvVars

-----------------------------------------------------------------------------
(* The rows written or being written lie in tiles that end within the      *)
(* stride of a head.  In a context that is not a multiple of Tile, and the *)
(* command line takes any, the positions behind its whole tiles do not.    *)
Begun    == IF threads = << >> THEN pos ELSE pos + 1
InStride == Begun <= (MaxSeq \div Tile) * Tile

(* The rows already written stay what they are while later ones are        *)
(* written: no two (head, position, dim) share an element of the buffer,   *)
(* which has maxSeqLen * nKvHeads * headDim elements.  Behind the whole    *)
(* tiles, what is written for a head overwrites the first rows of the      *)
(* next, and for the last head reaches beyond the buffer.                  *)
RowsKept ==
  /\ InStride \/ KvHeads = 1 =>
       \A p \in 0 .. pos - 1, h \in Heads, d \in Dims :
         LET i == WriteIndex(h, p, d)
         IN  i \in DOMAIN kvBuffer /\ kvBuffer[i] = <<h, p, d>>
  /\ InStride => \A i \in DOMAIN kvBuffer : i < BufferSize

(* flash_attention finds the rows of head 0 where kv_cache_write put them. *)
ReadsBack ==
  InStride \/ KvHeads = 1 =>
    \A p \in 0 .. pos - 1, d \in Dims :
      LET i == ReadIndex(p, d)
      IN  i \in DOMAIN kvBuffer /\ kvBuffer[i] = <<0, p, d>>
=============================================================================
