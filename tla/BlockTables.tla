----------------------------- MODULE BlockTables -----------------------------
(***************************************************************************)
(* The paged KV cache of KVCacheAdapter: blocks of 32 positions, a block   *)
(* table for every sequence, and the eviction of the sequences used        *)
(* longest ago.  Its caller keeps for every sequence the table it gave to  *)
(* the adapter, which it extends by blocks it allocates; nobody tells it   *)
(* what EvictBlocksLRU removed.                                            *)
(***************************************************************************)
EXTENDS Integers, FiniteSets

CONSTANTS PagedSeqs,   \* sequence ids
          NBlocks,     \* blocks of the pool: max_seq_ / 32, rounded up
          MaxTokenPos  \* bound on token_pos

ASSUME BlockAssumption ==
  PagedSeqs \subseteq Nat /\ NBlocks \in Nat \ {0} /\ MaxTokenPos \in Nat

VARIABLES
  inUse,      \* blocks whose block_pool_ entry is in use
  seqBlocks,  \* seq_blocks_: the table of a sequence, as a set
  lastAccess, \* seq_last_access_
  heldBlocks, \* external: blocks the caller has allocated for no table yet
  believed,   \* external: the tables the caller has set
  evicted     \* history: EvictBlocksLRU removed a table

blockVars == <<inUse, seqBlocks, lastAccess, heldBlocks, believed, evicted>>

Blocks == 0 .. NBlocks - 1

Put(f, s, v)  == [r \in DOMAIN f \cup {s} |-> IF r = s THEN v ELSE f[r]]
Drop(f, gone) == [r \in DOMAIN f \ gone |-> f[r]]
TablesOf(seqs) == UNION {seqBlocks[s] : s \in seqs \cap DOMAIN seqBlocks}

BlockInit ==
  /\ inUse = {} /\ heldBlocks = {} /\ evicted = FALSE
  /\ seqBlocks = [s \in {} |-> {}] /\ believed = [s \in {} |-> {}]
  /\ lastAccess = [s \in {} |-> 0]

(* The first entry that is not in use; UINT32_MAX when there is none.      *)
FirstFree(b) == b \in Blocks \ inUse /\ \A a \in Blocks \ inUse : b <= a

AllocateBlock ==
  /\ \E b \in Blocks : /\ FirstFree(b)
                       /\ inUse' = inUse \cup {b}
                       /\ heldBlocks' = heldBlocks \cup {b}
  /\ UNCHANGED <<seqBlocks, lastAccess, believed, evicted>>

(* The caller gives back a block it allocated and used for no table.       *)
FreeBlock(b) ==
  /\ b \in heldBlocks
  /\ inUse' = inUse \ {b} /\ heldBlocks' = heldBlocks \ {b}
  /\ UNCHANGED <<seqBlocks, lastAccess, believed, evicted>>

(* The table is replaced; the blocks of the old one that are not in the    *)
(* new one stay in use and are the caller's again.  The sequence counts    *)
(* as the one used longest ago.                                            *)
SetSequenceBlockTable(s, table) ==
  /\ seqBlocks' = Put(seqBlocks, s, table)
  /\ lastAccess' = Put(lastAccess, s, 0)
  /\ believed' = Put(believed, s, table)
  /\ heldBlocks' = (heldBlocks \cup (IF s \in DOMAIN believed THEN believed[s] ELSE {})) \ table
  /\ UNCHANGED <<inUse, evicted>>

(* What a caller sets: blocks it has, or those of the sequence's table.    *)
SetTable(s) ==
  \E table \in SUBSET (heldBlocks \cup (IF s \in DOMAIN believed THEN believed[s] ELSE {})) :
    SetSequenceBlockTable(s, table)

Removed(seqs) ==
  /\ inUse' = inUse \ TablesOf(seqs)
  /\ seqBlocks' = Drop(seqBlocks, seqs)
  /\ lastAccess' = Drop(lastAccess, seqs)

RemoveSequence(s) ==
  /\ Removed({s})
  /\ believed' = Drop(believed, {s})
  /\ UNCHANGED <<heldBlocks, evicted>>

(* A sequence without a table is remembered, too.                          *)
RotateAndCache(s, pos) ==
  /\ lastAccess' = Put(lastAccess, s, pos)
  /\ UNCHANGED <<inUse, seqBlocks, heldBlocks, believed, evicted>>

Older(s, r) == \/ lastAccess[s] < lastAccess[r]
               \/ lastAccess[s] = lastAccess[r] /\ s < r

(* Mutant: tables are forgotten and their blocks kept.                     *)
EvictBlocksLRUKeeps(n) ==
  \E gone \in SUBSET DOMAIN lastAccess :
    /\ Cardinality(gone) = n
    /\ \A s \in gone, r \in DOMAIN lastAccess \ gone : Older(s, r)
    /\ seqBlocks' = Drop(seqBlocks, gone) /\ lastAccess' = Drop(lastAccess, gone)
    /\ UNCHANGED <<inUse, heldBlocks, believed, evicted>>

(* As many sequences as blocks should be freed, the oldest first.          *)
EvictBlocksLRU(n) ==
  \E gone \in SUBSET DOMAIN lastAccess :
    /\ Cardinality(gone) = n \/ (gone = DOMAIN lastAccess /\ Cardinality(gone) < n)
    /\ \A s \in gone, r \in DOMAIN lastAccess \ gone : Older(s, r)
    /\ Removed(gone)
    /\ evicted' = (evicted \/ gone \cap DOMAIN seqBlocks # {})
    /\ UNCHANGED <<heldBlocks, believed>>

BlockNext ==
  \/ AllocateBlock
  \/ \E b \in heldBlocks : FreeBlock(b)
  \/ \E s \in PagedSeqs : SetTable(s) \/ RemoveSequence(s)
  \/ \E s \in PagedSeqs, pos \in 0 .. MaxTokenPos : RotateAndCache(s, pos)
  \/ \E n \in 1 .. NBlocks : EvictBlocksLRU(n)

BlockSpec == BlockInit /\ [][BlockNext]_blockVars

-----------------------------------------------------------------------------
(* No block belongs to two sequences, none in a table is free, and none    *)
(* leaks: true for a caller that allocates what it puts into tables, until *)
(* EvictBlocksLRU removes a table behind its back; from then on the caller *)
(* extends a table whose blocks the pool gives to others.                  *)
BlocksOwned ==
  evicted \/
  /\ \A s, r \in DOMAIN seqBlocks : s # r => seqBlocks[s] \cap seqBlocks[r] = {}
  /\ inUse = heldBlocks \cup TablesOf(DOMAIN seqBlocks)
  /\ heldBlocks \cap TablesOf(DOMAIN seqBlocks) = {}
=============================================================================
