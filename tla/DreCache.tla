------------------------------ MODULE DreCache ------------------------------
(***************************************************************************)
(* The compressor's dictionary cache (dre_cache_t), at the level of its    *)
(* list of live blocks.                                                    *)
(*                                                                         *)
(* Blocks are numbered by the value of nb_total_block when they are        *)
(* inserted.  remove_oldest_block takes the head of the list only and      *)
(* H_insert_bloc appends at its tail, so the live blocks are always the    *)
(* interval First .. nb_total_block-1.  The pointers, hash chains and ring *)
(* of index slots that realise this list are the subject of BlockIndex,    *)
(* which is shown to implement this module.                                *)
(***************************************************************************)
EXTENDS Integers

CONSTANTS
  Keys,       \* block identities: what the triple (crc, fp, blk_len) tells apart
  NoKey,      \* the triple of an index slot that was never written
  BlkLen,     \* blk_len of each key
  MaxLen,     \* the longest block a stream forms (max_blk_sz)
  MinBlk,     \* cache->min_blk_size: a shorter tail is never cached
  StreamMin,  \* ctx->min_blk_sz: the shortest block a stream forms
  CacheSz,    \* cache->cache_sz
  NbBlkIdx,   \* cache->nb_blk_idx: number of slots of the index
  Wrap,       \* 2^64, the modulus of uint64_t
  MaxTotal    \* bound on nb_total_block, for model checking

ASSUME CacheAssumption ==
  /\ NoKey \notin Keys
  /\ MaxLen \in Nat \ {0}
  /\ BlkLen \in [Keys -> 1..MaxLen]
  /\ MinBlk \in Nat
  /\ StreamMin \in Nat
  /\ CacheSz \in Nat \ {0}
  /\ NbBlkIdx \in Nat \ {0, 1}
  /\ Wrap \in Nat
  /\ Wrap > CacheSz + MaxLen
  /\ MaxTotal \in Nat

VARIABLES
  blk,             \* the list: live block number -> its key and dict_offset
  nb_block,        \* header: number of blocks in the cache
  nb_total_block,  \* header: number of blocks inserted since the start
  data_pos_wr,     \* header: where the next block's bytes go
  edge,            \* cache->edge: the index or the data area has wrapped
  fault,           \* an empty list was dereferenced: the process is dead
  out              \* the last c_buff_t handed to the caller

vars == <<blk, nb_block, nb_total_block, data_pos_wr, edge, fault, out>>

Entry == [key : Keys, off : Nat]
OutBuff == [compressed : BOOLEAN, dict_offset : Nat, key : Keys \cup {NoKey}]
NoOut == [compressed |-> FALSE, dict_offset |-> 0, key |-> NoKey]

First == nb_total_block - nb_block          \* blk_idx_head, if the list is not empty
Live  == First .. (nb_total_block - 1)
End(e) == e.off + BlkLen[e.key]             \* one past the last byte of a block

Init ==
  /\ blk = [s \in {} |-> NoOut]
  /\ nb_block = 0
  /\ nb_total_block = 0
  /\ data_pos_wr = 0
  /\ edge = FALSE
  /\ fault = FALSE
  /\ out = NoOut

-----------------------------------------------------------------------------
(* H_lookup: the blocks whose triple matches, oldest first in their chain. *)
Matches(k) == {s \in Live : blk[s].key = k}

(* A redundant block: only a reference goes out, no state changes.         *)
Hit(k) ==
  \E s \in Matches(k) :
    /\ \A t \in Matches(k) : s <= t
    /\ out' = [compressed |-> TRUE, dict_offset |-> blk[s].off, key |-> k]
    /\ UNCHANGED <<blk, nb_block, nb_total_block, data_pos_wr, edge, fault>>

(* uint64_t subtraction.                                                   *)
MinusSigned(a, b) == a - b                                   \* faulty variant
Minus(a, b) == (a - b) % Wrap

(* `while (P(blk_idx_head)) remove_oldest_block()', started with lo at the *)
(* head, leaves f there; S is the set of blocks that satisfy P.  The list  *)
(* is exhausted, and a null head dereferenced, when f is nb_total_block.   *)
Removes(lo, f, S) ==
  /\ lo <= f
  /\ lo..(f-1) \subseteq S
  /\ f \notin S

(* The condition of edge_cache's first loop: blocks of the previous lap.   *)
PreviousLapKept == {}                                        \* faulty variant
PreviousLap == {s \in Live : blk[s].off >= data_pos_wr /\ blk[s].off # 0}

(* The condition of its second loop, which makes room at pos.              *)
InTheWayShort(pos, len) ==                                   \* faulty variant
  {s \in Live : Minus(blk[s].off, pos) < len - 1}
InTheWay(pos, len) == {s \in Live : Minus(blk[s].off, pos) < len}

RotatesLate(len) == data_pos_wr + len > CacheSz + 1          \* faulty variant
Rotates(len) == data_pos_wr + len > CacheSz
WritePosModulo(len) ==                                       \* faulty variant
  IF Rotates(len) THEN data_pos_wr - CacheSz ELSE data_pos_wr
WritePos(len) == IF Rotates(len) THEN 0 ELSE data_pos_wr
EdgingLate(len) == edge                                      \* faulty variant
Edging(len) == edge \/ Rotates(len)

(* edge_cache: f is the head it leaves.                                    *)
EdgeCache(len, f) ==
  \E f1 \in First..nb_total_block :
    /\ IF Rotates(len) THEN Removes(First, f1, PreviousLap) ELSE f1 = First
    /\ IF Edging(len) THEN Removes(f1, f, InTheWay(WritePos(len), len)) ELSE f = f1

(* new_block_info drops one more block when the ring of slots is full.     *)
AfterNewSlotKept(len, f) == f                                \* faulty variant
AfterNewSlot(len, f) ==
  IF Edging(len) /\ nb_total_block - f = NbBlkIdx THEN f + 1 ELSE f

(* A new block: edge_cache, write_block_to_cache, new_bloc.                *)
Insert(k) ==
  LET len == BlkLen[k]
      pos == WritePos(len)
  IN
  /\ Matches(k) = {}
  /\ nb_total_block < MaxTotal
  /\ \E f \in First..nb_total_block :
       /\ EdgeCache(len, f)
       /\ ~(Edging(len) /\ f = nb_total_block)
       /\ LET g == AfterNewSlot(len, f) IN
          /\ blk' = [s \in g..nb_total_block |->
                       IF s = nb_total_block THEN [key |-> k, off |-> pos] ELSE blk[s]]
          /\ nb_block' = nb_total_block + 1 - g
  /\ nb_total_block' = nb_total_block + 1
  /\ data_pos_wr' = pos + len
  /\ edge' = (Edging(len) \/ (nb_total_block + 1) % NbBlkIdx = 0)
  /\ out' = [compressed |-> FALSE, dict_offset |-> pos, key |-> k]
  /\ UNCHANGED fault

(* edge_cache runs out of blocks to remove and reads through blk_idx_head, *)
(* which is null.  The first loop has set neither position nor edge then.  *)
InsertFaults(k) ==
  LET len == BlkLen[k] IN
  /\ Matches(k) = {}
  /\ nb_total_block < MaxTotal
  /\ Edging(len)
  /\ EdgeCache(len, nb_total_block)
  /\ blk' = [s \in {} |-> NoOut]
  /\ nb_block' = 0
  /\ fault' = TRUE
  /\ IF Rotates(len) /\ ~Removes(First, nb_total_block, PreviousLap)
       THEN data_pos_wr' = 0 /\ edge' = TRUE
       ELSE UNCHANGED <<data_pos_wr, edge>>
  /\ UNCHANGED <<nb_total_block, out>>

Store(k) == Hit(k) \/ Insert(k) \/ InsertFaults(k)

-----------------------------------------------------------------------------
(* rabin_compress_buffer, each time a block boundary is found.             *)
CompressBlock(k) ==
  /\ ~fault
  /\ BlkLen[k] >= StreamMin
  /\ Store(k)

(* rabin_flush: a tail shorter than the cache's minimum bypasses the cache.*)
FlushSmall(k) ==
  /\ ~fault
  /\ BlkLen[k] < MinBlk
  /\ out' = [compressed |-> FALSE, dict_offset |-> 0, key |-> k]
  /\ UNCHANGED <<blk, nb_block, nb_total_block, data_pos_wr, edge, fault>>

Flush(k) ==
  \/ FlushSmall(k)
  \/ ~fault /\ BlkLen[k] >= MinBlk /\ Store(k)

(* reset_dre_cache.                                                        *)
Reset ==
  /\ ~fault
  /\ blk' = [s \in {} |-> NoOut]
  /\ nb_block' = 0
  /\ nb_total_block' = 0
  /\ data_pos_wr' = 0
  /\ edge' = FALSE
  /\ UNCHANGED <<fault, out>>

-----------------------------------------------------------------------------
(* comp_load_dre_cache(max_block) after close_cache.  It rebuilds the list *)
(* from the ring of slots, block s being in slot s % NbBlkIdx, and drops   *)
(* the blocks numbered max_block and above.                                *)
Slot(s) == s % NbBlkIdx

(* The loads the code gets right; BlockIndex shows what the others do.     *)
LoadIsSound(max_block) ==
  /\ nb_block > 0
  /\ ~(nb_block = NbBlkIdx /\ nb_total_block = NbBlkIdx)
  /\ max_block > 0 =>
       /\ First < max_block /\ max_block <= nb_total_block
       /\ \/ Slot(First) < Slot(nb_total_block)
          \/ max_block - First >= NbBlkIdx - Slot(First)

Load(max_block) ==
  LET total == IF max_block = 0 THEN nb_total_block ELSE max_block IN
  /\ ~fault
  /\ LoadIsSound(max_block)
  /\ blk' = [s \in First..(total - 1) |-> blk[s]]
  /\ nb_block' = total - First
  /\ nb_total_block' = total
  /\ data_pos_wr' = End(blk[total - 1])
  /\ edge' = (nb_total_block > nb_block)
  /\ UNCHANGED <<fault, out>>

Next ==
  \/ \E k \in Keys : CompressBlock(k) \/ Flush(k)
  \/ Reset
  \/ \E m \in 0..MaxTotal : Load(m)

Spec == Init /\ [][Next]_vars

-----------------------------------------------------------------------------
(* The types, and the list itself: an entry for each number from First up  *)
(* to nb_total_block, whichever order it was extended and cut in.          *)
TypeOK ==
  /\ nb_block \in Nat
  /\ nb_total_block \in Nat
  /\ nb_block <= nb_total_block
  /\ blk \in [Live -> Entry]
  /\ data_pos_wr \in Nat
  /\ edge \in BOOLEAN
  /\ fault \in BOOLEAN
  /\ out \in OutBuff

(* No two live blocks share a byte of the dictionary, whatever the order   *)
(* of insertions, rotations, index evictions and reloads: what edge_cache  *)
(* removes is all that the next write overwrites.                          *)
LiveDisjoint ==
  \A s, t \in Live :
    s # t => End(blk[s]) <= blk[t].off \/ End(blk[t]) <= blk[s].off

(* A block is never written past the end of the data area.                 *)
WithinCache == \A s \in Live : End(blk[s]) <= CacheSz

(* The index never holds more blocks than it has slots: new_block_info     *)
(* reuses a slot only after remove_oldest_block has freed it.              *)
IndexBounded == nb_block <= NbBlkIdx

(* No block is stored twice (Insert asks for no less): a triple leads to   *)
(* one number, which the arguments about both ends build on.               *)
NoDuplicate == \A s, t \in Live : blk[s].key = blk[t].key => s = t

(* A data area of almost three times the longest block.                    *)
RoomForThree == CacheSz >= 3 * MaxLen - 1

(* edge_cache never empties the list whose head it reads through: true     *)
(* under RoomForThree, and false of the next smaller data area.            *)
NoFault == ~fault

(* Whatever the size of the data area: edge_cache empties the list only    *)
(* when the block being inserted makes it rotate, and the latest block     *)
(* itself lies where that one goes (or there is no block at all); making   *)
(* room ahead in the current lap never does.                               *)
FaultIsTight ==
  [][fault' /\ ~fault =>
       LET Causes == {k \in Keys : InsertFaults(k)} IN
       /\ Causes # {}
       /\ \A k \in Causes :
            /\ Rotates(BlkLen[k])
            /\ nb_block > 0 => blk[nb_total_block - 1].off < BlkLen[k]]_vars

-----------------------------------------------------------------------------
(* Why the properties hold: the writing position divides the list in two.  *)

(* Writing resumes right after the latest block.                           *)
Latest ==
  ~fault => IF nb_total_block = 0 THEN data_pos_wr = 0
            ELSE nb_block > 0 /\ data_pos_wr = End(blk[nb_total_block - 1])

CurrentLap(s) == blk[s].off < data_pos_wr

(* The blocks of the previous lap, ahead of the writing position, are      *)
(* older than those of the current lap, and each lap is in the order of    *)
(* the data area.                                                          *)
LapOrder ==
  \A s, t \in Live :
    s < t => /\ CurrentLap(s) => CurrentLap(t)
             /\ (CurrentLap(s) <=> CurrentLap(t)) => End(blk[s]) <= blk[t].off

(* As long as the first block is there, the data area has not wrapped.     *)
FromZero == First = 0 /\ nb_total_block > 0 => blk[0].off = 0

(* Before the edge nothing was removed and a slot is free.                 *)
EdgeIsSet ==
  ~fault => IF edge THEN nb_total_block > 0
                    ELSE First = 0 /\ nb_total_block < NbBlkIdx

(* A dead process has removed every block.                                 *)
FaultIsEmpty == fault => nb_block = 0

(* The inductive invariant: what a reload, an eviction and an insertion    *)
(* must each keep true for the next of them to be safe.                    *)
IInv ==
  /\ TypeOK
  /\ FaultIsEmpty
  /\ Latest
  /\ data_pos_wr <= CacheSz /\ WithinCache
  /\ LapOrder
  /\ FromZero
  /\ EdgeIsSet
  /\ IndexBounded
  /\ NoDuplicate
=============================================================================
