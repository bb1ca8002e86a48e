----------------------------- MODULE Insertion -----------------------------
(***************************************************************************)
(* The compressor's insertion of a block, one store at a time.  DreCache   *)
(* and BlockIndex take it for one step; here every store to the mapped     *)
(* index file is a step of its own, because the file outlives the process: *)
(* the process may die between any two of them, and comp_load_dre_cache    *)
(* then starts from what they left.                                        *)
(*                                                                         *)
(* What the process keeps in memory is the list of live blocks (a sequence *)
(* of slots here; BlockIndex is about the pointers) and edge.              *)
(***************************************************************************)
EXTENDS Integers, Sequences

CONSTANTS
  Keys, NoKey, BlkLen, MaxLen, MinBlk, StreamMin, CacheSz, NbBlkIdx, Wrap,
  MaxTotal       \* all as in DreCache

(* The counters and the index are too small to wrap round 2^64.            *)
ASSUME InsertionAssumption ==
  /\ \A k \in Keys : BlkLen[k] \in Nat \ {0}
  /\ NoKey \notin Keys
  /\ NbBlkIdx \in Nat \ {0, 1}
  /\ MaxTotal \in Nat
  /\ Wrap \in Nat
  /\ Wrap > MaxTotal + NbBlkIdx

VARIABLES
  slots,           \* index file: the ring of block_idx_t,
  cache_idx_head,  \*   the slot of the oldest block,
  cache_idx_tail,  \*   the slot the next block will take,
  nb_block, nb_total_block, data_pos_wr,
  list,            \* memory: the slots of the live blocks, oldest first,
  edge,            \*   and cache->edge
  pc,              \* where the call is; "idle" between calls, "down" without a process
  dropping,        \* remove_oldest_block has decremented nb_block, not yet moved the head
  cur              \* the block being inserted: its key, dict_offset and bytes to write;
                   \*   or, in left, the max_block of the load in progress

file == <<slots, cache_idx_head, cache_idx_tail, nb_block, nb_total_block, data_pos_wr>>
call == <<pc, dropping, cur>>
compVars == <<file, list, edge, call>>

Slots == 0..(NbBlkIdx - 1)
NoBlock == [key |-> NoKey, off |-> 0, left |-> 0]
LenOf(k) == IF k = NoKey THEN 0 ELSE BlkLen[k]

(* The live blocks by number, as DreCache has them.                        *)
Numbered ==
  [s \in (nb_total_block - Len(list))..(nb_total_block - 1) |->
     slots[list[s - (nb_total_block - Len(list)) + 1]]]

Blank == [i \in Slots |-> [key |-> NoKey, off |-> 0]]

CompInit ==
  /\ slots = Blank
  /\ cache_idx_head = 0 /\ cache_idx_tail = 0
  /\ nb_block = 0 /\ nb_total_block = 0 /\ data_pos_wr = 0
  /\ list = <<>> /\ edge = FALSE
  /\ pc = "idle" /\ dropping = FALSE
  /\ cur = NoBlock

(* Both files created anew (new_dre_cache).                                *)
CompCreate ==
  /\ slots' = Blank
  /\ cache_idx_head' = 0 /\ cache_idx_tail' = 0
  /\ nb_block' = 0 /\ nb_total_block' = 0 /\ data_pos_wr' = 0
  /\ list' = <<>> /\ edge' = FALSE
  /\ pc' = "idle" /\ dropping' = FALSE
  /\ cur' = NoBlock

-----------------------------------------------------------------------------
(* rabin_compress_buffer caches what the chunker forms, rabin_flush a tail *)
(* that is long enough; a shorter tail is returned as it is.               *)
IsCached(k) == BlkLen[k] >= StreamMin \/ BlkLen[k] >= MinBlk
IsSmall(k) == BlkLen[k] < MinBlk

(* H_lookup finds the block, the oldest if there are several.              *)
Matches(k) == {i \in DOMAIN list : slots[list[i]].key = k}
References(k) ==
  {[compressed |-> TRUE, dict_offset |-> slots[list[i]].off, key |-> k] :
     i \in {i \in Matches(k) : \A j \in Matches(k) : i <= j}}

(* What a call returns at once, without a change to the cache.             *)
AtOnce(k) ==
  (IF IsCached(k) THEN References(k) ELSE {}) \cup
  (IF IsSmall(k) THEN {[compressed |-> FALSE, dict_offset |-> 0, key |-> k]} ELSE {})

(* The block is not there and must be: edge_cache starts.                  *)
Begin(k) ==
  /\ pc = "idle"
  /\ IsCached(k)
  /\ Matches(k) = {}
  /\ nb_total_block < MaxTotal
  /\ cur' = [key |-> k, off |-> 0, left |-> BlkLen[k]]
  /\ pc' = IF data_pos_wr + BlkLen[k] > CacheSz THEN "lap"
           ELSE IF edge THEN "room" ELSE "write"
  /\ UNCHANGED <<file, list, edge, dropping>>

-----------------------------------------------------------------------------
(* remove_oldest_block, its first store, and its second.                   *)
DropUnlinked ==                                              \* faulty variant
  /\ nb_block' = (nb_block - 1) % Wrap
  /\ dropping' = TRUE
  /\ UNCHANGED <<slots, cache_idx_head, cache_idx_tail, nb_total_block, data_pos_wr, list,
                 edge, pc, cur>>

Drop ==
  /\ list' = Tail(list)
  /\ nb_block' = (nb_block - 1) % Wrap
  /\ dropping' = TRUE
  /\ UNCHANGED <<slots, cache_idx_head, cache_idx_tail, nb_total_block, data_pos_wr,
                 edge, pc, cur>>

AdvanceHead ==
  /\ dropping
  /\ cache_idx_head' = (cache_idx_head + 1) % NbBlkIdx
  /\ dropping' = FALSE
  /\ UNCHANGED <<slots, cache_idx_tail, nb_block, nb_total_block, data_pos_wr, list, edge,
                 pc, cur>>

At(where) == pc = where /\ ~dropping

(* edge_cache, first loop: the oldest block belongs to the previous lap.   *)
PreviousLap(off) == off >= data_pos_wr /\ off # 0

LeavePreviousLap ==
  /\ At("lap") /\ list # <<>>
  /\ PreviousLap(slots[list[1]].off)
  /\ Drop

Rotate ==
  /\ At("lap") /\ list # <<>>
  /\ ~PreviousLap(slots[list[1]].off)
  /\ data_pos_wr' = 0
  /\ edge' = TRUE
  /\ pc' = "room"
  /\ UNCHANGED <<slots, cache_idx_head, cache_idx_tail, nb_block, nb_total_block, list,
                 dropping, cur>>

(* Second loop: the oldest block lies where the new one goes.              *)
InTheWayUnwrapped(off) == off - data_pos_wr < cur.left       \* faulty variant
InTheWay(off) == (off - data_pos_wr) % Wrap < cur.left

MakeRoom ==
  /\ At("room") /\ list # <<>>
  /\ InTheWay(slots[list[1]].off)
  /\ Drop

RoomMade ==
  /\ At("room") /\ list # <<>>
  /\ ~InTheWay(slots[list[1]].off)
  /\ pc' = "write"
  /\ UNCHANGED <<file, list, edge, dropping, cur>>

(* Either loop runs out of blocks and reads through a null head; or a load *)
(* has loaded none, and reads through a null tmp_bloc.                     *)
Die ==
  /\ At("lap") \/ At("room") \/ At("position")
  /\ list = <<>>
  /\ pc' = "dead"
  /\ UNCHANGED <<file, list, edge, dropping, cur>>

(* write_block_to_cache, once or, for a block that began in an earlier     *)
(* buffer, in two parts; the offset is that of the first.                  *)
WritePart ==
  /\ At("write")
  /\ \E n \in 1..cur.left :
       /\ n < cur.left => cur.left = BlkLen[cur.key]
       /\ data_pos_wr' = data_pos_wr + n
       /\ cur' = [cur EXCEPT !.left = @ - n,
                             !.off = IF cur.left = BlkLen[cur.key] THEN data_pos_wr ELSE @]
       /\ pc' = IF n = cur.left THEN "slot" ELSE "write"
  /\ UNCHANGED <<slots, cache_idx_head, cache_idx_tail, nb_block, nb_total_block, list, edge,
                 dropping>>

(* new_block_info: the oldest slot is freed if the ring is full, then the  *)
(* tail moves past the slot taken, before anything is written to it.       *)
FreeSlot ==
  /\ At("slot")
  /\ edge /\ cache_idx_tail = cache_idx_head
  /\ Drop

TakeSlotUnfreed ==                                           \* faulty variant
  /\ At("slot")
  /\ edge' = (edge \/ cache_idx_tail + 1 = NbBlkIdx)
  /\ cache_idx_tail' = (cache_idx_tail + 1) % NbBlkIdx
  /\ pc' = "fill"
  /\ UNCHANGED <<slots, cache_idx_head, nb_block, nb_total_block, data_pos_wr, list,
                 dropping, cur>>

TakeSlot ==
  /\ At("slot")
  /\ ~(edge /\ cache_idx_tail = cache_idx_head)
  /\ edge' = (edge \/ cache_idx_tail + 1 = NbBlkIdx)
  /\ cache_idx_tail' = (cache_idx_tail + 1) % NbBlkIdx
  /\ pc' = "fill"
  /\ UNCHANGED <<slots, cache_idx_head, nb_block, nb_total_block, data_pos_wr, list,
                 dropping, cur>>

(* new_bloc fills the slot: first what identifies the block, then where it *)
(* is, ...                                                                 *)
Taken == (cache_idx_tail - 1) % NbBlkIdx

FillKey ==
  /\ At("fill")
  /\ slots' = [slots EXCEPT ![Taken].key = cur.key]
  /\ pc' = "offset"
  /\ UNCHANGED <<cache_idx_head, cache_idx_tail, nb_block, nb_total_block, data_pos_wr, list,
                 edge, dropping, cur>>

FillOffset ==
  /\ At("offset")
  /\ slots' = [slots EXCEPT ![Taken].off = cur.off]
  /\ pc' = "count"
  /\ UNCHANGED <<cache_idx_head, cache_idx_tail, nb_block, nb_total_block, data_pos_wr, list,
                 edge, dropping, cur>>

(* ... links it and counts it, twice.                                      *)
CountBlock ==
  /\ At("count")
  /\ list' = Append(list, Taken)
  /\ nb_block' = (nb_block + 1) % Wrap
  /\ pc' = "total"
  /\ UNCHANGED <<slots, cache_idx_head, cache_idx_tail, nb_total_block, data_pos_wr, edge,
                 dropping, cur>>

(* The c_buff_t then returned.                                             *)
Inserted == [compressed |-> FALSE, dict_offset |-> cur.off, key |-> cur.key]

CountTotal ==
  /\ At("total")
  /\ nb_total_block' = nb_total_block + 1
  /\ cur' = NoBlock
  /\ pc' = "idle"
  /\ UNCHANGED <<slots, cache_idx_head, cache_idx_tail, nb_block, data_pos_wr, list, edge,
                 dropping>>

InnerStep ==
  \/ AdvanceHead \/ LeavePreviousLap \/ Rotate \/ MakeRoom \/ RoomMade \/ Die
  \/ WritePart \/ FreeSlot \/ TakeSlot \/ FillKey \/ FillOffset \/ CountBlock

-----------------------------------------------------------------------------
(* The process ends: between calls (close_cache), or anywhere (a crash).   *)
(* The mapped file keeps every store made so far.                          *)
CompEnd ==
  /\ list' = <<>> /\ edge' = FALSE
  /\ pc' = "down" /\ dropping' = FALSE
  /\ cur' = NoBlock
  /\ UNCHANGED file

CompClose == pc = "idle" /\ CompEnd
CompCrash == pc \notin {"idle", "down"} /\ CompEnd

(* comp_load_dre_cache(max_block).  First it reads: rabin_load_cache_idx   *)
(* sets edge, and two loops load the blocks.                               *)
RingOrder ==
  LET n == IF cache_idx_head < cache_idx_tail
             THEN cache_idx_tail - cache_idx_head
             ELSE NbBlkIdx - cache_idx_head + cache_idx_tail
  IN [i \in 1..n |-> (cache_idx_head + i - 1) % NbBlkIdx]
MaxCount(max_block) == (nb_block - (nb_total_block - max_block)) % Wrap
LoadCountOneMore(max_block) ==                               \* faulty variant
  IF max_block > 0 /\ MaxCount(max_block) < Len(RingOrder)
    THEN MaxCount(max_block) + 1 ELSE Len(RingOrder)
LoadCount(max_block) ==
  IF max_block > 0 /\ MaxCount(max_block) < Len(RingOrder)
    THEN MaxCount(max_block) ELSE Len(RingOrder)
LastLoaded(max_block) == slots[RingOrder[LoadCount(max_block)]]

CompLoad(max_block) ==
  /\ pc = "down"
  /\ max_block <= nb_total_block
  /\ list' = SubSeq(RingOrder, 1, LoadCount(max_block))
  /\ edge' = (nb_total_block > nb_block)
  /\ cur' = [NoBlock EXCEPT !.left = max_block]
  /\ pc' = "tail"
  /\ UNCHANGED <<file, dropping>>

(* With check_crc, a load that has loaded no block dies of it here.        *)
CompLoadDies(max_block) ==
  /\ pc = "down"
  /\ max_block <= nb_total_block
  /\ LoadCount(max_block) = 0
  /\ pc' = "dead"
  /\ UNCHANGED <<file, list, edge, dropping, cur>>

(* Then it stores, up to four times.  The tail goes to where the loops'    *)
(* index stopped; when the second loop begins, it is 0.                    *)
LoadEnd ==
  IF cache_idx_head < cache_idx_tail THEN cache_idx_head + Len(list)
  ELSE IF Len(list) > NbBlkIdx - cache_idx_head THEN Len(list) - (NbBlkIdx - cache_idx_head)
  ELSE 0

StoreTail ==
  /\ pc = "tail"
  /\ cache_idx_tail' = LoadEnd
  /\ pc' = IF cur.left > 0 THEN "nb_block" ELSE "position"
  /\ UNCHANGED <<slots, cache_idx_head, nb_block, nb_total_block, data_pos_wr, list, edge,
                 dropping, cur>>

StoreNbBlock ==
  /\ pc = "nb_block"
  /\ nb_block' = MaxCount(cur.left)
  /\ pc' = "nb_total"
  /\ UNCHANGED <<slots, cache_idx_head, cache_idx_tail, nb_total_block, data_pos_wr, list,
                 edge, dropping, cur>>

StoreNbTotal ==
  /\ pc = "nb_total"
  /\ nb_total_block' = cur.left
  /\ pc' = "position"
  /\ UNCHANGED <<slots, cache_idx_head, cache_idx_tail, nb_block, data_pos_wr, list, edge,
                 dropping, cur>>

StorePosition ==
  /\ pc = "position" /\ list # <<>>
  /\ LET last == slots[list[Len(list)]] IN data_pos_wr' = last.off + LenOf(last.key)
  /\ cur' = NoBlock
  /\ pc' = "idle"
  /\ UNCHANGED <<slots, cache_idx_head, cache_idx_tail, nb_block, nb_total_block, list, edge,
                 dropping>>

Loading == {"tail", "nb_block", "nb_total", "position"}
LoadStore == StoreTail \/ StoreNbBlock \/ StoreNbTotal \/ StorePosition

(* The reloads that come out right on an undamaged file.  The code does    *)
(* not ask; BlockIndex names the other kinds.                              *)
LoadIsSound(max_block) ==
  /\ max_block <= nb_total_block
  /\ nb_block > 0
  /\ ~(nb_block = NbBlkIdx /\ nb_total_block = NbBlkIdx)
  /\ max_block > 0 =>
       /\ MaxCount(max_block) \in 1..Len(RingOrder)
       /\ \/ cache_idx_head < cache_idx_tail
          \/ MaxCount(max_block) >= NbBlkIdx - cache_idx_head
=============================================================================
