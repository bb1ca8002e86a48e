----------------------------- MODULE BlockIndex -----------------------------
(***************************************************************************)
(* The index of the dictionary cache at the level of its data structures:  *)
(* the ring of block_t slots kept in the index file, the list of live      *)
(* blocks threaded through it (l_nxt), and the hash chains (h_nxt, h_prv). *)
(*                                                                         *)
(* The whole dre_cache_t is one record, so that an operation is a          *)
(* composition of the functions the code calls, each from cache to cache.  *)
(* l_prv is written by the code and never read; it is left out.            *)
(***************************************************************************)
EXTENDS Integers, Sequences, SequencesExt

CONSTANTS
  Keys, NoKey, BlkLen, MaxLen, MinBlk, StreamMin, CacheSz, NbBlkIdx, Wrap,
  MaxTotal,     \* all as in DreCache
  BlkHSize,     \* BLK_H_SIZE, the number of hash buckets
  Bucket,       \* crc % BLK_H_SIZE of each key
  NULL,         \* the null pointer
  LoadsAllowed  \* the kinds of reload the environment performs (LoadKind)

ASSUME IndexAssumption ==
  /\ NoKey \notin Keys
  /\ MaxLen \in Nat \ {0}
  /\ BlkLen \in [Keys -> 1..MaxLen]
  /\ {CacheSz, MaxTotal} \subseteq Nat
  /\ NbBlkIdx \in Nat \ {0, 1}
  /\ Wrap \in Nat /\ Wrap > CacheSz + MaxLen /\ Wrap > MaxTotal + NbBlkIdx
  /\ NULL \notin 0..(NbBlkIdx - 1)
  /\ BlkHSize \in Nat \ {0}
  /\ Bucket \in [Keys -> 0..(BlkHSize - 1)]
  /\ LoadsAllowed \subseteq {"sound", "empty", "full", "cut", "none", "past"}

VARIABLES
  c,      \* the dre_cache_t; slots, head, tail, nb, total and pos are in the file
  out     \* the last c_buff_t returned

vars == <<c, out>>

Slots == 0..(NbBlkIdx - 1)
NoOut == [compressed |-> FALSE, dict_offset |-> 0, key |-> NoKey]
LenOf(k) == IF k = NoKey THEN 0 ELSE BlkLen[k]
BucketOf(k) == IF k = NoKey THEN 0 ELSE Bucket[k]   \* a zeroed slot has crc 0

(* The lists as reset_dre_cache and rabin_load_cache_idx leave them.       *)
EmptyLists(cache) ==
  [cache EXCEPT
     !.lhead = NULL, !.ltail = NULL,
     !.hhead = [b \in 0..(BlkHSize - 1) |-> NULL],
     !.htail = [b \in 0..(BlkHSize - 1) |-> NULL]]

Init ==
  /\ c = [slots |-> [i \in Slots |-> [key |-> NoKey, off |-> 0]],
          lnxt |-> [i \in Slots |-> NULL],
          hnxt |-> [i \in Slots |-> NULL],
          hprv |-> [i \in Slots |-> NULL],
          lhead |-> NULL, ltail |-> NULL,
          hhead |-> [b \in 0..(BlkHSize - 1) |-> NULL],
          htail |-> [b \in 0..(BlkHSize - 1) |-> NULL],
          head |-> 0, tail |-> 0, nb |-> 0, total |-> 0, pos |-> 0,
          edge |-> FALSE,
          dead |-> FALSE]     \* a null pointer was dereferenced
  /\ out = NoOut

-----------------------------------------------------------------------------
HInsertBloc(cache, s) ==
  LET b == BucketOf(cache.slots[s].key)
      lnxt == [cache.lnxt EXCEPT ![s] = NULL]
      hnxt == [cache.hnxt EXCEPT ![s] = NULL]
      hprv == [cache.hprv EXCEPT ![s] = NULL]
      ht == cache.htail[b]
      lt == cache.ltail
      firstInBucket == cache.hhead[b] = NULL
      firstInList == cache.lhead = NULL
  IN
  [cache EXCEPT
     !.hnxt = IF firstInBucket THEN hnxt ELSE [hnxt EXCEPT ![ht] = s],
     !.hprv = IF firstInBucket THEN hprv ELSE [hprv EXCEPT ![s] = ht],
     !.hhead[b] = IF firstInBucket THEN s ELSE @,
     !.htail[b] = s,
     !.lnxt = IF firstInList THEN lnxt ELSE [lnxt EXCEPT ![lt] = s],
     !.lhead = IF firstInList THEN s ELSE @,
     !.ltail = s]

(* Taking a block out of its hash chain.                                   *)
UnhashKeepsTail(cache, s) ==                                 \* faulty variant
  LET b == BucketOf(cache.slots[s].key)
      n == cache.hnxt[s]
      p == cache.hprv[s]
  IN
  [cache EXCEPT
     !.hhead[b] = IF p = NULL THEN n ELSE @,
     !.hnxt = IF p = NULL THEN @ ELSE [@ EXCEPT ![p] = n],
     !.hprv = IF n = NULL THEN @ ELSE [@ EXCEPT ![n] = p]]

Unhash(cache, s) ==
  LET b == BucketOf(cache.slots[s].key)
      n == cache.hnxt[s]
      p == cache.hprv[s]
  IN
  [cache EXCEPT
     !.htail[b] = IF n = NULL THEN p ELSE @,
     !.hhead[b] = IF p = NULL THEN n ELSE @,
     !.hnxt = IF p = NULL THEN @ ELSE [@ EXCEPT ![p] = n],
     !.hprv = IF n = NULL THEN @ ELSE [@ EXCEPT ![n] = p]]

(* remove_oldest_block: l_nxt of the head, the hash chain, the ring head.  *)
RemoveOldestBlock(cache) ==
  IF cache.lhead = NULL THEN [cache EXCEPT !.dead = TRUE]
  ELSE
  [Unhash(cache, cache.lhead) EXCEPT
     !.lhead = cache.lnxt[cache.lhead],
     !.nb = (@ - 1) % Wrap,
     !.head = (@ + 1) % NbBlkIdx]

(* `while (blk_idx_head is in S) remove_oldest_block()', S being the slots  *)
(* whose offset meets the condition.  It reads through blk_idx_head, so     *)
(* running out of blocks kills the process.                                 *)
After(cache) ==
  LET after[n \in Nat] == IF n = 0 THEN cache ELSE RemoveOldestBlock(after[n-1])
  IN after

RemoveWhile(cache, S) ==
  LET after == After(cache)
      Stops(n) == after[n].lhead = NULL \/ after[n].lhead \notin S
      n == CHOOSE n \in 0..NbBlkIdx : Stops(n) /\ \A m \in 0..(n-1) : ~Stops(m)
  IN [after[n] EXCEPT !.dead = @ \/ after[n].lhead = NULL]

EdgeCache(cache, len) ==
  LET rotates == cache.pos + len > CacheSz
      previousLap == {s \in Slots : cache.slots[s].off >= cache.pos /\ cache.slots[s].off # 0}
      inTheWay(pos) == {s \in Slots : (cache.slots[s].off - pos) % Wrap < len}
      c1 == IF rotates THEN RemoveWhile(cache, previousLap) ELSE cache
      c2 == IF rotates /\ ~c1.dead THEN [c1 EXCEPT !.pos = 0, !.edge = TRUE] ELSE c1
  IN IF c2.edge /\ ~c2.dead THEN RemoveWhile(c2, inTheWay(c2.pos)) ELSE c2

(* new_block_info: frees the oldest slot if the ring is full, then takes   *)
(* the slot at the tail of the ring.                                       *)
NewBlockInfoOverwrites(cache) ==                             \* faulty variant
  [cache EXCEPT !.edge = @ \/ cache.tail + 1 = NbBlkIdx, !.tail = (@ + 1) % NbBlkIdx]

NewBlockInfoUnwrapped(cache) ==                              \* faulty variant
  LET c1 == IF cache.edge /\ cache.tail = cache.head THEN RemoveOldestBlock(cache) ELSE cache
  IN [c1 EXCEPT !.edge = @ \/ c1.tail + 1 = NbBlkIdx, !.tail = @ + 1]

NewBlockInfo(cache) ==
  LET c1 == IF cache.edge /\ cache.tail = cache.head THEN RemoveOldestBlock(cache) ELSE cache
  IN [c1 EXCEPT !.edge = @ \/ c1.tail + 1 = NbBlkIdx,
                !.tail = (@ + 1) % NbBlkIdx]

(* new_bloc: the slot is filled in, then linked.                           *)
NewBloc(cache, k, off) ==
  LET s == cache.tail
      filled == [NewBlockInfo(cache) EXCEPT !.slots[s] = [key |-> k, off |-> off]]
  IN [HInsertBloc(filled, s) EXCEPT !.nb = (@ + 1) % Wrap, !.total = @ + 1]

(* The nodes met from `from' along a next-pointer field, the first         *)
(* NbBlkIdx + 1 of them if the chain is a cycle.                           *)
Node(from, nxt) ==
  LET node[n \in Nat] == IF n = 0 THEN from
                         ELSE IF node[n-1] = NULL THEN NULL ELSE nxt[node[n-1]]
  IN node

Chain(from, nxt) ==
  LET node == Node(from, nxt)
      nodes == {n \in 0..NbBlkIdx : node[n] # NULL}
  IN [i \in 1..Cardinality(nodes) |-> node[i-1]]

IsCycle(chain) == Len(chain) > NbBlkIdx

(* H_lookup: the first matching block of the bucket's chain, or NULL.      *)
HLookup(cache, k) ==
  LET chain == Chain(cache.hhead[BucketOf(k)], cache.hnxt)
      hits == {i \in DOMAIN chain : cache.slots[chain[i]].key = k}
  IN IF hits = {} THEN NULL ELSE chain[Min(hits)]

(* H_lookup does not return: no match in a cyclic chain.                   *)
HLookupHangs(cache, k) ==
  HLookup(cache, k) = NULL /\ IsCycle(Chain(cache.hhead[BucketOf(k)], cache.hnxt))

-----------------------------------------------------------------------------
(* The block k is complete: the cache is searched, then extended if the    *)
(* block is new (rabin_compress_buffer and rabin_flush share this body).   *)
Hit(k) ==
  LET s == HLookup(c, k) IN
  /\ s # NULL
  /\ out' = [compressed |-> TRUE, dict_offset |-> c.slots[s].off, key |-> k]
  /\ UNCHANGED c

Insert(k) ==
  LET edged == EdgeCache(c, BlkLen[k])
      pos == edged.pos
      written == [edged EXCEPT !.pos = @ + BlkLen[k]]
  IN
  /\ HLookup(c, k) = NULL /\ ~HLookupHangs(c, k)
  /\ c.total < MaxTotal
  /\ IF edged.dead
       THEN c' = edged /\ UNCHANGED out
       ELSE /\ c' = NewBloc(written, k, pos)
            /\ out' = [compressed |-> FALSE, dict_offset |-> pos, key |-> k]

CompressBlock(k) ==
  /\ ~c.dead
  /\ BlkLen[k] >= StreamMin
  /\ Hit(k) \/ Insert(k)

Flush(k) ==
  /\ ~c.dead
  /\ \/ /\ BlkLen[k] < MinBlk
        /\ out' = [compressed |-> FALSE, dict_offset |-> 0, key |-> k]
        /\ UNCHANGED c
     \/ BlkLen[k] >= MinBlk /\ (Hit(k) \/ Insert(k))

(* reset_dre_cache: the slots keep what they held.                         *)
Reset ==
  /\ ~c.dead
  /\ c' = [EmptyLists(c) EXCEPT !.head = 0, !.tail = 0, !.nb = 0, !.total = 0,
                                !.pos = 0, !.edge = FALSE]
  /\ UNCHANGED out

-----------------------------------------------------------------------------
(* close_cache, then comp_load_dre_cache(max_block).                       *)

(* The slots from cache_idx_head up to cache_idx_tail, around the ring; an *)
(* index with head = tail is taken to be full.                             *)
RingOrder ==
  LET n == IF c.head < c.tail THEN c.tail - c.head ELSE NbBlkIdx - c.head + c.tail
  IN [i \in 1..n |-> (c.head + i - 1) % NbBlkIdx]

(* max_count is a uint64_t.                                                *)
MaxCount(max_block) == (c.nb - (c.total - max_block)) % Wrap

LoadCountAll(max_block) == Len(RingOrder)                    \* faulty variant
LoadCount(max_block) ==
  IF max_block > 0 /\ MaxCount(max_block) < Len(RingOrder)
    THEN MaxCount(max_block) ELSE Len(RingOrder)

(* Where the loop index i stops.  When the first of the two loops of a     *)
(* wrapped ring breaks, the second starts and breaks at i = 0.             *)
LoadTail(count) ==
  IF c.head < c.tail THEN c.head + count
  ELSE IF count <= NbBlkIdx - c.head THEN 0 ELSE count - (NbBlkIdx - c.head)

LoadKind(max_block) ==
  LET gone == c.total - c.nb IN
  IF max_block > 0 /\ max_block < gone THEN "past"
  ELSE IF max_block > 0 /\ max_block = gone THEN "none"
  ELSE IF c.nb = 0 THEN "empty"
  ELSE IF max_block > 0 /\ c.head >= c.tail /\ max_block - gone < NbBlkIdx - c.head THEN "cut"
  ELSE IF c.nb = NbBlkIdx /\ gone = 0 THEN "full"
  ELSE "sound"

(* The cache with the first n slots of the ring linked.                    *)
Linking(cache, ring) ==
  LET linked[n \in 0..Len(ring)] ==
        IF n = 0 THEN cache ELSE HInsertBloc(linked[n-1], ring[n])
  IN linked

Load(max_block) ==
  LET count == LoadCount(max_block)
      opened == EmptyLists([c EXCEPT !.edge = (c.total > c.nb)])
      loaded == Linking(opened, RingOrder)[count]
      last == c.slots[RingOrder[count]]
  IN
  /\ ~c.dead
  /\ max_block <= c.total                   \* otherwise EINVAL, nothing is loaded
  /\ LoadKind(max_block) \in LoadsAllowed
  /\ c' = IF count = 0
            THEN [opened EXCEPT !.dead = TRUE]  \* tmp_bloc is null
            ELSE [loaded EXCEPT
                    !.tail = LoadTail(count),
                    !.nb = IF max_block = 0 THEN @ ELSE MaxCount(max_block),
                    !.total = IF max_block = 0 THEN @ ELSE max_block,
                    !.pos = last.off + LenOf(last.key)]
  /\ UNCHANGED out

Next ==
  \/ \E k \in Keys : CompressBlock(k) \/ Flush(k)
  \/ Reset
  \/ \E m \in 0..MaxTotal : Load(m)

Spec == Init /\ [][Next]_vars

-----------------------------------------------------------------------------
(* Every pointer is null or one of the slots, every ring index is in the   *)
(* ring, every counter in the range of uint64_t.                           *)
Pointer == Slots \cup {NULL}
CacheType ==
  [slots : [Slots -> [key : Keys \cup {NoKey}, off : 0..CacheSz]],
   lnxt : [Slots -> Pointer], hnxt : [Slots -> Pointer], hprv : [Slots -> Pointer],
   lhead : Pointer, ltail : Pointer,
   hhead : [0..(BlkHSize - 1) -> Pointer], htail : [0..(BlkHSize - 1) -> Pointer],
   head : Slots, tail : Slots,
   nb : 0..(Wrap - 1), total : 0..(Wrap - 1), pos : 0..(Wrap - 1),
   edge : BOOLEAN, dead : BOOLEAN]
TypeOK == c \in CacheType

(* The live blocks, oldest first.                                          *)
List == Chain(c.lhead, c.lnxt)

(* The list in memory is what the ring of the index file describes: a      *)
(* reload at this point would lose no block and revive none.               *)
RingIsList ==
  ~c.dead =>
    /\ Len(List) = c.nb
    /\ \A i \in DOMAIN List : List[i] = (c.head + i - 1) % NbBlkIdx
    /\ c.tail = (c.head + c.nb) % NbBlkIdx

(* Each hash chain holds exactly the live blocks of its bucket, oldest     *)
(* first, doubly linked, with the right tail.                              *)
ChainsExact ==
  \A b \in 0..(BlkHSize - 1) :
    LET chain == Chain(c.hhead[b], c.hnxt)
        InBucket == {m \in DOMAIN List : BucketOf(c.slots[List[m]].key) = b}
    IN
    /\ ToSet(chain) = {List[m] : m \in InBucket}
    /\ \A i, j \in DOMAIN chain :
         i < j => \E m, n \in InBucket : m < n /\ List[m] = chain[i] /\ List[n] = chain[j]
    /\ \A i \in DOMAIN chain : c.hprv[chain[i]] = IF i = 1 THEN NULL ELSE chain[i-1]
    /\ c.htail[b] = IF chain = <<>> THEN NULL ELSE chain[Len(chain)]

(* A block that H_lookup returns is live, and every search ends.           *)
LookupSound ==
  ~c.dead =>
    \A k \in Keys :
      /\ ~HLookupHangs(c, k)
      /\ HLookup(c, k) # NULL => HLookup(c, k) \in ToSet(List)

(* dre.h:44 on cache_idx_head: `oldest block pos'.                         *)
HeadIsOldest == ~c.dead /\ List # <<>> => c.head = List[1]

(* dre.h:46 on nb_block: `number of block currently in cache'.             *)
NbBlockIsCount == ~c.dead => c.nb = Len(List)

-----------------------------------------------------------------------------
(* BlockIndex implements DreCache: the list, numbered from nb_total_block  *)
(* - nb_block, is DreCache's list of live blocks.                          *)
ListedBlocks ==
  [s \in (c.total - c.nb)..(c.total - 1) |->
     LET i == s - (c.total - c.nb) + 1
     IN IF i \in DOMAIN List THEN c.slots[List[i]] ELSE [key |-> NoKey, off |-> 0]]

Cache == INSTANCE DreCache WITH
  blk <- ListedBlocks, nb_block <- c.nb, nb_total_block <- c.total,
  data_pos_wr <- c.pos, edge <- c.edge, fault <- c.dead

(* Seen through the list, the index does what DreCache says: pointers,     *)
(* chains and ring lose, revive and reorder no block.                      *)
ImplementsDreCache == Cache!Spec
=============================================================================
