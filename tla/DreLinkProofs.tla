--------------------------- MODULE DreLinkProofs ---------------------------
(* Proofs about DreCache and the two modules that extend it, OutBuffers    *)
(* and DreLink, for every set of keys, size of the data area and number of *)
(* slots that the assumptions allow.                                       *)
EXTENDS DreLink, OutBuffers, FiniteSetTheorems, TLAPS

-----------------------------------------------------------------------------
(* DreCache.                                                               *)

(* uint64_t subtraction of two offsets: exact, or off by 2^64.             *)
LEMMA MinusLemma ==
  ASSUME NEW a \in Nat, NEW b \in Nat, a < Wrap, b < Wrap
  PROVE  Minus(a, b) = IF a >= b THEN a - b ELSE a - b + Wrap
<1>1. Wrap \in Nat /\ Wrap > 0
  BY CacheAssumption
<1>2. CASE a >= b
  <2>1. a - b \in 0..(Wrap - 1)
    BY <1>1, <1>2
  <2>2. (a - b) % Wrap = a - b
    BY <1>1, <2>1
  <2> QED BY <2>2, <1>2 DEF Minus
<1>3. CASE a < b
  <2>1. a - b + Wrap \in 0..(Wrap - 1)
    BY <1>1, <1>3
  <2>2. (a - b) % Wrap = a - b + Wrap
    BY <1>1, <2>1
  <2> QED BY <2>2, <1>3 DEF Minus
<1> QED BY <1>2, <1>3

-----------------------------------------------------------------------------
(* What the type invariant says of the blocks of the list.                 *)
LEMMA LiveFacts ==
  ASSUME TypeOK
  PROVE  /\ First \in Nat /\ nb_total_block \in Nat /\ First <= nb_total_block
         /\ \A s \in Live :
              /\ s \in Nat /\ First <= s /\ s < nb_total_block
              /\ blk[s] \in Entry
              /\ blk[s].key \in Keys /\ blk[s].off \in Nat
              /\ BlkLen[blk[s].key] \in 1..MaxLen
              /\ End(blk[s]) = blk[s].off + BlkLen[blk[s].key]
              /\ End(blk[s]) \in Nat /\ blk[s].off < End(blk[s])
<1>1. /\ First \in Nat /\ nb_total_block \in Nat /\ First <= nb_total_block
      /\ \A s \in Live : s \in Nat /\ First <= s /\ s < nb_total_block
  BY DEF TypeOK, First, Live
<1>2. \A s \in Live : blk[s] \in Entry
  BY DEF TypeOK
<1>3. \A s \in Live : blk[s].key \in Keys /\ blk[s].off \in Nat
  BY <1>2 DEF Entry
<1>4. \A k \in Keys : BlkLen[k] \in 1..MaxLen /\ MaxLen \in Nat
  BY CacheAssumption
<1> QED BY <1>1, <1>2, <1>3, <1>4 DEF End

(* With edge clear or not, what edge_cache leaves does not meet the bytes  *)
(* about to be written.  After a rotation only blocks of the lap just      *)
(* ended are left.                                                         *)
LEMMA Survivors ==
  ASSUME IInv, ~fault,
         NEW k \in Keys, NEW f \in First..nb_total_block,
         EdgeCache(BlkLen[k], f), Edging(BlkLen[k]) => f < nb_total_block
  PROVE  /\ ~Rotates(BlkLen[k]) =>
              \A s \in f..(nb_total_block - 1) :
                CurrentLap(s) \/ blk[s].off >= data_pos_wr + BlkLen[k]
         /\ Rotates(BlkLen[k]) =>
              /\ f < nb_total_block
              /\ \A s \in f..(nb_total_block - 1) :
                   CurrentLap(s) /\ blk[s].off >= BlkLen[k]
         /\ ~Edging(BlkLen[k]) => f = First /\ First = 0
<1> DEFINE len == BlkLen[k]
           K == nb_total_block
<1>1. len \in 1..MaxLen /\ len \in Nat /\ MaxLen \in Nat /\ CacheSz \in Nat
      /\ Wrap \in Nat /\ Wrap > CacheSz + MaxLen
  BY CacheAssumption
<1>2. data_pos_wr \in Nat /\ data_pos_wr <= CacheSz /\ TypeOK
  BY DEF IInv, TypeOK
<1>3. \A s \in Live : blk[s].off \in Nat /\ blk[s].off < End(blk[s]) /\ End(blk[s]) <= CacheSz
                     /\ End(blk[s]) \in Nat /\ s \in Nat /\ First <= s /\ s < K
  BY <1>2, LiveFacts DEF IInv, WithinCache
<1>4. First \in Nat /\ K \in Nat /\ f \in Nat
  BY <1>2, LiveFacts
<1>5. \A s \in f..(K - 1) : s \in Live
  BY <1>4 DEF Live
<1>6. PICK f1 \in First..K :
        /\ IF Rotates(len) THEN Removes(First, f1, PreviousLap) ELSE f1 = First
        /\ IF Edging(len) THEN Removes(f1, f, InTheWay(WritePos(len), len)) ELSE f = f1
  BY DEF EdgeCache
<1>7. f1 <= f /\ f1 \in Nat
  BY <1>4, <1>6 DEF Removes
<1>8. CASE ~Edging(len)
  <2>1. ~edge /\ ~Rotates(len) /\ f = First /\ First = 0
    BY <1>6, <1>8 DEF Edging, IInv, EdgeIsSet
  <2>2. ASSUME NEW s \in f..(K - 1)  PROVE CurrentLap(s)
    <3>1. 0 \in Live /\ blk[0].off = 0 /\ K > 0
      BY <2>1, <2>2, <1>4 DEF Live, IInv, FromZero
    <3>2. data_pos_wr > 0
      BY <3>1, <1>3, <1>2, LiveFacts DEF IInv, Latest, Live, First
    <3>3. CurrentLap(0)
      BY <3>1, <3>2 DEF CurrentLap
    <3> QED BY <3>1, <3>3, <1>5, <1>3, <2>1 DEF IInv, LapOrder
  <2> QED BY <2>1, <2>2, <1>8
<1>9. CASE Edging(len)
  <2>1. f \in Live /\ f1 \in Live
    BY <1>9, <1>4, <1>6, <1>7 DEF Live
  <2>2. f \notin InTheWay(WritePos(len), len)
    BY <1>6, <1>9 DEF Removes
  <2>3. CASE ~Rotates(len)
    <3>1. ~(Minus(blk[f].off, data_pos_wr) < len)
      BY <2>1, <2>2, <2>3 DEF InTheWay, WritePos
    <3>2. CurrentLap(f) \/ blk[f].off >= data_pos_wr + len
      <4>1. blk[f].off < Wrap /\ data_pos_wr < Wrap /\ blk[f].off \in Nat
        BY <2>1, <1>1, <1>2, <1>3
      <4>2. blk[f].off >= data_pos_wr =>
              Minus(blk[f].off, data_pos_wr) = blk[f].off - data_pos_wr
        BY <4>1, <1>2, MinusLemma
      <4> QED BY <4>1, <4>2, <3>1, <1>1, <1>2 DEF CurrentLap
    <3>3. ASSUME NEW s \in f..(K - 1)
          PROVE  CurrentLap(s) \/ blk[s].off >= data_pos_wr + len
      <4>1. CASE s = f
        BY <3>2, <4>1
      <4>2. CASE f < s /\ s \in Live
        <5>1. /\ CurrentLap(f) => CurrentLap(s)
              /\ (CurrentLap(f) <=> CurrentLap(s)) => End(blk[f]) <= blk[s].off
          BY <4>2, <2>1 DEF IInv, LapOrder
        <5> QED BY <5>1, <3>2, <2>1, <4>2, <1>1, <1>2, <1>3
      <4> QED BY <4>1, <4>2, <1>4, <1>5
    <3> QED BY <2>3, <3>3, <1>9
  <2>4. CASE Rotates(len)
    <3>1. f1 \notin PreviousLap
      BY <1>6, <2>4 DEF Removes
    <3>2. data_pos_wr > 0
      BY <2>1, <1>3, <1>2, <1>4, LiveFacts DEF IInv, Latest, Live, First, TypeOK
    <3>3. CurrentLap(f1)
      BY <3>1, <3>2, <2>1, <1>2, <1>3 DEF PreviousLap, CurrentLap
    <3>4. ~(Minus(blk[f].off, 0) < len)
      BY <2>1, <2>2, <2>4 DEF InTheWay, WritePos
    <3>5. blk[f].off >= len
      <4>1. blk[f].off \in Nat /\ blk[f].off < Wrap
        BY <2>1, <1>1, <1>3
      <4>2. Minus(blk[f].off, 0) = blk[f].off
        BY <4>1, <1>1, MinusLemma
      <4> QED BY <4>1, <4>2, <3>4, <1>1
    <3>6. \A s \in f1..(K - 1) : s \in Live /\ CurrentLap(s)
      BY <3>3, <2>1, <1>4, <1>7 DEF IInv, LapOrder, Live
    <3>7. ASSUME NEW s \in f..(K - 1)
          PROVE  CurrentLap(s) /\ blk[s].off >= len
      <4>1. CurrentLap(s) /\ CurrentLap(f) /\ s \in Live
        BY <3>6, <1>7, <1>4, <2>1
      <4>2. CASE s = f
        BY <4>1, <4>2, <3>5
      <4>3. CASE f < s
        <5>1. End(blk[f]) <= blk[s].off
          BY <4>1, <4>3, <2>1 DEF IInv, LapOrder
        <5> QED BY <5>1, <4>1, <3>5, <2>1, <1>1, <1>3
      <4> QED BY <4>2, <4>3, <1>4
    <3> QED BY <2>4, <3>7, <1>9, <2>1, <1>3
  <2> QED BY <2>3, <2>4
<1> QED BY <1>8, <1>9

-----------------------------------------------------------------------------
(* The latest block is in the current lap, and the blocks of the current   *)
(* lap end before the writing position.                                    *)
LEMMA CurrentEnds ==
  ASSUME IInv
  PROVE  /\ Live # {} => /\ nb_total_block - 1 \in Live
                         /\ ~fault /\ CurrentLap(nb_total_block - 1)
         /\ \A s \in Live : CurrentLap(s) => End(blk[s]) <= data_pos_wr
<1>1. TypeOK /\ LapOrder /\ Latest
  BY DEF IInv
<1>2. ASSUME Live # {}
      PROVE  nb_total_block - 1 \in Live
  <2>1. PICK s \in Live : TRUE
    BY <1>2
  <2> QED BY <2>1, <1>1, LiveFacts DEF Live
<1>3. ASSUME Live # {}
      PROVE  ~fault
  BY <1>2, <1>3, <1>1 DEF IInv, FaultIsEmpty, Live, First, TypeOK
<1>4. ASSUME Live # {}
      PROVE  /\ CurrentLap(nb_total_block - 1)
             /\ End(blk[nb_total_block - 1]) = data_pos_wr
  <2>1. nb_total_block - 1 \in Live /\ ~fault /\ nb_total_block # 0
    BY <1>2, <1>3, <1>4, <1>1, LiveFacts
  <2> QED BY <2>1, <1>1, LiveFacts DEF Latest, CurrentLap
<1>5. ASSUME NEW s \in Live, CurrentLap(s)
      PROVE  End(blk[s]) <= data_pos_wr
  <2> DEFINE z == nb_total_block - 1
  <2>1. z \in Live /\ CurrentLap(z) /\ End(blk[z]) = data_pos_wr
    BY <1>2, <1>4
  <2>2. CASE s = z
    BY <2>1, <2>2, <1>1, LiveFacts
  <2>3. CASE s < z
    <3>1. End(blk[s]) <= blk[z].off
      BY <2>1, <2>3, <1>5, <1>1 DEF LapOrder
    <3> QED BY <3>1, <2>1, <1>1, LiveFacts
  <2> QED BY <2>2, <2>3, <1>1, LiveFacts
<1> QED BY <1>2, <1>3, <1>4, <1>5

(* The invariant gives the property it is there for.                       *)
LEMMA Disjoint ==
  ASSUME IInv
  PROVE  LiveDisjoint
<1> SUFFICES ASSUME NEW s \in Live, NEW t \in Live, s < t
             PROVE  End(blk[s]) <= blk[t].off \/ End(blk[t]) <= blk[s].off
  BY LiveFacts DEF LiveDisjoint, IInv
<1>1. /\ CurrentLap(s) => CurrentLap(t)
      /\ (CurrentLap(s) <=> CurrentLap(t)) => End(blk[s]) <= blk[t].off
  BY DEF IInv, LapOrder
<1>2. CASE ~CurrentLap(s) /\ CurrentLap(t)
  <2>1. End(blk[t]) <= data_pos_wr
    BY <1>2, CurrentEnds
  <2> QED BY <2>1, <1>2, LiveFacts DEF CurrentLap, IInv, TypeOK
<1> QED BY <1>1, <1>2

-----------------------------------------------------------------------------
(* No live block lies where block k goes, and there is one if edge_cache   *)
(* looks at the head of the list: it has nothing to remove.                *)
Clear(k) ==
  LET len == BlkLen[k] IN
  /\ ~Rotates(len) => \A s \in Live : CurrentLap(s) \/ blk[s].off >= data_pos_wr + len
  /\ Rotates(len) => \A s \in Live : CurrentLap(s) /\ blk[s].off >= len
  /\ Edging(len) => First < nb_total_block

LEMMA ClearAfter ==
  ASSUME IInv, ~fault, NEW k \in Keys,
         EdgeCache(BlkLen[k], First), Edging(BlkLen[k]) => First < nb_total_block
  PROVE  Clear(k)
<1>1. First \in First..nb_total_block /\ Live = First..(nb_total_block - 1)
  BY LiveFacts DEF IInv, Live
<1> QED BY <1>1, Survivors DEF Clear

LEMMA ClearKeeps ==
  ASSUME IInv, ~fault, NEW k \in Keys, Clear(k)
  PROVE  EdgeCache(BlkLen[k], First)
<1> DEFINE len == BlkLen[k]
<1>1. /\ len \in Nat /\ len > 0 /\ len <= MaxLen /\ MaxLen \in Nat /\ CacheSz \in Nat
      /\ Wrap \in Nat /\ Wrap > CacheSz + MaxLen
  BY CacheAssumption
<1>2. /\ First \in Nat /\ nb_total_block \in Nat /\ First <= nb_total_block
      /\ Live = First..(nb_total_block - 1)
      /\ data_pos_wr \in Nat /\ data_pos_wr <= CacheSz
  BY LiveFacts DEF IInv, TypeOK, Live
<1>3. \A s \in Live : blk[s].off \in Nat /\ blk[s].off < CacheSz
  BY LiveFacts, <1>1 DEF IInv, WithinCache
<1>4. First..(First - 1) = {}
  BY <1>2
<1>5. Rotates(len) => First \notin PreviousLap
  BY <1>2, <1>3 DEF Clear, PreviousLap, CurrentLap
<1>6. Edging(len) => First \notin InTheWay(WritePos(len), len)
  <2> SUFFICES ASSUME Edging(len), First \in Live
               PROVE  ~(Minus(blk[First].off, WritePos(len)) < len)
    BY DEF InTheWay
  <2>1. WritePos(len) \in Nat /\ WritePos(len) <= CacheSz
    BY <1>1, <1>2 DEF WritePos
  <2>2. Minus(blk[First].off, WritePos(len)) =
          IF blk[First].off >= WritePos(len) THEN blk[First].off - WritePos(len)
          ELSE blk[First].off - WritePos(len) + Wrap
    <3>1. blk[First].off < Wrap /\ WritePos(len) < Wrap /\ blk[First].off \in Nat
      BY <1>1, <1>3, <2>1
    <3> QED BY <3>1, <2>1, MinusLemma
  <2>3. blk[First].off < WritePos(len) \/ blk[First].off >= WritePos(len) + len
    BY <1>1, <1>2, <1>3 DEF Clear, CurrentLap, WritePos
  <2> QED BY <2>1, <2>2, <2>3, <1>1, <1>3
<1>7. First \in First..nb_total_block
  BY <1>2
<1>8. Removes(First, First, PreviousLap) \/ ~Rotates(len)
  BY <1>2, <1>4, <1>5 DEF Removes
<1>9. Removes(First, First, InTheWay(WritePos(len), len)) \/ ~Edging(len)
  BY <1>2, <1>4, <1>6 DEF Removes
<1> QED BY <1>7, <1>8, <1>9 DEF EdgeCache

(* remove_oldest_block, which may leave no block at all.                   *)
RemoveOldest ==
  /\ First < nb_total_block
  /\ blk' = [s \in (First + 1)..(nb_total_block - 1) |-> blk[s]]
  /\ nb_block' = nb_block - 1
  /\ edge' = TRUE
  /\ fault' = (nb_block = 1)
  /\ data_pos_wr' \in 0..CacheSz
  /\ ~fault' => data_pos_wr' = data_pos_wr
  /\ UNCHANGED nb_total_block

LEMMA RemoveStep ==
  ASSUME IInv, ~fault, RemoveOldest, out' \in OutBuff
  PROVE  IInv' /\ First' = First + 1 /\ \A s \in Live' : s \in Live /\ blk'[s] = blk[s]
<1>0. /\ First < nb_total_block /\ nb_total_block' = nb_total_block /\ nb_block' = nb_block - 1
      /\ blk' = [s \in (First + 1)..(nb_total_block - 1) |-> blk[s]]
      /\ edge' = TRUE /\ fault' \in BOOLEAN /\ (fault' <=> nb_block = 1)
      /\ data_pos_wr' \in 0..CacheSz /\ (~fault' => data_pos_wr' = data_pos_wr)
  BY DEF RemoveOldest
<1>1. /\ First \in Nat /\ nb_total_block \in Nat /\ nb_block \in Nat
      /\ nb_block = nb_total_block - First /\ nb_block <= NbBlkIdx
      /\ NbBlkIdx \in Nat /\ CacheSz \in Nat /\ data_pos_wr \in Nat
  BY LiveFacts, CacheAssumption DEF IInv, TypeOK, First, IndexBounded
<1>2. First' = First + 1 /\ Live' = (First + 1)..(nb_total_block - 1)
  BY <1>0, <1>1 DEF First, Live
<1>3. \A s \in Live' : s \in Live /\ s \in Nat /\ blk'[s] = blk[s]
  BY <1>0, <1>1, <1>2 DEF Live
<1>4. TypeOK'
  <2>1. blk' \in [Live' -> Entry]
    BY <1>0, <1>2, <1>3, LiveFacts DEF IInv
  <2> QED BY <2>1, <1>0, <1>1 DEF TypeOK
<1>5. FaultIsEmpty' /\ IndexBounded'
  BY <1>0, <1>1 DEF FaultIsEmpty, IndexBounded
<1>6. Latest'
  <2> SUFFICES ASSUME ~fault' PROVE Latest'
    BY <1>0 DEF Latest
  <2>1. nb_block' > 0 /\ nb_total_block # 0
    BY <1>0, <1>1
  <2>2. nb_total_block - 1 \in Live'
    BY <1>0, <1>1, <1>2, <2>1
  <2>3. data_pos_wr' = End(blk[nb_total_block - 1])
    BY <2>1, <1>0 DEF IInv, Latest
  <2> QED BY <2>1, <2>2, <2>3, <1>0, <1>3 DEF Latest, End
<1>7. (data_pos_wr <= CacheSz)' /\ WithinCache'
  <2>1. \A s \in Live' : End(blk'[s]) <= CacheSz
    BY <1>3 DEF IInv, WithinCache
  <2>2. WithinCache'
    BY <2>1 DEF WithinCache, End
  <2>3. data_pos_wr' <= CacheSz
    BY <1>0, <1>1
  <2> QED BY <2>2, <2>3
<1>8. LapOrder'
  <2>1. Live' # {} => data_pos_wr' = data_pos_wr
    BY <1>0, <1>1, <1>2
  <2>2. LapOrder
    BY DEF IInv
  <2> QED BY <2>1, <2>2, <1>3 DEF LapOrder, CurrentLap, End
<1>9. FromZero' /\ EdgeIsSet'
  BY <1>0, <1>1, <1>2 DEF FromZero, EdgeIsSet
<1>10. NoDuplicate'
  BY <1>3 DEF IInv, NoDuplicate
<1> QED BY <1>2, <1>3, <1>4, <1>5, <1>6, <1>7, <1>8, <1>9, <1>10 DEF IInv

-----------------------------------------------------------------------------
(* A new block, when edge_cache leaves a list to append it to: what Insert *)
(* does to the cache, whatever the caller is given.                        *)
InsertCache(k) ==
  LET len == BlkLen[k]
      pos == WritePos(len)
  IN
  /\ Matches(k) = {}
  /\ \E f \in First..nb_total_block :
       /\ EdgeCache(len, f)
       /\ ~(Edging(len) /\ f = nb_total_block)
       /\ LET g == AfterNewSlot(len, f) IN
          /\ blk' = [s \in g..nb_total_block |->
                       IF s = nb_total_block THEN [key |-> k, off |-> pos] ELSE blk[s]]
          /\ nb_block' = nb_total_block + 1 - g
  /\ nb_total_block' = nb_total_block + 1
  /\ data_pos_wr' = pos + len
  /\ edge' = (Edging(len) \/ (nb_total_block + 1) % NbBlkIdx = 0)
  /\ UNCHANGED fault

LEMMA InsertCacheStep ==
  ASSUME IInv, ~fault, NEW k \in Keys, InsertCache(k), out' \in OutBuff
  PROVE  IInv'
<1> DEFINE len == BlkLen[k]
           K == nb_total_block
           pos == WritePos(len)
<1>1. PICK f \in First..K :
        /\ EdgeCache(len, f)
        /\ ~(Edging(len) /\ f = K)
        /\ blk' = [s \in AfterNewSlot(len, f)..K |->
                     IF s = K THEN [key |-> k, off |-> pos] ELSE blk[s]]
        /\ nb_block' = K + 1 - AfterNewSlot(len, f)
  BY DEF InsertCache
<1> DEFINE g == AfterNewSlot(len, f)
<1>2. /\ K' = K + 1
      /\ data_pos_wr' = pos + len
      /\ edge' = (Edging(len) \/ (K + 1) % NbBlkIdx = 0)
      /\ fault' = fault
      /\ Matches(k) = {}
  BY DEF InsertCache
<1>3. /\ len \in 1..MaxLen /\ len \in Nat /\ len > 0
      /\ CacheSz \in Nat /\ NbBlkIdx \in Nat /\ NbBlkIdx >= 2
  BY CacheAssumption
<1>4. /\ data_pos_wr \in Nat /\ data_pos_wr <= CacheSz /\ TypeOK
      /\ nb_block \in Nat /\ nb_block <= NbBlkIdx /\ nb_block = K - First
      /\ edge \in BOOLEAN /\ fault \in BOOLEAN
  BY LiveFacts DEF IInv, TypeOK, IndexBounded, First
<1>5. First \in Nat /\ K \in Nat /\ f \in Nat /\ First <= f /\ f <= K
  BY <1>4, LiveFacts
<1>6. Edging(len) => f < K
  BY <1>1, <1>5
<1>7. /\ ~Rotates(len) =>
           \A s \in f..(K - 1) : CurrentLap(s) \/ blk[s].off >= data_pos_wr + len
      /\ Rotates(len) =>
           /\ f < K
           /\ \A s \in f..(K - 1) : CurrentLap(s) /\ blk[s].off >= len
      /\ ~Edging(len) => f = First /\ First = 0
  <2>1. EdgeCache(BlkLen[k], f) /\ (Edging(BlkLen[k]) => f < nb_total_block)
    BY <1>1, <1>6
  <2> QED BY <2>1, Survivors
<1>8. g \in Nat /\ f <= g /\ g <= K
  BY <1>3, <1>5, <1>6 DEF AfterNewSlot
<1>9. First' = g
  BY <1>1, <1>2, <1>5, <1>8 DEF First
<1>10. Live' = g..K
  BY <1>2, <1>9, <1>5, <1>8 DEF Live
<1>11. \A s \in g..(K - 1) : s \in Live /\ s \in f..(K - 1)
  BY <1>5, <1>8 DEF Live
<1>12. /\ \A s \in g..(K - 1) : blk'[s] = blk[s]
       /\ blk'[K].key = k /\ blk'[K].off = pos /\ End(blk'[K]) = pos + len
  BY <1>1, <1>5, <1>8 DEF End
<1>13. \A s \in Live' : s \in g..(K - 1) \/ s = K
  BY <1>10, <1>5, <1>8
<1>14. pos \in Nat /\ pos + len <= CacheSz
  <2>1. CASE Rotates(len)
    <3>1. f \in f..(K - 1) /\ f \in Live /\ blk[f].off >= len /\ pos = 0
      BY <2>1, <1>7, <1>5 DEF Live, WritePos
    <3>2. End(blk[f]) <= CacheSz /\ blk[f].off < End(blk[f])
          /\ End(blk[f]) \in Nat /\ blk[f].off \in Nat
      BY <3>1, <1>4, LiveFacts DEF IInv, WithinCache
    <3> QED BY <3>1, <3>2, <1>3
  <2>2. CASE ~Rotates(len)
    BY <2>2, <1>3, <1>4 DEF Rotates, WritePos
  <2> QED BY <2>1, <2>2
<1>15. TypeOK'
  <2>1. blk' \in [Live' -> Entry]
    <3>1. [key |-> k, off |-> pos] \in Entry
      BY <1>14 DEF Entry
    <3>2. \A s \in g..(K - 1) : blk[s] \in Entry
      BY <1>11, <1>4, LiveFacts
    <3> QED BY <3>1, <3>2, <1>1, <1>10, <1>13
  <2>3. nb_block' \in Nat /\ nb_block' <= K' /\ K' \in Nat
    <3>1. f = 0 => g = 0 \/ g = 1
      BY <1>5 DEF AfterNewSlot
    <3>2. nb_block' = K + 1 - g
      BY <1>1
    <3> QED BY <3>2, <1>2, <1>5, <1>8
  <2>4. data_pos_wr' \in Nat /\ edge' \in BOOLEAN /\ fault' \in BOOLEAN
    BY <1>2, <1>14, <1>3, <1>4
  <2> QED BY <2>1, <2>3, <2>4 DEF TypeOK
<1>16. FaultIsEmpty' /\ Latest'
  <2>1. nb_block' > 0 /\ K' # 0 /\ K' - 1 = K
    BY <1>1, <1>2, <1>5, <1>8
  <2>2. data_pos_wr' = End(blk'[K' - 1])
    BY <2>1, <1>2, <1>12
  <2> QED BY <2>1, <2>2, <1>2 DEF FaultIsEmpty, Latest, End
<1>17. (data_pos_wr <= CacheSz)' /\ WithinCache'
  <2>1. ASSUME NEW s \in Live'  PROVE End(blk'[s]) <= CacheSz
    <3>1. CASE s = K
      BY <3>1, <1>12, <1>14
    <3>2. CASE s \in g..(K - 1)
      BY <3>2, <1>11, <1>12 DEF IInv, WithinCache
    <3> QED BY <3>1, <3>2, <1>13
  <2> QED BY <2>1, <1>2, <1>14 DEF WithinCache, End
<1>18. LapOrder'
  <2> SUFFICES ASSUME NEW s \in Live', NEW t \in Live', s < t
               PROVE  /\ CurrentLap(s)' => CurrentLap(t)'
                      /\ (CurrentLap(s)' <=> CurrentLap(t)') => End(blk'[s]) <= blk'[t].off
    BY DEF LapOrder, End
  <2>1. s \in g..(K - 1) /\ s \in Live /\ s \in f..(K - 1) /\ blk'[s] = blk[s]
    BY <1>13, <1>11, <1>12, <1>10, <1>8, <1>5
  <2>2. blk[s].off \in Nat /\ blk[s].off < End(blk[s]) /\ End(blk[s]) \in Nat
    BY <2>1, <1>4, LiveFacts
  <2>3. CASE t = K
    <3>1. CurrentLap(t)' /\ blk'[t].off = pos
      BY <2>3, <1>12, <1>2, <1>14, <1>3 DEF CurrentLap
    <3>2. CASE Rotates(len)
      <4>1. blk[s].off >= len /\ pos = 0
        BY <3>2, <2>1, <1>7 DEF WritePos
      <4>2. ~CurrentLap(s)'
        BY <4>1, <2>1, <2>2, <1>2, <1>3 DEF CurrentLap
      <4> QED BY <4>2, <3>1
    <3>3. CASE ~Rotates(len)
      <4>1. pos = data_pos_wr
        BY <3>3 DEF WritePos
      <4>2. CASE CurrentLap(s)
        BY <4>1, <4>2, <3>1, <2>1, CurrentEnds
      <4>3. CASE blk[s].off >= data_pos_wr + len
        <5>1. ~CurrentLap(s)'
          BY <4>1, <4>3, <2>1, <2>2, <1>2, <1>3, <1>4 DEF CurrentLap
        <5> QED BY <5>1, <3>1
      <4> QED BY <4>2, <4>3, <3>3, <2>1, <1>7
    <3> QED BY <3>2, <3>3
  <2>4. CASE t # K
    <3>1. t \in g..(K - 1) /\ t \in Live /\ t \in f..(K - 1) /\ blk'[t] = blk[t]
      BY <2>4, <1>13, <1>11, <1>12
    <3>2. blk[t].off \in Nat
      BY <3>1, <1>4, LiveFacts
    <3>3. /\ CurrentLap(s) => CurrentLap(t)
          /\ (CurrentLap(s) <=> CurrentLap(t)) => End(blk[s]) <= blk[t].off
      BY <2>1, <3>1 DEF IInv, LapOrder
    <3>4. CASE Rotates(len)
      <4>1. pos = 0 /\ CurrentLap(s) /\ CurrentLap(t)
            /\ blk[s].off >= len /\ blk[t].off >= len
        BY <3>4, <3>1, <2>1, <1>7 DEF WritePos
      <4>2. ~CurrentLap(s)' /\ ~CurrentLap(t)'
        BY <4>1, <3>1, <3>2, <2>1, <2>2, <1>2, <1>3 DEF CurrentLap
      <4> QED BY <4>1, <4>2, <3>3, <3>1, <2>1
    <3>5. CASE ~Rotates(len)
      <4>1. pos = data_pos_wr
        BY <3>5 DEF WritePos
      <4>2. CurrentLap(s) \/ blk[s].off >= data_pos_wr + len
        BY <3>5, <2>1, <1>7
      <4>3. CurrentLap(t) \/ blk[t].off >= data_pos_wr + len
        BY <3>5, <3>1, <1>7
      <4>4. CurrentLap(s)' <=> CurrentLap(s)
        BY <4>1, <4>2, <2>1, <2>2, <1>2, <1>3, <1>4 DEF CurrentLap
      <4>5. CurrentLap(t)' <=> CurrentLap(t)
        BY <4>1, <4>3, <3>1, <3>2, <1>2, <1>3, <1>4 DEF CurrentLap
      <4> QED BY <4>4, <4>5, <3>3, <3>1, <2>1
    <3> QED BY <3>4, <3>5
  <2> QED BY <2>3, <2>4
<1>19. FromZero'
  <2> SUFFICES ASSUME g = 0
               PROVE  blk'[0].off = 0
    BY <1>9 DEF FromZero
  <2>1. f = 0 /\ First = 0
    BY <1>8, <1>5
  <2>2. CASE K = 0
    <3>1. pos = 0
      BY <2>2 DEF IInv, Latest, WritePos
    <3> QED BY <3>1, <2>2, <1>12
  <2>3. CASE K > 0
    <3>1. 0 \in g..(K - 1) /\ blk[0].off = 0 /\ blk'[0] = blk[0]
      BY <2>1, <2>3, <1>5, <1>12 DEF IInv, FromZero
    <3> QED BY <3>1
  <2> QED BY <2>2, <2>3, <1>5
<1>20. EdgeIsSet' /\ IndexBounded'
  <2>1. CASE Edging(len)
    <3>1. edge' /\ K' > 0
      <4>1. edge'
        BY <2>1, <1>2
      <4>2. K' > 0
        BY <1>2, <1>5
      <4> QED BY <4>1, <4>2
    <3>2. nb_block' <= NbBlkIdx
      BY <1>1, <1>3, <1>4, <1>5, <1>8, <2>1 DEF AfterNewSlot
    <3> QED BY <3>1, <3>2 DEF EdgeIsSet, IndexBounded
  <2>2. CASE ~Edging(len)
    <3>1. First = 0 /\ f = 0 /\ g = 0 /\ ~edge
      BY <2>2, <1>7 DEF AfterNewSlot, Edging
    <3>2. K < NbBlkIdx
      BY <3>1 DEF IInv, EdgeIsSet
    <3>3. NbBlkIdx % NbBlkIdx = 0
      BY CacheAssumption
    <3>4. edge' \/ K + 1 < NbBlkIdx
      <4>1. K + 1 < NbBlkIdx \/ (K + 1) % NbBlkIdx = 0
        BY <3>2, <3>3, <1>3, <1>5
      <4>2. (K + 1) % NbBlkIdx = 0 => edge'
        BY <1>2
      <4> QED BY <4>1, <4>2
    <3>5. nb_block' = K + 1 /\ nb_block' <= NbBlkIdx
      BY <3>1, <3>2, <1>1, <1>3, <1>5
    <3> QED BY <3>1, <3>4, <3>5, <1>2, <1>5, <1>9 DEF EdgeIsSet, IndexBounded
  <2> QED BY <2>1, <2>2
<1>21. NoDuplicate'
  <2> SUFFICES ASSUME NEW s \in Live', NEW t \in Live', blk'[s].key = blk'[t].key
               PROVE  s = t
    BY DEF NoDuplicate
  <2>1. \A r \in g..(K - 1) : blk'[r].key # k
    BY <1>2, <1>11, <1>12 DEF Matches
  <2>2. CASE s = K \/ t = K
    BY <2>1, <2>2, <1>12, <1>13
  <2>3. CASE s # K /\ t # K
    <3>1. s \in Live /\ t \in Live /\ blk'[s] = blk[s] /\ blk'[t] = blk[t]
      BY <2>3, <1>13, <1>11, <1>12
    <3> QED BY <3>1 DEF IInv, NoDuplicate
  <2> QED BY <2>2, <2>3
<1> QED BY <1>15, <1>16, <1>17, <1>18, <1>19, <1>20, <1>21 DEF IInv

LEMMA InsertStep ==
  ASSUME IInv, ~fault, NEW k \in Keys, Insert(k)
  PROVE  IInv'
<1>1. InsertCache(k)
  BY DEF Insert, InsertCache
<1>2. out' \in OutBuff
  <2>1. WritePos(BlkLen[k]) \in Nat
    BY DEF WritePos, IInv, TypeOK
  <2> QED BY <2>1 DEF Insert, OutBuff
<1> QED BY <1>1, <1>2, InsertCacheStep

-----------------------------------------------------------------------------
(* A new block, when edge_cache runs out of blocks.                        *)
LEMMA InsertFaultsStep ==
  ASSUME IInv, ~fault, NEW k \in Keys, InsertFaults(k)
  PROVE  IInv'
<1>1. /\ blk' = [s \in {} |-> NoOut] /\ nb_block' = 0 /\ fault'
      /\ nb_total_block' = nb_total_block /\ out' = out
      /\ data_pos_wr' \in {0, data_pos_wr} /\ edge' \in {TRUE, edge}
      /\ fault' \in BOOLEAN
  BY DEF InsertFaults
<1>2. /\ nb_total_block \in Nat /\ data_pos_wr \in Nat /\ data_pos_wr <= CacheSz
      /\ edge \in BOOLEAN /\ out \in OutBuff /\ CacheSz \in Nat /\ NbBlkIdx \in Nat
  BY CacheAssumption DEF IInv, TypeOK
<1>3. Live' = {} /\ First' = nb_total_block
  BY <1>1, <1>2 DEF Live, First
<1>4. TypeOK'
  <2>1. blk' \in [Live' -> Entry]
    BY <1>1, <1>3
  <2>2. edge' \in BOOLEAN
    BY <1>1, <1>2
  <2>3. data_pos_wr' \in Nat /\ nb_block' \in Nat /\ nb_total_block' \in Nat
        /\ nb_block' <= nb_total_block'
    BY <1>1, <1>2
  <2> QED BY <2>1, <2>2, <2>3, <1>1, <1>2 DEF TypeOK
<1>5. (data_pos_wr <= CacheSz)' /\ IndexBounded'
  BY <1>1, <1>2 DEF IndexBounded
<1>6. WithinCache' /\ LapOrder' /\ NoDuplicate'
  BY <1>3 DEF WithinCache, LapOrder, NoDuplicate
<1>7. Latest' /\ EdgeIsSet' /\ FaultIsEmpty'
  BY <1>1 DEF Latest, EdgeIsSet, FaultIsEmpty
<1>8. FromZero'
  BY <1>1, <1>2, <1>3 DEF FromZero
<1> QED BY <1>4, <1>5, <1>6, <1>7, <1>8 DEF IInv

(* An emptied cache.                                                       *)
LEMMA ResetStep ==
  ASSUME IInv, Reset
  PROVE  IInv'
<1>1. /\ blk' = [s \in {} |-> NoOut] /\ nb_block' = 0 /\ nb_total_block' = 0
      /\ data_pos_wr' = 0 /\ edge' = FALSE /\ fault' = fault /\ out' = out /\ ~fault
  BY DEF Reset
<1>2. /\ out \in OutBuff /\ fault \in BOOLEAN
      /\ CacheSz \in Nat /\ NbBlkIdx \in Nat /\ NbBlkIdx > 0
  BY CacheAssumption DEF IInv, TypeOK
<1>3. Live' = {} /\ First' = 0
  BY <1>1 DEF Live, First
<1>4. TypeOK'
  <2>1. blk' \in [Live' -> Entry]
    BY <1>1, <1>3
  <2>2. edge' \in BOOLEAN /\ fault' \in BOOLEAN /\ out' \in OutBuff
    BY <1>1, <1>2
  <2>3. data_pos_wr' \in Nat /\ nb_block' \in Nat /\ nb_total_block' \in Nat
        /\ nb_block' <= nb_total_block'
    BY <1>1
  <2> QED BY <2>1, <2>2, <2>3 DEF TypeOK
<1>5. WithinCache' /\ LapOrder' /\ NoDuplicate'
  BY <1>3 DEF WithinCache, LapOrder, NoDuplicate
<1>6. (data_pos_wr <= CacheSz)' /\ IndexBounded' /\ FromZero'
  BY <1>1, <1>2 DEF IndexBounded, FromZero
<1>7. Latest' /\ EdgeIsSet' /\ FaultIsEmpty'
  BY <1>1, <1>2, <1>3 DEF Latest, EdgeIsSet, FaultIsEmpty
<1> QED BY <1>4, <1>5, <1>6, <1>7 DEF IInv

(* Steps that change no more than the buffer handed out.                   *)
LEMMA OutStep ==
  ASSUME IInv, out' \in OutBuff,
         UNCHANGED <<blk, nb_block, nb_total_block, data_pos_wr, edge, fault>>
  PROVE  IInv'
<1>1. Live' = Live /\ First' = First
  BY DEF Live, First
<1>2. TypeOK'
  BY <1>1 DEF IInv, TypeOK
<1>3. LapOrder'
  BY <1>1 DEF IInv, LapOrder, CurrentLap, End
<1>4. WithinCache' /\ (data_pos_wr <= CacheSz)' /\ NoDuplicate'
  BY <1>1 DEF IInv, WithinCache, NoDuplicate, End
<1>5. Latest' /\ FromZero' /\ EdgeIsSet' /\ IndexBounded' /\ FaultIsEmpty'
  BY <1>1 DEF IInv, Latest, FromZero, EdgeIsSet, IndexBounded, FaultIsEmpty, End
<1> QED BY <1>2, <1>3, <1>4, <1>5 DEF IInv

(* A reload: the blocks from max_block on are forgotten and writing goes   *)
(* back to where they began.                                               *)
Cut(total) ==
  /\ ~fault
  /\ First < total /\ total <= nb_total_block
  /\ ~(nb_block = NbBlkIdx /\ nb_total_block = NbBlkIdx)
  /\ blk' = [s \in First..(total - 1) |-> blk[s]]
  /\ nb_block' = total - First
  /\ nb_total_block' = total
  /\ data_pos_wr' = End(blk[total - 1])
  /\ edge' = (nb_total_block > nb_block)
  /\ UNCHANGED <<fault, out>>

LEMMA CutStep ==
  ASSUME IInv, NEW total \in Nat, Cut(total)
  PROVE  IInv'
<1> DEFINE z == total - 1
<1>1. /\ ~fault
      /\ blk' = [s \in First..z |-> blk[s]]
      /\ nb_block' = total - First
      /\ nb_total_block' = total
      /\ data_pos_wr' = End(blk[z])
      /\ edge' = (nb_total_block > nb_block)
      /\ fault' = fault /\ out' = out
  BY DEF Cut
<1>2. /\ TypeOK /\ LapOrder /\ out \in OutBuff /\ fault \in BOOLEAN
      /\ data_pos_wr \in Nat /\ CacheSz \in Nat /\ NbBlkIdx \in Nat
      /\ nb_block \in Nat /\ nb_block <= NbBlkIdx
  BY CacheAssumption DEF IInv, TypeOK, IndexBounded
<1>3. /\ First \in Nat /\ nb_total_block \in Nat
      /\ First < total /\ total <= nb_total_block /\ nb_block = nb_total_block - First
  BY <1>2, LiveFacts DEF Cut, First
<1>4. First' = First /\ Live' = First..z
  <2>1. First' = First
    <3>1. First' = total - (total - First)
      BY <1>1 DEF First
    <3> QED BY <3>1, <1>3
  <2> QED BY <2>1, <1>1 DEF Live
<1>5. \A s \in Live' : s \in Live /\ s \in Nat /\ s <= z /\ blk'[s] = blk[s]
  BY <1>1, <1>3, <1>4 DEF Live
<1>6. z \in Live /\ z \in Live' /\ blk'[z] = blk[z]
  <2>1. z \in First..z
    BY <1>3
  <2> QED BY <2>1, <1>4, <1>5
<1>7. /\ blk[z].off \in Nat /\ End(blk[z]) \in Nat /\ blk[z].off < End(blk[z])
      /\ End(blk[z]) <= CacheSz
  BY <1>2, <1>6, LiveFacts DEF IInv, WithinCache
<1>8. TypeOK'
  <2>1. blk' \in [Live' -> Entry]
    BY <1>1, <1>2, <1>4, <1>5, LiveFacts
  <2>2. nb_block' \in Nat /\ nb_total_block' \in Nat /\ nb_block' <= nb_total_block'
    BY <1>1, <1>3
  <2>3. edge' \in BOOLEAN
    BY <1>1
  <2> QED BY <2>1, <2>2, <2>3, <1>1, <1>2, <1>7 DEF TypeOK
<1>9. FaultIsEmpty' /\ Latest'
  <2>1. nb_block' > 0 /\ nb_total_block' # 0 /\ nb_total_block' - 1 = z
    BY <1>1, <1>3
  <2>2. data_pos_wr' = End(blk'[z])
    BY <1>1, <1>6
  <2> QED BY <2>1, <2>2, <1>1 DEF FaultIsEmpty, Latest, End
<1>10. (data_pos_wr <= CacheSz)' /\ WithinCache'
  BY <1>1, <1>5, <1>7 DEF IInv, WithinCache, End
<1>11. LapOrder'
  <2> SUFFICES ASSUME NEW s \in Live', NEW t \in Live', s < t
               PROVE  /\ CurrentLap(s)' => CurrentLap(t)'
                      /\ (CurrentLap(s)' <=> CurrentLap(t)') => End(blk[s]) <= blk[t].off
    BY <1>5 DEF LapOrder, End
  <2>1. /\ s \in Live /\ t \in Live /\ s < z /\ t <= z
        /\ blk'[s] = blk[s] /\ blk'[t] = blk[t]
    BY <1>3, <1>5
  <2>2. /\ blk[s].off \in Nat /\ blk[s].off < End(blk[s]) /\ End(blk[s]) \in Nat
        /\ blk[t].off \in Nat /\ blk[t].off < End(blk[t]) /\ End(blk[t]) \in Nat
    BY <2>1, <1>2, LiveFacts
  <2>3. /\ CurrentLap(s) => CurrentLap(t)
        /\ (CurrentLap(s) <=> CurrentLap(t)) => End(blk[s]) <= blk[t].off
        /\ CurrentLap(s) => CurrentLap(z)
        /\ (CurrentLap(s) <=> CurrentLap(z)) => End(blk[s]) <= blk[z].off
    BY <2>1, <1>2, <1>6 DEF LapOrder
  <2>4. t # z => /\ CurrentLap(t) => CurrentLap(z)
                 /\ (CurrentLap(t) <=> CurrentLap(z)) => End(blk[t]) <= blk[z].off
    <3>1. t # z => t < z
      BY <2>1, <1>3, <1>5
    <3> QED BY <3>1, <2>1, <1>2, <1>6 DEF LapOrder
  <2>5. CASE CurrentLap(z)
    <3>1. End(blk[z]) <= data_pos_wr
      BY <2>5, <1>6, CurrentEnds
    <3>2. CurrentLap(s)' <=> CurrentLap(s)
      BY <3>1, <2>1, <2>2, <2>3, <2>5, <1>1, <1>2, <1>7, SMTT(30) DEF CurrentLap
    <3>3. CurrentLap(t)' <=> CurrentLap(t)
      BY <3>1, <2>1, <2>2, <2>4, <2>5, <1>1, <1>2, <1>7, SMTT(30) DEF CurrentLap
    <3> QED BY <3>2, <3>3, <2>3
  <2>6. CASE ~CurrentLap(z)
    <3>1. ~CurrentLap(s) /\ ~CurrentLap(t)
      BY <2>3, <2>4, <2>6
    <3>2. CurrentLap(s)' /\ CurrentLap(t)'
      BY <3>1, <2>1, <2>2, <2>3, <2>4, <2>6, <1>1, <1>7 DEF CurrentLap
    <3> QED BY <3>1, <3>2, <2>3
  <2> QED BY <2>5, <2>6
<1>12. FromZero'
  BY <1>1, <1>3, <1>4, <1>5 DEF IInv, FromZero
<1>13. IndexBounded'
  BY <1>1, <1>2, <1>3 DEF IndexBounded
<1>14. EdgeIsSet'
  <2>1. CASE nb_total_block > nb_block
    <3>1. edge'
      BY <2>1, <1>1
    <3>2. nb_total_block' > 0
      BY <1>1, <1>3
    <3> QED BY <3>1, <3>2 DEF EdgeIsSet
  <2>2. CASE ~(nb_total_block > nb_block)
    <3>1. First = 0 /\ nb_block = nb_total_block
      BY <2>2, <1>2, <1>3
    <3>2. nb_total_block # NbBlkIdx
      BY <3>1 DEF Cut
    <3>3. ~edge' /\ First' = 0 /\ nb_total_block' < NbBlkIdx
      BY <3>1, <3>2, <2>2, <1>1, <1>2, <1>3, <1>4
    <3> QED BY <3>3 DEF EdgeIsSet
  <2> QED BY <2>1, <2>2
<1>15. NoDuplicate'
  BY <1>5 DEF IInv, NoDuplicate
<1> QED BY <1>8, <1>9, <1>10, <1>11, <1>12, <1>13, <1>14, <1>15 DEF IInv

LEMMA LoadCuts ==
  ASSUME IInv, NEW m \in Nat, Load(m),
         NEW total, total = IF m = 0 THEN nb_total_block ELSE m
  PROVE  Cut(total) /\ total \in Nat
<1>1. First \in Nat /\ nb_total_block \in Nat /\ nb_block \in Nat
      /\ First <= nb_total_block /\ First = nb_total_block - nb_block
  BY LiveFacts DEF IInv, TypeOK, First
<1>2. ~fault /\ LoadIsSound(m)
  BY DEF Load
<1>3. First < total /\ total <= nb_total_block /\ total \in Nat
  BY <1>1, <1>2 DEF LoadIsSound
<1>4. ~(nb_block = NbBlkIdx /\ nb_total_block = NbBlkIdx)
  BY <1>2 DEF LoadIsSound
<1> QED BY <1>2, <1>3, <1>4 DEF Cut, Load

LEMMA LoadStep ==
  ASSUME IInv, NEW m \in Nat, Load(m)
  PROVE  IInv'
<1>1. PICK total : total = IF m = 0 THEN nb_total_block ELSE m
  OBVIOUS
<1> QED BY <1>1, LoadCuts, CutStep

-----------------------------------------------------------------------------
(* A new cache.                                                            *)
LEMMA Initially == Init => IInv
<1> SUFFICES ASSUME Init PROVE IInv
  OBVIOUS
<1>1. /\ blk = [s \in {} |-> NoOut] /\ nb_block = 0 /\ nb_total_block = 0
      /\ data_pos_wr = 0 /\ edge = FALSE /\ fault = FALSE /\ out = NoOut
  BY DEF Init
<1>2. Live = {} /\ First = 0
  BY <1>1 DEF Live, First
<1>3. CacheSz \in Nat /\ NbBlkIdx \in Nat /\ NbBlkIdx > 0
  BY CacheAssumption
<1>4. TypeOK
  <2>1. blk \in [Live -> Entry]
    BY <1>1, <1>2
  <2>2. out \in OutBuff
    BY <1>1 DEF OutBuff, NoOut
  <2>3. data_pos_wr \in Nat /\ nb_block \in Nat /\ nb_total_block \in Nat
        /\ nb_block <= nb_total_block
    BY <1>1
  <2> QED BY <2>1, <2>2, <2>3, <1>1 DEF TypeOK
<1>5. WithinCache /\ LapOrder /\ NoDuplicate
  BY <1>2 DEF WithinCache, LapOrder, NoDuplicate
<1>6. data_pos_wr <= CacheSz /\ IndexBounded /\ FromZero
  BY <1>1, <1>3 DEF IndexBounded, FromZero
<1>7. Latest /\ EdgeIsSet /\ FaultIsEmpty
  BY <1>1, <1>2, <1>3 DEF Latest, EdgeIsSet, FaultIsEmpty
<1> QED BY <1>4, <1>5, <1>6, <1>7 DEF IInv

(* A reference handed out points at a block of the list.                   *)
LEMMA HitStep ==
  ASSUME IInv, NEW k \in Keys, Hit(k)
  PROVE  IInv'
<1>1. PICK s \in Matches(k) :
        /\ out' = [compressed |-> TRUE, dict_offset |-> blk[s].off, key |-> k]
        /\ UNCHANGED <<blk, nb_block, nb_total_block, data_pos_wr, edge, fault>>
  BY DEF Hit
<1>2. blk[s].off \in Nat
  BY LiveFacts DEF Matches, IInv
<1>3. out' \in OutBuff
  BY <1>1, <1>2 DEF OutBuff
<1> QED BY <1>1, <1>3, OutStep

(* The body shared by rabin_compress_buffer and rabin_flush.               *)
LEMMA StoreStep ==
  ASSUME IInv, ~fault, NEW k \in Keys, Store(k)
  PROVE  IInv'
  BY HitStep, InsertStep, InsertFaultsStep DEF Store

(* Every step of the compressor keeps the invariant.                       *)
LEMMA Step == IInv /\ [Next]_vars => IInv'
<1> SUFFICES ASSUME IInv, [Next]_vars PROVE IInv'
  OBVIOUS
<1>1. ASSUME NEW k \in Keys, CompressBlock(k)  PROVE IInv'
  BY <1>1, StoreStep DEF CompressBlock
<1>2. ASSUME NEW k \in Keys, Flush(k)  PROVE IInv'
  <2>1. CASE FlushSmall(k)
    <3>1. out' \in OutBuff
      BY <2>1 DEF FlushSmall, OutBuff
    <3> QED BY <2>1, <3>1, OutStep DEF FlushSmall
  <2>2. CASE ~fault /\ Store(k)
    BY <2>2, StoreStep
  <2> QED BY <1>2, <2>1, <2>2 DEF Flush
<1>3. CASE Reset
  BY <1>3, ResetStep
<1>4. ASSUME NEW m \in 0..MaxTotal, Load(m)  PROVE IInv'
  BY <1>4, LoadStep, CacheAssumption
<1>5. CASE UNCHANGED vars
  BY <1>5, OutStep DEF vars, IInv, TypeOK
<1> QED BY <1>1, <1>2, <1>3, <1>4, <1>5 DEF Next

(* The invariant of the compressor's cache, for every instance.            *)
THEOREM Invariance == Spec => []IInv
  BY Initially, Step, PTL DEF Spec

(* Every variable keeps its type: in particular nb_block never exceeds     *)
(* nb_total_block and the list has an entry for each of its numbers.       *)
THEOREM TypeCorrect == Spec => []TypeOK
<1>1. IInv => TypeOK
  BY DEF IInv
<1> QED BY <1>1, Invariance, PTL

(* No block that a reference can be made to is overwritten, wholly or in   *)
(* part, by the bytes of another, and none runs past the data area.        *)
THEOREM DictionarySafe == Spec => [](LiveDisjoint /\ WithinCache)
<1>1. IInv => LiveDisjoint /\ WithinCache
  BY Disjoint DEF IInv
<1> QED BY <1>1, Invariance, PTL

(* The index never holds more blocks than slots.                           *)
THEOREM IndexSafe == Spec => []IndexBounded
<1>1. IInv => IndexBounded
  BY DEF IInv
<1> QED BY <1>1, Invariance, PTL

-----------------------------------------------------------------------------
(* Where edge_cache can run out of blocks.                                 *)
LEMMA FaultIsNear ==
  ASSUME IInv, ~fault, NEW k \in Keys, InsertFaults(k)
  PROVE  /\ Rotates(BlkLen[k])
         /\ nb_block > 0 => blk[nb_total_block - 1].off < BlkLen[k]
         /\ nb_block = 0 => nb_total_block = 0 /\ data_pos_wr = 0
<1> DEFINE len == BlkLen[k]
           K == nb_total_block
           z == K - 1
<1>1. /\ len \in 1..MaxLen /\ len \in Nat /\ MaxLen \in Nat /\ CacheSz \in Nat
      /\ Wrap \in Nat /\ Wrap > CacheSz + MaxLen
  BY CacheAssumption
<1>2. PICK f1 \in First..K :
        /\ IF Rotates(len) THEN Removes(First, f1, PreviousLap) ELSE f1 = First
        /\ IF Edging(len) THEN Removes(f1, K, InTheWay(WritePos(len), len)) ELSE K = f1
  BY DEF InsertFaults, EdgeCache
<1>3. Edging(len)
  BY DEF InsertFaults
<1>4. /\ TypeOK /\ First \in Nat /\ K \in Nat /\ f1 \in Nat
      /\ data_pos_wr \in Nat /\ data_pos_wr <= CacheSz
      /\ nb_block \in Nat /\ nb_block = K - First
  BY LiveFacts DEF IInv, TypeOK, First
<1>5. CASE nb_block = 0
  <2>1. K = 0 /\ data_pos_wr = 0
    BY <1>4, <1>5 DEF IInv, Latest
  <2>2. ~edge
    BY <2>1 DEF IInv, EdgeIsSet
  <2> QED BY <2>1, <2>2, <1>3, <1>5 DEF Edging
<1>6. CASE nb_block > 0
  <2>1. z \in Live /\ z \in First..(K - 1) /\ K # 0
    BY <1>4, <1>6 DEF Live
  <2>2. /\ blk[z].off \in Nat /\ blk[z].key \in Keys
        /\ BlkLen[blk[z].key] \in Nat /\ BlkLen[blk[z].key] > 0
        /\ End(blk[z]) = blk[z].off + BlkLen[blk[z].key]
        /\ End(blk[z]) <= CacheSz /\ End(blk[z]) = data_pos_wr
    BY <2>1, <1>1, <1>4, LiveFacts DEF IInv, WithinCache, Latest
  <2>3. Rotates(len)
    <3> SUFFICES ASSUME ~Rotates(len) PROVE FALSE
      OBVIOUS
    <3>1. z \in InTheWay(data_pos_wr, len)
      BY <1>2, <1>3, <2>1 DEF Removes, WritePos
    <3>2. Minus(blk[z].off, data_pos_wr) < len
      BY <3>1 DEF InTheWay
    <3>3. Minus(blk[z].off, data_pos_wr) = blk[z].off - data_pos_wr + Wrap
      <4>1. /\ blk[z].off < Wrap /\ data_pos_wr < Wrap
            /\ ~(blk[z].off >= data_pos_wr)
        BY <2>2, <1>1, <1>4
      <4> QED BY <4>1, <2>2, <1>4, MinusLemma
    <3> QED BY <3>2, <3>3, <2>2, <1>1, <1>4
  <2>4. blk[z].off < len
    <3>1. z \notin PreviousLap
      BY <2>2, <1>4 DEF PreviousLap
    <3>2. f1 <= z
      BY <3>1, <2>1, <2>3, <1>2, <1>4 DEF Removes
    <3>3. z \in InTheWay(0, len)
      BY <3>2, <2>3, <1>2, <1>3, <1>4 DEF Removes, WritePos
    <3>4. Minus(blk[z].off, 0) < len
      BY <3>3 DEF InTheWay
    <3> QED BY <3>4, <2>2, <1>1, <1>4, MinusLemma
  <2> QED BY <2>3, <2>4, <1>6
<1> QED BY <1>4, <1>5, <1>6

(* Only InsertFaults kills the process.                                    *)
LEMMA FaultStep ==
  ASSUME IInv, Next, ~fault, fault'
  PROVE  \E k \in Keys : InsertFaults(k)
<1>1. ASSUME NEW k \in Keys, Store(k)  PROVE InsertFaults(k)
  BY <1>1 DEF Store, Hit, Insert
<1> QED BY <1>1 DEF Next, CompressBlock, Flush, FlushSmall, Reset, Load

(* edge_cache empties the list only as FaultIsTight says.                  *)
THEOREM FaultsAreTight == Spec => FaultIsTight
<1>1. IInv /\ [Next]_vars =>
        [fault' /\ ~fault =>
           LET Causes == {k \in Keys : InsertFaults(k)} IN
           /\ Causes # {}
           /\ \A k \in Causes :
                /\ Rotates(BlkLen[k])
                /\ nb_block > 0 => blk[nb_total_block - 1].off < BlkLen[k]]_vars
  <2> SUFFICES ASSUME IInv, Next, fault', ~fault
               PROVE  /\ \E k \in Keys : InsertFaults(k)
                      /\ \A k \in Keys : InsertFaults(k) =>
                           /\ Rotates(BlkLen[k])
                           /\ nb_block > 0 => blk[nb_total_block - 1].off < BlkLen[k]
    OBVIOUS
  <2> QED BY FaultStep, FaultIsNear
<1> QED BY <1>1, Invariance, PTL DEF Spec, FaultIsTight

(* With a data area of at least 3 * MaxLen - 1 bytes the process never     *)
(* reads through a null blk_idx_head.                                      *)
THEOREM NeverFaults == RoomForThree => (Spec => []NoFault)
<1> SUFFICES ASSUME RoomForThree PROVE Spec => []NoFault
  OBVIOUS
<1>1. Init => NoFault
  BY DEF Init, NoFault
<1>2. ASSUME IInv, ~fault, NEW k \in Keys, InsertFaults(k)
      PROVE  FALSE
  <2>1. /\ BlkLen[k] \in 1..MaxLen /\ MaxLen \in Nat /\ CacheSz \in Nat
        /\ CacheSz >= 3 * MaxLen - 1
    BY CacheAssumption DEF RoomForThree
  <2>2. data_pos_wr + BlkLen[k] > CacheSz /\ data_pos_wr \in Nat /\ nb_block \in Nat
    BY <1>2, FaultIsNear DEF Rotates, IInv, TypeOK
  <2>3. CASE nb_block = 0
    BY <2>1, <2>2, <2>3, <1>2, FaultIsNear
  <2>4. CASE nb_block > 0
    <3> DEFINE z == nb_total_block - 1
    <3>1. z \in Live /\ nb_total_block # 0
      BY <2>4, LiveFacts, <1>2 DEF IInv, Live, First, TypeOK
    <3>2. /\ blk[z].off \in Nat /\ BlkLen[blk[z].key] \in 1..MaxLen
          /\ data_pos_wr = blk[z].off + BlkLen[blk[z].key]
      BY <3>1, <1>2, LiveFacts DEF IInv, Latest
    <3>3. blk[z].off < BlkLen[k]
      BY <2>4, <1>2, FaultIsNear
    <3> QED BY <3>2, <3>3, <2>1, <2>2
  <2> QED BY <2>2, <2>3, <2>4
<1>3. IInv /\ NoFault /\ [Next]_vars => NoFault'
  BY <1>2, FaultStep DEF NoFault, vars
<1> QED BY <1>1, <1>3, Invariance, PTL DEF Spec
-----------------------------------------------------------------------------
(* OutBuffers, for every set of keys, size of the data area and size of    *)
(* the fake cache that the assumptions allow.                              *)
OutCell == {NoByte} \cup (Keys \X Nat)
CBuff == [key : Keys, compressed : BOOLEAN, pos : Nat, fpos : Nat,
          dangles : BOOLEAN, own : BOOLEAN]

(* A buffer of the list, and its bytes among the first n.                  *)
Fits(b, bytes, n) ==
  b.compressed \/ b.own \/
    (~b.dangles /\ b.fpos + BlkLen[b.key] <= n /\ HasBytes(bytes, b.fpos, b.key))

AllFit == fresh <= room => \A i \in 1..Len(outs) : Fits(outs[i], fake, fresh)

MemoryOK ==
  /\ area \in Seq(OutCell) /\ Len(area) = CacheSz
  /\ fake \in Seq(OutCell) /\ Len(fake) >= FakeSz

ListOK == outs \in Seq(CBuff) /\ tail_null \in BOOLEAN

CallOK ==
  /\ fake_pos \in Nat /\ fresh \in Nat /\ room \in Nat
  /\ fake_pos <= Len(fake)
  /\ calling \in {"no", "compress", "returned", "dead"}
  /\ calling = "no" => outs = <<>> /\ fake_pos = 0 /\ fresh = 0
  /\ calling = "compress" => fake_pos = fresh /\ room <= Len(fake)
  /\ calling = "returned" => fake_pos = 0
  /\ calling \in {"no", "returned"} => ~tail_null

(* The inductive invariant.                                                *)
OutInv == IInv /\ ~fault /\ MemoryOK /\ ListOK /\ CallOK /\ AllFit

-----------------------------------------------------------------------------
(* A copy keeps the length of what it is copied into, ...                  *)
LEMMA PutLemma ==
  ASSUME NEW bytes \in Seq(OutCell), NEW p \in Nat, NEW k \in Keys
  PROVE  /\ Put(bytes, p, k) \in Seq(OutCell)
         /\ Len(Put(bytes, p, k)) = Len(bytes)
         /\ \A q \in 1..Len(bytes) :
              Put(bytes, p, k)[q] = IF q - p \in 1..BlkLen[k] THEN Byte(k, q - p) ELSE bytes[q]
<1>1. /\ Len(bytes) \in Nat /\ DOMAIN bytes = 1..Len(bytes)
      /\ \A q \in 1..Len(bytes) : bytes[q] \in OutCell
  OBVIOUS
<1>2. BlkLen[k] \in Nat
  BY CacheAssumption
<1>3. \A q \in 1..Len(bytes) : q - p \in 1..BlkLen[k] => Byte(k, q - p) \in OutCell
  BY <1>2 DEF Byte, OutCell
<1>4. Put(bytes, p, k) \in [1..Len(bytes) -> OutCell]
  BY <1>1, <1>3 DEF Put
<1>5. /\ Put(bytes, p, k) \in Seq(OutCell) /\ Len(Put(bytes, p, k)) = Len(bytes)
  BY <1>1, <1>4
<1> QED BY <1>1, <1>5 DEF Put

(* ... leaves what it does not meet as it was, and is itself found there.  *)
LEMMA PutHolds ==
  ASSUME NEW bytes \in Seq(OutCell), NEW p \in Nat, NEW k \in Keys,
         p + BlkLen[k] <= Len(bytes)
  PROVE  /\ HasBytes(Put(bytes, p, k), p, k)
         /\ \A q \in Nat, l \in Keys :
              (q + BlkLen[l] <= p \/ p + BlkLen[k] <= q) /\ HasBytes(bytes, q, l)
                => HasBytes(Put(bytes, p, k), q, l)
<1>1. /\ Len(bytes) \in Nat /\ DOMAIN bytes = 1..Len(bytes)
      /\ \A l \in Keys : BlkLen[l] \in Nat
  BY CacheAssumption
<1>2. /\ DOMAIN Put(bytes, p, k) = 1..Len(bytes)
      /\ \A q \in 1..Len(bytes) :
           Put(bytes, p, k)[q] = IF q - p \in 1..BlkLen[k] THEN Byte(k, q - p) ELSE bytes[q]
  BY <1>1 DEF Put
<1>3. HasBytes(Put(bytes, p, k), p, k)
  <2> SUFFICES ASSUME NEW i \in 1..BlkLen[k]
               PROVE  p + i \in 1..Len(bytes) /\ Put(bytes, p, k)[p + i] = Byte(k, i)
    BY <1>2 DEF HasBytes
  <2>1. p + i \in 1..Len(bytes) /\ (p + i) - p = i
    BY <1>1
  <2> QED BY <2>1, <1>2
<1>4. ASSUME NEW q \in Nat, NEW l \in Keys,
             q + BlkLen[l] <= p \/ p + BlkLen[k] <= q, HasBytes(bytes, q, l)
      PROVE  HasBytes(Put(bytes, p, k), q, l)
  <2> SUFFICES ASSUME NEW i \in 1..BlkLen[l]
               PROVE  q + i \in 1..Len(bytes) /\ Put(bytes, p, k)[q + i] = Byte(l, i)
    BY <1>2 DEF HasBytes
  <2>1. q + i \in 1..Len(bytes) /\ bytes[q + i] = Byte(l, i)
    BY <1>1, <1>4 DEF HasBytes
  <2>2. ~((q + i) - p \in 1..BlkLen[k])
    BY <1>1, <1>4
  <2> QED BY <2>1, <2>2, <1>2
<1> QED BY <1>3, <1>4

(* Copying to the end of a longer buffer and within one.                   *)
LEMMA UnwrittenLemma ==
  ASSUME NEW n \in Nat
  PROVE  Unwritten(n) \in Seq(OutCell) /\ Len(Unwritten(n)) = n
<1>1. Unwritten(n) \in [1..n -> OutCell]
  BY DEF Unwritten, OutCell
<1> QED BY <1>1 DEF Unwritten

-----------------------------------------------------------------------------
(* write_block_to_cache, in either build.                                  *)
LEMMA Wrote ==
  ASSUME OutInv, calling \in {"no", "compress"},
         NEW k \in Keys, Hit(k) \/ Insert(k), WriteBlock(k),
         NEW buf, buf = Buffer(k)
  PROVE  /\ IInv' /\ ~fault'
         /\ out'.compressed \in BOOLEAN /\ out'.dict_offset \in Nat
         /\ area' \in Seq(OutCell) /\ Len(area') = CacheSz
         /\ fake' \in Seq(OutCell) /\ fresh' \in Nat /\ fresh <= fresh'
         /\ fake_pos = fresh
         /\ Len(fake') = IF Grows(k) THEN fresh' ELSE Len(fake)
         /\ Grows(k) => fresh' > Len(fake)
         /\ fresh' <= Len(fake')
         /\ ~Grows(k) =>
              /\ \A b \in CBuff : Fits(b, fake, fresh) => Fits(b, fake', fresh')
              /\ Fits(buf, fake', fresh')
<1>1. /\ IInv /\ ~fault
      /\ area \in Seq(OutCell) /\ Len(area) = CacheSz
      /\ fake \in Seq(OutCell) /\ Len(fake) >= FakeSz /\ Len(fake) \in Nat
      /\ fake_pos \in Nat /\ fresh \in Nat /\ fake_pos = fresh /\ fake_pos <= Len(fake)
  BY DEF OutInv, MemoryOK, CallOK
<1>2. /\ BlkLen[k] \in Nat
      /\ \A l \in Keys : BlkLen[l] \in Nat
  BY CacheAssumption
<1>3. IInv' /\ ~fault'
  BY <1>1, StoreStep DEF Store, Hit, Insert
<1>4. out'.compressed \in BOOLEAN /\ out'.dict_offset \in Nat
  BY <1>3 DEF IInv, TypeOK, OutBuff
<1>5. CASE out'.compressed
  <2>1. area' = area /\ fake' = fake /\ fresh' = fresh /\ ~Grows(k)
    BY <1>5 DEF WriteBlock, Grows
  <2>2. \A b \in CBuff : Fits(b, fake, fresh) => Fits(b, fake', fresh')
    BY <2>1 DEF Fits, HasBytes
  <2>3. Fits(buf, fake', fresh')
    BY <1>5 DEF Fits, Buffer
  <2> QED BY <1>1, <1>3, <1>4, <2>1, <2>2, <2>3
<1>6. CASE ~out'.compressed
  <2> DEFINE more == FakeEnd(k) - fake_cache_sz
             base == IF Grows(k) THEN fake \o Unwritten(more) ELSE fake
  <2>1. /\ area' = Put(area, out'.dict_offset, k)
        /\ fake' = Put(base, fake_pos, k)
        /\ fresh' = fresh + BlkLen[k]
    BY <1>6 DEF WriteBlock
  <2>2. area' \in Seq(OutCell) /\ Len(area') = CacheSz
    BY <1>1, <1>4, <2>1, PutLemma
  <2>3. FakeEnd(k) = fresh' /\ fresh' \in Nat /\ fresh <= fresh'
        /\ (Grows(k) <=> fresh' > Len(fake))
    BY <1>1, <1>2, <1>6, <2>1 DEF FakeEnd, Grows, fake_cache_sz
  <2>4. base \in Seq(OutCell) /\ Len(base) = IF Grows(k) THEN fresh' ELSE Len(fake)
    <3>1. CASE Grows(k)
      <4>1. more \in Nat /\ Len(fake) + more = fresh'
        BY <1>1, <2>3, <3>1 DEF fake_cache_sz
      <4>2. Unwritten(more) \in Seq(OutCell) /\ Len(Unwritten(more)) = more
        BY <4>1, UnwrittenLemma
      <4> HIDE DEF more
      <4> QED BY <1>1, <3>1, <4>1, <4>2
    <3>2. CASE ~Grows(k)
      BY <1>1, <3>2
    <3> QED BY <3>1, <3>2
  <2> HIDE DEF base, more
  <2>5. fake' \in Seq(OutCell) /\ Len(fake') = Len(base)
    BY <1>1, <2>1, <2>4, PutLemma
  <2>6. fresh' <= Len(fake')
    BY <1>1, <2>3, <2>4, <2>5
  <2>7. ASSUME ~Grows(k)
        PROVE  /\ \A b \in CBuff : Fits(b, fake, fresh) => Fits(b, fake', fresh')
               /\ Fits(buf, fake', fresh')
    <3>1. base = fake /\ fake_pos + BlkLen[k] <= Len(fake)
      BY <1>1, <1>2, <2>1, <2>3, <2>7 DEF base
    <3>2. /\ HasBytes(fake', fake_pos, k)
          /\ \A q \in Nat, l \in Keys :
               q + BlkLen[l] <= fake_pos /\ HasBytes(fake, q, l) => HasBytes(fake', q, l)
      BY <1>1, <2>1, <3>1, PutHolds
    <3>3. ASSUME NEW b \in CBuff, Fits(b, fake, fresh)
          PROVE  Fits(b, fake', fresh')
      <4>1. b.fpos \in Nat /\ b.key \in Keys /\ BlkLen[b.key] \in Nat
        BY <1>2 DEF CBuff
      <4>2. CASE b.compressed \/ b.own
        BY <4>2 DEF Fits
      <4>3. CASE ~(b.compressed \/ b.own)
        <5>1. ~b.dangles /\ b.fpos + BlkLen[b.key] <= fresh /\ HasBytes(fake, b.fpos, b.key)
          BY <3>3, <4>3 DEF Fits
        <5>2. HasBytes(fake', b.fpos, b.key)
          BY <5>1, <4>1, <3>2, <1>1
        <5>3. b.fpos + BlkLen[b.key] <= fresh'
          BY <5>1, <4>1, <1>1, <2>3
        <5> QED BY <5>1, <5>2, <5>3 DEF Fits, HasBytes
      <4> QED BY <4>2, <4>3
    <3>4. Fits(buf, fake', fresh')
      <4>1. /\ buf.key = k /\ ~buf.dangles
            /\ buf.fpos = fake_pos
        BY <1>6 DEF Buffer
      <4>2. /\ HasBytes(fake', buf.fpos, buf.key)
            /\ buf.fpos + BlkLen[buf.key] <= fresh'
        BY <4>1, <3>2, <1>1, <1>2, <2>1
      <4> QED BY <4>1, <4>2 DEF Fits, HasBytes
    <3> QED BY <3>3, <3>4
  <2> QED BY <1>1, <1>3, <1>4, <2>2, <2>3, <2>4, <2>5, <2>6, <2>7
<1> QED BY <1>4, <1>5, <1>6

(* What insert_block_out makes of a list.                                  *)
LEMMA Inserted ==
  ASSUME NEW list \in Seq(CBuff), NEW k \in Keys, InsertBlockOut(list, k),
         NEW buf \in CBuff, buf = Buffer(k), tail_null \in BOOLEAN
  PROVE  /\ outs' \in Seq(CBuff) /\ tail_null' \in BOOLEAN
         /\ list = <<>> /\ ~tail_null => ~tail_null'
         /\ \A i \in 1..Len(outs') : outs'[i] = buf \/ \E j \in 1..Len(list) : outs'[i] = list[j]
<1>1. CASE outs' = Append(list, buf) /\ UNCHANGED <<tail_null, failed>>
  <2>1. outs' \in Seq(CBuff) /\ Len(outs') = Len(list) + 1 /\ Len(list) \in Nat
    BY <1>1
  <2>2. ASSUME NEW i \in 1..Len(outs')
        PROVE  outs'[i] = buf \/ \E j \in 1..Len(list) : outs'[i] = list[j]
    <3>1. CASE i = Len(list) + 1
      BY <1>1, <3>1
    <3>2. CASE i \in 1..Len(list)
      BY <1>1, <3>2
    <3> QED BY <2>1, <3>1, <3>2
  <2> QED BY <1>1, <2>1, <2>2
<1>2. CASE outs' = list /\ tail_null' = (list # <<>>) /\ failed' = TRUE
  BY <1>2
<1> QED BY <1>1, <1>2 DEF InsertBlockOut

(* realloc moves the list's data, or not.                                  *)
LEMMA MovedLemma ==
  ASSUME outs \in Seq(CBuff), NEW k \in Keys, NEW list \in Moved(k)
  PROVE  list \in Seq(CBuff) /\ (~Grows(k) => list = outs)
<1>1. CASE list = outs
  BY <1>1
<1>2. CASE Grows(k) /\ list = [i \in DOMAIN outs |-> [outs[i] EXCEPT !.dangles = TRUE]]
  <2>1. Len(outs) \in Nat /\ DOMAIN outs = 1..Len(outs)
    OBVIOUS
  <2>2. ASSUME NEW i \in 1..Len(outs)
        PROVE  [outs[i] EXCEPT !.dangles = TRUE] \in CBuff
    <3>1. outs[i] \in CBuff
      OBVIOUS
    <3> QED BY <3>1 DEF CBuff
  <2>3. list \in [1..Len(outs) -> CBuff]
    BY <1>2, <2>1, <2>2
  <2>4. list \in Seq(CBuff)
    BY <2>1, <2>3
  <2> QED BY <1>2, <2>4
<1> QED BY <1>1, <1>2 DEF Moved

-----------------------------------------------------------------------------
LEMMA OutInitially == OutInit => OutInv
<1> SUFFICES ASSUME OutInit PROVE OutInv
  OBVIOUS
<1>1. IInv /\ ~fault
  BY Initially DEF OutInit, Init
<1>2. CacheSz \in Nat /\ FakeSz \in Nat
  BY CacheAssumption, OutAssumption
<1>3. /\ area \in Seq(OutCell) /\ Len(area) = CacheSz
      /\ fake \in Seq(OutCell) /\ Len(fake) = FakeSz
  BY <1>2, UnwrittenLemma DEF OutInit
<1>4. AllFit /\ ListOK
  <2>1. outs = <<>> /\ Len(outs) = 0 /\ tail_null = FALSE
    BY DEF OutInit
  <2>2. AllFit
    BY <2>1 DEF AllFit
  <2>3. outs \in Seq(CBuff)
    BY <2>1
  <2> QED BY <2>1, <2>2, <2>3 DEF ListOK
<1>5. CallOK
  BY <1>2, <1>3 DEF OutInit, CallOK
<1> QED BY <1>1, <1>2, <1>3, <1>4, <1>5 DEF OutInv, MemoryOK

(* What a step that leaves the cache alone keeps.                          *)
LEMMA SameCache ==
  ASSUME IInv, UNCHANGED vars
  PROVE  IInv' /\ fault' = fault
<1>1. [Next]_vars
  OBVIOUS
<1> QED BY <1>1, Step DEF vars

LEMMA FormBlockStep ==
  ASSUME OutInv, NEW k \in Keys, FormBlock(k)
  PROVE  OutInv'
<1>1. /\ calling = "compress" /\ (Hit(k) \/ Insert(k)) /\ WriteBlock(k)
      /\ fake_pos' = fake_pos + fresh' - fresh /\ room' = room
  BY DEF FormBlock
<1>2. PICK buf : buf = Buffer(k)
  OBVIOUS
<1>3. /\ IInv' /\ ~fault'
      /\ out'.compressed \in BOOLEAN /\ out'.dict_offset \in Nat
      /\ area' \in Seq(OutCell) /\ Len(area') = CacheSz
      /\ fake' \in Seq(OutCell) /\ fresh' \in Nat /\ fresh <= fresh'
      /\ fake_pos = fresh
      /\ Len(fake') = IF Grows(k) THEN fresh' ELSE Len(fake)
      /\ Grows(k) => fresh' > Len(fake)
      /\ fresh' <= Len(fake')
      /\ ~Grows(k) => (\A b \in CBuff : Fits(b, fake, fresh) => Fits(b, fake', fresh')) /\ Fits(buf, fake', fresh')
  BY <1>1, <1>2, Wrote
<1>4. /\ outs \in Seq(CBuff) /\ tail_null \in BOOLEAN /\ fresh \in Nat /\ fake_pos \in Nat
      /\ room \in Nat /\ room <= Len(fake) /\ Len(fake) >= FakeSz /\ Len(fake) \in Nat
      /\ FakeSz \in Nat
      /\ fresh <= room => \A i \in 1..Len(outs) : Fits(outs[i], fake, fresh)
  <2>1. fake \in Seq(OutCell) => Len(fake) \in Nat
    OBVIOUS
  <2>2. fresh <= room => \A i \in 1..Len(outs) : Fits(outs[i], fake, fresh)
    BY DEF OutInv, AllFit
  <2>3. outs \in Seq(CBuff) /\ tail_null \in BOOLEAN
    BY DEF OutInv, ListOK
  <2> QED BY <1>1, <2>1, <2>2, <2>3, OutAssumption DEF OutInv, MemoryOK, CallOK
<1>5. buf \in CBuff
  BY <1>2, <1>3, <1>4 DEF Buffer, CBuff
<1>6. fake_pos' = fresh' /\ fake_pos' \in Nat /\ Len(fake') >= Len(fake) /\ Len(fake') \in Nat
  <2>1. fake_pos' = fresh' /\ fake_pos' \in Nat
    <3>1. fake_pos' = fresh + fresh' - fresh
      BY <1>1, <1>3
    <3>2. fresh \in Nat /\ fresh' \in Nat
      BY <1>3, <1>4
    <3>3. \A m, n \in Nat : m + n - m = n
      OBVIOUS
    <3> QED BY <3>1, <3>2, <3>3
  <2>2. fake' \in Seq(OutCell) => Len(fake') \in Nat
    OBVIOUS
  <2>3. Len(fake') >= Len(fake)
    BY <1>3, <1>4, <2>2
  <2> QED BY <1>3, <2>1, <2>2, <2>3
<1>7. ASSUME fresh' <= room'
      PROVE  ~Grows(k) /\ fresh <= room
  BY <1>7, <1>1, <1>3, <1>4
<1>8. /\ outs' \in Seq(CBuff) /\ tail_null' \in BOOLEAN
      /\ calling' \in {"compress", "dead"}
      /\ fresh' <= room' => \A i \in 1..Len(outs') : Fits(outs'[i], fake', fresh')
  <2>1. CASE Dies
    <3>1. outs' = outs /\ tail_null' = tail_null /\ calling' = "dead"
      BY <2>1 DEF Dies
    <3>2. ASSUME fresh' <= room', NEW i \in 1..Len(outs')
          PROVE  Fits(outs'[i], fake', fresh')
      <4>1. outs[i] \in CBuff /\ Fits(outs[i], fake, fresh) /\ outs'[i] = outs[i]
        BY <3>1, <3>2, <1>4, <1>7
      <4> QED BY <4>1, <3>2, <1>3, <1>7
    <3> QED BY <3>1, <3>2, <1>4
  <2>2. ASSUME NEW list \in Moved(k), InsertBlockOut(list, k), calling' = calling
        PROVE  /\ outs' \in Seq(CBuff) /\ tail_null' \in BOOLEAN
               /\ calling' \in {"compress", "dead"}
               /\ fresh' <= room' => \A i \in 1..Len(outs') : Fits(outs'[i], fake', fresh')
    <3>1. list \in Seq(CBuff) /\ (~Grows(k) => list = outs)
      BY <1>4, MovedLemma
    <3>2. /\ outs' \in Seq(CBuff) /\ tail_null' \in BOOLEAN
          /\ \A i \in 1..Len(outs') :
               outs'[i] = buf \/ \E j \in 1..Len(list) : outs'[i] = list[j]
      BY <2>2, <3>1, <1>2, <1>4, <1>5, Inserted
    <3>3. ASSUME fresh' <= room', NEW i \in 1..Len(outs')
          PROVE  Fits(outs'[i], fake', fresh')
      <4>1. CASE outs'[i] = buf
        BY <4>1, <3>3, <1>3, <1>7
      <4>2. ASSUME NEW j \in 1..Len(outs), outs'[i] = outs[j]
            PROVE  Fits(outs'[i], fake', fresh')
        <5>1. outs[j] \in CBuff /\ Fits(outs[j], fake, fresh)
          BY <3>3, <1>4, <1>7
        <5> QED BY <5>1, <4>2, <3>3, <1>3, <1>7
      <4> QED BY <4>1, <4>2, <3>1, <3>2, <3>3, <1>7
    <3> QED BY <3>2, <3>3, <2>2, <1>1
  <2> QED BY <2>1, <2>2 DEF FormBlock
<1>9. calling' # "no" /\ calling' # "returned"
  BY <1>8
<1>10. MemoryOK' /\ ListOK'
  BY <1>3, <1>4, <1>6, <1>8 DEF MemoryOK, ListOK
<1>11. CallOK'
  <2>1. room' \in Nat /\ room' <= Len(fake')
    BY <1>1, <1>4, <1>6
  <2>2. fake_pos' \in Nat /\ fresh' \in Nat /\ fake_pos' = fresh' /\ fake_pos' <= Len(fake')
    BY <1>3, <1>6
  <2> QED BY <2>1, <2>2, <1>8, <1>9 DEF CallOK
<1>12. AllFit'
  BY <1>8 DEF AllFit
<1> QED BY <1>3, <1>10, <1>11, <1>12 DEF OutInv

LEMMA FlushTailStep ==
  ASSUME OutInv, NEW k \in Keys, FlushTail(k)
  PROVE  OutInv'
<1>1. calling = "no" /\ fake_pos' = 0 /\ room' = Len(fake)
  BY DEF FlushTail, fake_cache_sz
<1>2. /\ outs = <<>> /\ fresh = 0 /\ fake_pos = 0 /\ ~tail_null /\ tail_null \in BOOLEAN
      /\ IInv /\ ~fault /\ MemoryOK /\ Len(fake) \in Nat
  BY <1>1 DEF OutInv, CallOK, ListOK, MemoryOK
<1>3. CASE /\ FlushSmall(k)
           /\ UNCHANGED <<area, fake, fresh, tail_null>>
           /\ \/ outs' = <<OwnBuffer(k)>> /\ calling' = "returned"
              \/ calling' = "dead" /\ UNCHANGED outs
  <2>1. IInv' /\ ~fault'
    <3>1. out' \in OutBuff
      BY <1>3 DEF FlushSmall, OutBuff
    <3> QED BY <1>2, <1>3, <3>1, OutStep DEF FlushSmall
  <2>2. OwnBuffer(k) \in CBuff /\ Fits(OwnBuffer(k), fake', fresh')
    BY DEF OwnBuffer, CBuff, Fits
  <2>3. outs' \in Seq(CBuff) /\ \A i \in 1..Len(outs') : outs'[i] = OwnBuffer(k)
    <3>1. CASE outs' = <<OwnBuffer(k)>>
      BY <2>2, <3>1
    <3>2. CASE outs' = <<>>
      BY <3>2
    <3> QED BY <1>2, <1>3, <3>1, <3>2
  <2>4. AllFit' /\ ListOK' /\ MemoryOK'
    BY <1>2, <1>3, <2>2, <2>3 DEF AllFit, ListOK, MemoryOK
  <2>5. CallOK'
    BY <1>1, <1>2, <1>3 DEF CallOK
  <2> QED BY <2>1, <2>4, <2>5 DEF OutInv
<1>4. CASE /\ Hit(k) \/ Insert(k)
           /\ WriteBlock(k)
           /\ \/ InsertBlockOut(outs, k) /\ calling' = "returned"
              \/ Grows(k) /\ Dies
  <2>1. PICK buf : buf = Buffer(k)
    OBVIOUS
  <2>2. /\ IInv' /\ ~fault'
        /\ out'.compressed \in BOOLEAN /\ out'.dict_offset \in Nat
        /\ area' \in Seq(OutCell) /\ Len(area') = CacheSz
        /\ fake' \in Seq(OutCell) /\ fresh' \in Nat
        /\ Len(fake') = IF Grows(k) THEN fresh' ELSE Len(fake)
        /\ Grows(k) => fresh' > Len(fake)
        /\ ~Grows(k) => Fits(buf, fake', fresh')
    BY <1>1, <1>4, <2>1, Wrote
  <2>3. buf \in CBuff
    BY <1>2, <2>1, <2>2 DEF Buffer, CBuff
  <2>4. Len(fake') \in Nat /\ Len(fake') >= Len(fake)
    BY <1>2, <2>2
  <2>5. /\ outs' \in Seq(CBuff) /\ tail_null' \in BOOLEAN
        /\ calling' \in {"returned", "dead"} /\ (calling' = "returned" => ~tail_null')
        /\ \A i \in 1..Len(outs') : outs'[i] = buf
    <3>1. CASE InsertBlockOut(outs, k) /\ calling' = "returned"
      <4>1. outs \in Seq(CBuff) /\ Len(outs) = 0
        BY <1>2
      <4>2. /\ outs' \in Seq(CBuff) /\ tail_null' \in BOOLEAN /\ ~tail_null'
            /\ \A i \in 1..Len(outs') :
                 outs'[i] = buf \/ \E j \in 1..Len(outs) : outs'[i] = outs[j]
        <5>1. outs = <<>> /\ ~tail_null /\ tail_null \in BOOLEAN /\ InsertBlockOut(outs, k)
          BY <1>2, <3>1
        <5>2. PICK list \in Seq(CBuff) : list = outs
          BY <4>1
        <5>3. InsertBlockOut(list, k)
          BY <5>1, <5>2
        <5>4. /\ outs' \in Seq(CBuff) /\ tail_null' \in BOOLEAN
              /\ list = <<>> /\ ~tail_null => ~tail_null'
              /\ \A i \in 1..Len(outs') :
                   outs'[i] = buf \/ \E j \in 1..Len(list) : outs'[i] = list[j]
          BY <5>1, <5>3, <2>1, <2>3, Inserted
        <5> QED BY <5>1, <5>2, <5>4
      <4> QED BY <3>1, <4>1, <4>2
    <3>2. CASE Dies
      BY <1>2, <3>2 DEF Dies
    <3> QED BY <1>4, <3>1, <3>2
  <2>6. fresh' <= room' => ~Grows(k)
    BY <1>1, <1>2, <2>2
  <2>7. AllFit' /\ ListOK'
    BY <2>2, <2>5, <2>6 DEF AllFit, ListOK
  <2>8. MemoryOK'
    BY <1>2, <2>2, <2>4, OutAssumption DEF MemoryOK
  <2>9. CallOK'
    BY <1>1, <1>2, <2>2, <2>4, <2>5 DEF CallOK
  <2> QED BY <2>2, <2>7, <2>8, <2>9 DEF OutInv
<1> QED BY <1>3, <1>4 DEF FlushTail

(* Every step of either build keeps the invariant.                         *)
LEMMA OutStepInv == OutInv /\ [OutNext]_outVars => OutInv'
<1> SUFFICES ASSUME OutInv, [OutNext]_outVars PROVE OutInv'
  OBVIOUS
<1> USE DEF OutInv
<1>1. CASE BeginCall
  <2>1. Len(fake) \in Nat
    BY DEF MemoryOK
  <2>2. IInv' /\ ~fault' /\ MemoryOK' /\ ListOK'
    BY <1>1, SameCache DEF BeginCall, MemoryOK, ListOK, fakeVars, vars
  <2>3. CallOK'
    BY <1>1, <2>1 DEF BeginCall, CallOK, fakeVars, fake_cache_sz
  <2>4. outs' = <<>>
    BY <1>1 DEF BeginCall, CallOK
  <2>5. AllFit'
    BY <2>4 DEF AllFit
  <2> QED BY <2>2, <2>3, <2>5
<1>2. CASE EndCall
  <2>1. IInv' /\ ~fault' /\ MemoryOK'
    BY <1>2, SameCache DEF EndCall, MemoryOK
  <2>2. ListOK' /\ AllFit'
    BY <1>2 DEF EndCall, ListOK, AllFit, history
  <2>3. CallOK'
    <3>1. 0 <= Len(fake)
      BY DEF CallOK
    <3> QED BY <1>2, <3>1 DEF EndCall, CallOK, history
  <2> QED BY <2>1, <2>2, <2>3
<1>3. CASE Consume
  <2>1. IInv' /\ ~fault' /\ MemoryOK' /\ ListOK'
    BY <1>3, SameCache DEF Consume, MemoryOK, ListOK, fakeVars, vars
  <2>2. CallOK'
    BY <1>3 DEF Consume, CallOK, fakeVars
  <2>3. AllFit'
    BY <1>3 DEF Consume, AllFit
  <2> QED BY <2>1, <2>2, <2>3
<1>4. CASE ReopenCache
  <2>1. IInv' /\ ~fault'
    BY <1>4, LoadStep DEF ReopenCache, Load
  <2>2. FakeSz \in Nat
    BY OutAssumption
  <2>3. fake' \in Seq(OutCell) /\ Len(fake') = FakeSz
    BY <1>4, <2>2, UnwrittenLemma DEF ReopenCache
  <2>4. MemoryOK' /\ ListOK'
    BY <1>4, <2>2, <2>3 DEF ReopenCache, MemoryOK, ListOK, callVars
  <2>5. CallOK'
    BY <1>4, <2>2, <2>3 DEF ReopenCache, CallOK, callVars, history
  <2>6. AllFit'
    <3>1. outs' = <<>>
      BY <1>4 DEF ReopenCache, CallOK, callVars
    <3> QED BY <3>1 DEF AllFit
  <2> QED BY <2>1, <2>4, <2>5, <2>6
<1>5. CASE UNCHANGED outVars
  BY <1>5, SameCache
     DEF outVars, vars, fakeVars, callVars, history, MemoryOK, ListOK, CallOK, AllFit
<1>6. ASSUME NEW k \in Keys, FormBlock(k) \/ FlushTail(k)
      PROVE  OutInv'
  BY <1>6, FormBlockStep, FlushTailStep
<1> QED BY <1>1, <1>2, <1>3, <1>4, <1>5, <1>6 DEF OutNext
-----------------------------------------------------------------------------
THEOREM OutInvariance == OutSpec => []OutInv
  BY OutInitially, OutStepInv, PTL DEF OutSpec

(* The bounds of fake_pos, the size of the fake cache and the list.        *)
THEOREM OutTypeCorrect == OutSpec => []OutTypeOK
<1>1. OutInv => OutTypeOK
  <2> SUFFICES ASSUME OutInv PROVE OutTypeOK
    OBVIOUS
  <2>1. Len(fake) \in Nat /\ fake_pos \in 0..Len(fake)
    BY DEF OutInv, MemoryOK, CallOK
  <2>2. \A i \in DOMAIN outs : outs[i].key \in Keys
    <3>1. \A i \in DOMAIN outs : outs[i] \in CBuff
      BY DEF OutInv, ListOK
    <3> QED BY <3>1 DEF CBuff
  <2> QED BY <2>1, <2>2 DEF OutInv, MemoryOK, CallOK, OutTypeOK, fake_cache_sz
<1> QED BY <1>1, OutInvariance, PTL

(* With DRE_COMP: as long as the blocks of the call fit the fake cache as  *)
(* the call found it, every buffer returned is where its bytes are.        *)
THEOREM FakeSafe == OutSpec => []FakeIntact
<1>1. OutInv => FakeIntact
  <2> SUFFICES ASSUME OutInv, fresh <= room, NEW i \in NewBlocks
               PROVE  ~outs[i].dangles /\ HasBytes(fake, outs[i].fpos, outs[i].key)
    BY DEF FakeIntact
  <2>1. i \in 1..Len(outs) /\ ~outs[i].compressed /\ ~outs[i].own
    BY DEF NewBlocks, OutInv, ListOK
  <2>2. Fits(outs[i], fake, fresh)
    BY <2>1 DEF OutInv, AllFit
  <2> QED BY <2>1, <2>2 DEF Fits
<1> QED BY <1>1, OutInvariance, PTL

(* The fake cache never grows past what one call writes.                   *)
THEOREM FakeBounded == OutSpec => GrowsToOneCall
<1>1. OutInv /\ [OutNext]_outVars => [fake_cache_sz' > fake_cache_sz => fake_cache_sz' = fresh']_outVars
  <2> SUFFICES ASSUME OutInv, OutNext, Len(fake') > Len(fake)
               PROVE  Len(fake') = fresh'
    BY DEF fake_cache_sz
  <2>1. Len(fake) \in Nat /\ FakeSz \in Nat /\ Len(fake) >= FakeSz
    BY OutAssumption DEF OutInv, MemoryOK
  <2>2. ~(fake' = fake)
    BY <2>1
  <2>3. ~ReopenCache
    BY <2>1, UnwrittenLemma DEF ReopenCache
  <2>4. PICK k \in Keys : (Hit(k) \/ Insert(k)) /\ WriteBlock(k) /\ calling \in {"no", "compress"}
    BY <2>2, <2>3 DEF OutNext, BeginCall, EndCall, Consume, FormBlock, FlushTail, fakeVars
  <2>5. PICK buf : buf = Buffer(k)
    OBVIOUS
  <2>6. Len(fake') = IF Grows(k) THEN fresh' ELSE Len(fake)
    BY <2>4, <2>5, Wrote
  <2> QED BY <2>1, <2>6
<1> QED BY <1>1, OutInvariance, PTL DEF OutSpec, GrowsToOneCall

-----------------------------------------------------------------------------
(* The default build: what a call of the compressor may store before it    *)
(* overwrites what it stored itself, for every size of the data area.      *)

Bound == CacheSz - MaxLen + 1

(* A block of the call, n bytes having been written up to pos: stored      *)
(* since the last rotation, ...                                            *)
OneLap(b, bytes, n, pos) ==
  b.compressed \/ b.own \/
    (pos - n <= b.pos /\ b.pos + BlkLen[b.key] <= pos /\ HasBytes(bytes, b.pos, b.key))

(* ... or on either side of a rotation at top.                             *)
TwoLaps(b, bytes, n, pos, top) ==
  b.compressed \/ b.own \/
    /\ top - (n - pos) <= b.pos \/ b.pos + BlkLen[b.key] <= pos
    /\ HasBytes(bytes, b.pos, b.key)

Straight(list, bytes, n, pos) ==
  n <= pos /\ \A i \in 1..Len(list) : OneLap(list[i], bytes, n, pos)
Around(list, bytes, n, pos) ==
  \E top \in Nat :
    /\ top > CacheSz - MaxLen /\ pos <= n /\ n - pos <= top
    /\ \A i \in 1..Len(list) : TwoLaps(list[i], bytes, n, pos, top)

Laid(list, bytes, n, pos) == Straight(list, bytes, n, pos) \/ Around(list, bytes, n, pos)

(* The inductive invariant, with OutInv.                                   *)
AreaInv == fresh <= Bound => Laid(outs, area, fresh, data_pos_wr)

SamePlace(b, c) ==
  b.key = c.key /\ b.compressed = c.compressed /\ b.own = c.own /\ b.pos = c.pos

-----------------------------------------------------------------------------
(* A block stored, or found.  list is what becomes of the list.            *)
LEMMA Laying ==
  ASSUME OutInv, AreaInv, calling \in {"no", "compress"},
         NEW k \in Keys, Hit(k) \/ Insert(k), WriteBlock(k),
         NEW buf \in CBuff, buf = Buffer(k),
         NEW list \in Seq(CBuff),
         \A i \in 1..Len(list) :
           list[i] = buf \/ \E j \in 1..Len(outs) : SamePlace(list[i], outs[j]),
         fresh' <= Bound
  PROVE  Laid(list, area', fresh', data_pos_wr')
<1> DEFINE len == BlkLen[k]
           pos == WritePos(len)
           d == data_pos_wr
<1>1. /\ IInv /\ area \in Seq(OutCell) /\ Len(area) = CacheSz /\ fresh \in Nat
      /\ d \in Nat /\ d <= CacheSz
  BY DEF OutInv, MemoryOK, CallOK, IInv, TypeOK
<1>2. /\ len \in Nat /\ len \in 1..MaxLen /\ MaxLen \in Nat /\ CacheSz \in Nat
      /\ \A l \in Keys : BlkLen[l] \in Nat
  BY CacheAssumption
<1>3. /\ \A b \in CBuff : b.pos \in Nat /\ b.key \in Keys
      /\ \A j \in 1..Len(outs) : outs[j] \in CBuff
      /\ \A i \in 1..Len(list) : list[i] \in CBuff
  <2>1. \A b \in CBuff : b.pos \in Nat /\ b.key \in Keys
    BY DEF CBuff
  <2>2. outs \in Seq(CBuff)
    BY DEF OutInv, ListOK
  <2>3. \A l \in Seq(CBuff) : \A i \in 1..Len(l) : l[i] \in CBuff
    OBVIOUS
  <2> QED BY <2>1, <2>2, <2>3
<1>4. CASE Hit(k)
  <2>1. /\ out'.compressed /\ data_pos_wr' = d
    BY <1>4 DEF Hit
  <2>2. area' = area /\ fresh' = fresh
    BY <2>1 DEF WriteBlock
  <2>3. buf.compressed
    BY <2>1 DEF Buffer
  <2>4. CASE Straight(outs, area, fresh, d)
    <3>1. \A i \in 1..Len(list) : OneLap(list[i], area, fresh, d)
      BY <2>3, <2>4 DEF Straight, OneLap, SamePlace
    <3> QED BY <3>1, <2>1, <2>2, <2>4 DEF Straight, Laid
  <2>5. CASE Around(outs, area, fresh, d)
    <3>1. PICK top \in Nat :
            /\ top > CacheSz - MaxLen /\ d <= fresh /\ fresh - d <= top
            /\ \A i \in 1..Len(outs) : TwoLaps(outs[i], area, fresh, d, top)
      BY <2>5 DEF Around
    <3>2. \A i \in 1..Len(list) : TwoLaps(list[i], area, fresh, d, top)
      BY <2>3, <3>1 DEF TwoLaps, SamePlace
    <3>3. Around(list, area, fresh, d)
      BY <3>1, <3>2 DEF Around
    <3> QED BY <3>3, <2>1, <2>2 DEF Laid
  <2> QED BY <2>2, <2>4, <2>5 DEF AreaInv, Laid
<1>5. CASE Insert(k)
  <2>1. ~out'.compressed /\ out'.dict_offset = pos /\ data_pos_wr' = pos + len
    BY <1>5 DEF Insert
  <2>2. area' = Put(area, pos, k) /\ fresh' = fresh + len
    BY <2>1 DEF WriteBlock
  <2>3. buf.key = k /\ buf.pos = pos
    BY <2>1 DEF Buffer
  <2>4. pos \in Nat /\ pos + len <= CacheSz
    <3>1. IInv'
      BY <1>1, <1>5, InsertStep DEF OutInv
    <3>2. data_pos_wr' <= CacheSz
      BY <3>1 DEF IInv
    <3> QED BY <3>2, <2>1, <1>1 DEF WritePos
  <2>5. /\ HasBytes(area', pos, k)
        /\ \A q \in Nat, l \in Keys :
             (q + BlkLen[l] <= pos \/ pos + len <= q) /\ HasBytes(area, q, l) => HasBytes(area', q, l)
    BY <1>1, <2>2, <2>4, PutHolds
  <2>6. fresh + len <= Bound /\ fresh <= Bound
    BY <1>1, <1>2, <2>2 DEF Bound
  <2>7. CASE Straight(outs, area, fresh, d) /\ ~Rotates(len)
    <3>1. pos = d /\ fresh <= d
      BY <2>7 DEF WritePos, Straight
    <3>2. OneLap(buf, area', fresh + len, d + len)
      BY <3>1, <2>3, <2>5, <1>1, <1>2 DEF OneLap
    <3>3. ASSUME NEW i \in 1..Len(list), NEW j \in 1..Len(outs), SamePlace(list[i], outs[j])
          PROVE  OneLap(list[i], area', fresh + len, d + len)
      <4>1. OneLap(outs[j], area, fresh, d) /\ outs[j].pos \in Nat /\ outs[j].key \in Keys
        BY <2>7, <1>3 DEF Straight
      <4>2. OneLap(list[i], area, fresh, d) /\ list[i].pos \in Nat /\ list[i].key \in Keys
        BY <4>1, <3>3 DEF OneLap, SamePlace
      <4>3. CASE ~list[i].compressed /\ ~list[i].own
        <5>1. /\ d - fresh <= list[i].pos /\ list[i].pos + BlkLen[list[i].key] <= d
              /\ HasBytes(area, list[i].pos, list[i].key)
          BY <4>2, <4>3 DEF OneLap
        <5>2. HasBytes(area', list[i].pos, list[i].key)
          BY <5>1, <4>2, <3>1, <2>5
        <5>3. /\ (d + len) - (fresh + len) <= list[i].pos
              /\ list[i].pos + BlkLen[list[i].key] <= d + len
          <6>1. (d + len) - (fresh + len) = d - fresh
            BY <1>1, <1>2
          <6>2. list[i].pos + BlkLen[list[i].key] \in Nat
            BY <4>2, <1>2
          <6> QED BY <5>1, <6>1, <6>2, <1>1, <1>2
        <5> QED BY <5>2, <5>3 DEF OneLap
      <4> QED BY <4>3 DEF OneLap
    <3>4. Straight(list, area', fresh + len, d + len)
      BY <3>1, <3>2, <3>3, <1>1, <1>2 DEF Straight
    <3> QED BY <3>1, <3>4, <2>1, <2>2 DEF Laid
  <2>8. CASE Straight(outs, area, fresh, d) /\ Rotates(len)
    <3>1. /\ pos = 0 /\ fresh <= d /\ d > CacheSz - MaxLen
          /\ len <= d - fresh /\ d - fresh \in Nat
      BY <2>8, <2>6, <1>1, <1>2 DEF WritePos, Straight, Rotates, Bound
    <3>2. /\ d - ((fresh + len) - len) = d - fresh
          /\ len <= fresh + len /\ (fresh + len) - len <= d
      BY <3>1, <1>1, <1>2
    <3>3. TwoLaps(buf, area', fresh + len, len, d)
      BY <3>1, <2>3, <2>5, <1>2 DEF TwoLaps
    <3>4. ASSUME NEW i \in 1..Len(list), NEW j \in 1..Len(outs), SamePlace(list[i], outs[j])
          PROVE  TwoLaps(list[i], area', fresh + len, len, d)
      <4>1. OneLap(outs[j], area, fresh, d) /\ outs[j].pos \in Nat /\ outs[j].key \in Keys
        BY <2>8, <1>3 DEF Straight
      <4>2. OneLap(list[i], area, fresh, d) /\ list[i].pos \in Nat /\ list[i].key \in Keys
        BY <4>1, <3>4 DEF OneLap, SamePlace
      <4>3. CASE ~list[i].compressed /\ ~list[i].own
        <5>1. d - fresh <= list[i].pos /\ HasBytes(area, list[i].pos, list[i].key)
          BY <4>2, <4>3 DEF OneLap
        <5>2. pos + len <= list[i].pos
          BY <5>1, <4>2, <3>1, <1>2
        <5>3. HasBytes(area', list[i].pos, list[i].key)
          BY <5>1, <5>2, <4>2, <2>5
        <5> QED BY <5>1, <5>3, <3>2 DEF TwoLaps
      <4> QED BY <4>3 DEF TwoLaps
    <3>5. Around(list, area', fresh + len, len)
      BY <3>1, <3>2, <3>3, <3>4, <1>1 DEF Around
    <3>6. pos + len = len
      BY <3>1, <1>2
    <3> QED BY <3>5, <3>6, <2>1, <2>2 DEF Laid
  <2>9. CASE Around(outs, area, fresh, d)
    <3>1. PICK top \in Nat :
            /\ top > CacheSz - MaxLen /\ d <= fresh /\ fresh - d <= top
            /\ \A i \in 1..Len(outs) : TwoLaps(outs[i], area, fresh, d, top)
      BY <2>9 DEF Around
    <3>2. ~Rotates(len) /\ pos = d
      BY <3>1, <2>6, <1>1, <1>2 DEF Rotates, Bound, WritePos
    <3>3. /\ (fresh + len) - (d + len) = fresh - d /\ d + len <= fresh + len
          /\ d + len <= top - (fresh - d)
      BY <3>1, <2>6, <1>1, <1>2 DEF Bound
    <3>4. TwoLaps(buf, area', fresh + len, d + len, top)
      BY <3>2, <2>3, <2>5, <1>1, <1>2 DEF TwoLaps
    <3>5. ASSUME NEW i \in 1..Len(list), NEW j \in 1..Len(outs), SamePlace(list[i], outs[j])
          PROVE  TwoLaps(list[i], area', fresh + len, d + len, top)
      <4>1. TwoLaps(outs[j], area, fresh, d, top) /\ outs[j].pos \in Nat /\ outs[j].key \in Keys
        BY <3>1, <1>3
      <4>2. TwoLaps(list[i], area, fresh, d, top) /\ list[i].pos \in Nat /\ list[i].key \in Keys
        BY <4>1, <3>5 DEF TwoLaps, SamePlace
      <4>3. CASE ~list[i].compressed /\ ~list[i].own
        <5> DEFINE e == list[i].pos + BlkLen[list[i].key]
        <5>1. /\ top - (fresh - d) <= list[i].pos \/ e <= d
              /\ HasBytes(area, list[i].pos, list[i].key) /\ e \in Nat
          BY <4>2, <4>3, <1>2 DEF TwoLaps
        <5>2. pos + len <= list[i].pos \/ e <= pos
          <6>1. top - (fresh - d) \in Int /\ d + len \in Nat
            BY <1>1, <1>2
          <6>2. list[i].pos \in Nat /\ d + len <= top - (fresh - d) /\ pos = d
            BY <4>2, <3>2, <3>3
          <6> QED BY <5>1, <6>1, <6>2
        <5>3. HasBytes(area', list[i].pos, list[i].key)
          BY <5>1, <5>2, <4>2, <2>5
        <5>4. top - ((fresh + len) - (d + len)) <= list[i].pos \/ e <= d + len
          BY <5>1, <3>3, <1>1, <1>2
        <5> QED BY <5>3, <5>4 DEF TwoLaps
      <4> QED BY <4>3 DEF TwoLaps
    <3>6. Around(list, area', fresh + len, d + len)
      BY <3>1, <3>3, <3>4, <3>5 DEF Around
    <3> QED BY <3>2, <3>6, <2>1, <2>2 DEF Laid
  <2> QED BY <2>6, <2>7, <2>8, <2>9 DEF AreaInv, Laid
<1> QED BY <1>4, <1>5

-----------------------------------------------------------------------------
LEMMA AreaInitially == OutInit => AreaInv
<1> SUFFICES ASSUME OutInit PROVE AreaInv
  OBVIOUS
<1>1. Len(outs) = 0 /\ fresh = 0 /\ data_pos_wr = 0
  BY DEF OutInit, Init
<1> QED BY <1>1 DEF AreaInv, Laid, Straight

LEMMA AreaStep == OutInv /\ AreaInv /\ [OutNext]_outVars => AreaInv'
<1> SUFFICES ASSUME OutInv, AreaInv, [OutNext]_outVars, fresh' <= Bound
             PROVE  Laid(outs', area', fresh', data_pos_wr')
  BY DEF AreaInv, Laid, Straight, Around, OneLap, TwoLaps, HasBytes, Bound
<1>1. OutInv'
  BY OutStepInv
<1>2. outs' \in Seq(CBuff) /\ outs \in Seq(CBuff) /\ tail_null \in BOOLEAN
  BY <1>1 DEF OutInv, ListOK
<1>3. ASSUME outs' = <<>>, fresh' = 0
      PROVE  Laid(outs', area', fresh', data_pos_wr')
  <2>1. Len(outs') = 0 /\ data_pos_wr' \in Nat
    BY <1>1, <1>3 DEF OutInv, IInv, TypeOK
  <2> QED BY <1>3, <2>1 DEF Laid, Straight
<1>4. ASSUME UNCHANGED <<vars, area, outs, fresh>>
      PROVE  Laid(outs', area', fresh', data_pos_wr')
  BY <1>4 DEF vars, AreaInv
<1>5. ASSUME NEW k \in Keys, FormBlock(k)
      PROVE  Laid(outs', area', fresh', data_pos_wr')
  <2>1. calling = "compress" /\ (Hit(k) \/ Insert(k)) /\ WriteBlock(k)
    BY <1>5 DEF FormBlock
  <2>2. PICK buf : buf = Buffer(k)
    OBVIOUS
  <2>3. buf \in CBuff
    <3>1. out'.compressed \in BOOLEAN /\ out'.dict_offset \in Nat /\ fake_pos \in Nat
      BY <1>1 DEF OutInv, CallOK, IInv, TypeOK, OutBuff
    <3> QED BY <2>2, <3>1 DEF Buffer, CBuff
  <2>4. \A i \in 1..Len(outs') :
          outs'[i] = buf \/ \E j \in 1..Len(outs) : SamePlace(outs'[i], outs[j])
    <3>1. CASE Dies
      BY <3>1 DEF Dies, SamePlace
    <3>2. ASSUME NEW list \in Moved(k), InsertBlockOut(list, k)
          PROVE  \A i \in 1..Len(outs') :
                   outs'[i] = buf \/ \E j \in 1..Len(outs) : SamePlace(outs'[i], outs[j])
      <4>1. list \in Seq(CBuff)
        BY <1>2, MovedLemma
      <4>2. \A i \in 1..Len(outs') :
              outs'[i] = buf \/ \E j \in 1..Len(list) : outs'[i] = list[j]
        BY <3>2, <4>1, <2>2, <2>3, <1>2, Inserted
      <4>3. \A j \in 1..Len(list) : j \in 1..Len(outs) /\ SamePlace(list[j], outs[j])
        <5>1. CASE list = outs
          BY <5>1 DEF SamePlace
        <5>2. CASE list = [i \in DOMAIN outs |-> [outs[i] EXCEPT !.dangles = TRUE]]
          <6>1. DOMAIN list = 1..Len(outs) /\ DOMAIN list = 1..Len(list)
            BY <5>2, <4>1, <1>2
          <6>2. ASSUME NEW j \in 1..Len(list)
                PROVE  j \in 1..Len(outs) /\ SamePlace(list[j], outs[j])
            <7>1. j \in 1..Len(outs) /\ list[j] = [outs[j] EXCEPT !.dangles = TRUE]
              BY <5>2, <6>1
            <7>2. outs[j] \in CBuff
              BY <1>2, <7>1
            <7> QED BY <7>1, <7>2 DEF SamePlace, CBuff
          <6> QED BY <6>2
        <5> QED BY <5>1, <5>2 DEF Moved
      <4> QED BY <4>2, <4>3
    <3> QED BY <1>5, <3>1, <3>2 DEF FormBlock
  <2> QED BY <2>1, <2>2, <2>3, <2>4, <1>2, Laying
<1>6. ASSUME NEW k \in Keys, FlushTail(k)
      PROVE  Laid(outs', area', fresh', data_pos_wr')
  <2>1. calling = "no" /\ outs = <<>> /\ fresh = 0
    BY <1>6 DEF FlushTail, OutInv, CallOK
  <2>2. CASE /\ FlushSmall(k)
             /\ UNCHANGED <<area, fake, fresh, tail_null>>
             /\ \/ outs' = <<OwnBuffer(k)>> /\ calling' = "returned"
                \/ calling' = "dead" /\ UNCHANGED outs
    <3>1. \A i \in 1..Len(outs') : OneLap(outs'[i], area', fresh', data_pos_wr')
      <4>1. CASE outs' = <<OwnBuffer(k)>>
        <5>1. \A i \in 1..Len(outs') : outs'[i].own
          BY <4>1 DEF OwnBuffer
        <5> QED BY <5>1 DEF OneLap
      <4>2. CASE outs' = <<>>
        BY <4>2
      <4> QED BY <2>1, <2>2, <4>1, <4>2
    <3>2. fresh' = 0 /\ data_pos_wr' \in Nat
      BY <2>1, <2>2, <1>1 DEF OutInv, IInv, TypeOK
    <3> QED BY <3>1, <3>2 DEF Laid, Straight
  <2>3. CASE /\ Hit(k) \/ Insert(k)
             /\ WriteBlock(k)
             /\ \/ InsertBlockOut(outs, k) /\ calling' = "returned"
                \/ Grows(k) /\ Dies
    <3>1. PICK buf : buf = Buffer(k)
      OBVIOUS
    <3>2. buf \in CBuff
      <4>1. out'.compressed \in BOOLEAN /\ out'.dict_offset \in Nat /\ fake_pos \in Nat
        BY <1>1 DEF OutInv, CallOK, IInv, TypeOK, OutBuff
      <4> QED BY <3>1, <4>1 DEF Buffer, CBuff
    <3>3. \A i \in 1..Len(outs') : outs'[i] = buf
      <4>1. CASE outs' = Append(outs, Buffer(k))
        BY <2>1, <3>1, <4>1
      <4>2. CASE outs' = <<>>
        BY <4>2
      <4> QED BY <2>1, <2>3, <4>1, <4>2 DEF InsertBlockOut, Dies
    <3> QED BY <2>1, <2>3, <3>1, <3>2, <3>3, <1>2, Laying
  <2> QED BY <1>6, <2>2, <2>3 DEF FlushTail
<1>7. CASE BeginCall \/ EndCall \/ UNCHANGED outVars
  BY <1>7, <1>4 DEF BeginCall, EndCall, outVars, callVars, history
<1>8. CASE Consume
  BY <1>8, <1>3 DEF Consume
<1>9. CASE ReopenCache
  <2>1. outs' = <<>> /\ fresh' = 0
    BY <1>9 DEF ReopenCache, OutInv, CallOK, callVars, history
  <2> QED BY <2>1, <1>3
<1> QED BY <1>5, <1>6, <1>7, <1>8, <1>9 DEF OutNext

(* Up to Bound bytes, the blocks that a call stores do not overwrite one   *)
(* another before the caller has seen them (dre.c:713).  TLC finds one     *)
(* byte more to be too many.                                               *)
THEOREM DataSafe == OutSpec => []DataIntact
<1>1. OutInv /\ AreaInv => DataIntact
  <2> SUFFICES ASSUME OutInv, AreaInv, fresh <= Bound, NEW i \in NewBlocks
               PROVE  HasBytes(area, outs[i].pos, outs[i].key)
    BY DEF DataIntact, Bound
  <2>1. i \in 1..Len(outs) /\ ~outs[i].compressed /\ ~outs[i].own
    BY DEF NewBlocks, OutInv, ListOK
  <2>2. Laid(outs, area, fresh, data_pos_wr)
    BY DEF AreaInv
  <2> QED BY <2>1, <2>2 DEF Laid, Straight, Around, OneLap, TwoLaps
<1>2. OutSpec => []AreaInv
  BY AreaInitially, AreaStep, OutInvariance, PTL DEF OutSpec
<1> QED BY <1>1, <1>2, OutInvariance, PTL
-----------------------------------------------------------------------------
(* The list against the blocks formed.                                     *)

(* The buffers of a list are, in order, those of blocks i to j of a call.  *)
HasKeys(list, blks, i, j) ==
  /\ Len(list) = (j - i) + 1
  /\ \A n \in 1..Len(list) : list[n].key = blks[(i + n) - 1]

(* All the blocks are there, but for some at the beginning, and the one    *)
(* that failed last; without a failure, all are.                           *)
Listed(list, blks, lost, fails) ==
  \E i \in 1..(Len(blks) + 1) :
    /\ HasKeys(list, blks, i, IF lost THEN Len(blks) - 1 ELSE Len(blks))
    /\ ~fails => i = 1 /\ ~lost

(* The inductive invariant, with OutInv.                                   *)
FormedType == formed \in Seq(Keys) /\ failed \in BOOLEAN
ListInv ==
  /\ FormedType
  /\ calling = "no" => formed = <<>> /\ failed = FALSE
  /\ calling = "compress" => Listed(outs, formed, tail_null, failed)
  /\ calling = "returned" => \E lost \in BOOLEAN : Listed(outs, formed, lost, failed)

LEMMA MovedKeys ==
  ASSUME outs \in Seq(CBuff), NEW k \in Keys, NEW list \in Moved(k)
  PROVE  /\ list \in Seq(CBuff) /\ Len(list) = Len(outs)
         /\ \A n \in 1..Len(outs) : list[n].key = outs[n].key
<1>1. list \in Seq(CBuff)
  BY MovedLemma
<1>2. CASE list = outs
  BY <1>1, <1>2
<1>3. CASE list = [i \in DOMAIN outs |-> [outs[i] EXCEPT !.dangles = TRUE]]
  <2>1. Len(outs) \in Nat /\ DOMAIN outs = 1..Len(outs) /\ \A n \in 1..Len(outs) : outs[n] \in CBuff
    OBVIOUS
  <2>2. Len(list) = Len(outs)
    BY <1>1, <1>3, <2>1
  <2>3. ASSUME NEW n \in 1..Len(outs) PROVE list[n].key = outs[n].key
    <3>1. list[n] = [outs[n] EXCEPT !.dangles = TRUE] /\ outs[n] \in CBuff
      BY <1>3, <2>1
    <3> QED BY <3>1 DEF CBuff
  <2> QED BY <1>1, <2>2, <2>3
<1> QED BY <1>2, <1>3 DEF Moved

(* insert_block_out, when out_tail is not null: one more block was formed, *)
(* and is at the end of the list or lost.                                  *)
LEMMA ListedInsert ==
  ASSUME NEW list \in Seq(CBuff), NEW k \in Keys, NEW blks \in Seq(Keys), NEW fails \in BOOLEAN,
         Listed(list, blks, FALSE, fails), fails = failed, tail_null = FALSE,
         InsertBlockOut(list, k)
  PROVE  /\ failed' \in BOOLEAN
         /\ tail_null' \in BOOLEAN
         /\ Listed(outs', Append(blks, k), tail_null', failed')
<1> DEFINE m == Len(blks)
           more == Append(blks, k)
           buf == Buffer(k)
<1>1. PICK i \in 1..(m + 1) : HasKeys(list, blks, i, m) /\ (~fails => i = 1)
  BY DEF Listed
<1>2. /\ m \in Nat /\ Len(list) \in Nat /\ Len(list) = (m - i) + 1 /\ i \in Nat
      /\ \A n \in 1..Len(list) : list[n].key = blks[(i + n) - 1]
  <2>1. m \in Nat /\ Len(list) \in Nat
    OBVIOUS
  <2> QED BY <1>1, <2>1 DEF HasKeys
<1>3. Len(more) = m + 1 /\ more[m + 1] = k /\ \A n \in 1..m : more[n] = blks[n]
  OBVIOUS
<1>4. buf.key = k
  BY DEF Buffer
<1> HIDE DEF m, more, buf
<1>5. \A n \in 1..Len(list) : (i + n) - 1 \in 1..m
  BY <1>2
<1>6. CASE outs' = Append(list, buf) /\ UNCHANGED <<tail_null, failed>>
  <2>1. Len(outs') = Len(list) + 1 /\ outs'[Len(list) + 1] = buf
        /\ \A n \in 1..Len(list) : outs'[n] = list[n]
    BY <1>6
  <2>2. Len(outs') = ((m + 1) - i) + 1
    BY <1>2, <2>1
  <2>3. ASSUME NEW n \in 1..Len(outs') PROVE outs'[n].key = more[(i + n) - 1]
    <3>1. CASE n \in 1..Len(list)
      BY <1>2, <1>3, <1>5, <2>1, <3>1
    <3>2. CASE n = Len(list) + 1
      <4>1. (i + n) - 1 = m + 1
        BY <1>2, <3>2
      <4> QED BY <1>3, <1>4, <2>1, <3>2, <4>1
    <3> QED BY <1>2, <2>1, <3>1, <3>2
  <2>4. HasKeys(outs', more, i, m + 1)
    BY <2>2, <2>3 DEF HasKeys
  <2>5. i \in 1..((m + 1) + 1)
    BY <1>2
  <2>6. Listed(outs', more, FALSE, fails)
    BY <1>1, <1>3, <2>4, <2>5 DEF Listed
  <2> QED BY <1>6, <2>6 DEF more
<1>7. CASE outs' = list /\ tail_null' = (list # <<>>) /\ failed' = TRUE
  <2>1. CASE list = <<>>
    <3>1. HasKeys(outs', more, (m + 1) + 1, m + 1)
      <4>1. Len(<<>>) = 0 /\ ((m + 1) - ((m + 1) + 1)) + 1 = 0
        BY <1>2
      <4>2. \A n \in 1..0 : FALSE
        OBVIOUS
      <4> QED BY <1>7, <2>1, <4>1, <4>2 DEF HasKeys
    <3>2. (m + 1) + 1 \in 1..((m + 1) + 1)
      BY <1>2
    <3>3. Listed(outs', more, FALSE, TRUE)
      BY <1>3, <3>1, <3>2 DEF Listed
    <3> QED BY <1>7, <2>1, <3>3 DEF more
  <2>2. CASE list # <<>>
    <3>1. HasKeys(outs', more, i, (m + 1) - 1)
      <4>1. (m + 1) - 1 = m
        BY <1>2
      <4>2. HasKeys(list, more, i, m)
        BY <1>2, <1>3, <1>5 DEF HasKeys
      <4> QED BY <1>7, <4>1, <4>2
    <3>2. i \in 1..((m + 1) + 1)
      BY <1>2
    <3>3. Listed(outs', more, TRUE, TRUE)
      BY <1>3, <3>1, <3>2 DEF Listed
    <3> QED BY <1>7, <2>2, <3>3 DEF more
  <2> QED BY <2>1, <2>2
<1> QED BY <1>6, <1>7 DEF InsertBlockOut, buf

LEMMA ListInitially == OutInit => ListInv
<1> SUFFICES ASSUME OutInit PROVE ListInv
  OBVIOUS
<1>1. formed = <<>> /\ failed = FALSE /\ calling = "no"
  BY DEF OutInit
<1>2. <<>> \in Seq(Keys)
  OBVIOUS
<1> QED BY <1>1, <1>2 DEF ListInv, FormedType

LEMMA ListStep == OutInv /\ ListInv /\ [OutNext]_outVars => ListInv'
<1> SUFFICES ASSUME OutInv, ListInv, [OutNext]_outVars PROVE ListInv'
  OBVIOUS
<1>1. outs \in Seq(CBuff) /\ tail_null \in BOOLEAN /\ FormedType
      /\ (calling \in {"no", "returned"} => ~tail_null) /\ (calling = "no" => outs = <<>>)
  BY DEF OutInv, ListOK, CallOK, ListInv
<1>2. Listed(<<>>, <<>>, FALSE, FALSE)
  <2>1. Len(<<>>) = 0 /\ 1 \in 1..(0 + 1) /\ (0 - 1) + 1 = 0 /\ \A n \in 1..0 : FALSE
    OBVIOUS
  <2>2. HasKeys(<<>>, <<>>, 1, 0)
    BY <2>1 DEF HasKeys
  <2> QED BY <2>1, <2>2 DEF Listed
<1>3. CASE BeginCall
  <2>1. /\ calling = "no" /\ calling' = "compress" /\ outs' = outs /\ tail_null' = tail_null
        /\ formed' = formed /\ failed' = failed
    BY <1>3 DEF BeginCall
  <2>2. outs = <<>> /\ formed = <<>> /\ failed = FALSE /\ tail_null = FALSE
    BY <1>1, <2>1 DEF ListInv
  <2> QED BY <1>1, <1>2, <2>1, <2>2 DEF ListInv, FormedType
<1>4. ASSUME NEW k \in Keys, FormBlock(k) PROVE ListInv'
  <2>1. calling = "compress" /\ formed' = Append(formed, k)
    BY <1>4 DEF FormBlock
  <2>2. formed' \in Seq(Keys)
    BY <1>1, <2>1 DEF FormedType
  <2>3. Listed(outs, formed, tail_null, failed)
    BY <2>1 DEF ListInv
  <2>4. CASE Dies
    <3>1. calling' = "dead" /\ failed' = failed
      BY <2>4 DEF Dies
    <3> QED BY <1>1, <2>2, <3>1 DEF ListInv, FormedType
  <2>5. ASSUME ~tail_null, UNCHANGED calling, NEW list \in Moved(k), InsertBlockOut(list, k)
        PROVE  ListInv'
    <3>1. /\ list \in Seq(CBuff) /\ Len(list) = Len(outs)
          /\ \A n \in 1..Len(outs) : list[n].key = outs[n].key
      BY <1>1, MovedKeys
    <3>2. Listed(list, formed, FALSE, failed)
      <4>1. tail_null = FALSE
        BY <1>1, <2>5
      <4>2. \A i, j : HasKeys(outs, formed, i, j) => HasKeys(list, formed, i, j)
        BY <3>1 DEF HasKeys
      <4> QED BY <2>3, <4>1, <4>2 DEF Listed
    <3>3. tail_null = FALSE /\ formed \in Seq(Keys) /\ failed \in BOOLEAN
      BY <1>1, <2>5 DEF FormedType
    <3>4. /\ failed' \in BOOLEAN
          /\ Listed(outs', Append(formed, k), tail_null', failed')
      BY <2>5, <3>1, <3>2, <3>3, ListedInsert
    <3> QED BY <2>1, <2>2, <2>5, <3>4 DEF ListInv, FormedType
  <2> QED BY <1>4, <2>4, <2>5 DEF FormBlock
<1>5. CASE EndCall
  <2>1. /\ calling = "compress" /\ calling' = "returned" /\ outs' = outs
        /\ formed' = formed /\ failed' = failed
    BY <1>5 DEF EndCall, history
  <2>2. Listed(outs, formed, tail_null, failed)
    BY <2>1 DEF ListInv
  <2> QED BY <1>1, <2>1, <2>2 DEF ListInv, FormedType
<1>6. ASSUME NEW k \in Keys, FlushTail(k) PROVE ListInv'
  <2>1. calling = "no" /\ formed' = <<k>>
    BY <1>6 DEF FlushTail
  <2>2. outs = <<>> /\ formed = <<>> /\ failed = FALSE /\ tail_null = FALSE
    BY <1>1, <2>1 DEF ListInv
  <2>3. <<k>> \in Seq(Keys) /\ <<k>> = Append(<<>>, k) /\ <<>> \in Seq(CBuff) /\ <<>> \in Seq(Keys)
    OBVIOUS
  <2>4. CASE failed' = failed /\ outs' = <<OwnBuffer(k)>> /\ calling' = "returned"
    <3>1. HasKeys(outs', <<k>>, 1, 1)
      <4>1. Len(<<OwnBuffer(k)>>) = 1 /\ (1 - 1) + 1 = 1
            /\ \A n \in 1..1 : n = 1 /\ (1 + n) - 1 = 1
        OBVIOUS
      <4>2. OwnBuffer(k).key = k
        BY DEF OwnBuffer
      <4> QED BY <2>4, <4>1, <4>2 DEF HasKeys
    <3>2. Listed(outs', <<k>>, FALSE, FALSE)
      <4>1. Len(<<k>>) = 1 /\ 1 \in 1..(1 + 1)
        OBVIOUS
      <4> QED BY <3>1, <4>1 DEF Listed
    <3> QED BY <2>1, <2>2, <2>3, <2>4, <3>2 DEF ListInv, FormedType
  <2>5. CASE InsertBlockOut(outs, k) /\ calling' = "returned"
    <3>1. failed' \in BOOLEAN /\ tail_null' \in BOOLEAN /\ Listed(outs', <<k>>, tail_null', failed')
      BY <1>2, <2>2, <2>3, <2>5, ListedInsert
    <3> QED BY <2>1, <2>3, <2>5, <3>1 DEF ListInv, FormedType
  <2>6. CASE calling' = "dead" /\ failed' = failed
    BY <1>1, <2>1, <2>3, <2>6 DEF ListInv, FormedType
  <2> QED BY <1>6, <2>4, <2>5, <2>6 DEF FlushTail, Dies
<1>7. CASE Consume
  <2>1. calling' = "no" /\ formed' = <<>> /\ failed' = FALSE /\ <<>> \in Seq(Keys)
    BY <1>7 DEF Consume
  <2> QED BY <2>1 DEF ListInv, FormedType
<1>8. CASE ReopenCache \/ UNCHANGED outVars
  <2>1. UNCHANGED <<calling, outs, tail_null, formed, failed>>
    BY <1>8 DEF ReopenCache, callVars, history, outVars
  <2> QED BY <2>1 DEF ListInv, FormedType
<1> QED BY <1>3, <1>4, <1>5, <1>6, <1>7, <1>8 DEF OutNext

(* The list a call returns is the blocks it formed, in order; when         *)
(* insert_block_out had no memory for one, the list lacks blocks at its    *)
(* beginning or the last one, and no others.                               *)
THEOREM ListSafe == OutSpec => []ListIsFormed
<1>1. OutInv /\ ListInv => ListIsFormed
  <2> SUFFICES ASSUME OutInv, ListInv, calling = "returned"
               PROVE  \E i \in 1..(Len(formed) + 1), j \in {Len(formed) - 1, Len(formed)} :
                        /\ [n \in DOMAIN outs |-> outs[n].key] = SubSeq(formed, i, j)
                        /\ ~failed => i = 1 /\ j = Len(formed)
    BY DEF ListIsFormed
  <2>1. PICK lost \in BOOLEAN : Listed(outs, formed, lost, failed)
    BY DEF ListInv
  <2> DEFINE m == Len(formed)
             j == IF lost THEN m - 1 ELSE m
  <2>2. PICK i \in 1..(m + 1) : HasKeys(outs, formed, i, j) /\ (~failed => i = 1 /\ ~lost)
    BY <2>1 DEF Listed
  <2>3. /\ formed \in Seq(Keys) /\ m \in Nat /\ outs \in Seq(CBuff) /\ Len(outs) \in Nat
        /\ DOMAIN outs = 1..Len(outs)
    <3>1. formed \in Seq(Keys) /\ outs \in Seq(CBuff)
      BY DEF ListInv, FormedType, OutInv, ListOK
    <3> QED BY <3>1
  <2>4. j \in {m - 1, m} /\ (~failed => i = 1 /\ j = m) /\ j \in Int /\ j <= m
    BY <2>2, <2>3
  <2>5. /\ Len(outs) = (j - i) + 1
        /\ \A n \in 1..Len(outs) : outs[n].key = formed[(i + n) - 1]
    BY <2>2 DEF HasKeys
  <2> HIDE DEF j, m
  <2>6. [n \in DOMAIN outs |-> outs[n].key] = SubSeq(formed, i, j)
    <3>1. SubSeq(formed, i, j) = [n \in 1..((j - i) + 1) |-> formed[(i + n) - 1]]
      BY <2>3, <2>4
    <3> QED BY <2>3, <2>5, <3>1
  <2> QED BY <2>4, <2>6 DEF m
<1> QED BY <1>1, ListInitially, ListStep, OutInvariance, PTL DEF OutSpec

-----------------------------------------------------------------------------
(* DreLink, when both ends were given the same (SameEnds).                 *)
Area == 0..(DCacheSz - 1)
Cell == {Hole} \cup (Keys \X Nat)
Message == [compressed : BOOLEAN, dict_offset : Nat, key : Keys]

(* The decompressor at some point of the stream, ...                       *)
Decompressor == [mem : [Area -> Cell], pos : Nat, total : Nat]
Now == [mem |-> mem, pos |-> dpos, total |-> dtotal]

(* ... and what becomes of it when it reads a message.                     *)
Place(d, k) == IF d.pos + BlkLen[k] > DCacheSz THEN 0 ELSE d.pos
Stored(d, k) ==
  [mem |-> [p \in Area |-> IF p \in Place(d, k)..(Place(d, k) + BlkLen[k] - 1)
                             THEN <<k, p - Place(d, k) + 1>> ELSE d.mem[p]],
   pos |-> Place(d, k) + BlkLen[k],
   total |-> d.total + 1]
Reads(d, m) == IF IsNew(m) THEN Stored(d, m.key) ELSE d

Holds(d, off, k) ==
  \A i \in 1..BlkLen[k] : off + i - 1 \in Area /\ d.mem[off + i - 1] = <<k, i>>

(* The decompressor's future: D[j] is what it will be when it has read j   *)
(* of the messages in transit.                                             *)
Course(D) ==
  /\ D \in [0..Len(chan) -> Decompressor]
  /\ D[0] = Now
  /\ \A j \in 1..Len(chan) : D[j] = Reads(D[j - 1], chan[j])
  /\ \A j \in 0..Len(chan) : D[j].total = dtotal + Cardinality(NewIn(chan, j))

(* At each point of it every live block it has received is intact, and a   *)
(* compressor that went back to that point would write where it does.      *)
Agrees(d) ==
  /\ d.total <= nb_total_block
  /\ \A s \in Live : s < d.total => Holds(d, blk[s].off, blk[s].key)
  /\ d.total - 1 \in Live => d.pos = End(blk[d.total - 1])

(* What a message does at the point where it is read.                      *)
Right(d, m) ==
  /\ m.compressed => Holds(d, m.dict_offset, m.key)
  /\ IsNew(m) /\ d.total \in Live =>
       blk[d.total] = [key |-> m.key, off |-> m.dict_offset]

(* At the end of it, the two ends are alike.                               *)
Meets(d) == ~fault => d.pos = data_pos_wr /\ d.total = nb_total_block

Foreseen(D) ==
  /\ Course(D)
  /\ \A j \in 0..Len(chan) : Agrees(D[j])
  /\ \A j \in 1..Len(chan) : Right(D[j - 1], chan[j])
  /\ Meets(D[Len(chan)])

LinkInv ==
  /\ IInv
  /\ chan \in Seq(Message)
  /\ dtotal = 0 => last_block_size = 0
  /\ \E D : Foreseen(D)

-----------------------------------------------------------------------------
(* A block that is stored is there, and no other that lies apart from it   *)
(* is disturbed.                                                           *)
LEMMA StoredLemma ==
  ASSUME NEW d \in Decompressor, NEW k \in Keys
  PROVE  /\ Stored(d, k) \in Decompressor
         /\ Place(d, k) \in Nat
         /\ Stored(d, k).total = d.total + 1
         /\ Stored(d, k).pos = Place(d, k) + BlkLen[k]
         /\ Place(d, k) + BlkLen[k] <= DCacheSz => Holds(Stored(d, k), Place(d, k), k)
         /\ \A off \in Nat, l \in Keys :
              /\ off + BlkLen[l] <= Place(d, k) \/ Place(d, k) + BlkLen[k] <= off
              /\ Holds(d, off, l)
              => Holds(Stored(d, k), off, l)
<1> DEFINE pos == Place(d, k)
           len == BlkLen[k]
<1>1. /\ d.mem \in [Area -> Cell] /\ d.pos \in Nat /\ d.total \in Nat
      /\ len \in Nat /\ len > 0 /\ DCacheSz \in Nat
      /\ \A l \in Keys : BlkLen[l] \in Nat
  BY CacheAssumption, LinkAssumption DEF Decompressor
<1>2. pos \in Nat
  BY <1>1 DEF Place
<1>3. /\ Stored(d, k).total = d.total + 1
      /\ Stored(d, k).pos = pos + len
      /\ \A p \in Area : Stored(d, k).mem[p] =
           IF p \in pos..(pos + len - 1) THEN <<k, p - pos + 1>> ELSE d.mem[p]
  BY DEF Stored
<1>4. Stored(d, k) \in Decompressor
  <2>1. ASSUME NEW p \in Area
        PROVE  (IF p \in pos..(pos + len - 1) THEN <<k, p - pos + 1>> ELSE d.mem[p]) \in Cell
    <3>1. p \in Int
      BY <1>1 DEF Area
    <3>2. CASE p \in pos..(pos + len - 1)
      <4>1. p - pos + 1 \in Nat
        BY <3>1, <3>2, <1>1, <1>2
      <4> QED BY <4>1, <3>2 DEF Cell
    <3>3. CASE p \notin pos..(pos + len - 1)
      BY <3>3, <1>1
    <3> QED BY <3>2, <3>3
  <2>2. [p \in Area |-> IF p \in pos..(pos + len - 1) THEN <<k, p - pos + 1>> ELSE d.mem[p]]
          \in [Area -> Cell]
    BY <2>1
  <2>3. pos + len \in Nat /\ d.total + 1 \in Nat
    BY <1>1, <1>2
  <2> HIDE DEF pos, len
  <2> QED BY <2>2, <2>3 DEF Stored, Decompressor, pos, len
<1>5. ASSUME pos + len <= DCacheSz
      PROVE  Holds(Stored(d, k), pos, k)
  <2> SUFFICES ASSUME NEW i \in 1..len
               PROVE  pos + i - 1 \in Area /\ Stored(d, k).mem[pos + i - 1] = <<k, i>>
    BY DEF Holds
  <2>1. pos + i - 1 \in Area /\ pos + i - 1 \in pos..(pos + len - 1)
    BY <1>5, <1>1, <1>2 DEF Area
  <2>2. (pos + i - 1) - pos + 1 = i
    BY <1>1, <1>2
  <2> HIDE DEF pos, len
  <2> QED BY <2>1, <2>2, <1>3
<1>6. ASSUME NEW off \in Nat, NEW l \in Keys, Holds(d, off, l),
             off + BlkLen[l] <= pos \/ pos + len <= off
      PROVE  Holds(Stored(d, k), off, l)
  <2> SUFFICES ASSUME NEW i \in 1..BlkLen[l]
               PROVE  off + i - 1 \in Area /\ Stored(d, k).mem[off + i - 1] = <<l, i>>
    BY DEF Holds
  <2>1. off + i - 1 \in Area /\ d.mem[off + i - 1] = <<l, i>>
    BY <1>6 DEF Holds
  <2>2. off + i - 1 \notin pos..(pos + len - 1)
    BY <1>6, <1>1, <1>2
  <2> HIDE DEF pos, len
  <2> QED BY <2>1, <2>2, <1>3
<1> QED BY <1>2, <1>3, <1>4, <1>5, <1>6

(* What holds a block reads as the block.                                  *)
LEMMA HoldsLemma ==
  ASSUME NEW off \in Nat, NEW k \in Keys, mem \in [Area -> Cell], Holds(Now, off, k)
  PROVE  ReadMem(off, BlkLen[k]) = Bytes(k)
<1>1. \A i \in 1..BlkLen[k] : off + i - 1 \in DOMAIN mem /\ mem[off + i - 1] = <<k, i>>
  BY DEF Holds, Now
<1> QED BY <1>1 DEF ReadMem, Bytes

(* A block is known by its bytes.                                          *)
LEMMA BytesLemma ==
  ASSUME NEW k \in Keys
  PROVE  /\ Bytes(k) # <<>>
         /\ \A l \in Keys : Bytes(l) = Bytes(k) => l = k
         /\ BlockOf(Bytes(k)) = k
<1>1. \A l \in Keys : 1 \in 1..BlkLen[l] /\ BlkLen[l] \in Nat
  BY CacheAssumption
<1>2. \A l \in Keys : Bytes(l)[1] = <<l, 1>> /\ DOMAIN Bytes(l) = 1..BlkLen[l]
  BY <1>1 DEF Bytes
<1>3. Bytes(k) # <<>>
  <2>1. DOMAIN <<>> = {}
    OBVIOUS
  <2> QED BY <2>1, <1>1, <1>2
<1>4. \A l \in Keys : Bytes(l) = Bytes(k) => l = k
  BY <1>2
<1>5. BlockOf(Bytes(k)) = k
  BY <1>4 DEF BlockOf
<1> QED BY <1>3, <1>4, <1>5

(* What is known of a sequence of messages.                                *)
LEMMA ChanFacts ==
  ASSUME NEW c \in Seq(Message)
  PROVE  /\ Len(c) \in Nat /\ DOMAIN c = 1..Len(c)
         /\ \A j \in 1..Len(c) :
              /\ c[j] \in Message /\ c[j].key \in Keys
              /\ c[j].compressed \in BOOLEAN /\ c[j].dict_offset \in Nat
<1>1. Len(c) \in Nat /\ DOMAIN c = 1..Len(c)
  OBVIOUS
<1>2. \A j \in 1..Len(c) : c[j] \in Message
  OBVIOUS
<1> QED BY <1>1, <1>2 DEF Message

LEMMA NewInFinite ==
  ASSUME NEW c, NEW j \in Nat
  PROVE  IsFiniteSet(NewIn(c, j)) /\ Cardinality(NewIn(c, j)) \in Nat
<1>1. IsFiniteSet(1..j) /\ NewIn(c, j) \in SUBSET (1..j)
  BY FS_Interval DEF NewIn
<1>2. IsFiniteSet(NewIn(c, j))
  BY <1>1, FS_Subset
<1> QED BY <1>2, FS_CardinalityType

(* One more message, one more block or none.                               *)
LEMMA NewInStep ==
  ASSUME NEW c, NEW j \in Nat
  PROVE  Cardinality(NewIn(c, j + 1)) =
           Cardinality(NewIn(c, j)) + (IF IsNew(c[j + 1]) THEN 1 ELSE 0)
<1>1. NewIn(c, j + 1) = IF IsNew(c[j + 1]) THEN NewIn(c, j) \cup {j + 1} ELSE NewIn(c, j)
  <2>1. 1..(j + 1) = (1..j) \cup {j + 1}
    OBVIOUS
  <2>2. CASE IsNew(c[j + 1])
    BY <2>1, <2>2 DEF NewIn
  <2>3. CASE ~IsNew(c[j + 1])
    BY <2>1, <2>3 DEF NewIn
  <2> QED BY <2>2, <2>3
<1>2. j + 1 \notin NewIn(c, j)
  BY DEF NewIn
<1>3. IsFiniteSet(NewIn(c, j)) /\ Cardinality(NewIn(c, j)) \in Nat
  BY NewInFinite
<1>4. Cardinality(NewIn(c, j) \cup {j + 1}) = Cardinality(NewIn(c, j)) + 1
  BY <1>2, <1>3, FS_AddElement
<1> QED BY <1>1, <1>3, <1>4

LEMMA NewInNone == \A c : Cardinality(NewIn(c, 0)) = 0
<1>1. \A c : NewIn(c, 0) = {}
  BY DEF NewIn
<1> QED BY <1>1, FS_EmptySet

(* The same messages, the same blocks, ...                                 *)
LEMMA NewInSame ==
  ASSUME NEW c, NEW e, NEW j \in Nat, \A i \in 1..j : e[i] = c[i]
  PROVE  NewIn(e, j) = NewIn(c, j)
  BY DEF NewIn

(* ... also when they are one place further on.                            *)
LEMMA NewInShift ==
  ASSUME NEW c, NEW e, NEW j \in Nat, \A i \in 1..j : e[i] = c[i + 1]
  PROVE  Cardinality(NewIn(c, j + 1)) =
           Cardinality(NewIn(e, j)) + (IF IsNew(c[1]) THEN 1 ELSE 0)
<1> DEFINE S == NewIn(e, j)
           T == {i \in 2..(j + 1) : IsNew(c[i])}
           f == [i \in S |-> i + 1]
<1>1. IsFiniteSet(S)
  BY NewInFinite
<1>2. f \in Bijection(S, T)
  <2>1. \A i \in S : i \in Nat /\ i + 1 \in T
    BY DEF NewIn
  <2>2. \A t \in T : t - 1 \in S /\ (t - 1) + 1 = t
    <3> SUFFICES ASSUME NEW t \in T PROVE t - 1 \in S /\ (t - 1) + 1 = t
      OBVIOUS
    <3>1. t - 1 \in 1..j /\ (t - 1) + 1 = t
      OBVIOUS
    <3>2. e[t - 1] = c[t] /\ IsNew(c[t])
      BY <3>1
    <3> QED BY <3>1, <3>2 DEF NewIn
  <2>3. f \in [S -> T]
    BY <2>1
  <2>4. \A x, y \in S : f[x] = f[y] => x = y
    BY <2>1
  <2>5. \A t \in T : \E x \in S : f[x] = t
    BY <2>2
  <2> QED BY <2>3, <2>4, <2>5 DEF Bijection, Injection, IsInjective, Surjection
<1>3. IsFiniteSet(T) /\ Cardinality(T) = Cardinality(S) /\ Cardinality(S) \in Nat
  <2>1. ExistsBijection(S, T)
    BY <1>2 DEF ExistsBijection
  <2> QED BY <2>1, <1>1, FS_Bijection, NewInFinite
<1>4. NewIn(c, j + 1) = IF IsNew(c[1]) THEN T \cup {1} ELSE T
  <2>1. 1..(j + 1) = {1} \cup (2..(j + 1))
    OBVIOUS
  <2>2. CASE IsNew(c[1])
    BY <2>1, <2>2 DEF NewIn
  <2>3. CASE ~IsNew(c[1])
    BY <2>1, <2>3 DEF NewIn
  <2> QED BY <2>2, <2>3
<1>5. Cardinality(T \cup {1}) = Cardinality(T) + 1
  <2>1. 1 \notin T
    OBVIOUS
  <2> QED BY <2>1, <1>3, FS_AddElement
<1> QED BY <1>3, <1>4, <1>5

-----------------------------------------------------------------------------
(* What holds at a point of the stream still does after a step of the      *)
(* compressor that leaves the live blocks as they are, or fewer, but for   *)
(* the next to be numbered.                                                *)
LEMMA Kept ==
  ASSUME NEW d \in Decompressor, Agrees(d),
         nb_total_block \in Nat, d.total <= nb_total_block',
         \A s \in Live' : s \in Nat /\ (s # nb_total_block => s \in Live /\ blk'[s] = blk[s])
  PROVE  /\ Agrees(d)'
         /\ \A m : Right(d, m) /\ (IsNew(m) => d.total < nb_total_block) => Right(d, m)'
<1>1. d.total \in Nat /\ d.total <= nb_total_block
  BY DEF Decompressor, Agrees
<1>2. ASSUME NEW s \in Live', s < d.total
      PROVE  Holds(d, blk'[s].off, blk'[s].key)
  BY <1>1, <1>2 DEF Agrees
<1>3. d.total - 1 \in Live' => d.pos = End(blk'[d.total - 1])
  BY <1>1 DEF Agrees, End
<1>4. Agrees(d)'
  BY <1>2, <1>3 DEF Agrees, End
<1>5. ASSUME NEW m, Right(d, m), IsNew(m) => d.total < nb_total_block
      PROVE  Right(d, m)'
  BY <1>1, <1>5 DEF Right
<1> QED BY <1>4, <1>5

(* What Course says of each point and each message.                        *)
LEMMA CourseFacts ==
  ASSUME LinkInv, NEW D, Foreseen(D)
  PROVE  /\ Len(chan) \in Nat
         /\ \A j \in 0..Len(chan) : /\ D[j] \in Decompressor
                                    /\ D[j].total \in Nat /\ D[j].pos \in Nat
                                    /\ Agrees(D[j]) /\ D[j].total <= nb_total_block
         /\ \A j \in 1..Len(chan) :
              /\ chan[j] \in Message /\ j - 1 \in 0..Len(chan)
              /\ Right(D[j - 1], chan[j])
              /\ IsNew(chan[j]) => D[j - 1].total < nb_total_block
<1>1. Len(chan) \in Nat /\ \A j \in 1..Len(chan) : chan[j] \in Message /\ chan[j].key \in Keys
  BY ChanFacts DEF LinkInv
<1>2. \A j \in 0..Len(chan) : D[j] \in Decompressor /\ Agrees(D[j])
  BY DEF Foreseen, Course
<1>3. \A j \in 0..Len(chan) : D[j].total \in Nat /\ D[j].pos \in Nat
                              /\ D[j].total <= nb_total_block
  BY <1>2 DEF Decompressor, Agrees
<1>4. ASSUME NEW j \in 1..Len(chan), IsNew(chan[j])
      PROVE  D[j - 1].total < nb_total_block
  <2>1. j - 1 \in 0..Len(chan) /\ j \in 0..Len(chan)
    BY <1>1
  <2>2. D[j].total = D[j - 1].total + 1
    <3>1. D[j] = Stored(D[j - 1], chan[j].key)
      BY <1>4 DEF Foreseen, Course, Reads
    <3> QED BY <3>1, <2>1, <1>1, <1>2, StoredLemma
  <2>3. nb_total_block \in Nat
    BY DEF LinkInv, IInv, TypeOK
  <2> QED BY <2>1, <2>2, <2>3, <1>3
<1>5. \A j \in 1..Len(chan) : j - 1 \in 0..Len(chan) /\ Right(D[j - 1], chan[j])
  BY <1>1 DEF Foreseen
<1> QED BY <1>1, <1>2, <1>3, <1>4, <1>5

(* A message is sent.                                                      *)
LEMMA Appended ==
  ASSUME LinkInv, IInv', NEW D, Foreseen(D),
         NEW m \in Message, chan' = Append(chan, m), UNCHANGED decompVars,
         nb_total_block <= nb_total_block',
         \A s \in Live' : s \in Nat /\ (s # nb_total_block => s \in Live /\ blk'[s] = blk[s]),
         NEW n \in Nat, n = Len(chan),
         NEW last \in Decompressor, last = Reads(D[n], m),
         Agrees(last)', Right(D[n], m)', Meets(last)'
  PROVE  LinkInv'
<1>0. PICK E : E = [j \in 0..(n + 1) |-> IF j = n + 1 THEN last ELSE D[j]]
  OBVIOUS
<1>1. chan \in Seq(Message) /\ nb_total_block \in Nat /\ nb_total_block' \in Nat
  BY DEF LinkInv, IInv, TypeOK
<1>2. /\ n \in Nat /\ chan' \in Seq(Message) /\ Len(chan') = n + 1
      /\ chan'[n + 1] = m /\ \A j \in 1..n : chan'[j] = chan[j]
  BY <1>1
<1>3. /\ \A j \in 0..n : E[j] = D[j] /\ D[j] \in Decompressor
      /\ E[n + 1] = last
  <2>1. \A j \in 0..n : D[j] \in Decompressor
    BY CourseFacts
  <2> QED BY <2>1, <1>0
<1>4. Now' = Now /\ dtotal' = dtotal /\ last_block_size' = last_block_size
  BY DEF decompVars, Now
<1>5. Course(E)'
  <2>1. E \in [0..Len(chan') -> Decompressor]
    <3>1. \A j \in 0..(n + 1) : E[j] \in Decompressor
      BY <1>3
    <3> QED BY <3>1, <1>0, <1>2
  <2>2. E[0] = Now'
    BY <1>2, <1>3, <1>4 DEF Foreseen, Course
  <2>3. ASSUME NEW j \in 1..Len(chan')
        PROVE  E[j] = Reads(E[j - 1], chan'[j])
    <3>1. CASE j = n + 1
      <4>1. j - 1 = n /\ n \in 0..n
        BY <3>1, <1>2
      <4> QED BY <4>1, <3>1, <1>2, <1>3
    <3>2. CASE j \in 1..n
      <4>1. j - 1 \in 0..n /\ j \in 0..n
        BY <3>2, <1>2
      <4> QED BY <4>1, <3>2, <1>2, <1>3 DEF Foreseen, Course
    <3> QED BY <3>1, <3>2, <1>2
  <2>4. ASSUME NEW j \in 0..n
        PROVE  E[j].total = dtotal' + Cardinality(NewIn(chan', j))
    <3>1. NewIn(chan', j) = NewIn(chan, j)
      <4>1. j \in Nat /\ \A i \in 1..j : chan'[i] = chan[i]
        BY <1>2
      <4> QED BY <4>1, NewInSame
    <3> QED BY <3>1, <1>3, <1>4 DEF Foreseen, Course
  <2>5. E[n + 1].total = dtotal' + Cardinality(NewIn(chan', n + 1))
    <3>1. Cardinality(NewIn(chan', n + 1)) =
            Cardinality(NewIn(chan', n)) + (IF IsNew(m) THEN 1 ELSE 0)
      BY <1>2, NewInStep
    <3>2. last.total = D[n].total + (IF IsNew(m) THEN 1 ELSE 0)
      <4>0. D[n] \in Decompressor
        BY <1>3
      <4>1. D[n] \in Decompressor /\ m.key \in Keys /\ D[n].total \in Nat
        BY <4>0 DEF Message, Decompressor
      <4> QED BY <4>1, StoredLemma DEF Reads
    <3>3. D[n].total = dtotal' + Cardinality(NewIn(chan', n))
      BY <2>4, <1>2, <1>3
    <3>4. Cardinality(NewIn(chan', n)) \in Nat /\ dtotal' \in Nat
      <4>1. D[0] = Now /\ D[0] \in Decompressor
        BY <1>2, <1>3 DEF Foreseen, Course
      <4> QED BY <4>1, <1>2, <1>4, NewInFinite DEF Now, Decompressor
    <3> QED BY <3>1, <3>2, <3>3, <3>4, <1>3
  <2>6. \A j \in 0..Len(chan') : E[j].total = dtotal' + Cardinality(NewIn(chan', j))
    BY <2>4, <2>5, <1>2
  <2> QED BY <2>1, <2>2, <2>3, <2>6 DEF Course
<1>6. \A j \in 0..n :
        /\ Agrees(D[j])'
        /\ \A x : Right(D[j], x) /\ (IsNew(x) => D[j].total < nb_total_block) => Right(D[j], x)'
  <2> SUFFICES ASSUME NEW j \in 0..n
               PROVE  /\ Agrees(D[j])'
                      /\ \A x : Right(D[j], x) /\ (IsNew(x) => D[j].total < nb_total_block)
                                => Right(D[j], x)'
    OBVIOUS
  <2>1. /\ D[j] \in Decompressor /\ Agrees(D[j]) /\ D[j].total \in Nat
        /\ D[j].total <= nb_total_block
    BY CourseFacts
  <2>2. D[j].total <= nb_total_block'
    BY <2>1, <1>1
  <2> QED BY <2>1, <2>2, <1>1, Kept
<1>7. (\A j \in 0..Len(chan) : Agrees(E[j]))'
  <2>1. ASSUME NEW j \in 0..n PROVE Agrees(E[j])'
    BY <1>3, <1>6
  <2>2. Agrees(E[n + 1])'
    BY <1>3
  <2> QED BY <2>1, <2>2, <1>2
<1>8. (\A j \in 1..Len(chan) : Right(E[j - 1], chan[j]))'
  <2> SUFFICES ASSUME NEW j \in 1..(n + 1) PROVE Right(E[j - 1], chan[j])'
    BY <1>2
  <2>1. CASE j = n + 1
    <3>1. E[j - 1] = D[n] /\ chan'[j] = m
      BY <2>1, <1>2, <1>3
    <3> QED BY <3>1 DEF Right
  <2>2. CASE j \in 1..n
    <3>1. E[j - 1] = D[j - 1] /\ chan'[j] = chan[j] /\ j - 1 \in 0..n
      BY <2>2, <1>2, <1>3
    <3>2. PICK x : x = chan[j]
      OBVIOUS
    <3>3. Right(D[j - 1], x) /\ (IsNew(x) => D[j - 1].total < nb_total_block)
      BY <2>2, <3>2, CourseFacts
    <3>4. Right(D[j - 1], x)'
      BY <3>1, <3>3, <1>6
    <3> QED BY <3>1, <3>2, <3>4 DEF Right
  <2> QED BY <2>1, <2>2
<1>9. Meets(E[Len(chan)])'
  BY <1>2, <1>3 DEF Meets
<1>10. (\E F : Foreseen(F))'
  <2>1. Foreseen(E)'
    BY <1>5, <1>7, <1>8, <1>9 DEF Foreseen
  <2> QED BY <2>1
<1> QED BY <1>2, <1>4, <1>10 DEF LinkInv

-----------------------------------------------------------------------------
(* What an insertion does to the list.                                     *)
LEMMA InsertFacts ==
  ASSUME IInv, ~fault, NEW k \in Keys, InsertCache(k)
  PROVE  /\ nb_total_block \in Nat /\ nb_total_block' = nb_total_block + 1
         /\ \A s \in Live' : s \in Nat /\ (s # nb_total_block => s \in Live /\ blk'[s] = blk[s])
         /\ nb_total_block \in Live'
         /\ blk'[nb_total_block] = [key |-> k, off |-> WritePos(BlkLen[k])]
         /\ WritePos(BlkLen[k]) \in Nat
         /\ data_pos_wr' = WritePos(BlkLen[k]) + BlkLen[k]
         /\ fault' = fault
<1> DEFINE K == nb_total_block
           pos == WritePos(BlkLen[k])
<1>1. PICK f \in First..K :
        /\ ~(Edging(BlkLen[k]) /\ f = K)
        /\ blk' = [s \in AfterNewSlot(BlkLen[k], f)..K |->
                     IF s = K THEN [key |-> k, off |-> pos] ELSE blk[s]]
        /\ nb_block' = K + 1 - AfterNewSlot(BlkLen[k], f)
  BY DEF InsertCache
<1>2. PICK g : g = AfterNewSlot(BlkLen[k], f)
  OBVIOUS
<1>3. First \in Nat /\ K \in Nat /\ f \in Nat /\ First <= f /\ f <= K /\ data_pos_wr \in Nat
  BY LiveFacts DEF IInv, TypeOK
<1>4. g \in Nat /\ f <= g /\ g <= K
  BY <1>1, <1>2, <1>3 DEF AfterNewSlot
<1>5. K' = K + 1 /\ nb_block' = K + 1 - g
  BY <1>1, <1>2 DEF InsertCache
<1>6. Live' = g..K
  BY <1>3, <1>4, <1>5 DEF Live, First
<1>7. \A s \in g..K : s \in Nat /\ (s # K => s \in Live /\ blk'[s] = blk[s])
  BY <1>1, <1>2, <1>3, <1>4 DEF Live
<1>8. K \in g..K /\ blk'[K] = [key |-> k, off |-> pos]
  BY <1>1, <1>2, <1>3, <1>4
<1>9. pos \in Nat
  BY <1>3 DEF WritePos
<1> QED BY <1>3, <1>5, <1>6, <1>7, <1>8, <1>9 DEF InsertCache

(* A block that goes through the compressor's cache, as a reference ...    *)
LEMMA ReferenceSent ==
  ASSUME LinkInv, IInv', ~fault, NEW k \in Keys, NEW s \in Matches(k),
         UNCHANGED <<blk, nb_block, nb_total_block, data_pos_wr, edge, fault>>,
         NEW m, m = [compressed |-> TRUE, dict_offset |-> blk[s].off, key |-> k],
         chan' = Append(chan, m), UNCHANGED decompVars
  PROVE  LinkInv'
<1>1. PICK D : Foreseen(D)
  BY DEF LinkInv
<1>2. PICK n : n = Len(chan)
  OBVIOUS
<1>5. IInv /\ TypeOK /\ nb_total_block \in Nat
  BY DEF LinkInv, IInv, TypeOK
<1>6. /\ s \in Live /\ blk[s].key = k /\ blk[s].off \in Nat /\ s < nb_total_block
      /\ \A t \in Live : t \in Nat
  BY <1>5, LiveFacts DEF Matches
<1>7. /\ m \in Message /\ m.compressed /\ ~IsNew(m)
      /\ m.dict_offset = blk[s].off /\ m.key = k
  BY <1>6 DEF Message, IsNew
<1>8. Live' = Live /\ blk' = blk /\ nb_total_block' = nb_total_block
      /\ fault' = fault /\ data_pos_wr' = data_pos_wr
  BY DEF Live, First
<1>9. /\ n \in Nat /\ D[n] \in Decompressor /\ Agrees(D[n]) /\ Meets(D[n])
      /\ D[n].total = nb_total_block
  <2>1. n \in Nat /\ n \in 0..n
    BY <1>1, <1>2, CourseFacts
  <2>2. Meets(D[n])
    BY <1>1, <1>2 DEF Foreseen
  <2> QED BY <2>1, <2>2, <1>1, <1>2, CourseFacts DEF Meets
<1>10. Agrees(D[n])' /\ Meets(D[n])'
  BY <1>8, <1>9 DEF Agrees, Meets, End
<1>11. Right(D[n], m)'
  <2>1. Holds(D[n], m.dict_offset, m.key)
    BY <1>6, <1>7, <1>9 DEF Agrees
  <2> QED BY <2>1, <1>7 DEF Right
<1>12. Reads(D[n], m) = D[n]
  BY <1>7 DEF Reads
<1>13. \A t \in Live' : t \in Nat /\ (t # nb_total_block => t \in Live /\ blk'[t] = blk[t])
  BY <1>6, <1>8
<1>14. nb_total_block <= nb_total_block'
  BY <1>5, <1>8
<1> QED BY <1>1, <1>2, <1>5, <1>7, <1>9, <1>10, <1>11, <1>12, <1>13, <1>14, Appended

LEMMA SendReference ==
  ASSUME LinkInv, ~fault, NEW k \in Keys, Hit(k),
         chan' = Append(chan, out'), UNCHANGED decompVars
  PROVE  LinkInv'
<1>1. PICK s \in Matches(k) :
        /\ out' = [compressed |-> TRUE, dict_offset |-> blk[s].off, key |-> k]
        /\ UNCHANGED <<blk, nb_block, nb_total_block, data_pos_wr, edge, fault>>
  BY DEF Hit
<1>2. PICK m : m = out'
  OBVIOUS
<1>3. IInv'
  BY HitStep DEF LinkInv
<1> QED BY <1>1, <1>2, <1>3, ReferenceSent

(* ... or, if it is not there, to be stored at both ends alike.            *)
LEMMA NewSent ==
  ASSUME LinkInv, IInv', SameEnds, ~fault, NEW k \in Keys, InsertCache(k), BlkLen[k] >= MinBlk,
         NEW m, m = [compressed |-> FALSE, dict_offset |-> WritePos(BlkLen[k]), key |-> k],
         chan' = Append(chan, m), UNCHANGED decompVars
  PROVE  LinkInv'
<1> DEFINE K == nb_total_block
<1>1. PICK D : Foreseen(D)
  BY DEF LinkInv
<1>2. PICK n : n = Len(chan)
  OBVIOUS
<1>3. PICK pos : pos = WritePos(BlkLen[k])
  OBVIOUS
<1>5. IInv /\ IInv'
  BY DEF LinkInv
<1>6. /\ K \in Nat /\ K' = K + 1 /\ K \in Live'
      /\ \A s \in Live' : s \in Nat /\ (s # K => s \in Live /\ blk'[s] = blk[s])
      /\ blk'[K] = [key |-> k, off |-> pos] /\ pos \in Nat
      /\ data_pos_wr' = pos + BlkLen[k] /\ fault' = fault
      /\ m = [compressed |-> FALSE, dict_offset |-> pos, key |-> k]
  BY <1>3, <1>5, InsertFacts
<1>7. m \in Message /\ IsNew(m) /\ ~m.compressed /\ m.key = k /\ m.dict_offset = pos
  BY <1>6 DEF Message, IsNew, SameEnds
<1>8. /\ n \in Nat /\ D[n] \in Decompressor /\ Agrees(D[n])
      /\ D[n].total = K /\ D[n].pos = data_pos_wr
  <2>1. n \in Nat /\ n \in 0..n
    BY <1>1, <1>2, CourseFacts
  <2>2. Meets(D[n])
    BY <1>1, <1>2 DEF Foreseen
  <2> QED BY <2>1, <2>2, <1>1, <1>2, CourseFacts DEF Meets
<1>9. PICK last : last = Stored(D[n], k)
  OBVIOUS
<1>10. Place(D[n], k) = pos
  BY <1>3, <1>8 DEF Place, WritePos, Rotates, SameEnds
<1>11. pos + BlkLen[k] <= DCacheSz
  <2>1. data_pos_wr' <= CacheSz
    BY <1>5 DEF IInv
  <2> QED BY <2>1, <1>6 DEF SameEnds
<1>12. /\ last \in Decompressor /\ last.total = K + 1 /\ last.pos = pos + BlkLen[k]
       /\ Holds(last, pos, k)
       /\ \A off \in Nat, l \in Keys :
            /\ off + BlkLen[l] <= pos \/ pos + BlkLen[k] <= off
            /\ Holds(D[n], off, l)
            => Holds(last, off, l)
  BY <1>8, <1>9, <1>10, <1>11, StoredLemma
<1>13. Agrees(last)'
  <2>1. ASSUME NEW s \in Live'
        PROVE  Holds(last, blk'[s].off, blk'[s].key)
    <3>1. CASE s = K
      BY <3>1, <1>6, <1>12
    <3>2. CASE s # K
      <4>1. s \in Live /\ blk'[s] = blk[s]
        BY <2>1, <3>2, <1>6
      <4>2. s < K /\ blk[s].off \in Nat /\ blk[s].key \in Keys
        BY <4>1, <1>5, LiveFacts DEF IInv
      <4>3. Holds(D[n], blk[s].off, blk[s].key)
        BY <4>1, <4>2, <1>8 DEF Agrees
      <4>4. LiveDisjoint'
        BY <1>5, Disjoint, PTL
      <4>5. /\ blk'[s].off + BlkLen[blk'[s].key] <= blk'[K].off
            \/ blk'[K].off + BlkLen[blk'[K].key] <= blk'[s].off
        BY <4>4, <2>1, <3>2, <1>6 DEF LiveDisjoint, End
      <4> QED BY <4>1, <4>2, <4>3, <4>5, <1>6, <1>12
    <3> QED BY <3>1, <3>2
  <2>2. last.total <= K'
    BY <1>6, <1>12
  <2>3. last.total - 1 = K /\ last.pos = blk'[K].off + BlkLen[blk'[K].key]
    BY <1>6, <1>12
  <2> QED BY <2>1, <2>2, <2>3 DEF Agrees, End
<1>14. Meets(last)'
  BY <1>6, <1>12 DEF Meets
<1>15. Right(D[n], m)'
  BY <1>6, <1>7, <1>8 DEF Right
<1>16. Reads(D[n], m) = last
  BY <1>7, <1>9 DEF Reads
<1>17. K <= K'
  BY <1>6
<1> QED BY <1>1, <1>2, <1>5, <1>6, <1>7, <1>8, <1>12, <1>13, <1>14, <1>15, <1>16, <1>17, Appended

LEMMA SendNew ==
  ASSUME LinkInv, SameEnds, ~fault, NEW k \in Keys, Insert(k), BlkLen[k] >= MinBlk,
         chan' = Append(chan, out'), UNCHANGED decompVars
  PROVE  LinkInv'
<1>1. PICK m : m = out'
  OBVIOUS
<1>2. InsertCache(k) /\ m = [compressed |-> FALSE, dict_offset |-> WritePos(BlkLen[k]), key |-> k]
  BY <1>1 DEF Insert, InsertCache
<1>3. IInv'
  BY InsertStep DEF LinkInv
<1> QED BY <1>1, <1>2, <1>3, NewSent

(* A tail too short for the cache leaves both ends as they are.            *)
LEMMA SmallSent ==
  ASSUME LinkInv, IInv', SameEnds, NEW k \in Keys, BlkLen[k] < MinBlk,
         UNCHANGED <<blk, nb_block, nb_total_block, data_pos_wr, edge, fault>>,
         NEW m, m = [compressed |-> FALSE, dict_offset |-> 0, key |-> k],
         chan' = Append(chan, m), UNCHANGED decompVars
  PROVE  LinkInv'
<1>1. PICK D : Foreseen(D)
  BY DEF LinkInv
<1>2. PICK n : n = Len(chan)
  OBVIOUS
<1>4. m \in Message /\ ~m.compressed /\ ~IsNew(m)
  <2>1. BlkLen[k] \in Nat /\ MinBlk \in Nat /\ BlkLen[k] < DMinBlk
    BY CacheAssumption DEF SameEnds
  <2>2. m.compressed = FALSE /\ m.dict_offset = 0 /\ m.key = k
    OBVIOUS
  <2>3. ~m.compressed /\ ~IsNew(m)
    <3>1. ~(BlkLen[k] >= DMinBlk)
      BY <2>1 DEF SameEnds
    <3> QED BY <2>2, <3>1 DEF IsNew
  <2>4. m \in [compressed : BOOLEAN, dict_offset : Nat, key : Keys]
    OBVIOUS
  <2> QED BY <2>3, <2>4 DEF Message
<1>5. IInv /\ TypeOK /\ nb_total_block \in Nat
  BY DEF LinkInv, IInv, TypeOK
<1>6. Live' = Live /\ blk' = blk /\ nb_total_block' = nb_total_block
      /\ fault' = fault /\ data_pos_wr' = data_pos_wr
  BY DEF Live, First
<1>7. n \in Nat /\ D[n] \in Decompressor /\ Agrees(D[n]) /\ Meets(D[n])
  <2>1. n \in Nat /\ n \in 0..n
    BY <1>1, <1>2, CourseFacts
  <2>2. Meets(D[n])
    BY <1>1, <1>2 DEF Foreseen
  <2> QED BY <2>1, <2>2, <1>1, <1>2, CourseFacts
<1>8. Agrees(D[n])' /\ Meets(D[n])'
  BY <1>6, <1>7 DEF Agrees, Meets, End
<1>9. Right(D[n], m)'
  BY <1>4 DEF Right
<1>10. Reads(D[n], m) = D[n]
  BY <1>4 DEF Reads
<1>11. \A t \in Live' : t \in Nat /\ (t # nb_total_block => t \in Live /\ blk'[t] = blk[t])
  BY <1>5, <1>6, LiveFacts
<1>12. nb_total_block <= nb_total_block'
  BY <1>5, <1>6
<1> QED BY <1>1, <1>2, <1>4, <1>5, <1>7, <1>8, <1>9, <1>10, <1>11, <1>12, Appended

LEMMA SendSmall ==
  ASSUME LinkInv, SameEnds, NEW k \in Keys, FlushSmall(k),
         chan' = Append(chan, out'), UNCHANGED decompVars
  PROVE  LinkInv'
<1>1. PICK m : m = out'
  OBVIOUS
<1>2. /\ m = [compressed |-> FALSE, dict_offset |-> 0, key |-> k] /\ m \in OutBuff
      /\ BlkLen[k] < MinBlk
      /\ UNCHANGED <<blk, nb_block, nb_total_block, data_pos_wr, edge, fault>>
  BY <1>1 DEF FlushSmall, OutBuff
<1>3. IInv'
  BY <1>1, <1>2, OutStep DEF LinkInv
<1> QED BY <1>1, <1>2, <1>3, SmallSent

-----------------------------------------------------------------------------
(* A step of the compressor that sends nothing: its process dies, or it is *)
(* closed and opened again.                                                *)
LEMMA Unsent ==
  ASSUME LinkInv, IInv', UNCHANGED <<chan, decompVars>>,
         nb_total_block <= nb_total_block',
         \A s \in Live' : s \in Nat /\ (s # nb_total_block => s \in Live /\ blk'[s] = blk[s]),
         ~fault' => ~fault /\ data_pos_wr' = data_pos_wr /\ nb_total_block' = nb_total_block
  PROVE  LinkInv'
<1>1. PICK D : Foreseen(D)
  BY DEF LinkInv
<1>2. nb_total_block \in Nat /\ nb_total_block' \in Nat
  BY DEF LinkInv, IInv, TypeOK
<1>3. Now' = Now /\ dtotal' = dtotal /\ last_block_size' = last_block_size /\ chan' = chan
  BY DEF decompVars, Now
<1>4. Course(D)'
  BY <1>1, <1>3 DEF Foreseen, Course, NewIn
<1>5. \A j \in 0..Len(chan) :
        /\ Agrees(D[j])'
        /\ \A x : Right(D[j], x) /\ (IsNew(x) => D[j].total < nb_total_block) => Right(D[j], x)'
  <2> SUFFICES ASSUME NEW j \in 0..Len(chan)
               PROVE  /\ Agrees(D[j])'
                      /\ \A x : Right(D[j], x) /\ (IsNew(x) => D[j].total < nb_total_block)
                                => Right(D[j], x)'
    OBVIOUS
  <2>1. /\ D[j] \in Decompressor /\ Agrees(D[j]) /\ D[j].total \in Nat
        /\ D[j].total <= nb_total_block
    BY <1>1, CourseFacts
  <2>2. D[j].total <= nb_total_block'
    BY <2>1, <1>2
  <2> QED BY <2>1, <2>2, <1>2, Kept
<1>6. (\A j \in 0..Len(chan) : Agrees(D[j]))'
  BY <1>3, <1>5
<1>7. (\A j \in 1..Len(chan) : Right(D[j - 1], chan[j]))'
  <2> SUFFICES ASSUME NEW j \in 1..Len(chan) PROVE Right(D[j - 1], chan[j])'
    BY <1>3
  <2>1. PICK x : x = chan[j]
    OBVIOUS
  <2>2. j - 1 \in 0..Len(chan) /\ Right(D[j - 1], x)
        /\ (IsNew(x) => D[j - 1].total < nb_total_block)
    BY <1>1, <2>1, CourseFacts
  <2>3. Right(D[j - 1], x)'
    BY <2>2, <1>5
  <2> QED BY <2>1, <2>3, <1>3 DEF Right
<1>8. Meets(D[Len(chan)])'
  BY <1>1, <1>3 DEF Foreseen, Meets
<1>9. Foreseen(D)'
  BY <1>4, <1>6, <1>7, <1>8 DEF Foreseen
<1> QED BY <1>3, <1>9 DEF LinkInv

(* A message is read: what was to come has come.                           *)
LEMMA ReceiveStep ==
  ASSUME LinkInv, Receive
  PROVE  LinkInv'
<1>1. PICK D : Foreseen(D)
  BY DEF LinkInv
<1>2. PICK n : n = Len(chan)
  OBVIOUS
<1>3. /\ chan # <<>> /\ chan' = Tail(chan) /\ UNCHANGED vars
  BY DEF Receive
<1>4. /\ chan \in Seq(Message) /\ n \in Nat /\ n > 0 /\ n - 1 \in Nat
      /\ chan' \in Seq(Message) /\ Len(chan') = n - 1
      /\ \A j \in 1..(n - 1) : chan'[j] = chan[j + 1]
      /\ Head(chan) = chan[1] /\ chan[1] \in Message
  BY <1>2, <1>3 DEF LinkInv
<1>5. PICK E : E = [j \in 0..(n - 1) |-> D[j + 1]]
  OBVIOUS
<1>6. \A j \in 0..n : D[j] \in Decompressor
  BY <1>1, <1>2, CourseFacts
<1>7. \A j \in 0..(n - 1) : E[j] = D[j + 1] /\ j + 1 \in 0..n /\ D[j + 1] \in Decompressor
  BY <1>4, <1>5, <1>6
<1>8. chan[1].key \in Keys
  BY <1>4 DEF Message
<1>9. /\ Now' = Reads(Now, chan[1])
      /\ dtotal' = dtotal + (IF IsNew(chan[1]) THEN 1 ELSE 0)
      /\ IF IsNew(chan[1]) THEN dtotal' = dtotal + 1 ELSE last_block_size' = last_block_size
  <2>0. /\ D[0] = Now /\ dtotal \in Nat /\ dpos \in Nat /\ mem \in [Area -> Cell]
        /\ D[0] \in Decompressor
    <3>1. D[0] = Now /\ D[0] \in Decompressor
      BY <1>1, <1>4, <1>6 DEF Foreseen, Course
    <3> QED BY <3>1 DEF Decompressor, Now
  <2>1. CASE IsNew(chan[1])
    <3>1. StoreBlock(chan[1].key) /\ BlkLen[chan[1].key] >= DMinBlk
      BY <2>1, <1>4 DEF Receive, IsNew
    <3>2. PICK k \in Keys : k = chan[1].key
      BY <1>8
    <3>3. PICK pos : pos = Place(Now, k)
      OBVIOUS
    <3>4. pos = IF dpos + BlkLen[k] > DCacheSz THEN 0 ELSE dpos
      BY <3>3 DEF Place, Now
    <3>5. /\ mem' = [p \in Area |->
                      IF p \in pos..(pos + BlkLen[k] - 1) THEN <<k, p - pos + 1>> ELSE mem[p]]
          /\ dpos' = pos + BlkLen[k] /\ dtotal' = dtotal + 1
      BY <3>1, <3>2, <3>4, <2>0 DEF StoreBlock
    <3>6. Reads(Now, chan[1]) = Stored(Now, k)
      BY <2>1, <3>2 DEF Reads
    <3> QED BY <2>1, <3>3, <3>5, <3>6 DEF Stored, Now
  <2>2. CASE ~IsNew(chan[1])
    <3>1. UNCHANGED <<mem, dpos, dtotal, dnb, last_block_size>>
      <4>1. CASE chan[1].compressed
        BY <4>1, <1>4 DEF Receive
      <4>2. CASE ~chan[1].compressed
        <5>1. StoreBlock(chan[1].key) /\ ~(BlkLen[chan[1].key] >= DMinBlk)
          BY <4>2, <2>2, <1>4 DEF Receive, IsNew
        <5> QED BY <5>1 DEF StoreBlock
      <4> QED BY <4>1, <4>2
    <3> QED BY <2>0, <2>2, <3>1 DEF Reads, Now
  <2> QED BY <2>1, <2>2
<1>10. Course(E)'
  <2>1. E \in [0..Len(chan') -> Decompressor]
    BY <1>4, <1>5, <1>7
  <2>2. E[0] = Now'
    <3>1. E[0] = D[1] /\ 1 - 1 = 0 /\ 1 \in 1..n
      BY <1>4, <1>7
    <3>2. D[1] = Reads(D[0], chan[1]) /\ D[0] = Now
      BY <3>1, <1>1, <1>2 DEF Foreseen, Course
    <3> QED BY <3>1, <3>2, <1>9
  <2>3. ASSUME NEW j \in 1..Len(chan')
        PROVE  E[j] = Reads(E[j - 1], chan'[j])
    <3>1. j + 1 \in 1..n /\ (j + 1) - 1 = j /\ j - 1 \in 0..(n - 1) /\ j \in 0..(n - 1)
          /\ (j - 1) + 1 = j /\ j \in 1..(n - 1)
      BY <1>4
    <3>2. D[j + 1] = Reads(D[j], chan[j + 1])
      BY <3>1, <1>1, <1>2 DEF Foreseen, Course
    <3> QED BY <3>1, <3>2, <1>4, <1>7
  <2>4. ASSUME NEW j \in 0..Len(chan')
        PROVE  E[j].total = dtotal' + Cardinality(NewIn(chan', j))
    <3>1. j \in Nat /\ j \in 0..(n - 1) /\ \A i \in 1..j : chan'[i] = chan[i + 1]
      BY <1>4
    <3>2. Cardinality(NewIn(chan, j + 1)) =
            Cardinality(NewIn(chan', j)) + (IF IsNew(chan[1]) THEN 1 ELSE 0)
      BY <3>1, NewInShift
    <3>3. D[j + 1].total = dtotal + Cardinality(NewIn(chan, j + 1))
      BY <3>1, <1>1, <1>2, <1>7 DEF Foreseen, Course
    <3>4. Cardinality(NewIn(chan', j)) \in Nat /\ dtotal \in Nat
      <4>1. D[0] = Now /\ D[0] \in Decompressor
        BY <1>1, <1>4, <1>6 DEF Foreseen, Course
      <4> QED BY <4>1, <3>1, NewInFinite DEF Now, Decompressor
    <3> QED BY <3>1, <3>2, <3>3, <3>4, <1>7, <1>9
  <2> QED BY <2>1, <2>2, <2>3, <2>4 DEF Course
<1>11. (\A j \in 0..Len(chan) : Agrees(E[j]))'
  <2> SUFFICES ASSUME NEW j \in 0..(n - 1) PROVE Agrees(E[j])'
    BY <1>4
  <2>1. E[j] = D[j + 1] /\ Agrees(D[j + 1])
    BY <1>1, <1>2, <1>7, CourseFacts
  <2> QED BY <2>1, <1>3 DEF Agrees, vars, Live, First, End
<1>12. (\A j \in 1..Len(chan) : Right(E[j - 1], chan[j]))'
  <2> SUFFICES ASSUME NEW j \in 1..(n - 1) PROVE Right(E[j - 1], chan[j])'
    BY <1>4
  <2>1. j + 1 \in 1..n /\ (j + 1) - 1 = j /\ j - 1 \in 0..(n - 1) /\ (j - 1) + 1 = j
    BY <1>4
  <2>2. Right(D[j], chan[j + 1]) /\ E[j - 1] = D[j] /\ chan'[j] = chan[j + 1]
    BY <2>1, <1>1, <1>2, <1>4, <1>7, CourseFacts
  <2> QED BY <2>2, <1>3 DEF Right, vars, Live, First
<1>13. Meets(E[Len(chan)])'
  <2>1. E[n - 1] = D[n]
    BY <1>4, <1>7
  <2> QED BY <2>1, <1>1, <1>2, <1>3, <1>4 DEF Foreseen, Meets, vars
<1>14. Foreseen(E)'
  BY <1>10, <1>11, <1>12, <1>13 DEF Foreseen
<1>15. IInv'
  <2>1. [Next]_vars
    BY <1>3
  <2> QED BY <2>1, Step DEF LinkInv
<1>16. dtotal' = 0 => last_block_size' = 0
  <2>1. dtotal \in Nat
    <3>1. D[0] = Now /\ D[0] \in Decompressor
      BY <1>1, <1>4, <1>6 DEF Foreseen, Course
    <3> QED BY <3>1 DEF Now, Decompressor
  <2> QED BY <2>1, <1>9 DEF LinkInv
<1> QED BY <1>4, <1>14, <1>15, <1>16 DEF LinkInv

-----------------------------------------------------------------------------
(* Nothing in transit and both ends alike is a good place to start from.   *)
LEMMA Restart ==
  ASSUME IInv, chan = <<>>, Now \in Decompressor, Agrees(Now), Meets(Now),
         dtotal = 0 => last_block_size = 0
  PROVE  LinkInv
<1>1. PICK D : D = [j \in 0..0 |-> Now]
  OBVIOUS
<1>2. chan \in Seq(Message) /\ Len(chan) = 0
  OBVIOUS
<1>3. D \in [0..Len(chan) -> Decompressor] /\ D[0] = Now
  BY <1>1, <1>2
<1>4. \A j \in 0..Len(chan) : D[j].total = dtotal + Cardinality(NewIn(chan, j))
  <2> SUFFICES ASSUME NEW j \in 0..Len(chan)
               PROVE  D[j].total = dtotal + Cardinality(NewIn(chan, j))
    OBVIOUS
  <2>1. j = 0 /\ D[j].total = dtotal
    BY <1>2, <1>3 DEF Now
  <2>2. dtotal \in Nat
    BY DEF Now, Decompressor
  <2> QED BY <2>1, <2>2, NewInNone
<1>5. Course(D)
  BY <1>2, <1>3, <1>4 DEF Course
<1>6. Foreseen(D)
  BY <1>2, <1>3, <1>5 DEF Foreseen
<1> QED BY <1>2, <1>6 DEF LinkInv

(* The decompressor as it is.                                              *)
LEMMA NowFacts ==
  ASSUME LinkInv
  PROVE  /\ Now \in Decompressor /\ Agrees(Now) /\ mem \in [Area -> Cell]
         /\ dpos \in Nat /\ dtotal \in Nat
         /\ chan = <<>> => Meets(Now)
         /\ chan # <<>> => Right(Now, chan[1])
<1>1. PICK D : Foreseen(D)
  BY DEF LinkInv
<1>2. 0 \in 0..Len(chan) /\ D[0] = Now
  BY <1>1, CourseFacts DEF Foreseen, Course
<1>3. D[0] \in Decompressor /\ Agrees(D[0])
  BY <1>1, <1>2, CourseFacts
<1>4. chan = <<>> => Meets(Now)
  BY <1>1, <1>2 DEF Foreseen
<1>5. ASSUME chan # <<>> PROVE Right(Now, chan[1])
  <2>1. 1 \in 1..Len(chan) /\ 1 - 1 = 0
    BY <1>5 DEF LinkInv
  <2> QED BY <2>1, <1>1, <1>2, CourseFacts
<1> QED BY <1>2, <1>3, <1>4, <1>5 DEF Now, Decompressor

LEMMA BlankStart ==
  ASSUME IInv, nb_total_block = 0, nb_block = 0, data_pos_wr = 0,
         chan = <<>>, mem = Blank, dpos = 0, dtotal = 0, last_block_size = 0
  PROVE  LinkInv
<1>1. Live = {}
  BY DEF Live, First
<1>2. mem \in [Area -> Cell]
  BY DEF Blank, Area, Cell
<1>3. Now \in Decompressor /\ Now.total = 0 /\ Now.pos = 0
  BY <1>2 DEF Now, Decompressor
<1>4. Agrees(Now) /\ Meets(Now)
  BY <1>1, <1>3 DEF Agrees, Meets
<1> QED BY <1>3, <1>4, Restart

LEMMA LinkInitially == LinkInit => LinkInv
<1> SUFFICES ASSUME LinkInit PROVE LinkInv
  OBVIOUS
<1>1. IInv
  BY Initially DEF LinkInit
<1> QED BY <1>1, BlankStart DEF LinkInit, Init

(* What a reload leaves.                                                   *)
LEMMA CutFacts ==
  ASSUME IInv, NEW total \in Nat, Cut(total)
  PROVE  /\ IInv' /\ ~fault /\ ~fault'
         /\ nb_total_block \in Nat /\ total <= nb_total_block
         /\ total - 1 \in Live /\ nb_total_block - 1 \in Live
         /\ nb_total_block' = total /\ data_pos_wr' = End(blk[total - 1])
         /\ \A s \in Live' : s \in Nat /\ s < total /\ s \in Live /\ blk'[s] = blk[s]
<1>1. First \in Nat /\ nb_total_block \in Nat /\ nb_block \in Nat
      /\ First <= nb_total_block /\ First = nb_total_block - nb_block
  BY LiveFacts DEF IInv, TypeOK, First
<1>2. /\ ~fault /\ fault' = fault /\ First < total /\ total <= nb_total_block
      /\ blk' = [s \in First..(total - 1) |-> blk[s]]
      /\ nb_block' = total - First /\ nb_total_block' = total
      /\ data_pos_wr' = End(blk[total - 1])
  BY DEF Cut
<1>3. total - 1 \in Live /\ nb_total_block - 1 \in Live
  BY <1>1, <1>2 DEF Live
<1>4. Live' = First..(total - 1)
  BY <1>1, <1>2 DEF Live, First
<1>5. \A s \in First..(total - 1) :
        s \in Nat /\ s < total /\ s \in Live /\ blk'[s] = blk[s]
  BY <1>1, <1>2 DEF Live
<1> QED BY <1>1, <1>2, <1>3, <1>4, <1>5, CutStep

LEMMA LoadFacts ==
  ASSUME IInv, NEW m \in Nat, Load(m),
         NEW total, total = IF m = 0 THEN nb_total_block ELSE m
  PROVE  /\ IInv' /\ ~fault /\ ~fault'
         /\ nb_total_block \in Nat /\ total \in Nat /\ total <= nb_total_block
         /\ total - 1 \in Live /\ nb_total_block - 1 \in Live
         /\ nb_total_block' = total /\ data_pos_wr' = End(blk[total - 1])
         /\ \A s \in Live' : s \in Nat /\ s < total /\ s \in Live /\ blk'[s] = blk[s]
<1>1. Cut(total) /\ total \in Nat
  BY LoadCuts
<1> QED BY <1>1, CutFacts

LEMMA ReopenStep ==
  ASSUME LinkInv, Reopen
  PROVE  LinkInv'
<1>1. PICK K : K = nb_total_block
  OBVIOUS
<1>2. IInv /\ Load(0) /\ UNCHANGED <<chan, decompVars>>
  BY DEF LinkInv, Reopen
<1>3. /\ IInv' /\ ~fault /\ K \in Nat /\ K - 1 \in Live /\ nb_total_block' = K
      /\ data_pos_wr' = End(blk[K - 1])
      /\ \A s \in Live' : s \in Nat /\ s \in Live /\ blk'[s] = blk[s]
  BY <1>1, <1>2, LoadFacts
<1>4. data_pos_wr' = data_pos_wr
  <2>1. K # 0
    BY <1>1, <1>2, <1>3, LiveFacts DEF IInv
  <2> QED BY <2>1, <1>1, <1>2, <1>3 DEF IInv, Latest
<1> QED BY <1>1, <1>2, <1>3, <1>4, Unsent

(* Going back to where the decompressor is.  It has no block at all only   *)
(* if it can report no crc, which that of a loaded block never equals.     *)
LEMMA GoneBack ==
  ASSUME IInv, dtotal \in Nat, dtotal > 0, Cut(dtotal), Now \in Decompressor,
         \A s \in Live : s < dtotal => Holds(Now, blk[s].off, blk[s].key),
         dpos = End(blk[dtotal - 1]), chan' = <<>>, UNCHANGED decompVars
  PROVE  LinkInv'
<1>1. /\ IInv' /\ dtotal - 1 \in Live /\ nb_total_block' = dtotal
      /\ data_pos_wr' = End(blk[dtotal - 1])
      /\ \A s \in Live' : s \in Nat /\ s < dtotal /\ s \in Live /\ blk'[s] = blk[s]
  BY CutFacts
<1>2. Now' = Now /\ dtotal' = dtotal /\ last_block_size' = last_block_size
      /\ Now.total = dtotal /\ Now.pos = dpos
  BY DEF decompVars, Now
<1>3. Agrees(Now)'
  <2>1. \A s \in Live' : Holds(Now', blk'[s].off, blk'[s].key)
    BY <1>1, <1>2
  <2>2. Now'.total - 1 \in Live' => Now'.pos = blk'[Now'.total - 1].off
                                             + BlkLen[blk'[Now'.total - 1].key]
    BY <1>1, <1>2 DEF End
  <2> QED BY <2>1, <2>2, <1>1, <1>2 DEF Agrees, End
<1>4. Meets(Now)'
  BY <1>1, <1>2 DEF Meets
<1>5. (/\ IInv /\ chan = <<>> /\ Now \in Decompressor /\ Agrees(Now) /\ Meets(Now)
       /\ (dtotal = 0 => last_block_size = 0))'
  BY <1>1, <1>2, <1>3, <1>4
<1> QED BY <1>5, Restart, PTL

LEMMA ResumeStep ==
  ASSUME LinkInv, Resume
  PROVE  LinkInv'
<1>1. /\ Load(dtotal) /\ LoadedCrc(dtotal) = LastBlockCrc
      /\ chan' = <<>> /\ UNCHANGED decompVars
  BY DEF Resume
<1>2. /\ IInv /\ Now \in Decompressor /\ Agrees(Now) /\ dtotal \in Nat /\ dpos \in Nat
      /\ Now.total = dtotal /\ Now.pos = dpos
      /\ dtotal = 0 => last_block_size = 0
  BY NowFacts DEF LinkInv, Now
<1>3. dtotal # 0
  <2> SUFFICES ASSUME dtotal = 0 PROVE FALSE
    OBVIOUS
  <2>1. nb_total_block - 1 \in Live
    BY <1>1, <1>2, LoadFacts
  <2>2. blk[nb_total_block - 1].key \in Keys
    BY <2>1, <1>2, LiveFacts DEF IInv
  <2>3. LastBlockCrc = <<>>
    BY <1>2 DEF LastBlockCrc, ReadMem
  <2>4. LoadedCrc(dtotal) = Bytes(blk[nb_total_block - 1].key)
    BY DEF LoadedCrc
  <2> QED BY <2>2, <2>3, <2>4, <1>1, BytesLemma
<1>4. Cut(dtotal) /\ dtotal - 1 \in Live
  BY <1>1, <1>2, <1>3, LoadCuts, LoadFacts
<1>5. dpos = End(blk[dtotal - 1])
  BY <1>2, <1>4 DEF Agrees
<1>6. \A s \in Live : s < dtotal => Holds(Now, blk[s].off, blk[s].key)
  BY <1>2 DEF Agrees
<1> QED BY <1>1, <1>2, <1>3, <1>4, <1>5, <1>6, GoneBack

-----------------------------------------------------------------------------
(* Every step of the two ends keeps the invariant.                         *)
LEMMA LinkStep == SameEnds /\ LinkInv /\ [LinkNext]_linkVars => LinkInv'
<1> SUFFICES ASSUME SameEnds, LinkInv, [LinkNext]_linkVars PROVE LinkInv'
  OBVIOUS
<1>1. ASSUME NEW k \in Keys, Send(k)  PROVE LinkInv'
  <2>1. /\ ~fault /\ UNCHANGED decompVars
        /\ FlushSmall(k) \/ (BlkLen[k] >= MinBlk /\ Store(k))
    <3>1. BlkLen[k] \in Nat /\ MinBlk \in Nat /\ StreamMin \in Nat
      BY CacheAssumption
    <3> QED BY <3>1, <1>1 DEF Send, CompressBlock, Flush, FlushSmall, SameEnds
  <2>2. CASE FlushSmall(k)
    BY <2>1, <2>2, <1>1, SendSmall DEF Send, FlushSmall
  <2>3. CASE BlkLen[k] >= MinBlk /\ Hit(k)
    <3>1. fault' = fault
      BY <2>3 DEF Hit
    <3> QED BY <2>1, <2>3, <3>1, <1>1, SendReference DEF Send
  <2>4. CASE BlkLen[k] >= MinBlk /\ Insert(k)
    BY <2>1, <2>4, <1>1, SendNew DEF Send, Insert
  <2>5. CASE InsertFaults(k)
    <3>1. IInv /\ IInv' /\ nb_total_block \in Nat
      BY <2>1, <2>5, InsertFaultsStep DEF LinkInv, IInv, TypeOK
    <3>2. fault' /\ nb_total_block' = nb_total_block /\ nb_block' = 0 /\ chan' = chan
      BY <2>5, <1>1 DEF InsertFaults, Send
    <3>3. Live' = {}
      BY <3>1, <3>2 DEF Live, First
    <3> QED BY <2>1, <3>1, <3>2, <3>3, Unsent
  <2> QED BY <2>1, <2>2, <2>3, <2>4, <2>5 DEF Store
<1>2. CASE NewSession
  <2>1. /\ Reset /\ chan' = <<>> /\ mem' = Blank /\ dpos' = 0 /\ dtotal' = 0
        /\ last_block_size' = 0
    BY <1>2 DEF NewSession
  <2>2. IInv'
    BY <2>1, ResetStep DEF LinkInv
  <2>3. (/\ IInv /\ nb_total_block = 0 /\ nb_block = 0 /\ data_pos_wr = 0
         /\ chan = <<>> /\ mem = Blank /\ dpos = 0 /\ dtotal = 0 /\ last_block_size = 0)'
    BY <2>1, <2>2 DEF Reset, Blank
  <2> QED BY <2>3, BlankStart, PTL
<1>3. CASE UNCHANGED linkVars
  <2>1. UNCHANGED vars /\ UNCHANGED <<chan, decompVars>>
    BY <1>3 DEF linkVars
  <2>2. IInv /\ IInv' /\ nb_total_block \in Nat
    <3>1. [Next]_vars
      BY <2>1
    <3> QED BY <3>1, Step DEF LinkInv, IInv, TypeOK
  <2>3. /\ Live' = Live /\ blk' = blk /\ nb_total_block' = nb_total_block
        /\ data_pos_wr' = data_pos_wr /\ fault' = fault
    BY <2>1 DEF vars, Live, First
  <2>4. \A s \in Live : s \in Nat
    BY <2>2, LiveFacts DEF IInv
  <2> QED BY <2>1, <2>2, <2>3, <2>4, Unsent
<1> QED BY <1>1, <1>2, <1>3, ReceiveStep, ReopenStep, ResumeStep DEF LinkNext

(* The two ends, and all that is between them, stay as LinkInv says.       *)
THEOREM LinkInvariance == SameEnds => (LinkSpec => []LinkInv)
<1> SUFFICES ASSUME SameEnds PROVE LinkSpec => []LinkInv
  OBVIOUS
<1>1. LinkInv /\ [LinkNext]_linkVars => LinkInv'
  BY LinkStep
<1> QED BY <1>1, LinkInitially, PTL DEF LinkSpec

LEMMA InStepLemma == LinkInv => InStep
<1> SUFFICES ASSUME LinkInv, ~fault PROVE InStep
  BY DEF InStep
<1>1. PICK D : Foreseen(D)
  BY DEF LinkInv
<1>2. PICK n : n = Len(chan)
  OBVIOUS
<1>3. n \in Nat /\ \A j \in 0..n : D[j] \in Decompressor /\ D[j].total \in Nat
  BY <1>1, <1>2, CourseFacts
<1>4. \A j \in 0..n : D[j].total = dtotal + Cardinality(NewIn(chan, j))
  BY <1>1, <1>2 DEF Foreseen, Course
<1>5. nb_total_block = dtotal + Cardinality(NewIn(chan, n))
  BY <1>1, <1>2, <1>3, <1>4 DEF Foreseen, Meets
<1>6. ASSUME NEW i \in NewIn(chan, n), NEW s, s = dtotal + Cardinality(NewIn(chan, i)) - 1,
             s \in Live
      PROVE  blk[s] = [key |-> chan[i].key, off |-> chan[i].dict_offset]
  <2>1. i \in 1..n /\ IsNew(chan[i]) /\ i \in 0..n /\ i - 1 \in 0..n
    BY <1>3 DEF NewIn
  <2>2. D[i].total = dtotal + Cardinality(NewIn(chan, i))
    BY <1>4, <2>1
  <2>3. D[i].total = D[i - 1].total + 1
    <3>1. chan[i].key \in Keys
      BY <2>1, <1>2, ChanFacts DEF LinkInv
    <3>2. D[i] = Stored(D[i - 1], chan[i].key)
      BY <1>1, <1>2, <2>1 DEF Foreseen, Course, Reads
    <3> QED BY <3>1, <3>2, <2>1, <1>3, StoredLemma
  <2>4. s = D[i - 1].total
    <3>1. dtotal \in Nat /\ Cardinality(NewIn(chan, i)) \in Nat
      BY <2>1, NowFacts, NewInFinite
    <3> QED BY <3>1, <1>3, <1>6, <2>1, <2>2, <2>3
  <2>5. Right(D[i - 1], chan[i])
    BY <1>1, <1>2, <2>1 DEF Foreseen
  <2> QED BY <2>1, <2>4, <2>5, <1>6 DEF Right
<1> QED BY <1>2, <1>5, <1>6 DEF InStep

(* The decompressor's nb_total_block names the same block at both ends,    *)
(* whatever is in transit, after any break and resume.                     *)
THEOREM AlwaysInStep == SameEnds => (LinkSpec => []InStep)
<1> QED BY InStepLemma, LinkInvariance, PTL

LEMMA MirroredLemma == LinkInv => Mirrored
<1> SUFFICES ASSUME LinkInv, NEW s \in Live, s < dtotal
             PROVE  ReadMem(blk[s].off, BlkLen[blk[s].key]) = Bytes(blk[s].key)
  BY DEF Mirrored
<1>1. Now \in Decompressor /\ Agrees(Now) /\ mem \in [Area -> Cell] /\ Now.total = dtotal
  BY NowFacts DEF Now
<1>2. blk[s].off \in Nat /\ blk[s].key \in Keys
  BY LiveFacts DEF LinkInv, IInv
<1>3. Holds(Now, blk[s].off, blk[s].key)
  BY <1>1 DEF Agrees
<1> QED BY <1>1, <1>2, <1>3, HoldsLemma

(* A block that a reference can be made to is intact at the other end.     *)
THEOREM AlwaysMirrored == SameEnds => (LinkSpec => []Mirrored)
<1> QED BY MirroredLemma, LinkInvariance, PTL

LEMMA RoundTripLemma == LinkInv => RoundTrip
<1> SUFFICES ASSUME LinkInv, chan # <<>>, Head(chan).compressed
             PROVE  ReadMem(Head(chan).dict_offset, BlkLen[Head(chan).key])
                      = Bytes(Head(chan).key)
  BY DEF RoundTrip
<1>1. PICK m : m = chan[1]
  OBVIOUS
<1>2. Head(chan) = m /\ m \in Message
  BY <1>1 DEF LinkInv
<1>3. m.dict_offset \in Nat /\ m.key \in Keys
  BY <1>2 DEF Message
<1>4. Holds(Now, m.dict_offset, m.key) /\ mem \in [Area -> Cell]
  BY <1>1, <1>2, NowFacts DEF Right
<1> QED BY <1>2, <1>3, <1>4, HoldsLemma

(* A reference is read as the block it was made from, however far behind   *)
(* the decompressor is and whatever has been evicted meanwhile.            *)
THEOREM AlwaysRoundTrip == SameEnds => (LinkSpec => []RoundTrip)
  BY RoundTripLemma, LinkInvariance, PTL

-----------------------------------------------------------------------------
(* The users' view of the messages in transit.                             *)
LEMMA KeysLemma ==
  ASSUME NEW c \in Seq(Message)
  PROVE  /\ [i \in 1..Len(c) |-> c[i].key] \in Seq(Keys)
         /\ \A m \in Message :
              [i \in 1..Len(Append(c, m)) |-> Append(c, m)[i].key] =
                Append([i \in 1..Len(c) |-> c[i].key], m.key)
         /\ c # <<>> =>
              /\ [i \in 1..Len(Tail(c)) |-> Tail(c)[i].key] =
                   Tail([i \in 1..Len(c) |-> c[i].key])
              /\ Head([i \in 1..Len(c) |-> c[i].key]) = c[1].key
              /\ [i \in 1..Len(c) |-> c[i].key] # <<>>
<1>1. Len(c) \in Nat /\ \A i \in 1..Len(c) : c[i] \in Message /\ c[i].key \in Keys
  BY ChanFacts
<1>2. PICK K : K = [i \in 1..Len(c) |-> c[i].key]
  OBVIOUS
<1>3. K \in Seq(Keys) /\ Len(K) = Len(c) /\ \A i \in 1..Len(c) : K[i] = c[i].key
  BY <1>1, <1>2
<1>4. ASSUME NEW m \in Message
      PROVE  [i \in 1..Len(Append(c, m)) |-> Append(c, m)[i].key] = Append(K, m.key)
  <2>1. /\ Len(Append(c, m)) = Len(c) + 1 /\ Append(c, m)[Len(c) + 1] = m
        /\ \A i \in 1..Len(c) : Append(c, m)[i] = c[i]
    OBVIOUS
  <2>2. /\ DOMAIN Append(K, m.key) = 1..(Len(c) + 1)
        /\ Append(K, m.key)[Len(c) + 1] = m.key
        /\ \A i \in 1..Len(c) : Append(K, m.key)[i] = K[i]
        /\ Append(K, m.key) \in Seq(Keys)
    BY <1>3 DEF Message
  <2>3. PICK L : L = Append(K, m.key)
    OBVIOUS
  <2>4. L = [i \in 1..(Len(c) + 1) |-> L[i]]
    BY <2>2, <2>3
  <2>5. \A i \in 1..(Len(c) + 1) : L[i] = Append(c, m)[i].key
    BY <1>1, <1>3, <2>1, <2>2, <2>3
  <2> QED BY <2>1, <2>3, <2>4, <2>5
<1>5. ASSUME c # <<>>
      PROVE  /\ [i \in 1..Len(Tail(c)) |-> Tail(c)[i].key] = Tail(K)
             /\ Head(K) = c[1].key /\ K # <<>>
  <2>1. /\ Len(c) > 0 /\ Len(Tail(c)) = Len(c) - 1
        /\ \A i \in 1..(Len(c) - 1) : Tail(c)[i] = c[i + 1]
    BY <1>5
  <2>2. /\ K # <<>> /\ Head(K) = K[1] /\ Tail(K) \in Seq(Keys)
        /\ Len(Tail(K)) = Len(c) - 1
        /\ \A i \in 1..(Len(c) - 1) : Tail(K)[i] = K[i + 1]
    BY <1>3, <2>1
  <2>3. PICK L : L = Tail(K)
    OBVIOUS
  <2>4. L = [i \in 1..(Len(c) - 1) |-> L[i]]
    <3>1. L \in Seq(Keys) /\ Len(L) = Len(c) - 1
      BY <2>2, <2>3
    <3>2. L \in [1..(Len(c) - 1) -> Keys]
      BY <3>1
    <3> QED BY <3>2
  <2>5. \A i \in 1..(Len(c) - 1) : L[i] = Tail(c)[i].key
    BY <1>1, <1>3, <2>1, <2>2, <2>3
  <2>6. [i \in 1..Len(Tail(c)) |-> Tail(c)[i].key] = L
    BY <2>1, <2>4, <2>5
  <2>7. Head(K) = c[1].key
    <3>1. 1 \in 1..Len(c)
      BY <2>1, <1>1
    <3> QED BY <3>1, <1>3, <2>2
  <2> QED BY <2>2, <2>3, <2>6, <2>7
<1> QED BY <1>2, <1>3, <1>4, <1>5

(* Nothing is lost, changed, repeated or put out of order on the way       *)
(* through both dictionaries, unless the session breaks off.               *)
THEOREM LinkImplementsPipe == SameEnds => (LinkSpec => ImplementsPipe)
<1> SUFFICES ASSUME SameEnds PROVE LinkSpec => ImplementsPipe
  OBVIOUS
<1>1. LinkInit => User!Init
  <2> SUFFICES ASSUME LinkInit PROVE User!Init
    OBVIOUS
  <2>1. chan = <<>> /\ got = <<>>
    BY DEF LinkInit
  <2>2. [i \in 1..Len(chan) |-> chan[i].key] = <<>>
    BY <2>1
  <2>3. BlockOf(got) = NoKey
    BY <2>1, BytesLemma DEF BlockOf
  <2> QED BY <2>2, <2>3 DEF User!Init
<1>2. LinkInv /\ [LinkNext]_linkVars => [User!Next]_(User!vars)
  <2> SUFFICES ASSUME LinkInv, [LinkNext]_linkVars
               PROVE  User!Next \/ UNCHANGED User!vars
    OBVIOUS
  <2>1. chan \in Seq(Message)
    BY DEF LinkInv
  <2>2. ASSUME NEW k \in Keys, Send(k)
        PROVE  User!Next \/ UNCHANGED User!vars
    <3>1. got' = got
      BY <2>2 DEF Send, decompVars
    <3>2. CASE fault'
      BY <3>1, <3>2, <2>2 DEF Send, User!vars
    <3>3. CASE ~fault'
      <4>1. PICK m : m = out'
        OBVIOUS
      <4>2. m \in Message /\ m.key = k
        <5>1. CASE Hit(k)
          <6>1. PICK s \in Matches(k) :
                  out' = [compressed |-> TRUE, dict_offset |-> blk[s].off, key |-> k]
            BY <5>1 DEF Hit
          <6>2. blk[s].off \in Nat
            BY <6>1, LiveFacts DEF Matches, LinkInv, IInv
          <6> QED BY <4>1, <6>1, <6>2 DEF Message
        <5>2. CASE Insert(k)
          <6>1. data_pos_wr \in Nat /\ WritePos(BlkLen[k]) \in Nat
            BY DEF LinkInv, IInv, TypeOK, WritePos
          <6> QED BY <4>1, <5>2, <6>1 DEF Insert, Message
        <5>3. CASE FlushSmall(k)
          BY <4>1, <5>3 DEF FlushSmall, Message
        <5> QED BY <5>1, <5>2, <5>3, <3>3, <2>2
                DEF Send, CompressBlock, Flush, Store, InsertFaults
      <4>3. chan' = Append(chan, m)
        BY <4>1, <3>3, <2>2 DEF Send
      <4>4. [i \in 1..Len(chan') |-> chan'[i].key] = Append([i \in 1..Len(chan) |-> chan[i].key], k)
        BY <4>2, <4>3, <2>1, KeysLemma
      <4> QED BY <3>1, <4>4 DEF User!Next, User!Write
    <3> QED BY <3>2, <3>3
  <2>3. CASE Receive
    <3>1. chan # <<>> /\ chan' = Tail(chan)
      BY <2>3 DEF Receive
    <3>2. PICK m : m = chan[1]
      OBVIOUS
    <3>3. m = Head(chan) /\ m \in Message /\ m.key \in Keys
      <4>1. m = Head(chan) /\ m \in Message
        BY <3>1, <3>2, <2>1
      <4> QED BY <4>1 DEF Message
    <3>4. got' = Bytes(m.key)
      <4>1. CASE m.compressed
        <5>1. got' = ReadMem(m.dict_offset, BlkLen[m.key])
          BY <2>3, <3>3, <4>1 DEF Receive
        <5> QED BY <3>1, <3>3, <4>1, <5>1, RoundTripLemma DEF RoundTrip
      <4>2. CASE ~m.compressed
        BY <2>3, <3>3, <4>2 DEF Receive
      <4> QED BY <4>1, <4>2
    <3>5. BlockOf(got') = m.key
      BY <3>3, <3>4, BytesLemma
    <3>6. /\ [i \in 1..Len(chan') |-> chan'[i].key] = Tail([i \in 1..Len(chan) |-> chan[i].key])
          /\ Head([i \in 1..Len(chan) |-> chan[i].key]) = m.key
          /\ [i \in 1..Len(chan) |-> chan[i].key] # <<>>
      BY <3>1, <3>2, <2>1, KeysLemma
    <3> QED BY <3>5, <3>6 DEF User!Next, User!Deliver, BlockOf
  <2>4. ASSUME chan' = <<>>, got' = got
        PROVE  User!Next
    <3>1. [i \in 1..Len(chan') |-> chan'[i].key] = <<>>
      BY <2>4
    <3> QED BY <2>4, <3>1 DEF User!Next, User!BreakOff
  <2>5. ASSUME chan' = chan, got' = got
        PROVE  UNCHANGED User!vars
    BY <2>5 DEF User!vars
  <2> QED BY <2>2, <2>3, <2>4, <2>5
          DEF LinkNext, NewSession, Reopen, Resume, decompVars, linkVars
<1> QED BY <1>1, <1>2, LinkInvariance, PTL DEF LinkSpec, ImplementsPipe, User!Spec
=============================================================================
