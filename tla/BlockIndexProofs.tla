-------------------------- MODULE BlockIndexProofs --------------------------
(* Proofs about BlockIndex, for every number of slots and of hash buckets, *)
(* every size of the data area and whatever the blocks are, as long as     *)
(* reloads are sound ones.                                                 *)
EXTENDS BlockIndex, Induction, FiniteSetTheorems

SoundLoads == LoadsAllowed \subseteq {"sound"}

(* The slot of the i-th block of the list, counted from 0, and the place   *)
(* in the list of slot s, in a cache q.                                    *)
Place(q, i) == IF q.head + i < NbBlkIdx THEN q.head + i ELSE q.head + i - NbBlkIdx
Age(q, s) == IF s >= q.head THEN s - q.head ELSE s - q.head + NbBlkIdx

(* The first n slots of the ring, and those of bucket b among them.        *)
Among(q, n) == {s \in Slots : Age(q, s) < n}
Buckets == 0..(BlkHSize - 1)
SlotBucket(q, s) == BucketOf(q.slots[s].key)
Same(q, n, b) == {s \in Among(q, n) : SlotBucket(q, s) = b}

(* p points to the first slot of S in the order of the list, or the last.  *)
IsOldest(q, S, p) ==
  IF S = {} THEN p = NULL ELSE p \in S /\ \A t \in S : Age(q, p) <= Age(q, t)
IsNewest(q, S, p) ==
  IF S = {} THEN p = NULL ELSE p \in S /\ \A t \in S : Age(q, t) <= Age(q, p)
Newer(q, S, s) == {t \in S : Age(q, s) < Age(q, t)}
Older(q, S, s) == {t \in S : Age(q, t) < Age(q, s)}

(* The pointers link the first n slots of the ring, in one list and, each  *)
(* in the chain of its bucket, in the same order.                          *)
ListLinked(q, n) ==
  /\ q.lhead = IF n = 0 THEN NULL ELSE Place(q, 0)
  /\ n > 0 => q.ltail = Place(q, n - 1)
  /\ \A i \in 0..(n - 1) : q.lnxt[Place(q, i)] = IF i = n - 1 THEN NULL ELSE Place(q, i + 1)

ChainLinked(q, S, b) ==
  /\ IsOldest(q, S, q.hhead[b]) /\ IsNewest(q, S, q.htail[b])
  /\ \A s \in S : IsOldest(q, Newer(q, S, s), q.hnxt[s]) /\ IsNewest(q, Older(q, S, s), q.hprv[s])

Linked(q, n) ==
  /\ ListLinked(q, n)
  /\ \A b \in Buckets : ChainLinked(q, Same(q, n, b), b)

(* The counters agree with the ring, and edge is set before it is full.    *)
Counted(q) ==
  /\ q.nb <= NbBlkIdx /\ q.nb <= q.total /\ q.total <= MaxTotal
  /\ q.head = (q.total - q.nb) % NbBlkIdx
  /\ q.tail = q.total % NbBlkIdx
  /\ q.dead => q.nb = 0
  /\ ~q.dead /\ ~q.edge => q.nb = q.total /\ q.total < NbBlkIdx

(* Every live slot holds a block.                                          *)
LiveKeys(q) == \A s \in Among(q, q.nb) : q.slots[s].key \in Keys

(* The inductive invariant, of any cache and of the one there is.          *)
IndexInvOf(q) == q \in CacheType /\ Linked(q, q.nb) /\ Counted(q) /\ LiveKeys(q)
IndexInv == IndexInvOf(c)

-----------------------------------------------------------------------------
(* Going round the ring.                                                   *)
LEMMA RingLemma ==
  /\ NbBlkIdx \in Nat /\ NbBlkIdx >= 2 /\ Slots = 0..(NbBlkIdx - 1)
  /\ Wrap \in Nat /\ Wrap > MaxTotal + NbBlkIdx /\ MaxTotal \in Nat
  /\ NULL \notin Slots
<1> QED BY IndexAssumption DEF Slots

LEMMA ModLemma ==
  /\ \A x \in 0..(NbBlkIdx - 1) : x % NbBlkIdx = x /\ (x + NbBlkIdx) % NbBlkIdx = x
  /\ \A x \in 0..(Wrap - 1) : x % Wrap = x
<1>1. NbBlkIdx \in Nat /\ NbBlkIdx > 0 /\ Wrap \in Nat
  BY RingLemma
<1> QED BY <1>1

LEMMA AgeLemma ==
  ASSUME NEW q, q.head \in Slots
  PROVE  /\ \A s \in Slots : Age(q, s) \in 0..(NbBlkIdx - 1) /\ Place(q, Age(q, s)) = s
         /\ \A i \in 0..(NbBlkIdx - 1) : Place(q, i) \in Slots /\ Age(q, Place(q, i)) = i
         /\ \A i \in 0..NbBlkIdx : Place(q, i) \in Slots /\ Place(q, i) = (q.head + i) % NbBlkIdx
         /\ \A s, t \in Slots : Age(q, s) = Age(q, t) => s = t
<1>1. NbBlkIdx \in Nat /\ NbBlkIdx >= 2 /\ q.head \in 0..(NbBlkIdx - 1)
  BY RingLemma
<1>2. ASSUME NEW i \in 0..NbBlkIdx
      PROVE  Place(q, i) \in Slots /\ Place(q, i) = (q.head + i) % NbBlkIdx
  <2>1. CASE q.head + i < NbBlkIdx
    <3>1. q.head + i \in 0..(NbBlkIdx - 1)
      BY <1>1, <2>1
    <3>2. (q.head + i) % NbBlkIdx = q.head + i
      BY <3>1, ModLemma
    <3> QED BY <2>1, <3>1, <3>2, RingLemma DEF Place
  <2>2. CASE ~(q.head + i < NbBlkIdx)
    <3>1. q.head + i - NbBlkIdx \in 0..(NbBlkIdx - 1)
      BY <1>1, <2>2
    <3>2. (q.head + i - NbBlkIdx + NbBlkIdx) % NbBlkIdx = q.head + i - NbBlkIdx
      BY <3>1, ModLemma
    <3>3. q.head + i - NbBlkIdx + NbBlkIdx = q.head + i
      BY <1>1
    <3> QED BY <2>2, <3>1, <3>2, <3>3, RingLemma DEF Place
  <2> QED BY <2>1, <2>2
<1>3. \A s \in Slots : Age(q, s) \in 0..(NbBlkIdx - 1) /\ Place(q, Age(q, s)) = s
  BY <1>1, RingLemma DEF Age, Place
<1>4. \A i \in 0..(NbBlkIdx - 1) : Place(q, i) \in Slots /\ Age(q, Place(q, i)) = i
  BY <1>1, RingLemma DEF Age, Place
<1>5. \A s, t \in Slots : Age(q, s) = Age(q, t) => s = t
  BY <1>3
<1> QED BY <1>2, <1>3, <1>4, <1>5

(* One place further on in the ring.                                       *)
LEMMA CountLemma ==
  ASSUME NEW x \in Nat, NEW d \in 0..NbBlkIdx
  PROVE  /\ x % NbBlkIdx \in Slots
         /\ (x + d) % NbBlkIdx = ((x % NbBlkIdx) + d) % NbBlkIdx
<1> DEFINE m == x \div NbBlkIdx
           r == x % NbBlkIdx
<1>1. NbBlkIdx \in Nat /\ NbBlkIdx > 0
  BY RingLemma
<1>2. m \in Int /\ r \in 0..(NbBlkIdx - 1) /\ x = m * NbBlkIdx + r
  BY <1>1
<1>3. ASSUME NEW k \in Int, NEW e \in 0..(NbBlkIdx - 1)
      PROVE  (k * NbBlkIdx + e) % NbBlkIdx = e
  BY <1>1
<1> HIDE DEF m, r
<1>4. CASE r + d < NbBlkIdx
  <2>1. r + d \in 0..(NbBlkIdx - 1) /\ x + d = m * NbBlkIdx + (r + d)
    BY <1>1, <1>2, <1>4
  <2>2. (x + d) % NbBlkIdx = r + d
    BY <2>1, <1>2, <1>3
  <2> QED BY <2>1, <2>2, <1>2, ModLemma, RingLemma DEF r
<1>5. CASE ~(r + d < NbBlkIdx)
  <2>1. r + d - NbBlkIdx \in 0..(NbBlkIdx - 1)
    BY <1>1, <1>2, <1>5
  <2>3. x + d = (m + 1) * NbBlkIdx + (r + d - NbBlkIdx) /\ m + 1 \in Int
    BY <1>1, <1>2
  <2>4. (x + d) % NbBlkIdx = r + d - NbBlkIdx
    BY <2>1, <2>3, <1>3
  <2>5. (r + d - NbBlkIdx + NbBlkIdx) % NbBlkIdx = r + d - NbBlkIdx
    BY <2>1, ModLemma
  <2>6. r + d - NbBlkIdx + NbBlkIdx = r + d
    BY <1>1, <1>2
  <2> QED BY <2>1, <2>4, <2>5, <2>6, <1>2, RingLemma DEF r
<1> QED BY <1>4, <1>5, <1>2

(* The fields of a cache.                                                  *)
LEMMA Fields ==
  ASSUME NEW q \in CacheType
  PROVE  /\ q.slots \in [Slots -> [key : Keys \cup {NoKey}, off : 0..CacheSz]]
         /\ q.lnxt \in [Slots -> Pointer] /\ q.hnxt \in [Slots -> Pointer]
         /\ q.hprv \in [Slots -> Pointer]
         /\ q.lhead \in Pointer /\ q.ltail \in Pointer
         /\ q.hhead \in [Buckets -> Pointer] /\ q.htail \in [Buckets -> Pointer]
         /\ q.head \in Slots /\ q.tail \in Slots
         /\ q.nb \in 0..(Wrap - 1) /\ q.total \in 0..(Wrap - 1) /\ q.pos \in 0..(Wrap - 1)
         /\ q.edge \in BOOLEAN /\ q.dead \in BOOLEAN
         /\ \A s \in Slots : SlotBucket(q, s) \in Buckets
         /\ \A s \in Pointer : s # NULL => s \in Slots
<1>1. \A k \in Keys \cup {NoKey} : BucketOf(k) \in Buckets
  BY IndexAssumption DEF BucketOf, Buckets
<1> QED BY <1>1 DEF CacheType, SlotBucket, Buckets, Pointer

-----------------------------------------------------------------------------
(* remove_oldest_block.                                                    *)
Untouched(q, r) ==
  /\ r.slots = q.slots /\ r.ltail = q.ltail /\ r.lnxt = q.lnxt
  /\ r.tail = q.tail /\ r.total = q.total /\ r.pos = q.pos /\ r.edge = q.edge

LEMMA UnhashFields ==
  ASSUME NEW q \in CacheType, NEW s \in Slots
  PROVE  /\ Unhash(q, s) \in CacheType
         /\ Untouched(q, Unhash(q, s))
         /\ Unhash(q, s).lhead = q.lhead /\ Unhash(q, s).dead = q.dead
         /\ Unhash(q, s).head = q.head /\ Unhash(q, s).nb = q.nb
         /\ Unhash(q, s).htail =
              [q.htail EXCEPT ![SlotBucket(q, s)] = IF q.hnxt[s] = NULL THEN q.hprv[s] ELSE @]
         /\ Unhash(q, s).hhead =
              [q.hhead EXCEPT ![SlotBucket(q, s)] = IF q.hprv[s] = NULL THEN q.hnxt[s] ELSE @]
         /\ Unhash(q, s).hnxt =
              IF q.hprv[s] = NULL THEN q.hnxt ELSE [q.hnxt EXCEPT ![q.hprv[s]] = q.hnxt[s]]
         /\ Unhash(q, s).hprv =
              IF q.hnxt[s] = NULL THEN q.hprv ELSE [q.hprv EXCEPT ![q.hnxt[s]] = q.hprv[s]]
<1> DEFINE b == SlotBucket(q, s)
           n == q.hnxt[s]
           p == q.hprv[s]
           r == [q EXCEPT
                   !.htail = [q.htail EXCEPT ![b] = IF n = NULL THEN p ELSE @],
                   !.hhead = [q.hhead EXCEPT ![b] = IF p = NULL THEN n ELSE @],
                   !.hnxt = IF p = NULL THEN q.hnxt ELSE [q.hnxt EXCEPT ![p] = n],
                   !.hprv = IF n = NULL THEN q.hprv ELSE [q.hprv EXCEPT ![n] = p]]
<1>1. Unhash(q, s) = r
  BY DEF Unhash, SlotBucket, CacheType
<1>2. n \in Pointer /\ p \in Pointer
  BY Fields
<1>3. /\ [q.htail EXCEPT ![b] = IF n = NULL THEN p ELSE @] \in [Buckets -> Pointer]
      /\ [q.hhead EXCEPT ![b] = IF p = NULL THEN n ELSE @] \in [Buckets -> Pointer]
  BY <1>2, Fields
<1>4. /\ (IF p = NULL THEN q.hnxt ELSE [q.hnxt EXCEPT ![p] = n]) \in [Slots -> Pointer]
      /\ (IF n = NULL THEN q.hprv ELSE [q.hprv EXCEPT ![n] = p]) \in [Slots -> Pointer]
  BY <1>2, Fields
<1>5. r \in CacheType
  BY <1>3, <1>4 DEF CacheType, Buckets
<1>6. /\ Untouched(q, r) /\ r.lhead = q.lhead /\ r.dead = q.dead
      /\ r.head = q.head /\ r.nb = q.nb
      /\ r.htail = [q.htail EXCEPT ![b] = IF n = NULL THEN p ELSE @]
      /\ r.hhead = [q.hhead EXCEPT ![b] = IF p = NULL THEN n ELSE @]
      /\ r.hnxt = IF p = NULL THEN q.hnxt ELSE [q.hnxt EXCEPT ![p] = n]
      /\ r.hprv = IF n = NULL THEN q.hprv ELSE [q.hprv EXCEPT ![n] = p]
  BY DEF CacheType, Untouched
<1> QED BY <1>1, <1>5, <1>6

LEMMA RemoveFields ==
  ASSUME NEW q \in CacheType, q.lhead \in Slots
  PROVE  /\ RemoveOldestBlock(q) \in CacheType
         /\ Untouched(q, RemoveOldestBlock(q)) /\ RemoveOldestBlock(q).dead = q.dead
         /\ RemoveOldestBlock(q).lhead = q.lnxt[q.lhead]
         /\ RemoveOldestBlock(q).head = (q.head + 1) % NbBlkIdx
         /\ RemoveOldestBlock(q).nb = (q.nb - 1) % Wrap
         /\ RemoveOldestBlock(q).hhead = Unhash(q, q.lhead).hhead
         /\ RemoveOldestBlock(q).htail = Unhash(q, q.lhead).htail
         /\ RemoveOldestBlock(q).hnxt = Unhash(q, q.lhead).hnxt
         /\ RemoveOldestBlock(q).hprv = Unhash(q, q.lhead).hprv
<1> DEFINE u == Unhash(q, q.lhead)
           r == [u EXCEPT !.lhead = q.lnxt[q.lhead],
                          !.nb = (@ - 1) % Wrap,
                          !.head = (@ + 1) % NbBlkIdx]
<1>1. RemoveOldestBlock(q) = r
  BY RingLemma DEF RemoveOldestBlock
<1>2. /\ u \in CacheType /\ Untouched(q, u) /\ u.dead = q.dead
      /\ u.head = q.head /\ u.nb = q.nb
  BY UnhashFields
<1>3. q.lnxt[q.lhead] \in Pointer
  BY Fields
<1>4. (u.nb - 1) % Wrap \in 0..(Wrap - 1)
  BY <1>2, RingLemma, Fields
<1>5. (u.head + 1) % NbBlkIdx \in Slots
  <2>1. u.head + 1 \in Nat /\ 0 \in 0..NbBlkIdx
    BY <1>2, RingLemma, Fields
  <2> HIDE DEF u
  <2> QED BY <2>1, CountLemma
<1> HIDE DEF u
<1>6. r \in CacheType
  BY <1>2, <1>3, <1>4, <1>5 DEF CacheType
<1>7. /\ Untouched(u, r) /\ r.dead = u.dead /\ r.lhead = q.lnxt[q.lhead]
      /\ r.head = (u.head + 1) % NbBlkIdx /\ r.nb = (u.nb - 1) % Wrap
      /\ r.hhead = u.hhead /\ r.htail = u.htail /\ r.hnxt = u.hnxt /\ r.hprv = u.hprv
  BY <1>2 DEF CacheType, Untouched
<1> QED BY <1>1, <1>2, <1>6, <1>7 DEF u, Untouched

(* What is left in the ring when its head moves on.                        *)
LEMMA ShiftLemma ==
  ASSUME NEW q \in CacheType, NEW r \in CacheType, NEW n \in 1..NbBlkIdx,
         r.head = (q.head + 1) % NbBlkIdx, r.slots = q.slots
  PROVE  /\ q.head \in Slots /\ Age(q, q.head) = 0
         /\ \A s \in Slots : s # q.head => Age(q, s) >= 1 /\ Age(r, s) = Age(q, s) - 1
         /\ \A i \in 0..(n - 1) : Place(r, i) = Place(q, i + 1)
         /\ Among(r, n - 1) = Among(q, n) \ {q.head}
         /\ \A b : Same(r, n - 1, b) = Same(q, n, b) \ {q.head}
<1>1. NbBlkIdx \in Nat /\ NbBlkIdx >= 2 /\ q.head \in 0..(NbBlkIdx - 1) /\ r.head \in Slots
  BY RingLemma, Fields
<1>2. r.head = Place(q, 1) /\ Age(q, q.head) = 0
  <2>1. 1 \in 0..NbBlkIdx /\ q.head \in Slots
    BY <1>1, RingLemma
  <2>2. Place(q, 1) = (q.head + 1) % NbBlkIdx
    BY <2>1, AgeLemma
  <2>3. Age(q, q.head) = 0
    BY <1>1 DEF Age
  <2> QED BY <2>2, <2>3
<1> DEFINE h == q.head
           g == r.head
<1>a. g = (IF h + 1 < NbBlkIdx THEN h + 1 ELSE 0) /\ h \in 0..(NbBlkIdx - 1)
  BY <1>1, <1>2 DEF Place
<1>3. ASSUME NEW s \in Slots, s # q.head
      PROVE  Age(q, s) >= 1 /\ Age(r, s) = Age(q, s) - 1
  <2>1. s \in 0..(NbBlkIdx - 1) /\ s # h
    BY <1>3, RingLemma
  <2>2. /\ Age(q, s) = IF s >= h THEN s - h ELSE s - h + NbBlkIdx
        /\ Age(r, s) = IF s >= g THEN s - g ELSE s - g + NbBlkIdx
    BY DEF Age
  <2> HIDE DEF g, h
  <2> QED BY <1>1, <1>a, <2>1, <2>2
<1>4. Age(r, q.head) = NbBlkIdx - 1
  <2>1. Age(r, h) = IF h >= g THEN h - g ELSE h - g + NbBlkIdx
    BY DEF Age
  <2>2. Age(r, h) = NbBlkIdx - 1
    <3> HIDE DEF g, h
    <3> QED BY <1>1, <1>a, <2>1
  <2> QED BY <2>2
<1> HIDE DEF g, h
<1>5. \A i \in 0..(n - 1) : Place(r, i) = Place(q, i + 1)
  BY <1>1, <1>2 DEF Place
<1>6. ASSUME NEW s \in Slots
      PROVE  Age(r, s) < n - 1 <=> Age(q, s) < n /\ s # q.head
  <2>1. Age(q, s) \in 0..(NbBlkIdx - 1) /\ Age(r, s) \in 0..(NbBlkIdx - 1)
    BY <1>1, AgeLemma, RingLemma
  <2> QED BY <1>1, <1>3, <1>4, <2>1
<1>7. Among(r, n - 1) = Among(q, n) \ {q.head}
  BY <1>6 DEF Among
<1>8. \A b : Same(r, n - 1, b) = Same(q, n, b) \ {q.head}
  BY <1>7 DEF Same, SlotBucket
<1> QED BY <1>1, <1>2, <1>3, <1>5, <1>7, <1>8, RingLemma

(* The chain of one bucket after the oldest block was taken out.           *)
LEMMA ChainRemoved ==
  ASSUME NEW q \in CacheType, NEW n \in 1..NbBlkIdx, Linked(q, n), NEW b \in Buckets
  PROVE  ChainLinked(RemoveOldestBlock(q), Same(RemoveOldestBlock(q), n - 1, b), b)
<1> DEFINE r == RemoveOldestBlock(q)
           h == q.head
           S == Same(q, n, b)
           T == Same(r, n - 1, b)
           m == q.hnxt[h]
<1>1. q.lhead = h /\ h \in Slots /\ Age(q, h) = 0
  <2>1. NbBlkIdx \in Nat /\ h \in Slots /\ n # 0 /\ h \in 0..(NbBlkIdx - 1)
    BY RingLemma, Fields
  <2>2. Place(q, 0) = h
    BY <2>1 DEF Place
  <2> QED BY <2>1, <2>2 DEF Linked, ListLinked, Age
<1>2. /\ r \in CacheType /\ r.head = (q.head + 1) % NbBlkIdx /\ r.slots = q.slots
      /\ r.hhead = Unhash(q, h).hhead /\ r.htail = Unhash(q, h).htail
      /\ r.hnxt = Unhash(q, h).hnxt /\ r.hprv = Unhash(q, h).hprv
  BY <1>1, RemoveFields DEF Untouched
<1> HIDE DEF r
<1>3. /\ \A s \in Slots : s # h => Age(q, s) >= 1 /\ Age(r, s) = Age(q, s) - 1
      /\ T = S \ {h}
  BY <1>2, ShiftLemma
<1>4. \A s \in Slots : Age(q, s) \in Int
  BY <1>1, AgeLemma
<1>5. S \subseteq Slots /\ \A s \in S : SlotBucket(q, s) = b
  BY DEF Same, Among
<1>6. ChainLinked(q, S, b)
  BY DEF Linked
<1>7. h \in Among(q, n)
  BY <1>1 DEF Among
<1>8. q.hprv[h] = NULL
  <2> DEFINE a == SlotBucket(q, h)
             U == Same(q, n, a)
  <2>1. h \in U /\ a \in Buckets /\ U \subseteq Slots
    BY <1>7, <1>1, Fields DEF Same, Among
  <2>2. IsNewest(q, Older(q, U, h), q.hprv[h])
    BY <2>1 DEF Linked, ChainLinked
  <2>3. Older(q, U, h) = {}
    BY <2>1, <1>1, <1>3, <1>4 DEF Older
  <2> QED BY <2>2, <2>3 DEF IsNewest
<1>9. /\ r.hnxt = q.hnxt
      /\ r.htail = [q.htail EXCEPT ![SlotBucket(q, h)] = IF m = NULL THEN NULL ELSE @]
      /\ r.hhead = [q.hhead EXCEPT ![SlotBucket(q, h)] = m]
      /\ r.hprv = IF m = NULL THEN q.hprv ELSE [q.hprv EXCEPT ![m] = NULL]
  BY <1>1, <1>2, <1>8, UnhashFields, Fields
<1>10. /\ q.htail \in [Buckets -> Pointer] /\ q.hhead \in [Buckets -> Pointer]
       /\ q.hprv \in [Slots -> Pointer] /\ m \in Pointer /\ SlotBucket(q, h) \in Buckets
       /\ NULL \notin Slots
  BY <1>1, Fields, RingLemma
<1> HIDE DEF S, T, m
(* Another bucket: the same blocks in the same order.                      *)
<1>11. ASSUME NEW U, U \subseteq Slots \ {h}
       PROVE  /\ \A p : IsOldest(r, U, p) <=> IsOldest(q, U, p)
              /\ \A p : IsNewest(r, U, p) <=> IsNewest(q, U, p)
              /\ \A s \in U : Newer(r, U, s) = Newer(q, U, s) /\ Older(r, U, s) = Older(q, U, s)
  <2>1. \A s, t \in U : /\ Age(r, s) <= Age(r, t) <=> Age(q, s) <= Age(q, t)
                        /\ Age(r, s) < Age(r, t) <=> Age(q, s) < Age(q, t)
    BY <1>11, <1>3, <1>4
  <2>2. \A p : IsOldest(r, U, p) <=> IsOldest(q, U, p)
    BY <2>1 DEF IsOldest
  <2>3. \A p : IsNewest(r, U, p) <=> IsNewest(q, U, p)
    BY <2>1 DEF IsNewest
  <2>4. \A s \in U : Newer(r, U, s) = Newer(q, U, s) /\ Older(r, U, s) = Older(q, U, s)
    BY <2>1 DEF Newer, Older
  <2> QED BY <2>2, <2>3, <2>4
<1>12. T \subseteq Slots \ {h}
  BY <1>3, <1>5
<1>13. ASSUME NEW s \in T
       PROVE  /\ Newer(r, T, s) \subseteq Slots \ {h} /\ Older(r, T, s) \subseteq Slots \ {h}
              /\ Newer(r, T, s) = Newer(q, T, s) /\ Older(r, T, s) = Older(q, T, s)
              /\ \A p : IsOldest(r, Newer(r, T, s), p) <=> IsOldest(q, Newer(q, T, s), p)
              /\ \A p : IsNewest(r, Older(r, T, s), p) <=> IsNewest(q, Older(q, T, s), p)
  <2>1. Newer(r, T, s) \subseteq T /\ Older(r, T, s) \subseteq T
    BY DEF Newer, Older
  <2>2. Newer(r, T, s) \subseteq Slots \ {h} /\ Older(r, T, s) \subseteq Slots \ {h}
    BY <2>1, <1>12
  <2>3. Newer(r, T, s) = Newer(q, T, s) /\ Older(r, T, s) = Older(q, T, s)
    BY <1>11, <1>12
  <2> QED BY <2>2, <2>3, <1>11
<1>14. SUFFICES /\ IsOldest(q, T, r.hhead[b]) /\ IsNewest(q, T, r.htail[b])
                /\ \A s \in T : /\ IsOldest(q, Newer(q, T, s), q.hnxt[s])
                                /\ IsNewest(q, Older(q, T, s), r.hprv[s])
  BY <1>9, <1>11, <1>12, <1>13 DEF ChainLinked, r, T
<1>15. CASE SlotBucket(q, h) # b
  <2>1. T = S /\ h \notin S
    BY <1>3, <1>5, <1>15
  <2>2. m = NULL \/ m \notin S
    <3> DEFINE a == SlotBucket(q, h)
               U == Same(q, n, a)
    <3>1. h \in U /\ \A s \in U : SlotBucket(q, s) = a
      BY <1>7 DEF Same
    <3>2. IsOldest(q, Newer(q, U, h), m)
      BY <3>1, <1>10 DEF Linked, ChainLinked, m
    <3>3. m = NULL \/ m \in U
      BY <3>2 DEF IsOldest, Newer
    <3> QED BY <3>1, <3>3, <1>5, <1>15
  <2>3. r.hhead[b] = q.hhead[b] /\ r.htail[b] = q.htail[b]
    BY <1>9, <1>10, <1>15
  <2>4. \A s \in S : r.hprv[s] = q.hprv[s]
    BY <1>5, <1>9, <1>10, <2>2
  <2> QED BY <1>6, <2>1, <2>3, <2>4 DEF ChainLinked
<1>16. CASE SlotBucket(q, h) = b
  <2>1. h \in S /\ T = S \ {h}
    BY <1>3, <1>7, <1>16 DEF S, Same
  <2>2. IsOldest(q, T, m)
    <3>1. Newer(q, S, h) = T
      BY <2>1, <1>1, <1>3, <1>4, <1>5 DEF Newer
    <3> QED BY <3>1, <2>1, <1>6 DEF ChainLinked, m
  <2>3. r.hhead[b] = m
    BY <1>9, <1>10, <1>16
  <2>4. IsNewest(q, T, r.htail[b])
    <3>1. CASE m = NULL
      <4>1. T = {}
        BY <3>1, <2>2, <1>10, <1>12 DEF IsOldest
      <4> QED BY <4>1, <3>1, <1>9, <1>10, <1>16 DEF IsNewest
    <3>2. CASE m # NULL
      <4>1. r.htail[b] = q.htail[b] /\ m \in T
        BY <3>2, <1>9, <1>10, <1>16, <2>2 DEF IsOldest
      <4>2. q.htail[b] \in S /\ \A t \in S : Age(q, t) <= Age(q, q.htail[b])
        BY <1>6, <2>1 DEF ChainLinked, IsNewest
      <4>3. q.htail[b] # h
        BY <4>1, <4>2, <2>1, <1>1, <1>3, <1>4, <1>12
      <4> QED BY <4>1, <4>2, <4>3, <2>1 DEF IsNewest
    <3> QED BY <3>1, <3>2
  <2>5. ASSUME NEW s \in T
        PROVE  IsOldest(q, Newer(q, T, s), q.hnxt[s])
    <3>1. Newer(q, T, s) = Newer(q, S, s)
      BY <2>1, <1>1, <1>3, <1>4, <1>5 DEF Newer
    <3> QED BY <3>1, <2>1, <1>6 DEF ChainLinked
  <2>6. ASSUME NEW s \in T
        PROVE  IsNewest(q, Older(q, T, s), r.hprv[s])
    <3>1. m \in T /\ (\A t \in T : Age(q, m) <= Age(q, t)) /\ m \in Slots /\ s \in Slots
      BY <2>2, <1>12 DEF IsOldest
    <3>2. r.hprv[s] = IF s = m THEN NULL ELSE q.hprv[s]
      BY <3>1, <1>9, <1>10
    <3>3. CASE s = m
      <4>1. Older(q, T, s) = {}
        BY <3>1, <3>3, <1>4, <1>12 DEF Older
      <4> QED BY <4>1, <3>2, <3>3 DEF IsNewest
    <3>4. CASE s # m
      <4>1. Age(q, m) < Age(q, s)
        BY <3>1, <3>4, <1>1, <1>4, AgeLemma
      <4>2. m \in Older(q, S, s) /\ m \in Older(q, T, s)
        BY <4>1, <3>1, <2>1 DEF Older
      <4>3. /\ q.hprv[s] \in Older(q, S, s)
            /\ \A t \in Older(q, S, s) : Age(q, t) <= Age(q, q.hprv[s])
        BY <4>2, <2>1, <1>6 DEF ChainLinked, IsNewest
      <4>4. q.hprv[s] # h
        BY <4>2, <4>3, <3>1, <1>1, <1>3, <1>4, <1>12
      <4>5. Older(q, T, s) \subseteq Older(q, S, s) /\ q.hprv[s] \in Older(q, T, s)
        BY <4>3, <4>4, <2>1 DEF Older
      <4> QED BY <4>3, <4>5, <3>2, <3>4 DEF IsNewest
    <3> QED BY <3>3, <3>4
  <2> QED BY <2>2, <2>3, <2>4, <2>5, <2>6
<1> QED BY <1>15, <1>16

(* The oldest block is unlinked, from the list and from its chain.         *)
LEMMA RemoveStep ==
  ASSUME NEW q \in CacheType, NEW n \in 1..NbBlkIdx, Linked(q, n)
  PROVE  /\ q.lhead = q.head
         /\ Linked(RemoveOldestBlock(q), n - 1)
         /\ RemoveOldestBlock(q) \in CacheType
         /\ Untouched(q, RemoveOldestBlock(q)) /\ RemoveOldestBlock(q).dead = q.dead
         /\ RemoveOldestBlock(q).head = Place(q, 1)
         /\ q.nb >= 1 => RemoveOldestBlock(q).nb = q.nb - 1
<1> DEFINE r == RemoveOldestBlock(q)
<1>1. NbBlkIdx \in Nat /\ NbBlkIdx >= 2 /\ q.head \in Slots /\ q.head \in 0..(NbBlkIdx - 1)
  BY RingLemma, Fields
<1>2. q.lhead = q.head /\ Place(q, 0) = q.head
  BY <1>1 DEF Linked, ListLinked, Place
<1>3. /\ r \in CacheType /\ Untouched(q, r) /\ r.dead = q.dead
      /\ r.lhead = q.lnxt[q.head] /\ r.head = (q.head + 1) % NbBlkIdx
      /\ r.nb = (q.nb - 1) % Wrap
  BY <1>1, <1>2, RemoveFields
<1>4. \A b \in Buckets : ChainLinked(r, Same(r, n - 1, b), b)
  BY ChainRemoved
<1> HIDE DEF r
<1>5. r.head = Place(q, 1)
  BY <1>1, <1>3, AgeLemma
<1>6. \A i \in 0..(n - 1) : Place(r, i) = Place(q, i + 1)
  BY <1>3, ShiftLemma DEF Untouched
<1>7. ListLinked(q, n)
  BY DEF Linked
<1>8. r.lhead = IF n = 1 THEN NULL ELSE Place(r, 0)
  <2>1. q.lnxt[Place(q, 0)] = IF 0 = n - 1 THEN NULL ELSE Place(q, 0 + 1)
    BY <1>7 DEF ListLinked
  <2>2. Place(r, 0) = Place(q, 1)
    BY <1>6
  <2> QED BY <2>1, <2>2, <1>2, <1>3
<1>9. n > 1 => r.ltail = Place(r, n - 2)
  <2>1. n > 1 => Place(r, n - 2) = Place(q, n - 1)
    BY <1>6
  <2> QED BY <2>1, <1>3, <1>7 DEF ListLinked, Untouched
<1>10. ASSUME NEW i \in 0..(n - 2)
       PROVE  r.lnxt[Place(r, i)] = IF i = n - 2 THEN NULL ELSE Place(r, i + 1)
  <2>1. Place(r, i) = Place(q, i + 1) /\ i + 1 \in 0..(n - 1)
    BY <1>6
  <2>2. q.lnxt[Place(q, i + 1)] = IF i + 1 = n - 1 THEN NULL ELSE Place(q, i + 1 + 1)
    BY <2>1, <1>7 DEF ListLinked
  <2>3. i # n - 2 => Place(r, i + 1) = Place(q, i + 1 + 1)
    BY <1>6
  <2> QED BY <2>1, <2>2, <2>3, <1>3 DEF Untouched
<1>11. ListLinked(r, n - 1)
  BY <1>8, <1>9, <1>10 DEF ListLinked
<1>12. q.nb >= 1 => r.nb = q.nb - 1
  <2>1. q.nb \in 0..(Wrap - 1) /\ Wrap \in Nat
    BY Fields, RingLemma
  <2>2. q.nb >= 1 => q.nb - 1 \in 0..(Wrap - 1)
    BY <2>1
  <2> QED BY <2>2, <1>3, ModLemma
<1> QED BY <1>2, <1>3, <1>4, <1>5, <1>11, <1>12 DEF Linked, r

-----------------------------------------------------------------------------
(* H_insert_bloc.                                                          *)
LinkedIn(q, s) ==
  LET b == SlotBucket(q, s)
      first == q.hhead[b] = NULL
      lnxt == [q.lnxt EXCEPT ![s] = NULL]
      hnxt == [q.hnxt EXCEPT ![s] = NULL]
      hprv == [q.hprv EXCEPT ![s] = NULL]
  IN
  [lnxt |-> IF q.lhead = NULL THEN lnxt ELSE [lnxt EXCEPT ![q.ltail] = s],
   hnxt |-> IF first THEN hnxt ELSE [hnxt EXCEPT ![q.htail[b]] = s],
   hprv |-> IF first THEN hprv ELSE [hprv EXCEPT ![s] = q.htail[b]],
   hhead |-> [q.hhead EXCEPT ![b] = IF first THEN s ELSE @],
   htail |-> [q.htail EXCEPT ![b] = s]]

SameButLinks(q, r) ==
  /\ r.slots = q.slots /\ r.head = q.head /\ r.tail = q.tail /\ r.nb = q.nb
  /\ r.total = q.total /\ r.pos = q.pos /\ r.edge = q.edge /\ r.dead = q.dead

LEMMA HInsertFields ==
  ASSUME NEW q \in CacheType, NEW s \in Slots
  PROVE  /\ HInsertBloc(q, s) \in CacheType
         /\ SameButLinks(q, HInsertBloc(q, s))
         /\ HInsertBloc(q, s).ltail = s
         /\ HInsertBloc(q, s).lhead = IF q.lhead = NULL THEN s ELSE q.lhead
         /\ HInsertBloc(q, s).lnxt = LinkedIn(q, s).lnxt
         /\ HInsertBloc(q, s).hnxt = LinkedIn(q, s).hnxt
         /\ HInsertBloc(q, s).hprv = LinkedIn(q, s).hprv
         /\ HInsertBloc(q, s).hhead = LinkedIn(q, s).hhead
         /\ HInsertBloc(q, s).htail = LinkedIn(q, s).htail
<1> DEFINE b == SlotBucket(q, s)
           first == q.hhead[b] = NULL
           lnxt == [q.lnxt EXCEPT ![s] = NULL]
           hnxt == [q.hnxt EXCEPT ![s] = NULL]
           hprv == [q.hprv EXCEPT ![s] = NULL]
           l == LinkedIn(q, s)
           r == [q EXCEPT !.hnxt = l.hnxt, !.hprv = l.hprv, !.hhead = l.hhead,
                          !.htail = l.htail, !.lnxt = l.lnxt,
                          !.lhead = IF q.lhead = NULL THEN s ELSE q.lhead, !.ltail = s]
<1>1. /\ l.lnxt = IF q.lhead = NULL THEN lnxt ELSE [lnxt EXCEPT ![q.ltail] = s]
      /\ l.hnxt = IF first THEN hnxt ELSE [hnxt EXCEPT ![q.htail[b]] = s]
      /\ l.hprv = IF first THEN hprv ELSE [hprv EXCEPT ![s] = q.htail[b]]
      /\ l.hhead = [q.hhead EXCEPT ![b] = IF first THEN s ELSE @]
      /\ l.htail = [q.htail EXCEPT ![b] = s]
  BY DEF LinkedIn
<1>2. HInsertBloc(q, s) = r
  BY <1>1 DEF HInsertBloc, SlotBucket, CacheType
<1>3. /\ s \in Pointer /\ NULL \in Pointer /\ b \in Buckets
      /\ q.htail[b] \in Pointer /\ q.ltail \in Pointer
  BY Fields DEF Pointer
<1>4. /\ lnxt \in [Slots -> Pointer] /\ hnxt \in [Slots -> Pointer]
      /\ hprv \in [Slots -> Pointer]
  BY <1>3, Fields
<1> HIDE DEF lnxt, hnxt, hprv, b
<1>5. /\ l.lnxt \in [Slots -> Pointer] /\ l.hnxt \in [Slots -> Pointer]
      /\ l.hprv \in [Slots -> Pointer]
  BY <1>1, <1>3, <1>4
<1>6. l.hhead \in [Buckets -> Pointer] /\ l.htail \in [Buckets -> Pointer]
  BY <1>1, <1>3, Fields
<1> HIDE DEF l
<1>7. r \in CacheType
  BY <1>3, <1>5, <1>6, Fields DEF CacheType, Buckets
<1>8. /\ SameButLinks(q, r) /\ r.ltail = s
      /\ r.lhead = (IF q.lhead = NULL THEN s ELSE q.lhead)
      /\ r.lnxt = l.lnxt /\ r.hnxt = l.hnxt /\ r.hprv = l.hprv
      /\ r.hhead = l.hhead /\ r.htail = l.htail
  BY DEF CacheType, SameButLinks
<1> QED BY <1>2, <1>7, <1>8 DEF l

(* The chain of one bucket after slot s was linked behind n others.        *)
LEMMA ChainInserted ==
  ASSUME NEW q \in CacheType, NEW n \in 0..(NbBlkIdx - 1), Linked(q, n), NEW b \in Buckets
  PROVE  ChainLinked(HInsertBloc(q, Place(q, n)), Same(HInsertBloc(q, Place(q, n)), n + 1, b), b)
<1> DEFINE s == Place(q, n)
           r == HInsertBloc(q, s)
           S == Same(q, n, b)
           T == Same(r, n + 1, b)
           a == SlotBucket(q, s)
<1>1. s \in Slots /\ Age(q, s) = n /\ n \in Int /\ q.head \in Slots
  BY AgeLemma, RingLemma, Fields
<1> HIDE DEF s
<1>2. ASSUME NEW t \in Slots
      PROVE  Age(q, t) \in Int /\ (Age(q, t) < n + 1 <=> Age(q, t) < n \/ t = s)
  <2>1. Age(q, t) \in 0..(NbBlkIdx - 1) /\ NbBlkIdx \in Nat
    BY <1>1, AgeLemma, RingLemma
  <2>2. Age(q, t) = n <=> t = s
    BY <1>1, AgeLemma
  <2> QED BY <2>1, <2>2, <1>1
<1>3. /\ r \in CacheType /\ SameButLinks(q, r)
      /\ r.hnxt = LinkedIn(q, s).hnxt /\ r.hprv = LinkedIn(q, s).hprv
      /\ r.hhead = LinkedIn(q, s).hhead /\ r.htail = LinkedIn(q, s).htail
  BY <1>1, HInsertFields
<1> HIDE DEF r
<1>4. \A t \in Slots : Age(r, t) = Age(q, t)
  BY <1>3 DEF SameButLinks, Age
<1>5. T = IF a = b THEN S \cup {s} ELSE S
  <2>1. Among(r, n + 1) = Among(q, n) \cup {s}
    BY <1>1, <1>2, <1>4 DEF Among
  <2>2. \A t : SlotBucket(r, t) = SlotBucket(q, t)
    BY <1>3 DEF SlotBucket, SameButLinks
  <2> QED BY <2>1, <2>2 DEF Same
<1>6. /\ S \subseteq Slots /\ s \notin S
      /\ \A t \in S : SlotBucket(q, t) = b /\ Age(q, t) < Age(q, s)
  BY <1>1, <1>2 DEF Same, Among
<1>7. ChainLinked(q, S, b)
  BY DEF Linked
<1>8. /\ r.hhead = [q.hhead EXCEPT ![a] = IF q.hhead[a] = NULL THEN s ELSE @]
      /\ r.htail = [q.htail EXCEPT ![a] = s]
      /\ r.hnxt = IF q.hhead[a] = NULL THEN [q.hnxt EXCEPT ![s] = NULL]
                  ELSE [[q.hnxt EXCEPT ![s] = NULL] EXCEPT ![q.htail[a]] = s]
      /\ r.hprv = IF q.hhead[a] = NULL THEN [q.hprv EXCEPT ![s] = NULL]
                  ELSE [[q.hprv EXCEPT ![s] = NULL] EXCEPT ![s] = q.htail[a]]
  BY <1>3 DEF LinkedIn
<1>9. /\ q.htail \in [Buckets -> Pointer] /\ q.hhead \in [Buckets -> Pointer]
      /\ q.hprv \in [Slots -> Pointer] /\ q.hnxt \in [Slots -> Pointer]
      /\ a \in Buckets /\ NULL \notin Slots
  BY <1>1, Fields, RingLemma
<1> HIDE DEF S, T
<1>10. ASSUME NEW U, U \subseteq Slots
       PROVE  /\ \A p : IsOldest(r, U, p) <=> IsOldest(q, U, p)
              /\ \A p : IsNewest(r, U, p) <=> IsNewest(q, U, p)
              /\ \A t \in U : Newer(r, U, t) = Newer(q, U, t) /\ Older(r, U, t) = Older(q, U, t)
              /\ \A t \in U : Newer(r, U, t) \subseteq Slots /\ Older(r, U, t) \subseteq Slots
  <2>1. \A t \in U : Age(r, t) = Age(q, t)
    BY <1>10, <1>4
  <2>2. \A p : IsOldest(r, U, p) <=> IsOldest(q, U, p)
    BY <2>1 DEF IsOldest
  <2>3. \A p : IsNewest(r, U, p) <=> IsNewest(q, U, p)
    BY <2>1 DEF IsNewest
  <2>4. \A t \in U : Newer(r, U, t) = Newer(q, U, t) /\ Older(r, U, t) = Older(q, U, t)
    BY <2>1 DEF Newer, Older
  <2> QED BY <2>2, <2>3, <2>4, <1>10 DEF Newer, Older
<1>11. T \subseteq Slots
  BY <1>1, <1>5, <1>6
<1>12. SUFFICES /\ IsOldest(q, T, r.hhead[b]) /\ IsNewest(q, T, r.htail[b])
                /\ \A t \in T : /\ IsOldest(q, Newer(q, T, t), r.hnxt[t])
                                /\ IsNewest(q, Older(q, T, t), r.hprv[t])
  <2>1. \A t \in T : /\ Newer(r, T, t) = Newer(q, T, t) /\ Older(r, T, t) = Older(q, T, t)
                     /\ Newer(r, T, t) \subseteq Slots /\ Older(r, T, t) \subseteq Slots
    BY <1>10, <1>11
  <2>2. \A t \in T : /\ IsOldest(r, Newer(r, T, t), r.hnxt[t]) <=> IsOldest(q, Newer(q, T, t), r.hnxt[t])
                     /\ IsNewest(r, Older(r, T, t), r.hprv[t]) <=> IsNewest(q, Older(q, T, t), r.hprv[t])
    BY <2>1, <1>10
  <2> QED BY <2>2, <1>10, <1>11 DEF ChainLinked, r, T, s
<1>13. CASE a # b
  <2>1. T = S /\ r.hhead[b] = q.hhead[b] /\ r.htail[b] = q.htail[b]
    BY <1>5, <1>8, <1>9, <1>13
  <2>2. q.hhead[a] # NULL => q.htail[a] \notin S
    <3>1. ChainLinked(q, Same(q, n, a), a)
      BY <1>9 DEF Linked
    <3>2. q.hhead[a] # NULL => q.htail[a] \in Same(q, n, a)
      BY <3>1 DEF ChainLinked, IsOldest, IsNewest
    <3>3. \A t \in Same(q, n, a) : SlotBucket(q, t) = a
      BY DEF Same
    <3> QED BY <3>2, <3>3, <1>6, <1>13
  <2>3. \A t \in S : r.hprv[t] = q.hprv[t] /\ r.hnxt[t] = q.hnxt[t]
    BY <1>6, <1>8, <1>9, <2>2
  <2> QED BY <1>7, <2>1, <2>3 DEF ChainLinked
<1>14. CASE a = b
  <2>1. T = S \cup {s}
    BY <1>5, <1>14
  <2>2. Older(q, T, s) = S /\ Newer(q, T, s) = {}
    BY <2>1, <1>2, <1>6, <1>1 DEF Older, Newer
  <2>3. r.htail[b] = s
    BY <1>8, <1>9, <1>14
  <2>4. IsNewest(q, T, r.htail[b])
    <3>1. \A t \in T : Age(q, t) <= Age(q, s)
      BY <2>1, <1>1, <1>2, <1>6
    <3> QED BY <3>1, <2>1, <2>3 DEF IsNewest
  <2>5. CASE S = {}
    <3>1. q.hhead[b] = NULL
      BY <2>5, <1>7 DEF ChainLinked, IsOldest
    <3>2. r.hhead[b] = s /\ r.hnxt[s] = NULL /\ r.hprv[s] = NULL
      BY <3>1, <1>1, <1>8, <1>9, <1>14
    <3>3. IsOldest(q, T, s)
      BY <2>1, <2>5, <1>1, <1>2 DEF IsOldest
    <3>4. IsOldest(q, Newer(q, T, s), r.hnxt[s]) /\ IsNewest(q, Older(q, T, s), r.hprv[s])
      BY <2>2, <2>5, <3>2 DEF IsOldest, IsNewest
    <3> QED BY <2>1, <2>4, <2>5, <3>2, <3>3, <3>4
  <2>6. CASE S # {}
    <3> DEFINE h == q.hhead[b]
               z == q.htail[b]
    <3>1. /\ h \in S /\ \A t \in S : Age(q, h) <= Age(q, t)
          /\ z \in S /\ \A t \in S : Age(q, t) <= Age(q, z)
      BY <2>6, <1>7 DEF ChainLinked, IsOldest, IsNewest
    <3>2. h # NULL /\ z \in Slots /\ z # s
      BY <3>1, <1>6, <1>9
    <3>3. /\ r.hhead[b] = h
          /\ r.hnxt[z] = s /\ r.hnxt[s] = NULL /\ r.hprv[s] = z
          /\ \A t \in S : r.hprv[t] = q.hprv[t] /\ (t # z => r.hnxt[t] = q.hnxt[t])
      BY <3>2, <1>1, <1>6, <1>8, <1>9, <1>14
    <3>4. IsOldest(q, T, h)
      BY <3>1, <2>1, <1>1, <1>2, <1>6 DEF IsOldest
    <3>5. IsOldest(q, Newer(q, T, s), r.hnxt[s]) /\ IsNewest(q, Older(q, T, s), r.hprv[s])
      BY <2>2, <2>6, <3>1, <3>3 DEF IsOldest, IsNewest
    <3>6. ASSUME NEW t \in S
          PROVE  /\ IsOldest(q, Newer(q, T, t), r.hnxt[t])
                 /\ IsNewest(q, Older(q, T, t), r.hprv[t])
      <4>1. Older(q, T, t) = Older(q, S, t)
        BY <2>1, <1>1, <1>2, <1>6 DEF Older
      <4>2. IsNewest(q, Older(q, T, t), r.hprv[t])
        BY <4>1, <3>3, <1>7 DEF ChainLinked
      <4>3. Newer(q, T, t) = Newer(q, S, t) \cup {s}
        BY <2>1, <1>6 DEF Newer
      <4>4. CASE t = z
        <5>1. Newer(q, S, t) = {}
          BY <4>4, <3>1, <1>2, <1>6 DEF Newer
        <5> QED BY <5>1, <4>2, <4>3, <4>4, <3>3, <1>1, <1>2 DEF IsOldest
      <4>5. CASE t # z
        <5>1. Age(q, t) < Age(q, z) /\ z \in Newer(q, S, t)
          <6>1. Age(q, t) # Age(q, z)
            BY <4>5, <3>2, <1>1, <1>6, AgeLemma
          <6> QED BY <6>1, <3>1, <1>2, <1>6 DEF Newer
        <5>2. /\ q.hnxt[t] \in Newer(q, S, t)
              /\ \A u \in Newer(q, S, t) : Age(q, q.hnxt[t]) <= Age(q, u)
          BY <5>1, <1>7 DEF ChainLinked, IsOldest
        <5>3. q.hnxt[t] \in S
          BY <5>2 DEF Newer
        <5>4. Age(q, q.hnxt[t]) <= Age(q, s)
          BY <5>3, <1>1, <1>2, <1>6
        <5> QED BY <5>2, <5>4, <4>2, <4>3, <4>5, <3>3 DEF IsOldest
      <4> QED BY <4>4, <4>5
    <3> QED BY <2>1, <2>4, <3>3, <3>4, <3>5, <3>6
  <2> QED BY <2>5, <2>6
<1> QED BY <1>13, <1>14

(* A block is linked at the end of the list and of its chain.              *)
LEMMA LinkStep ==
  ASSUME NEW q \in CacheType, NEW n \in 0..(NbBlkIdx - 1), Linked(q, n)
  PROVE  /\ Linked(HInsertBloc(q, Place(q, n)), n + 1)
         /\ HInsertBloc(q, Place(q, n)) \in CacheType
         /\ SameButLinks(q, HInsertBloc(q, Place(q, n)))
<1> DEFINE s == Place(q, n)
           r == HInsertBloc(q, s)
<1>1. s \in Slots /\ n \in Int /\ q.head \in Slots /\ NULL \notin Slots
  BY AgeLemma, RingLemma, Fields
<1>2. /\ r \in CacheType /\ SameButLinks(q, r)
      /\ r.ltail = s /\ r.lhead = (IF q.lhead = NULL THEN s ELSE q.lhead)
      /\ r.lnxt = IF q.lhead = NULL THEN [q.lnxt EXCEPT ![s] = NULL]
                  ELSE [[q.lnxt EXCEPT ![s] = NULL] EXCEPT ![q.ltail] = s]
  BY <1>1, HInsertFields DEF LinkedIn
<1>3. \A b \in Buckets : ChainLinked(r, Same(r, n + 1, b), b)
  BY ChainInserted
<1> HIDE DEF r
<1>4. ListLinked(q, n)
  BY DEF Linked
<1>5. \A i : Place(r, i) = Place(q, i)
  BY <1>2 DEF SameButLinks, Place
<1>6. ASSUME NEW i \in 0..n, NEW j \in 0..n, Place(q, i) = Place(q, j) PROVE i = j
  <2>1. i \in 0..(NbBlkIdx - 1) /\ j \in 0..(NbBlkIdx - 1)
    BY RingLemma
  <2> QED BY <2>1, <1>1, <1>6, AgeLemma
<1>7. \A i \in 0..n : Place(q, i) \in Slots
  <2>1. 0..n \subseteq 0..(NbBlkIdx - 1)
    BY RingLemma
  <2> QED BY <2>1, <1>1, AgeLemma
<1>8. q.lnxt \in [Slots -> Pointer]
  BY Fields
<1>9. CASE n = 0
  <2>1. q.lhead = NULL
    BY <1>4, <1>9 DEF ListLinked
  <2>2. r.lhead = Place(r, 0) /\ r.ltail = Place(r, 0) /\ r.lnxt[Place(r, 0)] = NULL
    BY <2>1, <1>1, <1>2, <1>5, <1>8, <1>9
  <2>3. ListLinked(r, 1)
    BY <2>2 DEF ListLinked
  <2> QED BY <2>3, <1>2, <1>3, <1>9 DEF Linked, r
<1>10. CASE n > 0
  <2>1. q.lhead = Place(q, 0) /\ q.lhead # NULL /\ q.ltail = Place(q, n - 1) /\ q.ltail \in Slots
    BY <1>1, <1>4, <1>7, <1>10 DEF ListLinked
  <2>2. r.lhead = Place(r, 0) /\ r.ltail = Place(r, n)
    BY <2>1, <1>2, <1>5
  <2>3. r.lnxt[s] = NULL /\ r.lnxt[Place(q, n - 1)] = s
    BY <2>1, <1>1, <1>2, <1>6, <1>8, <1>10
  <2>4. ASSUME NEW i \in 0..(n - 2) PROVE r.lnxt[Place(q, i)] = Place(q, i + 1)
    <3>1. Place(q, i) # s /\ Place(q, i) # Place(q, n - 1) /\ Place(q, i) \in Slots
      BY <1>6, <1>7, <1>1, <1>10
    <3>2. r.lnxt[Place(q, i)] = q.lnxt[Place(q, i)]
      BY <3>1, <2>1, <1>1, <1>2, <1>8
    <3>3. i \in 0..(n - 1) /\ i # n - 1
      BY <1>1
    <3>4. q.lnxt[Place(q, i)] = Place(q, i + 1)
      BY <3>3, <1>4 DEF ListLinked
    <3> QED BY <3>2, <3>4
  <2>5. ASSUME NEW i \in 0..n
        PROVE  r.lnxt[Place(r, i)] = IF i = n THEN NULL ELSE Place(r, i + 1)
    <3>1. CASE i = n
      BY <3>1, <2>3, <1>5
    <3>2. CASE i = n - 1
      BY <3>2, <2>3, <1>1, <1>5
    <3>3. CASE i < n - 1
      <4>1. i \in 0..(n - 2) /\ i # n
        BY <3>3, <1>1
      <4> QED BY <4>1, <2>4, <1>5
    <3> QED BY <3>1, <3>2, <3>3, <1>1
  <2>6. ListLinked(r, n + 1)
    <3>1. n + 1 # 0 /\ n + 1 - 1 = n
      BY <1>1
    <3> QED BY <3>1, <2>2, <2>5 DEF ListLinked
  <2> QED BY <2>6, <1>2, <1>3 DEF Linked, r
<1> QED BY <1>9, <1>10, <1>1

-----------------------------------------------------------------------------
(* The links of a cache, as long as the live blocks keep their bucket.     *)
LEMMA LinkedAgree ==
  ASSUME NEW q, NEW r, NEW n,
         r.lhead = q.lhead, r.ltail = q.ltail, r.lnxt = q.lnxt, r.head = q.head,
         r.hhead = q.hhead, r.htail = q.htail, r.hnxt = q.hnxt, r.hprv = q.hprv,
         \A s \in Among(q, n) : r.slots[s].key = q.slots[s].key,
         Linked(q, n)
  PROVE  Linked(r, n) /\ Among(r, n) = Among(q, n)
<1>1. \A i : Place(r, i) = Place(q, i)
  BY DEF Place
<1>2. \A s : Age(r, s) = Age(q, s)
  BY DEF Age
<1>3. Among(r, n) = Among(q, n)
  BY <1>2 DEF Among
<1>4. \A b : Same(r, n, b) = Same(q, n, b)
  BY <1>3 DEF Same, SlotBucket
<1>5. \A S, p : IsOldest(r, S, p) <=> IsOldest(q, S, p)
  BY <1>2 DEF IsOldest
<1>6. \A S, p : IsNewest(r, S, p) <=> IsNewest(q, S, p)
  BY <1>2 DEF IsNewest
<1>7. \A S, s : Newer(r, S, s) = Newer(q, S, s) /\ Older(r, S, s) = Older(q, S, s)
  BY <1>2 DEF Newer, Older
<1>8. ListLinked(r, n)
  BY <1>1 DEF Linked, ListLinked
<1>9. ASSUME NEW b \in Buckets
      PROVE  ChainLinked(r, Same(r, n, b), b)
  <2>1. ChainLinked(q, Same(q, n, b), b)
    BY DEF Linked
  <2> DEFINE S == Same(q, n, b)
  <2> HIDE DEF S
  <2>2. ChainLinked(r, S, b)
    BY <2>1, <1>5, <1>6, <1>7 DEF ChainLinked, S
  <2> QED BY <2>2, <1>4 DEF S
<1> QED BY <1>3, <1>8, <1>9 DEF Linked

(* The number of live blocks and the pointer to the first of them.         *)
LEMMA HeadLemma ==
  ASSUME NEW q \in CacheType, NEW n \in 0..NbBlkIdx, Linked(q, n)
  PROVE  q.lhead = IF n = 0 THEN NULL ELSE q.head
<1>1. NbBlkIdx \in Nat /\ q.head \in 0..(NbBlkIdx - 1)
  BY RingLemma, Fields
<1>2. Place(q, 0) = q.head
  BY <1>1 DEF Place
<1> QED BY <1>2 DEF Linked, ListLinked

(* The recursive function of RemoveWhile.                                  *)
LEMMA AfterDef ==
  ASSUME NEW q \in CacheType
  PROVE  /\ After(q)[0] = q
         /\ \A n \in Nat : After(q)[n + 1] = RemoveOldestBlock(After(q)[n])
<1> DEFINE S == CacheType
           step == [p \in Nat \X S |-> RemoveOldestBlock(p[2])]
<1>1. ASSUME NEW r \in S PROVE RemoveOldestBlock(r) \in S
  <2>1. CASE r.lhead = NULL
    <3>1. [r EXCEPT !.dead = TRUE] \in CacheType
      BY DEF CacheType
    <3> QED BY <2>1, <3>1 DEF RemoveOldestBlock
  <2>2. CASE r.lhead # NULL
    BY <2>2, RemoveFields, Fields
  <2> QED BY <2>1, <2>2
<1>2. step \in [Nat \X S -> S] /\ q \in S
  BY <1>1
<1>3. PICK f : Obeys(f, S, q, step)
  <2> HIDE DEF step, S
  <2> QED BY <1>2, Recursion
<1> DEFINE Body(g) == [n \in Nat |-> IF n = 0 THEN q ELSE RemoveOldestBlock(g[n-1])]
<1>4. f = Body(f)
  <2>1. f \in [Nat -> S] /\ f[0] = q
    BY <1>3 DEF Obeys
  <2>2. ASSUME NEW n \in Nat \ {0} PROVE f[n] = RemoveOldestBlock(f[n-1])
    <3>1. n - 1 \in Nat /\ (n - 1) + 1 = n
      OBVIOUS
    <3>2. f[(n-1) + 1] = step[<<n - 1, f[n-1]>>]
      BY <3>1, <1>3 DEF Obeys
    <3> QED BY <3>1, <3>2, <2>1
  <2> HIDE DEF S, step
  <2>3. \A n \in Nat : f[n] = Body(f)[n]
    BY <2>1, <2>2
  <2> QED BY <2>1, <2>3
<1> DEFINE h == After(q)
<1>5. h = Body(h)
  BY <1>4 DEF After
<1> HIDE DEF h
<1>6. ASSUME NEW n \in Nat PROVE h[n + 1] = RemoveOldestBlock(h[n])
  <2>1. n + 1 \in Nat /\ (n + 1) - 1 = n /\ n + 1 # 0
    OBVIOUS
  <2> QED BY <2>1, <1>5
<1>7. h[0] = q
  BY <1>5
<1> QED BY <1>6, <1>7 DEF h

(* The cache q with its n oldest blocks removed.                           *)
Shortened(q, r, n) ==
  /\ r \in CacheType /\ Untouched(q, r)
  /\ Linked(r, q.nb - n) /\ r.nb = q.nb - n /\ r.head = Place(q, n)

LEMMA AfterShort ==
  ASSUME NEW q \in CacheType, q.nb <= NbBlkIdx, Linked(q, q.nb), NEW n \in 0..q.nb
  PROVE  Shortened(q, After(q)[n], n) /\ After(q)[n].dead = q.dead
<1> DEFINE T == {i \in 0..q.nb : Shortened(q, After(q)[i], i) /\ After(q)[i].dead = q.dead}
<1>1. NbBlkIdx \in Nat /\ q.nb \in Nat /\ q.head \in 0..(NbBlkIdx - 1)
  BY RingLemma, Fields
<1>2. 0 \in T
  <2>1. Place(q, 0) = q.head
    BY <1>1 DEF Place
  <2> QED BY <2>1, <1>1, AfterDef DEF Shortened, Untouched
<1>3. ASSUME NEW i \in T, i < q.nb PROVE i + 1 \in T
  <2> DEFINE r == After(q)[i]
  <2>1. /\ r \in CacheType /\ Untouched(q, r) /\ r.dead = q.dead
        /\ Linked(r, q.nb - i) /\ r.nb = q.nb - i /\ r.head = Place(q, i)
    BY DEF Shortened
  <2>2. i \in Nat /\ q.nb - i \in 1..NbBlkIdx /\ i + 1 \in 0..q.nb /\ i < NbBlkIdx
    BY <1>1, <1>3
  <2>3. After(q)[i + 1] = RemoveOldestBlock(r)
    BY <2>2, AfterDef
  <2> HIDE DEF r
  <2>4. /\ Linked(RemoveOldestBlock(r), q.nb - i - 1)
        /\ RemoveOldestBlock(r) \in CacheType
        /\ Untouched(r, RemoveOldestBlock(r)) /\ RemoveOldestBlock(r).dead = r.dead
        /\ RemoveOldestBlock(r).head = Place(r, 1)
        /\ RemoveOldestBlock(r).nb = r.nb - 1
    BY <2>1, <2>2, RemoveStep
  <2>5. Place(r, 1) = Place(q, i + 1)
    BY <1>1, <2>1, <2>2 DEF Place
  <2>6. q.nb - i - 1 = q.nb - (i + 1)
    BY <1>1, <2>2
  <2> QED BY <2>1, <2>2, <2>3, <2>4, <2>5, <2>6 DEF Shortened, Untouched
<1>4. T \subseteq 0..q.nb
  OBVIOUS
<1> HIDE DEF T
<1>5. T = 0..q.nb
  BY <1>1, <1>2, <1>3, <1>4, UpTo
<1> QED BY <1>5 DEF T

(* The loop stops at the first block that does not meet the condition, and *)
(* kills the process if it has removed them all.                           *)
LEMMA RemoveWhileLemma ==
  ASSUME NEW q \in CacheType, q.nb <= NbBlkIdx, Linked(q, q.nb), NEW S
  PROVE  \E n \in 0..q.nb :
           /\ Shortened(q, RemoveWhile(q, S), n)
           /\ (RemoveWhile(q, S).dead <=> q.dead \/ n = q.nb)
           /\ \A i \in 0..(n - 1) : Place(q, i) \in S
           /\ n < q.nb => Place(q, n) \notin S
<1> DEFINE after == After(q)
           Stops(n) == after[n].lhead = NULL \/ after[n].lhead \notin S
           n == CHOOSE n \in 0..NbBlkIdx : Stops(n) /\ \A m \in 0..(n-1) : ~Stops(m)
           r == after[n]
<1>1. NbBlkIdx \in Nat /\ q.nb \in Nat /\ q.head \in Slots /\ NULL \notin Slots
  BY RingLemma, Fields
<1>2. ASSUME NEW i \in 0..q.nb
      PROVE  /\ Shortened(q, after[i], i) /\ after[i].dead = q.dead
             /\ after[i].lhead = IF i = q.nb THEN NULL ELSE Place(q, i)
  <2>1. Shortened(q, after[i], i) /\ after[i].dead = q.dead
    BY AfterShort
  <2>2. q.nb - i \in 0..NbBlkIdx /\ (q.nb - i = 0 <=> i = q.nb)
    BY <1>1
  <2> HIDE DEF after
  <2>3. after[i].lhead = IF q.nb - i = 0 THEN NULL ELSE after[i].head
    BY <2>1, <2>2, HeadLemma DEF Shortened
  <2> QED BY <2>1, <2>2, <2>3 DEF Shortened
<1> HIDE DEF after
<1>3. \E m \in 0..NbBlkIdx : Stops(m) /\ \A i \in 0..(m-1) : ~Stops(i)
  <2> DEFINE H == {m \in 0..q.nb : Stops(m)}
  <2>1. q.nb \in H
    BY <1>1, <1>2
  <2>2. H \in SUBSET Nat
    BY <1>1
  <2>3. PICK m \in H : \A i \in H : m <= i
    <3> HIDE DEF H
    <3> QED BY <2>1, <2>2, LeastElement
  <2>4. m \in 0..NbBlkIdx /\ Stops(m)
    BY <1>1
  <2>5. ASSUME NEW i \in 0..(m - 1) PROVE ~Stops(i)
    <3>1. i \in 0..q.nb /\ i < m
      BY <1>1
    <3> QED BY <3>1, <2>3
  <2> QED BY <2>4, <2>5
<1>4. n \in 0..NbBlkIdx /\ Stops(n) /\ \A i \in 0..(n-1) : ~Stops(i)
  <2> HIDE DEF Stops
  <2> QED BY <1>3
<1>5. RemoveWhile(q, S) = [r EXCEPT !.dead = @ \/ r.lhead = NULL]
  BY DEF RemoveWhile, after
<1> HIDE DEF n
<1>6. n \in 0..q.nb
  <2>1. Stops(q.nb)
    BY <1>1, <1>2
  <2>2. ~(q.nb \in 0..(n - 1))
    BY <1>4, <2>1
  <2> QED BY <1>1, <1>4, <2>2
<1>7. /\ Shortened(q, r, n) /\ r.dead = q.dead
      /\ r.lhead = IF n = q.nb THEN NULL ELSE Place(q, n)
  BY <1>2, <1>6
<1>8. \A i \in 0..q.nb : Place(q, i) \in Slots
  <2>1. 0..q.nb \subseteq 0..NbBlkIdx
    BY <1>1
  <2> QED BY <2>1, <1>1, AgeLemma
<1>9. ASSUME NEW i \in 0..(n - 1) PROVE Place(q, i) \in S
  <2>1. i \in 0..q.nb /\ i # q.nb
    BY <1>1, <1>6
  <2> QED BY <2>1, <1>2, <1>4
<1>10. n < q.nb => Place(q, n) \notin S
  BY <1>1, <1>4, <1>6, <1>7, <1>8
<1> DEFINE w == [r EXCEPT !.dead = r.dead \/ r.lhead = NULL]
<1>11. RemoveWhile(q, S) = w
  BY <1>5, <1>7 DEF Shortened, CacheType
<1>12. w.dead <=> q.dead \/ n = q.nb
  BY <1>1, <1>6, <1>7, <1>8 DEF Shortened, CacheType
<1> HIDE DEF r
<1>13. /\ w \in CacheType /\ Untouched(r, w) /\ w.nb = r.nb /\ w.head = r.head
       /\ w.lhead = r.lhead /\ w.hhead = r.hhead /\ w.htail = r.htail
       /\ w.hnxt = r.hnxt /\ w.hprv = r.hprv
  BY <1>7 DEF Shortened, CacheType, Untouched
<1> HIDE DEF w
<1>14. Linked(w, q.nb - n)
  BY <1>7, <1>13, LinkedAgree DEF Shortened, Untouched
<1>15. Shortened(q, w, n)
  BY <1>7, <1>13, <1>14 DEF Shortened, Untouched
<1> QED BY <1>6, <1>9, <1>10, <1>11, <1>12, <1>15

-----------------------------------------------------------------------------
(* edge_cache removes m1 blocks in its first loop, then up to m in its     *)
(* second one.                                                             *)
Turns(q, len) == q.pos + len > CacheSz
Edges(q, len) == q.edge \/ Turns(q, len)
WriteAt(q, len) == IF Turns(q, len) THEN 0 ELSE q.pos
LapBefore(q) == {s \in Slots : q.slots[s].off >= q.pos /\ q.slots[s].off # 0}
Ahead(q, len) == {s \in Slots : (q.slots[s].off - WriteAt(q, len)) % Wrap < len}

Edged(q, len, e, m1, m) ==
  /\ e \in CacheType /\ Linked(e, e.nb)
  /\ e.nb = q.nb - m /\ e.head = Place(q, m)
  /\ e.slots = q.slots /\ e.tail = q.tail /\ e.total = q.total
  /\ e.dead <=> Edges(q, len) /\ m = q.nb
  /\ IF Turns(q, len) /\ m1 < q.nb THEN e.pos = 0 /\ e.edge
                                   ELSE e.pos = q.pos /\ e.edge = q.edge
  /\ IF Turns(q, len)
       THEN /\ \A i \in 0..(m1 - 1) : Place(q, i) \in LapBefore(q)
            /\ m1 < q.nb => Place(q, m1) \notin LapBefore(q)
       ELSE m1 = 0
  /\ IF Edges(q, len)
       THEN /\ \A i \in m1..(m - 1) : Place(q, i) \in Ahead(q, len)
            /\ m < q.nb => Place(q, m) \notin Ahead(q, len)
       ELSE m = m1

LEMMA PlacePlus ==
  ASSUME NEW q, NEW r, q.head \in Slots, NEW m \in Nat, NEW i \in Nat, m + i <= NbBlkIdx,
         r.head = Place(q, m)
  PROVE  Place(r, i) = Place(q, m + i)
<1>1. NbBlkIdx \in Nat /\ q.head \in 0..(NbBlkIdx - 1)
  BY RingLemma
<1> QED BY <1>1 DEF Place

LEMMA EdgeCacheLemma ==
  ASSUME NEW q \in CacheType, q.nb <= NbBlkIdx, Linked(q, q.nb), ~q.dead, NEW len
  PROVE  \E m1 \in 0..q.nb : \E m \in m1..q.nb : Edged(q, len, EdgeCache(q, len), m1, m)
<1> DEFINE rotates == q.pos + len > CacheSz
           c1 == IF rotates THEN RemoveWhile(q, LapBefore(q)) ELSE q
           c2 == IF rotates /\ ~c1.dead THEN [c1 EXCEPT !.pos = 0, !.edge = TRUE] ELSE c1
           W == {s \in Slots : (q.slots[s].off - c2.pos) % Wrap < len}
           e == IF c2.edge /\ ~c2.dead THEN RemoveWhile(c2, W) ELSE c2
<1>1. NbBlkIdx \in Nat /\ q.nb \in Nat /\ q.head \in Slots /\ q.head \in 0..(NbBlkIdx - 1)
  BY RingLemma, Fields
<1>2. EdgeCache(q, len) = e
  BY DEF EdgeCache, LapBefore
<1>3. PICK m1 \in 0..q.nb :
        /\ Shortened(q, c1, m1)
        /\ (c1.dead <=> rotates /\ m1 = q.nb)
        /\ IF rotates
             THEN /\ \A i \in 0..(m1 - 1) : Place(q, i) \in LapBefore(q)
                  /\ m1 < q.nb => Place(q, m1) \notin LapBefore(q)
             ELSE m1 = 0
  <2>1. CASE rotates
    <3>1. PICK n \in 0..q.nb :
           /\ Shortened(q, RemoveWhile(q, LapBefore(q)), n)
           /\ (RemoveWhile(q, LapBefore(q)).dead <=> q.dead \/ n = q.nb)
           /\ \A i \in 0..(n - 1) : Place(q, i) \in LapBefore(q)
           /\ n < q.nb => Place(q, n) \notin LapBefore(q)
      BY RemoveWhileLemma
    <3> QED BY <2>1, <3>1
  <2>2. CASE ~rotates
    <3>1. Place(q, 0) = q.head
      BY <1>1 DEF Place
    <3>2. Shortened(q, q, 0) /\ 0 \in 0..q.nb
      BY <3>1, <1>1 DEF Shortened, Untouched
    <3>3. q.dead = FALSE
      BY Fields
    <3> QED BY <2>2, <3>2, <3>3
  <2> QED BY <2>1, <2>2
<1> HIDE DEF c1
<1>4. /\ c1 \in CacheType /\ Linked(c1, q.nb - m1) /\ c1.nb = q.nb - m1
      /\ c1.head = Place(q, m1) /\ c1.slots = q.slots /\ c1.tail = q.tail
      /\ c1.total = q.total /\ c1.pos = q.pos /\ c1.edge = q.edge
  BY <1>3 DEF Shortened, Untouched
<1>5. /\ c2 \in CacheType /\ Linked(c2, q.nb - m1) /\ c2.nb = q.nb - m1
      /\ c2.head = Place(q, m1) /\ c2.slots = q.slots /\ c2.tail = q.tail
      /\ c2.total = q.total /\ c2.dead = c1.dead
      /\ IF rotates /\ m1 < q.nb THEN c2.pos = 0 /\ c2.edge
                                 ELSE c2.pos = q.pos /\ c2.edge = q.edge
  <2>1. CASE rotates /\ ~c1.dead
    <3> DEFINE x == [c1 EXCEPT !.pos = 0, !.edge = TRUE]
    <3>1. x \in CacheType
      <4>1. 0 \in 0..(Wrap - 1)
        BY RingLemma
      <4> QED BY <4>1, <1>4 DEF CacheType
    <3>2. /\ x.lhead = c1.lhead /\ x.ltail = c1.ltail /\ x.lnxt = c1.lnxt /\ x.head = c1.head
          /\ x.hhead = c1.hhead /\ x.htail = c1.htail /\ x.hnxt = c1.hnxt /\ x.hprv = c1.hprv
          /\ x.slots = c1.slots /\ x.nb = c1.nb /\ x.tail = c1.tail /\ x.total = c1.total
          /\ x.dead = c1.dead /\ x.pos = 0 /\ x.edge
      BY <1>4 DEF CacheType
    <3> HIDE DEF x
    <3>3. Linked(x, q.nb - m1)
      BY <1>4, <3>2, LinkedAgree
    <3>4. c2 = x
      BY <2>1 DEF x
    <3>5. m1 < q.nb
      BY <1>1, <1>3, <2>1
    <3> QED BY <1>4, <2>1, <3>1, <3>2, <3>3, <3>4, <3>5
  <2>2. CASE ~(rotates /\ ~c1.dead)
    <3>1. ~(rotates /\ m1 < q.nb)
      BY <1>1, <1>3, <2>2
    <3> QED BY <1>4, <2>2, <3>1
  <2> QED BY <2>1, <2>2
<1> HIDE DEF c2
<1>6. (m1 < q.nb <=> m1 # q.nb) /\ (rotates <=> Turns(q, len))
  BY <1>1 DEF Turns
<1> HIDE DEF rotates
<1>7. CASE c2.edge /\ ~c2.dead
  <2>1. Edges(q, len) /\ (rotates => m1 < q.nb)
    BY <1>3, <1>5, <1>6, <1>7 DEF Edges
  <2>2. c2.nb \in 0..NbBlkIdx
    BY <1>1, <1>5
  <2>3. W = Ahead(q, len)
    BY <1>5, <1>6, <2>1 DEF Ahead, WriteAt
  <2>4. PICK k \in 0..c2.nb :
          /\ Shortened(c2, RemoveWhile(c2, W), k)
          /\ (RemoveWhile(c2, W).dead <=> c2.dead \/ k = c2.nb)
          /\ \A i \in 0..(k - 1) : Place(c2, i) \in W
          /\ k < c2.nb => Place(c2, k) \notin W
    <3> HIDE DEF W
    <3> QED BY <1>5, <2>2, RemoveWhileLemma
  <2>5. e = RemoveWhile(c2, W)
    BY <1>7
  <2> HIDE DEF e, W
  <2> DEFINE m == m1 + k
  <2>6. m \in m1..q.nb /\ k \in Nat /\ m1 \in Nat /\ m <= NbBlkIdx
    BY <1>1, <1>5, <2>2, <2>4
  <2>7. \A i \in 0..k : Place(c2, i) = Place(q, m1 + i)
    <3>1. ASSUME NEW i \in 0..k PROVE m1 + i <= NbBlkIdx /\ i \in Nat
      BY <1>1, <2>6
    <3> QED BY <3>1, <1>1, <1>5, <2>6, PlacePlus
  <2>8. /\ e \in CacheType /\ Linked(e, e.nb) /\ e.nb = q.nb - m /\ e.head = Place(q, m)
    <3>1. c2.nb - k = q.nb - m
      BY <1>1, <1>5, <2>6
    <3> QED BY <2>4, <2>5, <2>6, <2>7, <3>1 DEF Shortened
  <2>9. /\ e.slots = q.slots /\ e.tail = q.tail /\ e.total = q.total
        /\ e.pos = c2.pos /\ e.edge = c2.edge
    BY <1>5, <2>4, <2>5 DEF Shortened, Untouched
  <2>10. e.dead <=> m = q.nb
    BY <1>1, <1>5, <1>7, <2>4, <2>5, <2>6
  <2>11. ASSUME NEW i \in m1..(m - 1) PROVE Place(q, i) \in Ahead(q, len)
    <3>1. i - m1 \in 0..(k - 1) /\ m1 + (i - m1) = i /\ i - m1 \in 0..k
      BY <2>6
    <3> QED BY <3>1, <2>3, <2>4, <2>7
  <2>12. m < q.nb => Place(q, m) \notin Ahead(q, len)
    BY <1>1, <1>5, <2>3, <2>4, <2>6, <2>7
  <2> HIDE DEF m
  <2>13. Edged(q, len, e, m1, m)
    BY <1>3, <1>5, <1>6, <2>1, <2>8, <2>9, <2>10, <2>11, <2>12 DEF Edged
  <2> QED BY <1>2, <2>6, <2>13 DEF e
<1>8. CASE ~(c2.edge /\ ~c2.dead)
  <2>1. (c2.dead <=> Edges(q, len) /\ m1 = q.nb) /\ (Edges(q, len) => m1 = q.nb)
    BY <1>3, <1>5, <1>6, <1>8 DEF Edges
  <2>2. e = c2 /\ m1 \in m1..q.nb
    BY <1>1, <1>8
  <2>3. Edged(q, len, c2, m1, m1)
    <3>1. m1..(m1 - 1) = {}
      BY <1>1
    <3> QED BY <1>1, <1>3, <1>5, <1>6, <2>1, <3>1 DEF Edged
  <2> QED BY <1>2, <2>2, <2>3
<1> QED BY <1>7, <1>8

-----------------------------------------------------------------------------
(* new_bloc.                                                               *)
Evicts(q) == IF q.edge /\ q.nb = NbBlkIdx THEN 1 ELSE 0

LEMMA TailLemma ==
  ASSUME NEW q \in CacheType, Counted(q)
  PROVE  /\ q.tail = Place(q, q.nb)
         /\ q.nb \in 0..NbBlkIdx /\ q.total \in Nat /\ q.total - q.nb \in Nat
         /\ q.tail = q.head <=> q.nb \in {0, NbBlkIdx}
         /\ \A i \in 0..NbBlkIdx : Place(q, i) = (q.total - q.nb + i) % NbBlkIdx
<1>1. /\ NbBlkIdx \in Nat /\ NbBlkIdx >= 2 /\ q.nb \in 0..NbBlkIdx /\ q.total \in Nat
      /\ q.total - q.nb \in Nat /\ q.head \in Slots /\ q.head \in 0..(NbBlkIdx - 1)
  <2>1. q.nb <= NbBlkIdx /\ q.nb <= q.total
    BY DEF Counted
  <2>2. /\ q.nb \in 0..(Wrap - 1) /\ q.total \in 0..(Wrap - 1) /\ q.head \in Slots
        /\ Slots = 0..(NbBlkIdx - 1)
    BY Fields, RingLemma
  <2> QED BY <2>1, <2>2, RingLemma
<1>2. ASSUME NEW i \in 0..NbBlkIdx PROVE Place(q, i) = (q.total - q.nb + i) % NbBlkIdx
  <2> DEFINE x == q.total - q.nb
  <2>1. x \in Nat /\ q.head = x % NbBlkIdx
    BY <1>1 DEF Counted
  <2> HIDE DEF x
  <2>2. (x + i) % NbBlkIdx = ((x % NbBlkIdx) + i) % NbBlkIdx
    BY <2>1, CountLemma
  <2>3. Place(q, i) = (q.head + i) % NbBlkIdx
    BY <1>1, AgeLemma
  <2> QED BY <2>1, <2>2, <2>3 DEF x
<1>3. q.tail = Place(q, q.nb)
  <2>1. q.total - q.nb + q.nb = q.total
    BY <1>1
  <2>2. Place(q, q.nb) = (q.total - q.nb + q.nb) % NbBlkIdx
    BY <1>1, <1>2
  <2> QED BY <2>1, <2>2 DEF Counted
<1>4. q.tail = q.head <=> q.nb \in {0, NbBlkIdx}
  <2> DEFINE h == q.head
             m == q.nb
  <2>1. q.tail = IF h + m < NbBlkIdx THEN h + m ELSE h + m - NbBlkIdx
    BY <1>3 DEF Place
  <2>2. h \in 0..(NbBlkIdx - 1) /\ m \in 0..NbBlkIdx
    BY <1>1
  <2> HIDE DEF h, m
  <2>3. q.tail = h <=> m \in {0, NbBlkIdx}
    BY <1>1, <2>1, <2>2
  <2> QED BY <2>3 DEF h, m
<1> QED BY <1>1, <1>2, <1>3, <1>4

LEMMA NewBlocLemma ==
  ASSUME NEW w \in CacheType, Linked(w, w.nb), Counted(w), LiveKeys(w), ~w.dead,
         w.edge => w.nb > 0, w.total < MaxTotal, NEW k \in Keys, NEW off \in 0..CacheSz
  PROVE  /\ IndexInvOf(NewBloc(w, k, off)) /\ ~NewBloc(w, k, off).dead
         /\ NewBloc(w, k, off).nb = w.nb - Evicts(w) + 1
         /\ NewBloc(w, k, off).total = w.total + 1
         /\ NewBloc(w, k, off).head = Place(w, Evicts(w))
         /\ NewBloc(w, k, off).pos = w.pos
         /\ NewBloc(w, k, off).edge <=> w.edge \/ (w.total + 1) % NbBlkIdx = 0
         /\ NewBloc(w, k, off).slots = [w.slots EXCEPT ![w.tail] = [key |-> k, off |-> off]]
         /\ w.nb - Evicts(w) \in 0..(NbBlkIdx - 1)
<1> DEFINE d == Evicts(w)
           n == w.nb - d
           s == w.tail
           c1 == IF w.edge /\ w.tail = w.head THEN RemoveOldestBlock(w) ELSE w
           b == [c1 EXCEPT !.edge = @ \/ c1.tail + 1 = NbBlkIdx,
                           !.tail = (@ + 1) % NbBlkIdx]
           f == [b EXCEPT !.slots[s] = [key |-> k, off |-> off]]
           h == HInsertBloc(f, s)
           r == [h EXCEPT !.nb = (@ + 1) % Wrap, !.total = @ + 1]
<1>1. NewBloc(w, k, off) = r
  BY DEF NewBloc, NewBlockInfo
<1>2. /\ NbBlkIdx \in Nat /\ NbBlkIdx >= 2 /\ w.nb \in 0..NbBlkIdx /\ w.total \in Nat
      /\ w.head \in Slots /\ s \in Slots /\ s \in 0..(NbBlkIdx - 1)
      /\ s = Place(w, w.nb) /\ (s = w.head <=> w.nb \in {0, NbBlkIdx})
  BY RingLemma, Fields, TailLemma
<1>3. d \in {0, 1} /\ n \in 0..(NbBlkIdx - 1) /\ d + n = w.nb /\ n \in Nat
  BY <1>2 DEF Evicts, Counted
<1>4. /\ c1 \in CacheType /\ Untouched(w, c1) /\ c1.dead = w.dead /\ Linked(c1, n)
      /\ c1.head = Place(w, d) /\ c1.nb = n
      /\ \A t \in Among(c1, n) : t \in Among(w, w.nb)
  <2>1. CASE d = 1
    <3>1. w.edge /\ w.tail = w.head /\ w.nb = NbBlkIdx
      BY <2>1, <1>2 DEF Evicts
    <3>2. c1 = RemoveOldestBlock(w) /\ w.nb \in 1..NbBlkIdx
      BY <3>1, <1>2
    <3> HIDE DEF c1
    <3>3. /\ c1 \in CacheType /\ Untouched(w, c1) /\ c1.dead = w.dead
          /\ Linked(c1, w.nb - 1) /\ c1.head = Place(w, 1) /\ c1.nb = w.nb - 1
      BY <3>2, <1>2, RemoveStep
    <3>4. c1.head = (w.head + 1) % NbBlkIdx /\ c1.slots = w.slots
      <4>1. 1 \in 0..NbBlkIdx
        BY <1>2
      <4> QED BY <4>1, <3>3, <1>2, AgeLemma DEF Untouched
    <3>5. Among(c1, w.nb - 1) = Among(w, w.nb) \ {w.head}
      BY <3>2, <3>3, <3>4, ShiftLemma
    <3> QED BY <2>1, <3>3, <3>5
  <2>2. CASE d = 0
    <3>1. ~(w.edge /\ w.tail = w.head) /\ n = w.nb
      BY <2>2, <1>2 DEF Evicts
    <3>2. Place(w, 0) = w.head
      BY <1>2, RingLemma DEF Place
    <3> QED BY <2>2, <3>1, <3>2 DEF Untouched
  <2> QED BY <2>1, <2>2, <1>3
<1>5. Place(c1, n) = s /\ c1.head \in Slots
  BY <1>2, <1>3, <1>4, PlacePlus, Fields
<1>6. Age(c1, s) = n /\ s \notin Among(c1, n)
  <2>1. Age(c1, s) = n
    BY <1>3, <1>5, AgeLemma
  <2> QED BY <2>1, <1>3 DEF Among
<1> HIDE DEF d, n, c1
<1>7. /\ b \in CacheType
      /\ b.lhead = c1.lhead /\ b.ltail = c1.ltail /\ b.lnxt = c1.lnxt /\ b.head = c1.head
      /\ b.hhead = c1.hhead /\ b.htail = c1.htail /\ b.hnxt = c1.hnxt /\ b.hprv = c1.hprv
      /\ b.slots = c1.slots /\ b.nb = c1.nb /\ b.total = c1.total /\ b.pos = c1.pos
      /\ b.dead = c1.dead /\ b.tail = (c1.tail + 1) % NbBlkIdx
      /\ b.edge = (c1.edge \/ c1.tail + 1 = NbBlkIdx)
  <2>1. (c1.tail + 1) % NbBlkIdx \in Slots
    <3>1. c1.tail + 1 \in Nat /\ 0 \in 0..NbBlkIdx
      BY <1>2, <1>4 DEF Untouched
    <3> QED BY <3>1, CountLemma
  <2> QED BY <2>1, <1>4 DEF CacheType
<1> HIDE DEF b
<1> DEFINE slots == [b.slots EXCEPT ![s] = [key |-> k, off |-> off]]
<1>8. /\ f \in CacheType
      /\ f.lhead = b.lhead /\ f.ltail = b.ltail /\ f.lnxt = b.lnxt /\ f.head = b.head
      /\ f.hhead = b.hhead /\ f.htail = b.htail /\ f.hnxt = b.hnxt /\ f.hprv = b.hprv
      /\ f.nb = b.nb /\ f.total = b.total /\ f.pos = b.pos
      /\ f.dead = b.dead /\ f.tail = b.tail /\ f.edge = b.edge
      /\ f.slots = slots
  <2>1. slots \in [Slots -> [key : Keys \cup {NoKey}, off : 0..CacheSz]]
    BY <1>7, <1>2, Fields
  <2>2. f = [b EXCEPT !.slots = slots]
    BY <1>7 DEF CacheType
  <2> HIDE DEF slots
  <2> QED BY <2>1, <2>2, <1>7 DEF CacheType
<1>9. \A t \in Slots : t # s => slots[t] = w.slots[t]
  BY <1>2, <1>4, <1>7, Fields DEF Untouched
<1> HIDE DEF f, slots
<1>10. Linked(f, n) /\ Among(f, n) = Among(c1, n)
  <2>1. \A t \in Among(c1, n) : f.slots[t].key = c1.slots[t].key
    BY <1>4, <1>6, <1>8, <1>9 DEF Among, Untouched
  <2> QED BY <2>1, <1>4, <1>7, <1>8, LinkedAgree
<1>11. Place(f, n) = s
  BY <1>5, <1>7, <1>8 DEF Place
<1>12. Linked(h, n + 1) /\ h \in CacheType /\ SameButLinks(f, h)
  BY <1>3, <1>8, <1>10, <1>11, LinkStep
<1> HIDE DEF h
<1>13. /\ h.slots = slots /\ h.head = Place(w, d) /\ h.tail = (s + 1) % NbBlkIdx
       /\ h.nb = n /\ h.total = w.total /\ h.pos = w.pos /\ h.dead = w.dead
       /\ h.edge = (w.edge \/ s + 1 = NbBlkIdx)
  BY <1>4, <1>7, <1>8, <1>12 DEF SameButLinks, Untouched
<1>14. /\ r \in CacheType
       /\ r.lhead = h.lhead /\ r.ltail = h.ltail /\ r.lnxt = h.lnxt /\ r.head = h.head
       /\ r.hhead = h.hhead /\ r.htail = h.htail /\ r.hnxt = h.hnxt /\ r.hprv = h.hprv
       /\ r.slots = h.slots /\ r.pos = h.pos /\ r.dead = h.dead /\ r.tail = h.tail
       /\ r.edge = h.edge /\ r.nb = n + 1 /\ r.total = w.total + 1
  <2>1. (h.nb + 1) % Wrap = n + 1 /\ n + 1 \in 0..(Wrap - 1)
    <3>1. n + 1 \in 0..(Wrap - 1)
      BY <1>2, <1>3, RingLemma
    <3> QED BY <3>1, <1>13, ModLemma
  <2>2. h.total + 1 = w.total + 1 /\ w.total + 1 \in 0..(Wrap - 1)
    BY <1>2, <1>13, RingLemma
  <2> QED BY <2>1, <2>2, <1>12 DEF CacheType
<1> HIDE DEF r
<1>15. Linked(r, r.nb) /\ Among(r, n + 1) = Among(h, n + 1)
  BY <1>12, <1>14, LinkedAgree
<1>16. LiveKeys(r)
  <2>1. ASSUME NEW t \in Among(r, n + 1) PROVE r.slots[t].key \in Keys
    <3>1. t \in Slots /\ Age(c1, t) < n + 1 /\ Age(c1, t) \in 0..(NbBlkIdx - 1)
      <4>1. r.head = c1.head
        BY <1>14, <1>12, <1>7, <1>8 DEF SameButLinks
      <4>2. t \in Slots /\ Age(c1, t) < n + 1
        BY <4>1 DEF Among, Age
      <4> QED BY <4>2, <1>5, AgeLemma
    <3>2. CASE t = s
      <4>1. slots[s] = [key |-> k, off |-> off]
        BY <1>2, <1>7, Fields DEF slots
      <4> QED BY <3>2, <4>1, <1>13, <1>14
    <3>3. CASE t # s
      <4>1. Age(c1, t) # n
        BY <3>1, <3>3, <1>2, <1>5, <1>6, AgeLemma
      <4>2. t \in Among(c1, n)
        BY <3>1, <4>1, <1>2, <1>3 DEF Among
      <4> QED BY <3>1, <3>3, <4>2, <1>4, <1>9, <1>13, <1>14 DEF LiveKeys
    <3> QED BY <3>2, <3>3
  <2> QED BY <2>1, <1>14 DEF LiveKeys
<1>17. /\ s = w.total % NbBlkIdx
       /\ (s + 1) % NbBlkIdx = (w.total + 1) % NbBlkIdx
       /\ s + 1 = NbBlkIdx <=> (w.total + 1) % NbBlkIdx = 0
  <2>1. s = w.total % NbBlkIdx
    BY DEF Counted
  <2>2. (w.total + 1) % NbBlkIdx = ((w.total % NbBlkIdx) + 1) % NbBlkIdx
    <3>1. 1 \in 0..NbBlkIdx /\ w.total \in Nat
      BY <1>2
    <3> QED BY <3>1, CountLemma
  <2>3. CASE s + 1 = NbBlkIdx
    <3>1. (0 + NbBlkIdx) % NbBlkIdx = 0 /\ 0 + NbBlkIdx = NbBlkIdx
      BY <1>2, ModLemma
    <3> QED BY <2>1, <2>2, <2>3, <3>1
  <2>4. CASE s + 1 # NbBlkIdx
    <3>1. s + 1 \in 0..(NbBlkIdx - 1) /\ s + 1 # 0
      BY <1>2, <2>4
    <3>2. (s + 1) % NbBlkIdx = s + 1
      BY <3>1, ModLemma
    <3> QED BY <2>1, <2>2, <2>4, <3>1, <3>2
  <2> QED BY <2>3, <2>4
<1>18. r.edge <=> w.edge \/ (w.total + 1) % NbBlkIdx = 0
  BY <1>13, <1>14, <1>17
<1>19. Counted(r)
  <2>1. r.nb <= NbBlkIdx /\ r.nb <= r.total /\ r.total <= MaxTotal
    <3>1. w.nb <= w.total
      BY DEF Counted
    <3> QED BY <3>1, <1>2, <1>3, <1>14, RingLemma
  <2>2. r.head = (r.total - r.nb) % NbBlkIdx
    <3>1. d \in 0..NbBlkIdx /\ w.total - w.nb + d = r.total - r.nb
      BY <1>2, <1>3, <1>14
    <3> QED BY <3>1, <1>13, <1>14, TailLemma
  <2>3. r.tail = r.total % NbBlkIdx
    BY <1>13, <1>14, <1>17
  <2>4. ~r.dead
    BY <1>13, <1>14
  <2>5. ~r.edge => r.nb = r.total /\ r.total < NbBlkIdx
    <3>1. SUFFICES ASSUME ~w.edge, (w.total + 1) % NbBlkIdx # 0
                   PROVE  r.nb = r.total /\ r.total < NbBlkIdx
      BY <1>18
    <3>2. w.nb = w.total /\ w.total < NbBlkIdx
      BY <3>1 DEF Counted
    <3>3. d = 0
      BY <3>1 DEF d, Evicts
    <3>4. w.total \in 0..(NbBlkIdx - 1)
      BY <3>2, <1>2
    <3>5. w.total % NbBlkIdx = w.total
      BY <3>4, ModLemma
    <3> QED BY <3>1, <3>2, <3>3, <3>4, <3>5, <1>2, <1>3, <1>14, <1>17
  <2> QED BY <2>1, <2>2, <2>3, <2>4, <2>5 DEF Counted
<1>20. r.slots = [w.slots EXCEPT ![w.tail] = [key |-> k, off |-> off]]
  BY <1>4, <1>7, <1>13, <1>14 DEF slots, Untouched
<1>21. IndexInvOf(r)
  BY <1>14, <1>15, <1>16, <1>19 DEF IndexInvOf
<1> QED
  <2>1. r.head = Place(w, Evicts(w)) /\ r.pos = w.pos /\ ~r.dead /\ r.nb = w.nb - Evicts(w) + 1
    BY <1>13, <1>14 DEF d, n
  <2> QED BY <1>1, <1>3, <1>14, <1>18, <1>20, <1>21, <2>1 DEF n, d

-----------------------------------------------------------------------------
(* The insertion of a block keeps the invariant.                           *)

(* The slots left in the ring when m blocks are gone.                      *)
LEMMA AmongAfter ==
  ASSUME NEW q, NEW e, q.head \in Slots, e.head \in Slots,
         NEW n \in 0..NbBlkIdx, NEW m \in 0..n, e.head = Place(q, m)
  PROVE  Among(e, n - m) \subseteq Among(q, n)
<1>1. NbBlkIdx \in Nat
  BY RingLemma
<1>2. ASSUME NEW s \in Among(e, n - m) PROVE s \in Among(q, n)
  <2> DEFINE i == Age(e, s)
  <2>1. s \in Slots /\ i < n - m
    BY DEF Among
  <2>2. i \in 0..(NbBlkIdx - 1) /\ Place(e, i) = s
    BY <2>1, AgeLemma
  <2> HIDE DEF i
  <2>3. i \in Nat /\ m \in Nat /\ m + i <= NbBlkIdx /\ m + i < n
    BY <1>1, <2>1, <2>2
  <2>4. Place(q, m + i) = s
    BY <2>2, <2>3, PlacePlus
  <2>5. m + i \in 0..(NbBlkIdx - 1)
    BY <1>1, <2>3
  <2>6. Age(q, s) = m + i
    BY <2>4, <2>5, AgeLemma
  <2> QED BY <2>1, <2>3, <2>6 DEF Among
<1> QED BY <1>2

LEMMA NoneAmong ==
  ASSUME NEW q, q.head \in Slots
  PROVE  Among(q, 0) = {}
<1>1. ASSUME NEW s \in Slots PROVE ~(Age(q, s) < 0)
  <2>1. Age(q, s) \in 0..(NbBlkIdx - 1) /\ NbBlkIdx \in Nat
    BY AgeLemma, RingLemma
  <2> QED BY <2>1
<1> QED BY <1>1 DEF Among

LEMMA EdgedInv ==
  ASSUME NEW q, IndexInvOf(q), ~q.dead, NEW len \in 1..MaxLen,
         NEW m1 \in 0..q.nb, NEW m \in m1..q.nb, NEW e, Edged(q, len, e, m1, m)
  PROVE  /\ IndexInvOf(e)
         /\ e.dead => e.nb = 0
         /\ ~e.dead => /\ e.pos = WriteAt(q, len) /\ e.pos \in 0..CacheSz
                       /\ e.pos + len \in 0..(Wrap - 1)
                       /\ e.edge <=> Edges(q, len)
                       /\ e.edge => e.nb > 0
<1>1. /\ NbBlkIdx \in Nat /\ q.nb \in 0..NbBlkIdx /\ q.total \in Nat /\ q.nb <= q.total
      /\ q.total <= MaxTotal /\ q.head \in Slots
      /\ q.pos \in 0..(Wrap - 1) /\ q \in CacheType /\ e \in CacheType /\ e.head \in Slots
  <2>1. /\ q \in CacheType /\ e \in CacheType /\ q.nb <= q.total /\ q.nb <= NbBlkIdx
        /\ q.total <= MaxTotal
    BY DEF IndexInvOf, Edged, Counted
  <2>2. /\ q.nb \in 0..(Wrap - 1) /\ q.total \in 0..(Wrap - 1) /\ q.pos \in 0..(Wrap - 1)
        /\ q.head \in Slots /\ e.head \in Slots
    BY <2>1, Fields
  <2> QED BY <2>1, <2>2, RingLemma
<1>2. m \in 0..q.nb /\ m \in 0..NbBlkIdx /\ q.nb - m \in 0..NbBlkIdx
  BY <1>1
<1>3. /\ CacheSz \in Nat /\ Wrap \in Nat /\ Wrap > CacheSz + MaxLen /\ MaxLen \in Nat
      /\ len \in Nat /\ len <= MaxLen /\ len > 0
  BY IndexAssumption
<1>4. LiveKeys(e)
  <2>1. Among(e, q.nb - m) \subseteq Among(q, q.nb)
    BY <1>1, <1>2, AmongAfter DEF Edged
  <2> QED BY <2>1 DEF Edged, IndexInvOf, LiveKeys
<1>5. e.dead => e.nb = 0
  BY <1>1 DEF Edged
<1>6. ASSUME ~e.dead
      PROVE  /\ e.pos = WriteAt(q, len) /\ e.pos \in 0..CacheSz
             /\ e.pos + len \in 0..(Wrap - 1)
             /\ e.edge <=> Edges(q, len)
             /\ e.edge => e.nb > 0
  <2>1. ~(Edges(q, len) /\ m = q.nb)
    BY <1>6 DEF Edged
  <2>2. CASE Turns(q, len)
    <3>1. m1 < q.nb /\ m < q.nb /\ Edges(q, len)
      BY <1>1, <2>1, <2>2 DEF Edges
    <3>2. e.pos = 0 /\ e.edge /\ e.nb > 0
      BY <2>2, <3>1, <1>1 DEF Edged
    <3> QED BY <1>3, <2>2, <3>1, <3>2 DEF WriteAt
  <2>3. CASE ~Turns(q, len)
    <3>1. e.pos = q.pos /\ e.edge = q.edge /\ (Edges(q, len) <=> q.edge)
      BY <2>3 DEF Edged, Edges
    <3>2. q.pos + len <= CacheSz
      BY <1>1, <1>3, <2>3 DEF Turns
    <3>3. Edges(q, len) => e.nb > 0
      BY <1>1, <2>1 DEF Edged
    <3>4. q.pos \in 0..CacheSz /\ q.pos + len \in 0..(Wrap - 1)
      BY <1>1, <1>3, <3>2
    <3> QED BY <2>3, <3>1, <3>3, <3>4 DEF WriteAt
  <2> QED BY <2>2, <2>3
<1>7. Counted(e)
  <2>1. /\ e.nb = q.nb - m /\ e.total = q.total /\ e.tail = q.tail
        /\ e.head = Place(q, m)
    BY DEF Edged
  <2>2. e.total - e.nb = q.total - q.nb + m /\ e.nb <= NbBlkIdx /\ e.nb <= e.total
    BY <1>1, <1>2, <2>1
  <2>3. e.head = (e.total - e.nb) % NbBlkIdx
    BY <1>1, <1>2, <2>1, <2>2, TailLemma DEF IndexInvOf
  <2>4. ASSUME ~e.dead, ~e.edge PROVE e.nb = e.total /\ e.total < NbBlkIdx
    <3>1. ~Edges(q, len)
      BY <1>6, <2>4
    <3>2. m = 0 /\ ~q.edge
      BY <3>1 DEF Edged, Edges
    <3> QED BY <1>1, <2>1, <3>2 DEF IndexInvOf, Counted
  <2>5. e.tail = e.total % NbBlkIdx
    BY <2>1 DEF IndexInvOf, Counted
  <2> QED BY <1>1, <1>5, <2>1, <2>2, <2>3, <2>4, <2>5 DEF Counted
<1> QED BY <1>1, <1>4, <1>5, <1>6, <1>7 DEF IndexInvOf, Edged

(* The cache once the bytes of the block are written.                      *)
Written(e, p) == [e EXCEPT !.pos = p]

LEMMA WrittenLemma ==
  ASSUME NEW e, IndexInvOf(e), NEW p \in 0..(Wrap - 1), NEW w, w = Written(e, p)
  PROVE  /\ IndexInvOf(w)
         /\ w.slots = e.slots /\ w.head = e.head /\ w.tail = e.tail /\ w.nb = e.nb
         /\ w.total = e.total /\ w.pos = p /\ w.edge = e.edge /\ w.dead = e.dead
<1>1. e \in CacheType
  BY DEF IndexInvOf
<1>2. /\ w \in CacheType
      /\ w.lhead = e.lhead /\ w.ltail = e.ltail /\ w.lnxt = e.lnxt /\ w.head = e.head
      /\ w.hhead = e.hhead /\ w.htail = e.htail /\ w.hnxt = e.hnxt /\ w.hprv = e.hprv
      /\ w.slots = e.slots /\ w.tail = e.tail /\ w.nb = e.nb
      /\ w.total = e.total /\ w.pos = p /\ w.edge = e.edge /\ w.dead = e.dead
  BY <1>1 DEF CacheType, Written
<1>3. Linked(w, w.nb) /\ Among(w, w.nb) = Among(e, e.nb)
  <2> DEFINE n == e.nb
  <2>1. Linked(e, n) /\ \A s \in Among(e, n) : w.slots[s].key = e.slots[s].key
    BY <1>2 DEF IndexInvOf
  <2> HIDE DEF n
  <2>2. Linked(w, n) /\ Among(w, n) = Among(e, n)
    BY <1>2, <2>1, LinkedAgree
  <2> QED BY <1>2, <2>2 DEF n
<1>4. Counted(w)
  BY <1>2 DEF IndexInvOf, Counted
<1>5. LiveKeys(w)
  BY <1>2, <1>3 DEF IndexInvOf, LiveKeys
<1> QED BY <1>2, <1>3, <1>4, <1>5 DEF IndexInvOf

(* What Insert does: e is the cache edge_cache leaves.                     *)
LEMMA InsertLemma ==
  ASSUME NEW q, IndexInvOf(q), ~q.dead, NEW k \in Keys, q.total < MaxTotal,
         NEW e, e = EdgeCache(q, BlkLen[k]), NEW r,
         r = IF e.dead THEN e
             ELSE NewBloc([e EXCEPT !.pos = @ + BlkLen[k]], k, e.pos)
  PROVE  /\ IndexInvOf(r) /\ e.dead = r.dead
         /\ \E m1 \in 0..q.nb : \E m \in m1..q.nb : Edged(q, BlkLen[k], e, m1, m)
         /\ ~e.dead =>
              /\ e.pos = WriteAt(q, BlkLen[k])
              /\ e.edge <=> Edges(q, BlkLen[k])
              /\ r.nb = e.nb - Evicts(e) + 1
              /\ r.total = q.total + 1
              /\ r.head = Place(e, Evicts(e))
              /\ r.pos = e.pos + BlkLen[k]
              /\ r.edge <=> e.edge \/ (q.total + 1) % NbBlkIdx = 0
              /\ r.slots = [q.slots EXCEPT ![q.tail] = [key |-> k, off |-> e.pos]]
              /\ e.nb - Evicts(e) \in 0..(NbBlkIdx - 1)
<1> DEFINE len == BlkLen[k]
<1>1. len \in 1..MaxLen
  BY IndexAssumption
<1>2. q \in CacheType /\ q.nb <= NbBlkIdx /\ Linked(q, q.nb)
  BY DEF IndexInvOf, Counted
<1>3. PICK m1 \in 0..q.nb : \E m \in m1..q.nb : Edged(q, len, e, m1, m)
  BY <1>2, EdgeCacheLemma
<1>4. PICK m \in m1..q.nb : Edged(q, len, e, m1, m)
  BY <1>3
<1>5. /\ IndexInvOf(e)
      /\ ~e.dead => /\ e.pos = WriteAt(q, len) /\ e.pos \in 0..CacheSz
                    /\ e.pos + len \in 0..(Wrap - 1)
                    /\ e.edge <=> Edges(q, len)
                    /\ e.edge => e.nb > 0
  BY <1>1, <1>4, EdgedInv
<1>6. e.slots = q.slots /\ e.total = q.total /\ e.tail = q.tail
  BY <1>4 DEF Edged
<1> HIDE DEF len
<1>7. CASE ~e.dead
  <2> DEFINE w == Written(e, e.pos + len)
  <2>1. /\ IndexInvOf(w)
        /\ w.slots = e.slots /\ w.head = e.head /\ w.tail = e.tail /\ w.nb = e.nb
        /\ w.total = e.total /\ w.pos = e.pos + len /\ w.edge = e.edge /\ w.dead = e.dead
    BY <1>5, <1>7, WrittenLemma
  <2>2. r = NewBloc(w, k, e.pos)
    BY <1>7 DEF len, Written
  <2> HIDE DEF w
  <2>3. /\ w \in CacheType /\ Linked(w, w.nb) /\ Counted(w) /\ LiveKeys(w) /\ ~w.dead
        /\ w.edge => w.nb > 0
        /\ w.total < MaxTotal /\ e.pos \in 0..CacheSz
    BY <1>5, <1>6, <1>7, <2>1 DEF IndexInvOf
  <2>4. /\ IndexInvOf(r) /\ ~r.dead
        /\ r.nb = w.nb - Evicts(w) + 1 /\ r.total = w.total + 1
        /\ r.head = Place(w, Evicts(w)) /\ r.pos = w.pos
        /\ r.edge <=> w.edge \/ (w.total + 1) % NbBlkIdx = 0
        /\ r.slots = [w.slots EXCEPT ![w.tail] = [key |-> k, off |-> e.pos]]
        /\ w.nb - Evicts(w) \in 0..(NbBlkIdx - 1)
    BY <2>2, <2>3, NewBlocLemma
  <2>5. Evicts(w) = Evicts(e) /\ \A i : Place(w, i) = Place(e, i)
    BY <2>1 DEF Evicts, Place
  <2>6. e.dead = r.dead
    <3>1. e.dead \in BOOLEAN /\ r.dead \in BOOLEAN
      BY <1>5, <2>4, Fields DEF IndexInvOf
    <3> QED BY <3>1, <1>7, <2>4
  <2> QED BY <1>4, <1>5, <1>6, <1>7, <2>1, <2>4, <2>5, <2>6 DEF len
<1>8. CASE e.dead
  BY <1>4, <1>5, <1>8 DEF len
<1> QED BY <1>7, <1>8

(* No block, no link.                                                      *)
LEMMA EmptyLinked ==
  ASSUME NEW q \in CacheType, q.lhead = NULL,
         \A b \in Buckets : q.hhead[b] = NULL /\ q.htail[b] = NULL
  PROVE  Linked(q, 0) /\ Among(q, 0) = {}
<1>1. Among(q, 0) = {}
  BY NoneAmong, Fields
<1>2. \A b : Same(q, 0, b) = {}
  BY <1>1 DEF Same
<1>3. ListLinked(q, 0)
  BY DEF ListLinked
<1>4. \A b \in Buckets : ChainLinked(q, Same(q, 0, b), b)
  BY <1>2 DEF ChainLinked, IsOldest, IsNewest
<1> QED BY <1>1, <1>3, <1>4 DEF Linked

LEMMA EmptyListsFields ==
  ASSUME NEW q \in CacheType
  PROVE  /\ EmptyLists(q) \in CacheType
         /\ SameButLinks(q, EmptyLists(q))
         /\ Linked(EmptyLists(q), 0)
<1> DEFINE r == EmptyLists(q)
<1>1. r \in CacheType /\ SameButLinks(q, r)
  BY DEF EmptyLists, CacheType, Pointer, SameButLinks
<1>2. r.lhead = NULL /\ \A b \in Buckets : r.hhead[b] = NULL /\ r.htail[b] = NULL
  BY DEF EmptyLists, CacheType, Buckets
<1> HIDE DEF r
<1> QED BY <1>1, <1>2, EmptyLinked DEF r

LEMMA ResetInv ==
  ASSUME NEW q \in CacheType, ~q.dead, NEW r,
         r = [EmptyLists(q) EXCEPT !.head = 0, !.tail = 0, !.nb = 0, !.total = 0,
                                   !.pos = 0, !.edge = FALSE]
  PROVE  IndexInvOf(r) /\ r.nb = 0 /\ r.total = 0 /\ r.pos = 0 /\ ~r.edge /\ ~r.dead
<1> DEFINE u == EmptyLists(q)
<1>1. u \in CacheType /\ u.dead = q.dead
  BY EmptyListsFields DEF SameButLinks
<1>2. u.lhead = NULL /\ \A b \in Buckets : u.hhead[b] = NULL /\ u.htail[b] = NULL
  BY DEF EmptyLists, CacheType, Buckets
<1> HIDE DEF u
<1>3. 0 \in Slots /\ 0 \in 0..(Wrap - 1) /\ 0 % NbBlkIdx = 0
  BY RingLemma, ModLemma
<1>4. /\ r \in CacheType /\ r.lhead = u.lhead /\ r.hhead = u.hhead /\ r.htail = u.htail
      /\ r.head = 0 /\ r.tail = 0 /\ r.nb = 0 /\ r.total = 0 /\ r.pos = 0 /\ ~r.edge
      /\ r.dead = q.dead
  BY <1>1, <1>3 DEF CacheType, u
<1>5. Linked(r, 0) /\ Among(r, 0) = {}
  BY <1>2, <1>4, EmptyLinked
<1>6. Counted(r)
  BY <1>3, <1>4, RingLemma DEF Counted
<1> QED BY <1>4, <1>5, <1>6 DEF IndexInvOf, LiveKeys

-----------------------------------------------------------------------------
(* A sound reload.                                                         *)
Gone == c.total - c.nb
KeptTotal(m) == IF m = 0 THEN c.total ELSE m
Kept(m) == KeptTotal(m) - Gone

LEMMA SoundKind ==
  ASSUME NEW m, LoadKind(m) = "sound"
  PROVE  /\ c.nb # 0 /\ ~(c.nb = NbBlkIdx /\ Gone = 0)
         /\ m > 0 => /\ ~(m < Gone) /\ m # Gone
                     /\ ~(c.head >= c.tail /\ m - Gone < NbBlkIdx - c.head)
<1>1. /\ "past" # "sound" /\ "none" # "sound" /\ "empty" # "sound"
      /\ "cut" # "sound" /\ "full" # "sound"
  OBVIOUS
<1> QED BY <1>1 DEF LoadKind, Gone

(* The ring, and what is kept of it.                                       *)
LEMMA LoadRing ==
  ASSUME IndexInvOf(c), ~c.dead, NEW m \in 0..MaxTotal, m <= c.total, LoadKind(m) = "sound"
  PROVE  /\ c.nb \in 1..NbBlkIdx /\ Kept(m) \in 1..c.nb /\ Gone \in Nat
         /\ RingOrder = [i \in 1..c.nb |-> Place(c, i - 1)] /\ Len(RingOrder) = c.nb
         /\ LoadCount(m) = Kept(m)
         /\ m > 0 => MaxCount(m) = Kept(m)
         /\ LoadTail(Kept(m)) = KeptTotal(m) % NbBlkIdx
         /\ KeptTotal(m) \in 0..c.total /\ Gone + Kept(m) = KeptTotal(m)
<1>1. /\ NbBlkIdx \in Nat /\ NbBlkIdx >= 2 /\ c.nb \in 0..NbBlkIdx /\ c.total \in Nat
      /\ Gone \in Nat /\ c.head \in 0..(NbBlkIdx - 1) /\ c.tail \in 0..(NbBlkIdx - 1)
      /\ c.total <= MaxTotal /\ MaxTotal \in Nat /\ m \in Nat /\ c.head \in Slots
      /\ c.total = Gone + c.nb
  <2>1. c \in CacheType /\ Counted(c)
    BY DEF IndexInvOf
  <2>2. c.nb \in 0..NbBlkIdx /\ c.total \in Nat /\ Gone \in Nat
    BY <2>1, TailLemma DEF Gone
  <2>3. c.total <= MaxTotal
    BY <2>1 DEF Counted
  <2>4. c.total = Gone + c.nb
    BY <2>2 DEF Gone
  <2> QED BY <2>1, <2>2, <2>3, <2>4, Fields, RingLemma
<1>2. c.nb \in 1..NbBlkIdx /\ KeptTotal(m) \in 0..c.total /\ Kept(m) \in 1..c.nb
      /\ Gone + Kept(m) = KeptTotal(m) /\ (m > 0 => Kept(m) = m - Gone)
  <2>1. c.nb # 0 /\ (m > 0 => ~(m < Gone) /\ m # Gone)
    BY SoundKind
  <2>2. CASE m = 0
    BY <1>1, <2>1, <2>2 DEF Kept, KeptTotal
  <2>3. CASE m > 0
    BY <1>1, <2>1, <2>3 DEF Kept, KeptTotal
  <2> QED BY <1>1, <2>2, <2>3
<1>3. /\ c.tail = Place(c, c.nb)
      /\ \A i \in 0..NbBlkIdx : /\ Place(c, i) = (Gone + i) % NbBlkIdx
                                /\ Place(c, i) = (c.head + i) % NbBlkIdx
  BY <1>1, TailLemma, AgeLemma DEF IndexInvOf, Gone
<1> DEFINE h == c.head
           n == c.nb
           t == c.tail
<1>4. h \in 0..(NbBlkIdx - 1) /\ n \in 1..NbBlkIdx /\ t \in 0..(NbBlkIdx - 1)
      /\ t = IF h + n < NbBlkIdx THEN h + n ELSE h + n - NbBlkIdx
  BY <1>1, <1>2, <1>3 DEF Place
<1>5. (IF c.head < c.tail THEN c.tail - c.head ELSE NbBlkIdx - c.head + c.tail) = c.nb
  <2>1. (IF h < t THEN t - h ELSE NbBlkIdx - h + t) = n
    <3> HIDE DEF h, n, t
    <3> QED BY <1>1, <1>4
  <2> QED BY <2>1
<1>6. RingOrder = [i \in 1..c.nb |-> Place(c, i - 1)] /\ Len(RingOrder) = c.nb
  <2>1. RingOrder = [i \in 1..c.nb |-> (c.head + i - 1) % NbBlkIdx]
    BY <1>5 DEF RingOrder
  <2>2. ASSUME NEW i \in 1..c.nb PROVE (c.head + i - 1) % NbBlkIdx = Place(c, i - 1)
    <3>1. i - 1 \in 0..NbBlkIdx /\ c.head + (i - 1) = c.head + i - 1
      BY <1>1
    <3> QED BY <3>1, <1>3
  <2>3. RingOrder = [i \in 1..c.nb |-> Place(c, i - 1)]
    BY <2>1, <2>2
  <2>4. Len([i \in 1..c.nb |-> Place(c, i - 1)]) = c.nb
    BY <1>1
  <2> QED BY <2>3, <2>4
<1>7. m > 0 => MaxCount(m) = Kept(m)
  <2>1. SUFFICES ASSUME m > 0 PROVE MaxCount(m) = Kept(m)
    OBVIOUS
  <2>2. c.nb - (c.total - m) = Kept(m)
    BY <1>1, <1>2, <2>1
  <2>3. Kept(m) \in 0..(Wrap - 1)
    BY <1>1, <1>2, RingLemma
  <2> QED BY <2>2, <2>3, ModLemma DEF MaxCount
<1>8. LoadCount(m) = Kept(m)
  <2>1. CASE m = 0
    <3>1. Kept(m) = c.nb
      BY <1>1, <2>1 DEF Kept, KeptTotal
    <3>2. ~(m > 0)
      BY <2>1
    <3>3. LoadCount(m) = Len(RingOrder)
      BY <3>2 DEF LoadCount
    <3> QED BY <3>1, <3>3, <1>6
  <2>2. CASE m > 0
    <3>1. LoadCount(m) = IF Kept(m) < c.nb THEN Kept(m) ELSE c.nb
      BY <2>2, <1>6, <1>7 DEF LoadCount
    <3> QED BY <3>1, <1>1, <1>2
  <2> QED BY <1>1, <2>1, <2>2
<1>9. LoadTail(Kept(m)) = KeptTotal(m) % NbBlkIdx
  <2> DEFINE k == Kept(m)
  <2>1. k \in 1..n /\ k \in 0..NbBlkIdx
    BY <1>1, <1>2
  <2>2. Place(c, k) = KeptTotal(m) % NbBlkIdx
    BY <1>2, <1>3, <2>1
  <2>3. Place(c, k) = IF h + k < NbBlkIdx THEN h + k ELSE h + k - NbBlkIdx
    BY DEF Place
  <2>4. m > 0 => ~(h >= t /\ k < NbBlkIdx - h)
    BY <1>2, SoundKind
  <2>5. m = 0 => k = n
    BY <1>1 DEF Kept, KeptTotal
  <2>6. LoadTail(k) = IF h < t THEN h + k
                      ELSE IF k <= NbBlkIdx - h THEN 0 ELSE k - (NbBlkIdx - h)
    BY DEF LoadTail
  <2> HIDE DEF h, n, t, k
  <2>7. LoadTail(k) = Place(c, k)
    <3>1. h < t => h + k < NbBlkIdx
      BY <1>1, <1>4, <2>1
    <3>2. ~(h < t) => k >= NbBlkIdx - h
      BY <1>1, <1>4, <2>1, <2>4, <2>5
    <3> QED BY <1>1, <1>4, <2>1, <2>3, <2>6, <3>1, <3>2
  <2> QED BY <2>2, <2>7 DEF k
<1> QED BY <1>1, <1>2, <1>6, <1>7, <1>8, <1>9

(* The recursive function of Load.                                         *)
LEMMA LinkingDef ==
  ASSUME NEW q \in CacheType, NEW n \in Nat, NEW ring \in [1..n -> Slots]
  PROVE  /\ Linking(q, ring)[0] = q
         /\ \A i \in 0..n : i < n =>
              Linking(q, ring)[i + 1] = HInsertBloc(Linking(q, ring)[i], ring[i + 1])
<1> DEFINE S == CacheType
           step == [p \in Nat \X S |->
                      IF p[1] < n THEN HInsertBloc(p[2], ring[p[1] + 1]) ELSE p[2]]
           Body(g) == [i \in 0..n |-> IF i = 0 THEN q ELSE HInsertBloc(g[i-1], ring[i])]
<1>1. Len(ring) = n
  OBVIOUS
<1>2. step \in [Nat \X S -> S]
  <2>1. ASSUME NEW i \in Nat, NEW r \in S, i < n PROVE HInsertBloc(r, ring[i + 1]) \in S
    BY <2>1, HInsertFields
  <2> HIDE DEF S
  <2> QED BY <2>1
<1>3. PICK f : Obeys(f, S, q, step)
  <2> HIDE DEF step
  <2> QED BY <1>2, Recursion
<1> DEFINE g == [i \in 0..n |-> f[i]]
<1>4. g = Body(g)
  <2>1. f \in [Nat -> S] /\ f[0] = q
    BY <1>3 DEF Obeys
  <2>2. ASSUME NEW i \in 0..n, i # 0 PROVE f[i] = HInsertBloc(f[i-1], ring[i])
    <3>1. i - 1 \in Nat /\ (i - 1) + 1 = i /\ i - 1 < n
      BY <2>2
    <3>2. f[(i-1) + 1] = step[<<i - 1, f[i-1]>>]
      BY <3>1, <1>3 DEF Obeys
    <3>3. step[<<i - 1, f[i-1]>>] = HInsertBloc(f[i-1], ring[(i - 1) + 1])
      BY <3>1, <2>1
    <3> QED BY <3>1, <3>2, <3>3
  <2> HIDE DEF S, step
  <2>3. ASSUME NEW i \in 0..n PROVE g[i] = Body(g)[i]
    <3>1. i # 0 => i - 1 \in 0..n
      OBVIOUS
    <3> QED BY <3>1, <2>1, <2>2
  <2> QED BY <2>3
<1> HIDE DEF g
<1> DEFINE h == Linking(q, ring)
<1>5. h = Body(h)
  BY <1>1, <1>4 DEF Linking
<1> HIDE DEF h
<1>6. ASSUME NEW i \in 0..n, i < n PROVE h[i + 1] = HInsertBloc(h[i], ring[i + 1])
  <2>1. i + 1 \in 0..n /\ (i + 1) - 1 = i /\ i + 1 # 0
    BY <1>6
  <2> QED BY <2>1, <1>5
<1>7. h[0] = q
  BY <1>5
<1> QED BY <1>6, <1>7 DEF h

(* Slot after slot, the ring is linked.                                    *)
LEMMA LinkingLinks ==
  ASSUME NEW q \in CacheType, Linked(q, 0), NEW n \in 0..NbBlkIdx, NEW i \in 0..n,
         NEW ring, ring = [j \in 1..n |-> Place(q, j - 1)]
  PROVE  /\ Linking(q, ring)[i] \in CacheType /\ Linked(Linking(q, ring)[i], i)
         /\ SameButLinks(q, Linking(q, ring)[i])
<1> DEFINE L == Linking(q, ring)
           T == {j \in 0..n : L[j] \in CacheType /\ Linked(L[j], j) /\ SameButLinks(q, L[j])}
<1>1. n \in Nat /\ n <= NbBlkIdx /\ NbBlkIdx \in Nat /\ q.head \in Slots
  BY RingLemma, Fields
<1>2. ring \in [1..n -> Slots]
  <2>1. \A j \in 1..n : j - 1 \in 0..(NbBlkIdx - 1)
    BY <1>1
  <2> QED BY <2>1, <1>1, AgeLemma
<1>3. L[0] = q /\ \A j \in 0..n : j < n => L[j + 1] = HInsertBloc(L[j], ring[j + 1])
  BY <1>1, <1>2, LinkingDef
<1> HIDE DEF L
<1>4. 0 \in T
  BY <1>1, <1>3 DEF SameButLinks
<1>5. ASSUME NEW j \in T, j < n PROVE j + 1 \in T
  <2> DEFINE r == L[j]
  <2>1. r \in CacheType /\ Linked(r, j) /\ SameButLinks(q, r) /\ j \in 0..n
    OBVIOUS
  <2>2. j \in 0..(NbBlkIdx - 1) /\ j + 1 \in 0..n /\ j + 1 \in 1..n /\ (j + 1) - 1 = j
    BY <1>1, <1>5, <2>1
  <2>3. L[j + 1] = HInsertBloc(r, Place(q, j))
    BY <1>3, <1>5, <2>1, <2>2
  <2> HIDE DEF r
  <2>4. Place(q, j) = Place(r, j)
    BY <2>1 DEF SameButLinks, Place
  <2>5. /\ Linked(HInsertBloc(r, Place(r, j)), j + 1)
        /\ HInsertBloc(r, Place(r, j)) \in CacheType
        /\ SameButLinks(r, HInsertBloc(r, Place(r, j)))
    BY <2>1, <2>2, LinkStep
  <2> QED BY <2>1, <2>2, <2>3, <2>4, <2>5 DEF SameButLinks
<1>6. T \subseteq 0..n
  OBVIOUS
<1> HIDE DEF T
<1>7. T = 0..n
  BY <1>1, <1>4, <1>5, <1>6, UpTo
<1> QED BY <1>7 DEF T, L

LEMMA LoadLemma ==
  ASSUME IndexInvOf(c), NEW m \in 0..MaxTotal, Load(m), SoundLoads
  PROVE  /\ ~c.dead /\ m <= c.total /\ LoadKind(m) = "sound"
         /\ IndexInvOf(c') /\ c'.nb = Kept(m) /\ c'.total = KeptTotal(m)
         /\ c'.head = c.head /\ c'.slots = c.slots /\ ~c'.dead
         /\ c'.edge <=> c.total > c.nb
         /\ c'.pos = c.slots[Place(c, Kept(m) - 1)].off
                       + LenOf(c.slots[Place(c, Kept(m) - 1)].key)
<1> DEFINE count == LoadCount(m)
           q == [c EXCEPT !.edge = (c.total > c.nb)]
           opened == EmptyLists(q)
           loaded == Linking(opened, RingOrder)[count]
           last == c.slots[RingOrder[count]]
           pos == last.off + LenOf(last.key)
           nb == IF m = 0 THEN loaded.nb ELSE MaxCount(m)
           total == IF m = 0 THEN loaded.total ELSE m
           r == [loaded EXCEPT !.tail = LoadTail(count), !.nb = nb,
                               !.total = total, !.pos = pos]
<1>1. /\ ~c.dead /\ m <= c.total /\ LoadKind(m) = "sound"
      /\ count # 0 => c' = r
  BY DEF Load, SoundLoads
<1>2. /\ c.nb \in 1..NbBlkIdx /\ Kept(m) \in 1..c.nb /\ Gone \in Nat
      /\ RingOrder = [i \in 1..c.nb |-> Place(c, i - 1)] /\ Len(RingOrder) = c.nb
      /\ count = Kept(m)
      /\ m > 0 => MaxCount(m) = Kept(m)
      /\ LoadTail(Kept(m)) = KeptTotal(m) % NbBlkIdx
      /\ KeptTotal(m) \in 0..c.total /\ Gone + Kept(m) = KeptTotal(m)
  BY <1>1, LoadRing
<1>3. /\ c \in CacheType /\ Counted(c) /\ LiveKeys(c)
      /\ c.total \in Nat /\ c.head \in Slots /\ c.total <= MaxTotal /\ MaxTotal \in Nat
      /\ NbBlkIdx \in Nat /\ NbBlkIdx >= 2 /\ c.nb <= c.total
  <2>1. c \in CacheType /\ Counted(c) /\ LiveKeys(c)
    BY DEF IndexInvOf
  <2>2. c.total <= MaxTotal /\ c.nb <= c.total
    BY <2>1 DEF Counted
  <2> QED BY <2>1, <2>2, RingLemma, Fields
<1>4. /\ q \in CacheType /\ q.slots = c.slots /\ q.head = c.head /\ q.tail = c.tail
      /\ q.nb = c.nb /\ q.total = c.total /\ q.dead = c.dead
      /\ q.edge <=> c.total > c.nb
  <2>1. (c.total > c.nb) \in BOOLEAN
    OBVIOUS
  <2> DEFINE e == c.total > c.nb
  <2> HIDE DEF e
  <2>2. /\ [c EXCEPT !.edge = e] \in CacheType
        /\ [c EXCEPT !.edge = e].slots = c.slots /\ [c EXCEPT !.edge = e].head = c.head
        /\ [c EXCEPT !.edge = e].tail = c.tail /\ [c EXCEPT !.edge = e].nb = c.nb
        /\ [c EXCEPT !.edge = e].total = c.total /\ [c EXCEPT !.edge = e].dead = c.dead
        /\ [c EXCEPT !.edge = e].edge = e
    <3>1. e \in BOOLEAN
      BY DEF e
    <3> QED BY <1>3, <3>1 DEF CacheType
  <2> QED BY <2>2 DEF e
<1> HIDE DEF q
<1>5. /\ opened \in CacheType /\ SameButLinks(q, opened) /\ Linked(opened, 0)
  BY <1>4, EmptyListsFields
<1> HIDE DEF opened
<1>6. \A i : Place(opened, i) = Place(c, i)
  BY <1>4, <1>5 DEF SameButLinks, Place
<1>7. loaded \in CacheType /\ Linked(loaded, Kept(m)) /\ SameButLinks(opened, loaded)
  <2>1. c.nb \in 0..NbBlkIdx /\ Kept(m) \in 0..c.nb
    BY <1>2, <1>3
  <2>2. RingOrder = [j \in 1..c.nb |-> Place(opened, j - 1)]
    BY <1>2, <1>6
  <2> QED BY <2>1, <2>2, <1>2, <1>5, LinkingLinks
<1>8. /\ last = c.slots[Place(c, Kept(m) - 1)] /\ pos \in 0..(Wrap - 1)
  <2>1. RingOrder[count] = Place(c, Kept(m) - 1)
    BY <1>2
  <2>2. Place(c, Kept(m) - 1) \in Slots
    <3>1. Kept(m) - 1 \in 0..(NbBlkIdx - 1)
      BY <1>2, <1>3
    <3> QED BY <3>1, <1>3, AgeLemma
  <2>3. last \in [key : Keys \cup {NoKey}, off : 0..CacheSz]
    BY <2>1, <2>2, <1>3, Fields
  <2>4. LenOf(last.key) \in 0..MaxLen
    BY <2>3, IndexAssumption DEF LenOf
  <2>5. last.off \in 0..CacheSz
    BY <2>3
  <2> HIDE DEF last
  <2>6. pos \in 0..(Wrap - 1)
    BY <2>4, <2>5, IndexAssumption
  <2> QED BY <2>1, <2>6 DEF last
<1>9. nb = Kept(m) /\ total = KeptTotal(m) /\ LoadTail(count) = KeptTotal(m) % NbBlkIdx
  <2>1. CASE m = 0
    <3>1. loaded.nb = c.nb /\ loaded.total = c.total
      BY <1>4, <1>5, <1>7 DEF SameButLinks
    <3>2. KeptTotal(m) = c.total /\ Kept(m) = c.nb
      BY <2>1, <1>2, <1>3 DEF Kept, KeptTotal, Gone
    <3> QED BY <2>1, <3>1, <3>2, <1>2
  <2>2. CASE m # 0
    <3>1. m > 0
      BY <2>2, <1>3
    <3> QED BY <2>2, <3>1, <1>2 DEF KeptTotal
  <2> QED BY <2>1, <2>2
<1> DEFINE k == Kept(m)
           kt == KeptTotal(m)
<1>a. /\ loaded.slots = c.slots /\ loaded.head = c.head /\ loaded.dead = c.dead
      /\ loaded.edge <=> c.total > c.nb
  BY <1>4, <1>5, <1>7 DEF SameButLinks
<1> HIDE DEF loaded, last, pos, nb, total
<1>10. /\ r \in CacheType /\ r.tail = kt % NbBlkIdx /\ r.nb = k /\ r.total = kt /\ r.pos = pos
       /\ r.lhead = loaded.lhead /\ r.ltail = loaded.ltail /\ r.lnxt = loaded.lnxt
       /\ r.head = loaded.head /\ r.hhead = loaded.hhead /\ r.htail = loaded.htail
       /\ r.hnxt = loaded.hnxt /\ r.hprv = loaded.hprv
       /\ r.slots = loaded.slots /\ r.edge = loaded.edge /\ r.dead = loaded.dead
  <2>1. kt % NbBlkIdx \in Slots
    <3>1. kt \in Nat /\ 0 \in 0..NbBlkIdx
      BY <1>2, <1>3
    <3> QED BY <3>1, CountLemma
  <2>2. nb \in 0..(Wrap - 1) /\ total \in 0..(Wrap - 1)
    <3>1. /\ nb \in 1..c.nb /\ c.nb \in 1..NbBlkIdx /\ total \in 0..c.total
          /\ c.total \in Nat /\ c.total <= MaxTotal
      BY <1>2, <1>3, <1>9
    <3> QED BY <3>1, RingLemma
  <2>3. LoadTail(count) \in Slots
    BY <2>1, <1>9
  <2> QED BY <2>2, <2>3, <1>7, <1>8, <1>9 DEF CacheType
<1>11. c' = r
  BY <1>1, <1>2
<1> HIDE DEF r
<1>12. Linked(r, r.nb) /\ Among(r, k) = Among(loaded, k)
  <2>1. \A s \in Among(loaded, k) : r.slots[s].key = loaded.slots[s].key
    BY <1>10
  <2> HIDE DEF k
  <2> QED BY <2>1, <1>7, <1>10, LinkedAgree DEF k
<1>13. LiveKeys(r)
  <2>1. ASSUME NEW s \in Among(r, k) PROVE s \in Among(c, c.nb)
    <3>1. s \in Slots /\ Age(c, s) < k
      BY <1>10, <1>a DEF Among, Age
    <3>2. Age(c, s) \in Int
      BY <3>1, <1>3, AgeLemma
    <3>3. Age(c, s) < c.nb
      BY <3>1, <3>2, <1>2
    <3> QED BY <3>1, <3>3 DEF Among
  <2> QED BY <2>1, <1>3, <1>10, <1>a DEF LiveKeys
<1>14. Counted(r)
  <2>1. r.nb <= NbBlkIdx /\ r.nb <= r.total /\ r.total <= MaxTotal
    BY <1>2, <1>3, <1>10
  <2>2. r.head = (r.total - r.nb) % NbBlkIdx
    <3>1. r.total - r.nb = Gone /\ r.head = c.head
      BY <1>2, <1>3, <1>10, <1>a
    <3>2. c.head = Gone % NbBlkIdx
      BY <1>3 DEF Counted, Gone
    <3> QED BY <3>1, <3>2
  <2>3. ASSUME ~r.edge PROVE r.nb = r.total /\ r.total < NbBlkIdx
    <3>1. Gone = 0 /\ c.total = c.nb
      <4>1. ~(c.total > c.nb)
        BY <2>3, <1>10, <1>a
      <4>2. Gone \in Nat /\ Gone = c.total - c.nb /\ c.nb \in Int /\ c.total \in Int
        BY <1>2, <1>3, Fields DEF Gone
      <4> QED BY <4>1, <4>2
    <3>2. c.nb # NbBlkIdx
      BY <3>1, <1>1, SoundKind
    <3> QED BY <3>1, <3>2, <1>2, <1>3, <1>10
  <2>4. ~r.dead
    BY <1>1, <1>10, <1>a
  <2> QED BY <2>1, <2>2, <2>3, <2>4, <1>10 DEF Counted
<1> QED
  <2>1. IndexInvOf(r)
    BY <1>10, <1>12, <1>13, <1>14 DEF IndexInvOf
  <2>2. r.pos = c.slots[Place(c, k - 1)].off + LenOf(c.slots[Place(c, k - 1)].key)
    BY <1>8, <1>10 DEF pos
  <2> QED BY <1>1, <1>10, <1>11, <1>a, <2>1, <2>2

-----------------------------------------------------------------------------
(* The invariant of the index.                                             *)
LEMMA InitialIndex == Init => IndexInv
<1> SUFFICES ASSUME Init PROVE IndexInvOf(c)
  BY DEF IndexInv
<1>1. 0 \in Slots /\ 0 \in 0..(Wrap - 1) /\ 0 % NbBlkIdx = 0 /\ NULL \in Pointer
  BY RingLemma, ModLemma DEF Pointer
<1>2. [key |-> NoKey, off |-> 0] \in [key : Keys \cup {NoKey}, off : 0..CacheSz]
  BY IndexAssumption
<1>3. c \in CacheType
  BY <1>1, <1>2 DEF Init, CacheType
<1>4. /\ c.lhead = NULL /\ c.nb = 0 /\ c.total = 0 /\ c.head = 0 /\ c.tail = 0
      /\ ~c.dead /\ \A b \in Buckets : c.hhead[b] = NULL /\ c.htail[b] = NULL
  BY DEF Init, Buckets
<1>5. Linked(c, 0) /\ Among(c, 0) = {}
  BY <1>3, <1>4, EmptyLinked
<1>6. Counted(c)
  BY <1>1, <1>4, RingLemma DEF Counted
<1> QED BY <1>3, <1>4, <1>5, <1>6 DEF IndexInvOf, LiveKeys

LEMMA InsertInv ==
  ASSUME IndexInvOf(c), ~c.dead, NEW k \in Keys, Insert(k)
  PROVE  IndexInvOf(c')
<1> DEFINE e == EdgeCache(c, BlkLen[k])
           r == IF e.dead THEN e ELSE NewBloc([e EXCEPT !.pos = @ + BlkLen[k]], k, e.pos)
<1>1. c' = r /\ c.total < MaxTotal
  BY DEF Insert
<1>2. IndexInvOf(r)
  <2> HIDE DEF e
  <2> HIDE DEF r
  <2>1. e = EdgeCache(c, BlkLen[k])
    BY DEF e
  <2>2. r = IF e.dead THEN e ELSE NewBloc([e EXCEPT !.pos = @ + BlkLen[k]], k, e.pos)
    BY DEF r
  <2> QED BY <1>1, <2>1, <2>2, InsertLemma
<1> QED BY <1>1, <1>2

LEMMA IndexStep ==
  ASSUME SoundLoads, IndexInv, [Next]_vars
  PROVE  IndexInv'
<1> SUFFICES IndexInvOf(c')
  BY DEF IndexInv
<1>0. IndexInvOf(c)
  BY DEF IndexInv
<1>1. CASE UNCHANGED c
  BY <1>0, <1>1
<1>2. ASSUME NEW k \in Keys, CompressBlock(k) \/ Flush(k) PROVE IndexInvOf(c')
  <2>1. CASE Insert(k) /\ ~c.dead
    BY <1>0, <2>1, InsertInv
  <2>2. CASE UNCHANGED c
    BY <1>0, <2>2
  <2> QED BY <1>2, <2>1, <2>2 DEF CompressBlock, Flush, Hit
<1>3. CASE Reset
  <2>1. c \in CacheType
    BY <1>0 DEF IndexInvOf
  <2> QED BY <1>3, <2>1, ResetInv DEF Reset
<1>4. ASSUME NEW m \in 0..MaxTotal, Load(m) PROVE IndexInvOf(c')
  BY <1>0, <1>4, LoadLemma
<1> QED BY <1>1, <1>2, <1>3, <1>4 DEF Next, vars

(* The counters agree with the ring and the pointers link its live slots,  *)
(* in one list and bucket by bucket, after any sequence of insertions,     *)
(* evictions, resets and sound reloads.                                    *)
THEOREM IndexInvariance == SoundLoads => (Spec => []IndexInv)
<1> SUFFICES ASSUME SoundLoads PROVE Spec => []IndexInv
  OBVIOUS
<1>1. Init => IndexInv
  BY InitialIndex
<1>2. IndexInv /\ [Next]_vars => IndexInv'
  BY IndexStep
<1> QED BY <1>1, <1>2, PTL DEF Spec

(* Every pointer is null or a slot, every ring index is in the ring, every *)
(* counter in the range of uint64_t.                                       *)
THEOREM IndexTypeCorrect == SoundLoads => (Spec => []TypeOK)
<1> SUFFICES ASSUME SoundLoads PROVE Spec => []TypeOK
  OBVIOUS
<1>1. IndexInv => TypeOK
  BY DEF IndexInv, IndexInvOf, TypeOK
<1>2. Spec => []IndexInv
  BY IndexInvariance
<1> QED BY <1>1, <1>2, PTL

-----------------------------------------------------------------------------
(* The lists as the code follows them.                                     *)

(* The recursive function of Chain.                                        *)
LEMMA NodeDef ==
  ASSUME NEW nxt \in [Slots -> Pointer], NEW from \in Pointer
  PROVE  /\ Node(from, nxt) \in [Nat -> Pointer]
         /\ Node(from, nxt)[0] = from
         /\ \A n \in Nat : Node(from, nxt)[n+1] =
              IF Node(from, nxt)[n] = NULL THEN NULL ELSE nxt[Node(from, nxt)[n]]
<1> DEFINE S == Pointer
           step == [p \in Nat \X S |-> IF p[2] = NULL THEN NULL ELSE nxt[p[2]]]
           Body(g) == [n \in Nat |-> IF n = 0 THEN from
                                     ELSE IF g[n-1] = NULL THEN NULL ELSE nxt[g[n-1]]]
<1>1. step \in [Nat \X S -> S]
  BY DEF Pointer
<1>2. PICK f : Obeys(f, S, from, step)
  <2>1. from \in S
    OBVIOUS
  <2> HIDE DEF step, S
  <2> QED BY <1>1, <2>1, Recursion
<1>3. f = Body(f)
  <2>1. f \in [Nat -> S] /\ f[0] = from
    BY <1>2 DEF Obeys
  <2>2. ASSUME NEW n \in Nat \ {0}
        PROVE  f[n] = IF f[n-1] = NULL THEN NULL ELSE nxt[f[n-1]]
    <3>1. n - 1 \in Nat /\ (n - 1) + 1 = n
      OBVIOUS
    <3>2. f[(n-1) + 1] = step[<<n - 1, f[n-1]>>]
      BY <3>1, <1>2 DEF Obeys
    <3> QED BY <3>1, <3>2, <2>1
  <2> HIDE DEF S, step
  <2>3. \A n \in Nat : f[n] = Body(f)[n]
    BY <2>1, <2>2
  <2> QED BY <2>1, <2>3
<1> DEFINE h == Node(from, nxt)
<1>4. h = Body(h)
  BY <1>3 DEF Node
<1> HIDE DEF h
<1>5. h[0] = from /\ \A n \in Nat : h[n+1] = IF h[n] = NULL THEN NULL ELSE nxt[h[n]]
  <2>1. ASSUME NEW n \in Nat PROVE h[n+1] = IF h[n] = NULL THEN NULL ELSE nxt[h[n]]
    <3>1. n + 1 \in Nat /\ (n + 1) - 1 = n /\ n + 1 # 0
      OBVIOUS
    <3> QED BY <1>4, <3>1
  <2> QED BY <2>1, <1>4
<1>6. h \in [Nat -> Pointer]
  <2> DEFINE T == {n \in Nat : h[n] \in Pointer}
  <2>1. T \in SUBSET Nat /\ 0 \in T
    BY <1>5
  <2>2. ASSUME NEW n \in T PROVE n + 1 \in T
    BY <1>5 DEF Pointer
  <2> HIDE DEF T
  <2>3. T = Nat
    BY <2>1, <2>2, SetInduction
  <2> QED BY <2>3, <1>4 DEF T
<1> QED BY <1>5, <1>6 DEF h

(* A list ends at its first null pointer.                                  *)
LEMMA ChainIs ==
  ASSUME NEW nxt \in [Slots -> Pointer], NEW from \in Pointer, NEW m \in 0..NbBlkIdx,
         \A i \in 0..(m - 1) : Node(from, nxt)[i] # NULL,
         Node(from, nxt)[m] = NULL
  PROVE  Chain(from, nxt) = [i \in 1..m |-> Node(from, nxt)[i-1]]
<1> DEFINE node == Node(from, nxt)
           T == {j \in Nat : node[m + j] = NULL}
           nodes == {n \in 0..NbBlkIdx : node[n] # NULL}
<1>1. NbBlkIdx \in Nat /\ m \in Nat /\ m <= NbBlkIdx
  BY RingLemma
<1>2. \A n \in Nat : node[n + 1] = IF node[n] = NULL THEN NULL ELSE nxt[node[n]]
  BY NodeDef
<1> HIDE DEF node
<1>3. T = Nat
  <2>1. T \in SUBSET Nat /\ 0 \in T
    BY <1>1 DEF node
  <2>2. ASSUME NEW j \in T PROVE j + 1 \in T
    <3>1. m + j \in Nat /\ m + (j + 1) = (m + j) + 1
      BY <1>1
    <3> QED BY <3>1, <1>2
  <2> HIDE DEF T
  <2> QED BY <2>1, <2>2, SetInduction
<1>4. nodes = 0..(m - 1)
  <2>1. ASSUME NEW n \in 0..NbBlkIdx, n >= m PROVE node[n] = NULL
    <3>1. n - m \in Nat /\ m + (n - m) = n
      BY <1>1, <2>1
    <3> QED BY <3>1, <1>3
  <2>2. 0..(m - 1) \subseteq 0..NbBlkIdx
    BY <1>1
  <2>3. \A n \in 0..(m - 1) : node[n] # NULL
    BY DEF node
  <2>4. \A n \in 0..NbBlkIdx : n \in 0..(m - 1) <=> ~(n >= m)
    BY <1>1
  <2> QED BY <2>1, <2>2, <2>3, <2>4
<1>5. Cardinality(nodes) = m
  <2>1. Cardinality(0..(m - 1)) = IF 0 > m - 1 THEN 0 ELSE (m - 1) - 0 + 1
    <3>1. 0 \in Int /\ m - 1 \in Int
      BY <1>1
    <3> QED BY <3>1, FS_Interval
  <2>2. Cardinality(0..(m - 1)) = m
    BY <1>1, <2>1
  <2> HIDE DEF nodes
  <2> QED BY <1>4, <2>2
<1> HIDE DEF nodes
<1> QED BY <1>5 DEF Chain, node, nodes

(* The list, from the oldest block to the latest.                          *)
LEMMA ListIs ==
  ASSUME NEW q, IndexInvOf(q)
  PROVE  Chain(q.lhead, q.lnxt) = [i \in 1..q.nb |-> Place(q, i - 1)]
<1> DEFINE node == Node(q.lhead, q.lnxt)
           n == q.nb
           T == {i \in 0..n : node[i] = IF i = n THEN NULL ELSE Place(q, i)}
<1>1. /\ q \in CacheType /\ n \in 0..NbBlkIdx /\ NbBlkIdx \in Nat /\ q.head \in Slots
      /\ q.lhead \in Pointer /\ q.lnxt \in [Slots -> Pointer] /\ NULL \notin Slots
      /\ n \in Nat
  <2>1. q \in CacheType /\ Counted(q)
    BY DEF IndexInvOf
  <2>2. q.nb \in 0..NbBlkIdx
    BY <2>1, TailLemma
  <2> QED BY <2>1, <2>2, Fields, RingLemma
<1>2. ListLinked(q, n)
  BY DEF IndexInvOf, Linked
<1>3. /\ node[0] = q.lhead
      /\ \A i \in Nat : node[i + 1] = IF node[i] = NULL THEN NULL ELSE q.lnxt[node[i]]
  BY <1>1, NodeDef
<1>4. \A i \in 0..(n - 1) : Place(q, i) \in Slots
  <2>1. 0..(n - 1) \subseteq 0..(NbBlkIdx - 1)
    BY <1>1
  <2> QED BY <2>1, <1>1, AgeLemma
<1> HIDE DEF node, n
<1>5. 0 \in T
  BY <1>1, <1>2, <1>3 DEF ListLinked
<1>6. ASSUME NEW i \in T, i < n PROVE i + 1 \in T
  <2>1. i \in 0..(n - 1) /\ i + 1 \in 0..n /\ i \in Nat
    BY <1>1, <1>6
  <2>2. node[i] = Place(q, i) /\ node[i] # NULL
    BY <2>1, <1>1, <1>4, <1>6
  <2>3. q.lnxt[Place(q, i)] = IF i = n - 1 THEN NULL ELSE Place(q, i + 1)
    BY <2>1, <1>2 DEF ListLinked
  <2>4. i = n - 1 <=> i + 1 = n
    BY <2>1, <1>1
  <2> QED BY <2>1, <2>2, <2>3, <2>4, <1>3
<1>7. T \subseteq 0..n
  OBVIOUS
<1> HIDE DEF T
<1>8. T = 0..n
  BY <1>1, <1>5, <1>6, <1>7, UpTo
<1>9. node[n] = NULL /\ \A i \in 0..(n - 1) : node[i] = Place(q, i) /\ node[i] # NULL
  <2>1. ASSUME NEW i \in 0..(n - 1) PROVE node[i] = Place(q, i)
    <3>1. i \in T /\ i # n
      BY <1>1, <1>8
    <3> QED BY <3>1 DEF T
  <2>2. n \in T
    BY <1>1, <1>8
  <2> QED BY <2>1, <2>2, <1>1, <1>4 DEF T
<1>10. Chain(q.lhead, q.lnxt) = [i \in 1..n |-> node[i-1]]
  BY <1>1, <1>9, ChainIs DEF node
<1>11. \A i \in 1..n : node[i-1] = Place(q, i - 1)
  <2>1. \A i \in 1..n : i - 1 \in 0..(n - 1)
    BY <1>1
  <2> QED BY <2>1, <1>9
<1> QED BY <1>10, <1>11 DEF n

(* A hash chain, from the oldest of the live blocks of S to the latest.    *)
Visited(node, i) == {node[j] : j \in 0..(i - 1)}
Walk(q, S, node, i) ==
  /\ node[i] \in S \cup {NULL}
  /\ IF node[i] = NULL THEN S = Visited(node, i)
     ELSE Older(q, S, node[i]) = Visited(node, i) /\ i <= Age(q, node[i])

LEMMA WalkStep ==
  ASSUME NEW q, q.head \in Slots, NEW S \in SUBSET Slots, NEW node, NEW i \in Nat,
         Walk(q, S, node, i), node[i] # NULL,
         IsOldest(q, Newer(q, S, node[i]), node[i + 1])
  PROVE  Walk(q, S, node, i + 1)
<1> DEFINE p == node[i]
           r == node[i + 1]
<1>1. /\ p \in S /\ p \in Slots /\ NULL \notin Slots /\ NbBlkIdx \in Nat
      /\ Older(q, S, p) = Visited(node, i) /\ i <= Age(q, p)
  BY RingLemma DEF Walk
<1>2. /\ \A t \in S : Age(q, t) \in Int
      /\ \A t \in S : Age(q, t) = Age(q, p) => t = p
  <2>1. \A t \in Slots : Age(q, t) \in 0..(NbBlkIdx - 1)
    BY AgeLemma
  <2> QED BY <2>1, <1>1, AgeLemma
<1>3. Visited(node, i + 1) = Visited(node, i) \cup {p}
  <2>1. \A j : j \in 0..((i + 1) - 1) <=> j \in 0..(i - 1) \/ j = i
    OBVIOUS
  <2> QED BY <2>1 DEF Visited
<1>4. Visited(node, i + 1) = {t \in S : Age(q, t) <= Age(q, p)}
  BY <1>1, <1>2, <1>3 DEF Older
<1> HIDE DEF p, r
<1>5. CASE Newer(q, S, p) = {}
  <2>1. r = NULL
    BY <1>5 DEF IsOldest, p, r
  <2>2. S = Visited(node, i + 1)
    BY <1>1, <1>2, <1>4, <1>5 DEF Newer
  <2> QED BY <2>1, <2>2 DEF Walk, r
<1>6. CASE Newer(q, S, p) # {}
  <2>1. r \in Newer(q, S, p) /\ \A t \in Newer(q, S, p) : Age(q, r) <= Age(q, t)
    BY <1>6 DEF IsOldest, p, r
  <2>2. r \in S /\ Age(q, p) < Age(q, r) /\ r # NULL
    BY <2>1, <1>1 DEF Newer
  <2>3. ASSUME NEW t \in S PROVE Age(q, t) < Age(q, r) <=> Age(q, t) <= Age(q, p)
    <3>1. ~(Age(q, t) <= Age(q, p)) => t \in Newer(q, S, p)
      BY <1>1, <1>2 DEF Newer
    <3> QED BY <3>1, <2>1, <2>2, <1>1, <1>2
  <2>4. Older(q, S, r) = Visited(node, i + 1)
    BY <2>3, <1>4 DEF Older
  <2>5. i + 1 <= Age(q, r)
    BY <2>2, <1>1, <1>2
  <2> QED BY <2>2, <2>4, <2>5 DEF Walk, r
<1> QED BY <1>5, <1>6

LEMMA ChainLemma ==
  ASSUME NEW q, IndexInvOf(q), NEW b \in Buckets
  PROVE  LET chain == Chain(q.hhead[b], q.hnxt)
             S == Same(q, q.nb, b)
         IN \E m \in 0..NbBlkIdx :
              /\ chain \in [1..m -> S]
              /\ S = {chain[i] : i \in 1..m}
              /\ \A i \in 1..m : Older(q, S, chain[i]) = {chain[j] : j \in 1..(i - 1)}
<1> DEFINE node == Node(q.hhead[b], q.hnxt)
           S == Same(q, q.nb, b)
           NonNull(i) == \A j \in 0..(i - 1) : node[j] # NULL
           T == {i \in 0..NbBlkIdx : NonNull(i) => Walk(q, S, node, i)}
<1>1. /\ q \in CacheType /\ NbBlkIdx \in Nat /\ q.head \in Slots /\ NULL \notin Slots
      /\ q.hhead[b] \in Pointer /\ q.hnxt \in [Slots -> Pointer]
      /\ S \in SUBSET Slots
  <2>1. q \in CacheType /\ S \in SUBSET Slots
    BY DEF IndexInvOf, Same, Among
  <2> QED BY <2>1, Fields, RingLemma
<1>2. ChainLinked(q, S, b)
  BY DEF IndexInvOf, Linked
<1>3. /\ node[0] = q.hhead[b]
      /\ \A i \in Nat : node[i + 1] = IF node[i] = NULL THEN NULL ELSE q.hnxt[node[i]]
  BY <1>1, NodeDef
<1> HIDE DEF node, S
<1>4. \A s \in S : Age(q, s) \in 0..(NbBlkIdx - 1)
  BY <1>1, AgeLemma
<1>5. 0 \in T
  <2>1. IsOldest(q, S, node[0])
    BY <1>2, <1>3 DEF ChainLinked
  <2>2. Visited(node, 0) = {}
    BY DEF Visited
  <2>3. CASE S = {}
    BY <2>1, <2>2, <2>3, <1>1 DEF IsOldest, Walk
  <2>4. CASE S # {}
    <3>1. node[0] \in S /\ \A t \in S : Age(q, node[0]) <= Age(q, t)
      BY <2>1, <2>4 DEF IsOldest
    <3>2. \A t \in S : ~(Age(q, t) < Age(q, node[0])) /\ 0 <= Age(q, t)
      BY <3>1, <1>1, <1>4
    <3>3. Older(q, S, node[0]) = {}
      BY <3>2 DEF Older
    <3> QED BY <3>1, <3>2, <3>3, <2>2, <1>1 DEF Walk
  <2> QED BY <2>3, <2>4
<1>6. ASSUME NEW i \in T, i < NbBlkIdx PROVE i + 1 \in T
  <2>1. i \in Nat /\ i + 1 \in 0..NbBlkIdx
    BY <1>1, <1>6
  <2>2. SUFFICES ASSUME NonNull(i + 1) PROVE Walk(q, S, node, i + 1)
    BY <2>1
  <2>3. NonNull(i) /\ node[i] # NULL
    <3>1. i \in 0..((i + 1) - 1) /\ 0..(i - 1) \subseteq 0..((i + 1) - 1)
      BY <2>1
    <3> QED BY <3>1, <2>2
  <2>4. Walk(q, S, node, i)
    BY <2>3
  <2>5. node[i] \in S /\ node[i + 1] = q.hnxt[node[i]]
    BY <2>1, <2>3, <2>4, <1>3 DEF Walk
  <2>6. IsOldest(q, Newer(q, S, node[i]), node[i + 1])
    BY <2>5, <1>2 DEF ChainLinked
  <2> QED BY <2>1, <2>3, <2>4, <2>6, <1>1, WalkStep
<1>7. T = 0..NbBlkIdx
  <2>1. T \subseteq 0..NbBlkIdx
    OBVIOUS
  <2> HIDE DEF T
  <2> QED BY <1>1, <1>5, <1>6, <2>1, UpTo
<1> HIDE DEF NonNull
<1>8. PICK m \in 0..NbBlkIdx : node[m] = NULL /\ NonNull(m)
  <2> DEFINE Z == {i \in 0..NbBlkIdx : node[i] = NULL}
  <2>1. Z # {}
    <3>1. SUFFICES ASSUME Z = {} PROVE FALSE
      OBVIOUS
    <3>2. NonNull(NbBlkIdx) /\ NbBlkIdx \in 0..NbBlkIdx
      <4>1. \A j \in 0..(NbBlkIdx - 1) : j \in 0..NbBlkIdx
        BY <1>1
      <4> QED BY <4>1, <3>1, <1>1 DEF NonNull
    <3>3. Walk(q, S, node, NbBlkIdx) /\ node[NbBlkIdx] # NULL
      BY <3>1, <3>2, <1>7
    <3>4. node[NbBlkIdx] \in S /\ NbBlkIdx <= Age(q, node[NbBlkIdx])
      BY <3>3 DEF Walk
    <3> QED BY <3>4, <1>1, <1>4
  <2>2. Z \in SUBSET Nat
    OBVIOUS
  <2>3. PICK m \in Z : \A i \in Z : m <= i
    <3> HIDE DEF Z
    <3> QED BY <2>1, <2>2, LeastElement
  <2>4. NonNull(m)
    <3>1. ASSUME NEW j \in 0..(m - 1) PROVE node[j] # NULL
      <4>1. j \in 0..NbBlkIdx /\ ~(m <= j)
        BY <1>1
      <4> QED BY <4>1, <2>3
    <3> QED BY <3>1 DEF NonNull
  <2> QED BY <2>4
<1>9. ASSUME NEW i \in 0..m PROVE Walk(q, S, node, i)
  <2>1. i \in T /\ NonNull(i)
    <3>1. i \in 0..NbBlkIdx /\ 0..(i - 1) \subseteq 0..(m - 1)
      BY <1>1
    <3> QED BY <3>1, <1>7, <1>8 DEF NonNull
  <2> QED BY <2>1
<1> DEFINE chain == Chain(q.hhead[b], q.hnxt)
<1>10. chain = [i \in 1..m |-> node[i-1]]
  BY <1>1, <1>8, ChainIs DEF node, NonNull
<1> HIDE DEF chain
<1>11. ASSUME NEW i \in 0..m PROVE Visited(node, i) = {chain[j] : j \in 1..i}
  <2>1. \A j \in 0..(i - 1) : j + 1 \in 1..i /\ chain[j + 1] = node[j]
    <3>1. \A j \in 0..(i - 1) : j + 1 \in 1..i /\ j + 1 \in 1..m /\ (j + 1) - 1 = j
      OBVIOUS
    <3> QED BY <3>1, <1>10
  <2>2. \A j \in 1..i : j - 1 \in 0..(i - 1) /\ chain[j] = node[j-1]
    <3>1. \A j \in 1..i : j - 1 \in 0..(i - 1) /\ j \in 1..m
      OBVIOUS
    <3> QED BY <3>1, <1>10
  <2> QED BY <2>1, <2>2 DEF Visited
<1>12. ASSUME NEW i \in 1..m
       PROVE  chain[i] \in S /\ Older(q, S, chain[i]) = {chain[j] : j \in 1..(i - 1)}
  <2>1. i - 1 \in 0..m /\ i - 1 \in 0..(m - 1)
    OBVIOUS
  <2>2. chain[i] = node[i - 1] /\ node[i - 1] # NULL
    BY <2>1, <1>8, <1>10 DEF NonNull
  <2>3. node[i - 1] \in S /\ Older(q, S, node[i - 1]) = Visited(node, i - 1)
    BY <2>1, <2>2, <1>9 DEF Walk
  <2> QED BY <2>1, <2>2, <2>3, <1>11
<1>13. S = {chain[i] : i \in 1..m}
  <2>1. m \in 0..m
    OBVIOUS
  <2> QED BY <2>1, <1>8, <1>9, <1>11 DEF Walk
<1>14. chain \in [1..m -> S]
  BY <1>10, <1>12
<1> QED BY <1>12, <1>13, <1>14 DEF chain, S

-----------------------------------------------------------------------------
(* RingIsList, ChainsExact and what H_lookup finds.                        *)

(* The list in memory is what the ring of the index file describes: a      *)
(* reload would lose no block and revive none.                             *)
LEMMA RingIsListLemma == IndexInv => RingIsList
<1> SUFFICES ASSUME IndexInvOf(c) PROVE RingIsList
  BY DEF IndexInv
<1>1. List = [i \in 1..c.nb |-> Place(c, i - 1)]
  BY ListIs DEF List
<1>2. /\ c \in CacheType /\ c.nb \in 0..NbBlkIdx /\ c.head \in Slots /\ NbBlkIdx \in Nat
      /\ c.head \in 0..(NbBlkIdx - 1) /\ c.tail = Place(c, c.nb)
  <2>1. c \in CacheType /\ Counted(c)
    BY DEF IndexInvOf
  <2> QED BY <2>1, TailLemma, Fields, RingLemma
<1>3. Len(List) = c.nb /\ DOMAIN List = 1..c.nb
  <2>1. c.nb \in Nat
    BY <1>2
  <2> QED BY <2>1, <1>1
<1>4. ASSUME NEW i \in 1..c.nb PROVE List[i] = (c.head + i - 1) % NbBlkIdx
  <2>1. i - 1 \in 0..NbBlkIdx /\ c.head + (i - 1) = c.head + i - 1
    BY <1>2
  <2>2. Place(c, i - 1) = (c.head + (i - 1)) % NbBlkIdx
    BY <2>1, <1>2, AgeLemma
  <2> QED BY <2>1, <2>2, <1>1
<1>5. c.tail = (c.head + c.nb) % NbBlkIdx
  BY <1>2, AgeLemma
<1> QED BY <1>3, <1>4, <1>5 DEF RingIsList

(* The places of the list that hold a block of bucket b.                   *)
LEMMA InBucketIs ==
  ASSUME IndexInvOf(c), NEW b \in Buckets, NEW P,
         P = {m \in DOMAIN List : BucketOf(c.slots[List[m]].key) = b}
  PROVE  /\ \A s \in Same(c, c.nb, b) : Age(c, s) + 1 \in P /\ List[Age(c, s) + 1] = s
         /\ \A m \in P : List[m] \in Same(c, c.nb, b)
<1>1. List = [i \in 1..c.nb |-> Place(c, i - 1)]
  BY ListIs DEF List
<1>2. /\ c.nb \in 0..NbBlkIdx /\ c.head \in Slots /\ NbBlkIdx \in Nat /\ c.nb \in Nat
  <2>1. c \in CacheType /\ Counted(c)
    BY DEF IndexInvOf
  <2> QED BY <2>1, TailLemma, Fields, RingLemma
<1>3. DOMAIN List = 1..c.nb
  BY <1>1
<1>4. ASSUME NEW s \in Same(c, c.nb, b)
      PROVE  Age(c, s) + 1 \in P /\ List[Age(c, s) + 1] = s
  <2>1. s \in Slots /\ Age(c, s) < c.nb /\ SlotBucket(c, s) = b
    BY DEF Same, Among
  <2>2. Age(c, s) \in 0..(NbBlkIdx - 1) /\ Place(c, Age(c, s)) = s
    BY <2>1, <1>2, AgeLemma
  <2> DEFINE a == Age(c, s)
  <2>3. a + 1 \in 1..c.nb /\ (a + 1) - 1 = a
    BY <2>1, <2>2, <1>2
  <2> HIDE DEF a
  <2>4. List[a + 1] = Place(c, a)
    BY <2>3, <1>1
  <2> QED BY <2>1, <2>2, <2>3, <2>4, <1>3 DEF a, SlotBucket
<1>5. ASSUME NEW m \in P PROVE List[m] \in Same(c, c.nb, b)
  <2>1. m \in 1..c.nb /\ SlotBucket(c, List[m]) = b
    BY <1>3 DEF SlotBucket
  <2>2. m - 1 \in 0..(NbBlkIdx - 1) /\ m - 1 < c.nb
    BY <2>1, <1>2
  <2>3. List[m] = Place(c, m - 1)
    BY <2>1, <1>1
  <2>4. List[m] \in Slots /\ Age(c, List[m]) = m - 1
    BY <2>2, <2>3, <1>2, AgeLemma
  <2> QED BY <2>1, <2>2, <2>4 DEF Same, Among
<1> QED BY <1>4, <1>5

(* Each hash chain holds exactly the live blocks of its bucket, oldest     *)
(* first, doubly linked, with the right tail.                              *)
LEMMA ChainsExactLemma == IndexInv => ChainsExact
<1> SUFFICES ASSUME IndexInvOf(c), NEW b \in Buckets
             PROVE  LET chain == Chain(c.hhead[b], c.hnxt)
                        P == {m \in DOMAIN List : BucketOf(c.slots[List[m]].key) = b}
                    IN
                    /\ ToSet(chain) = {List[m] : m \in P}
                    /\ \A i, j \in DOMAIN chain :
                         i < j => \E m, n \in P :
                                    m < n /\ List[m] = chain[i] /\ List[n] = chain[j]
                    /\ \A i \in DOMAIN chain :
                         c.hprv[chain[i]] = IF i = 1 THEN NULL ELSE chain[i-1]
                    /\ c.htail[b] = IF chain = <<>> THEN NULL ELSE chain[Len(chain)]
  BY DEF IndexInv, ChainsExact, Buckets
<1> DEFINE chain == Chain(c.hhead[b], c.hnxt)
           S == Same(c, c.nb, b)
           P == {m \in DOMAIN List : BucketOf(c.slots[List[m]].key) = b}
<1>1. PICK z \in 0..NbBlkIdx :
        /\ chain \in [1..z -> S]
        /\ S = {chain[i] : i \in 1..z}
        /\ \A i \in 1..z : Older(c, S, chain[i]) = {chain[j] : j \in 1..(i - 1)}
  BY ChainLemma
<1>2. /\ \A s \in S : Age(c, s) + 1 \in P /\ List[Age(c, s) + 1] = s
      /\ \A m \in P : List[m] \in S
  <2> HIDE DEF P
  <2>1. P = {m \in DOMAIN List : BucketOf(c.slots[List[m]].key) = b}
    BY DEF P
  <2> QED BY <2>1, InBucketIs
<1>3. ChainLinked(c, S, b)
  BY DEF IndexInvOf, Linked
<1>4. /\ S \subseteq Slots /\ \A s \in S : Age(c, s) \in Int
      /\ \A s, t \in S : Age(c, s) = Age(c, t) => s = t
  <2>1. S \subseteq Slots
    BY DEF Same, Among
  <2>2. c.head \in Slots
    BY Fields DEF IndexInvOf
  <2> QED BY <2>1, <2>2, AgeLemma
<1>5. z \in Nat /\ NbBlkIdx \in Nat
  BY RingLemma
<1> HIDE DEF chain, S, P
<1>6. DOMAIN chain = 1..z /\ Len(chain) = z /\ (chain = <<>> <=> z = 0)
  BY <1>1, <1>5
<1>7. ToSet(chain) = S
  BY <1>1, <1>6 DEF ToSet
<1>8. ToSet(chain) = {List[m] : m \in P}
  BY <1>2, <1>7
<1>9. ASSUME NEW i \in 1..z, NEW j \in 1..z, i < j PROVE Age(c, chain[i]) < Age(c, chain[j])
  <2>1. i \in 1..(j - 1)
    BY <1>9
  <2>2. chain[i] \in Older(c, S, chain[j])
    BY <2>1, <1>1
  <2> QED BY <2>2 DEF Older
<1>10. ASSUME NEW i \in DOMAIN chain, NEW j \in DOMAIN chain, i < j
       PROVE  \E m, n \in P : m < n /\ List[m] = chain[i] /\ List[n] = chain[j]
  <2>1. i \in 1..z /\ j \in 1..z /\ chain[i] \in S /\ chain[j] \in S
    BY <1>1, <1>6
  <2>2. Age(c, chain[i]) + 1 < Age(c, chain[j]) + 1
    BY <2>1, <1>4, <1>9, <1>10
  <2> QED BY <2>1, <2>2, <1>2
<1>11. ASSUME NEW i \in 1..z
       PROVE  c.hprv[chain[i]] = IF i = 1 THEN NULL ELSE chain[i-1]
  <2> DEFINE O == Older(c, S, chain[i])
  <2>1. chain[i] \in S /\ O = {chain[j] : j \in 1..(i - 1)}
    BY <1>1
  <2>2. IsNewest(c, O, c.hprv[chain[i]])
    BY <2>1, <1>3 DEF ChainLinked
  <2> HIDE DEF O
  <2>3. CASE i = 1
    <3>1. O = {}
      BY <2>1, <2>3
    <3> QED BY <3>1, <2>2, <2>3 DEF IsNewest
  <2>4. CASE i # 1
    <3>1. i - 1 \in 1..(i - 1) /\ i - 1 \in 1..z
      BY <2>4, <1>5
    <3>2. chain[i-1] \in O
      BY <3>1, <2>1
    <3>3. c.hprv[chain[i]] \in O /\ Age(c, chain[i-1]) <= Age(c, c.hprv[chain[i]])
      BY <2>2, <3>2 DEF IsNewest
    <3>4. PICK j \in 1..(i - 1) : c.hprv[chain[i]] = chain[j]
      BY <3>3, <2>1
    <3>5. j \in 1..z /\ (j = i - 1 \/ j < i - 1) /\ chain[j] \in S /\ chain[i-1] \in S
      <4>1. j \in 1..z /\ (j = i - 1 \/ j < i - 1)
        BY <1>5
      <4> QED BY <4>1, <3>1, <1>1
    <3>6. j = i - 1
      BY <3>1, <3>3, <3>4, <3>5, <1>4, <1>9
    <3> QED BY <3>4, <3>6, <2>4
  <2> QED BY <2>3, <2>4
<1>12. c.htail[b] = IF chain = <<>> THEN NULL ELSE chain[Len(chain)]
  <2>1. IsNewest(c, S, c.htail[b])
    BY <1>3 DEF ChainLinked
  <2>2. CASE z = 0
    <3>1. S = {}
      BY <2>2, <1>1
    <3> QED BY <3>1, <2>1, <2>2, <1>6 DEF IsNewest
  <2>3. CASE z # 0
    <3>1. z \in 1..z
      BY <2>3, <1>5
    <3>2. chain[z] \in S
      BY <3>1, <1>1
    <3>3. c.htail[b] \in S /\ Age(c, chain[z]) <= Age(c, c.htail[b])
      BY <2>1, <3>2 DEF IsNewest
    <3>4. PICK j \in 1..z : c.htail[b] = chain[j]
      BY <3>3, <1>1
    <3>5. j = z
      BY <3>1, <3>2, <3>3, <3>4, <1>4, <1>5, <1>9
    <3> QED BY <3>4, <3>5, <2>3, <1>6
  <2> QED BY <2>2, <2>3
<1> QED BY <1>6, <1>8, <1>10, <1>11, <1>12 DEF chain, P

(* H_lookup finds the oldest live block of the key, if there is one, and   *)
(* returns.                                                                *)
Found(q, k) == {s \in Among(q, q.nb) : q.slots[s].key = k}

LEMMA LookupLemma ==
  ASSUME NEW q, IndexInvOf(q), NEW k \in Keys
  PROVE  IsOldest(q, Found(q, k), HLookup(q, k)) /\ ~HLookupHangs(q, k)
<1> DEFINE b == BucketOf(k)
           chain == Chain(q.hhead[b], q.hnxt)
           S == Same(q, q.nb, b)
           hits == {i \in DOMAIN chain : q.slots[chain[i]].key = k}
<1>1. b \in Buckets
  BY IndexAssumption DEF BucketOf, Buckets
<1>2. PICK z \in 0..NbBlkIdx :
        /\ chain \in [1..z -> S]
        /\ S = {chain[i] : i \in 1..z}
        /\ \A i \in 1..z : Older(q, S, chain[i]) = {chain[j] : j \in 1..(i - 1)}
  <2> HIDE DEF b
  <2> QED BY <1>1, ChainLemma
<1>3. Found(q, k) = {s \in S : q.slots[s].key = k}
  BY DEF Found, Same, SlotBucket
<1>4. z \in Nat /\ NbBlkIdx \in Nat /\ z <= NbBlkIdx /\ NULL \notin Slots
  BY RingLemma
<1>5. \A s \in S : s \in Slots /\ Age(q, s) \in Int
  <2>1. q.head \in Slots
    BY Fields DEF IndexInvOf
  <2> QED BY <2>1, AgeLemma DEF Same, Among
<1>6. HLookup(q, k) = IF hits = {} THEN NULL ELSE chain[Min(hits)]
  BY DEF HLookup
<1> HIDE DEF chain, b, S
<1>7. DOMAIN chain = 1..z /\ Len(chain) = z
  BY <1>2, <1>4
<1>8. ~HLookupHangs(q, k)
  BY <1>4, <1>7 DEF HLookupHangs, IsCycle, chain, b
<1>9. CASE hits = {}
  <2>1. Found(q, k) = {}
    BY <1>2, <1>3, <1>7, <1>9
  <2> QED BY <2>1, <1>6, <1>8, <1>9 DEF IsOldest
<1>10. CASE hits # {}
  <2>1. hits \in SUBSET Nat
    BY <1>4, <1>7
  <2>2. \E m \in hits : \A i \in hits : m <= i
    <3> HIDE DEF hits
    <3> QED BY <2>1, <1>10, LeastElement
  <2> DEFINE m == Min(hits)
  <2>3. m \in hits /\ \A i \in hits : m <= i
    <3> HIDE DEF hits
    <3> QED BY <2>2 DEF Min
  <2> HIDE DEF m
  <2>4. m \in 1..z /\ chain[m] \in S /\ chain[m] \in Found(q, k)
    BY <2>3, <1>2, <1>3, <1>7
  <2>5. ASSUME NEW t \in Found(q, k) PROVE Age(q, chain[m]) <= Age(q, t)
    <3>1. t \in S /\ q.slots[t].key = k
      BY <1>3
    <3>2. PICK i \in 1..z : chain[i] = t
      BY <3>1, <1>2
    <3>3. m <= i
      BY <3>1, <3>2, <2>3, <1>7
    <3>4. CASE m = i
      BY <3>2, <3>4, <2>4, <1>5
    <3>5. CASE m # i
      <4>1. m \in 1..(i - 1)
        BY <3>3, <3>5, <2>4
      <4>2. chain[m] \in Older(q, S, chain[i])
        BY <4>1, <1>2
      <4> QED BY <4>2, <3>1, <3>2, <2>4, <1>5 DEF Older
    <3> QED BY <3>4, <3>5
  <2>6. HLookup(q, k) = chain[m]
    BY <1>6, <1>10 DEF m
  <2> QED BY <2>4, <2>5, <2>6, <1>8 DEF IsOldest
<1> QED BY <1>9, <1>10

(* The list that the pointers form is the stretch of the ring that the     *)
(* index file describes: a slot is neither lost from it nor listed twice.  *)
THEOREM AlwaysRingIsList == SoundLoads => (Spec => []RingIsList)
<1> SUFFICES ASSUME SoundLoads PROVE Spec => []RingIsList
  OBVIOUS
<1> QED BY RingIsListLemma, IndexInvariance, PTL

(* Every chain of the hash table holds the live blocks of its bucket, in   *)
(* the order of the list, forwards and backwards, and it ends.             *)
THEOREM AlwaysChainsExact == SoundLoads => (Spec => []ChainsExact)
<1> SUFFICES ASSUME SoundLoads PROVE Spec => []ChainsExact
  OBVIOUS
<1> QED BY ChainsExactLemma, IndexInvariance, PTL

-----------------------------------------------------------------------------
(* BlockIndex implements DreCache.                                         *)

(* The live blocks of a cache, by their numbers.                           *)
GoneOf(q) == q.total - q.nb
ListedOf(q) ==
  [s \in GoneOf(q)..(q.total - 1) |->
     LET i == s - GoneOf(q) + 1
         list == Chain(q.lhead, q.lnxt)
     IN IF i \in DOMAIN list THEN q.slots[list[i]] ELSE [key |-> NoKey, off |-> 0]]
Blocks(q) == [s \in GoneOf(q)..(q.total - 1) |-> q.slots[Place(q, s - GoneOf(q))]]

LEMMA ListedLemma ==
  ASSUME NEW q, IndexInvOf(q)
  PROVE  /\ ListedOf(q) = Blocks(q)
         /\ q \in CacheType /\ Counted(q) /\ GoneOf(q) \in Nat /\ q.nb \in 0..NbBlkIdx
         /\ q.total \in Nat /\ q.total = GoneOf(q) + q.nb /\ q.head \in Slots
<1>1. /\ q \in CacheType /\ Counted(q) /\ q.nb \in 0..NbBlkIdx /\ NbBlkIdx \in Nat
      /\ q.head \in Slots /\ q.total \in Nat /\ GoneOf(q) \in Nat
  <2>1. q \in CacheType /\ Counted(q)
    BY DEF IndexInvOf
  <2> QED BY <2>1, TailLemma, Fields, RingLemma DEF GoneOf
<1> DEFINE g == GoneOf(q)
           list == Chain(q.lhead, q.lnxt)
<1>2. q.total = g + q.nb
  BY <1>1 DEF GoneOf
<1>3. list = [i \in 1..q.nb |-> Place(q, i - 1)]
  BY ListIs
<1> HIDE DEF g, list
<1>4. ASSUME NEW s \in g..(q.total - 1)
      PROVE  s - g + 1 \in DOMAIN list /\ list[s - g + 1] = Place(q, s - g)
  <2>1. s - g + 1 \in 1..q.nb /\ (s - g + 1) - 1 = s - g
    BY <1>1, <1>2 DEF g
  <2> QED BY <2>1, <1>3
<1>5. ListedOf(q) = Blocks(q)
  BY <1>4 DEF ListedOf, Blocks, g, list
<1> QED BY <1>1, <1>2, <1>5 DEF g

(* The operators of DreCache, seen through the list.                       *)
LEMMA CacheLemma ==
  ASSUME IndexInvOf(c)
  PROVE  /\ Cache!First = Gone /\ Cache!Live = Gone..(c.total - 1)
         /\ ListedBlocks = Blocks(c)
         /\ \A s \in Cache!Live : s - Gone \in 0..(c.nb - 1)
         /\ \A i \in 0..(c.nb - 1) : Gone + i \in Cache!Live /\ (Gone + i) - Gone = i
         /\ \A s \in Cache!Live : ListedBlocks[s] = c.slots[Place(c, s - Gone)]
         /\ \A len : /\ Cache!Rotates(len) <=> Turns(c, len)
                     /\ Cache!Edging(len) <=> Edges(c, len)
                     /\ Cache!WritePos(len) = WriteAt(c, len)
<1>1. ListedBlocks = ListedOf(c) /\ GoneOf(c) = Gone
  BY DEF ListedBlocks, ListedOf, List, GoneOf, Gone
<1>2. /\ ListedBlocks = Blocks(c) /\ Gone \in Nat /\ c.nb \in 0..NbBlkIdx
      /\ c.total \in Nat /\ c.total = Gone + c.nb
  BY <1>1, ListedLemma
<1>3. Cache!First = Gone /\ Cache!Live = Gone..(c.total - 1)
  BY DEF Cache!First, Cache!Live, Gone
<1>4. \A s \in Cache!Live : s - Gone \in 0..(c.nb - 1)
  BY <1>2, <1>3
<1>5. \A i \in 0..(c.nb - 1) : Gone + i \in Cache!Live /\ (Gone + i) - Gone = i
  BY <1>2, <1>3
<1>6. \A s \in Cache!Live : ListedBlocks[s] = c.slots[Place(c, s - Gone)]
  BY <1>1, <1>2, <1>3 DEF Blocks
<1>7. \A len : /\ Cache!Rotates(len) <=> Turns(c, len)
               /\ Cache!Edging(len) <=> Edges(c, len)
               /\ Cache!WritePos(len) = WriteAt(c, len)
  BY DEF Cache!Rotates, Cache!Edging, Cache!WritePos, Turns, Edges, WriteAt
<1> QED BY <1>2, <1>3, <1>4, <1>5, <1>6, <1>7

LEMMA MatchLemma ==
  ASSUME IndexInvOf(c), NEW k
  PROVE  /\ \A s \in Cache!Matches(k) : Place(c, s - Gone) \in Found(c, k)
         /\ \A s \in Cache!Matches(k) : Age(c, Place(c, s - Gone)) = s - Gone
         /\ \A t \in Found(c, k) : Gone + Age(c, t) \in Cache!Matches(k)
         /\ \A t \in Found(c, k) : Place(c, Age(c, t)) = t /\ Age(c, t) \in 0..(c.nb - 1)
<1>1. /\ c.nb \in 0..NbBlkIdx /\ NbBlkIdx \in Nat /\ c.head \in Slots /\ Gone \in Nat
  BY ListedLemma, RingLemma DEF Gone, GoneOf
<1>2. ASSUME NEW s \in Cache!Matches(k)
      PROVE  Place(c, s - Gone) \in Found(c, k) /\ Age(c, Place(c, s - Gone)) = s - Gone
  <2>1. s \in Cache!Live /\ ListedBlocks[s].key = k
    BY DEF Cache!Matches
  <2> DEFINE i == s - Gone
  <2>2. i \in 0..(c.nb - 1) /\ c.slots[Place(c, i)].key = k
    BY <2>1, CacheLemma
  <2> HIDE DEF i
  <2>3. i \in 0..(NbBlkIdx - 1) /\ i < c.nb
    BY <2>2, <1>1
  <2>4. Place(c, i) \in Slots /\ Age(c, Place(c, i)) = i
    BY <2>3, <1>1, AgeLemma
  <2> QED BY <2>2, <2>3, <2>4 DEF Found, Among, i
<1>3. ASSUME NEW t \in Found(c, k)
      PROVE  /\ Gone + Age(c, t) \in Cache!Matches(k)
             /\ Place(c, Age(c, t)) = t /\ Age(c, t) \in 0..(c.nb - 1)
  <2> DEFINE a == Age(c, t)
  <2>1. t \in Slots /\ a < c.nb /\ c.slots[t].key = k
    BY DEF Found, Among
  <2>2. a \in 0..(NbBlkIdx - 1) /\ Place(c, a) = t
    BY <2>1, <1>1, AgeLemma
  <2> HIDE DEF a
  <2>3. a \in 0..(c.nb - 1)
    BY <2>1, <2>2, <1>1
  <2>4. Gone + a \in Cache!Live /\ ListedBlocks[Gone + a].key = k
    BY <2>1, <2>2, <2>3, CacheLemma
  <2> QED BY <2>2, <2>3, <2>4 DEF Cache!Matches, a
<1> QED BY <1>2, <1>3

LEMMA HitMap ==
  ASSUME IndexInvOf(c), NEW k \in Keys, Hit(k)
  PROVE  Cache!Hit(k)
<1> DEFINE p == HLookup(c, k)
           s == Gone + Age(c, p)
<1>1. /\ p # NULL /\ c' = c
      /\ out' = [compressed |-> TRUE, dict_offset |-> c.slots[p].off, key |-> k]
  BY DEF Hit
<1>2. p \in Found(c, k) /\ \A t \in Found(c, k) : Age(c, p) <= Age(c, t)
  BY <1>1, LookupLemma DEF IsOldest
<1> HIDE DEF p
<1>3. s \in Cache!Matches(k) /\ Place(c, Age(c, p)) = p /\ Age(c, p) \in 0..(c.nb - 1)
  BY <1>2, MatchLemma
<1>4. Gone \in Nat /\ c.nb \in Nat /\ c.total \in Nat
  BY ListedLemma DEF Gone, GoneOf
<1>5. ASSUME NEW t \in Cache!Matches(k) PROVE s <= t
  <2>1. t \in Cache!Live
    BY DEF Cache!Matches
  <2>2. t \in Gone..(c.total - 1)
    BY <2>1, CacheLemma
  <2>3. Age(c, p) <= t - Gone
    BY <1>2, MatchLemma
  <2> DEFINE a == Age(c, p)
  <2>4. a \in 0..(c.nb - 1) /\ a <= t - Gone
    BY <2>3, <1>3
  <2> HIDE DEF a
  <2>5. Gone + a <= t
    BY <2>2, <2>4, <1>4
  <2> QED BY <2>5 DEF a
<1>6. ListedBlocks[s].off = c.slots[p].off
  BY <1>3, CacheLemma
<1>7. ListedBlocks' = ListedBlocks
  BY <1>1 DEF ListedBlocks, List
<1> HIDE DEF s
<1> QED BY <1>1, <1>3, <1>5, <1>6, <1>7 DEF Cache!Hit

(* The loops of edge_cache are those of DreCache.                          *)
LEMMA EdgeMap ==
  ASSUME IndexInvOf(c), NEW len, NEW e, NEW m1 \in 0..c.nb, NEW m \in m1..c.nb,
         Edged(c, len, e, m1, m)
  PROVE  /\ Cache!EdgeCache(len, Gone + m) /\ Gone + m \in Cache!First..c.total
         /\ Gone + m = c.total <=> m = c.nb
         /\ Turns(c, len) => (Cache!Removes(Cache!First, c.total, Cache!PreviousLap) <=> m1 = c.nb)
<1>1. /\ c.nb \in Nat /\ Gone \in Nat /\ c.total = Gone + c.nb /\ c.total \in Nat
      /\ c.nb \in 0..NbBlkIdx /\ NbBlkIdx \in Nat /\ c.head \in Slots
  BY ListedLemma, RingLemma DEF Gone, GoneOf
<1>2. /\ Cache!First = Gone /\ Cache!Live = Gone..(c.total - 1)
      /\ \A s \in Cache!Live : ListedBlocks[s] = c.slots[Place(c, s - Gone)]
      /\ Cache!Rotates(len) <=> Turns(c, len)
      /\ Cache!Edging(len) <=> Edges(c, len)
      /\ Cache!WritePos(len) = WriteAt(c, len)
  BY CacheLemma
<1>3. ASSUME NEW i \in 0..(c.nb - 1)
      PROVE  /\ Gone + i \in Cache!Live /\ Place(c, i) \in Slots
             /\ ListedBlocks[Gone + i] = c.slots[Place(c, i)]
  <2>1. i \in 0..(NbBlkIdx - 1) /\ (Gone + i) - Gone = i
    BY <1>1
  <2>2. Gone + i \in Cache!Live
    BY CacheLemma
  <2> QED BY <2>1, <2>2, <1>1, <1>2, AgeLemma
<1>4. ASSUME NEW i \in 0..(c.nb - 1)
      PROVE  /\ Gone + i \in Cache!PreviousLap <=> Place(c, i) \in LapBefore(c)
             /\ Gone + i \in Cache!InTheWay(Cache!WritePos(len), len)
                  <=> Place(c, i) \in Ahead(c, len)
  <2>1. Gone + i \in Cache!PreviousLap <=> Place(c, i) \in LapBefore(c)
    BY <1>3 DEF Cache!PreviousLap, LapBefore
  <2>2. Gone + i \in Cache!InTheWay(Cache!WritePos(len), len) <=> Place(c, i) \in Ahead(c, len)
    BY <1>2, <1>3 DEF Cache!InTheWay, Cache!Minus, Ahead
  <2> QED BY <2>1, <2>2
<1>5. /\ c.total \notin Cache!PreviousLap
      /\ c.total \notin Cache!InTheWay(Cache!WritePos(len), len)
  <2>1. c.total \notin Cache!Live
    BY <1>1, <1>2
  <2> QED BY <2>1 DEF Cache!PreviousLap, Cache!InTheWay
<1> DEFINE f1 == Gone + m1
           f == Gone + m
           W == Cache!InTheWay(Cache!WritePos(len), len)
<1>6. m1 \in Nat /\ m \in Nat /\ m1 <= m /\ m <= c.nb
  BY <1>1
<1>7. f1 \in Gone..c.total /\ f \in Gone..c.total /\ f1 <= f /\ Gone <= f1
      /\ (f = c.total <=> m = c.nb) /\ (f1 = c.total <=> m1 = c.nb)
  BY <1>1, <1>6
<1>8. ASSUME Turns(c, len) PROVE Cache!Removes(Gone, f1, Cache!PreviousLap)
  <2>1. ASSUME NEW s \in Gone..(f1 - 1) PROVE s \in Cache!PreviousLap
    <3>1. s - Gone \in 0..(m1 - 1) /\ s - Gone \in 0..(c.nb - 1) /\ Gone + (s - Gone) = s
      BY <1>1, <1>6
    <3>2. Place(c, s - Gone) \in LapBefore(c)
      BY <3>1, <1>8 DEF Edged
    <3>3. Gone + (s - Gone) \in Cache!PreviousLap
      BY <3>1, <3>2, <1>4
    <3> QED BY <3>1, <3>3
  <2>2. f1 \notin Cache!PreviousLap
    <3>1. CASE m1 = c.nb
      BY <3>1, <1>5, <1>7
    <3>2. CASE m1 # c.nb
      <4>1. m1 \in 0..(c.nb - 1) /\ m1 < c.nb
        BY <3>2, <1>1, <1>6
      <4>2. Place(c, m1) \notin LapBefore(c)
        BY <4>1, <1>8 DEF Edged
      <4> QED BY <4>1, <4>2, <1>4
    <3> QED BY <3>1, <3>2
  <2> QED BY <2>1, <2>2, <1>7 DEF Cache!Removes
<1>9. ASSUME Edges(c, len) PROVE Cache!Removes(f1, f, W)
  <2>1. ASSUME NEW s \in f1..(f - 1) PROVE s \in W
    <3>1. s - Gone \in m1..(m - 1) /\ s - Gone \in 0..(c.nb - 1) /\ Gone + (s - Gone) = s
      BY <1>1, <1>6
    <3>2. Place(c, s - Gone) \in Ahead(c, len)
      BY <3>1, <1>9 DEF Edged
    <3>3. Gone + (s - Gone) \in W
      BY <3>1, <3>2, <1>4
    <3> QED BY <3>1, <3>3
  <2>2. f \notin W
    <3>1. CASE m = c.nb
      BY <3>1, <1>5, <1>7
    <3>2. CASE m # c.nb
      <4>1. m \in 0..(c.nb - 1) /\ m < c.nb
        BY <3>2, <1>1, <1>6
      <4>2. Place(c, m) \notin Ahead(c, len)
        BY <4>1, <1>9 DEF Edged
      <4> QED BY <4>1, <4>2, <1>4
    <3> QED BY <3>1, <3>2
  <2> HIDE DEF f1, f, W
  <2> QED BY <2>1, <2>2, <1>7 DEF Cache!Removes
<1>10. Turns(c, len) => (Cache!Removes(Gone, c.total, Cache!PreviousLap) <=> m1 = c.nb)
  <2>1. SUFFICES ASSUME Turns(c, len), m1 # c.nb,
                        Cache!Removes(Gone, c.total, Cache!PreviousLap)
                 PROVE  FALSE
    BY <1>7, <1>8
  <2>2. m1 \in 0..(c.nb - 1) /\ m1 < c.nb /\ f1 \in Gone..(c.total - 1)
    BY <2>1, <1>1, <1>6
  <2>3. Place(c, m1) \notin LapBefore(c) /\ f1 \in Cache!PreviousLap
    BY <2>1, <2>2 DEF Edged, Cache!Removes
  <2> QED BY <2>2, <2>3, <1>4
<1>11. (~Turns(c, len) => f1 = Gone) /\ (~Edges(c, len) => f = f1)
  <2>1. (~Turns(c, len) => m1 = 0) /\ (~Edges(c, len) => m = m1)
    BY DEF Edged
  <2> QED BY <2>1, <1>1
<1> HIDE DEF f1, f, W
<1>12. Cache!EdgeCache(len, f)
  <2>1. f1 \in Cache!First..c.total
    BY <1>2, <1>7
  <2>2. IF Cache!Rotates(len) THEN Cache!Removes(Cache!First, f1, Cache!PreviousLap)
        ELSE f1 = Cache!First
    BY <1>2, <1>8, <1>11
  <2>3. IF Cache!Edging(len) THEN Cache!Removes(f1, f, W) ELSE f = f1
    BY <1>2, <1>9, <1>11
  <2> QED BY <2>1, <2>2, <2>3 DEF Cache!EdgeCache, W
<1> QED BY <1>2, <1>7, <1>10, <1>12 DEF f

LEMMA NoMatch ==
  ASSUME IndexInvOf(c), NEW k \in Keys, HLookup(c, k) = NULL
  PROVE  Cache!Matches(k) = {}
<1>1. NULL \notin Found(c, k)
  BY RingLemma DEF Found, Among
<1>2. Found(c, k) = {}
  BY <1>1, LookupLemma DEF IsOldest
<1> QED BY <1>2, MatchLemma

LEMMA InsertMap ==
  ASSUME IndexInvOf(c), ~c.dead, NEW k \in Keys, Insert(k)
  PROVE  Cache!Insert(k) \/ Cache!InsertFaults(k)
<1> DEFINE len == BlkLen[k]
           e == EdgeCache(c, BlkLen[k])
           r == IF e.dead THEN e ELSE NewBloc([e EXCEPT !.pos = @ + BlkLen[k]], k, e.pos)
<1>1. /\ c' = r /\ c.total < MaxTotal /\ Cache!Matches(k) = {}
      /\ e.dead => UNCHANGED out
      /\ ~e.dead => out' = [compressed |-> FALSE, dict_offset |-> e.pos, key |-> k]
  BY NoMatch DEF Insert
<1>2. /\ IndexInvOf(r) /\ e.dead = r.dead
      /\ \E m1 \in 0..c.nb : \E m \in m1..c.nb : Edged(c, len, e, m1, m)
      /\ ~e.dead =>
           /\ e.pos = WriteAt(c, len)
           /\ e.edge <=> Edges(c, len)
           /\ r.nb = e.nb - Evicts(e) + 1
           /\ r.total = c.total + 1
           /\ r.head = Place(e, Evicts(e))
           /\ r.pos = e.pos + len
           /\ r.edge <=> e.edge \/ (c.total + 1) % NbBlkIdx = 0
           /\ r.slots = [c.slots EXCEPT ![c.tail] = [key |-> k, off |-> e.pos]]
           /\ e.nb - Evicts(e) \in 0..(NbBlkIdx - 1)
  <2> HIDE DEF e, r
  <2>1. e = EdgeCache(c, BlkLen[k])
    BY DEF e
  <2>2. r = IF e.dead THEN e ELSE NewBloc([e EXCEPT !.pos = @ + BlkLen[k]], k, e.pos)
    BY DEF r
  <2> QED BY <1>1, <2>1, <2>2, InsertLemma
<1> HIDE DEF e
<1>3. e.dead => r = e
  OBVIOUS
<1> HIDE DEF r, len
<1>4. PICK m1 \in 0..c.nb : \E m \in m1..c.nb : Edged(c, len, e, m1, m)
  BY <1>2
<1>5. PICK m \in m1..c.nb : Edged(c, len, e, m1, m)
  BY <1>4
<1>6. /\ c.nb \in Nat /\ Gone \in Nat /\ c.total = Gone + c.nb /\ c.total \in Nat
      /\ c.nb \in 0..NbBlkIdx /\ NbBlkIdx \in Nat /\ c.head \in Slots /\ c \in CacheType
      /\ Counted(c)
  BY ListedLemma, RingLemma DEF Gone, GoneOf
<1>7. /\ Cache!First = Gone /\ Cache!Live = Gone..(c.total - 1)
      /\ \A s \in Cache!Live : ListedBlocks[s] = c.slots[Place(c, s - Gone)]
      /\ Cache!Rotates(len) <=> Turns(c, len)
      /\ Cache!Edging(len) <=> Edges(c, len)
      /\ Cache!WritePos(len) = WriteAt(c, len)
  BY CacheLemma
<1>8. /\ Cache!EdgeCache(len, Gone + m) /\ Gone + m \in Cache!First..c.total
      /\ Gone + m = c.total <=> m = c.nb
      /\ Turns(c, len) => (Cache!Removes(Cache!First, c.total, Cache!PreviousLap) <=> m1 = c.nb)
  BY <1>5, EdgeMap
<1>9. e.dead <=> Edges(c, len) /\ m = c.nb
  BY <1>5 DEF Edged
<1>10. /\ ListedBlocks' = Blocks(c') /\ c'.dead \in BOOLEAN /\ c'.edge \in BOOLEAN
       /\ c.dead \in BOOLEAN /\ c.edge \in BOOLEAN /\ c' = r /\ c'.head \in Slots
       /\ c' \in CacheType /\ Counted(c')
  <2>1. ListedBlocks' = ListedOf(c')
    BY DEF ListedBlocks, ListedOf, List, GoneOf
  <2>2. /\ IndexInvOf(c') /\ ListedOf(c') = Blocks(c') /\ c' \in CacheType /\ Counted(c')
        /\ c'.head \in Slots
    BY <1>1, <1>2, ListedLemma
  <2> QED BY <2>1, <2>2, <1>1, <1>6, Fields
<1>11. m \in Nat /\ m <= c.nb /\ m1 \in Nat /\ m1 <= c.nb
  BY <1>6
<1>12. CASE e.dead
  <2>1. r = e /\ e.nb = c.nb - m /\ e.total = c.total /\ m = c.nb /\ Edges(c, len)
    BY <1>3, <1>5, <1>9, <1>12 DEF Edged
  <2>2. ListedBlocks' = [s \in {} |-> Cache!NoOut] /\ c'.nb = 0 /\ c'.total = c.total
    <3>1. c'.nb = 0 /\ c'.total = c.total
      BY <1>6, <1>10, <2>1
    <3>2. GoneOf(c')..(c'.total - 1) = {}
      BY <3>1, <1>6 DEF GoneOf
    <3> QED BY <3>1, <3>2, <1>10 DEF Blocks
  <2>3. c'.dead = TRUE
    BY <1>10, <1>12, <2>1
  <2>4. IF Cache!Rotates(len) /\ ~Cache!Removes(Cache!First, c.total, Cache!PreviousLap)
          THEN c'.pos = 0 /\ c'.edge = TRUE ELSE c'.pos = c.pos /\ c'.edge = c.edge
    <3>1. Turns(c, len) /\ m1 < c.nb <=>
            Cache!Rotates(len) /\ ~Cache!Removes(Cache!First, c.total, Cache!PreviousLap)
      <4>1. m1 < c.nb <=> m1 # c.nb
        BY <1>6, <1>11
      <4> QED BY <4>1, <1>7, <1>8
    <3>2. IF Turns(c, len) /\ m1 < c.nb THEN e.pos = 0 /\ e.edge
                                        ELSE e.pos = c.pos /\ e.edge = c.edge
      BY <1>5 DEF Edged
    <3> QED BY <3>1, <3>2, <1>10, <2>1
  <2>5. Cache!Edging(len) /\ Cache!EdgeCache(len, c.total)
    BY <1>7, <1>8, <2>1
  <2> QED BY <1>1, <1>12, <2>2, <2>3, <2>4, <2>5 DEF Cache!InsertFaults, len
<1>13. CASE ~e.dead
  <2> DEFINE d == Evicts(e)
             g == Gone + m + d
  <2>1. /\ e.pos = WriteAt(c, len)
        /\ e.edge <=> Edges(c, len)
        /\ r.nb = e.nb - d + 1 /\ r.total = c.total + 1 /\ r.head = Place(e, d)
        /\ r.pos = e.pos + len
        /\ r.edge <=> e.edge \/ (c.total + 1) % NbBlkIdx = 0
        /\ r.slots = [c.slots EXCEPT ![c.tail] = [key |-> k, off |-> e.pos]]
        /\ e.nb - d \in 0..(NbBlkIdx - 1)
    BY <1>2, <1>13
  <2>2. e.nb = c.nb - m /\ e.head = Place(c, m) /\ d \in {0, 1} /\ d \in Nat
    BY <1>5 DEF Edged, Evicts
  <2>3. e.nb - d \in Nat /\ m + d <= c.nb /\ m + d \in Nat
    BY <1>6, <1>11, <2>1, <2>2
  <2>4. r.head = Place(c, m + d)
    <3>1. m + d <= NbBlkIdx
      BY <1>6, <2>3
    <3> QED BY <3>1, <1>6, <1>11, <2>1, <2>2, PlacePlus
  <2>5. /\ Cache!AfterNewSlot(len, Gone + m) = g
        /\ c'.nb = c.total + 1 - g /\ c'.total = c.total + 1 /\ g \in Nat
        /\ GoneOf(c') = g /\ g <= c.total
    <3>1. c.total - (Gone + m) = e.nb
      BY <1>6, <1>11, <2>2
    <3>2. d = IF Edges(c, len) /\ e.nb = NbBlkIdx THEN 1 ELSE 0
      BY <2>1 DEF Evicts
    <3> HIDE DEF d
    <3>3. Cache!AfterNewSlot(len, Gone + m) = g
      <4>1. Cache!AfterNewSlot(len, Gone + m) =
              IF Cache!Edging(len) /\ c.total - (Gone + m) = NbBlkIdx
                THEN (Gone + m) + 1 ELSE Gone + m
        BY DEF Cache!AfterNewSlot
      <4>2. (Cache!Edging(len) /\ c.total - (Gone + m) = NbBlkIdx) <=>
              (Edges(c, len) /\ e.nb = NbBlkIdx)
        BY <3>1, <1>7
      <4>3. CASE Edges(c, len) /\ e.nb = NbBlkIdx
        BY <4>1, <4>2, <4>3, <3>2
      <4>4. CASE ~(Edges(c, len) /\ e.nb = NbBlkIdx)
        BY <4>1, <4>2, <4>4, <3>2, <1>6, <1>11
      <4> QED BY <4>3, <4>4
    <3>4. c'.nb = c.total + 1 - g /\ c'.total = c.total + 1 /\ g \in Nat /\ g <= c.total
      BY <1>6, <1>10, <1>11, <2>1, <2>2, <2>3
    <3> QED BY <3>3, <3>4, <1>6 DEF GoneOf
  <2> DEFINE entry == [key |-> k, off |-> e.pos]
  <2> HIDE DEF d
  <2>6. ASSUME NEW s \in g..c.total
        PROVE  Blocks(c')[s] = IF s = c.total THEN entry ELSE ListedBlocks[s]
    <3> DEFINE i == s - g
               n == c.nb - (m + d)
    <3>1. /\ i \in Nat /\ i <= n /\ n \in 0..(NbBlkIdx - 1) /\ i \in 0..(NbBlkIdx - 1)
          /\ (m + d) + i = s - Gone /\ (i = n <=> s = c.total) /\ (m + d) + n = c.nb
          /\ (m + d) + i <= NbBlkIdx /\ (m + d) + n <= NbBlkIdx /\ n \in Nat
      <4>1. s \in Int /\ Gone + m + d <= s /\ s <= c.total
        BY <2>5
      <4>2. c.nb - m - d \in 0..(NbBlkIdx - 1)
        BY <2>1, <2>2
      <4> QED BY <4>1, <4>2, <1>6, <1>11, <2>2, <2>3
    <3> HIDE DEF i, n
    <3>2. Place(c', i) = Place(c, s - Gone) /\ Place(c', n) = Place(c, c.nb)
      BY <3>1, <1>6, <1>10, <2>3, <2>4, PlacePlus
    <3>3. Place(c', i) \in Slots /\ (Place(c', i) = Place(c', n) <=> i = n)
      BY <3>1, <1>10, AgeLemma
    <3>4. c.tail = Place(c', n)
      BY <3>2, <1>6, TailLemma
    <3>5. Blocks(c')[s] = c'.slots[Place(c', i)]
      BY <1>6, <2>5 DEF Blocks, i
    <3>6. c'.slots = [c.slots EXCEPT ![c.tail] = entry]
      BY <1>10, <2>1
    <3>7. c'.slots[Place(c', i)] = IF i = n THEN entry ELSE c.slots[Place(c', i)]
      <4>1. c.slots \in [Slots -> [key : Keys \cup {NoKey}, off : 0..CacheSz]]
        BY <1>6, Fields
      <4> HIDE DEF entry
      <4> QED BY <4>1, <3>3, <3>4, <3>6
    <3>8. i # n => ListedBlocks[s] = c.slots[Place(c, s - Gone)]
      <4>1. i # n => s \in Gone..(c.total - 1)
        BY <3>1, <1>6, <2>3
      <4> QED BY <4>1, <1>7
    <3> QED BY <3>1, <3>2, <3>5, <3>7, <3>8
  <2>7. ListedBlocks' = [s \in g..c.total |-> IF s = c.total THEN entry ELSE ListedBlocks[s]]
    <3>1. GoneOf(c')..(c'.total - 1) = g..c.total
      BY <1>6, <2>5
    <3>2. Blocks(c') = [s \in g..c.total |-> Blocks(c')[s]]
      BY <3>1 DEF Blocks
    <3> HIDE DEF entry, g
    <3> QED BY <3>2, <1>10, <2>6
  <2>8. ~(Cache!Edging(len) /\ Gone + m = c.total)
    BY <1>7, <1>8, <1>9, <1>13
  <2>9. c'.edge = (Cache!Edging(len) \/ (c.total + 1) % NbBlkIdx = 0)
    BY <1>7, <1>10, <2>1
  <2>10. c'.dead = c.dead
    BY <1>2, <1>10, <1>13
  <2>11. entry = [key |-> k, off |-> Cache!WritePos(len)] /\ c'.pos = Cache!WritePos(len) + len
         /\ out' = [compressed |-> FALSE, dict_offset |-> Cache!WritePos(len), key |-> k]
    BY <1>1, <1>7, <1>10, <1>13, <2>1
  <2> HIDE DEF entry, g
  <2>12. Cache!Insert(k)
    BY <1>1, <1>8, <2>5, <2>7, <2>8, <2>9, <2>10, <2>11 DEF Cache!Insert, len
  <2> QED BY <2>12
<1> QED BY <1>12, <1>13

LEMMA ResetMap ==
  ASSUME IndexInvOf(c), Reset
  PROVE  Cache!Reset
<1>1. c \in CacheType /\ ~c.dead
  BY DEF IndexInvOf, Reset
<1>2. IndexInvOf(c') /\ c'.nb = 0 /\ c'.total = 0 /\ c'.pos = 0 /\ ~c'.edge /\ ~c'.dead
  BY <1>1, ResetInv DEF Reset
<1>3. c'.edge = FALSE /\ c'.dead = c.dead
  BY <1>1, <1>2, Fields DEF IndexInvOf
<1>4. ListedBlocks' = [s \in {} |-> Cache!NoOut]
  <2>1. ListedBlocks' = ListedOf(c')
    BY DEF ListedBlocks, ListedOf, List, GoneOf
  <2>2. GoneOf(c')..(c'.total - 1) = {}
    BY <1>2 DEF GoneOf
  <2> QED BY <2>1, <2>2 DEF ListedOf
<1> QED BY <1>1, <1>2, <1>3, <1>4 DEF Cache!Reset, Reset

LEMMA LoadMap ==
  ASSUME SoundLoads, IndexInvOf(c), NEW m \in 0..MaxTotal, Load(m)
  PROVE  Cache!Load(m)
<1>1. /\ ~c.dead /\ m <= c.total /\ LoadKind(m) = "sound"
      /\ IndexInvOf(c') /\ c'.nb = Kept(m) /\ c'.total = KeptTotal(m)
      /\ c'.head = c.head /\ c'.slots = c.slots /\ ~c'.dead
      /\ c'.edge <=> c.total > c.nb
      /\ c'.pos = c.slots[Place(c, Kept(m) - 1)].off
                    + LenOf(c.slots[Place(c, Kept(m) - 1)].key)
  BY LoadLemma
<1>2. /\ c.nb \in 1..NbBlkIdx /\ Kept(m) \in 1..c.nb /\ Gone \in Nat
      /\ KeptTotal(m) \in 0..c.total /\ Gone + Kept(m) = KeptTotal(m)
  BY <1>1, LoadRing
<1>3. /\ c.nb \in Nat /\ c.total = Gone + c.nb /\ c.total \in Nat
      /\ NbBlkIdx \in Nat /\ c.head \in Slots /\ c \in CacheType /\ Counted(c)
      /\ m \in Nat /\ Kept(m) \in Nat /\ KeptTotal(m) \in Nat
  <2>1. /\ c.nb \in Nat /\ c.total = Gone + c.nb /\ c.total \in Nat
        /\ NbBlkIdx \in Nat /\ c.head \in Slots /\ c \in CacheType /\ Counted(c)
    BY ListedLemma, RingLemma DEF Gone, GoneOf
  <2> QED BY <2>1, <1>2
<1>4. /\ Cache!First = Gone /\ Cache!Live = Gone..(c.total - 1)
      /\ \A s \in Cache!Live : ListedBlocks[s] = c.slots[Place(c, s - Gone)]
  BY CacheLemma
<1>5. Cache!LoadIsSound(m)
  <2>1. c.head = Gone % NbBlkIdx /\ c.tail = c.total % NbBlkIdx
    BY <1>3 DEF Counted, Gone
  <2>2. /\ c.nb # 0 /\ ~(c.nb = NbBlkIdx /\ Gone = 0)
        /\ m > 0 => /\ ~(m < Gone) /\ m # Gone
                    /\ ~(c.head >= c.tail /\ m - Gone < NbBlkIdx - c.head)
    BY <1>1, SoundKind
  <2> DEFINE h == c.head
             t == c.tail
  <2>3. h \in Int /\ t \in Int
    BY <1>3, Fields, RingLemma
  <2>4. Cache!Slot(Cache!First) = h /\ Cache!Slot(c.total) = t
    BY <1>4, <2>1 DEF Cache!Slot
  <2> HIDE DEF h, t
  <2>5. ~(c.nb = NbBlkIdx /\ c.total = NbBlkIdx) /\ c.nb > 0
    BY <1>3, <2>2, <1>2
  <2>6. m > 0 => /\ Gone < m
                 /\ h < t \/ m - Gone >= NbBlkIdx - h
    BY <1>2, <1>3, <2>2, <2>3 DEF h, t
  <2> QED BY <1>1, <1>4, <2>4, <2>5, <2>6 DEF Cache!LoadIsSound
<1> DEFINE total == IF m = 0 THEN c.total ELSE m
<1>6. total = KeptTotal(m)
  BY DEF KeptTotal
<1>7. ListedBlocks' = [s \in Gone..(total - 1) |-> ListedBlocks[s]]
  <2>1. ListedBlocks' = ListedOf(c')
    BY DEF ListedBlocks, ListedOf, List, GoneOf
  <2>2. ListedBlocks' = Blocks(c')
    BY <1>1, <2>1, ListedLemma
  <2>3. GoneOf(c') = Gone /\ c'.total = total
    BY <1>1, <1>2, <1>3, <1>6 DEF GoneOf
  <2>4. \A i : Place(c', i) = Place(c, i)
    BY <1>1 DEF Place
  <2>5. ASSUME NEW s \in Gone..(total - 1)
        PROVE  ListedBlocks[s] = c'.slots[Place(c', s - Gone)]
    <3>1. s \in Gone..(c.total - 1)
      BY <1>2, <1>3, <1>6
    <3> QED BY <3>1, <1>1, <1>4, <2>4
  <2> HIDE DEF total
  <2> QED BY <2>2, <2>3, <2>5 DEF Blocks
<1>8. c'.pos = Cache!End(ListedBlocks[total - 1])
  <2> DEFINE p == Place(c, Kept(m) - 1)
  <2>1. total - 1 \in Gone..(c.total - 1) /\ (total - 1) - Gone = Kept(m) - 1
    BY <1>2, <1>3, <1>6
  <2>2. ListedBlocks[total - 1] = c.slots[p]
    BY <1>4, <2>1
  <2>3. c.slots[p].key \in Keys
    <3>1. Kept(m) - 1 \in 0..(NbBlkIdx - 1) /\ Kept(m) - 1 < c.nb
      BY <1>2, <1>3
    <3>2. p \in Slots /\ Age(c, p) = Kept(m) - 1
      BY <3>1, <1>3, AgeLemma
    <3> QED BY <3>1, <3>2 DEF IndexInvOf, LiveKeys, Among
  <2>4. LenOf(c.slots[p].key) = BlkLen[c.slots[p].key]
    BY <2>3, IndexAssumption DEF LenOf
  <2> QED BY <1>1, <2>2, <2>4 DEF Cache!End
<1>9. c'.edge = (c.total > c.nb) /\ c'.dead = c.dead
  <2>1. c'.edge \in BOOLEAN /\ c'.dead \in BOOLEAN /\ c.dead \in BOOLEAN
    BY <1>1, <1>3, Fields DEF IndexInvOf
  <2> QED BY <2>1, <1>1
<1>10. c'.nb = total - Gone /\ c'.total = total
  BY <1>1, <1>2, <1>3, <1>6
<1>11. UNCHANGED out
  BY DEF Load
<1> HIDE DEF total
<1> QED BY <1>1, <1>4, <1>5, <1>7, <1>8, <1>9, <1>10, <1>11 DEF Cache!Load, total

LEMMA IndexStepMap ==
  ASSUME SoundLoads, IndexInv, [Next]_vars
  PROVE  [Cache!Next]_(Cache!vars)
<1>0. IndexInvOf(c)
  BY DEF IndexInv
<1>1. ASSUME NEW k \in Keys, ~c.dead, Hit(k) \/ Insert(k) PROVE Cache!Store(k)
  BY <1>0, <1>1, HitMap, InsertMap DEF Cache!Store
<1>2. ASSUME UNCHANGED c PROVE ListedBlocks' = ListedBlocks
  BY <1>2 DEF ListedBlocks, List
<1>3. ASSUME NEW k \in Keys, CompressBlock(k) PROVE Cache!CompressBlock(k)
  BY <1>1, <1>3 DEF CompressBlock, Cache!CompressBlock
<1>4. ASSUME NEW k \in Keys, Flush(k) PROVE Cache!Flush(k)
  BY <1>1, <1>2, <1>4 DEF Flush, Cache!Flush, Cache!FlushSmall
<1>5. CASE Reset
  BY <1>0, <1>5, ResetMap DEF Cache!Next
<1>6. ASSUME NEW m \in 0..MaxTotal, Load(m) PROVE Cache!Next
  BY <1>0, <1>6, LoadMap DEF Cache!Next
<1>7. CASE UNCHANGED vars
  BY <1>2, <1>7 DEF vars, Cache!vars
<1> QED BY <1>3, <1>4, <1>5, <1>6, <1>7 DEF Next, Cache!Next

LEMMA IndexInitMap == Init => Cache!Init
<1> SUFFICES ASSUME Init PROVE Cache!Init
  OBVIOUS
<1>1. /\ c.nb = 0 /\ c.total = 0 /\ c.pos = 0 /\ c.edge = FALSE /\ c.dead = FALSE
      /\ out = NoOut
  BY DEF Init
<1>2. ListedBlocks = [s \in {} |-> Cache!NoOut]
  <2>1. (c.total - c.nb)..(c.total - 1) = {}
    BY <1>1
  <2> QED BY <2>1 DEF ListedBlocks
<1> QED BY <1>1, <1>2 DEF Cache!Init, NoOut, Cache!NoOut

(* ImplementsDreCache: the slots, pointers and chains lose, revive and     *)
(* reorder no block of the list of DreCache, whatever is inserted, evicted *)
(* and soundly reloaded, in whatever order.                                *)
THEOREM IndexImplementsDreCache == SoundLoads => (Spec => ImplementsDreCache)
<1> SUFFICES ASSUME SoundLoads PROVE Spec => ImplementsDreCache
  OBVIOUS
<1>1. Init => Cache!Init
  BY IndexInitMap
<1>2. IndexInv /\ [Next]_vars => [Cache!Next]_(Cache!vars)
  BY IndexStepMap
<1>3. Spec => []IndexInv
  BY IndexInvariance
<1> QED BY <1>1, <1>2, <1>3, PTL DEF Spec, ImplementsDreCache, Cache!Spec

=============================================================================
